-------------------------------- MODULE Host --------------------------------
(***************************************************************************)
(* The life of the host (src/src/host/host.cpp): MinaMod_Init brings Lua   *)
(* up, loads the mods and installs the teardown callback; at GameShutdown  *)
(* the engine walks the callbacks of that hook, the host's among them.     *)
(*                                                                         *)
(* The engine's part is what host.cpp observed of it: callbacks run from   *)
(* the highest priority down, those of one priority in the order they were *)
(* installed.  One that is removed during the walk may still be called.    *)
(*                                                                         *)
(* The handlers of one (GameShutdown, priority) pair share a callback.     *)
(* What a dispatch of it does beside running them is module Events.        *)
(*                                                                         *)
(* A game whose table has no RemoveHook keeps the mods' callbacks through  *)
(* a shutdown.  Each is a thunk of a numbered slot, and when the game has  *)
(* started the mod again the number is that of another pair, or of none.   *)
(***************************************************************************)
EXTENDS Integers, Sequences

CONSTANTS Priorities,    \* priorities mods register game_shutdown at
          Floor,         \* kTeardownPriorityFloor: -1000000 in the code
          MaxHandlers,   \* bound: game_shutdown handlers registered in a run
          MaxRuns        \* bound: how often the game initialises the mod

ASSUME HostAssumption ==
  /\ Priorities \subseteq Int /\ Floor \in Int
  /\ MaxHandlers \in Nat /\ MaxRuns \in Nat

VARIABLES
  canRemove,  \* g_api->RemoveHook is not null
  phase,      \* "off", "starting", "failed", "loading", "loaded", "running",
              \* "walking" the callbacks of GameShutdown, and "over"
  luaOpen,    \* g_L is not null
  logOpen,    \* the log file is open
  runs,       \* how often MinaMod_Init was called
  chain,      \* the engine's callbacks on GameShutdown
  installs,   \* how many were installed so far
  handlers,   \* the priorities of the handlers, in registration order
  todo,       \* the callbacks the walk has still to call
  calling,    \* the handlers the running dispatch has still to call
  inHandler,  \* a game_shutdown handler is running
  entry,      \* history: what was registered when the walk began
  ran         \* history: the handlers that ran, in order

engine   == <<chain, installs>>
dispatch == <<calling, inHandler>>
walk     == <<todo, calling, inHandler, entry, ran>>
vars == <<canRemove, phase, luaOpen, logOpen, runs, chain, installs, handlers, walk>>

NeverInstalled(p) == FALSE    \* a fault: each handler gets a callback of its own
Installed(p) == \E b \in chain : b.owner = "mods" /\ b.priority = p /\ b.run = runs
KeepAll(c) == c               \* a fault: the mods' callbacks are not removed
HostsOnly(c) == {b \in c : b.owner = "host"}

(* InstallHook: a callback is later than those installed before it.        *)
Install(o, p) ==
  /\ chain' = chain \cup {[owner |-> o, priority |-> p, run |-> runs, at |-> installs]}
  /\ installs' = installs + 1

(* Which of the callbacks the engine calls first.                          *)
IsFirst(b, c) ==
  \A d \in c : \/ b.priority > d.priority
               \/ b.priority = d.priority /\ b.at <= d.at

Registered == {[id |-> k, priority |-> handlers[k]] : k \in DOMAIN handlers}
RegisteredAt(p) == {h \in Registered : h.priority = p}

(* The callbacks of the mods are those of this run.                        *)
NoneLeftOver == \A b \in chain : b.owner = "mods" => b.run = runs

Init ==
  /\ canRemove \in BOOLEAN
  /\ phase = "off" /\ luaOpen = FALSE /\ logOpen = FALSE /\ runs = 0
  /\ chain = {} /\ installs = 0 /\ handlers = <<>>
  /\ todo = {} /\ calling = {} /\ inHandler = FALSE
  /\ entry = {} /\ ran = <<>>

-----------------------------------------------------------------------------
(* MinaMod_Init.                                                           *)

(* The log is opened; a version mismatch closes it and ends everything.    *)
(* A game that initialises the mod again does so after a full shutdown.    *)
MinaModInit ==
  /\ phase \in {"off", "failed", "over"} /\ ~luaOpen /\ runs < MaxRuns
  /\ runs' = runs + 1
  /\ \/ logOpen' = TRUE /\ phase' = "starting"
     \/ logOpen' = FALSE /\ phase' = "failed"
  /\ todo' = {} /\ entry' = {} /\ ran' = <<>>
  /\ UNCHANGED <<luaOpen, engine, handlers, dispatch>>

(* start_lua gives up: without a state (luaL_newstate failed), or with one *)
(* that is left open (folded thunks, or the module's folder not found).    *)
StartLuaFails ==
  /\ phase = "starting"
  /\ luaOpen' \in BOOLEAN
  /\ phase' = "failed"
  /\ UNCHANGED <<logOpen, runs, engine, handlers, walk>>

StartLua ==
  /\ phase = "starting"
  /\ luaOpen' = TRUE
  /\ phase' = "loading"
  /\ UNCHANGED <<logOpen, runs, engine, handlers, walk>>

(* mina.on_event("game_shutdown", fn, p): by main.lua, by a handler of any *)
(* event while the game runs, or by a game_shutdown handler during the     *)
(* walk.  A new callback is for the next walk; a new handler of a callback *)
(* that is still to be called is for this one.                             *)
Register(p) ==
  /\ luaOpen /\ (phase \in {"loading", "running"} \/ (phase = "walking" /\ inHandler))
  /\ Len(handlers) < MaxHandlers
  /\ \/ Installed(p) /\ UNCHANGED engine
     \/ ~Installed(p) /\ Install("mods", p)
  /\ handlers' = Append(handlers, p)
  /\ UNCHANGED <<phase, luaOpen, logOpen, runs, walk>>

LoadModsReturns ==
  /\ phase = "loading"
  /\ phase' = "loaded"
  /\ UNCHANGED <<luaOpen, logOpen, runs, engine, handlers, walk>>

(* A fault: the teardown is installed at an ordinary priority.             *)
InstallTeardownHigh ==
  /\ phase = "loaded"
  /\ \E p \in Priorities : p > Floor /\ Install("host", p)
  /\ phase' = "running"
  /\ UNCHANGED <<luaOpen, logOpen, runs, handlers, walk>>

(* The teardown callback is installed last, and nothing looks at whether   *)
(* the game took it.                                                       *)
InstallTeardown ==
  /\ phase = "loaded"
  /\ UNCHANGED engine \/ Install("host", Floor)
  /\ phase' = "running"
  /\ UNCHANGED <<luaOpen, logOpen, runs, handlers, walk>>

-----------------------------------------------------------------------------
(* GameShutdown.                                                           *)

RaiseGameShutdown ==
  /\ phase \in {"running", "failed"}
  /\ todo' = chain
  /\ entry' = Registered
  /\ phase' = "walking"
  /\ UNCHANGED <<luaOpen, logOpen, runs, engine, handlers, dispatch, ran>>

(* The engine calls the next callback, when the one before has returned.   *)
Calls(b) ==
  /\ phase = "walking" /\ calling = {} /\ ~inHandler
  /\ b \in todo /\ IsFirst(b, todo)

(* A thunk of the pool: dispatch returns at once without a Lua state, and  *)
(* else goes through the handlers its pair has by now.  A thunk left over  *)
(* from an earlier run goes through whatever its slot holds: the handlers  *)
(* of one priority, or none of this hook's.                                *)
CallThunk ==
  /\ \E b \in todo :
       /\ Calls(b) /\ b.owner = "mods"
       /\ todo' = todo \ {b}
       /\ \/ ~luaOpen /\ calling' = {}
          \/ luaOpen /\ b.run = runs /\ calling' = RegisteredAt(b.priority)
          \/ /\ luaOpen /\ b.run # runs
             /\ calling' = {} \/ \E p \in Priorities : calling' = RegisteredAt(p)
  /\ UNCHANGED <<phase, luaOpen, logOpen, runs, engine, handlers, inHandler, entry, ran>>

(* call_handlers: the handlers of a pair in the order of registration.     *)
RunHandler ==
  /\ \E h \in calling :
       /\ \A g \in calling : h.id <= g.id
       /\ calling' = calling \ {h}
       /\ ran' = Append(ran, h)
  /\ ~inHandler /\ inHandler' = TRUE
  /\ UNCHANGED <<phase, luaOpen, logOpen, runs, engine, handlers, todo, entry>>

(* The handler returns or raises.                                          *)
HandlerEnds ==
  /\ inHandler /\ inHandler' = FALSE
  /\ UNCHANGED <<phase, luaOpen, logOpen, runs, engine, handlers, todo, calling, entry, ran>>

(* on_game_shutdown: events_shutdown removes the mods' callbacks if it     *)
(* can and forgets all slots, the Lua state is closed, then the log.       *)
OnGameShutdown ==
  /\ \E b \in todo :
       /\ Calls(b) /\ b.owner = "host"
       /\ todo' = todo \ {b} \/ (canRemove /\ todo' = HostsOnly(todo \ {b}))
  /\ \/ canRemove /\ chain' = HostsOnly(chain)
     \/ ~canRemove /\ chain' = chain
  /\ handlers' = <<>>
  /\ luaOpen' = FALSE
  /\ logOpen' = FALSE
  /\ UNCHANGED <<phase, runs, installs, dispatch, entry, ran>>

WalkEnds ==
  /\ phase = "walking" /\ todo = {} /\ calling = {} /\ ~inHandler
  /\ phase' = "over"
  /\ UNCHANGED <<luaOpen, logOpen, runs, engine, handlers, walk>>

-----------------------------------------------------------------------------
Next ==
  /\ UNCHANGED canRemove
  /\ \/ MinaModInit \/ StartLua \/ StartLuaFails
     \/ \E p \in Priorities : Register(p)
     \/ LoadModsReturns \/ InstallTeardown
     \/ RaiseGameShutdown \/ CallThunk \/ RunHandler \/ HandlerEnds
     \/ OnGameShutdown \/ WalkEnds

Spec == Init /\ [][Next]_vars

-----------------------------------------------------------------------------
Callbacks ==
  [owner : {"host", "mods"}, priority : Priorities \cup {Floor}, run : Nat, at : Nat]
Handlers  == [id : Nat \ {0}, priority : Priorities]

(* The state is well typed, and the engine has one callback of the pool    *)
(* for each priority and run.                                              *)
TypeOK ==
  /\ canRemove \in BOOLEAN
  /\ phase \in {"off", "starting", "failed", "loading", "loaded", "running", "walking", "over"}
  /\ luaOpen \in BOOLEAN /\ logOpen \in BOOLEAN /\ inHandler \in BOOLEAN
  /\ runs \in 0 .. MaxRuns /\ installs \in Nat
  /\ chain \subseteq Callbacks /\ todo \subseteq Callbacks
  /\ handlers \in Seq(Priorities)
  /\ entry \subseteq Handlers /\ calling \subseteq Handlers /\ ran \in Seq(Handlers)
  /\ \A b, d \in chain :
       /\ b.owner = "mods" /\ d.owner = "mods"
       /\ b.priority = d.priority /\ b.run = d.run
       => b = d

(* on_game_shutdown runs last: when the walk is over, every game_shutdown  *)
(* handler that was registered above the floor when it began has run.      *)
(* And the handlers run by priority, then in registration order, so that   *)
(* none runs twice, unless the engine kept callbacks of an earlier run.    *)
ModsAreToldBeforeTeardown ==
  /\ phase = "over" =>
       \A h \in entry : h.priority > Floor => \E n \in DOMAIN ran : ran[n] = h
  /\ NoneLeftOver =>
       \A i, j \in DOMAIN ran :
         i < j => \/ ran[i].priority > ran[j].priority
                  \/ ran[i].priority = ran[j].priority /\ ran[i].id < ran[j].id

(* Where the game can remove callbacks, none of a mod stays with it once   *)
(* its Lua state is gone, through every failed start, shutdown and second  *)
(* start; and the handlers always run with a Lua state, even when called   *)
(* through a callback that stayed or that the walk had still in hand.      *)
NoThunkWithoutLua ==
  /\ canRemove /\ (\E b \in chain : b.owner = "mods") => luaOpen
  /\ calling # {} \/ inHandler => luaOpen
=============================================================================
