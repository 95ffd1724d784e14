------------------------------- MODULE Events -------------------------------
(***************************************************************************)
(* Registration and dispatch of engine hooks (src/src/host/events.cpp).    *)
(*                                                                         *)
(* Lua registers handlers with on_event; each (hook, priority) pair claims *)
(* one of a fixed pool of slots, whose thunk the engine calls.  dispatch   *)
(* runs the slot's handlers one by one over a shared event table and then  *)
(* copies it back.  Between two statements of a handler anything may       *)
(* happen that Lua can ask for: it may register handlers, take handles,    *)
(* write mod_handled, or call into the engine, which may raise a hook and  *)
(* so dispatch again, the same slot included, while the first dispatch is  *)
(* still on the C stack.                                                   *)
(*                                                                         *)
(* The engine is external: it raises hooks, walks the callbacks installed  *)
(* on one with higher priorities first (docs/events.md), those of one      *)
(* priority in the order they were installed, passes all of them the same  *)
(* context, and destroys worlds.                                           *)
(*                                                                         *)
(* A game may offer no RemoveHook.  Its callbacks then outlive the Lua     *)
(* state, and in a second start a thunk of the first may reach a slot that *)
(* now belongs to another hook: the dispatch `strays', and reads and       *)
(* writes a context of another type.                                       *)
(***************************************************************************)
EXTENDS Integers, Sequences, FiniteSets

CONSTANTS EventNames,       \* the luaName column of kEvents
          Hooks,            \* the hooks the engine raises
          HookOf,           \* the hookName column: event name -> hook
          Cancellable,      \* the events whose context has modHandled
          PlayerWorldOnly,  \* the events filtered on the player's world
          WorldDestroy,     \* the hook after which handles are invalidated
          GameShutdown,     \* the hook in whose walk the host tears down
          Priorities,       \* priorities mods register at
          Worlds,           \* worlds the engine may create
          NoWorld,          \* PlayerGetWorld() returned none of Worlds
          CannotAsk,        \* the game has no PlayerGetWorld
          NoEvent,          \* the def of an unused slot
          PoolSize,         \* kPoolSize: 128 in the code
          MaxReports,       \* kMaxReports: 3 in the code
          MaxHandlers,      \* bound: handlers registered in a start of the host
          MaxDepth,         \* bound: hooks raised inside hooks
          MaxOpens          \* bound: times the host is initialised

ASSUME EventsAssumption ==
  /\ Cancellable \subseteq EventNames /\ PlayerWorldOnly \subseteq EventNames
  /\ HookOf \in [EventNames -> Hooks]
  /\ Priorities \subseteq Int /\ NoEvent \notin EventNames
  /\ NoWorld \notin Worlds /\ CannotAsk \notin Worlds \cup {NoWorld}
  /\ PoolSize \in Nat \ {0} /\ MaxReports \in Nat \ {0} /\ MaxHandlers \in Nat
  /\ MaxDepth \in Nat /\ MaxOpens \in Nat
  \* kEvents: names that share a hook agree on everything but the filter
  /\ \A e, f \in EventNames : HookOf[e] = HookOf[f] => (e \in Cancellable <=> f \in Cancellable)

SlotIds == 1 .. PoolSize

VARIABLES
  canRemove,   \* g_api->RemoveHook is not null
  luaOpen,     \* g_L is not null
  opens,       \* how often events_open ran
  loading,     \* main.lua files are being run
  slots,       \* g_slots, without the engine's handle
  installed,   \* the engine's side: the thunks installed on its hooks
  handlers,    \* the registry table "minamodlua.handlers"
  reports,     \* g_reports
  warned,      \* g_warnedNotCancellable
  stack,       \* the hook invocations on the C stack, the innermost last
  worlds,      \* the engine's worlds
  live,        \* the worlds into which Lua holds a handle that validates
  playerWorld  \* what PlayerGetWorld() returns

host   == <<canRemove, luaOpen, opens, loading>>
pool   == <<slots, installed, handlers>>
limits == <<reports, warned>>
engine == <<worlds, live, playerWorld>>
vars   == <<canRemove, luaOpen, opens, loading, slots, installed, handlers, reports, warned,
            stack, worlds, live, playerWorld>>

FreeSlot == [used |-> FALSE, event |-> NoEvent, priority |-> 0, disabled |-> FALSE]

SlotHook(s) == HookOf[slots[s].event]

(* A thunk as this start of the host installs it.                          *)
Thunk(s, h, p) == [slot |-> s, hook |-> h, priority |-> p, start |-> opens]

(* The thunks whose handles the slots hold.                                *)
Thunks == {Thunk(s, SlotHook(s), slots[s].priority) : s \in {r \in SlotIds : slots[r].used}}

(* The engine begins walking the callbacks of a hook with a fresh context; *)
(* a native callback may have set modHandled in it.  The last six fields   *)
(* are history: the handlers this dispatch called, whether one of them     *)
(* left mod_handled true, whether modHandled has to be set by now, whether *)
(* a slot of the hook was told, whether the last dispatch was aborted, and *)
(* whether one strayed.                                                    *)
NewInvocation(h, w, m) ==
  [hook |-> h, world |-> w, modHandled |-> m,
   todo |-> {t \in installed : t.hook = h},
   at |-> "engine", slot |-> 0, i |-> 0, count |-> 0, isPlayerWorld |-> FALSE,
   handled |-> FALSE, field |-> FALSE,
   ran |-> <<>>, asked |-> FALSE, claim |-> IF m THEN "yes" ELSE "no",
   dispatched |-> FALSE, aborted |-> FALSE, stray |-> FALSE]

Top == stack[Len(stack)]
SetTop(inv) == stack' = [stack EXCEPT ![Len(stack)] = inv]
TopIs(where) == stack # <<>> /\ Top.at = where

(* Lua code runs: main.lua at load time, or the innermost handler.         *)
LuaRuns == luaOpen /\ (TopIs("lua") \/ (stack = <<>> /\ loading))

Init ==
  /\ canRemove \in BOOLEAN /\ luaOpen = TRUE /\ opens = 1 /\ loading = TRUE
  /\ slots = [s \in SlotIds |-> FreeSlot]
  /\ installed = {}
  /\ handlers = [s \in SlotIds |-> <<>>]
  /\ reports = [s \in SlotIds |-> 0] /\ warned = [s \in SlotIds |-> FALSE]
  /\ stack = <<>>
  /\ worlds = Worlds /\ live = {}
  /\ playerWorld \in Worlds \cup {NoWorld, CannotAsk}

-----------------------------------------------------------------------------
(* on_event.                                                               *)

SlotsFor(h, p) == {s \in SlotIds : slots[s].used /\ SlotHook(s) = h /\ slots[s].priority = p}
Unused == {s \in SlotIds : ~slots[s].used}
Least(S) == CHOOSE s \in S : \A r \in S : s <= r

Registered == UNION {{s} \X DOMAIN handlers[s] : s \in SlotIds}

Register(s, e) ==
  /\ Cardinality(Registered) < MaxHandlers
  /\ handlers' = [handlers EXCEPT ![s] = Append(@, [event |-> e, filter |-> e \in PlayerWorldOnly])]

(* The pair already has a slot: the handler joins its list.                *)
JoinSlot(e, p) ==
  \E s \in SlotsFor(HookOf[e], p) :
    /\ Register(s, e)
    /\ UNCHANGED <<slots, installed>>

(* The first unused slot is claimed, once the engine took its thunk.       *)
ClaimSlot(e, p) ==
  /\ SlotsFor(HookOf[e], p) = {}
  /\ Unused # {}
  /\ LET s == Least(Unused) IN
       /\ installed' = installed \cup {Thunk(s, HookOf[e], p)}
       /\ slots' = [slots EXCEPT ![s] = [used |-> TRUE, event |-> e, priority |-> p,
                                         disabled |-> FALSE]]
       /\ Register(s, e)

(* A fault: the slot is taken before the game is asked.                    *)
RefuseTakesSlot(e, p) ==
  /\ SlotsFor(HookOf[e], p) = {} /\ Unused # {}
  /\ slots' = [slots EXCEPT ![Least(Unused)] = [used |-> TRUE, event |-> e, priority |-> p,
                                               disabled |-> FALSE]]
  /\ UNCHANGED <<installed, handlers>>

(* The game refused the hook, or the pool is full: on_event raises.        *)
RefuseSlot(e, p) ==
  /\ SlotsFor(HookOf[e], p) = {}
  /\ UNCHANGED pool

OnEvent(e, p) ==
  /\ LuaRuns
  /\ JoinSlot(e, p) \/ ClaimSlot(e, p) \/ RefuseSlot(e, p)
  /\ UNCHANGED <<host, limits, engine, stack>>

-----------------------------------------------------------------------------
(* dispatch and protected_dispatch.                                        *)

(* The engine calls the highest priority first, then the oldest.           *)
IsNext(t) ==
  \A r \in Top.todo : \/ t.priority > r.priority
                      \/ t.priority = r.priority /\ t.start <= r.start

(* A fault: dispatch invalidates only if the handlers had their turn.      *)
LiveAfterLoopOnly(s) == IF SlotHook(s) = WorldDestroy /\ Top.at = "loop" THEN {} ELSE live

(* Whatever happened inside, a world that goes away takes every handle     *)
(* with it.                                                                *)
LiveAfter(s) == IF SlotHook(s) = WorldDestroy THEN {} ELSE live

(* dispatch returns to the engine.                                         *)
Leave(inv, s) ==
  /\ SetTop([inv EXCEPT !.at = "engine", !.slot = 0, !.i = 0, !.count = 0,
                        !.isPlayerWorld = FALSE, !.handled = FALSE, !.field = FALSE,
                        !.ran = <<>>, !.asked = FALSE])
  /\ live' = LiveAfter(s)
  /\ UNCHANGED <<worlds, playerWorld>>

Dispatchable(s) == luaOpen /\ slots[s].used /\ ~slots[s].disabled

(* A thunk that has nothing to do: no Lua state, no slot, or disabled.     *)
SkipThunk ==
  /\ TopIs("engine")
  /\ \E t \in Top.todo :
       /\ IsNext(t) /\ ~Dispatchable(t.slot)
       /\ SetTop([Top EXCEPT !.todo = @ \ {t}])
  /\ UNCHANGED <<host, pool, limits, engine>>

(* The thunk is not that of a slot of the hook that was raised.            *)
Strays(s) == SlotHook(s) # Top.hook

(* The invocation with the engine's call of a thunk that dispatches.       *)
Call(t) == [Top EXCEPT !.todo = @ \ {t}, !.dispatched = @ \/ ~Strays(t.slot),
                       !.stray = @ \/ Strays(t.slot)]

(* push_event refuses the context: the slot is disabled for good.          *)
LayoutFails ==
  /\ TopIs("engine")
  /\ \E t \in Top.todo :
       /\ IsNext(t) /\ Dispatchable(t.slot)
       /\ slots' = [slots EXCEPT ![t.slot].disabled = TRUE]
       /\ Leave([Call(t) EXCEPT !.aborted = TRUE], t.slot)
  /\ UNCHANGED <<host, installed, handlers, limits>>

(* What a read of the context gives: anything, if it is of another type.   *)
Reads(s, v) == IF Strays(s) THEN BOOLEAN ELSE {v}

(* push_event builds the event table, the player's world and the number of *)
(* handlers are asked for once, and `handled' is seeded from the context.  *)
Enter ==
  /\ TopIs("engine")
  /\ \E t \in Top.todo :
       /\ IsNext(t) /\ Dispatchable(t.slot)
       /\ \E m \in Reads(t.slot, Top.modHandled), w \in Reads(t.slot, Top.world = playerWorld) :
            LET seed == slots[t.slot].event \in Cancellable /\ m IN
            SetTop([Call(t) EXCEPT !.at = "loop", !.slot = t.slot, !.i = 1,
                                   !.count = Len(handlers[t.slot]),
                                   !.isPlayerWorld = playerWorld = CannotAsk \/ w,
                                   !.handled = seed, !.field = seed])
  /\ UNCHANGED <<host, pool, limits, engine>>

(* Faults: the loop ends one early, and the filter is the one of the       *)
(* slot's first name.                                                      *)
MoreButOne(f) == f.i < f.count
FilteredBySlot(f) == slots[f.slot].event \in PlayerWorldOnly /\ ~f.isPlayerWorld

More(f) == f.i <= f.count
Filtered(f) == handlers[f.slot][f.i].filter /\ ~f.isPlayerWorld

SkipHandler ==
  /\ TopIs("loop") /\ More(Top) /\ Filtered(Top)
  /\ SetTop([Top EXCEPT !.i = @ + 1])
  /\ UNCHANGED <<host, pool, limits, engine>>

CallHandler ==
  /\ TopIs("loop") /\ More(Top) /\ ~Filtered(Top)
  /\ SetTop([Top EXCEPT !.at = "lua", !.ran = Append(@, Top.i)])
  /\ UNCHANGED <<host, pool, limits, engine>>

(* A fault: mod_handled is what the last handler left.                     *)
LatchLastWrite(f) == f

(* latch_handled: a true mod_handled is remembered and put back.           *)
Latch(f) ==
  IF slots[f.slot].event \in Cancellable
  THEN [f EXCEPT !.handled = f.handled \/ f.field, !.field = f.handled \/ f.field]
  ELSE f

(* A fault: no limit.                                                      *)
ReportAll(s) == reports' = [reports EXCEPT ![s] = @ + 1]

(* The budget of reported errors of a slot.                                *)
Report(s) == reports' = [reports EXCEPT ![s] = IF @ < MaxReports THEN @ + 1 ELSE @]

(* lua_pcall returned, with an error or without; the loop goes on.         *)
HandlerReturns ==
  /\ TopIs("lua")
  /\ UNCHANGED reports \/ Report(Top.slot)
  /\ SetTop([Latch(Top) EXCEPT !.at = "loop", !.i = @ + 1, !.asked = @ \/ Top.field])
  /\ UNCHANGED <<host, pool, engine, warned>>

(* Every handler had its turn: the slot warns once about a mod_handled     *)
(* that does nothing.                                                      *)
Warn ==
  warned' = [warned EXCEPT ![Top.slot] =
               @ \/ (slots[Top.slot].event \notin Cancellable /\ Top.field)]

(* What modHandled is after read_back.                                     *)
Written == IF Strays(Top.slot) THEN BOOLEAN
           ELSE IF slots[Top.slot].event \in Cancellable THEN {Top.field} ELSE {Top.modHandled}

(* Every handler's claim is with the engine.                               *)
ClaimAll == IF Top.asked /\ slots[Top.slot].event \in Cancellable THEN "yes" ELSE Top.claim

(* A claim of this dispatch may be with the engine or not.                 *)
ClaimSome == IF ClaimAll # Top.claim THEN "maybe" ELSE Top.claim

(* read_back copies the writable fields into the context.                  *)
Finish ==
  /\ TopIs("loop") /\ ~More(Top)
  /\ Warn
  /\ \E m \in Written :
       Leave([Top EXCEPT !.modHandled = m, !.claim = ClaimAll, !.aborted = FALSE], Top.slot)
  /\ UNCHANGED <<host, pool, reports>>

(* A row of read_back raises, before modHandled was written or after.      *)
ReadBackFails ==
  /\ TopIs("loop") /\ ~More(Top)
  /\ Warn
  /\ \E m \in Written \cup {Top.modHandled} :
       Leave([Top EXCEPT !.modHandled = m, !.claim = ClaimSome, !.aborted = TRUE], Top.slot)
  /\ UNCHANGED <<host, pool, reports>>

(* A Lua error outside every handler's pcall (no memory, or a metamethod   *)
(* a handler put on the event table): lua_cpcall ends the dispatch, and    *)
(* neither the other handlers nor read_back run.                           *)
Abort ==
  /\ TopIs("loop")
  /\ Leave([Top EXCEPT !.aborted = TRUE], Top.slot)
  /\ UNCHANGED <<host, pool, limits>>

-----------------------------------------------------------------------------
(* What a running handler does to the event table and the handle table.    *)

SetModHandled(b) ==
  /\ TopIs("lua")
  /\ SetTop([Top EXCEPT !.field = b])
  /\ UNCHANGED <<host, pool, limits, engine>>

TakeHandle(w) ==
  /\ LuaRuns
  /\ w \in worlds
  /\ live' = live \cup {w}
  /\ UNCHANGED <<host, pool, limits, worlds, playerWorld, stack>>

-----------------------------------------------------------------------------
(* The engine.                                                             *)

BeingDestroyed(w) == \E d \in 1 .. Len(stack) : stack[d].hook = WorldDestroy /\ stack[d].world = w

(* A hook is raised from the frame loop or from an engine function a       *)
(* handler calls; the game does not shut down from inside a handler.       *)
Raise(h, w, m) ==
  /\ Len(stack) < MaxDepth
  /\ stack = <<>> \/ TopIs("lua")
  /\ w \in worlds
  /\ m => \E e \in Cancellable : HookOf[e] = h
  /\ h = WorldDestroy => ~BeingDestroyed(w)
  /\ h = GameShutdown => stack = <<>>
  /\ stack' = Append(stack, NewInvocation(h, w, m))
  /\ UNCHANGED <<host, pool, limits, engine>>

(* All callbacks were called; the engine goes on with what the hook was    *)
(* about, which for WorldDestroy is to free the world.                     *)
EngineReturns ==
  /\ TopIs("engine") /\ Top.todo = {}
  /\ stack' = SubSeq(stack, 1, Len(stack) - 1)
  /\ worlds' = IF Top.hook = WorldDestroy THEN worlds \ {Top.world} ELSE worlds
  /\ UNCHANGED <<host, pool, limits, live, playerWorld>>

CreateWorld(w) ==
  /\ stack = <<>> /\ w \notin worlds
  /\ worlds' = worlds \cup {w}
  /\ UNCHANGED <<host, pool, limits, live, playerWorld, stack>>

(* The player goes to another world, between two hooks or in an engine     *)
(* function a handler calls.                                               *)
PlayerMoves(w) ==
  /\ stack = <<>> \/ TopIs("lua")
  /\ playerWorld # CannotAsk /\ playerWorld' = w
  /\ UNCHANGED <<host, pool, limits, worlds, live, stack>>

-----------------------------------------------------------------------------
(* The host: loading ends, on_game_shutdown, and a second initialisation.  *)

LoadDone ==
  /\ loading /\ stack = <<>>
  /\ loading' = FALSE
  /\ UNCHANGED <<canRemove, luaOpen, opens, pool, limits, engine, stack>>

(* Faults: the thunks stay although they could be removed, and so do the   *)
(* rate limits.                                                            *)
RemoveNone == installed
KeepLimits == UNCHANGED limits

(* RemoveHook for every handle, if there is one.                           *)
RemoveThunks == IF canRemove THEN installed \ Thunks ELSE installed

ResetLimits == /\ reports' = [s \in SlotIds |-> 0]
               /\ warned' = [s \in SlotIds |-> FALSE]

(* events_shutdown.                                                        *)
EventsShutdown ==
  /\ luaOpen' = FALSE
  /\ slots' = [s \in SlotIds |-> FreeSlot]
  /\ installed' = RemoveThunks
  /\ ResetLimits

(* events_shutdown, invalidate_all and lua_close, in the host's own        *)
(* callback among those the engine walks.                                  *)
Shutdown ==
  /\ luaOpen /\ ~loading
  /\ TopIs("engine") /\ Top.hook = GameShutdown
  /\ EventsShutdown
  /\ live' = {}
  /\ handlers' = [s \in SlotIds |-> <<>>]
  /\ UNCHANGED <<canRemove, opens, loading, stack, worlds, playerWorld>>

Reopen ==
  /\ ~luaOpen /\ stack = <<>> /\ opens < MaxOpens
  /\ luaOpen' = TRUE /\ opens' = opens + 1 /\ loading' = TRUE
  /\ UNCHANGED <<canRemove, pool, limits, engine, stack>>

-----------------------------------------------------------------------------
Dispatch == \/ SkipThunk \/ LayoutFails \/ Enter
            \/ SkipHandler \/ CallHandler \/ HandlerReturns
            \/ Finish \/ ReadBackFails \/ Abort

Lua == \/ \E e \in EventNames, p \in Priorities : OnEvent(e, p)
       \/ \E b \in BOOLEAN : SetModHandled(b)
       \/ \E w \in Worlds : TakeHandle(w)

Engine == \/ \E h \in Hooks, w \in Worlds, m \in BOOLEAN : Raise(h, w, m)
          \/ EngineReturns
          \/ \E w \in Worlds : CreateWorld(w)
          \/ \E w \in Worlds \cup {NoWorld} : PlayerMoves(w)

Host == LoadDone \/ Shutdown \/ Reopen

Next == Dispatch \/ Lua \/ Engine \/ Host

Spec == Init /\ [][Next]_vars

-----------------------------------------------------------------------------
Installations == [slot : SlotIds, hook : Hooks, priority : Int, start : Nat \ {0}]

Invocation ==
  [hook : Hooks, world : Worlds, modHandled : BOOLEAN, todo : SUBSET Installations,
   at : {"engine", "loop", "lua"}, slot : SlotIds \cup {0}, i : Nat, count : Nat,
   isPlayerWorld : BOOLEAN, handled : BOOLEAN, field : BOOLEAN, ran : Seq(Nat),
   asked : BOOLEAN, claim : {"no", "maybe", "yes"},
   dispatched : BOOLEAN, aborted : BOOLEAN, stray : BOOLEAN]

(* The state is well typed, and no slot spends more than its budget of     *)
(* reported errors.                                                        *)
TypeOK ==
  /\ canRemove \in BOOLEAN /\ luaOpen \in BOOLEAN /\ loading \in BOOLEAN
  /\ opens \in Nat \ {0}
  /\ slots \in [SlotIds -> [used : BOOLEAN, event : EventNames \cup {NoEvent},
                            priority : Int, disabled : BOOLEAN]]
  /\ installed \subseteq Installations
  /\ handlers \in [SlotIds -> Seq([event : EventNames, filter : BOOLEAN])]
  /\ reports \in [SlotIds -> 0 .. MaxReports] /\ warned \in [SlotIds -> BOOLEAN]
  /\ stack \in Seq(Invocation)
  /\ worlds \subseteq Worlds /\ live \subseteq Worlds
  /\ playerWorld \in Worlds \cup {NoWorld, CannotAsk}

(* Each (hook, priority) pair has one slot.  While Lua is open, the thunks *)
(* this start installed are those of the slots in use, on the right hook:  *)
(* a refused hook costs no slot.  If the game can remove hooks, these are  *)
(* all that is installed, and nothing is once Lua is closed.               *)
PoolMatchesEngine ==
  /\ \A s, r \in SlotIds :
       slots[s].used /\ slots[r].used /\ s # r =>
         SlotHook(s) # SlotHook(r) \/ slots[s].priority # slots[r].priority
  /\ luaOpen => {t \in installed : t.start = opens} = Thunks
  /\ canRemove => installed = Thunks

(* In every dispatch, nested ones included, no handler is called twice or  *)
(* out of registration order; the filter is that of the name the handler   *)
(* itself registered; and a handler registered meanwhile waits for the     *)
(* next dispatch.                                                          *)
WantedUpTo(f, n) ==
  {j \in 1 .. n : handlers[f.slot][j].event \in PlayerWorldOnly => f.isPlayerWorld}
Enumerates(q, S) ==
  /\ {q[a] : a \in DOMAIN q} = S
  /\ \A a, b \in DOMAIN q : a < b => q[a] < q[b]
HandlersRunOnceInOrder ==
  \A d \in 1 .. Len(stack) : LET f == stack[d] IN
    f.at # "engine" =>
      /\ f.i <= f.count + 1
      /\ Enumerates(f.ran, WantedUpTo(f, IF f.at = "lua" THEN f.i ELSE f.i - 1))

(* A dispatch that read its context and was not aborted has called every   *)
(* handler that was there when it began, whether or not the ones before    *)
(* raised, registered others, or raised the same hook again.               *)
EveryHandlerHasItsTurn ==
  [][TopIs("loop") /\ Len(stack') = Len(stack)
       /\ stack'[Len(stack)].at = "engine" /\ ~stack'[Len(stack)].aborted
       => Enumerates(Top.ran, WantedUpTo(Top, Top.count))]_vars

(* Whenever the engine looks at its context: modHandled is set if it was   *)
(* set before the hook or a handler of a completed dispatch left           *)
(* e.mod_handled true, in any slot of the chain, so that a later handler   *)
(* or a later slot does not take a claim back.  And it is set only then,   *)
(* or if a handler left it true and read_back failed, so that none is      *)
(* invented.                                                               *)
ClaimsReachTheEngine ==
  \A d \in 1 .. Len(stack) : LET f == stack[d] IN
    f.at = "engine" /\ ~f.stray =>
      (f.claim = "yes" => f.modHandled) /\ (f.claim = "no" => ~f.modHandled)

(* A hook is dispatched to slots of that hook, as long as the game can     *)
(* remove hooks or starts the mod only once.                               *)
DispatchesReachTheirHook ==
  \A d \in 1 .. Len(stack) : stack[d].stray => ~canRemove /\ opens > 1

(* A slot is handed out with its whole budget of reports and of warnings,  *)
(* also in a host that is initialised again.                               *)
LimitsStartAfresh ==
  \A s \in SlotIds : ~slots[s].used => reports[s] = 0 /\ ~warned[s]

(* When the engine frees a world whose WorldDestroy it delivered to some   *)
(* enabled slot, Lua holds no valid handle at all: neither an aborted      *)
(* dispatch, nor a handle taken in a later handler, nor a failed layout    *)
(* check lets one through.                                                 *)
HandlesDieWithTheirWorld ==
  [][worlds' # worlds /\ TopIs("engine") /\ Top.hook = WorldDestroy
       /\ Top.dispatched /\ ~Top.stray
       => live' = {}]_vars

-----------------------------------------------------------------------------
(* docs/how-it-works.md:97 and docs/raw-api-reference.md:21: a world going *)
(* away takes every handle with it.  The code has no hook of its own on    *)
(* WorldDestroy, so it needs a mod to have installed one.                  *)
NoHandleOutlivesItsWorld == live \subseteq worlds
=============================================================================
