----------------------------- MODULE HostProofs -----------------------------
(***************************************************************************)
(* Theorems about the life of the host, for any priorities of the mods'    *)
(* handlers, any number of them and any number of starts.                  *)
(***************************************************************************)
EXTENDS Host, TLAPS

Mods(c) == {b \in c : b.owner = "mods"}

(* The callbacks a walk has yet to call: the host's are at the floor, and  *)
(* no two of the mods' share a priority and a run.                         *)
Orderly(c) ==
  /\ \A b \in c : b.owner = "host" => b.priority = Floor
  /\ \A b, d \in Mods(c) : b.priority = d.priority /\ b.run = d.run => b = d

(* Without a Lua state no handler is left, and no callback that could be   *)
(* removed; and there is none before start_lua has made it.                *)
Closed ==
  /\ ~luaOpen => handlers = <<>> /\ calling = {} /\ ~inHandler
  /\ ~luaOpen /\ canRemove => Mods(chain) = {}
  /\ phase = "starting" => ~luaOpen

(* Where callbacks can be removed none is left over, in the chain or in    *)
(* what the walk took of it; and none is of a run to come.                 *)
Fresh ==
  /\ canRemove => NoneLeftOver
  /\ NoneLeftOver => \A b \in Mods(todo) : b.run = runs
  /\ \A b \in chain : b.run <= runs

(* Every handler has a callback that will run it.                          *)
HasThunk == \A k \in DOMAIN handlers : Installed(handlers[k])

(* Handlers of GameShutdown run in its walk only.                          *)
Idle ==
  /\ phase # "walking" => calling = {} /\ ~inHandler
  /\ phase \notin {"walking", "over"} => ran = <<>>

(* A handler above the floor that the walk found registered has run, is to *)
(* be called by the running dispatch, or waits for its callback.           *)
Told ==
  phase \in {"walking", "over"} =>
    /\ luaOpen /\ phase = "walking" => entry \subseteq Registered
    /\ \A h \in entry : h.priority > Floor =>
         \/ \E n \in DOMAIN ran : ran[n] = h
         \/ h \in calling
         \/ luaOpen /\ phase = "walking" /\ \E b \in Mods(todo) : b.priority = h.priority /\ b.run = runs

Earlier(g, h) == g.priority > h.priority \/ (g.priority = h.priority /\ g.id < h.id)

(* What ran comes before what the dispatch still calls, and that before    *)
(* what the walk still calls.                                              *)
InTurn ==
  /\ \A i, j \in DOMAIN ran : i < j => Earlier(ran[i], ran[j])
  /\ \A n \in DOMAIN ran, h \in calling : Earlier(ran[n], h)
  /\ \A g, h \in calling : g.priority = h.priority /\ (g.id = h.id => g = h)
  /\ luaOpen => \A b \in Mods(todo) :
       /\ \A n \in DOMAIN ran : ran[n].priority > b.priority
       /\ \A h \in calling : h.priority > b.priority
Ordered == NoneLeftOver => InTurn

IInv ==
  /\ TypeOK
  /\ Orderly(chain) /\ Orderly(todo)
  /\ Closed /\ Fresh /\ HasThunk /\ Idle /\ Told /\ Ordered

LEMMA InvInit == Init => IInv
  <1> SUFFICES ASSUME Init PROVE IInv
    OBVIOUS
  <1> USE DEF Init
  <1>1. <<>> \in Seq(Priorities) /\ <<>> \in Seq(Handlers)
    OBVIOUS
  <1>2. TypeOK
    <2>1. runs \in 0 .. MaxRuns /\ installs \in Nat
      BY HostAssumption
    <2>2. QED
      BY <1>1, <2>1 DEF TypeOK
  <1>3. Orderly(chain) /\ Orderly(todo) /\ Closed /\ Fresh /\ HasThunk /\ Idle
    BY DEF Orderly, Closed, Fresh, NoneLeftOver, HasThunk, Idle, Mods
  <1>4. Told /\ Ordered
    BY DEF Told, Ordered, InTurn
  <1>5. QED
    BY <1>2, <1>3, <1>4 DEF IInv

-----------------------------------------------------------------------------
(* The start.                                                              *)

LEMMA StartKeepsInv ==
  ASSUME IInv, UNCHANGED canRemove,
         MinaModInit \/ StartLuaFails \/ StartLua \/ LoadModsReturns
  PROVE  IInv'
  <1> USE DEF IInv
  <1>1. /\ UNCHANGED <<chain, installs, handlers, calling, inHandler>>
        /\ phase \notin {"walking"} /\ phase' \in {"starting", "failed", "loading", "loaded"}
        /\ phase' = "starting" => ~luaOpen'
        /\ luaOpen' \in BOOLEAN /\ logOpen' \in BOOLEAN /\ runs' \in 0 .. MaxRuns
        /\ ~luaOpen' => ~luaOpen
        /\ runs \in Int /\ runs <= runs' /\ (runs = runs' \/ (~luaOpen /\ todo' = {}))
    <2> USE DEF TypeOK, walk, engine, dispatch, Closed
    <2>0. runs \in Int /\ runs <= runs
      BY HostAssumption
    <2>1. CASE MinaModInit
      <3>1. logOpen' \in BOOLEAN
        BY <2>1 DEF MinaModInit
      <3>2. runs < MaxRuns /\ runs' = runs + 1 /\ runs \in 0 .. MaxRuns
        BY <2>1 DEF MinaModInit
      <3>3. runs' \in 0 .. MaxRuns /\ runs \in Int /\ runs <= runs' /\ todo' = {}
        BY <2>1, <3>2, HostAssumption DEF MinaModInit
      <3>4. phase \notin {"walking"} /\ phase' \in {"starting", "failed"}
        BY <2>1 DEF MinaModInit
      <3>5. /\ UNCHANGED <<luaOpen, chain, installs, handlers, calling, inHandler>>
            /\ ~luaOpen
        BY <2>1 DEF MinaModInit
      <3>6. QED
        BY <3>1, <3>3, <3>4, <3>5
    <2>2. CASE StartLuaFails \/ StartLua
      BY <2>0, <2>2 DEF StartLuaFails, StartLua
    <2>3. CASE LoadModsReturns
      BY <2>0, <2>3 DEF LoadModsReturns
    <2>4. QED
      BY <2>1, <2>2, <2>3
  <1>2. \/ todo' = {} /\ entry' = {} /\ ran' = <<>>
        \/ phase # "over" /\ UNCHANGED <<todo, entry, ran>>
    BY DEF MinaModInit, StartLuaFails, StartLua, LoadModsReturns, walk
  <1>3. calling = {} /\ ran' = <<>>
    BY <1>1, <1>2 DEF Idle, TypeOK
  <1>4. TypeOK'
    <2>1. <<>> \in Seq(Handlers)
      OBVIOUS
    <2>2. QED
      BY <1>1, <1>2, <2>1 DEF TypeOK
  <1>5. Orderly(chain)' /\ Orderly(todo)'
    BY <1>1, <1>2 DEF Orderly, Mods
  <1>6. Closed' /\ HasThunk' /\ Idle' /\ Told'
    BY <1>1, <1>3 DEF Closed, HasThunk, Installed, Idle, Told, Mods
  <1>7. Ordered'
    BY <1>1, <1>3, <1>2 DEF Ordered, InTurn, Idle, NoneLeftOver, Mods
  <1>8. Fresh'
    <2>1. CASE runs' = runs
      BY <1>1, <1>2, <2>1 DEF Fresh, NoneLeftOver, Mods
    <2>2. CASE ~luaOpen /\ todo' = {}
      <3>1. canRemove => Mods(chain) = {}
        BY <2>2 DEF Closed
      <3>2. \A b \in chain : b.run \in Int /\ b.run <= runs
        BY DEF Fresh, TypeOK, Callbacks
      <3>3. QED
        BY <1>1, <2>2, <3>1, <3>2 DEF Fresh, NoneLeftOver, Mods
    <2>3. QED
      BY <1>1, <2>1, <2>2
  <1>9. QED
    BY <1>4, <1>5, <1>6, <1>7, <1>8

Distinct(c) ==
  \A b, d \in c : /\ b.owner = "mods" /\ d.owner = "mods"
                  /\ b.priority = d.priority /\ b.run = d.run
                  => b = d

(* A callback of the mods at a new priority, or the teardown at the floor. *)
LEMMA InstallKeepsOrder ==
  ASSUME IInv, NEW o \in {"host", "mods"}, NEW p \in Priorities \cup {Floor},
         Install(o, p),
         o = "host" => p = Floor,
         o = "mods" => ~Installed(p)
  PROVE  /\ chain' \subseteq Callbacks /\ installs' \in Nat
         /\ Orderly(chain)' /\ chain \subseteq chain'
         /\ \E b \in chain' : b.owner = o /\ b.priority = p /\ b.run = runs
         /\ \A b \in chain' : b \in chain \/ b.run = runs
         /\ o = "host" => Mods(chain') = Mods(chain)
         /\ Distinct(chain')
  <1> DEFINE new == [owner |-> o, priority |-> p, run |-> runs, at |-> installs]
  <1>1. chain' = chain \cup {new} /\ installs' = installs + 1 /\ installs \in Nat
    BY DEF Install, IInv, TypeOK
  <1>2. new \in Callbacks /\ new.owner = o /\ new.priority = p /\ new.run = runs
    BY <1>1, HostAssumption DEF Callbacks, IInv, TypeOK
  <1> HIDE DEF new
  <1>3. \A b \in chain : b.owner = "mods" /\ o = "mods" => b.priority # p \/ b.run # runs
    BY DEF Installed
  <1>4. Distinct(chain')
    BY <1>1, <1>2, <1>3 DEF IInv, TypeOK, Distinct
  <1>5. Orderly(chain)'
    BY <1>1, <1>2, <1>4 DEF IInv, Orderly, Mods, Distinct
  <1>6. chain' \subseteq Callbacks /\ installs' \in Nat
    BY <1>1, <1>2 DEF IInv, TypeOK
  <1>7. o = "host" => Mods(chain') = Mods(chain)
    BY <1>1, <1>2 DEF Mods
  <1>8. QED
    BY <1>1, <1>2, <1>4, <1>5, <1>6, <1>7

LEMMA RegisterKeepsInv == 
  ASSUME NEW p \in Priorities, IInv, UNCHANGED canRemove, Register(p)
  PROVE  IInv'
  <1> USE DEF IInv
  <1>1. /\ luaOpen /\ handlers' = Append(handlers, p)
        /\ UNCHANGED <<phase, luaOpen, logOpen, runs, walk>>
    BY DEF Register
  <1>2. /\ chain' \subseteq Callbacks /\ installs' \in Nat
        /\ Orderly(chain)' /\ chain \subseteq chain'
        /\ \E b \in chain' : b.owner = "mods" /\ b.priority = p /\ b.run = runs
        /\ \A b \in chain' : b \in chain \/ b.run = runs
        /\ Distinct(chain')
    <2>1. CASE Installed(p) /\ UNCHANGED engine
      BY <2>1 DEF engine, TypeOK, Orderly, Mods, Installed, Distinct
    <2>2. CASE ~Installed(p) /\ Install("mods", p)
      BY <2>2, InstallKeepsOrder
    <2>3. QED
      BY <2>1, <2>2 DEF Register
  <1>3. handlers \in Seq(Priorities) /\ handlers' \in Seq(Priorities)
    BY <1>1 DEF TypeOK
  <1>4. TypeOK'
    BY <1>1, <1>2, <1>3 DEF TypeOK, walk, Distinct
  <1>5. HasThunk'
    <2> SUFFICES ASSUME NEW k \in DOMAIN handlers' PROVE Installed(handlers[k])'
      BY DEF HasThunk
    <2>1. (k \in DOMAIN handlers /\ handlers'[k] = handlers[k]) \/ handlers'[k] = p
      BY <1>1, <1>3
    <2>2. QED
      BY <1>1, <1>2, <2>1 DEF HasThunk, Installed
  <1>6. Registered \subseteq Registered'
    <2> SUFFICES ASSUME NEW k \in DOMAIN handlers
                 PROVE  k \in DOMAIN handlers' /\ handlers'[k] = handlers[k]
      BY DEF Registered
    <2>1. QED
      BY <1>1, <1>3
  <1>7. Closed' /\ Idle' /\ Told'
    BY <1>1, <1>6 DEF Closed, Idle, Told, walk, Mods
  <1>8. Fresh'
    BY <1>1, <1>2, HostAssumption DEF Fresh, NoneLeftOver, walk, Mods, TypeOK
  <1>9. Ordered' /\ Orderly(todo)'
    <2>1. NoneLeftOver' => NoneLeftOver
      BY <1>1, <1>2 DEF NoneLeftOver
    <2>2. QED
      BY <1>1, <2>1 DEF Ordered, InTurn, Orderly, walk, Mods, Earlier
  <1>10. QED
    BY <1>2, <1>4, <1>5, <1>7, <1>8, <1>9

LEMMA TeardownKeepsInv == ASSUME IInv, UNCHANGED canRemove, InstallTeardown PROVE IInv'
  <1> USE DEF IInv
  <1>1. /\ phase = "loaded" /\ phase' = "running"
        /\ UNCHANGED <<luaOpen, logOpen, runs, handlers, walk>>
    BY DEF InstallTeardown
  <1>2. /\ chain' \subseteq Callbacks /\ installs' \in Nat
        /\ Orderly(chain)' /\ chain \subseteq chain' /\ Mods(chain') = Mods(chain)
        /\ \A b \in chain' : b \in chain \/ b.run = runs
        /\ Distinct(chain')
    <2>1. CASE UNCHANGED engine
      BY <2>1 DEF engine, TypeOK, Orderly, Mods, Distinct
    <2>2. CASE Install("host", Floor)
      BY <2>2, InstallKeepsOrder
    <2>3. QED
      BY <2>1, <2>2 DEF InstallTeardown
  <1>3. TypeOK'
    BY <1>1, <1>2 DEF TypeOK, walk, Distinct
  <1>4. HasThunk' /\ Closed' /\ Idle' /\ Told'
    BY <1>1, <1>2 DEF HasThunk, Installed, Closed, Idle, Told, walk
  <1>5. Fresh' /\ (NoneLeftOver' => NoneLeftOver)
    BY <1>1, <1>2, HostAssumption DEF Fresh, NoneLeftOver, walk, Mods, TypeOK
  <1>6. Ordered' /\ Orderly(todo)'
    BY <1>1, <1>5 DEF Ordered, InTurn, Orderly, walk, Mods, Earlier
  <1>7. QED
    BY <1>2, <1>3, <1>4, <1>5, <1>6

-----------------------------------------------------------------------------
(* The walk.                                                               *)

LEMMA RegisteredAreHandlers == ASSUME IInv PROVE Registered \subseteq Handlers
  BY DEF IInv, TypeOK, Registered, Handlers

LEMMA RaiseKeepsInv == ASSUME IInv, UNCHANGED canRemove, RaiseGameShutdown PROVE IInv'
  <1> USE DEF IInv
  <1>1. /\ phase \in {"running", "failed"} /\ phase' = "walking"
        /\ todo' = chain /\ entry' = Registered
        /\ UNCHANGED <<luaOpen, logOpen, runs, chain, installs, handlers, calling, inHandler, ran>>
    BY DEF RaiseGameShutdown, engine, dispatch
  <1>2. ran = <<>> /\ calling = {} /\ ~inHandler
    BY <1>1 DEF Idle
  <1>3. TypeOK'
    BY <1>1, RegisteredAreHandlers DEF TypeOK
  <1>4. Orderly(chain)' /\ Orderly(todo)' /\ Closed' /\ HasThunk' /\ Idle'
    BY <1>1, <1>2 DEF Orderly, Mods, Closed, HasThunk, Installed, Idle
  <1>5. Told'
    <2>1. ASSUME NEW h \in entry'
          PROVE  luaOpen /\ \E b \in Mods(chain) : b.priority = h.priority /\ b.run = runs
      <3>1. PICK k \in DOMAIN handlers : h = [id |-> k, priority |-> handlers[k]]
        BY <1>1, <2>1 DEF Registered
      <3>2. Installed(handlers[k]) /\ handlers # <<>>
        BY <3>1 DEF HasThunk
      <3>3. QED
        BY <3>1, <3>2 DEF Installed, Mods, Closed
    <2>2. Registered' = Registered
      BY <1>1 DEF Registered
    <2>3. QED
      BY <1>1, <2>1, <2>2 DEF Told
  <1>6. Fresh' /\ Ordered'
    BY <1>1, <1>2 DEF Fresh, NoneLeftOver, Mods, Ordered, InTurn
  <1>7. QED
    BY <1>3, <1>4, <1>5, <1>6

(* A callback that comes first, and is one of the mods', is above theirs.  *)
LEMMA FirstIsAbove ==
  ASSUME IInv, NoneLeftOver, NEW b \in todo, IsFirst(b, todo), b.owner = "mods"
  PROVE  \A d \in Mods(todo \ {b}) : b.priority > d.priority
  <1> SUFFICES ASSUME NEW d \in todo, d # b, d.owner = "mods" PROVE b.priority > d.priority
    BY DEF Mods
  <1>1. b.priority # d.priority
    BY DEF IInv, Orderly, Fresh, Mods
  <1>2. b.priority \in Int /\ d.priority \in Int
    BY HostAssumption DEF IInv, TypeOK, Callbacks
  <1>3. QED
    BY <1>1, <1>2 DEF IsFirst

LEMMA CallThunkKeepsInv == ASSUME IInv, UNCHANGED canRemove, CallThunk PROVE IInv'
  <1> USE DEF IInv
  <1>1. PICK b \in todo :
          /\ Calls(b) /\ b.owner = "mods" /\ todo' = todo \ {b}
          /\ ~luaOpen => calling' = {}
          /\ luaOpen /\ b.run = runs => calling' = RegisteredAt(b.priority)
          /\ calling' \subseteq Registered
    BY DEF CallThunk, RegisteredAt
  <1>2. /\ phase = "walking" /\ calling = {} /\ ~inHandler /\ IsFirst(b, todo)
        /\ UNCHANGED <<phase, luaOpen, logOpen, runs, chain, installs, handlers, inHandler, entry, ran>>
    BY <1>1 DEF Calls, CallThunk, engine
  <1>3. TypeOK'
    BY <1>1, <1>2, RegisteredAreHandlers DEF TypeOK
  <1>4. Orderly(chain)' /\ Orderly(todo)' /\ Closed' /\ Fresh' /\ HasThunk' /\ Idle'
    BY <1>1, <1>2 DEF Orderly, Mods, Closed, Fresh, NoneLeftOver, HasThunk, Installed, Idle
  <1>5. Registered' = Registered
    BY <1>2 DEF Registered
  <1>6. Told'
    <2> SUFFICES ASSUME NEW h \in entry, h.priority > Floor,
                        ~ \E n \in DOMAIN ran : ran[n] = h
                 PROVE  \/ h \in calling'
                        \/ luaOpen /\ \E d \in Mods(todo \ {b}) :
                                        d.priority = h.priority /\ d.run = runs
      BY <1>1, <1>2, <1>5 DEF Told
    <2>1. PICK d \in Mods(todo) : luaOpen /\ d.priority = h.priority /\ d.run = runs
      BY <1>2 DEF Told
    <2>2. h \in Registered
      BY <1>2, <2>1 DEF Told
    <2>3. QED
      BY <1>1, <2>1, <2>2 DEF Mods, RegisteredAt
  <1>7. Ordered'
    <2> SUFFICES ASSUME NoneLeftOver PROVE InTurn'
      BY <1>2 DEF Ordered, NoneLeftOver
    <2>0. b.run = runs /\ b \in Mods(todo) /\ InTurn
      BY <1>1 DEF Fresh, Mods, Ordered
    <2>1. \A d \in Mods(todo') : b.priority > d.priority
      BY <1>1, <1>2, FirstIsAbove
    <2>2. ASSUME NEW n \in DOMAIN ran, NEW h \in calling' PROVE Earlier(ran[n], h)
      <3>1. luaOpen /\ h.priority = b.priority
        BY <1>1, <2>0, <2>2 DEF RegisteredAt
      <3>2. QED
        BY <2>0, <3>1 DEF InTurn, Earlier
    <2>3. ASSUME NEW g \in calling', NEW h \in calling'
          PROVE  g.priority = h.priority /\ (g.id = h.id => g = h)
      BY <1>1, <2>0, <2>3 DEF Registered, RegisteredAt
    <2>4. \A h \in calling' : h.priority = b.priority
      BY <1>1, <2>0 DEF RegisteredAt
    <2>5. Mods(todo') \subseteq Mods(todo)
      BY <1>1 DEF Mods
    <2>6. QED
      BY <1>2, <2>0, <2>1, <2>2, <2>3, <2>4, <2>5 DEF InTurn
  <1>8. QED
    BY <1>3, <1>4, <1>6, <1>7

LEMMA RunHandlerKeepsInv == ASSUME IInv, UNCHANGED canRemove, RunHandler PROVE IInv'
  <1> USE DEF IInv
  <1>1. PICK h \in calling :
          /\ \A g \in calling : h.id <= g.id
          /\ calling' = calling \ {h} /\ ran' = Append(ran, h)
    BY DEF RunHandler
  <1>2. /\ inHandler' = TRUE
        /\ UNCHANGED <<phase, luaOpen, logOpen, runs, chain, installs, handlers, todo, entry>>
    BY DEF RunHandler, engine
  <1>3. phase = "walking" /\ luaOpen
    BY <1>1 DEF Idle, Closed
  <1>4. h \in Handlers /\ ran \in Seq(Handlers)
    BY <1>1 DEF TypeOK
  <1>5. /\ \A n \in DOMAIN ran : n \in DOMAIN ran' /\ ran'[n] = ran[n] /\ n < Len(ran) + 1
        /\ Len(ran) + 1 \in DOMAIN ran' /\ ran'[Len(ran) + 1] = h
        /\ \A n \in DOMAIN ran' : n \in DOMAIN ran \/ n = Len(ran) + 1
    BY <1>1, <1>4
  <1>6. TypeOK'
    BY <1>1, <1>2, <1>4 DEF TypeOK
  <1>7. Orderly(chain)' /\ Orderly(todo)' /\ Closed' /\ Fresh' /\ HasThunk' /\ Idle'
    BY <1>1, <1>2, <1>3
       DEF Orderly, Mods, Closed, Fresh, NoneLeftOver, HasThunk, Installed, Idle
  <1>8. Told'
    <2>1. Registered' = Registered /\ Mods(todo)' = Mods(todo)
      BY <1>2 DEF Registered, Mods
    <2> SUFFICES ASSUME NEW e \in entry, e.priority > Floor,
                        ~ \E b \in Mods(todo) : b.priority = e.priority /\ b.run = runs
                 PROVE  (\E n \in DOMAIN ran' : ran'[n] = e) \/ e \in calling'
      BY <1>2, <1>3, <2>1 DEF Told
    <2>2. (\E n \in DOMAIN ran : ran[n] = e) \/ e \in calling
      BY <1>3 DEF Told
    <2>3. QED
      BY <1>1, <1>5, <2>2
  <1>9. Ordered'
    <2> SUFFICES ASSUME InTurn PROVE InTurn'
      BY <1>2 DEF Ordered, NoneLeftOver
    <2>1. ASSUME NEW g \in calling' PROVE Earlier(h, g)
      <3>1. g \in calling /\ g # h /\ h.id <= g.id /\ g.id \in Int /\ h.id \in Int
        BY <1>1, <2>1 DEF TypeOK, Handlers
      <3>2. g.priority = h.priority /\ g.id # h.id
        BY <3>1 DEF InTurn
      <3>3. QED
        BY <3>1, <3>2 DEF Earlier
    <2>2. \A n \in DOMAIN ran : Earlier(ran[n], h)
      BY DEF InTurn
    <2>3. ASSUME NEW i \in DOMAIN ran', NEW j \in DOMAIN ran', i < j
          PROVE  Earlier(ran'[i], ran'[j])
      <3>1. i \in DOMAIN ran
        BY <1>4, <1>5, <2>3
      <3>2. QED
        BY <1>5, <2>2, <2>3, <3>1 DEF InTurn
    <2>4. ASSUME NEW n \in DOMAIN ran', NEW g \in calling' PROVE Earlier(ran'[n], g)
      BY <1>1, <1>5, <2>1, <2>4 DEF InTurn
    <2>5. ASSUME NEW b \in Mods(todo')
          PROVE  /\ \A n \in DOMAIN ran' : ran'[n].priority > b.priority
                 /\ \A g \in calling' : g.priority > b.priority
      <3>1. b \in Mods(todo)
        BY <1>2, <2>5 DEF Mods
      <3>2. QED
        BY <1>1, <1>3, <1>5, <3>1 DEF InTurn
    <2>6. \A f, g \in calling' : f.priority = g.priority /\ (f.id = g.id => f = g)
      BY <1>1 DEF InTurn
    <2>7. QED
      BY <2>3, <2>4, <2>5, <2>6 DEF InTurn
  <1>10. QED
    BY <1>6, <1>7, <1>8, <1>9

LEMMA HandlerEndsKeepsInv == ASSUME IInv, UNCHANGED canRemove, HandlerEnds PROVE IInv'
  <1> USE DEF IInv
  <1>1. /\ inHandler' = FALSE
        /\ UNCHANGED <<phase, luaOpen, logOpen, runs, chain, installs, handlers, todo, calling, entry, ran>>
    BY DEF HandlerEnds, engine
  <1>2. TypeOK'
    BY <1>1 DEF TypeOK
  <1>3. Orderly(chain)' /\ Orderly(todo)' /\ Closed' /\ Fresh' /\ HasThunk' /\ Idle'
    BY <1>1 DEF Orderly, Mods, Closed, Fresh, NoneLeftOver, HasThunk, Installed, Idle
  <1>4. Told' /\ Ordered'
    BY <1>1 DEF Told, Registered, Mods, Ordered, InTurn, NoneLeftOver
  <1>5. QED
    BY <1>2, <1>3, <1>4

(* The teardown comes at the floor: whatever is above it has run.          *)
LEMMA ShutdownKeepsInv == ASSUME IInv, UNCHANGED canRemove, OnGameShutdown PROVE IInv'
  <1> USE DEF IInv
  <1>1. PICK b \in todo :
          /\ Calls(b) /\ b.owner = "host"
          /\ todo' = todo \ {b} \/ (canRemove /\ todo' = HostsOnly(todo \ {b}))
    BY DEF OnGameShutdown
  <1>2. /\ phase = "walking" /\ calling = {} /\ ~inHandler /\ IsFirst(b, todo)
        /\ handlers' = <<>> /\ luaOpen' = FALSE /\ logOpen' = FALSE
        /\ UNCHANGED <<phase, runs, installs, calling, inHandler, entry, ran>>
        /\ canRemove => chain' = HostsOnly(chain)
        /\ ~canRemove => chain' = chain
    BY <1>1 DEF Calls, OnGameShutdown, dispatch
  <1>3. /\ todo' \subseteq todo /\ chain' \subseteq chain
        /\ canRemove => Mods(chain') = {}
    BY <1>1, <1>2 DEF HostsOnly, Mods
  <1>4. TypeOK'
    <2>1. handlers' \in Seq(Priorities)
      BY <1>2
    <2>2. QED
      BY <1>2, <1>3, <2>1 DEF TypeOK
  <1>5. Orderly(chain)' /\ Orderly(todo)'
    BY <1>3 DEF Orderly, Mods
  <1>6. Closed' /\ HasThunk' /\ Idle'
    BY <1>2, <1>3 DEF Closed, HasThunk, Idle
  <1>7. Told'
    <2> SUFFICES ASSUME NEW h \in entry, h.priority > Floor
                 PROVE  \E n \in DOMAIN ran : ran[n] = h
      BY <1>2 DEF Told
    <2>1. ASSUME NEW d \in Mods(todo) PROVE d.priority # h.priority
      <3>1. b.priority = Floor /\ d \in todo
        BY <1>1 DEF Orderly, Mods
      <3>2. d.priority \in Int /\ Floor \in Int /\ h.priority \in Int
        BY <3>1, HostAssumption DEF TypeOK, Callbacks, Handlers
      <3>3. d.priority <= Floor
        BY <1>2, <3>1, <3>2 DEF IsFirst
      <3>4. QED
        BY <3>2, <3>3
    <2>2. QED
      BY <1>2, <2>1 DEF Told
  <1>8. NoneLeftOver' => NoneLeftOver
    BY <1>2 DEF NoneLeftOver, Fresh
  <1>9. Fresh' /\ Ordered'
    BY <1>2, <1>3, <1>8 DEF Ordered, InTurn, Fresh, NoneLeftOver, Mods
  <1>10. QED
    BY <1>4, <1>5, <1>6, <1>7, <1>9

LEMMA WalkEndsKeepsInv == ASSUME IInv, UNCHANGED canRemove, WalkEnds PROVE IInv'
  <1> USE DEF IInv
  <1>1. /\ phase = "walking" /\ phase' = "over" /\ todo = {} /\ calling = {} /\ ~inHandler
        /\ UNCHANGED <<luaOpen, logOpen, runs, chain, installs, handlers, todo, calling, inHandler, entry, ran>>
    BY DEF WalkEnds, engine, walk
  <1>2. TypeOK'
    BY <1>1 DEF TypeOK
  <1>3. Orderly(chain)' /\ Orderly(todo)' /\ Closed' /\ Fresh' /\ HasThunk' /\ Idle'
    BY <1>1 DEF Orderly, Mods, Closed, Fresh, NoneLeftOver, HasThunk, Installed, Idle
  <1>4. Told' /\ Ordered'
    BY <1>1 DEF Told, Mods, Ordered, InTurn, NoneLeftOver
  <1>5. QED
    BY <1>2, <1>3, <1>4

LEMMA InvNext == IInv /\ [Next]_vars => IInv'
  <1>1. ASSUME IInv, UNCHANGED vars PROVE IInv'
    <2> USE DEF vars, walk, IInv
    <2>1. TypeOK' /\ Orderly(chain)' /\ Orderly(todo)'
      BY <1>1 DEF TypeOK, Orderly, Mods
    <2>2. Closed' /\ Fresh' /\ HasThunk' /\ Idle'
      BY <1>1 DEF Closed, Fresh, NoneLeftOver, HasThunk, Installed, Idle, Mods
    <2>3. Told' /\ Ordered'
      BY <1>1 DEF Told, Registered, Mods, Ordered, InTurn, NoneLeftOver
    <2>4. QED
      BY <2>1, <2>2, <2>3
  <1>2. QED
    BY <1>1, StartKeepsInv, RegisterKeepsInv, TeardownKeepsInv, RaiseKeepsInv, CallThunkKeepsInv,
       RunHandlerKeepsInv, HandlerEndsKeepsInv, ShutdownKeepsInv, WalkEndsKeepsInv DEF Next

-----------------------------------------------------------------------------
(* What relates Lua's state, the engine's callbacks, the handlers and the  *)
(* walk is kept by every step, through failed and repeated starts.         *)
THEOREM HostInvariant == Spec => []IInv
  BY InvInit, InvNext, PTL DEF Spec

(* The host's state is well typed, with one callback of the pool for each  *)
(* priority and run.                                                       *)
THEOREM HostTypeCorrect == Spec => []TypeOK
  <1>1. IInv => TypeOK
    BY DEF IInv
  <1>2. QED
    BY <1>1, HostInvariant, PTL

(* However many handlers mods register, at whatever priorities and when,   *)
(* those above the floor run before the teardown, and in order and once    *)
(* unless the engine kept callbacks of an earlier run.                     *)
THEOREM ModsAreTold == Spec => []ModsAreToldBeforeTeardown
  <1>1. IInv => ModsAreToldBeforeTeardown
    <2> SUFFICES ASSUME IInv PROVE ModsAreToldBeforeTeardown
      OBVIOUS
    <2>1. NoneLeftOver => \A i, j \in DOMAIN ran : i < j => Earlier(ran[i], ran[j])
      BY DEF IInv, Ordered, InTurn
    <2>2. ASSUME phase = "over", NEW h \in entry, h.priority > Floor
          PROVE  \E n \in DOMAIN ran : ran[n] = h
      <3>1. calling = {}
        BY <2>2 DEF IInv, Idle
      <3>2. QED
        BY <2>2, <3>1 DEF IInv, Told
    <2>3. QED
      BY <2>1, <2>2 DEF ModsAreToldBeforeTeardown, Earlier
  <1>2. QED
    BY <1>1, HostInvariant, PTL

(* No callback of a mod outlives the Lua state where callbacks can be      *)
(* removed, and no handler is ever called without one.                     *)
THEOREM ThunksGoWithLua == Spec => []NoThunkWithoutLua
  <1>1. IInv => NoThunkWithoutLua
    BY DEF IInv, Closed, Mods, NoThunkWithoutLua
  <1>2. QED
    BY <1>1, HostInvariant, PTL
=============================================================================
