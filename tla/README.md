# minamodlua in TLA+

minamodlua is a native mod for the game *Mina the Hollower* that hosts LuaJIT:
it binds the game's C API for Lua, lets Lua mods register handlers for engine
hooks, and loads them when the game starts. Everything runs on the game's
thread. What makes it hard is not parallelism but re-entrancy and lifetime:
the engine calls the host, the host calls Lua, Lua calls the engine, which may
call the host again before the first call returned; engine objects die while
Lua holds on to them; and each of these calls may fail in the middle.

Paths below are relative to the repository.

## 1. The system

| Component | State it keeps | Operations | What makes it correct |
|---|---|---|---|
| Handle table `src/bridge/handle.*` | slots with generation, free list, pointer index | `acquire`, `resolve`, `is_live`, `invalidate_all` | a userdata in Lua never names an object other than its own, and is stale for good after an invalidation |
| Registration and dispatch `src/host/events.*` | pool of 128 slots, per-slot report budget and warning latch, handler lists in the Lua registry | `on_event`, `dispatch` (from a thunk), `events_open`, `events_shutdown` | each handler runs once per dispatch, in order, whatever the others do; claims reach the engine; pool and engine agree |
| Event contexts `src/host/eventctx.*` | the engine's context struct, the Lua event table | `push_event`, field reads and writes, the bit methods, `read_back`, `latch_handled` | what the engine finds afterwards is what Lua asked for if it fits, else what was there |
| Event table `src/host/eventdefs.*` | none (constant rows) | | names that share a hook agree on being cancellable |
| Mod discovery `src/host/modinfo.*` | none | `discover_mods`, `parse_manifest` | the right folders, in load order |
| Mod loading `src/host/modloader.*` | environments by id in the Lua registry | `load_lua_layer`, `load_mods`, `run_file` | each mod runs once in its own environment; a failing one harms no other |
| Sandbox `src/host/sandbox.*` | per-mod environment, `require` cache | `sandbox_make_env`, `require`, `print` | the chunk of a name runs once; a cycle is an error |
| Host `src/host/host.cpp` | the Lua state, the teardown hook | `MinaMod_Init`, `on_game_shutdown` | mods hear of the shutdown before Lua closes; nothing calls into a closed Lua |
| Log `src/host/log.*` | the game's API pointer, the host file | `init`, `write`, `shutdown` | no overrun, at most one line lost |
| Bridge `src/bridge/{marshal,invoke,classify,describe,pod}.hpp`, `bindings.cpp` | none | one wrapper per API function | arguments and results pair up with the published signature; a value from the engine goes back unchanged; a failed call leaves nothing behind |
| Lua layer `lua/mina/init.lua` | none | forwards to `mina.raw` | |
| Tools, build, tests, CI | | | not part of the running system |

**How they interact.** `MinaMod_Init` opens the log, creates the Lua state,
binds the API, opens the events, loads the Lua layer and the mods, and installs
`on_game_shutdown` on the hook GameShutdown. `main.lua` of a mod calls
`on_event`, which claims a slot and gives the engine that slot's thunk. The
engine raises a hook by walking its callbacks by priority; a thunk calls
`dispatch`, which calls `push_event`, the handlers of the slot one by one,
and `read_back`. Pointers in the context, and results of API calls, become
handles through `acquire`; every use goes through `resolve`. A dispatch of
WorldDestroy ends with `invalidate_all`. At GameShutdown the host removes the
thunks, invalidates the handles and closes Lua, in the middle of the engine's
walk of that very hook.

**What is hard.** Dispatches nest (a handler calls an API function that raises
the same hook), so that a slot is dispatched while it is being dispatched.
Handlers register more handlers meanwhile. A Lua error may end a handler
(caught by its own `pcall`) or a whole dispatch (caught by `lua_cpcall`). One
context is shared by the slots of several priorities. The engine destroys what
handles name. Thunks may be called after their removal, or cannot be removed at
all. The host may be started a second time in one process, over static state. The process may end at any
moment. `PROJECT.json` lists each hazard with its line and the properties that
would catch it.

## 2. The plan

Modules in the order of importance, all written:

1. `HandleTable`, the abstract `HandlePromise`, their refinement and proofs
2. `EventDefs`, `Events` and proofs: registration, dispatch, worlds, shutdown
3. `EventCtx` and proofs: contexts on their way through Lua
4. `Host` and proofs: start, shutdown and second start
5. `ModLoader` and proofs: discovery and loading
6. `Require` and proofs: the module cache
7. `Log` and proofs: the buffer and the file
8. `Classify`, `Marshal`, `Invoke` and proofs: types, conversions, calls
9. the MC modules, one for each that needs definitions in its configuration

What remains, in this order:

- infinities and NaN in `Marshal` and `EventCtx`;
- the composition of `Host` with the pool of `Events`, beyond the one hook
  GameShutdown.

## 3. The modules

Definitions keep the source's names where they have one. A definition whose
comment calls it a *fault* is never part of a specification: it is a variant of
its neighbour with a plausible mistake in it (a missing guard, an off-by-one, a
forgotten reset) that shows that the properties can tell the difference.

**HandleTable** (`handle.cpp`). `slots`, `size`, `free`, `index` are `m_slots`,
its size, `m_free` and `m_index`. `Acquire` is `acquire`, with its three cases
as disjuncts; `InvalidateAll`, `SweepStep` and `SweepDone` are
`invalidate_all`, one step per turn of its loop; Lua cannot run between them,
so `Acquire` waits. `held` is the set of userdata Lua still has, each with what
it was made for as history; `lap` counts how often a slot's generation wrapped.
`acquire(nullptr)` is left out, because its only caller, `push_handle`, pushes
`nil` itself. **HandlePromise** says the same without slots: a ticket is issued
once, names its object until everything is invalidated, and then is dead.
**HandleTableRefinement** maps a (slot, lap, generation) to a ticket.

**Events** (`events.cpp`). `slots`, `reports`, `warned` are `g_slots`,
`g_reports`, `g_warnedNotCancellable`; `handlers` is the registry table;
`installed` is the engine's side of InstallHook. `stack` is the C stack: one
record per hook the engine is raising, with its remaining callbacks, and, when
one of our slots is being dispatched, the loop index, the count that was read,
the latch and `e.mod_handled`. `Enter`, `SkipHandler`, `CallHandler`,
`HandlerReturns`, `Finish`, `ReadBackFails`, `Abort`, `LayoutFails` and
`SkipThunk` are the steps of `dispatch` and `protected_dispatch` between which
other code runs. `ReadBackFails` is a `read_back` that raises at one of its
rows, before `mod_handled` was written or after it (`eventctx.cpp:399`); the
ghost `claim` then is "maybe".
`OnEvent`, `SetModHandled`, `TakeHandle` and `Raise` are what a running handler
can do. `PlayerMoves` changes what `PlayerGetWorld` returns; a game that has no
such function is `CannotAsk`, and its handlers are not filtered
(`events.cpp:105`). `Shutdown` is `on_game_shutdown`, which may fall anywhere in
the walk of GameShutdown here (`Host` fixes its place). `live` abstracts the
handle table to the worlds that Lua holds a validating handle into:
`HandleTable` justifies that `invalidate_all` empties it.

`canRemove` says whether the game has a `RemoveHook`. Without one
`events_shutdown` leaves the thunks with the engine (`events.cpp:327`). They do
nothing while Lua is closed. After a second start such a thunk reaches a slot
that may belong to another hook by then: a *stray* dispatch, which reads and
writes a context of another type, so that the model lets it read and write
anything.

**EventDefs** is the table `kEvents`: hook, filter and cancellability of all
twenty events. `MCEvents` takes the constants of its instances from it.

**EventCtx** (`eventctx.cpp`, `eventctx.hpp`, the row macros of
`eventdefs.hpp`). `ctx` has one cell per row, with the row's kind, whether its
pointer is null, good or wild (misaligned or implausible), and the value;
`array` is the bit array; `event` and `field` are the Lua table. Besides the
kinds of the row macros there are three that an event checks or copies itself:
`elapsed` (the times that `check_fixed_update` and its like refuse), `state` (a
pointer that must not be null) and `touch` (an element of the touch array,
whose length `touchKnown` may not tell).
`PushEvent`/`Refuse` are `push_event`; `Assign`, `BitSet`, `AssignWord`,
`ReplaceField` are statements of a handler; `EngineWrites` and `InvalidateAll`
what a call into the engine may do; `ReadBack` is `read_back`. Numbers are
integers, one number type stands for all of them, and one bit array for the two
of the keyboard and for the controller's buttons.

**Host** (`host.cpp`). `chain` is the set of the engine's callbacks on
GameShutdown, the host's and those of the pool, each with the number of its
installation and the start that made it. `MinaModInit`, `StartLua`,
`StartLuaFails`, `LoadModsReturns` and `InstallTeardown` are the stages of
`MinaMod_Init`. `RaiseGameShutdown` begins a walk, `CallThunk` a dispatch of one
priority's handlers, `RunHandler` and `HandlerEnds` one handler; while it runs
it may `Register` others. A callback left over from an earlier start, in a game
without `RemoveHook` (`canRemove`), goes through whatever its slot holds by
then. `OnGameShutdown` is `on_game_shutdown`; it never removes the host's own
callback. What else a dispatch does is `Events`.

**ModLoader** (`modinfo.cpp`, `modloader.cpp`). `disk` is what each folder
holds, chosen in `Init`. `Visit` is the body of the scan, `Sort` any
permutation (a bijection of the indices) that `std::sort` may leave, `MakeEnv`,
`RunSettings` and `RunMain` the bodies of the three loops. Manifest lines are
key and value; a value that cannot be read is `NotANumber`, any other is an
integer. `StoulReads` says when `std::stoul` throws, namely beyond `unsigned
long`, so that the field keeps its value; `ToU32` narrows what it returned.
`Strtol` clamps to `long`, and `ToPriority` is the cast behind it. `ULong` is the
width of `unsigned long`: 2^32 on Windows, 2^64 on Linux.
`ContentsAssumption` says no more of a folder than that (`IsContent`). `Parse`
is the loop over the lines; `Says` is the independent definition it is
compared with: the last line of a key that could be read. A failure of `sandbox_init`, which compiles a
constant, is left out.

**Require** (`make_require` in `sandbox.cpp`). `loaded` is the cache; `Run`
begins a chunk and `ChunkReturns`/`ChunkRaises` end it, in any order, since
chunks may be suspended in coroutines. A module is a *name*, as in the cache: two
spellings of one file (`a.b` and `a/b`) are two names, and the file then runs
twice.

**Log** (`log.cpp`). `Formatted`, `NewlineAt` and `Buffer` reproduce the
arithmetic of `write` byte by byte; `TextLen` is what a reader of the C string
sees. `Write` ends with `fputs`, `Flush` is `fflush`, and `Crash` may fall in
between.

**Classify** (`classify.hpp`, `describe.hpp`, `pod.hpp`). A C type is a base,
a number of stars and whether the pointee is const; `Kind` and `ReturnKind` are
the compile-time classification, `Supported` decides whether a function has a
binding, `Builds` whether the wrapper compiles, `Width`, `ArgWidth` and
`Described` the shape of the published signature: the result (`Returned`), then
the out-parameters (`OutsUpTo`, the loop over the parameters).

**Marshal** (`marshal.hpp`, `push_return` of `invoke.hpp`) has the conversions
as operators. Numbers are counted in halves, so that fractions exist, and
rounded to the significant bits of a double or float; C integers keep their
width; 64-bit ones are signed (`int64`) or unsigned (`uint64`), as `check_wide`
and `push_wide` are instantiated for both; a cast that C++ leaves undefined gives
what x86-64 gives. A handle carries its whole C type, so that `const X*` and `X*`
are different handles, as `type_id` makes them. `Read` is
`Storage::read`, `Consumes` how far it moves `argn`, `PushReturn` and `PushOut`
the way back.

**Invoke** (`invoke.hpp`) is the machine around them. `Call` is `wrap`,
`ReadParam` one `Storage::read`, `CallEngine` the call itself, with anything
the engine may return and write, and a world it may destroy meanwhile;
`PushReturnValue`, with the free of a host-allocated string, `PushParam` and
`Return` are the rest of `run`. `PassOn` is a mod that gives a result to
another function, at the position the published signature has it. Of the calls
a mod makes only this is assumed: no C parameter is of type void (`Sigs`), and
an argument is a Lua value (`IsLuaValue`).

**HandleTableProofs**, **EventsProofs**, **RequireProofs**, **InvokeProofs**,
**LogProofs**, **HostProofs**, **EventCtxProofs** and **ModLoaderProofs** hold
the theorems (section 5).

### What is assumed of the engine and of Lua

- One thread. Callbacks of a hook are called by falling priority, equal ones in
  the order of installation (`docs/events.md`, `host.cpp:35-37`), over a list
  taken when the walk begins, all with the same context. A callback removed
  during the walk may be called or not. Where there is no RemoveHook, callbacks
  stay for good, and outlive even a second start.
- GameShutdown is not raised inside a handler, and the game initialises the
  mod again only after a complete shutdown.
- WorldDestroy of a world is raised before the world is freed, and not again
  while it is being raised.
- In `HandleTable`, `EventCtx` and `Invoke`, one address is one object between two
  invalidations; `docs/how-it-works.md:99` names the limit.

## 4. The runs

| Run | What it shows | Bounds and why they are enough |
|---|---|---|
| `handle_table` | no alias, no leak, no resurrection; implements `HandlePromise` | 3 slots, 2 pointers, 2 types, generations 1..2 that wrap once, 2 userdata: a slot is reused by another object, a pointer sits in two slots, a generation wraps, in every order |
| `events` | handlers run once, in order, all of them; claims reach the engine; handles die with a delivered world; pool, thunks and limits agree, over a shutdown and a second start | 2 slots, 1 world, 1 reported error, nesting 2 deep. The action constraint of `MCEvents` keeps a behaviour in one of four scenes: `OneHook` (`world_update` and `world_update_any` share a slot, 3 handlers, a player who moves, or no PlayerGetWorld), `Chain` (a cancellable hook at 2 priorities and 3 handlers, so that two share a slot and one may clear what the other claimed), `Worldly` (worlds come and go while handlers of two hooks at 2 priorities run; the pool runs full), `Restart` (2 starts, with RemoveHook and without). The scenes share no question, so nothing is lost by keeping them apart |
| `event_ctx` | what reaches the engine; bits are independent, over two dispatches | first two rows of any two kinds (rows are independent but for epoch and the pointer check), each null, good or wild; numbers one beyond the range at both ends; 2 statements. Then 2 words of 2 bits, three legal indices, illegal ones that alias legal ones modulo the array; 3 statements in each of 2 dispatches. `MCEventCtx` keeps the one at rest while it tries the other |
| `host` | mods are told before teardown; no handler without Lua, no thunk either where it can be removed | priorities below, at and above the floor, 3 handlers, some registered by others during the walk, 2 starts, with RemoveHook and without |
| `mod_loader` | the right mods run once, in order, in their environments, and loading ends | 3 folders of 9 contents each: every way to be no mod or to fail, both ends of the revision gate, equal priorities, equal ids. `U32` is 10^6 instead of 2^32, just above the default 999999, and `ULong` twice that, so that there are values which narrow and values which `stoul` refuses and `strtol` clamps, at either end |
| `require` | the chunk of a name runs once, results are final | 2 modules that may require each other, a missing one, one that does not compile, one that is refused; 5 requires |
| `log` | no overrun, at most one line lost | a buffer of 10 bytes with messages one below, at and one above what fits, far above, empty, and a formatting error |
| `api_call` | arguments and results pair up, round trips are exact, failures are clean | any two parameters of 20 types, any of 15 results with and without out-parameters, signed and unsigned 64-bit ones and handles of const objects among them; fitting and unfitting Lua values of every type; 2 calls with what they pass on, one destroyed world. Widths of 2, 3 and 5 bits with doubles of 4 and floats of 3: every value of the engine's is tried, and the order of the widths is the real one (bytes < int < double < 64-bit), so that the same roundings and overflows occur |
| `events_stale_world` | **disagreement** 1 below | |
| `log_truncation` | **disagreement** 2 below | |
| `require_circular` | **disagreement** 3 below | |
| `api_docs` | **disagreement** 4 below | one float parameter and every Lua value |

`CHECK_DEADLOCK FALSE` stands only where the modelled system ends: a load that
returned, a game that is over, a bound on requires or on dispatches used up.

**Fairness.** Only `ModLoader` assumes any: `WF_vars(Next)`, because
`load_mods` is one call that runs to its end, provided the mods' chunks return
(nothing in the host stops one that loops). Elsewhere the engine may simply
never call, so only safety is claimed.

### Disagreements with docs or comments that a run shows

1. `NoHandleOutlivesItsWorld`: `docs/raw-api-reference.md:21` and
   `docs/how-it-works.md:97` say that handles are invalidated after each
   `world_destroy`. `invalidate_all` is called only by `dispatch`, so only if a
   mod has a WorldDestroy slot that is not disabled. `HandlesDieWithTheirWorld`
   is what does hold.
2. `EveryLineEnds`: the comment at `log.cpp:49` reserves a byte for the
   newline, but a message that fills the buffer is terminated by `vsnprintf`
   one byte before it, so that the newline is lost.
3. `CircularMeansInProgress`: `false` in the cache "marks in-progress"
   (`sandbox.cpp:121`), but it also stays when the chunk raised, and a retry is
   called circular.
4. `ArgumentsAreAsDocumented`: `docs/how-it-works.md:73` says that there is no
   coercion and that "a string that looks like a number is not accepted where a
   number is wanted". `lua_isnumber` accepts it (`marshal.hpp:206`, `:211`) and
   the engine is called. The same formula fails of a number where a string is
   wanted, and of a handle argument that is missing, which is a null pointer
   where `docs/how-it-works.md:69` and `docs/raw-api-reference.md:18` have an
   error. `ArgumentsArrive` says only what arrives if the call goes on, and
   claims no right to go on.

### Others met while modelling, without a run

- `handle.hpp:39` and `docs/how-it-works.md:104` promise equal handles for two
  lookups of one object. A pointer looked up under alternating types gets a
  slot each time (`handle.cpp:15`). `OneSlotPerObject` states what holds.
- A failed layout check disables one (hook, priority) slot (`events.cpp:95`);
  the log line and `docs/events.md:158` speak of the event.
- Two mods with one id share the later one's environment (`modloader.cpp:224`).
  `UniqueIdsGetOwnEnvironment` states what holds.
- "failed to load and is inactive" (`modloader.cpp:246`) is logged of a mod
  whose handlers stay, as `docs/how-it-works.md:35` explains.
- The comment `host.cpp:37-40` says that mods load after the teardown hook is
  installed; the code installs it last. A handler at exactly the floor
  registered by `main.lua` therefore still runs before it.
- The result of the teardown's InstallHook is not looked at, and "ready" is
  logged all the same (`host.cpp:174`); and a `start_lua` that fails half-way
  leaves a Lua state open that nothing closes. No text promises more, so no
  property does.
- Replacing `e._keys_down` by another table clears its bits in the engine
  (`eventctx.cpp:196`), where `docs/events.md:141` calls it a guarded no-op.
  `BitsAreIndependent` says nothing of a field that was replaced by a table.
- The comment `eventctx.cpp:193` leaves alone the words that cannot be
  represented, but `to_word` takes a word that is no number for 0.
- A 64-bit argument is checked by converting there and back
  (`marshal.hpp:71`). `docs/raw-api-reference.md:22` raises for "a value a Lua
  number cannot hold exactly (greater than 2^53)". A multiple of a high power of
  two is greater and exact, and is accepted; and Lua has rounded the literal
  before, so that what arrives may not be the number that was written.
  `ArgumentsArrive` demands that what arrives is exactly the Lua number.
- A 64-bit out-parameter is given to Lua as the nearest double
  (`marshal.hpp:258`), without the check that `push_wide` makes of a result;
  `docs/how-it-works.md:76` says "Rather than truncate silently in either
  direction, the wrapper raises". `ResultsArrive` and `RoundTrip` claim such a
  value when it is exact and say nothing of it otherwise. The reference prints
  every scalar out-parameter as `number` (`describe.hpp:84`), so it does not tell
  which functions have one so wide.
- Without `RemoveHook` and with a second start of the host, a thunk of the first
  dispatches to a slot of another hook (`events.cpp:327`, `Strays`). No document
  promises otherwise; `DispatchesReachTheirHook` says that nothing else leads
  there.
- A type id is any string of eight characters, and also a number that is
  spelled with eight (`marshal.hpp:176`).
- A bool out-parameter comes back as a number, so that 0, which Lua takes for
  true, means false; and a result of a null pointer to an aggregate is one
  `nil`, where the signature has the aggregate's fields.
- A string the game allocates is lost when the game has no `Free`, or when Lua
  runs out of memory on the copy (`invoke.hpp:104`).

## 5. The proofs

Eight modules hold theorems, each about one specification, for every value of
its constants. They assume what the specification's own `ASSUME` says of the
constants, which TLC evaluates in the runs, and nothing else. Each gives an
invariant `IInv` that is shown to hold at first and to be kept by every action;
the properties the runs check are among its parts or follow from it.

### The handle table: `HandleTableProofs`

Proved: `TypeOK`, `FreeListExact`, `IndexSound`, `LiveHandleNamesItsObject`,
`OneSlotPerObject`, `StaleStaysStale`, `InvalidateAllLeavesNothingLive` and
`KeepsPromise`.

The invariants are not inductive. That a slot taken from the free list is dead
needs `FreeListExact`; that needs types and the size; that the index stays
sound when a slot is retired needs that a live slot has a real pointer; and a
handle can be told from the present occupant of its slot only if none is ahead
of it. `IInv` therefore joins, to the invariants above,

- `LiveIsOccupied`: a live slot lies within the size and has a pointer and type;
- `LiveIsIndexed`: outside of `invalidate_all`, the pointer of a live slot has an
  index entry;
- `SweptIsDead`: while `invalidate_all` runs, the slots behind its loop index
  are dead;
- `HeldIsPastOrPresent`: the lap and generation of each handle are those of its
  slot or earlier ones, and if they are those of its slot, that slot is live and
  holds the handle's object.

`InvInit` and `InvNext` show it inductive, one step per action. The work lies
in two lemmas: `FreshKeepsInv`, that occupying a slot which is free (from the
list by `ReuseIsFresh`, or new by `GrowIsFresh`) keeps the invariant, and
`RetireKeepsInv`, that a turn of the loop does. The action properties then
follow: a stale handle could only revive by its slot becoming live at its
generation, which `HeldIsPastOrPresent` puts in the past
(`LiveKeepsItsGeneration`), and a sweep that has passed every slot leaves all
of them dead by `SweptIsDead`. `OneSlotPerObject` (`ObjectsKeepTheirSlot`)
follows from `FreshKeepsOneSlot`: a slot is occupied anew only when the index
does not lead to the object.

`TableKeepsPromise` shows that every step of the table is one of
`HandlePromise` or a stutter. A slot's present generation is the one ticket
that can be alive: occupying the slot issues it (`FreshIssues`), beginning
`invalidate_all` kills every ticket at once, and the turns of its loop change
no name (`RetireChangesNoName`), since a ticket was dead from the moment the
loop began. It holds for every
`MaxLap`, the bound on wraps that both the table and its tickets have.

### Registration and dispatch: `EventsProofs`

Proved: `TypeOK`, `PoolMatchesEngine`, `LimitsStartAfresh`,
`DispatchesReachTheirHook`, `ClaimsReachTheEngine`,
`HandlesDieWithTheirWorld`, `HandlersRunOnceInOrder` and
`EveryHandlerHasItsTurn`, for any pool, any table of events and hooks, any
depth of nesting, any number of handlers, errors and starts, and games with or
without `RemoveHook` and `PlayerGetWorld`.

What a dispatch does depends on the invocations below it and on slots that
other code changes between its steps. `IInv` says what can be relied on:

- `Nested`: every invocation but the innermost is inside a handler, and a
  GameShutdown is the outermost;
- `Walks`: handlers run only while Lua is open and of a slot in use, one of the
  invocation's hook unless the dispatch strays; the thunks still to be called
  are of slots of that hook if hooks can be removed or this is the first start.
  Without it a dispatch might resume over a slot that a nested one has given to
  another event;
- `ClaimsKept`: between the engine and the handlers a claim is kept in the
  latch `handled`, and between two handlers in `e.mod_handled` as well;
- `WorldGone`: with the engine in control of a WorldDestroy that some slot was
  told of, no handle is live;
- `Closed`: a closed host has no slot in use; `Starts`: no thunk is of a start to
  come, so that those of the present start are told from left-over ones.

What a failed `read_back` may leave in the context is `WrittenKeepsClaims`.
One lemma per step (`EnterEffect`, `FinishEffect`, ...) says what it does to
the innermost invocation; `SlotsStayInUse` says that only the shutdown takes a
slot away from its event, and `ShutdownIsOutermost` that it never does so under
a running handler. From these each conjunct is shown to be kept
(`PoolNext`, `LimitsNext`, `NestedNext`, `WalksNext`, `ClaimsNext`,
`WorldGoneNext`, `ClosedNext`).

Two steps choose: `find_or_install` the first unused slot, the engine the
waiting callback of the highest priority. That there is something to choose is
an induction. The theorems on induction take an operator as a parameter and
cannot be instantiated here; `LeastNat` takes their place. It derives from
`WFMin` that a set of naturals has a least element, and `HighestExists` applies
it to the least bound under which a set of slots without a highest priority
would exist.

The order of the handlers needs `OrderInv` besides, kept by every step from a
state of `IInv`: `FiltersMatch`, that a handler carries the filter of the name
it was registered under, and `Ordered`, that every loop, nested ones included,
is within the handlers that were there when it began and has called the wanted
ones among those behind it, each once and ascending (`Enumerates`). A loop that
is suspended is disturbed only by registration, and `HandlersGrow` says that
registration adds behind the others; the shutdown, which empties the lists,
finds no loop at all.

### The module cache: `RequireProofs`

Proved: `TypeOK`, `EachNameRunsOnce` and `ResultsAreFinal`. Only the chunk that
runs may write its cache entry, and that entry is `false` until then
(`RunningIsMarked`); once a chunk was run, its entry is never nil again
(`RunIsRemembered`).

### An API call: `InvokeProofs`

Proved: `TypeOK`, `ArgumentsArrive`, `ResultsArrive`, `RoundTrip` and
`CleanFailure`, for every signature that has a binding and builds, any Lua
values as arguments, and any widths that `Marshal` allows.

*How they pair up.* `PairInv` says that each parameter was read where its
predecessor's arguments end, and that `argn` is where the last one's end. It
rests on `ConsumesWhatIsDescribed`: what `Storage::read` consumes of each type
is what the published signature says of it, the two being separate pieces of
code. `OwnInv` counts the host's strings: the only one not yet freed is the one
that waits to be pushed. `OnlyWideFails` says that no other push can raise.

*What arrives.* `ArrivalInv` adds three parts to that.

- `HeldInv`: each parameter read so far holds what Lua meant (`ReadIsMeant`, one
  case per kind). The 64-bit case is the one that needs arithmetic: of the casts
  there and back, only exact ones compare equal.
- `GivenInv`: the values pushed so far lie one behind the other, each shows the
  engine's value (`Shown`), all at one epoch, and their types are `Returned`
  followed by `OutsUpTo[pushed]`. When every parameter was asked, that is
  `Described`. That `OutsUpTo` is what its definition says is an induction over
  the parameters, which `UpToN` does (as in the loader, below).
- `PassedInv`: a value on its way back to the engine was `Giving`, is shown at
  the first argument, and once read is the value itself. `ShownElsewhere` says
  that what is shown depends on the values only, so it may be moved to another
  argument list.

A value goes round unchanged because rounding leaves alone what Lua can hold.
`WideIsExact` and `WideGoesRound` say so of 64-bit results, `SmallStays` of the
narrower ones. They rest on lemmas about powers of two: `UnitExists`, that there
is a unit to round to, `FewBitsStay`, that a number of few bits is not changed,
and `EvenStaysEven`, that rounding a whole number gives one.

### The log: `LogProofs`

Proved: `TypeOK`, `DiskHoldsThisRun` and `BufferIsBigEnough`, for any size of the buffer and any messages. `TextEnds` is the arithmetic: the
text a reader sees ends within the buffer, whether the message is shorter than
what fits, fills it, exceeds it, or could not be formatted. Since the newline
may fall behind the terminator, `WrittenAreRoomy` keeps for each line that it
is whole if there was room for it, which `BufferIsBigEnough` needs of lines
written long ago. `ClosedIsIdle` says that a line pending means an open file.

### The host: `HostProofs`

Proved: `TypeOK`, `ModsAreToldBeforeTeardown` and `NoThunkWithoutLua`, for any
priorities, any number of handlers and starts, and games with or without
`RemoveHook`. `HasThunk` says that every handler has a callback with the engine;
`Closed` that without a Lua state there is no handler, and where callbacks can be
removed no callback of a mod either. Where they cannot, the order of the
handlers is claimed as long as none is left over from an earlier start
(`NoneLeftOver`). `Told` says of each handler above the floor that the walk found:
it has run, is to be called by the running dispatch, or its callback is still
to be called. When the host's callback is the first of the remaining, none above the floor
remains (`FirstIsAbove`), so that the third case is empty when Lua closes.
`Ordered` says that what ran comes before what the dispatch still calls, and
that before what the walk still calls; a handler that is registered during the
walk goes behind all others of its priority.

### Event contexts: `EventCtxProofs`

Proved: `TypeOK`, `RowsArrive` and `BitsAreIndependent`, for any rows of any
kinds, any range of numbers, any number and width of words, and any statements. `Handling` says what holds while handlers run: the
history has the context as it is, and a row that nobody wrote stands in the
event table as it was pushed (`PushedAt`), perhaps with a handle of an earlier
epoch. `PushedFits` shows that reading such a value back gives what is there,
stale handle or not; `ReadRowFits` that reading any value back gives what it
says if it fits, and else what is there.

The bits are arithmetic: adding 2^p to a word in which that bit is not set
changes no other (`BitAdded`), taking it away where it is set neither
(`BitTaken`), and different indices are different places (`PlacesDiffer`). All
three need that powers add up, 2^(m + n) = 2^m * 2^n, which is an induction.
The proof counts instead: 2^n is the number of subsets of a set of n elements
(`PowerCounts`), and the subsets of a union of two disjoint sets are the pairs
of subsets (`PowerOfSum`). The invariant is `BitsInv`: besides the property it
has `WordsHold`, that the engine's words stay as they were while handlers run,
and that the field's slots hold words unless a handler wrote one itself, so that
the two readers of a slot, with their different defaults, agree.

### The loader: `ModLoaderProofs`

Proved: `TypeOK`, `EveryModRunsOnce`, `RunsInLoadOrder` and
`UniqueIdsGetOwnEnvironment`, for any folders, manifests of any length with any
numbers, any order of the scan, any result of the unstable sort, and an
`unsigned long` that is as wide as `uint32_t` or wider (both targets).
`Collected` says that the vector holds each folder that is kept once, which
`Sort` keeps because it permutes; `InLoop` that no loop is past the mods and
that they are sorted; `EnvsFound` that the environment of a mod
whose id no other mod has is found again, whatever ids the others share;
`RoundInOrder` that what the present round ran comes
before what it has yet to run.

`EveryModRunsOnce` has two halves. `MainsRun` says that the main scripts of the
mods the last loop has passed have run, each once, and no other has, and that
those which did not end well are the inactive ones. `KeepsIsLoadable` says that
the scan keeps the folders that are mods for this game. It compares `Parse`
with `Says` line by line (`ParseIsWhatItSays`, from `ParseReads` and
`ReadLineAgrees`), an induction over the lines. The induction theorems take an
operator and cannot be instantiated; `UpToN` takes their place: a set that
contains 0, and n whenever it contains n - 1, contains all of 0 .. N. It follows
from the well-foundedness of the naturals.

### Model-checked only

Every invariant and every action property that a passing run checks is stated
by a theorem. One property is not:

- `LoadingEnds` of `ModLoader`: liveness under fairness, which needs ENABLED.

The instances stay worth running: they show that the interesting cases occur,
and the mutants that each property fails when the code is wrong.

## 6. What is not modelled

- The hand-written functions of `bindings.cpp` and the metatables' `__index`
  and `__tostring`; the spelling of names, snake case and labels in
  `classify.hpp` and `describe.hpp`, which the build checks for collisions.
- Infinities and NaN, errors Lua raises for lack of memory.
- The list of globals a sandboxed mod sees, `print`, the Lua layer: built once,
  no behaviour over time. That the layer may be missing or fail is `LoadLayer`.
- How a module name is spelled in `require`: the test for `..`
  (`sandbox.cpp:102`) decides `Dotted`, whatever it finds.
- In `EventCtx`: fractions, the widths of single C types, the rows each event
  has and their offsets, and the single bounds of the checks of `elapsed`
  (`Events` lets the check of any context fail).
- Address reuse: the engine frees an object and puts another at its address
  between two invalidations. `docs/how-it-works.md:99` names the limit.
- The narrowing of a priority to 32 bits (`events.cpp:242`): `docs/events.md:25`
  obliges the caller to pass a signed 32-bit integer.
- Unregistering: there is no such operation in the code.
- The reference generator, build scripts, tests and CI.
