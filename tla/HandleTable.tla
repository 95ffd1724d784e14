---------------------------- MODULE HandleTable ----------------------------
(***************************************************************************)
(* mml::HandleTable (src/src/bridge/handle.cpp): engine pointers as        *)
(* generation-stamped Lua userdata.  A userdata holds {slot, generation}   *)
(* and never a pointer; every use re-validates it against the table, and   *)
(* invalidate_all retires every live slot at once.                         *)
(*                                                                         *)
(* The table is driven by two actors: the bridge, which acquires a handle  *)
(* whenever an engine call or an event context hands a pointer to Lua, and *)
(* the host, which invalidates everything when a world goes away.  Lua     *)
(* keeps the userdata it was given for as long as it likes: `held'.        *)
(***************************************************************************)
EXTENDS Integers, Sequences, FiniteSets

CONSTANTS Ptrs,      \* addresses the engine hands out
          Types,     \* type ids of the bridge, one per engine type
          NullPtr,   \* nullptr
          NoType,    \* the typeId of a slot that was never occupied
          MaxSlots,  \* bound: slots the vector may grow to
          MaxGen,    \* largest generation: 2^32 - 1 in the code
          MaxLap,    \* bound: how often a slot's generation may wrap
          MaxHeld    \* bound: userdata Lua keeps at one time

ASSUME HandleAssumption ==
  /\ MaxSlots \in Nat \ {0} /\ MaxGen \in Nat \ {0}
  /\ MaxLap \in Nat /\ MaxHeld \in Nat
  /\ NullPtr \notin Ptrs /\ NoType \notin Types

Absent  == -1      \* no entry for a pointer in m_index
Idle    == -1      \* invalidate_all is not running

SlotIds     == 0 .. MaxSlots - 1
Generations == 1 .. MaxGen           \* 0 is reserved: "never valid"
HandleRef   == [slot : SlotIds, generation : Generations]
Slot        == [ptr : Ptrs \cup {NullPtr}, generation : Generations,
                typeId : Types \cup {NoType}, live : BOOLEAN]

VARIABLES slots,   \* m_slots, with the slots beyond `size' at their default
          size,    \* m_slots.size()
          free,    \* m_free, a stack
          index,   \* m_index: pointer -> slot or Absent
          sweep,   \* the loop index of a running invalidate_all, or Idle
          lap,     \* history: how often each slot's generation wrapped
          held     \* the userdata alive in Lua, with what each was made for

vars == <<slots, size, free, index, sweep, lap, held>>

(* A userdata: the 8 bytes Lua holds, and, as history, the object it was   *)
(* made for and the lap of the slot at that moment.                        *)
Handle == [ref : HandleRef, ptr : Ptrs, typeId : Types, lap : Nat]

EmptySlot == [ptr |-> NullPtr, generation |-> 1, typeId |-> NoType, live |-> FALSE]

Init ==
  /\ slots = [s \in SlotIds |-> EmptySlot]
  /\ size = 0
  /\ free = <<>>
  /\ index = [p \in Ptrs |-> Absent]
  /\ sweep = Idle
  /\ lap = [s \in SlotIds |-> 0]
  /\ held = {}

-----------------------------------------------------------------------------
(* What Lua can ask of a handle.                                           *)

IsLive(ref) ==
  /\ ref.generation # 0
  /\ ref.slot < size
  /\ slots[ref.slot].live
  /\ slots[ref.slot].generation = ref.generation

Resolve(ref, typeId) ==
  IF IsLive(ref) /\ slots[ref.slot].typeId = typeId
  THEN slots[ref.slot].ptr
  ELSE NullPtr

-----------------------------------------------------------------------------
(* acquire.  Its one caller, push_handle, has dealt with null pointers.    *)

(* A fault: the newest slot is not looked at.                              *)
KnownButNewest(p, t) ==
  /\ index[p] # Absent
  /\ index[p] + 1 < size
  /\ slots[index[p]].live
  /\ slots[index[p]].typeId = t

(* The pointer is known under this very type: its slot is handed out again. *)
Known(p, t) ==
  /\ index[p] # Absent
  /\ index[p] < size
  /\ slots[index[p]].live
  /\ slots[index[p]].typeId = t

(* The userdata pushed for slot s in the table as it now is.               *)
Handed(s, p, t) ==
  [ref |-> [slot |-> s, generation |-> slots[s].generation],
   ptr |-> p, typeId |-> t, lap |-> lap[s]]

(* Occupy slot s.  Its generation carries over from the previous occupant. *)
Occupy(s, p, t) ==
  /\ slots' = [slots EXCEPT ![s] = [ptr |-> p, generation |-> @.generation,
                                    typeId |-> t, live |-> TRUE]]
  /\ index' = [index EXCEPT ![p] = s]
  /\ held'  = held \cup {Handed(s, p, t)}

AcquireKnown(p, t) ==
  /\ Known(p, t)
  /\ held' = held \cup {Handed(index[p], p, t)}
  /\ UNCHANGED <<slots, size, free, index>>

(* A fault: the slot stays on the free list.                               *)
AcquireReuseUnpopped(p, t) ==
  /\ ~Known(p, t)
  /\ free # <<>>
  /\ Occupy(free[Len(free)], p, t)
  /\ UNCHANGED <<free, size>>

AcquireReuse(p, t) ==
  /\ ~Known(p, t)
  /\ free # <<>>
  /\ Occupy(free[Len(free)], p, t)
  /\ free' = SubSeq(free, 1, Len(free) - 1)
  /\ UNCHANGED size

AcquireGrow(p, t) ==
  /\ ~Known(p, t)
  /\ free = <<>>
  /\ size < MaxSlots
  /\ Occupy(size, p, t)
  /\ size' = size + 1
  /\ UNCHANGED free

Acquire(p, t) ==
  /\ sweep = Idle
  /\ Cardinality(held) < MaxHeld
  /\ \/ AcquireKnown(p, t)
     \/ AcquireReuse(p, t)
     \/ AcquireGrow(p, t)
  /\ UNCHANGED <<sweep, lap>>

-----------------------------------------------------------------------------
(* retire and invalidate_all.                                              *)

(* Faults: the generation wraps to the reserved 0, or is left alone.       *)
BumpToZero(g) == IF g = MaxGen THEN 0 ELSE g + 1
NoBump(g) == g

(* ++generation on uint32_t, skipping the reserved 0.                      *)
Bump(g) == IF g = MaxGen THEN 1 ELSE g + 1

(* A fault: the pointer stays in the index.                                *)
RetireStillIndexed(s) ==
  /\ slots' = [slots EXCEPT ![s] = [ptr |-> NullPtr, generation |-> Bump(@.generation),
                                    typeId |-> @.typeId, live |-> FALSE]]
  /\ free'  = Append(free, s)
  /\ lap'   = [lap EXCEPT ![s] = IF slots[s].generation = MaxGen THEN @ + 1 ELSE @]
  /\ UNCHANGED index

(* The generation is bumped on retirement, and the index entry is dropped  *)
(* only if it still names this slot.                                       *)
Retire(s) ==
  /\ index' = IF index[slots[s].ptr] = s
              THEN [index EXCEPT ![slots[s].ptr] = Absent]
              ELSE index
  /\ slots' = [slots EXCEPT ![s] = [ptr |-> NullPtr, generation |-> Bump(@.generation),
                                    typeId |-> @.typeId, live |-> FALSE]]
  /\ free'  = Append(free, s)
  /\ lap'   = [lap EXCEPT ![s] = IF slots[s].generation = MaxGen THEN @ + 1 ELSE @]

MayWrap == \A s \in SlotIds : lap[s] < MaxLap \/ slots[s].generation < MaxGen

InvalidateAll ==
  /\ sweep = Idle
  /\ MayWrap
  /\ sweep' = 0
  /\ UNCHANGED <<slots, size, free, index, lap, held>>

(* One turn of the loop.  It is not interleaved with Lua: nothing it calls *)
(* runs Lua code, so Acquire waits for sweep = Idle.                       *)
SweepStep ==
  /\ sweep \in 0 .. size - 1
  /\ IF slots[sweep].live THEN Retire(sweep) ELSE UNCHANGED <<slots, free, index, lap>>
  /\ sweep' = sweep + 1
  /\ UNCHANGED <<size, held>>

(* A fault: the loop ends one slot early.                                  *)
SweepDoneEarly ==
  /\ sweep # Idle /\ sweep + 1 >= size
  /\ sweep' = Idle
  /\ UNCHANGED <<slots, size, free, index, lap, held>>

SweepDone ==
  /\ sweep = size
  /\ sweep' = Idle
  /\ UNCHANGED <<slots, size, free, index, lap, held>>

(* Lua forgets a userdata: handles have no __gc, so the table is not told. *)
Collect(h) ==
  /\ held' = held \ {h}
  /\ UNCHANGED <<slots, size, free, index, sweep, lap>>

Next ==
  \/ \E p \in Ptrs, t \in Types : Acquire(p, t)
  \/ InvalidateAll
  \/ SweepStep
  \/ SweepDone
  \/ \E h \in held : Collect(h)

Spec == Init /\ [][Next]_vars

-----------------------------------------------------------------------------
(* The table is well typed.                                                *)
TypeOK ==
  /\ slots \in [SlotIds -> Slot]
  /\ size \in 0 .. MaxSlots
  /\ free \in Seq(SlotIds)
  /\ index \in [Ptrs -> SlotIds \cup {Absent}]
  /\ sweep \in 0 .. MaxSlots \cup {Idle}
  /\ lap \in [SlotIds -> Nat]
  /\ held \in SUBSET Handle

(* m_free holds every dead slot of the vector exactly once: a slot lost    *)
(* from it leaks for the process's life, and one listed twice would be     *)
(* handed to two objects.                                                  *)
FreeListExact ==
  /\ \A i, j \in 1 .. Len(free) : free[i] = free[j] => i = j
  /\ \A s \in SlotIds :
       (\E i \in 1 .. Len(free) : free[i] = s) <=> (s < size /\ ~slots[s].live)

(* m_index never names a slot that was retired or given to another         *)
(* pointer, also after one pointer occupied slots under several types.     *)
IndexSound ==
  \A p \in Ptrs : index[p] # Absent =>
    /\ index[p] < size
    /\ slots[index[p]].live
    /\ slots[index[p]].ptr = p

(* Until the generation of its slot wraps, a handle that still validates   *)
(* names the object it was made for: a slot may have been retired and      *)
(* given to another object, but then the old handle is stale.              *)
LiveHandleNamesItsObject ==
  \A h \in held :
    IsLive(h.ref) /\ lap[h.ref.slot] = h.lap =>
      /\ slots[h.ref.slot].ptr = h.ptr
      /\ slots[h.ref.slot].typeId = h.typeId

(* A stale handle stays stale, whatever is acquired later, unless its      *)
(* slot's generation went all the way round.                               *)
StaleStaysStale ==
  [][\A h \in held : ~IsLive(h.ref) /\ IsLive(h.ref)' => lap'[h.ref.slot] # h.lap]_vars

(* handle.hpp:39: two lookups of one entity compare equal.  That holds     *)
(* while a pointer is known under one type only, for it then occupies one  *)
(* slot; known under two, it takes a new slot with every change of type.   *)
(* (invalidate_all empties the slots one by one; Lua does not run then.)   *)
SlotsOf(p) == {s \in SlotIds : slots[s].live /\ slots[s].ptr = p}
OneSlotPerObject ==
  sweep = Idle => \A p \in Ptrs :
    (\A s, r \in SlotsOf(p) : slots[s].typeId = slots[r].typeId)
      => \A s, r \in SlotsOf(p) : s = r

(* No handle survives invalidate_all, whatever it names and whenever its   *)
(* slot was acquired.                                                      *)
InvalidateAllLeavesNothingLive ==
  [][sweep # Idle /\ sweep' = Idle =>
       /\ \A h \in held : ~IsLive(h.ref)'
       /\ \A p \in Ptrs : index'[p] = Absent]_vars
=============================================================================
