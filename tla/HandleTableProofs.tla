------------------------- MODULE HandleTableProofs -------------------------
(***************************************************************************)
(* Proofs about HandleTable, for every set of pointers and types and every *)
(* number of slots, generations, laps and userdata.                        *)
(***************************************************************************)
EXTENDS HandleTableRefinement, SequenceTheorems, TLAPS

(* A live slot is within the vector and holds a real pointer.              *)
LiveIsOccupied ==
  \A s \in SlotIds : slots[s].live =>
    s < size /\ slots[s].ptr \in Ptrs /\ slots[s].typeId \in Types

(* Outside invalidate_all every occupied pointer has an index entry.       *)
LiveIsIndexed ==
  sweep = Idle => \A s \in SlotIds : slots[s].live => index[slots[s].ptr] # Absent

(* The loop leaves only dead slots behind.                                 *)
SweptIsDead ==
  sweep # Idle => sweep <= size /\ \A s \in SlotIds : s < sweep => ~slots[s].live

(* A userdata never runs ahead of its slot, and while the slot has the     *)
(* userdata's own generation and lap it is still the slot it was made for. *)
HeldIsPastOrPresent ==
  \A h \in held : LET s == h.ref.slot IN
    /\ s < size
    /\ h.lap <= lap[s]
    /\ h.lap = lap[s] => h.ref.generation <= slots[s].generation
    /\ h.lap = lap[s] /\ h.ref.generation = slots[s].generation =>
         slots[s].live /\ slots[s].ptr = h.ptr /\ slots[s].typeId = h.typeId

IInv ==
  /\ TypeOK
  /\ FreeListExact
  /\ IndexSound
  /\ LiveIsOccupied
  /\ LiveIsIndexed
  /\ SweptIsDead
  /\ HeldIsPastOrPresent

-----------------------------------------------------------------------------
(* What acquire does to the vector: one slot is overwritten, keeping its   *)
(* generation.                                                             *)
LEMMA OccupyEffect ==
  ASSUME TypeOK, NEW s \in SlotIds, NEW p \in Ptrs, NEW t \in Types, Occupy(s, p, t)
  PROVE  /\ slots' \in [SlotIds -> Slot]
         /\ slots'[s] = [ptr |-> p, generation |-> slots[s].generation,
                         typeId |-> t, live |-> TRUE]
         /\ \A r \in SlotIds \ {s} : slots'[r] = slots[r]
         /\ index' \in [Ptrs -> SlotIds \cup {Absent}]
         /\ index'[p] = s
         /\ \A q \in Ptrs \ {p} : index'[q] = index[q]
         /\ Handed(s, p, t) \in Handle
         /\ held' = held \cup {Handed(s, p, t)}
  <1>1. slots' = [slots EXCEPT ![s] = [ptr |-> p, generation |-> slots[s].generation,
                                       typeId |-> t, live |-> TRUE]]
    BY DEF Occupy, TypeOK, Slot
  <1>2. [ptr |-> p, generation |-> slots[s].generation, typeId |-> t, live |-> TRUE] \in Slot
    BY DEF TypeOK, Slot
  <1>3. Handed(s, p, t) \in Handle
    BY DEF Handed, Handle, HandleRef, TypeOK, Slot
  <1>4. QED
    BY <1>1, <1>2, <1>3 DEF Occupy, TypeOK

(* What retire does: one live slot dies with its generation bumped, and    *)
(* goes to the end of the free list.                                       *)
LEMMA RetireEffect ==
  ASSUME TypeOK, NEW s \in SlotIds, slots[s].ptr \in Ptrs, Retire(s)
  PROVE  /\ slots' \in [SlotIds -> Slot]
         /\ slots'[s] = [ptr |-> NullPtr, generation |-> Bump(slots[s].generation),
                         typeId |-> slots[s].typeId, live |-> FALSE]
         /\ \A r \in SlotIds \ {s} : slots'[r] = slots[r]
         /\ index' \in [Ptrs -> SlotIds \cup {Absent}]
         /\ \A q \in Ptrs : index'[q] = IF q = slots[s].ptr /\ index[q] = s
                                        THEN Absent ELSE index[q]
         /\ free' = Append(free, s)
         /\ free' \in Seq(SlotIds)
         /\ lap' \in [SlotIds -> Nat]
         /\ lap'[s] = IF slots[s].generation = MaxGen THEN lap[s] + 1 ELSE lap[s]
         /\ \A r \in SlotIds \ {s} : lap'[r] = lap[r]
  <1> DEFINE dead == [ptr |-> NullPtr, generation |-> Bump(slots[s].generation),
                      typeId |-> slots[s].typeId, live |-> FALSE]
  <1>1. slots' = [slots EXCEPT ![s] = dead]
    BY DEF Retire, TypeOK, Slot
  <1>2. Bump(slots[s].generation) \in Generations
    BY HandleAssumption DEF Bump, TypeOK, Slot, Generations
  <1>3. dead \in Slot
    BY <1>2 DEF TypeOK, Slot
  <1>4. slots' \in [SlotIds -> Slot] /\ slots'[s] = dead
          /\ \A r \in SlotIds \ {s} : slots'[r] = slots[r]
    BY <1>1, <1>3 DEF TypeOK
  <1>5. /\ index' \in [Ptrs -> SlotIds \cup {Absent}]
        /\ \A q \in Ptrs : index'[q] = IF q = slots[s].ptr /\ index[q] = s
                                       THEN Absent ELSE index[q]
    BY DEF Retire, TypeOK
  <1>6. free' = Append(free, s) /\ free' \in Seq(SlotIds)
    BY DEF Retire, TypeOK
  <1>7. /\ lap' \in [SlotIds -> Nat]
        /\ lap'[s] = IF slots[s].generation = MaxGen THEN lap[s] + 1 ELSE lap[s]
        /\ \A r \in SlotIds \ {s} : lap'[r] = lap[r]
    BY DEF Retire, TypeOK
  <1>8. QED
    BY <1>4, <1>5, <1>6, <1>7

(* Popping the stack: what is left has the other elements, in place.       *)
LEMMA PopEffect ==
  ASSUME NEW q \in Seq(SlotIds), q # <<>>
  PROVE  /\ Len(q) \in Nat \ {0}
         /\ q[Len(q)] \in SlotIds
         /\ SubSeq(q, 1, Len(q) - 1) \in Seq(SlotIds)
         /\ Len(SubSeq(q, 1, Len(q) - 1)) = Len(q) - 1
         /\ \A i \in 1 .. Len(q) - 1 : SubSeq(q, 1, Len(q) - 1)[i] = q[i]
  <1>1. Len(q) \in Nat \ {0}
    OBVIOUS
  <1>2. q[Len(q)] \in SlotIds
    BY <1>1
  <1>3. \A i \in 1 .. Len(q) - 1 : q[i] \in SlotIds
    BY <1>1
  <1>4. /\ SubSeq(q, 1, Len(q) - 1) \in Seq(SlotIds)
        /\ Len(SubSeq(q, 1, Len(q) - 1)) = Len(q) - 1
    <2> DEFINE n == Len(q) - 1
    <2>1. n \in Nat /\ 1 \in Int /\ \A i \in 1 .. n : q[i] \in SlotIds
      BY <1>1, <1>3
    <2> HIDE DEF n
    <2>2. /\ SubSeq(q, 1, n) \in Seq(SlotIds)
          /\ Len(SubSeq(q, 1, n)) = IF 1 <= n THEN n - 1 + 1 ELSE 0
      BY <2>1, SubSeqProperties
    <2>3. Len(SubSeq(q, 1, n)) = n
      BY <2>1, <2>2
    <2>4. QED
      BY <2>2, <2>3 DEF n
  <1>5. \A i \in 1 .. Len(q) - 1 : SubSeq(q, 1, Len(q) - 1)[i] = q[i]
    BY <1>1
  <1>6. QED
    BY <1>1, <1>2, <1>4, <1>5

-----------------------------------------------------------------------------
(* The table is well typed initially.                                      *)
LEMMA TypeInit == Init => TypeOK
  BY HandleAssumption
     DEF Init, TypeOK, EmptySlot, Slot, Generations, SlotIds, Absent, Idle, Handle

(* Each operation keeps the table well typed.                              *)
LEMMA TypeNext == TypeOK /\ LiveIsOccupied /\ [Next]_vars => TypeOK'
  <1> SUFFICES ASSUME TypeOK, LiveIsOccupied, [Next]_vars PROVE TypeOK'
    OBVIOUS
  <1>1. ASSUME NEW p \in Ptrs, NEW t \in Types, Acquire(p, t) PROVE TypeOK'
    <2>0. held \in SUBSET Handle
      BY DEF TypeOK
    <2>1. CASE AcquireKnown(p, t)
      <3>1. index[p] \in SlotIds
        BY <2>1 DEF AcquireKnown, Known, TypeOK
      <3>2. Handed(index[p], p, t) \in Handle
        BY <3>1 DEF Handed, Handle, HandleRef, TypeOK, Slot
      <3>3. QED
        BY <1>1, <2>1, <3>2 DEF Acquire, AcquireKnown, TypeOK
    <2>2. CASE AcquireReuse(p, t)
      <3>1. free[Len(free)] \in SlotIds /\ SubSeq(free, 1, Len(free) - 1) \in Seq(SlotIds)
        BY <2>2, PopEffect DEF AcquireReuse, TypeOK
      <3>2. Occupy(free[Len(free)], p, t)
        BY <2>2 DEF AcquireReuse
      <3>a. Handed(free[Len(free)], p, t) \in Handle
        BY <3>1, <3>2, OccupyEffect
      <3>b. held' = held \cup {Handed(free[Len(free)], p, t)}
        BY <3>1, <3>2, OccupyEffect
      <3>3. /\ slots' \in [SlotIds -> Slot]
            /\ index' \in [Ptrs -> SlotIds \cup {Absent}]
        BY <3>1, <3>2, OccupyEffect
      <3>c. held' \in SUBSET Handle
        BY <2>0, <3>a, <3>b
      <3>4. QED
        BY <1>1, <2>2, <3>1, <3>3, <3>c DEF Acquire, AcquireReuse, TypeOK
    <2>3. CASE AcquireGrow(p, t)
      <3>1. size \in SlotIds /\ size + 1 \in 0 .. MaxSlots
        BY <2>3, HandleAssumption DEF AcquireGrow, TypeOK, SlotIds
      <3>2. Occupy(size, p, t)
        BY <2>3 DEF AcquireGrow
      <3>a. Handed(size, p, t) \in Handle
        BY <3>1, <3>2, OccupyEffect
      <3>b. held' = held \cup {Handed(size, p, t)}
        BY <3>1, <3>2, OccupyEffect
      <3>3. /\ slots' \in [SlotIds -> Slot]
            /\ index' \in [Ptrs -> SlotIds \cup {Absent}]
        BY <3>1, <3>2, OccupyEffect
      <3>c. held' \in SUBSET Handle
        BY <2>0, <3>a, <3>b
      <3>4. QED
        BY <1>1, <2>3, <3>1, <3>3, <3>c DEF Acquire, AcquireGrow, TypeOK
    <2>4. QED
      BY <1>1, <2>1, <2>2, <2>3 DEF Acquire
  <1>2. CASE InvalidateAll
    BY <1>2, HandleAssumption DEF InvalidateAll, TypeOK
  <1>3. CASE SweepStep
    <2>1. sweep \in SlotIds /\ sweep + 1 \in 0 .. MaxSlots
      BY <1>3, HandleAssumption DEF SweepStep, TypeOK, SlotIds
    <2>2. CASE slots[sweep].live
      <3>1. slots[sweep].ptr \in Ptrs
        BY <2>1, <2>2 DEF LiveIsOccupied
      <3>2. Retire(sweep)
        BY <1>3, <2>2 DEF SweepStep
      <3>3. QED
        BY <1>3, <2>1, <3>1, <3>2, RetireEffect DEF SweepStep, TypeOK
    <2>3. CASE ~slots[sweep].live
      BY <1>3, <2>1, <2>3 DEF SweepStep, TypeOK
    <2>4. QED
      BY <2>2, <2>3
  <1>4. CASE SweepDone
    BY <1>4 DEF SweepDone, TypeOK
  <1>5. ASSUME NEW h \in held, Collect(h) PROVE TypeOK'
    BY <1>5 DEF Collect, TypeOK
  <1>6. CASE UNCHANGED vars
    BY <1>6 DEF vars, TypeOK
  <1>7. QED
    BY <1>1, <1>2, <1>3, <1>4, <1>5, <1>6 DEF Next

-----------------------------------------------------------------------------
(* The slot a new handle gets, whether popped or grown: it was dead, and   *)
(* the free list loses it and nothing else.                                *)
FreshSlot(s, p, t) ==
  /\ Occupy(s, p, t)
  /\ ~slots[s].live
  /\ s < size' /\ size <= size' /\ size' \in Nat
  /\ \A r \in SlotIds : r < size' => r < size \/ r = s
  /\ \A i, j \in 1 .. Len(free') : free'[i] = free'[j] => i = j
  /\ \A r \in SlotIds : (\E i \in 1 .. Len(free') : free'[i] = r)
                          <=> (r # s /\ \E i \in 1 .. Len(free) : free[i] = r)

(* The slot acquire pops off the free list is fresh: dead, of the vector,  *)
(* and listed no more.                                                     *)
LEMMA ReuseIsFresh ==
  ASSUME IInv, NEW p \in Ptrs, NEW t \in Types, AcquireReuse(p, t)
  PROVE  free[Len(free)] \in SlotIds /\ FreshSlot(free[Len(free)], p, t)
  <1> DEFINE s == free[Len(free)]
             q == SubSeq(free, 1, Len(free) - 1)
  <1>1. /\ Occupy(s, p, t) /\ free # <<>> /\ free' = q /\ size' = size
        /\ free \in Seq(SlotIds) /\ size \in Nat
    BY HandleAssumption DEF AcquireReuse, IInv, TypeOK
  <1>2. /\ Len(free) \in Nat \ {0} /\ s \in SlotIds
        /\ Len(q) = Len(free) - 1
        /\ \A i \in 1 .. Len(free) - 1 : q[i] = free[i]
    BY <1>1, PopEffect
  <1>3. \A i, j \in 1 .. Len(free) : free[i] = free[j] => i = j
    BY DEF IInv, FreeListExact
  <1>4. s < size /\ ~slots[s].live
    BY <1>2 DEF IInv, FreeListExact
  <1> HIDE DEF s, q
  <1>5. \A i, j \in 1 .. Len(q) : q[i] = q[j] => i = j
    BY <1>2, <1>3
  <1>6. s = free[Len(free)]
    BY DEF s
  <1>7. ASSUME NEW r \in SlotIds
        PROVE  (\E i \in 1 .. Len(q) : q[i] = r)
                 <=> (r # s /\ \E i \in 1 .. Len(free) : free[i] = r)
    <2>1. ASSUME NEW i \in 1 .. Len(q), q[i] = r
          PROVE  r # s /\ \E j \in 1 .. Len(free) : free[j] = r
      BY <1>2, <1>3, <1>6, <2>1
    <2>2. ASSUME r # s, NEW i \in 1 .. Len(free), free[i] = r
          PROVE  \E j \in 1 .. Len(q) : q[j] = r
      <3>1. i \in 1 .. Len(q)
        BY <1>2, <1>6, <2>2
      <3>2. q[i] = r
        BY <1>2, <2>2, <3>1
      <3>3. QED
        BY <3>1, <3>2
    <2>3. QED
      BY <2>1, <2>2
  <1>8. \A r \in SlotIds : r < size' => r < size
    BY <1>1
  <1>9. s < size' /\ size <= size' /\ size' \in Nat
    BY <1>1, <1>4
  <1>10. FreshSlot(s, p, t)
    BY <1>1, <1>4, <1>5, <1>7, <1>8, <1>9 DEF FreshSlot
  <1>11. QED
    BY <1>2, <1>10 DEF s

(* The slot push_back adds is fresh: it was not in the vector, and no      *)
(* userdata was ever made for it.                                          *)
LEMMA GrowIsFresh ==
  ASSUME IInv, NEW p \in Ptrs, NEW t \in Types, AcquireGrow(p, t)
  PROVE  size \in SlotIds /\ FreshSlot(size, p, t)
  <1>1. size \in SlotIds
    BY HandleAssumption DEF AcquireGrow, IInv, TypeOK, SlotIds
  <1>2. ~slots[size].live
    BY <1>1 DEF IInv, LiveIsOccupied, SlotIds
  <1>3. /\ Occupy(size, p, t) /\ size' = size + 1 /\ free' = free /\ free = <<>>
    BY DEF AcquireGrow
  <1>4. /\ \A i, j \in 1 .. Len(free') : free'[i] = free'[j] => i = j
        /\ \A r \in SlotIds : (\E i \in 1 .. Len(free') : free'[i] = r)
             <=> (r # size /\ \E i \in 1 .. Len(free) : free[i] = r)
    BY <1>3
  <1>5. /\ size < size' /\ size <= size' /\ size' \in Nat
        /\ \A r \in SlotIds : r < size' => r < size \/ r = size
    BY <1>1, <1>3 DEF SlotIds
  <1>6. QED
    BY <1>1, <1>2, <1>3, <1>4, <1>5 DEF FreshSlot

(* Handing out a fresh slot keeps every part of the invariant.             *)
LEMMA FreshKeepsInv ==
  ASSUME IInv, TypeOK', sweep = Idle, sweep' = Idle, lap' = lap,
         NEW p \in Ptrs, NEW t \in Types, NEW s \in SlotIds, FreshSlot(s, p, t)
  PROVE  IInv'
  <1>0. TypeOK /\ Occupy(s, p, t)
    BY DEF IInv, FreshSlot
  <1>1. /\ slots'[s] = [ptr |-> p, generation |-> slots[s].generation,
                        typeId |-> t, live |-> TRUE]
        /\ \A r \in SlotIds \ {s} : slots'[r] = slots[r]
        /\ index'[p] = s
        /\ \A q \in Ptrs \ {p} : index'[q] = index[q]
        /\ held' = held \cup {Handed(s, p, t)}
    BY <1>0, OccupyEffect
  <1>2. /\ ~slots[s].live
        /\ s < size' /\ size <= size' /\ size' \in Nat
        /\ \A r \in SlotIds : r < size' => r < size \/ r = s
    BY DEF FreshSlot
  <1>3. FreeListExact'
    <2>1. \A r \in SlotIds : (\E i \in 1 .. Len(free) : free[i] = r)
                               <=> (r < size /\ ~slots[r].live)
      BY DEF IInv, FreeListExact
    <2>2. \A r \in SlotIds : (\E i \in 1 .. Len(free') : free'[i] = r)
                          <=> (r # s /\ \E i \in 1 .. Len(free) : free[i] = r)
      BY DEF FreshSlot
    <2>3. \A r \in SlotIds : (r < size' /\ ~slots'[r].live)
                          <=> (r # s /\ r < size /\ ~slots[r].live)
      BY <1>0, <1>1, <1>2 DEF TypeOK, SlotIds
    <2>4. \A i, j \in 1 .. Len(free') : free'[i] = free'[j] => i = j
      BY DEF FreshSlot
    <2>5. QED
      BY <2>1, <2>2, <2>3, <2>4 DEF FreeListExact
  <1>4. IndexSound'
    BY <1>0, <1>1, <1>2 DEF IInv, IndexSound, TypeOK, SlotIds, Absent
  <1>5. LiveIsOccupied'
    BY <1>0, <1>1, <1>2 DEF IInv, LiveIsOccupied, TypeOK, SlotIds
  <1>6. LiveIsIndexed'
    <2>1. ASSUME NEW r \in SlotIds, slots'[r].live PROVE index'[slots'[r].ptr] # Absent
      <3>1. CASE r = s
        BY <1>1, <3>1 DEF SlotIds, Absent
      <3>2. CASE r # s
        <4>1. slots'[r] = slots[r] /\ slots[r].ptr \in Ptrs
                /\ index[slots[r].ptr] # Absent
          BY <1>1, <2>1, <3>2 DEF IInv, LiveIsOccupied, LiveIsIndexed
        <4>2. QED
          BY <1>1, <4>1 DEF SlotIds, Absent
      <3>3. QED
        BY <3>1, <3>2
    <2>2. QED
      BY <2>1 DEF LiveIsIndexed
  <1>7. SweptIsDead'
    BY DEF SweptIsDead
  <1>8. HeldIsPastOrPresent'
    <2> SUFFICES ASSUME NEW h \in held',
                        NEW r, r = h.ref.slot
                 PROVE  /\ r < size'
                        /\ h.lap <= lap'[r]
                        /\ h.lap = lap'[r] => h.ref.generation <= slots'[r].generation
                        /\ h.lap = lap'[r] /\ h.ref.generation = slots'[r].generation =>
                             slots'[r].live /\ slots'[r].ptr = h.ptr
                               /\ slots'[r].typeId = h.typeId
      BY DEF HeldIsPastOrPresent
    <2>1. CASE h = Handed(s, p, t)
      <3>1. slots[s].generation \in Generations /\ lap[s] \in Nat
        BY <1>0 DEF TypeOK, Slot
      <3>2. r = s /\ h.lap = lap[s] /\ h.ref.generation = slots[s].generation
              /\ h.ptr = p /\ h.typeId = t
        BY <2>1 DEF Handed
      <3>3. QED
        BY <1>1, <1>2, <3>1, <3>2 DEF Generations
    <2>2. CASE h \in held
      <3>1. /\ r \in SlotIds /\ r < size
            /\ h.lap <= lap[r]
            /\ h.lap = lap[r] => h.ref.generation <= slots[r].generation
            /\ h.lap = lap[r] /\ h.ref.generation = slots[r].generation =>
                 slots[r].live /\ slots[r].ptr = h.ptr /\ slots[r].typeId = h.typeId
        BY <2>2, <1>0 DEF IInv, HeldIsPastOrPresent, TypeOK, Handle, HandleRef
      <3>2. r < size'
        BY <1>0, <1>2, <3>1 DEF TypeOK, SlotIds
      <3>3. CASE r = s
        BY <1>1, <1>2, <3>1, <3>2, <3>3
      <3>4. CASE r # s
        BY <1>1, <3>1, <3>2, <3>4
      <3>5. QED
        BY <3>3, <3>4
    <2>3. QED
      BY <1>1, <2>1, <2>2
  <1>9. QED
    BY <1>3, <1>4, <1>5, <1>6, <1>7, <1>8 DEF IInv

(* Retiring the slot the loop stands on keeps every part of the invariant. *)
LEMMA RetireKeepsInv ==
  ASSUME IInv, TypeOK', SweepStep, slots[sweep].live
  PROVE  IInv'
  <1> DEFINE s == sweep
  <1>0. /\ TypeOK /\ s \in SlotIds /\ s < size /\ Retire(s)
        /\ size' = size /\ held' = held /\ sweep' = s + 1
    BY HandleAssumption DEF IInv, TypeOK, SlotIds, SweepStep
  <1>1. slots[s].live /\ slots[s].ptr \in Ptrs /\ slots[s].generation \in Generations
    BY <1>0 DEF IInv, LiveIsOccupied, TypeOK, Slot
  <1> HIDE DEF s
  <1>2. /\ slots'[s] = [ptr |-> NullPtr, generation |-> Bump(slots[s].generation),
                        typeId |-> slots[s].typeId, live |-> FALSE]
        /\ \A r \in SlotIds \ {s} : slots'[r] = slots[r]
        /\ \A q \in Ptrs : index'[q] = IF q = slots[s].ptr /\ index[q] = s
                                       THEN Absent ELSE index[q]
        /\ free' = Append(free, s)
        /\ lap'[s] = IF slots[s].generation = MaxGen THEN lap[s] + 1 ELSE lap[s]
        /\ \A r \in SlotIds \ {s} : lap'[r] = lap[r]
    BY <1>0, <1>1, RetireEffect
  <1>3. FreeListExact'
    <2>1. /\ Len(free') = Len(free) + 1 /\ Len(free) \in Nat
          /\ \A i \in 1 .. Len(free) : free'[i] = free[i]
          /\ free'[Len(free) + 1] = s
      BY <1>0, <1>2, AppendProperties DEF TypeOK
    <2>2. /\ \A i, j \in 1 .. Len(free) : free[i] = free[j] => i = j
          /\ \A r \in SlotIds : (\E i \in 1 .. Len(free) : free[i] = r)
                                  <=> (r < size /\ ~slots[r].live)
      BY DEF IInv, FreeListExact
    <2>3. \A i \in 1 .. Len(free) : free[i] # s
      BY <1>0, <1>1, <2>2
    <2>4. \A i, j \in 1 .. Len(free') : free'[i] = free'[j] => i = j
      BY <2>1, <2>2, <2>3
    <2>5. \A r \in SlotIds : (\E i \in 1 .. Len(free') : free'[i] = r)
                               <=> (r = s \/ \E i \in 1 .. Len(free) : free[i] = r)
      BY <2>1
    <2>6. \A r \in SlotIds : (r < size' /\ ~slots'[r].live)
                               <=> (r = s \/ (r < size /\ ~slots[r].live))
      BY <1>0, <1>2
    <2>7. QED
      BY <2>2, <2>4, <2>5, <2>6 DEF FreeListExact
  <1>4. IndexSound'
    <2>1. ASSUME NEW q \in Ptrs, index'[q] # Absent
          PROVE  index'[q] < size' /\ slots'[index'[q]].live /\ slots'[index'[q]].ptr = q
      <3>1. index'[q] = index[q] /\ index[q] # Absent /\ index[q] \in SlotIds
        BY <1>0, <1>2, <2>1 DEF TypeOK
      <3>2. index[q] < size /\ slots[index[q]].live /\ slots[index[q]].ptr = q
        BY <3>1 DEF IInv, IndexSound
      <3>3. index[q] # s
        BY <1>2, <2>1, <3>1, <3>2
      <3>4. QED
        BY <1>0, <1>2, <3>1, <3>2, <3>3
    <2>2. QED
      BY <2>1 DEF IndexSound
  <1>5. LiveIsOccupied'
    BY <1>0, <1>2 DEF IInv, LiveIsOccupied
  <1>6. LiveIsIndexed'
    BY <1>0 DEF LiveIsIndexed, SlotIds, Idle
  <1>7. SweptIsDead'
    <2>1. s <= size /\ \A r \in SlotIds : r < s => ~slots[r].live
      BY <1>0 DEF IInv, SweptIsDead, SlotIds, Idle, s
    <2>2. s + 1 <= size'
      BY <1>0 DEF TypeOK, SlotIds
    <2>3. \A r \in SlotIds : r < s + 1 => ~slots'[r].live
      BY <1>0, <1>2, <2>1 DEF SlotIds
    <2>4. QED
      BY <1>0, <2>2, <2>3 DEF SweptIsDead
  <1>8. HeldIsPastOrPresent'
    <2> SUFFICES ASSUME NEW h \in held',
                        NEW r, r = h.ref.slot
                 PROVE  /\ r < size'
                        /\ h.lap <= lap'[r]
                        /\ h.lap = lap'[r] => h.ref.generation <= slots'[r].generation
                        /\ h.lap = lap'[r] /\ h.ref.generation = slots'[r].generation =>
                             slots'[r].live /\ slots'[r].ptr = h.ptr
                               /\ slots'[r].typeId = h.typeId
      BY DEF HeldIsPastOrPresent
    <2>1. /\ r \in SlotIds /\ r < size /\ h.lap \in Nat /\ h.ref.generation \in Generations
          /\ h.lap <= lap[r]
          /\ h.lap = lap[r] => h.ref.generation <= slots[r].generation
          /\ h.lap = lap[r] /\ h.ref.generation = slots[r].generation =>
               slots[r].live /\ slots[r].ptr = h.ptr /\ slots[r].typeId = h.typeId
      BY <1>0 DEF IInv, HeldIsPastOrPresent, TypeOK, Handle, HandleRef
    <2>2. CASE r # s
      BY <1>0, <1>2, <2>1, <2>2
    <2>3. CASE r = s
      <3>1. lap[s] \in Nat /\ MaxGen \in Nat \ {0}
        BY <1>0, HandleAssumption DEF TypeOK
      <3>2. CASE slots[s].generation = MaxGen
        <4>1. lap'[s] = lap[s] + 1
          BY <1>2, <3>2
        <4>2. QED
          BY <1>0, <2>1, <2>3, <3>1, <4>1
      <3>3. CASE slots[s].generation # MaxGen
        <4>1. lap'[s] = lap[s] /\ slots'[s].generation = slots[s].generation + 1
          BY <1>2, <3>3 DEF Bump
        <4>2. QED
          BY <1>0, <1>1, <2>1, <2>3, <3>1, <4>1 DEF Generations
      <3>4. QED
        BY <3>2, <3>3
    <2>4. QED
      BY <2>2, <2>3
  <1>9. QED
    BY <1>3, <1>4, <1>5, <1>6, <1>7, <1>8 DEF IInv

-----------------------------------------------------------------------------
(* The empty table has every part of the invariant.                        *)
LEMMA InvInit == Init => IInv
  <1> SUFFICES ASSUME Init PROVE IInv
    OBVIOUS
  <1>1. TypeOK
    BY TypeInit
  <1>2. FreeListExact /\ IndexSound
    BY HandleAssumption DEF Init, FreeListExact, IndexSound, SlotIds
  <1>3. LiveIsOccupied /\ LiveIsIndexed /\ SweptIsDead /\ HeldIsPastOrPresent
    BY DEF Init, LiveIsOccupied, LiveIsIndexed, SweptIsDead, HeldIsPastOrPresent,
           EmptySlot, Idle
  <1>4. QED
    BY <1>1, <1>2, <1>3 DEF IInv

(* Every operation keeps every part of the invariant: acquire by handing   *)
(* out a known or a fresh slot, invalidate_all by retiring live ones.      *)
LEMMA InvNext == IInv /\ [Next]_vars => IInv'
  <1> SUFFICES ASSUME IInv, [Next]_vars PROVE IInv'
    OBVIOUS
  <1>0. TypeOK /\ TypeOK'
    BY TypeNext DEF IInv
  <1>1. ASSUME NEW p \in Ptrs, NEW t \in Types, Acquire(p, t) PROVE IInv'
    <2>0. sweep = Idle /\ sweep' = Idle /\ lap' = lap
      BY <1>1 DEF Acquire
    <2>1. CASE AcquireKnown(p, t)
      <3>1. /\ UNCHANGED <<slots, size, free, index, sweep, lap>>
            /\ held' = held \cup {Handed(index[p], p, t)}
        BY <1>1, <2>1 DEF Acquire, AcquireKnown
      <3>2. /\ index[p] \in SlotIds /\ index[p] < size
            /\ slots[index[p]].live /\ slots[index[p]].ptr = p
            /\ slots[index[p]].typeId = t
        BY <1>0, <2>1 DEF AcquireKnown, Known, IInv, IndexSound, TypeOK
      <3>3. slots[index[p]].generation \in Generations /\ lap[index[p]] \in Nat
        BY <1>0, <3>2 DEF TypeOK, Slot
      <3>4. HeldIsPastOrPresent'
        BY <3>1, <3>2, <3>3 DEF IInv, HeldIsPastOrPresent, Handed, Generations
      <3>5. QED
        BY <1>0, <3>1, <3>4
           DEF IInv, FreeListExact, IndexSound, LiveIsOccupied, LiveIsIndexed, SweptIsDead
    <2>2. CASE AcquireReuse(p, t)
      BY <1>0, <2>0, <2>2, ReuseIsFresh, FreshKeepsInv
    <2>3. CASE AcquireGrow(p, t)
      BY <1>0, <2>0, <2>3, GrowIsFresh, FreshKeepsInv
    <2>4. QED
      BY <1>1, <2>1, <2>2, <2>3 DEF Acquire
  <1>2. CASE InvalidateAll
    BY <1>0, <1>2 DEF InvalidateAll, IInv, FreeListExact, IndexSound, LiveIsOccupied,
       LiveIsIndexed, SweptIsDead, HeldIsPastOrPresent, TypeOK, SlotIds, Idle
  <1>3. CASE SweepStep
    <2>1. CASE slots[sweep].live
      BY <1>0, <1>3, <2>1, RetireKeepsInv
    <2>2. CASE ~slots[sweep].live
      <3>1. UNCHANGED <<slots, free, index, lap, size, held>> /\ sweep' = sweep + 1
              /\ sweep \in 0 .. size - 1
        BY <1>3, <2>2 DEF SweepStep
      <3>2. SweptIsDead' /\ LiveIsIndexed'
        BY <1>0, <2>2, <3>1
           DEF IInv, SweptIsDead, LiveIsIndexed, TypeOK, SlotIds, Idle
      <3>3. QED
        BY <1>0, <3>1, <3>2
           DEF IInv, FreeListExact, IndexSound, LiveIsOccupied, HeldIsPastOrPresent
    <2>3. QED
      BY <2>1, <2>2
  <1>4. CASE SweepDone
    <2>1. UNCHANGED <<slots, free, index, lap, size, held>> /\ sweep' = Idle /\ sweep = size
      BY <1>4 DEF SweepDone
    <2>2. \A s \in SlotIds : ~slots[s].live
      BY <1>0, <2>1 DEF IInv, SweptIsDead, LiveIsOccupied, TypeOK, Idle
    <2>3. QED
      BY <1>0, <2>1, <2>2 DEF IInv, FreeListExact, IndexSound, LiveIsOccupied,
         LiveIsIndexed, SweptIsDead, HeldIsPastOrPresent
  <1>5. ASSUME NEW h \in held, Collect(h) PROVE IInv'
    BY <1>0, <1>5 DEF Collect, IInv, FreeListExact, IndexSound, LiveIsOccupied,
       LiveIsIndexed, SweptIsDead, HeldIsPastOrPresent
  <1>6. CASE UNCHANGED vars
    BY <1>0, <1>6 DEF vars, IInv, FreeListExact, IndexSound, LiveIsOccupied,
       LiveIsIndexed, SweptIsDead, HeldIsPastOrPresent
  <1>7. QED
    BY <1>1, <1>2, <1>3, <1>4, <1>5, <1>6 DEF Next

(* The inductive invariant holds in every reachable state.                 *)
THEOREM Invariant == Spec => []IInv
  BY InvInit, InvNext, PTL DEF Spec

(* The table is well typed in every reachable state.                       *)
THEOREM TypeCorrect == Spec => []TypeOK
  BY Invariant, PTL DEF IInv

(* retire and acquire keep m_free exact: it lists each dead slot once.     *)
THEOREM FreeListIsExact == Spec => []FreeListExact
  BY Invariant, PTL DEF IInv

(* m_index only ever names live slots that hold the pointer.               *)
THEOREM IndexIsSound == Spec => []IndexSound
  BY Invariant, PTL DEF IInv

(* Within a lap of its slot, a handle that validates names the object it   *)
(* was made for.                                                           *)
THEOREM LiveHandlesNameTheirObjects == Spec => []LiveHandleNamesItsObject
  <1>1. IInv => LiveHandleNamesItsObject
    BY DEF IInv, HeldIsPastOrPresent, LiveHandleNamesItsObject, IsLive
  <1>2. QED
    BY <1>1, Invariant, PTL

-----------------------------------------------------------------------------
(* No step makes a slot live and changes its generation: acquire keeps it, *)
(* and retire, which bumps it, leaves the slot dead.                       *)
LEMMA LiveKeepsItsGeneration ==
  ASSUME IInv, [Next]_vars, NEW r \in SlotIds, slots'[r].live
  PROVE  slots'[r].generation = slots[r].generation /\ lap'[r] = lap[r]
  <1>0. TypeOK
    BY DEF IInv
  <1>1. ASSUME NEW s \in SlotIds, NEW p \in Ptrs, NEW t \in Types, Occupy(s, p, t)
        PROVE  slots'[r].generation = slots[r].generation
    <2>1. /\ slots'[s] = [ptr |-> p, generation |-> slots[s].generation,
                          typeId |-> t, live |-> TRUE]
          /\ \A q \in SlotIds \ {s} : slots'[q] = slots[q]
      BY <1>0, <1>1, OccupyEffect
    <2>2. QED
      BY <2>1
  <1>2. ASSUME NEW p \in Ptrs, NEW t \in Types, Acquire(p, t)
        PROVE  slots'[r].generation = slots[r].generation /\ lap'[r] = lap[r]
    <2>1. CASE AcquireKnown(p, t)
      BY <1>2, <2>1 DEF Acquire, AcquireKnown
    <2>2. CASE AcquireReuse(p, t)
      BY <1>1, <1>2, <2>2, ReuseIsFresh DEF Acquire, FreshSlot
    <2>3. CASE AcquireGrow(p, t)
      BY <1>1, <1>2, <2>3, GrowIsFresh DEF Acquire, FreshSlot
    <2>4. QED
      BY <1>2, <2>1, <2>2, <2>3 DEF Acquire
  <1>3. CASE SweepStep
    <2>1. CASE slots[sweep].live
      <3>1. sweep \in SlotIds /\ slots[sweep].ptr \in Ptrs /\ Retire(sweep)
        BY <1>0, <1>3, <2>1, HandleAssumption
           DEF IInv, LiveIsOccupied, SweepStep, TypeOK, SlotIds
      <3>2. /\ slots'[sweep] = [ptr |-> NullPtr,
                                generation |-> Bump(slots[sweep].generation),
                                typeId |-> slots[sweep].typeId, live |-> FALSE]
            /\ \A q \in SlotIds \ {sweep} : slots'[q] = slots[q] /\ lap'[q] = lap[q]
        BY <1>0, <3>1, RetireEffect
      <3>3. QED
        BY <3>2
    <2>2. CASE ~slots[sweep].live
      BY <1>3, <2>2 DEF SweepStep
    <2>3. QED
      BY <2>1, <2>2
  <1>4. CASE UNCHANGED <<slots, lap>>
    BY <1>4
  <1>5. QED
    BY <1>2, <1>3, <1>4 DEF Next, InvalidateAll, SweepDone, Collect, vars

(* A stale handle is never revived within a lap of its slot, so the        *)
(* pointer a mod stashed before an invalidation is not used after it.      *)
THEOREM StaleHandlesStayStale == Spec => StaleStaysStale
  <1>1. IInv /\ [Next]_vars =>
          [\A h \in held : ~IsLive(h.ref) /\ IsLive(h.ref)' => lap'[h.ref.slot] # h.lap]_vars
    <2> SUFFICES ASSUME IInv, [Next]_vars, NEW h \in held,
                        ~IsLive(h.ref), IsLive(h.ref)', lap'[h.ref.slot] = h.lap
                 PROVE  FALSE
      OBVIOUS
    <2> DEFINE r == h.ref.slot
    <2>1. /\ r \in SlotIds /\ r < size
          /\ h.lap = lap[r] /\ h.ref.generation = slots[r].generation => slots[r].live
      BY DEF IInv, HeldIsPastOrPresent, TypeOK, Handle, HandleRef
    <2>2. slots'[r].live /\ slots'[r].generation = h.ref.generation
      BY DEF IsLive
    <2>3. slots'[r].generation = slots[r].generation /\ lap'[r] = lap[r]
      BY <2>1, <2>2, LiveKeepsItsGeneration
    <2>4. slots[r].live /\ slots[r].generation = h.ref.generation
      BY <2>1, <2>2, <2>3
    <2>5. QED
      BY <2>1, <2>4 DEF IsLive
  <1>2. QED
    BY <1>1, Invariant, PTL DEF Spec, StaleStaysStale

(* When invalidate_all returns, no handle in Lua validates and no pointer  *)
(* is known.                                                               *)
THEOREM InvalidateAllIsTotal == Spec => InvalidateAllLeavesNothingLive
  <1>1. IInv /\ IInv' /\ [Next]_vars =>
          [sweep # Idle /\ sweep' = Idle =>
             /\ \A h \in held : ~IsLive(h.ref)'
             /\ \A p \in Ptrs : index'[p] = Absent]_vars
    <2> SUFFICES ASSUME IInv, IInv', [Next]_vars, sweep # Idle, sweep' = Idle
                 PROVE  /\ \A h \in held : ~IsLive(h.ref)'
                        /\ \A p \in Ptrs : index'[p] = Absent
      OBVIOUS
    <2>1. SweepDone
      <3>1. ~SweepStep
        BY DEF SweepStep, Idle, IInv, TypeOK
      <3>2. QED
        BY <3>1 DEF Next, Acquire, InvalidateAll, Collect, vars, Idle
    <2>2. sweep = size /\ slots' = slots /\ size' = size /\ held' = held
      BY <2>1 DEF SweepDone
    <2>3. \A s \in SlotIds : ~slots[s].live
      BY <2>2 DEF IInv, SweptIsDead, LiveIsOccupied, TypeOK, Idle
    <2>4. \A h \in held : ~IsLive(h.ref)'
      BY <2>2, <2>3 DEF IsLive, IInv, TypeOK, Handle, HandleRef
    <2>5. ASSUME NEW p \in Ptrs PROVE index'[p] = Absent
      <3>1. index[p] # Absent => slots[index[p]].live /\ index[p] \in SlotIds
        BY DEF IInv, IndexSound, TypeOK
      <3>2. QED
        BY <2>1, <2>3, <3>1 DEF SweepDone
    <2>6. QED
      BY <2>4, <2>5
  <1>2. QED
    BY <1>1, Invariant, PTL DEF Spec, InvalidateAllLeavesNothingLive
-----------------------------------------------------------------------------
(* A fresh slot is only taken for a pointer that has none, or none that    *)
(* the index can offer under the type asked for: then the one it names     *)
(* differs from the new one in type.                                       *)
LEMMA FreshKeepsOneSlot ==
  ASSUME IInv, OneSlotPerObject, sweep = Idle,
         NEW p \in Ptrs, NEW t \in Types, ~Known(p, t),
         NEW s \in SlotIds, FreshSlot(s, p, t)
  PROVE  OneSlotPerObject'
  <1>0. /\ slots'[s] = [ptr |-> p, generation |-> slots[s].generation,
                        typeId |-> t, live |-> TRUE]
        /\ \A r \in SlotIds \ {s} : slots'[r] = slots[r]
        /\ ~slots[s].live
    BY OccupyEffect DEF FreshSlot, IInv
  <1> SUFFICES ASSUME NEW q \in Ptrs, NEW a \in SlotIds, NEW b \in SlotIds, a # b,
                      slots'[a].live, slots'[a].ptr = q,
                      slots'[b].live, slots'[b].ptr = q
               PROVE  \E c, d \in SlotIds :
                        /\ slots'[c].live /\ slots'[c].ptr = q
                        /\ slots'[d].live /\ slots'[d].ptr = q
                        /\ slots'[c].typeId # slots'[d].typeId
    BY DEF OneSlotPerObject, SlotsOf
  <1>1. CASE q = p
    <2>1. PICK c \in {a, b} : c # s
      OBVIOUS
    <2>2. slots[c].live /\ slots[c].ptr = p
      BY <1>0, <1>1, <2>1
    <2>3. index[p] # Absent
      BY <2>1, <2>2 DEF IInv, LiveIsIndexed
    <2>4. /\ index[p] \in SlotIds /\ index[p] < size
          /\ slots[index[p]].live /\ slots[index[p]].ptr = p
      BY <2>3 DEF IInv, IndexSound, TypeOK
    <2>5. slots[index[p]].typeId # t
      BY <2>3, <2>4 DEF Known
    <2>6. QED
      BY <1>0, <1>1, <2>4, <2>5
  <1>2. CASE q # p
    <2>1. a # s /\ b # s
      BY <1>0, <1>2
    <2>2. slots[a].live /\ slots[a].ptr = q /\ slots[b].live /\ slots[b].ptr = q
      BY <1>0, <2>1
    <2>3. PICK c, d \in SlotIds :
            /\ slots[c].live /\ slots[c].ptr = q /\ slots[d].live /\ slots[d].ptr = q
            /\ slots[c].typeId # slots[d].typeId
      BY <2>2 DEF OneSlotPerObject, SlotsOf
    <2>4. QED
      BY <1>0, <2>3
  <1>3. QED
    BY <1>1, <1>2

(* As long as a pointer is known under one type only, acquire always finds *)
(* its one slot again, so two lookups of one object compare equal.         *)
THEOREM ObjectsKeepTheirSlot == Spec => []OneSlotPerObject
  <1>1. Init => OneSlotPerObject
    BY DEF Init, OneSlotPerObject, SlotsOf, EmptySlot
  <1>2. IInv /\ OneSlotPerObject /\ [Next]_vars => OneSlotPerObject'
    <2> SUFFICES ASSUME IInv, OneSlotPerObject, [Next]_vars PROVE OneSlotPerObject'
      OBVIOUS
    <2>1. ASSUME NEW p \in Ptrs, NEW t \in Types, Acquire(p, t) PROVE OneSlotPerObject'
      <3>1. CASE AcquireKnown(p, t)
        BY <2>1, <3>1 DEF Acquire, AcquireKnown, OneSlotPerObject, SlotsOf
      <3>2. CASE AcquireReuse(p, t)
        BY <2>1, <3>2, ReuseIsFresh, FreshKeepsOneSlot DEF Acquire, AcquireReuse
      <3>3. CASE AcquireGrow(p, t)
        BY <2>1, <3>3, GrowIsFresh, FreshKeepsOneSlot DEF Acquire, AcquireGrow
      <3>4. QED
        BY <2>1, <3>1, <3>2, <3>3 DEF Acquire
    <2>2. CASE InvalidateAll
      BY <2>2 DEF InvalidateAll, OneSlotPerObject, Idle
    <2>3. CASE SweepStep
      BY <2>3 DEF SweepStep, OneSlotPerObject, Idle, IInv, TypeOK
    <2>4. CASE SweepDone
      <3>1. \A s \in SlotIds : ~slots'[s].live
        BY <2>4 DEF SweepDone, IInv, SweptIsDead, LiveIsOccupied, TypeOK, Idle
      <3>2. QED
        BY <3>1 DEF OneSlotPerObject, SlotsOf
    <2>5. ASSUME NEW h \in held, Collect(h) PROVE OneSlotPerObject'
      BY <2>5 DEF Collect, OneSlotPerObject, SlotsOf
    <2>6. CASE UNCHANGED vars
      BY <2>6 DEF vars, OneSlotPerObject, SlotsOf
    <2>7. QED
      BY <2>1, <2>2, <2>3, <2>4, <2>5, <2>6 DEF Next
  <1>3. QED
    BY <1>1, <1>2, Invariant, PTL DEF Spec
-----------------------------------------------------------------------------
(* The mapping to HandlePromise looks at a slot's lap, generation, pointer *)
(* and type, and at whether invalidate_all is running.                     *)
Ticketed == [k \in Ticket |-> NamedBy(k)]

LEMMA SameNames ==
  ASSUME \A k \in Ticket : NamedBy(k)' = NamedBy(k)
  PROVE  UNCHANGED Ticketed
  BY DEF Ticketed

(* Occupying a fresh slot issues the ticket of its present generation; if  *)
(* its lap is beyond those counted, no ticket changes.                     *)
LEMMA FreshIssues ==
  ASSUME IInv, sweep = Idle, sweep' = Idle, lap' = lap,
         NEW p \in Ptrs, NEW t \in Types, NEW s \in SlotIds, FreshSlot(s, p, t)
  PROVE  Promise!Next \/ UNCHANGED Ticketed
  <1> DEFINE k0 == [slot |-> s, lap |-> lap[s], generation |-> slots[s].generation]
             o  == <<p, t>>
  <1>0. /\ slots'[s] = [ptr |-> p, generation |-> slots[s].generation,
                        typeId |-> t, live |-> TRUE]
        /\ \A r \in SlotIds \ {s} : slots'[r] = slots[r]
        /\ ~slots[s].live
    BY OccupyEffect DEF FreshSlot, IInv
  <1>1. slots[s].generation \in Generations /\ lap[s] \in Nat
    BY DEF IInv, TypeOK, Slot
  <1>2. ASSUME NEW k \in Ticket PROVE NamedBy(k)' = IF k = k0 THEN o ELSE NamedBy(k)
    <2>1. Past(k)' <=> Past(k)
      BY <1>0 DEF Past, Ticket
    <2>2. Present(k)' <=> Present(k)
      BY <1>0 DEF Present, Ticket
    <2>3. CASE k.slot = s /\ Present(k)
      <3>1. k = k0
        BY <2>3 DEF Present, Ticket
      <3>2. ~Past(k)
        BY <1>1, <2>3 DEF Past, Present, Generations
      <3>3. NamedBy(k)' = <<slots[k.slot].ptr, slots[k.slot].typeId>>'
        BY <1>0, <2>1, <2>2, <2>3, <3>2 DEF NamedBy
      <3>4. QED
        BY <1>0, <2>3, <3>1, <3>3
    <2>4. CASE k.slot = s /\ ~Present(k)
      <3>1. k # k0
        BY <2>4 DEF Present
      <3>2. NamedBy(k)' = NamedBy(k)
        BY <2>1, <2>2, <2>4 DEF NamedBy
      <3>3. QED
        BY <3>1, <3>2
    <2>5. CASE k.slot # s
      <3>1. k # k0 /\ slots'[k.slot] = slots[k.slot]
        BY <1>0, <2>5 DEF Ticket
      <3>2. NamedBy(k)' = NamedBy(k)
        BY <2>1, <2>2, <3>1 DEF NamedBy
      <3>3. QED
        BY <3>1, <3>2
    <2>6. QED
      BY <2>3, <2>4, <2>5
  <1>3. CASE k0 \in Ticket
    <2>1. NamedBy(k0) = UnusedTicket
      BY <1>0, <1>1 DEF NamedBy, Past, Present, Generations
    <2>2. Ticketed[k0] = UnusedTicket
      BY <1>3, <2>1 DEF Ticketed
    <2>3. Ticketed' = [Ticketed EXCEPT ![k0] = o]
      BY <1>2 DEF Ticketed
    <2>4. Ticketed'[k0] = o
      BY <1>3, <2>3 DEF Ticketed
    <2>5. o \in Ptrs \X Types
      OBVIOUS
    <2> HIDE DEF k0, o
    <2>6. Promise!Issue(k0, o)
      BY <2>2, <2>3, <2>4 DEF Promise!Issue, Ticketed
    <2>7. QED
      BY <1>3, <2>5, <2>6 DEF Promise!Next
  <1>4. CASE k0 \notin Ticket
    BY <1>2, <1>4, SameNames
  <1>5. QED
    BY <1>3, <1>4

(* A turn of the loop changes no ticket: the one of the retired generation *)
(* is dead since invalidate_all began, and now it is past.                 *)
LEMMA RetireChangesNoName ==
  ASSUME IInv, SweepStep, slots[sweep].live, NEW k \in Ticket
  PROVE  NamedBy(k)' = NamedBy(k)
  <1> DEFINE s == sweep
  <1>0. /\ TypeOK /\ s \in SlotIds /\ Retire(s) /\ slots[s].ptr \in Ptrs
        /\ s \in Nat /\ sweep' = s + 1
    BY HandleAssumption DEF IInv, LiveIsOccupied, TypeOK, SlotIds, SweepStep
  <1>1. sweep # Idle /\ sweep' # Idle
    BY <1>0 DEF Idle
  <1>2. slots[s].live /\ slots[s].generation \in Generations /\ lap[s] \in Nat
    BY <1>0 DEF TypeOK, Slot
  <1> HIDE DEF s
  <1>3. /\ slots'[s].generation = Bump(slots[s].generation) /\ ~slots'[s].live
        /\ lap'[s] = IF slots[s].generation = MaxGen THEN lap[s] + 1 ELSE lap[s]
        /\ \A r \in SlotIds \ {s} : slots'[r] = slots[r] /\ lap'[r] = lap[r]
    <2>1. /\ slots'[s] = [ptr |-> NullPtr, generation |-> Bump(slots[s].generation),
                          typeId |-> slots[s].typeId, live |-> FALSE]
          /\ \A r \in SlotIds \ {s} : slots'[r] = slots[r]
          /\ lap'[s] = IF slots[s].generation = MaxGen THEN lap[s] + 1 ELSE lap[s]
          /\ \A r \in SlotIds \ {s} : lap'[r] = lap[r]
      BY <1>0, RetireEffect
    <2>2. QED
      BY <2>1
  <1>4. k.slot \in SlotIds /\ k.lap \in Nat /\ k.generation \in Generations
    BY HandleAssumption DEF Ticket
  <1>5. CASE k.slot = s
    <2>1. Past(k)' <=> Past(k) \/ Present(k)
      BY <1>2, <1>3, <1>4, <1>5, HandleAssumption DEF Past, Present, Bump, Generations
    <2>2. NamedBy(k)' = IF Past(k)' THEN DeadTicket ELSE UnusedTicket
      BY <1>3, <1>5 DEF NamedBy
    <2>3. NamedBy(k) = IF Past(k) \/ Present(k) THEN DeadTicket ELSE UnusedTicket
      BY <1>1, <1>2, <1>5 DEF NamedBy
    <2>4. QED
      BY <2>1, <2>2, <2>3
  <1>6. CASE k.slot # s
    <2>1. slots'[k.slot] = slots[k.slot] /\ lap'[k.slot] = lap[k.slot]
      BY <1>3, <1>4, <1>6
    <2>2. (Past(k)' <=> Past(k)) /\ (Present(k)' <=> Present(k))
      BY <2>1 DEF Past, Present
    <2>3. QED
      BY <1>1, <2>1, <2>2 DEF NamedBy
  <1>7. QED
    BY <1>5, <1>6

(* The handle table implements HandlePromise: acquire issues a ticket or   *)
(* repeats one, invalidate_all kills every issued one at its first step.   *)
THEOREM TableKeepsPromise == Spec => KeepsPromise
  <1>1. Init => Promise!Init
    <2> SUFFICES ASSUME Init, NEW k \in Ticket PROVE NamedBy(k) = UnusedTicket
      BY DEF Promise!Init
    <2>1. ~slots[k.slot].live /\ lap[k.slot] = 0 /\ slots[k.slot].generation = 1
      BY DEF Init, EmptySlot, Ticket
    <2>2. ~Past(k)
      BY <2>1, HandleAssumption DEF Past, Ticket, Generations
    <2>3. QED
      BY <2>1, <2>2 DEF NamedBy
  <1>2. IInv /\ [Next]_vars => [Promise!Next]_Ticketed
    <2> SUFFICES ASSUME IInv, [Next]_vars PROVE Promise!Next \/ UNCHANGED Ticketed
      OBVIOUS
    <2>0. ASSUME UNCHANGED <<slots, lap, sweep>> PROVE UNCHANGED Ticketed
      BY <2>0, SameNames DEF NamedBy, Past, Present
    <2>1. ASSUME NEW p \in Ptrs, NEW t \in Types, Acquire(p, t)
          PROVE  Promise!Next \/ UNCHANGED Ticketed
      <3>1. sweep = Idle /\ sweep' = Idle /\ lap' = lap
        BY <2>1 DEF Acquire
      <3>2. CASE AcquireKnown(p, t)
        BY <2>0, <3>1, <3>2 DEF AcquireKnown
      <3>3. CASE AcquireReuse(p, t)
        BY <3>1, <3>3, ReuseIsFresh, FreshIssues
      <3>4. CASE AcquireGrow(p, t)
        BY <3>1, <3>4, GrowIsFresh, FreshIssues
      <3>5. QED
        BY <2>1, <3>2, <3>3, <3>4 DEF Acquire
    <2>2. CASE InvalidateAll
      <3>1. sweep = Idle /\ sweep' # Idle /\ slots' = slots /\ lap' = lap
        BY <2>2 DEF InvalidateAll, Idle
      <3>2. ASSUME NEW k \in Ticket
            PROVE  NamedBy(k)' = IF NamedBy(k) = UnusedTicket THEN UnusedTicket ELSE DeadTicket
        <4>1. (Past(k)' <=> Past(k)) /\ (Present(k)' <=> Present(k))
          BY <3>1 DEF Past, Present
        <4>2. slots[k.slot].live => <<slots[k.slot].ptr, slots[k.slot].typeId>> \in Ptrs \X Types
          BY DEF IInv, LiveIsOccupied, Ticket
        <4>3. QED
          BY <3>1, <4>1, <4>2, TicketAssumption DEF NamedBy
      <3>3. Promise!InvalidateAll
        BY <3>2 DEF Promise!InvalidateAll
      <3>4. QED
        BY <3>3 DEF Promise!Next
    <2>3. CASE SweepStep
      <3>1. CASE slots[sweep].live
        BY <2>3, <3>1, RetireChangesNoName, SameNames
      <3>2. CASE ~slots[sweep].live
        <4>1. slots' = slots /\ lap' = lap /\ sweep # Idle /\ sweep' # Idle
          BY <2>3, <3>2 DEF SweepStep, Idle, IInv, TypeOK
        <4>2. QED
          BY <4>1, SameNames DEF NamedBy, Past, Present
      <3>3. QED
        BY <3>1, <3>2
    <2>4. CASE SweepDone
      <3>1. slots' = slots /\ lap' = lap
        BY <2>4 DEF SweepDone
      <3>2. \A s \in SlotIds : ~slots[s].live
        BY <2>4 DEF SweepDone, IInv, SweptIsDead, LiveIsOccupied, TypeOK, Idle
      <3>3. QED
        BY <3>1, <3>2, SameNames DEF NamedBy, Past, Present, Ticket
    <2>5. ASSUME NEW h \in held, Collect(h) PROVE UNCHANGED Ticketed
      BY <2>0, <2>5 DEF Collect
    <2>6. CASE UNCHANGED vars
      BY <2>0, <2>6 DEF vars
    <2>7. QED
      BY <2>1, <2>2, <2>3, <2>4, <2>5, <2>6 DEF Next
  <1>3. QED
    BY <1>1, <1>2, Invariant, PTL DEF Spec, KeepsPromise, Promise!Spec, Ticketed
=============================================================================
