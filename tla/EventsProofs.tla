---------------------------- MODULE EventsProofs ----------------------------
(***************************************************************************)
(* Theorems about registration and dispatch, for any pool, events, hooks,  *)
(* priorities, worlds and depth of nesting.                                *)
(***************************************************************************)
EXTENDS Events, SequenceTheorems, WellFoundedInduction, TLAPS

-----------------------------------------------------------------------------
(* The choice the code makes has something to choose.                      *)

(* A set of naturals has a least element.                                  *)
LEMMA LeastNat ==
  ASSUME NEW S \in SUBSET Nat, S # {}
  PROVE  \E m \in S : \A k \in S : m <= k
  <1> DEFINE R == OpToRel(<, Nat)
  <1>1. IsWellFoundedOn(R, Nat)
    BY NatLessThanWellFounded
  <1>2. \A x \in Nat : \A y \in Nat : <<x, y>> \in R <=> x < y
    BY Zenon DEF OpToRel
  <1> HIDE DEF R
  <1>3. PICK m \in S : \A k \in S : ~(<<k, m>> \in R)
    BY <1>1, WFMin, Zenon
  <1>4. \A k \in S : ~(k < m)
    BY <1>2, <1>3, Zenon
  <1>5. QED
    BY <1>4

(* find_or_install's second loop ends at a slot that is unused.            *)
LEMMA LeastIsMember ==
  ASSUME NEW S \in SUBSET SlotIds, S # {}
  PROVE  Least(S) \in S
  <1>1. \E m \in S : \A k \in S : m <= k
    BY LeastNat, EventsAssumption DEF SlotIds
  <1>2. QED
    BY <1>1 DEF Least

-----------------------------------------------------------------------------
(* What an operation does to the invocations on the stack.                 *)

LEMMA SetTopEffect ==
  ASSUME stack \in Seq(Invocation), stack # <<>>, NEW f \in Invocation, SetTop(f)
  PROVE  /\ stack' \in Seq(Invocation) /\ Len(stack') = Len(stack) /\ stack' # <<>>
         /\ Len(stack) \in Nat \ {0} /\ Top' = f
         /\ \A d \in 1 .. Len(stack) : stack'[d] = IF d = Len(stack) THEN f ELSE stack[d]
  <1>1. Len(stack) \in Nat \ {0}
    OBVIOUS
  <1>2. QED
    BY <1>1 DEF SetTop, Top

LEMMA RaiseEffect ==
  ASSUME stack \in Seq(Invocation), NEW f \in Invocation, stack' = Append(stack, f)
  PROVE  /\ stack' \in Seq(Invocation) /\ Len(stack') = Len(stack) + 1 /\ stack' # <<>>
         /\ Len(stack) \in Nat /\ Top' = f
         /\ \A d \in 1 .. Len(stack') :
              stack'[d] = IF d = Len(stack') THEN f ELSE stack[d]
  BY DEF Top

LEMMA ReturnEffect ==
  ASSUME stack \in Seq(Invocation), stack # <<>>,
         stack' = SubSeq(stack, 1, Len(stack) - 1)
  PROVE  /\ stack' \in Seq(Invocation) /\ Len(stack') = Len(stack) - 1
         /\ Len(stack) \in Nat \ {0}
         /\ \A d \in 1 .. Len(stack') : stack'[d] = stack[d]
  <1>1. Len(stack) \in Nat \ {0}
    OBVIOUS
  <1> DEFINE n == Len(stack) - 1
  <1>2. n \in Int /\ \A d \in 1 .. n : stack[d] \in Invocation
    BY <1>1
  <1> HIDE DEF n
  <1>3. /\ SubSeq(stack, 1, n) \in Seq(Invocation)
        /\ Len(SubSeq(stack, 1, n)) = IF 1 <= n THEN n - 1 + 1 ELSE 0
        /\ \A d \in 1 .. n - 1 + 1 : SubSeq(stack, 1, n)[d] = stack[1 + d - 1]
    BY <1>2, SubSeqProperties
  <1>4. n \in Nat /\ stack' = SubSeq(stack, 1, n) /\ n = Len(stack) - 1
    BY <1>1 DEF n
  <1>5. Len(stack') = n
    BY <1>3, <1>4
  <1>6. \A d \in 1 .. n : stack'[d] = stack[d]
    BY <1>3, <1>4
  <1>7. QED
    BY <1>1, <1>3, <1>4, <1>5, <1>6

-----------------------------------------------------------------------------
(* The state stays well typed.                                             *)

LEMMA TypeInit == Init => TypeOK
  BY EventsAssumption DEF Init, TypeOK, FreeSlot, SlotIds

LEMMA TopIsTyped ==
  ASSUME TypeOK, stack # <<>>
  PROVE  Top \in Invocation /\ Len(stack) \in Nat \ {0} /\ stack \in Seq(Invocation)
  BY DEF TypeOK, Top

(* The invocation that dispatch leaves behind, in any of its ways.         *)
Left(f) == [f EXCEPT !.at = "engine", !.slot = 0, !.i = 0, !.count = 0,
                     !.isPlayerWorld = FALSE, !.handled = FALSE, !.field = FALSE,
                     !.ran = <<>>, !.asked = FALSE]

LEMMA LeftIsTyped ==
  ASSUME NEW f \in Invocation
  PROVE  /\ Left(f) \in Invocation
         /\ Left(f).hook = f.hook /\ Left(f).at = "engine" /\ Left(f).todo = f.todo
         /\ Left(f).modHandled = f.modHandled /\ Left(f).claim = f.claim
         /\ Left(f).dispatched = f.dispatched /\ Left(f).stray = f.stray
         /\ Left(f).aborted = f.aborted /\ Left(f).ran = <<>> /\ ~Left(f).asked
  <1> DEFINE e == <<>>
             g == [f EXCEPT !.at = "engine", !.slot = 0, !.i = 0, !.count = 0,
                            !.isPlayerWorld = FALSE, !.handled = FALSE, !.field = FALSE,
                            !.ran = e, !.asked = FALSE]
  <1>1. e \in Seq(Nat)
    OBVIOUS
  <1> HIDE DEF e
  <1>2. /\ g \in Invocation
        /\ g.hook = f.hook /\ g.at = "engine" /\ g.todo = f.todo
        /\ g.modHandled = f.modHandled /\ g.claim = f.claim
        /\ g.dispatched = f.dispatched /\ g.stray = f.stray
        /\ g.aborted = f.aborted /\ g.ran = e /\ ~g.asked
    BY <1>1 DEF Invocation
  <1>3. g = Left(f)
    BY DEF Left, e
  <1> HIDE DEF g
  <1>4. QED
    BY <1>2, <1>3 DEF e

(* The invocation with the engine's call of a thunk.                       *)
LEMMA CallIsTyped ==
  ASSUME TypeOK, stack # <<>>, NEW t \in Top.todo
  PROVE  /\ Call(t) \in Invocation /\ t.slot \in SlotIds
         /\ Call(t).hook = Top.hook /\ Call(t).at = Top.at /\ Call(t).todo \subseteq Top.todo
         /\ Call(t).modHandled = Top.modHandled /\ Call(t).claim = Top.claim
         /\ Call(t).asked = Top.asked /\ Call(t).ran = Top.ran
         /\ Call(t).stray <=> (Top.stray \/ Strays(t.slot))
  <1>1. Top \in Invocation
    BY TopIsTyped
  <1>2. t \in Installations /\ Top.todo \ {t} \in SUBSET Installations
    BY <1>1 DEF Invocation
  <1>3. t.slot \in SlotIds
    BY <1>2 DEF Installations
  <1> DEFINE r == Top.todo \ {t}
             d == Top.dispatched \/ ~Strays(t.slot)
             y == Top.stray \/ Strays(t.slot)
             g == [Top EXCEPT !.todo = r, !.dispatched = d, !.stray = y]
  <1>4. r \in SUBSET Installations /\ r \subseteq Top.todo /\ d \in BOOLEAN /\ y \in BOOLEAN
    BY <1>1, <1>2 DEF Invocation
  <1>5. g = Call(t)
    BY DEF Call
  <1>6. y = (Top.stray \/ Strays(t.slot))
    OBVIOUS
  <1> HIDE DEF r, d, y
  <1>7. /\ g \in Invocation
        /\ g.hook = Top.hook /\ g.at = Top.at /\ g.todo = r
        /\ g.modHandled = Top.modHandled /\ g.claim = Top.claim
        /\ g.asked = Top.asked /\ g.ran = Top.ran /\ g.stray = y
    BY <1>1, <1>4 DEF Invocation
  <1> HIDE DEF g
  <1>8. QED
    BY <1>3, <1>4, <1>5, <1>6, <1>7

(* The invocation that calls the handlers of a slot.                       *)
Entered(t, seed, w) ==
  [Call(t) EXCEPT !.at = "loop", !.slot = t.slot, !.i = 1, !.count = Len(handlers[t.slot]),
                  !.isPlayerWorld = w, !.handled = seed, !.field = seed]

LEMMA EnteredIsTyped ==
  ASSUME TypeOK, stack # <<>>, NEW t \in Top.todo, NEW seed \in BOOLEAN, NEW w \in BOOLEAN
  PROVE  LET f == Entered(t, seed, w) IN
         /\ f \in Invocation /\ t.slot \in SlotIds
         /\ f.hook = Top.hook /\ f.at = "loop" /\ f.todo \subseteq Top.todo
         /\ f.modHandled = Top.modHandled /\ f.claim = Top.claim /\ f.asked = Top.asked
         /\ f.ran = Top.ran /\ f.slot = t.slot /\ f.i = 1 /\ f.count = Len(handlers[t.slot])
         /\ f.handled = seed /\ f.field = seed
         /\ f.stray <=> (Top.stray \/ Strays(t.slot))
  <1> DEFINE c == Len(handlers[t.slot])
             g == Call(t)
             f == [g EXCEPT !.at = "loop", !.slot = t.slot, !.i = 1, !.count = c,
                            !.isPlayerWorld = w, !.handled = seed, !.field = seed]
  <1>1. /\ g \in Invocation /\ t.slot \in SlotIds
        /\ g.hook = Top.hook /\ g.at = Top.at /\ g.todo \subseteq Top.todo
        /\ g.modHandled = Top.modHandled /\ g.claim = Top.claim
        /\ g.asked = Top.asked /\ g.ran = Top.ran
        /\ g.stray <=> (Top.stray \/ Strays(t.slot))
    BY CallIsTyped
  <1>2. c \in Nat
    BY <1>1 DEF TypeOK
  <1>3. c = Len(handlers[t.slot]) /\ f = Entered(t, seed, w)
    BY DEF Entered
  <1> HIDE DEF c, g
  <1>4. /\ f \in Invocation /\ f.hook = g.hook /\ f.at = "loop" /\ f.todo = g.todo
        /\ f.modHandled = g.modHandled /\ f.claim = g.claim /\ f.asked = g.asked
        /\ f.ran = g.ran /\ f.slot = t.slot /\ f.i = 1 /\ f.count = c
        /\ f.handled = seed /\ f.field = seed /\ f.stray = g.stray
    BY <1>1, <1>2 DEF Invocation
  <1> HIDE DEF f
  <1>5. QED
    BY <1>1, <1>3, <1>4

(* Enter makes one of them the innermost.                                  *)
LEMMA EnterSteps ==
  ASSUME TypeOK, Enter
  PROVE  \E t \in Top.todo, seed \in BOOLEAN, w \in BOOLEAN :
           /\ stack # <<>> /\ Top.at = "engine" /\ Dispatchable(t.slot)
           /\ SetTop(Entered(t, seed, w))
           /\ ~Strays(t.slot) => seed = (slots[t.slot].event \in Cancellable /\ Top.modHandled)
  <1>1. stack # <<>> /\ Top.at = "engine"
    BY DEF Enter, TopIs
  <1>2. PICK t \in Top.todo :
          /\ Dispatchable(t.slot)
          /\ \E m \in Reads(t.slot, Top.modHandled), w \in Reads(t.slot, Top.world = playerWorld) :
               LET seed == slots[t.slot].event \in Cancellable /\ m IN
               SetTop([Call(t) EXCEPT !.at = "loop", !.slot = t.slot, !.i = 1,
                                      !.count = Len(handlers[t.slot]),
                                      !.isPlayerWorld = playerWorld = CannotAsk \/ w,
                                      !.handled = seed, !.field = seed])
    BY DEF Enter
  <1>3. PICK m \in Reads(t.slot, Top.modHandled), w \in Reads(t.slot, Top.world = playerWorld) :
          SetTop(Entered(t, slots[t.slot].event \in Cancellable /\ m, playerWorld = CannotAsk \/ w))
    BY <1>2 DEF Entered
  <1>4. ~Strays(t.slot) => m = Top.modHandled
    BY DEF Reads
  <1>5. QED
    BY <1>1, <1>2, <1>3, <1>4

(* A new invocation.                                                       *)
LEMMA NewIsTyped ==
  ASSUME TypeOK, NEW h \in Hooks, NEW w \in Worlds, NEW m \in BOOLEAN
  PROVE  NewInvocation(h, w, m) \in Invocation
  <1> DEFINE q == <<>>
             T == {t \in installed : t.hook = h}
             c == IF m THEN "yes" ELSE "no"
  <1>1. q \in Seq(Nat) /\ T \in SUBSET Installations /\ c \in {"no", "maybe", "yes"}
    BY DEF TypeOK
  <1> HIDE DEF q, T, c
  <1>2. [hook |-> h, world |-> w, modHandled |-> m, todo |-> T,
         at |-> "engine", slot |-> 0, i |-> 0, count |-> 0, isPlayerWorld |-> FALSE,
         handled |-> FALSE, field |-> FALSE, ran |-> q, asked |-> FALSE, claim |-> c,
         dispatched |-> FALSE, aborted |-> FALSE, stray |-> FALSE] \in Invocation
    BY <1>1 DEF Invocation
  <1>3. QED
    BY <1>2 DEF NewInvocation, q, T, c

(* The invocation whose handler has returned.                              *)
LEMMA ReturnedIsTyped ==
  ASSUME NEW f \in Invocation, NEW a \in BOOLEAN
  PROVE  [f EXCEPT !.at = "loop", !.i = @ + 1, !.asked = a] \in Invocation
  <1>1. PICK j \in Nat : j = f.i + 1
    BY DEF Invocation
  <1>2. [f EXCEPT !.at = "loop", !.i = j, !.asked = a] \in Invocation
    BY DEF Invocation
  <1>3. QED
    BY <1>1, <1>2

(* The invocation that read_back leaves, with what it wrote and the claim. *)
ReadBack(m, c, a) == Left([Top EXCEPT !.modHandled = m, !.claim = c, !.aborted = a])

LEMMA ReadBackIsTyped ==
  ASSUME TypeOK, stack # <<>>, NEW m \in BOOLEAN, NEW c \in {"no", "maybe", "yes"}, NEW a \in BOOLEAN
  PROVE  /\ ReadBack(m, c, a) \in Invocation
         /\ ReadBack(m, c, a).hook = Top.hook /\ ReadBack(m, c, a).at = "engine"
         /\ ReadBack(m, c, a).todo = Top.todo /\ ReadBack(m, c, a).modHandled = m
         /\ ReadBack(m, c, a).claim = c /\ ReadBack(m, c, a).stray = Top.stray
         /\ ReadBack(m, c, a).aborted = a /\ ReadBack(m, c, a).ran = <<>>
         /\ ~ReadBack(m, c, a).asked
  <1> DEFINE f == [Top EXCEPT !.modHandled = m, !.claim = c, !.aborted = a]
  <1>1. Top \in Invocation
    BY TopIsTyped
  <1>2. /\ f \in Invocation /\ f.hook = Top.hook /\ f.todo = Top.todo /\ f.modHandled = m
        /\ f.claim = c /\ f.stray = Top.stray /\ f.aborted = a
    BY <1>1 DEF Invocation
  <1>3. ReadBack(m, c, a) = Left(f)
    BY DEF ReadBack
  <1> HIDE DEF f
  <1>4. QED
    BY <1>2, <1>3, LeftIsTyped

(* What read_back may write, and what becomes of the claims.               *)
LEMMA WrittenTyped ==
  ASSUME TypeOK, stack # <<>>
  PROVE  /\ Written \subseteq BOOLEAN /\ Top.modHandled \in BOOLEAN
         /\ ClaimAll \in {"no", "maybe", "yes"} /\ ClaimSome \in {"no", "maybe", "yes"}
  <1>1. Top.field \in BOOLEAN /\ Top.modHandled \in BOOLEAN /\ Top.claim \in {"no", "maybe", "yes"}
    BY TopIsTyped DEF Invocation
  <1>2. QED
    BY <1>1 DEF Written, ClaimAll, ClaimSome

(* The invocation read_back leaves is one of those.                        *)
LEMMA ReadBackSteps ==
  ASSUME TypeOK, Finish \/ ReadBackFails
  PROVE  \E m \in BOOLEAN, c \in {"no", "maybe", "yes"}, a \in BOOLEAN :
           /\ stack # <<>> /\ SetTop(ReadBack(m, c, a)) /\ live' = LiveAfter(Top.slot)
           /\ UNCHANGED <<worlds, playerWorld>>
           /\ \/ m \in Written /\ c = ClaimAll
              \/ m \in Written \cup {Top.modHandled} /\ c = ClaimSome /\ a
  <1>1. stack # <<>>
    BY DEF Finish, ReadBackFails, TopIs
  <1>2. CASE Finish
    <2>1. PICK m \in Written :
            Leave([Top EXCEPT !.modHandled = m, !.claim = ClaimAll, !.aborted = FALSE], Top.slot)
      BY <1>2 DEF Finish
    <2>2. /\ SetTop(ReadBack(m, ClaimAll, FALSE)) /\ live' = LiveAfter(Top.slot)
          /\ UNCHANGED <<worlds, playerWorld>>
      BY <2>1 DEF Leave, ReadBack, Left
    <2>3. QED
      BY <1>1, <2>2, WrittenTyped
  <1>3. CASE ReadBackFails
    <2>1. PICK m \in Written \cup {Top.modHandled} :
            Leave([Top EXCEPT !.modHandled = m, !.claim = ClaimSome, !.aborted = TRUE], Top.slot)
      BY <1>3 DEF ReadBackFails
    <2>2. /\ SetTop(ReadBack(m, ClaimSome, TRUE)) /\ live' = LiveAfter(Top.slot)
          /\ UNCHANGED <<worlds, playerWorld>>
      BY <2>1 DEF Leave, ReadBack, Left
    <2>3. QED
      BY <1>1, <2>2, WrittenTyped
  <1>4. QED
    BY <1>2, <1>3

(* A count that stops at the limit does not pass it.                       *)
LEMMA CountUpTo ==
  ASSUME NEW f \in [SlotIds -> 0 .. MaxReports], NEW s
  PROVE  [f EXCEPT ![s] = IF @ < MaxReports THEN @ + 1 ELSE @] \in [SlotIds -> 0 .. MaxReports]
  <1>1. CASE s \in SlotIds
    BY <1>1, EventsAssumption
  <1>2. CASE s \notin SlotIds
    BY <1>2
  <1>3. QED
    BY <1>1, <1>2

LEMMA TypeNext == TypeOK /\ [Next]_vars => TypeOK'
  <1> SUFFICES ASSUME TypeOK, [Next]_vars PROVE TypeOK'
    OBVIOUS
  <1> DEFINE StackOK == stack \in Seq(Invocation)
             RestOK == /\ canRemove \in BOOLEAN /\ luaOpen \in BOOLEAN /\ loading \in BOOLEAN
                       /\ opens \in Nat \ {0}
                       /\ slots \in [SlotIds -> [used : BOOLEAN, event : EventNames \cup {NoEvent},
                                                 priority : Int, disabled : BOOLEAN]]
                       /\ installed \subseteq Installations
                       /\ handlers \in [SlotIds -> Seq([event : EventNames, filter : BOOLEAN])]
                       /\ reports \in [SlotIds -> 0 .. MaxReports]
                       /\ warned \in [SlotIds -> BOOLEAN]
                       /\ worlds \subseteq Worlds /\ live \subseteq Worlds
                       /\ playerWorld \in Worlds \cup {NoWorld, CannotAsk}
  <1>parts. /\ StackOK /\ RestOK
            /\ (StackOK /\ RestOK)' => TypeOK'
    BY DEF TypeOK
  <1>counts. /\ reports \in [SlotIds -> 0 .. MaxReports] /\ warned \in [SlotIds -> BOOLEAN]
             /\ opens \in Nat \ {0}
             /\ handlers \in [SlotIds -> Seq([event : EventNames, filter : BOOLEAN])]
    BY DEF TypeOK
  <1>topTyped. stack # <<>> => Top \in Invocation
    BY TopIsTyped
  <1> USE DEF host, pool, limits, engine
  <1>1. CASE SkipThunk
    <2>1. PICK t \in Top.todo : SetTop([Top EXCEPT !.todo = @ \ {t}])
      BY <1>1 DEF SkipThunk
    <2>2. [Top EXCEPT !.todo = @ \ {t}] \in Invocation
      BY <1>1, <1>topTyped DEF SkipThunk, TopIs, Invocation
    <2>3. StackOK'
      BY <1>parts, <1>1, <2>1, <2>2, SetTopEffect DEF SkipThunk, TopIs
    <2>4. RestOK'
      BY <1>parts, <1>1 DEF SkipThunk
    <2>5. QED
      BY <1>parts, <2>3, <2>4
  <1>2. CASE LayoutFails
    <2>1. PICK t \in Top.todo :
            /\ slots' = [slots EXCEPT ![t.slot].disabled = TRUE]
            /\ Leave([Call(t) EXCEPT !.aborted = TRUE], t.slot)
      BY <1>2 DEF LayoutFails
    <2>2. StackOK'
      <3> DEFINE f == [Call(t) EXCEPT !.aborted = TRUE]
      <3>1. f \in Invocation
        <4>1. Call(t) \in Invocation
          BY <1>2, CallIsTyped DEF LayoutFails, TopIs
        <4>2. QED
          BY <4>1 DEF Invocation
      <3>2. SetTop(Left(f))
        BY <2>1 DEF Leave, Left
      <3> HIDE DEF f
      <3>3. Left(f) \in Invocation
        BY <3>1, LeftIsTyped
      <3>4. QED
        BY <1>parts, <1>2, <3>2, <3>3, SetTopEffect DEF LayoutFails, TopIs
    <2>3. RestOK'
      <3>1. t.slot \in SlotIds
        BY <1>2, CallIsTyped DEF LayoutFails, TopIs
      <3>2. UNCHANGED <<host, installed, handlers, limits>>
        BY <1>2 DEF LayoutFails
      <3>3. UNCHANGED <<worlds, playerWorld>> /\ live' = LiveAfter(t.slot)
        BY <2>1 DEF Leave
      <3>4. live' \subseteq Worlds
        BY <1>parts, <3>3 DEF LiveAfter
      <3>5. slots' \in [SlotIds -> [used : BOOLEAN, event : EventNames \cup {NoEvent},
                                    priority : Int, disabled : BOOLEAN]]
        BY <1>parts, <2>1, <3>1
      <3>6. QED
        BY <1>parts, <3>2, <3>3, <3>4, <3>5
    <2>4. QED
      BY <1>parts, <2>2, <2>3
  <1>3. CASE Enter
    <2>1. PICK t \in Top.todo, seed \in BOOLEAN, w \in BOOLEAN : SetTop(Entered(t, seed, w))
      BY <1>3, EnterSteps
    <2>2. Entered(t, seed, w) \in Invocation
      BY <1>3, EnteredIsTyped DEF Enter, TopIs
    <2>3. StackOK'
      BY <1>parts, <1>3, <2>1, <2>2, SetTopEffect DEF Enter, TopIs
    <2>4. RestOK'
      BY <1>parts, <1>3 DEF Enter
    <2>5. QED
      BY <1>parts, <2>3, <2>4
  <1>4. CASE SkipHandler
    <2>1. [Top EXCEPT !.i = @ + 1] \in Invocation
      <3>1. Top \in Invocation
        BY <1>4, <1>topTyped DEF SkipHandler, TopIs
      <3>2. PICK j \in Nat : j = Top.i + 1
        BY <3>1 DEF Invocation
      <3>3. [Top EXCEPT !.i = j] \in Invocation
        BY <3>1 DEF Invocation
      <3>4. QED
        BY <3>2, <3>3
    <2>2. StackOK'
      BY <1>parts, <1>4, <2>1, SetTopEffect DEF SkipHandler, TopIs
    <2>3. RestOK'
      BY <1>parts, <1>4 DEF SkipHandler
    <2>4. QED
      BY <1>parts, <2>2, <2>3
  <1>5. CASE CallHandler
    <2> DEFINE q == Append(Top.ran, Top.i)
    <2>1. Top \in Invocation /\ Top.ran \in Seq(Nat) /\ Top.i \in Nat /\ q \in Seq(Nat)
      BY <1>5, <1>topTyped DEF CallHandler, TopIs, Invocation
    <2> HIDE DEF q
    <2>2. [Top EXCEPT !.at = "lua", !.ran = q] \in Invocation
      BY <2>1 DEF Invocation
    <2>3. [Top EXCEPT !.at = "lua", !.ran = Append(@, Top.i)] \in Invocation
      BY <2>2 DEF q
    <2>4. StackOK'
      BY <1>parts, <1>5, <2>3, SetTopEffect DEF CallHandler, TopIs
    <2>5. RestOK'
      BY <1>parts, <1>5 DEF CallHandler
    <2>6. QED
      BY <1>parts, <2>4, <2>5
  <1>6. CASE HandlerReturns
    <2>1. Latch(Top) \in Invocation /\ Top \in Invocation
      <3>1. Top \in Invocation
        BY <1>6, <1>topTyped DEF HandlerReturns, TopIs
      <3>2. PICK b \in BOOLEAN : b = (Top.handled \/ Top.field)
        BY <3>1 DEF Invocation
      <3>3. [Top EXCEPT !.handled = b, !.field = b] \in Invocation
        BY <3>1 DEF Invocation
      <3>4. Latch(Top) = Top \/ Latch(Top) = [Top EXCEPT !.handled = b, !.field = b]
        BY <3>2 DEF Latch
      <3>5. QED
        BY <3>1, <3>3, <3>4
    <2> DEFINE l == Latch(Top)
               a == l.asked \/ Top.field
               f == [l EXCEPT !.at = "loop", !.i = @ + 1, !.asked = @ \/ Top.field]
    <2>2. a \in BOOLEAN /\ l \in Invocation
      BY <2>1 DEF Invocation
    <2>3. f \in Invocation
      <3> HIDE DEF l, a
      <3>1. [l EXCEPT !.at = "loop", !.i = @ + 1, !.asked = a] \in Invocation
        BY <2>2, ReturnedIsTyped
      <3>2. QED
        BY <3>1 DEF a
    <2>4. StackOK'
      BY <1>parts, <1>6, <2>3, SetTopEffect DEF HandlerReturns, TopIs
    <2>5. reports' \in [SlotIds -> 0 .. MaxReports]
      BY <1>counts, <1>6, CountUpTo DEF HandlerReturns, Report
    <2>6. RestOK'
      BY <1>parts, <1>6, <2>5 DEF HandlerReturns
    <2>7. QED
      BY <1>parts, <2>4, <2>6
  <1>7. CASE Finish \/ ReadBackFails
    <2>1. PICK m \in BOOLEAN, c \in {"no", "maybe", "yes"}, a \in BOOLEAN :
            /\ stack # <<>> /\ SetTop(ReadBack(m, c, a)) /\ live' = LiveAfter(Top.slot)
            /\ UNCHANGED <<worlds, playerWorld>>
      BY <1>7, ReadBackSteps
    <2>2. StackOK'
      BY <1>parts, <2>1, ReadBackIsTyped, SetTopEffect
    <2>3. live' \subseteq Worlds /\ UNCHANGED <<host, pool, reports>>
      BY <1>parts, <1>7, <2>1 DEF Finish, ReadBackFails, LiveAfter
    <2>4. warned' \in [SlotIds -> BOOLEAN]
      <3> DEFINE b == warned[Top.slot] \/ (slots[Top.slot].event \notin Cancellable /\ Top.field)
      <3>1. warned' = [warned EXCEPT ![Top.slot] = b] /\ b \in BOOLEAN
        BY <1>7 DEF Finish, ReadBackFails, Warn
      <3> HIDE DEF b
      <3>2. QED
        BY <1>counts, <3>1
    <2>5. RestOK'
      BY <1>parts, <2>1, <2>3, <2>4
    <2>6. QED
      BY <1>parts, <2>2, <2>5
  <1>8. CASE Abort
    <2> DEFINE f == [Top EXCEPT !.aborted = TRUE]
    <2>1. f \in Invocation
      BY <1>8, <1>topTyped DEF Abort, TopIs, Invocation
    <2>2. SetTop(Left(f))
      BY <1>8 DEF Abort, Leave, Left
    <2> HIDE DEF f
    <2>3. Left(f) \in Invocation
      BY <2>1, LeftIsTyped
    <2>4. StackOK'
      BY <1>parts, <1>8, <2>2, <2>3, SetTopEffect DEF Abort, TopIs
    <2>5. RestOK'
      BY <1>parts, <1>8 DEF Abort, Leave, LiveAfter
    <2>6. QED
      BY <1>parts, <2>4, <2>5
  <1>9. ASSUME NEW e \in EventNames, NEW p \in Priorities, OnEvent(e, p)
        PROVE  TypeOK'
    <2>1. UNCHANGED <<host, limits, engine, stack>>
      BY <1>9 DEF OnEvent
    <2>2. ASSUME NEW s \in SlotIds, Register(s, e)
          PROVE  handlers' \in [SlotIds -> Seq([event : EventNames, filter : BOOLEAN])]
      <3> DEFINE r == [event |-> e, filter |-> e \in PlayerWorldOnly]
      <3>1. r \in [event : EventNames, filter : BOOLEAN]
        OBVIOUS
      <3>2. handlers' = [handlers EXCEPT ![s] = Append(@, r)]
        BY <2>2 DEF Register
      <3> HIDE DEF r
      <3> DEFINE R == [event : EventNames, filter : BOOLEAN]
      <3>3. handlers \in [SlotIds -> Seq(R)] /\ r \in R
        BY <1>counts, <3>1
      <3> HIDE DEF R
      <3>4. handlers' \in [SlotIds -> Seq(R)]
        BY <3>2, <3>3
      <3>5. QED
        BY <3>4 DEF R
    <2>3. CASE JoinSlot(e, p)
      BY <1>parts, <2>1, <2>2, <2>3 DEF JoinSlot, SlotsFor
    <2>4. CASE ClaimSlot(e, p)
      <3> DEFINE s == Least(Unused)
      <3>1. s \in SlotIds
        BY <2>4, LeastIsMember DEF ClaimSlot, Unused
      <3>2. /\ installed' = installed \cup {Thunk(s, HookOf[e], p)}
            /\ slots' = [slots EXCEPT ![s] = [used |-> TRUE, event |-> e, priority |-> p,
                                              disabled |-> FALSE]]
            /\ Register(s, e)
        BY <2>4 DEF ClaimSlot
      <3> HIDE DEF s
      <3>3. Thunk(s, HookOf[e], p) \in Installations
        BY <1>counts, <3>1, EventsAssumption DEF Thunk, Installations
      <3>4. RestOK'
        BY <1>parts, <2>1, <2>2, <3>1, <3>2, <3>3, EventsAssumption
      <3>5. QED
        BY <1>parts, <2>1, <3>4
    <2>5. CASE RefuseSlot(e, p)
      BY <1>parts, <2>1, <2>5 DEF RefuseSlot
    <2>6. QED
      BY <1>9, <2>3, <2>4, <2>5 DEF OnEvent
  <1>10. ASSUME NEW b \in BOOLEAN, SetModHandled(b) PROVE TypeOK'
    <2>1. [Top EXCEPT !.field = b] \in Invocation
      BY <1>10, <1>topTyped DEF SetModHandled, TopIs, Invocation
    <2>2. StackOK'
      BY <1>parts, <1>10, <2>1, SetTopEffect DEF SetModHandled, TopIs
    <2>3. RestOK'
      BY <1>parts, <1>10 DEF SetModHandled
    <2>4. QED
      BY <1>parts, <2>2, <2>3
  <1>11. ASSUME NEW w \in Worlds, TakeHandle(w) PROVE TypeOK'
    BY <1>parts, <1>11 DEF TakeHandle
  <1>12. ASSUME NEW h \in Hooks, NEW w \in Worlds, NEW m \in BOOLEAN, Raise(h, w, m)
         PROVE  TypeOK'
    <2>1. NewInvocation(h, w, m) \in Invocation
      BY NewIsTyped
    <2>2. StackOK'
      BY <1>parts, <1>12, <2>1, RaiseEffect DEF Raise
    <2>3. RestOK'
      BY <1>parts, <1>12 DEF Raise
    <2>4. QED
      BY <1>parts, <2>2, <2>3
  <1>13. CASE EngineReturns
    <2>1. StackOK'
      BY <1>parts, <1>13, ReturnEffect DEF EngineReturns, TopIs
    <2>2. RestOK'
      BY <1>parts, <1>13 DEF EngineReturns
    <2>3. QED
      BY <1>parts, <2>1, <2>2
  <1>14. ASSUME NEW w \in Worlds, CreateWorld(w) PROVE TypeOK'
    BY <1>parts, <1>14 DEF CreateWorld
  <1>15. CASE LoadDone
    BY <1>parts, <1>15 DEF LoadDone
  <1>16. CASE Shutdown
    <2>1. slots' \in [SlotIds -> [used : BOOLEAN, event : EventNames \cup {NoEvent},
                                  priority : Int, disabled : BOOLEAN]]
      BY <1>16 DEF Shutdown, EventsShutdown, FreeSlot
    <2>2. installed' \subseteq Installations
      BY <1>parts, <1>16 DEF Shutdown, EventsShutdown, RemoveThunks
    <2>3. /\ reports' \in [SlotIds -> 0 .. MaxReports] /\ warned' \in [SlotIds -> BOOLEAN]
          /\ handlers' \in [SlotIds -> Seq([event : EventNames, filter : BOOLEAN])]
      BY <1>16, EventsAssumption DEF Shutdown, EventsShutdown, ResetLimits
    <2>4. /\ UNCHANGED <<canRemove, opens, loading, worlds, playerWorld>>
          /\ luaOpen' = FALSE /\ live' = {}
      BY <1>16 DEF Shutdown, EventsShutdown
    <2>5. StackOK'
      BY <1>parts, <1>16 DEF Shutdown
    <2>6. QED
      BY <1>parts, <2>1, <2>2, <2>3, <2>4, <2>5
  <1>17. CASE Reopen
    <2>1. opens' \in Nat \ {0}
      BY <1>counts, <1>17 DEF Reopen
    <2>2. QED
      BY <1>parts, <1>17, <2>1 DEF Reopen
  <1>18. CASE UNCHANGED vars
    BY <1>parts, <1>18 DEF vars
  <1>19. ASSUME NEW w \in Worlds \cup {NoWorld}, PlayerMoves(w) PROVE TypeOK'
    BY <1>parts, <1>19 DEF PlayerMoves
  <1>20. QED
    BY <1>1, <1>2, <1>3, <1>4, <1>5, <1>6, <1>7, <1>8, <1>9, <1>10, <1>11, <1>12, <1>13,
       <1>14, <1>15, <1>16, <1>17, <1>18, <1>19 DEF Next, Dispatch, Lua, Engine, Host

-----------------------------------------------------------------------------
(* The inductive invariant.                                                *)

(* Only the innermost invocation can be anywhere but inside a handler, and *)
(* the game's shutdown is the outermost.                                   *)
Nested == \A d \in 1 .. Len(stack) :
            /\ d < Len(stack) => stack[d].at = "lua"
            /\ stack[d].hook = GameShutdown => d = 1

(* An invocation runs handlers only while Lua is open, of a slot in use.   *)
(* The thunks it waits to call belong to slots of its hook, unless they    *)
(* could not be removed and the host was started again.                    *)
WalkOK(f) ==
  /\ f.at # "engine" => /\ luaOpen /\ f.slot \in SlotIds /\ slots[f.slot].used
                        /\ ~f.stray => SlotHook(f.slot) = f.hook
  /\ luaOpen /\ (canRemove \/ opens = 1) =>
       \A t \in f.todo : slots[t.slot].used /\ SlotHook(t.slot) = f.hook
  /\ f.stray => ~canRemove /\ opens > 1
Walks == \A d \in 1 .. Len(stack) : WalkOK(stack[d])

(* On its way from the engine to the handlers and back a claim is in       *)
(* `handled', and between two handlers in the table's field as well.       *)
ClaimOK(f) ==
  /\ f.at = "engine" => ~f.asked
  /\ ~f.stray =>
       /\ f.claim = "yes" => f.modHandled
       /\ f.claim = "no" => ~f.modHandled
       /\ f.at # "engine" /\ slots[f.slot].event \in Cancellable =>
            /\ f.handled <=> f.modHandled \/ f.asked
            /\ f.at = "loop" => (f.field <=> f.handled)
ClaimsKept == \A d \in 1 .. Len(stack) : ClaimOK(stack[d])

(* Once some slot was told that a world goes away, no handle validates     *)
(* while the engine has the control.                                       *)
WorldGone == TopIs("engine") /\ Top.hook = WorldDestroy /\ Top.dispatched /\ ~Top.stray
               => live = {}

(* A closed host has no slots.                                             *)
Closed == ~luaOpen => \A s \in SlotIds : ~slots[s].used

(* No thunk is of a start to come.                                         *)
Starts == \A t \in installed : t.start <= opens

IInv == /\ TypeOK /\ PoolMatchesEngine /\ LimitsStartAfresh /\ Starts
        /\ Nested /\ Walks /\ ClaimsKept /\ WorldGone /\ Closed

-----------------------------------------------------------------------------
(* What each step does to the innermost invocation.                        *)

SameBelow == /\ stack # <<>> /\ stack' # <<>> /\ Len(stack') = Len(stack)
             /\ Len(stack) \in Nat \ {0}
             /\ \A d \in 1 .. Len(stack) : d # Len(stack) => stack'[d] = stack[d]
             /\ Top \in Invocation /\ Top'.hook = Top.hook

(* A step that replaces it leaves the others as they are.                  *)
LEMMA OnlyTopChanges ==
  ASSUME TypeOK, stack # <<>>, NEW f \in Invocation, SetTop(f), f.hook = Top.hook
  PROVE  SameBelow /\ Top' = f
  BY TopIsTyped, SetTopEffect DEF SameBelow

LEMMA SkipThunkEffect ==
  ASSUME TypeOK, SkipThunk
  PROVE  /\ SameBelow /\ Top.at = "engine" /\ Top'.at = "engine"
         /\ Top'.todo \subseteq Top.todo /\ Top'.ran = Top.ran
         /\ Top'.modHandled = Top.modHandled /\ Top'.claim = Top.claim
         /\ Top'.dispatched = Top.dispatched /\ Top'.stray = Top.stray
         /\ Top'.asked = Top.asked
  <1>1. stack # <<>> /\ Top \in Invocation /\ Top.at = "engine"
    BY TopIsTyped DEF SkipThunk, TopIs
  <1>2. PICK t \in Top.todo : SetTop([Top EXCEPT !.todo = @ \ {t}])
    BY DEF SkipThunk
  <1> DEFINE r == Top.todo \ {t}
             f == [Top EXCEPT !.todo = r]
  <1>3. r \in SUBSET Installations /\ r \subseteq Top.todo
    BY <1>1 DEF Invocation
  <1>4. SetTop(f)
    BY <1>2
  <1> HIDE DEF r
  <1>5. /\ f \in Invocation /\ f.hook = Top.hook /\ f.at = Top.at /\ f.todo = r
        /\ f.modHandled = Top.modHandled /\ f.claim = Top.claim /\ f.ran = Top.ran
        /\ f.dispatched = Top.dispatched /\ f.stray = Top.stray /\ f.asked = Top.asked
    BY <1>1, <1>3 DEF Invocation
  <1> HIDE DEF f
  <1>6. SameBelow /\ Top' = f
    BY <1>1, <1>4, <1>5, OnlyTopChanges
  <1>7. QED
    BY <1>1, <1>3, <1>5, <1>6

LEMMA LayoutFailsEffect ==
  ASSUME TypeOK, LayoutFails
  PROVE  \E t \in Top.todo :
           /\ SameBelow /\ luaOpen /\ Top.at = "engine" /\ Top'.at = "engine"
           /\ Top'.todo \subseteq Top.todo /\ Top'.ran = <<>> /\ ~Top'.asked
           /\ Top'.modHandled = Top.modHandled /\ Top'.claim = Top.claim
           /\ Top'.stray <=> (Top.stray \/ Strays(t.slot))
           /\ live' = LiveAfter(t.slot)
  <1>1. stack # <<>> /\ Top \in Invocation /\ Top.at = "engine"
    BY TopIsTyped DEF LayoutFails, TopIs
  <1>2. PICK t \in Top.todo :
          Dispatchable(t.slot) /\ Leave([Call(t) EXCEPT !.aborted = TRUE], t.slot)
    BY DEF LayoutFails
  <1> DEFINE g == Call(t)
             f == [g EXCEPT !.aborted = TRUE]
  <1>3. /\ g \in Invocation /\ g.hook = Top.hook /\ g.todo \subseteq Top.todo
        /\ g.modHandled = Top.modHandled /\ g.claim = Top.claim
        /\ g.stray <=> (Top.stray \/ Strays(t.slot))
    BY <1>1, CallIsTyped
  <1>4. SetTop(Left(f)) /\ live' = LiveAfter(t.slot) /\ luaOpen
    BY <1>2 DEF Leave, Left, Dispatchable
  <1> HIDE DEF g
  <1>5. /\ f \in Invocation /\ f.hook = g.hook /\ f.todo = g.todo
        /\ f.modHandled = g.modHandled /\ f.claim = g.claim /\ f.stray = g.stray
    BY <1>3 DEF Invocation
  <1> HIDE DEF f
  <1>6. SameBelow /\ Top' = Left(f)
    BY <1>1, <1>3, <1>4, <1>5, LeftIsTyped, OnlyTopChanges
  <1>7. QED
    BY <1>1, <1>3, <1>4, <1>5, <1>6, LeftIsTyped

LEMMA FinishEffect ==
  ASSUME TypeOK, Finish \/ ReadBackFails
  PROVE  /\ SameBelow /\ Top.at = "loop" /\ Top'.at = "engine"
         /\ Top'.todo = Top.todo /\ Top'.ran = <<>> /\ ~Top'.asked
         /\ Top'.stray = Top.stray /\ live' = LiveAfter(Top.slot)
         /\ \/ Top'.modHandled \in Written /\ Top'.claim = ClaimAll
            \/ Top'.modHandled \in Written \cup {Top.modHandled} /\ Top'.claim = ClaimSome
  <1>1. PICK m \in BOOLEAN, c \in {"no", "maybe", "yes"}, a \in BOOLEAN :
          /\ stack # <<>> /\ SetTop(ReadBack(m, c, a)) /\ live' = LiveAfter(Top.slot)
          /\ \/ m \in Written /\ c = ClaimAll
             \/ m \in Written \cup {Top.modHandled} /\ c = ClaimSome
    BY ReadBackSteps
  <1>2. SameBelow /\ Top' = ReadBack(m, c, a)
    BY <1>1, ReadBackIsTyped, OnlyTopChanges
  <1>3. Top.at = "loop"
    BY DEF Finish, ReadBackFails, TopIs
  <1>4. QED
    BY <1>1, <1>2, <1>3, ReadBackIsTyped

LEMMA AbortEffect ==
  ASSUME TypeOK, Abort
  PROVE  /\ SameBelow /\ Top.at = "loop" /\ Top'.at = "engine"
         /\ Top'.todo = Top.todo /\ Top'.ran = <<>> /\ ~Top'.asked
         /\ Top'.modHandled = Top.modHandled /\ Top'.claim = Top.claim
         /\ Top'.stray = Top.stray /\ Top'.aborted /\ live' = LiveAfter(Top.slot)
  <1> DEFINE f == [Top EXCEPT !.aborted = TRUE]
  <1>1. stack # <<>> /\ Top \in Invocation /\ Top.at = "loop"
    BY TopIsTyped DEF Abort, TopIs
  <1>2. /\ f \in Invocation /\ f.hook = Top.hook /\ f.todo = Top.todo
        /\ f.modHandled = Top.modHandled /\ f.claim = Top.claim
        /\ f.stray = Top.stray /\ f.aborted
    BY <1>1 DEF Invocation
  <1>3. SetTop(Left(f)) /\ live' = LiveAfter(Top.slot)
    BY DEF Abort, Leave, Left
  <1> HIDE DEF f
  <1>4. SameBelow /\ Top' = Left(f)
    BY <1>1, <1>2, <1>3, LeftIsTyped, OnlyTopChanges
  <1>5. QED
    BY <1>1, <1>2, <1>3, <1>4, LeftIsTyped

LEMMA EnterEffect ==
  ASSUME TypeOK, Enter
  PROVE  \E t \in Top.todo :
           /\ SameBelow /\ Top.at = "engine" /\ Top'.at = "loop"
           /\ Top'.todo \subseteq Top.todo /\ Top'.slot = t.slot /\ t.slot \in SlotIds
           /\ luaOpen /\ slots[t.slot].used
           /\ Top'.ran = Top.ran /\ Top'.i = 1 /\ Top'.count = Len(handlers[t.slot])
           /\ Top'.modHandled = Top.modHandled /\ Top'.claim = Top.claim
           /\ Top'.asked = Top.asked /\ Top'.field = Top'.handled
           /\ Top'.stray <=> (Top.stray \/ Strays(t.slot))
           /\ ~Strays(t.slot) /\ slots[t.slot].event \in Cancellable =>
                Top'.handled = Top.modHandled
  <1>1. PICK t \in Top.todo, seed \in BOOLEAN, w \in BOOLEAN :
          /\ stack # <<>> /\ Top.at = "engine" /\ Dispatchable(t.slot)
          /\ SetTop(Entered(t, seed, w))
          /\ ~Strays(t.slot) => seed = (slots[t.slot].event \in Cancellable /\ Top.modHandled)
    BY EnterSteps
  <1> DEFINE f == Entered(t, seed, w)
  <1>2. /\ f \in Invocation /\ t.slot \in SlotIds
        /\ f.hook = Top.hook /\ f.at = "loop" /\ f.todo \subseteq Top.todo
        /\ f.modHandled = Top.modHandled /\ f.claim = Top.claim /\ f.asked = Top.asked
        /\ f.ran = Top.ran /\ f.slot = t.slot /\ f.i = 1 /\ f.count = Len(handlers[t.slot])
        /\ f.handled = seed /\ f.field = seed
        /\ f.stray <=> (Top.stray \/ Strays(t.slot))
    BY <1>1, EnteredIsTyped
  <1>3. Top.modHandled \in BOOLEAN
    BY <1>1, TopIsTyped DEF Invocation
  <1> HIDE DEF f
  <1>4. SameBelow /\ Top' = f
    BY <1>1, <1>2, OnlyTopChanges DEF f
  <1>5. luaOpen /\ slots[t.slot].used
    BY <1>1 DEF Dispatchable
  <1>6. QED
    BY <1>1, <1>2, <1>3, <1>4, <1>5

LEMMA SkipHandlerEffect ==
  ASSUME TypeOK, SkipHandler
  PROVE  /\ SameBelow /\ Top.at = "loop" /\ Top'.at = "loop" /\ Top'.i = Top.i + 1
         /\ Top'.todo = Top.todo /\ Top'.slot = Top.slot /\ Top'.claim = Top.claim
         /\ Top'.handled = Top.handled /\ Top'.field = Top.field
         /\ Top'.modHandled = Top.modHandled /\ Top'.asked = Top.asked
         /\ Top'.stray = Top.stray /\ Top'.ran = Top.ran /\ Top'.count = Top.count
         /\ Top'.isPlayerWorld = Top.isPlayerWorld
  <1>1. stack # <<>> /\ Top \in Invocation /\ Top.at = "loop"
    BY TopIsTyped DEF SkipHandler, TopIs
  <1>2. PICK j \in Nat : j = Top.i + 1
    BY <1>1 DEF Invocation
  <1> DEFINE f == [Top EXCEPT !.i = j]
  <1>3. SetTop(f)
    BY <1>2 DEF SkipHandler
  <1>4. /\ f \in Invocation /\ f.hook = Top.hook /\ f.at = Top.at /\ f.i = j
        /\ f.todo = Top.todo /\ f.slot = Top.slot /\ f.claim = Top.claim
        /\ f.handled = Top.handled /\ f.field = Top.field
        /\ f.modHandled = Top.modHandled /\ f.asked = Top.asked
        /\ f.stray = Top.stray /\ f.ran = Top.ran /\ f.count = Top.count
        /\ f.isPlayerWorld = Top.isPlayerWorld
    BY <1>1 DEF Invocation
  <1> HIDE DEF f
  <1>5. SameBelow /\ Top' = f
    BY <1>1, <1>3, <1>4, OnlyTopChanges
  <1>6. QED
    BY <1>1, <1>2, <1>4, <1>5

LEMMA CallHandlerEffect ==
  ASSUME TypeOK, CallHandler
  PROVE  /\ SameBelow /\ Top.at = "loop" /\ Top'.at = "lua" /\ Top'.i = Top.i
         /\ Top'.todo = Top.todo /\ Top'.slot = Top.slot /\ Top'.claim = Top.claim
         /\ Top'.handled = Top.handled /\ Top'.modHandled = Top.modHandled
         /\ Top'.asked = Top.asked /\ Top'.stray = Top.stray
         /\ Top'.ran = Append(Top.ran, Top.i) /\ Top'.count = Top.count
         /\ Top'.isPlayerWorld = Top.isPlayerWorld
  <1> DEFINE q == Append(Top.ran, Top.i)
             f == [Top EXCEPT !.at = "lua", !.ran = q]
  <1>1. stack # <<>> /\ Top \in Invocation /\ Top.at = "loop"
    BY TopIsTyped DEF CallHandler, TopIs
  <1>2. Top.ran \in Seq(Nat) /\ Top.i \in Nat
    BY <1>1 DEF Invocation
  <1>3. q \in Seq(Nat) /\ q = Append(Top.ran, Top.i)
    BY <1>2
  <1>4. SetTop(f)
    BY DEF CallHandler
  <1> HIDE DEF q
  <1>5. /\ f \in Invocation /\ f.hook = Top.hook /\ f.at = "lua" /\ f.i = Top.i
        /\ f.todo = Top.todo /\ f.slot = Top.slot /\ f.claim = Top.claim
        /\ f.handled = Top.handled /\ f.modHandled = Top.modHandled
        /\ f.asked = Top.asked /\ f.stray = Top.stray /\ f.ran = q
        /\ f.count = Top.count /\ f.isPlayerWorld = Top.isPlayerWorld
    BY <1>1, <1>3 DEF Invocation
  <1> HIDE DEF f
  <1>6. SameBelow /\ Top' = f
    BY <1>1, <1>4, <1>5, OnlyTopChanges
  <1>7. QED
    BY <1>1, <1>3, <1>5, <1>6

LEMMA HandlerReturnsEffect ==
  ASSUME TypeOK, HandlerReturns
  PROVE  /\ SameBelow /\ Top.at = "lua" /\ Top'.at = "loop" /\ Top'.i = Top.i + 1
         /\ Top'.todo = Top.todo /\ Top'.slot = Top.slot /\ Top'.claim = Top.claim
         /\ Top'.modHandled = Top.modHandled /\ Top'.stray = Top.stray
         /\ Top'.ran = Top.ran /\ Top'.count = Top.count
         /\ Top'.isPlayerWorld = Top.isPlayerWorld
         /\ Top'.asked <=> (Top.asked \/ Top.field)
         /\ slots[Top.slot].event \in Cancellable =>
              /\ Top'.handled <=> (Top.handled \/ Top.field)
              /\ Top'.field <=> (Top.handled \/ Top.field)
  <1>1. stack # <<>> /\ Top \in Invocation /\ Top.at = "lua"
    BY TopIsTyped DEF HandlerReturns, TopIs
  <1>2. PICK h \in BOOLEAN : h = (Top.handled \/ Top.field)
    BY <1>1 DEF Invocation
  <1> DEFINE l == Latch(Top)
  <1>3. \/ slots[Top.slot].event \in Cancellable /\ l = [Top EXCEPT !.handled = h, !.field = h]
        \/ slots[Top.slot].event \notin Cancellable /\ l = Top
    BY <1>2 DEF Latch
  <1>4. /\ l \in Invocation /\ l.hook = Top.hook /\ l.todo = Top.todo /\ l.slot = Top.slot
        /\ l.claim = Top.claim /\ l.modHandled = Top.modHandled /\ l.stray = Top.stray
        /\ l.ran = Top.ran /\ l.count = Top.count /\ l.isPlayerWorld = Top.isPlayerWorld
        /\ l.i = Top.i /\ l.asked = Top.asked
        /\ slots[Top.slot].event \in Cancellable => l.handled = h /\ l.field = h
    <2> HIDE DEF l
    <2>1. QED
      BY <1>1, <1>3 DEF Invocation
  <1>5. PICK c \in BOOLEAN : c = (l.asked \/ Top.field)
    BY <1>1, <1>4 DEF Invocation
  <1> DEFINE f == [l EXCEPT !.at = "loop", !.i = @ + 1, !.asked = c]
  <1>6. SetTop(f)
    BY <1>5 DEF HandlerReturns
  <1> HIDE DEF l
  <1>7. f \in Invocation
    BY <1>4, ReturnedIsTyped
  <1>8. /\ f.hook = l.hook /\ f.at = "loop" /\ f.todo = l.todo /\ f.slot = l.slot
        /\ f.claim = l.claim /\ f.modHandled = l.modHandled /\ f.stray = l.stray
        /\ f.ran = l.ran /\ f.count = l.count /\ f.isPlayerWorld = l.isPlayerWorld
        /\ f.i = l.i + 1 /\ f.asked = c /\ f.handled = l.handled /\ f.field = l.field
    BY <1>4 DEF Invocation
  <1> HIDE DEF f
  <1>9. SameBelow /\ Top' = f
    BY <1>1, <1>4, <1>6, <1>7, <1>8, OnlyTopChanges
  <1>10. QED
    BY <1>1, <1>2, <1>4, <1>5, <1>8, <1>9

LEMMA SetModHandledEffect ==
  ASSUME TypeOK, NEW b \in BOOLEAN, SetModHandled(b)
  PROVE  /\ SameBelow /\ Top.at = "lua" /\ Top'.at = "lua" /\ Top'.i = Top.i
         /\ Top'.todo = Top.todo /\ Top'.slot = Top.slot /\ Top'.claim = Top.claim
         /\ Top'.handled = Top.handled /\ Top'.modHandled = Top.modHandled
         /\ Top'.asked = Top.asked /\ Top'.stray = Top.stray /\ Top'.ran = Top.ran
         /\ Top'.count = Top.count /\ Top'.isPlayerWorld = Top.isPlayerWorld
  <1> DEFINE f == [Top EXCEPT !.field = b]
  <1>1. stack # <<>> /\ Top \in Invocation /\ Top.at = "lua"
    BY TopIsTyped DEF SetModHandled, TopIs
  <1>2. /\ f \in Invocation /\ f.hook = Top.hook /\ f.at = "lua" /\ f.i = Top.i
        /\ f.todo = Top.todo /\ f.slot = Top.slot /\ f.claim = Top.claim
        /\ f.handled = Top.handled /\ f.modHandled = Top.modHandled
        /\ f.asked = Top.asked /\ f.stray = Top.stray /\ f.ran = Top.ran
        /\ f.count = Top.count /\ f.isPlayerWorld = Top.isPlayerWorld
    BY <1>1 DEF Invocation
  <1>3. SetTop(f)
    BY DEF SetModHandled
  <1> HIDE DEF f
  <1>4. SameBelow /\ Top' = f
    BY <1>1, <1>2, <1>3, OnlyTopChanges
  <1>5. QED
    BY <1>1, <1>2, <1>4

-----------------------------------------------------------------------------
(* The pool and the engine's side of it.                                   *)

(* Claiming a slot: the first unused one, for a pair that had none.        *)
LEMMA ClaimEffect ==
  ASSUME TypeOK, NEW e \in EventNames, NEW p \in Priorities, ClaimSlot(e, p)
  PROVE  \E s \in SlotIds :
           /\ ~slots[s].used
           /\ installed' = installed \cup {Thunk(s, HookOf[e], p)}
           /\ slots' = [slots EXCEPT ![s] = [used |-> TRUE, event |-> e, priority |-> p,
                                             disabled |-> FALSE]]
           /\ slots'[s].used /\ slots'[s].event = e /\ slots'[s].priority = p
           /\ \A r \in SlotIds : r # s => slots'[r] = slots[r]
  <1>1. Least(Unused) \in Unused
    BY LeastIsMember DEF ClaimSlot, Unused
  <1>2. PICK s \in SlotIds :
          /\ ~slots[s].used
          /\ installed' = installed \cup {Thunk(s, HookOf[e], p)}
          /\ slots' = [slots EXCEPT ![s] = [used |-> TRUE, event |-> e, priority |-> p,
                                            disabled |-> FALSE]]
    BY <1>1 DEF ClaimSlot, Unused
  <1>3. /\ slots'[s].used /\ slots'[s].event = e /\ slots'[s].priority = p
        /\ \A r \in SlotIds : r # s => slots'[r] = slots[r]
    BY <1>2 DEF TypeOK
  <1>4. QED
    BY <1>2, <1>3

(* A step that keeps what the slots are used for keeps their thunks.       *)
LEMMA SameThunks ==
  ASSUME opens' = opens,
         \A s \in SlotIds : /\ slots'[s].used = slots[s].used
                            /\ slots'[s].event = slots[s].event
                            /\ slots'[s].priority = slots[s].priority
  PROVE  Thunks' = Thunks
  <1>1. \A s \in SlotIds : Thunk(s, SlotHook(s), slots[s].priority)'
                           = Thunk(s, SlotHook(s), slots[s].priority)
    BY DEF Thunk, SlotHook
  <1>2. {r \in SlotIds : slots'[r].used} = {r \in SlotIds : slots[r].used}
    OBVIOUS
  <1>3. QED
    BY <1>1, <1>2 DEF Thunks

LEMMA PoolNext ==
  ASSUME IInv, [Next]_vars
  PROVE  PoolMatchesEngine' /\ Starts'
  <1> USE DEF host, pool, limits, engine
  <1>1. TypeOK /\ PoolMatchesEngine /\ Starts /\ opens \in Nat \ {0}
    BY DEF IInv, TypeOK
  <1>2. ASSUME UNCHANGED <<canRemove, luaOpen, opens, slots, installed>>
        PROVE  PoolMatchesEngine' /\ Starts'
    <2>1. Thunks' = Thunks
      BY <1>2, SameThunks
    <2>2. QED
      BY <1>1, <1>2, <2>1 DEF PoolMatchesEngine, Starts, SlotHook
  <1>3. CASE LayoutFails
    <2>1. UNCHANGED <<canRemove, luaOpen, opens, installed>>
      BY <1>3 DEF LayoutFails
    <2>2. \A s \in SlotIds : /\ slots'[s].used = slots[s].used
                             /\ slots'[s].event = slots[s].event
                             /\ slots'[s].priority = slots[s].priority
      <3>1. PICK t \in Top.todo : slots' = [slots EXCEPT ![t.slot].disabled = TRUE]
        BY <1>3 DEF LayoutFails
      <3>2. QED
        BY <1>1, <3>1 DEF TypeOK
    <2>3. Thunks' = Thunks
      BY <2>1, <2>2, SameThunks
    <2>4. QED
      BY <1>1, <2>1, <2>2, <2>3 DEF PoolMatchesEngine, Starts, SlotHook
  <1>4. ASSUME NEW e \in EventNames, NEW p \in Priorities, OnEvent(e, p)
        PROVE  PoolMatchesEngine' /\ Starts'
    <2>1. UNCHANGED <<canRemove, luaOpen, opens>>
      BY <1>4 DEF OnEvent
    <2>2. CASE JoinSlot(e, p) \/ RefuseSlot(e, p)
      BY <1>2, <2>1, <2>2 DEF JoinSlot, RefuseSlot
    <2>3. CASE ClaimSlot(e, p)
      <3>1. PICK s \in SlotIds :
              /\ ~slots[s].used
              /\ installed' = installed \cup {Thunk(s, HookOf[e], p)}
              /\ slots'[s].used /\ slots'[s].event = e /\ slots'[s].priority = p
              /\ \A r \in SlotIds : r # s => slots'[r] = slots[r]
        BY <1>1, <2>3, ClaimEffect
      <3>2. \A r \in SlotIds : slots[r].used =>
              SlotHook(r) # HookOf[e] \/ slots[r].priority # p
        BY <2>3 DEF ClaimSlot, SlotsFor
      <3> DEFINE n == Thunk(s, HookOf[e], p)
      <3>3. n.start = opens
        BY DEF Thunk
      <3>4. Thunks' = Thunks \cup {n}
        <4>1. /\ Thunk(s, SlotHook(s), slots[s].priority)' = n
              /\ \A r \in SlotIds : r # s =>
                   Thunk(r, SlotHook(r), slots[r].priority)'
                     = Thunk(r, SlotHook(r), slots[r].priority)
          BY <2>1, <3>1 DEF Thunk, SlotHook
        <4>2. {r \in SlotIds : slots'[r].used} = {r \in SlotIds : slots[r].used} \cup {s}
          BY <3>1
        <4> HIDE DEF n
        <4>3. QED
          BY <3>1, <4>1, <4>2 DEF Thunks
      <3> HIDE DEF n
      <3>5. \A r, q \in SlotIds :
              slots'[r].used /\ slots'[q].used /\ r # q =>
                SlotHook(r)' # SlotHook(q)' \/ slots'[r].priority # slots'[q].priority
        BY <1>1, <3>1, <3>2 DEF PoolMatchesEngine, SlotHook
      <3>6. installed' = installed \cup {n}
        BY <3>1 DEF n
      <3>7. \A t \in installed' : t.start <= opens'
        BY <1>1, <2>1, <3>3, <3>6 DEF Starts
      <3>8. luaOpen' => {t \in installed' : t.start = opens'} = Thunks'
        BY <1>1, <2>1, <3>3, <3>4, <3>6 DEF PoolMatchesEngine
      <3>9. canRemove' => installed' = Thunks'
        BY <1>1, <2>1, <3>4, <3>6 DEF PoolMatchesEngine
      <3>10. QED
        BY <3>5, <3>7, <3>8, <3>9 DEF PoolMatchesEngine, Starts
    <2>4. QED
      BY <1>4, <2>2, <2>3 DEF OnEvent
  <1>5. CASE Shutdown
    <2>1. /\ ~luaOpen' /\ UNCHANGED <<canRemove, opens>> /\ \A s \in SlotIds : ~slots'[s].used
          /\ installed' = IF canRemove THEN installed \ Thunks ELSE installed
      BY <1>5 DEF Shutdown, EventsShutdown, RemoveThunks, FreeSlot
    <2>2. Thunks' = {}
      BY <2>1 DEF Thunks
    <2>3. QED
      BY <1>1, <2>1, <2>2 DEF PoolMatchesEngine, Starts
  <1>6. CASE Reopen
    <2>1. /\ UNCHANGED <<canRemove, slots, installed>> /\ ~luaOpen /\ opens' = opens + 1
      BY <1>6 DEF Reopen
    <2>2. \A s \in SlotIds : ~slots[s].used
      BY <2>1 DEF IInv, Closed
    <2>3. Thunks = {} /\ Thunks' = {}
      BY <2>1, <2>2 DEF Thunks
    <2>4. \A t \in installed : t.start \in Nat /\ t.start <= opens
      BY <1>1 DEF Starts, TypeOK, Installations
    <2>5. \A t \in installed' : t.start <= opens' /\ t.start # opens'
      BY <1>1, <2>1, <2>4
    <2>6. QED
      BY <1>1, <2>1, <2>2, <2>3, <2>5 DEF PoolMatchesEngine, Starts
  <1>7. CASE UNCHANGED vars
    BY <1>2, <1>7 DEF vars
  <1>8. CASE SkipThunk \/ Enter \/ SkipHandler \/ CallHandler \/ HandlerReturns
    BY <1>2, <1>8 DEF SkipThunk, Enter, SkipHandler, CallHandler, HandlerReturns
  <1>9. CASE Finish \/ ReadBackFails \/ Abort
    BY <1>2, <1>9 DEF Finish, ReadBackFails, Abort
  <1>10. QED
    BY <1>2, <1>3, <1>4, <1>5, <1>6, <1>7, <1>8, <1>9
       DEF Next, Dispatch, Lua, Engine, Host, SetModHandled, TakeHandle, Raise, EngineReturns,
           CreateWorld, PlayerMoves, LoadDone

(* While Lua stays open a slot in use keeps its event.                     *)
UsedStay == \A s \in SlotIds : slots[s].used => /\ slots'[s].used
                                                /\ slots'[s].event = slots[s].event

LEMMA SlotsStayInUse ==
  ASSUME TypeOK, [Next]_vars
  PROVE  UsedStay \/ Shutdown
  <1> USE DEF host, pool, limits, engine
  <1>1. ASSUME UNCHANGED slots PROVE UsedStay
    BY <1>1 DEF UsedStay
  <1>2. CASE LayoutFails
    <2>1. PICK t \in Top.todo : slots' = [slots EXCEPT ![t.slot].disabled = TRUE]
      BY <1>2 DEF LayoutFails
    <2>2. QED
      BY <2>1 DEF TypeOK, UsedStay
  <1>3. ASSUME NEW e \in EventNames, NEW p \in Priorities, OnEvent(e, p)
        PROVE  UsedStay
    <2>1. CASE JoinSlot(e, p) \/ RefuseSlot(e, p)
      <3>1. slots' = slots
        BY <2>1 DEF JoinSlot, RefuseSlot
      <3>2. QED
        BY <1>1, <3>1
    <2>2. CASE ClaimSlot(e, p)
      BY <2>2, ClaimEffect DEF UsedStay
    <2>3. QED
      BY <1>3, <2>1, <2>2 DEF OnEvent
  <1>4. CASE SkipThunk \/ Enter \/ SkipHandler \/ CallHandler \/ HandlerReturns
    BY <1>1, <1>4 DEF SkipThunk, Enter, SkipHandler, CallHandler, HandlerReturns
  <1>5. CASE Finish \/ ReadBackFails \/ Abort
    BY <1>1, <1>5 DEF Finish, ReadBackFails, Abort
  <1>6. QED
    BY <1>1, <1>2, <1>3, <1>4, <1>5
       DEF Next, Dispatch, Lua, Engine, Host, SetModHandled, TakeHandle, Raise, EngineReturns,
           CreateWorld, PlayerMoves, LoadDone, Reopen, vars

(* Only the host opens and closes Lua.                                     *)
Stays == UsedStay /\ UNCHANGED <<canRemove, luaOpen, opens>>

LEMMA EverythingStays ==
  ASSUME TypeOK, [Next]_vars
  PROVE  Stays \/ Shutdown \/ Reopen
  <1> USE DEF host, pool, limits, engine
  <1>1. CASE SkipThunk \/ LayoutFails \/ Enter \/ SkipHandler \/ CallHandler
    BY <1>1, SlotsStayInUse
       DEF SkipThunk, LayoutFails, Enter, SkipHandler, CallHandler, Stays
  <1>2. CASE HandlerReturns \/ Finish \/ ReadBackFails \/ Abort
    BY <1>2, SlotsStayInUse DEF HandlerReturns, Finish, ReadBackFails, Abort, Stays
  <1>3. CASE Lua \/ Engine \/ LoadDone \/ UNCHANGED vars
    BY <1>3, SlotsStayInUse
       DEF Lua, Engine, OnEvent, SetModHandled, TakeHandle, Raise, EngineReturns, CreateWorld,
           PlayerMoves, LoadDone, Stays, vars
  <1>4. QED
    BY <1>1, <1>2, <1>3 DEF Next, Dispatch, Host

(* The step of the game shutting down finds one invocation, in the engine. *)
LEMMA ShutdownIsOutermost ==
  ASSUME IInv, Shutdown
  PROVE  Len(stack) = 1 /\ stack[1].at = "engine" /\ stack' = stack
  <1>1. Len(stack) \in Nat \ {0}
    BY TopIsTyped DEF IInv, Shutdown, TopIs
  <1>2. stack' = stack /\ Top.at = "engine" /\ Top.hook = GameShutdown
    BY DEF Shutdown, TopIs
  <1>3. Nested /\ Len(stack) \in 1 .. Len(stack)
    BY <1>1 DEF IInv
  <1>4. Len(stack) = 1
    BY <1>2, <1>3 DEF Nested, Top
  <1>5. QED
    BY <1>2, <1>4 DEF Top

-----------------------------------------------------------------------------
(* The rate limits.                                                        *)

(* A handler that runs, or is about to be called, belongs to a slot in     *)
(* use.                                                                    *)
LEMMA TopWalks ==
  ASSUME IInv, stack # <<>>
  PROVE  /\ Top \in Invocation /\ WalkOK(Top)
         /\ Top.at # "engine" => luaOpen /\ Top.slot \in SlotIds /\ slots[Top.slot].used
  <1>1. Top \in Invocation /\ Len(stack) \in 1 .. Len(stack)
    BY TopIsTyped DEF IInv
  <1>2. WalkOK(Top)
    BY <1>1 DEF IInv, Walks, Top
  <1>3. QED
    BY <1>1, <1>2 DEF WalkOK

LEMMA LimitsNext ==
  ASSUME IInv, [Next]_vars
  PROVE  LimitsStartAfresh'
  <1> USE DEF host, pool, limits, engine
  <1>1. TypeOK /\ LimitsStartAfresh
    BY DEF IInv
  <1>2. ASSUME UNCHANGED limits, UsedStay PROVE LimitsStartAfresh'
    BY <1>1, <1>2 DEF LimitsStartAfresh, UsedStay
  <1>3. CASE HandlerReturns
    <2>1. stack # <<>> /\ Top.at = "lua" /\ UNCHANGED <<slots, warned>>
      BY <1>3 DEF HandlerReturns, TopIs
    <2>2. slots[Top.slot].used
      BY <2>1, TopWalks
    <2>3. \A s \in SlotIds : s # Top.slot => reports'[s] = reports[s]
      BY <1>1, <1>3 DEF HandlerReturns, Report, TypeOK
    <2>4. QED
      BY <1>1, <2>1, <2>2, <2>3 DEF LimitsStartAfresh
  <1>4. CASE Finish \/ ReadBackFails
    <2>1. stack # <<>> /\ Top.at = "loop" /\ UNCHANGED <<slots, reports>> /\ Warn
      BY <1>4 DEF Finish, ReadBackFails, TopIs
    <2>2. slots[Top.slot].used
      BY <2>1, TopWalks
    <2>3. \A s \in SlotIds : s # Top.slot => warned'[s] = warned[s]
      BY <1>1, <2>1 DEF Warn, TypeOK
    <2>4. QED
      BY <1>1, <2>1, <2>2, <2>3 DEF LimitsStartAfresh
  <1>5. CASE Shutdown
    BY <1>5 DEF Shutdown, EventsShutdown, ResetLimits, LimitsStartAfresh
  <1>6. CASE UNCHANGED limits
    BY <1>1, <1>2, <1>5, <1>6, SlotsStayInUse
  <1>7. CASE SkipThunk \/ LayoutFails \/ Enter \/ SkipHandler \/ CallHandler \/ Abort
    BY <1>6, <1>7 DEF SkipThunk, LayoutFails, Enter, SkipHandler, CallHandler, Abort
  <1>8. CASE Lua \/ Engine \/ LoadDone \/ Reopen \/ UNCHANGED vars
    BY <1>6, <1>8
       DEF Lua, Engine, OnEvent, SetModHandled, TakeHandle, Raise, EngineReturns, CreateWorld,
           PlayerMoves, LoadDone, Reopen, vars
  <1>9. QED
    BY <1>3, <1>4, <1>5, <1>7, <1>8 DEF Next, Dispatch, Host

-----------------------------------------------------------------------------
(* The shape of the stack.                                                 *)

(* Every step of dispatch and every write of mod_handled is one of the     *)
(* innermost invocation.                                                   *)
LEMMA TopSteps ==
  ASSUME TypeOK, Dispatch \/ \E b \in BOOLEAN : SetModHandled(b)
  PROVE  SameBelow
  BY SkipThunkEffect, LayoutFailsEffect, EnterEffect, SkipHandlerEffect, CallHandlerEffect,
     HandlerReturnsEffect, FinishEffect, AbortEffect, SetModHandledEffect DEF Dispatch

(* A hook raised becomes the innermost invocation, over one that is inside *)
(* a handler.                                                              *)
LEMMA RaisedEffect ==
  ASSUME TypeOK, NEW h \in Hooks, NEW w \in Worlds, NEW m \in BOOLEAN, Raise(h, w, m)
  PROVE  /\ stack' \in Seq(Invocation) /\ Len(stack') = Len(stack) + 1 /\ Len(stack) \in Nat
         /\ stack' # <<>> /\ Top' = NewInvocation(h, w, m)
         /\ \A d \in 1 .. Len(stack') :
              stack'[d] = IF d = Len(stack') THEN NewInvocation(h, w, m) ELSE stack[d]
         /\ Top'.hook = h /\ Top'.at = "engine" /\ ~Top'.dispatched
         /\ stack # <<>> => Top.at = "lua"
  <1>1. NewInvocation(h, w, m) \in Invocation
    BY NewIsTyped
  <1>2. stack' = Append(stack, NewInvocation(h, w, m)) /\ stack \in Seq(Invocation)
    BY DEF Raise, TypeOK
  <1>3. stack # <<>> => Top.at = "lua"
    BY DEF Raise, TopIs
  <1>4. /\ stack' \in Seq(Invocation) /\ Len(stack') = Len(stack) + 1 /\ Len(stack) \in Nat
        /\ stack' # <<>> /\ Top' = NewInvocation(h, w, m)
        /\ \A d \in 1 .. Len(stack') :
              stack'[d] = IF d = Len(stack') THEN NewInvocation(h, w, m) ELSE stack[d]
    BY <1>1, <1>2, RaiseEffect
  <1>5. QED
    BY <1>3, <1>4 DEF NewInvocation

LEMMA NestedNext ==
  ASSUME IInv, [Next]_vars
  PROVE  Nested'
  <1> USE DEF host, pool, limits, engine
  <1>1. TypeOK /\ Nested
    BY DEF IInv
  <1>2. CASE UNCHANGED stack
    BY <1>1, <1>2 DEF Nested
  <1>3. CASE SameBelow
    <2>1. ASSUME NEW d \in 1 .. Len(stack'), d # Len(stack) PROVE stack'[d] = stack[d]
      BY <1>3, <2>1 DEF SameBelow
    <2>2. stack'[Len(stack)].hook = stack[Len(stack)].hook
      BY <1>3 DEF SameBelow, Top
    <2>3. QED
      BY <1>1, <1>3, <2>1, <2>2 DEF SameBelow, Nested
  <1>4. ASSUME NEW h \in Hooks, NEW w \in Worlds, NEW m \in BOOLEAN, Raise(h, w, m)
        PROVE  Nested'
    <2> DEFINE f == NewInvocation(h, w, m)
    <2>1. /\ Len(stack') = Len(stack) + 1 /\ Len(stack) \in Nat /\ f.hook = h
          /\ stack # <<>> => Top.at = "lua"
          /\ \A d \in 1 .. Len(stack') : stack'[d] = IF d = Len(stack') THEN f ELSE stack[d]
      BY <1>1, <1>4, RaisedEffect
    <2>2. h = GameShutdown => stack = <<>>
      BY <1>4 DEF Raise
    <2> HIDE DEF f
    <2>3. ASSUME NEW d \in 1 .. Len(stack)
          PROVE  stack[d].at = "lua" /\ (stack[d].hook = GameShutdown => d = 1)
      BY <1>1, <2>1 DEF Nested, Top
    <2>4. stack = <<>> => Len(stack) = 0
      OBVIOUS
    <2>5. QED
      BY <2>1, <2>2, <2>3, <2>4 DEF Nested
  <1>5. CASE EngineReturns
    <2>1. /\ Len(stack') = Len(stack) - 1 /\ Len(stack) \in Nat \ {0}
          /\ \A d \in 1 .. Len(stack') : stack'[d] = stack[d]
      BY <1>1, <1>5, ReturnEffect DEF EngineReturns, TopIs, TypeOK
    <2>2. QED
      BY <1>1, <2>1 DEF Nested
  <1>6. CASE UNCHANGED vars
    BY <1>2, <1>6 DEF vars
  <1>7. CASE \E b \in BOOLEAN : SetModHandled(b)
    BY <1>1, <1>3, <1>7, TopSteps
  <1>8. CASE Dispatch
    BY <1>1, <1>3, <1>8, TopSteps
  <1>9. QED
    BY <1>2, <1>4, <1>5, <1>6, <1>7, <1>8
       DEF Next, Lua, Engine, Host, OnEvent, TakeHandle, CreateWorld, PlayerMoves, LoadDone,
           Shutdown, Reopen

-----------------------------------------------------------------------------
(* The thunks an invocation still has to call.                             *)

(* An invocation that did not change stays what it was.                    *)
LEMMA OldWalkStays ==
  ASSUME IInv, Stays, NEW d \in 1 .. Len(stack), stack'[d] = stack[d]
  PROVE  WalkOK(stack[d])'
  <1> DEFINE f == stack[d]
  <1>1. f \in Invocation /\ WalkOK(f)
    <2>1. stack \in Seq(Invocation) /\ Walks
      BY DEF IInv, TypeOK
    <2>2. QED
      BY <2>1 DEF Walks
  <1>2. \A t \in f.todo : t.slot \in SlotIds
    BY <1>1 DEF Invocation, Installations
  <1> HIDE DEF f
  <1>3. /\ f.at # "engine" =>
             /\ luaOpen' /\ f.slot \in SlotIds /\ slots'[f.slot].used
             /\ ~f.stray => HookOf[slots'[f.slot].event] = f.hook
        /\ luaOpen' /\ (canRemove' \/ opens' = 1) =>
             \A t \in f.todo : slots'[t.slot].used /\ HookOf[slots'[t.slot].event] = f.hook
        /\ f.stray => ~canRemove' /\ opens' > 1
    BY <1>1, <1>2 DEF WalkOK, Stays, UsedStay, SlotHook
  <1>4. stack'[d] = f
    BY DEF f
  <1>5. QED
    BY <1>3, <1>4 DEF WalkOK, SlotHook

(* A step of the innermost invocation alone has only that one to answer    *)
(* for.                                                                    *)
LEMMA WalksOfTop ==
  ASSUME IInv, Stays, SameBelow, Top'.todo \subseteq Top.todo,
         Top'.at # "engine" =>
           /\ luaOpen /\ Top'.slot \in SlotIds /\ slots[Top'.slot].used
           /\ ~Top'.stray => SlotHook(Top'.slot) = Top.hook,
         Top'.stray => ~canRemove /\ opens > 1
  PROVE  Walks'
  <1>1. ASSUME NEW d \in 1 .. Len(stack), d # Len(stack) PROVE WalkOK(stack[d])'
    <2>1. stack'[d] = stack[d]
      BY <1>1 DEF SameBelow
    <2>2. QED
      BY <2>1, OldWalkStays
  <1>2. WalkOK(Top)'
    <2>1. Top \in Invocation /\ WalkOK(Top) /\ Top'.hook = Top.hook
      BY TopWalks DEF SameBelow
    <2>2. \A t \in Top'.todo : t \in Top.todo /\ t.slot \in SlotIds
      BY <2>1 DEF Invocation, Installations
    <2>3. luaOpen' /\ (canRemove' \/ opens' = 1) =>
            \A t \in Top'.todo :
              slots'[t.slot].used /\ HookOf[slots'[t.slot].event] = Top'.hook
      BY <2>1, <2>2 DEF WalkOK, Stays, UsedStay, SlotHook
    <2>4. Top'.at # "engine" =>
            /\ luaOpen' /\ Top'.slot \in SlotIds /\ slots'[Top'.slot].used
            /\ ~Top'.stray => HookOf[slots'[Top'.slot].event] = Top'.hook
      BY <2>1 DEF Stays, UsedStay, SlotHook
    <2>5. Top'.stray => ~canRemove' /\ opens' > 1
      BY DEF Stays
    <2>6. QED
      BY <2>3, <2>4, <2>5 DEF WalkOK, SlotHook
  <1>3. Top' = stack'[Len(stack)] /\ Len(stack') = Len(stack)
    BY DEF SameBelow, Top
  <1>4. QED
    BY <1>1, <1>2, <1>3 DEF Walks

(* A thunk leads to a slot of another hook only in a start after the       *)
(* first, of a game that cannot remove hooks.                              *)
LEMMA StraysOnlyLater ==
  ASSUME IInv, stack # <<>>, luaOpen, NEW t \in Top.todo, Strays(t.slot)
  PROVE  ~canRemove /\ opens > 1
  <1>1. WalkOK(Top)
    BY TopWalks
  <1>2. ~canRemove /\ opens # 1
    BY <1>1 DEF WalkOK, Strays
  <1>3. opens \in Nat \ {0}
    BY DEF IInv, TypeOK
  <1>4. QED
    BY <1>2, <1>3

(* In a first start, or if hooks can be removed, the engine has installed  *)
(* the slots' thunks alone.                                                *)
LEMMA OnlyThunksInstalled ==
  ASSUME IInv, luaOpen, canRemove \/ opens = 1, NEW t \in installed
  PROVE  slots[t.slot].used /\ SlotHook(t.slot) = t.hook
  <1>1. t \in Thunks
    <2>1. CASE canRemove
      BY <2>1 DEF IInv, PoolMatchesEngine
    <2>2. CASE opens = 1
      <3>1. t.start \in Nat \ {0} /\ t.start <= opens
        BY DEF IInv, TypeOK, Starts, Installations
      <3>2. t.start = opens
        BY <2>2, <3>1
      <3>3. QED
        BY <3>2 DEF IInv, PoolMatchesEngine
    <2>3. QED
      BY <2>1, <2>2
  <1>2. QED
    BY <1>1 DEF Thunks, Thunk

LEMMA WalksNext ==
  ASSUME IInv, [Next]_vars
  PROVE  Walks'
  <1> USE DEF host, pool, limits, engine
  <1>1. TypeOK /\ (Stays \/ Shutdown \/ Reopen)
    BY EverythingStays DEF IInv
  <1>2. ASSUME Stays, UNCHANGED stack PROVE Walks'
    <2>1. ASSUME NEW d \in 1 .. Len(stack) PROVE WalkOK(stack[d])'
      BY <1>2, OldWalkStays
    <2>2. QED
      BY <1>2, <2>1 DEF Walks
  <1>3. CASE SkipThunk
    <2>1. Stays
      BY <1>3 DEF SkipThunk, Stays, UsedStay
    <2>2. stack # <<>>
      BY <1>3 DEF SkipThunk, TopIs
    <2>3. QED
      BY <1>1, <1>3, <2>1, <2>2, SkipThunkEffect, TopWalks, WalksOfTop DEF WalkOK
  <1>4. CASE LayoutFails
    <2>1. PICK t \in Top.todo :
            /\ SameBelow /\ luaOpen /\ Top'.at = "engine" /\ Top'.todo \subseteq Top.todo
            /\ Top'.stray <=> (Top.stray \/ Strays(t.slot))
      BY <1>1, <1>4, LayoutFailsEffect
    <2>2. luaOpen' = luaOpen /\ stack # <<>>
      BY <1>4 DEF LayoutFails, TopIs
    <2>3. Stays
      BY <1>1, <2>1, <2>2 DEF Shutdown, EventsShutdown, Reopen
    <2>4. Top'.stray => ~canRemove /\ opens > 1
      BY <2>1, <2>2, StraysOnlyLater, TopWalks DEF WalkOK
    <2>5. QED
      BY <2>1, <2>3, <2>4, WalksOfTop
  <1>5. CASE Enter
    <2>1. PICK t \in Top.todo :
            /\ SameBelow /\ luaOpen /\ Top'.todo \subseteq Top.todo
            /\ Top'.slot = t.slot /\ t.slot \in SlotIds /\ slots[t.slot].used
            /\ Top'.stray <=> (Top.stray \/ Strays(t.slot))
      BY <1>1, <1>5, EnterEffect
    <2>2. Stays
      BY <1>5 DEF Enter, Stays, UsedStay
    <2>3. stack # <<>>
      BY <2>1 DEF SameBelow
    <2>4. Top'.stray => ~canRemove /\ opens > 1
      BY <2>1, <2>3, StraysOnlyLater, TopWalks DEF WalkOK
    <2>5. ~Top'.stray => SlotHook(Top'.slot) = Top.hook
      BY <2>1 DEF Strays
    <2>6. QED
      BY <2>1, <2>2, <2>4, <2>5, WalksOfTop
  <1>6. CASE SkipHandler \/ CallHandler \/ HandlerReturns
    <2>1. Stays
      BY <1>6 DEF SkipHandler, CallHandler, HandlerReturns, Stays, UsedStay
    <2>2. /\ SameBelow /\ Top.at # "engine" /\ Top'.todo = Top.todo /\ Top'.slot = Top.slot
          /\ Top'.stray = Top.stray
      BY <1>1, <1>6, SkipHandlerEffect, CallHandlerEffect, HandlerReturnsEffect
    <2>3. WalkOK(Top)
      BY <2>2, TopWalks DEF SameBelow
    <2>4. QED
      BY <2>1, <2>2, <2>3, WalksOfTop DEF WalkOK
  <1>7. CASE Finish \/ ReadBackFails \/ Abort
    <2>1. Stays
      BY <1>7 DEF Finish, ReadBackFails, Abort, Stays, UsedStay
    <2>2. /\ SameBelow /\ Top'.at = "engine" /\ Top'.todo = Top.todo
          /\ Top'.stray = Top.stray
      BY <1>1, <1>7, FinishEffect, AbortEffect
    <2>3. WalkOK(Top)
      BY <2>2, TopWalks DEF SameBelow
    <2>4. QED
      BY <2>1, <2>2, <2>3, WalksOfTop DEF WalkOK
  <1>8. ASSUME NEW e \in EventNames, NEW p \in Priorities, OnEvent(e, p)
        PROVE  Walks'
    <2>1. luaOpen /\ UNCHANGED <<stack, luaOpen>>
      BY <1>8 DEF OnEvent, LuaRuns
    <2>2. ~Shutdown /\ ~Reopen
      BY <2>1 DEF Shutdown, EventsShutdown, Reopen
    <2>3. QED
      BY <1>1, <1>2, <2>1, <2>2
  <1>9. ASSUME NEW b \in BOOLEAN, SetModHandled(b) PROVE Walks'
    <2>1. Stays
      BY <1>9 DEF SetModHandled, Stays, UsedStay
    <2>2. /\ SameBelow /\ Top.at = "lua" /\ Top'.todo = Top.todo /\ Top'.slot = Top.slot
          /\ Top'.stray = Top.stray
      BY <1>1, <1>9, SetModHandledEffect
    <2>3. WalkOK(Top)
      BY <2>2, TopWalks DEF SameBelow
    <2>4. QED
      BY <2>1, <2>2, <2>3, WalksOfTop DEF WalkOK
  <1>10. ASSUME NEW w, TakeHandle(w) \/ CreateWorld(w) \/ PlayerMoves(w) PROVE Walks'
    <2>1. Stays /\ UNCHANGED stack
      BY <1>10 DEF TakeHandle, CreateWorld, PlayerMoves, Stays, UsedStay
    <2>2. QED
      BY <1>2, <2>1
  <1>11. ASSUME NEW h \in Hooks, NEW w \in Worlds, NEW m \in BOOLEAN, Raise(h, w, m)
         PROVE  Walks'
    <2> DEFINE f == NewInvocation(h, w, m)
    <2>1. Stays /\ UNCHANGED <<canRemove, luaOpen, opens, slots>>
      BY <1>11 DEF Raise, Stays, UsedStay
    <2>2. /\ Len(stack') = Len(stack) + 1 /\ Len(stack) \in Nat
          /\ \A d \in 1 .. Len(stack') : stack'[d] = IF d = Len(stack') THEN f ELSE stack[d]
      BY <1>1, <1>11, RaisedEffect
    <2>3. /\ f.hook = h /\ f.at = "engine" /\ ~f.stray
          /\ f.todo = {t \in installed : t.hook = h}
      BY DEF NewInvocation
    <2> HIDE DEF f
    <2>4. luaOpen /\ (canRemove \/ opens = 1) =>
            \A t \in f.todo : slots[t.slot].used /\ SlotHook(t.slot) = f.hook
      BY <2>3, OnlyThunksInstalled
    <2>5. ASSUME NEW d \in 1 .. Len(stack) PROVE WalkOK(stack[d])'
      <3>1. stack'[d] = stack[d]
        BY <2>2
      <3>2. QED
        BY <2>1, <3>1, OldWalkStays
    <2>6. stack'[Len(stack')] = f
      BY <2>2
    <2>7. ASSUME NEW d \in 1 .. Len(stack'), d = Len(stack') PROVE WalkOK(stack[d])'
      BY <2>1, <2>3, <2>4, <2>6, <2>7 DEF WalkOK, SlotHook
    <2>8. QED
      BY <2>2, <2>5, <2>7 DEF Walks
  <1>12. CASE EngineReturns
    <2>1. /\ Len(stack') = Len(stack) - 1 /\ Len(stack) \in Nat \ {0}
          /\ \A d \in 1 .. Len(stack') : stack'[d] = stack[d]
      BY <1>1, <1>12, ReturnEffect DEF EngineReturns, TopIs, TypeOK
    <2>2. Stays
      BY <1>12 DEF EngineReturns, Stays, UsedStay
    <2>3. ASSUME NEW d \in 1 .. Len(stack') PROVE WalkOK(stack[d])'
      <3>1. d \in 1 .. Len(stack) /\ stack'[d] = stack[d]
        BY <2>1
      <3>2. QED
        BY <2>2, <3>1, OldWalkStays
    <2>4. QED
      BY <2>3 DEF Walks
  <1>13. CASE LoadDone \/ UNCHANGED vars
    <2>1. Stays /\ UNCHANGED stack
      BY <1>13 DEF LoadDone, vars, Stays, UsedStay
    <2>2. QED
      BY <1>2, <2>1
  <1>14. CASE Shutdown
    <2>1. Len(stack) = 1 /\ stack[1].at = "engine" /\ stack' = stack
      BY <1>14, ShutdownIsOutermost
    <2>2. ~luaOpen' /\ UNCHANGED <<canRemove, opens>>
      BY <1>14 DEF Shutdown, EventsShutdown
    <2>3. Len(stack') = 1
      BY <2>1
    <2>4. WalkOK(stack[1])
      BY <2>1 DEF IInv, Walks
    <2>5. \A d \in 1 .. Len(stack') : d = 1
      BY <2>3
    <2>6. QED
      BY <2>1, <2>2, <2>4, <2>5 DEF Walks, WalkOK
  <1>15. CASE Reopen
    <2>1. Len(stack') = 0
      BY <1>15 DEF Reopen
    <2>2. QED
      BY <2>1 DEF Walks
  <1>16. QED
    BY <1>3, <1>4, <1>5, <1>6, <1>7, <1>8, <1>9, <1>10, <1>11, <1>12, <1>13, <1>14, <1>15
       DEF Next, Dispatch, Lua, Engine, Host

-----------------------------------------------------------------------------
(* Claims on their way to the engine.                                      *)

LEMMA OldClaimStays ==
  ASSUME IInv, UsedStay, NEW d \in 1 .. Len(stack), stack'[d] = stack[d]
  PROVE  ClaimOK(stack[d])'
  <1> DEFINE f == stack[d]
  <1>1. f \in Invocation /\ WalkOK(f) /\ ClaimOK(f)
    <2>1. stack \in Seq(Invocation) /\ Walks /\ ClaimsKept
      BY DEF IInv, TypeOK
    <2>2. QED
      BY <2>1 DEF Walks, ClaimsKept
  <1> HIDE DEF f
  <1>2. f.at # "engine" => slots'[f.slot].event = slots[f.slot].event
    BY <1>1 DEF WalkOK, UsedStay
  <1>3. /\ f.at = "engine" => ~f.asked
        /\ ~f.stray =>
             /\ f.claim = "yes" => f.modHandled
             /\ f.claim = "no" => ~f.modHandled
             /\ f.at # "engine" /\ slots'[f.slot].event \in Cancellable =>
                  /\ f.handled <=> f.modHandled \/ f.asked
                  /\ f.at = "loop" => (f.field <=> f.handled)
    BY <1>1, <1>2 DEF ClaimOK
  <1>4. stack'[d] = f
    BY DEF f
  <1>5. QED
    BY <1>3, <1>4 DEF ClaimOK

LEMMA ClaimsOfTop ==
  ASSUME IInv, UsedStay, SameBelow, ClaimOK(Top)'
  PROVE  ClaimsKept'
  <1>1. ASSUME NEW d \in 1 .. Len(stack), d # Len(stack) PROVE ClaimOK(stack[d])'
    <2>1. stack'[d] = stack[d]
      BY <1>1 DEF SameBelow
    <2>2. QED
      BY <2>1, OldClaimStays
  <1>2. Top' = stack'[Len(stack)] /\ Len(stack') = Len(stack)
    BY DEF SameBelow, Top
  <1>3. QED
    BY <1>1, <1>2 DEF ClaimsKept

(* What holds of the innermost invocation before the step.                 *)
LEMMA TopClaims ==
  ASSUME IInv, stack # <<>>
  PROVE  Top \in Invocation /\ ClaimOK(Top) /\ WalkOK(Top)
  <1>1. Top \in Invocation /\ Len(stack) \in 1 .. Len(stack)
    BY TopIsTyped DEF IInv
  <1>2. QED
    BY <1>1, TopWalks DEF IInv, ClaimsKept, Top

(* What read_back writes keeps the claims, whether it is all written or    *)
(* not.                                                                    *)
LEMMA WrittenKeepsClaims ==
  ASSUME IInv, stack # <<>>, Top.at = "loop", ~Top.stray, NEW m \in BOOLEAN, NEW c,
         \/ m \in Written /\ c = ClaimAll
         \/ m \in Written \cup {Top.modHandled} /\ c = ClaimSome
  PROVE  (c = "yes" => m) /\ (c = "no" => ~m)
  <1>1. /\ Top \in Invocation /\ ClaimOK(Top) /\ SlotHook(Top.slot) = Top.hook
    BY TopClaims DEF WalkOK
  <1>2. CASE slots[Top.slot].event \in Cancellable
    <2>1. Written = {Top.field} /\ (Top.field <=> Top.modHandled \/ Top.asked)
      BY <1>1, <1>2 DEF Written, Strays, ClaimOK
    <2>2. /\ Top.claim = "yes" => Top.modHandled
          /\ Top.claim = "no" => ~Top.modHandled
      BY <1>1 DEF ClaimOK
    <2>3. CASE Top.asked
      <3>1. ClaimAll = "yes" /\ Top.field
        BY <1>2, <2>1, <2>3 DEF ClaimAll
      <3>2. ClaimSome = IF Top.claim = "yes" THEN "yes" ELSE "maybe"
        BY <3>1 DEF ClaimSome
      <3>3. QED
        BY <2>1, <2>2, <3>1, <3>2
    <2>4. CASE ~Top.asked
      <3>1. ClaimAll = Top.claim /\ ClaimSome = Top.claim
        BY <2>4 DEF ClaimAll, ClaimSome
      <3>2. m = Top.field \/ m = Top.modHandled
        BY <2>1
      <3>3. QED
        BY <2>1, <2>2, <2>4, <3>1, <3>2
    <2>5. QED
      BY <2>3, <2>4
  <1>3. CASE slots[Top.slot].event \notin Cancellable
    <2>1. m = Top.modHandled
      BY <1>1, <1>3 DEF Written, Strays
    <2>2. c = Top.claim
      BY <1>3 DEF ClaimAll, ClaimSome
    <2>3. QED
      BY <1>1, <2>1, <2>2 DEF ClaimOK
  <1>4. QED
    BY <1>2, <1>3

LEMMA ClaimsNext ==
  ASSUME IInv, [Next]_vars
  PROVE  ClaimsKept'
  <1> USE DEF host, pool, limits, engine
  <1>1. TypeOK /\ (UsedStay \/ Shutdown)
    BY SlotsStayInUse DEF IInv
  <1>2. ASSUME UsedStay, UNCHANGED stack PROVE ClaimsKept'
    <2>1. ASSUME NEW d \in 1 .. Len(stack) PROVE ClaimOK(stack[d])'
      BY <1>2, OldClaimStays
    <2>2. QED
      BY <1>2, <2>1 DEF ClaimsKept
  <1>3. CASE SkipThunk
    <2>1. UsedStay
      BY <1>3 DEF SkipThunk, UsedStay
    <2>2. SameBelow /\ ClaimOK(Top)
      BY <1>1, <1>3, SkipThunkEffect, TopClaims DEF SkipThunk, TopIs
    <2>3. ClaimOK(Top)'
      BY <1>1, <1>3, <2>2, SkipThunkEffect DEF ClaimOK
    <2>4. QED
      BY <2>1, <2>2, <2>3, ClaimsOfTop
  <1>4. CASE LayoutFails
    <2>1. PICK t \in Top.todo :
            /\ SameBelow /\ luaOpen /\ Top'.at = "engine" /\ ~Top'.asked
            /\ Top'.modHandled = Top.modHandled /\ Top'.claim = Top.claim
            /\ Top'.stray <=> (Top.stray \/ Strays(t.slot))
      BY <1>1, <1>4, LayoutFailsEffect
    <2>2. UsedStay
      BY <1>1, <1>4, <2>1 DEF LayoutFails, Shutdown, EventsShutdown
    <2>3. ClaimOK(Top)
      BY <2>1, TopClaims DEF SameBelow
    <2>4. ClaimOK(Top)'
      BY <2>1, <2>3 DEF ClaimOK
    <2>5. QED
      BY <2>1, <2>2, <2>4, ClaimsOfTop
  <1>5. CASE Enter
    <2>1. UsedStay /\ slots' = slots
      BY <1>5 DEF Enter, UsedStay
    <2>2. PICK t \in Top.todo :
            /\ SameBelow /\ Top.at = "engine" /\ Top'.at = "loop" /\ Top'.slot = t.slot
            /\ Top'.modHandled = Top.modHandled /\ Top'.claim = Top.claim
            /\ Top'.asked = Top.asked /\ Top'.field = Top'.handled
            /\ Top'.stray <=> (Top.stray \/ Strays(t.slot))
            /\ ~Strays(t.slot) /\ slots[t.slot].event \in Cancellable =>
                 Top'.handled = Top.modHandled
      BY <1>1, <1>5, EnterEffect
    <2>3. ClaimOK(Top)
      BY <2>2, TopClaims DEF SameBelow
    <2>4. ClaimOK(Top)'
      BY <2>1, <2>2, <2>3 DEF ClaimOK
    <2>5. QED
      BY <2>1, <2>2, <2>4, ClaimsOfTop
  <1>6. CASE SkipHandler \/ CallHandler
    <2>1. UsedStay /\ slots' = slots
      BY <1>6 DEF SkipHandler, CallHandler, UsedStay
    <2>2. SameBelow /\ ClaimOK(Top)
      BY <1>1, <1>6, SkipHandlerEffect, CallHandlerEffect, TopClaims DEF SameBelow
    <2>3. ClaimOK(Top)'
      BY <1>1, <1>6, <2>1, <2>2, SkipHandlerEffect, CallHandlerEffect DEF ClaimOK
    <2>4. QED
      BY <2>1, <2>2, <2>3, ClaimsOfTop
  <1>7. CASE HandlerReturns
    <2>1. UsedStay /\ slots' = slots
      BY <1>7 DEF HandlerReturns, UsedStay
    <2>2. SameBelow /\ ClaimOK(Top)
      BY <1>1, <1>7, HandlerReturnsEffect, TopClaims DEF SameBelow
    <2>3. ClaimOK(Top)'
      BY <1>1, <1>7, <2>1, <2>2, HandlerReturnsEffect DEF ClaimOK
    <2>4. QED
      BY <2>1, <2>2, <2>3, ClaimsOfTop
  <1>8. CASE Finish \/ ReadBackFails
    <2>1. UsedStay
      BY <1>8 DEF Finish, ReadBackFails, UsedStay
    <2>2. /\ SameBelow /\ Top.at = "loop" /\ Top'.at = "engine" /\ ~Top'.asked
          /\ Top'.stray = Top.stray
          /\ \/ Top'.modHandled \in Written /\ Top'.claim = ClaimAll
             \/ Top'.modHandled \in Written \cup {Top.modHandled} /\ Top'.claim = ClaimSome
      BY <1>1, <1>8, FinishEffect
    <2>3. ~Top.stray => /\ Top'.claim = "yes" => Top'.modHandled
                        /\ Top'.claim = "no" => ~Top'.modHandled
      <3>0. Top'.modHandled \in BOOLEAN /\ Top'.claim \in {"no", "maybe", "yes"}
        BY <1>1, <2>2, WrittenTyped DEF SameBelow, IInv
      <3>1. PICK m \in BOOLEAN, c \in {"no", "maybe", "yes"} :
               m = Top'.modHandled /\ c = Top'.claim
        BY <3>0
      <3>2. \/ m \in Written /\ c = ClaimAll
            \/ m \in Written \cup {Top.modHandled} /\ c = ClaimSome
        BY <2>2, <3>1
      <3>3. ASSUME ~Top.stray PROVE (c = "yes" => m) /\ (c = "no" => ~m)
        <4>1. stack # <<>> /\ Top.at = "loop"
          BY <2>2 DEF SameBelow
        <4>2. QED
          BY <3>2, <3>3, <4>1, WrittenKeepsClaims
      <3>4. QED
        BY <3>1, <3>3
    <2>4. ClaimOK(Top)'
      BY <2>2, <2>3 DEF ClaimOK
    <2>5. QED
      BY <2>1, <2>2, <2>4, ClaimsOfTop
  <1>9. CASE Abort
    <2>1. UsedStay
      BY <1>9 DEF Abort, UsedStay
    <2>2. SameBelow /\ ClaimOK(Top)
      BY <1>1, <1>9, AbortEffect, TopClaims DEF SameBelow
    <2>3. ClaimOK(Top)'
      BY <1>1, <1>9, <2>2, AbortEffect DEF ClaimOK
    <2>4. QED
      BY <2>1, <2>2, <2>3, ClaimsOfTop
  <1>10. ASSUME NEW e \in EventNames, NEW p \in Priorities, OnEvent(e, p)
         PROVE  ClaimsKept'
    <2>1. luaOpen /\ UNCHANGED <<stack, luaOpen>>
      BY <1>10 DEF OnEvent, LuaRuns
    <2>2. ~Shutdown
      BY <2>1 DEF Shutdown, EventsShutdown
    <2>3. QED
      BY <1>1, <1>2, <2>1, <2>2
  <1>11. ASSUME NEW b \in BOOLEAN, SetModHandled(b) PROVE ClaimsKept'
    <2>1. UsedStay /\ slots' = slots
      BY <1>11 DEF SetModHandled, UsedStay
    <2>2. SameBelow /\ ClaimOK(Top)
      BY <1>1, <1>11, SetModHandledEffect, TopClaims DEF SameBelow
    <2>3. ClaimOK(Top)'
      BY <1>1, <1>11, <2>1, <2>2, SetModHandledEffect DEF ClaimOK
    <2>4. QED
      BY <2>1, <2>2, <2>3, ClaimsOfTop
  <1>12. ASSUME NEW w, TakeHandle(w) \/ CreateWorld(w) \/ PlayerMoves(w) PROVE ClaimsKept'
    <2>1. UsedStay /\ UNCHANGED stack
      BY <1>12 DEF TakeHandle, CreateWorld, PlayerMoves, UsedStay
    <2>2. QED
      BY <1>2, <2>1
  <1>13. ASSUME NEW h \in Hooks, NEW w \in Worlds, NEW m \in BOOLEAN, Raise(h, w, m)
         PROVE  ClaimsKept'
    <2> DEFINE f == NewInvocation(h, w, m)
    <2>1. UsedStay
      BY <1>13 DEF Raise, UsedStay
    <2>2. /\ Len(stack') = Len(stack) + 1 /\ Len(stack) \in Nat
          /\ \A d \in 1 .. Len(stack') : stack'[d] = IF d = Len(stack') THEN f ELSE stack[d]
      BY <1>1, <1>13, RaisedEffect
    <2>3. /\ f.at = "engine" /\ ~f.asked /\ f.modHandled = m
          /\ f.claim = IF m THEN "yes" ELSE "no"
      BY DEF NewInvocation
    <2> HIDE DEF f
    <2>4. ASSUME NEW d \in 1 .. Len(stack) PROVE ClaimOK(stack[d])'
      <3>1. stack'[d] = stack[d]
        BY <2>2
      <3>2. QED
        BY <2>1, <3>1, OldClaimStays
    <2>5. stack'[Len(stack')] = f
      BY <2>2
    <2>6. ASSUME NEW d \in 1 .. Len(stack'), d = Len(stack') PROVE ClaimOK(stack[d])'
      BY <2>3, <2>5, <2>6 DEF ClaimOK
    <2>7. QED
      BY <2>2, <2>4, <2>6 DEF ClaimsKept
  <1>14. CASE EngineReturns
    <2>1. /\ Len(stack') = Len(stack) - 1 /\ Len(stack) \in Nat \ {0}
          /\ \A d \in 1 .. Len(stack') : stack'[d] = stack[d]
      BY <1>1, <1>14, ReturnEffect DEF EngineReturns, TopIs, TypeOK
    <2>2. UsedStay
      BY <1>14 DEF EngineReturns, UsedStay
    <2>3. ASSUME NEW d \in 1 .. Len(stack') PROVE ClaimOK(stack[d])'
      <3>1. d \in 1 .. Len(stack) /\ stack'[d] = stack[d]
        BY <2>1
      <3>2. QED
        BY <2>2, <3>1, OldClaimStays
    <2>4. QED
      BY <2>3 DEF ClaimsKept
  <1>15. CASE LoadDone \/ Reopen \/ UNCHANGED vars
    <2>1. UsedStay /\ UNCHANGED stack
      BY <1>15 DEF LoadDone, Reopen, UsedStay, vars
    <2>2. QED
      BY <1>2, <2>1
  <1>16. CASE Shutdown
    <2>1. Len(stack) = 1 /\ stack[1].at = "engine" /\ stack' = stack
      BY <1>16, ShutdownIsOutermost
    <2>2. ClaimOK(stack[1])
      BY <2>1 DEF IInv, ClaimsKept
    <2>3. Len(stack') = 1
      BY <2>1
    <2>4. \A d \in 1 .. Len(stack') : d = 1
      BY <2>3
    <2>5. QED
      BY <2>1, <2>2, <2>4 DEF ClaimsKept, ClaimOK
  <1>17. QED
    BY <1>3, <1>4, <1>5, <1>6, <1>7, <1>8, <1>9, <1>10, <1>11, <1>12, <1>13, <1>14, <1>15,
       <1>16 DEF Next, Dispatch, Lua, Engine, Host

-----------------------------------------------------------------------------
(* Handles and the worlds they reach into.                                 *)

LEMMA WorldGoneNext ==
  ASSUME IInv, [Next]_vars
  PROVE  WorldGone'
  <1> USE DEF host, pool, limits, engine
  <1>1. TypeOK /\ WorldGone
    BY DEF IInv
  <1>2. CASE UNCHANGED <<stack, live>>
    BY <1>1, <1>2 DEF WorldGone, TopIs, Top
  <1>3. CASE stack' # <<>> /\ Top'.at # "engine"
    BY <1>3 DEF WorldGone, TopIs
  <1>4. CASE SkipThunk
    <2>1. live' = live
      BY <1>4 DEF SkipThunk
    <2>2. QED
      BY <1>1, <1>4, <2>1, SkipThunkEffect DEF SkipThunk, WorldGone, TopIs, SameBelow
  <1>5. CASE LayoutFails
    <2>1. PICK t \in Top.todo :
            /\ SameBelow /\ live' = LiveAfter(t.slot)
            /\ Top'.stray <=> (Top.stray \/ Strays(t.slot))
      BY <1>1, <1>5, LayoutFailsEffect
    <2>2. ~Top'.stray /\ Top'.hook = WorldDestroy => live' = {}
      BY <2>1 DEF Strays, LiveAfter, SameBelow
    <2>3. QED
      BY <2>2 DEF WorldGone
  <1>6. CASE Finish \/ ReadBackFails \/ Abort
    <2>1. /\ SameBelow /\ Top.at = "loop" /\ Top'.stray = Top.stray
          /\ live' = LiveAfter(Top.slot)
      BY <1>1, <1>6, FinishEffect, AbortEffect
    <2>2. ~Top.stray => SlotHook(Top.slot) = Top.hook
      BY <2>1, TopWalks DEF WalkOK, SameBelow
    <2>3. ~Top'.stray /\ Top'.hook = WorldDestroy => live' = {}
      BY <2>1, <2>2 DEF LiveAfter, SameBelow
    <2>4. QED
      BY <2>3 DEF WorldGone
  <1>7. CASE Enter \/ SkipHandler \/ CallHandler \/ HandlerReturns
    <2>1. SameBelow /\ Top'.at # "engine"
      BY <1>1, <1>7, EnterEffect, SkipHandlerEffect, CallHandlerEffect, HandlerReturnsEffect
    <2>2. QED
      BY <1>3, <2>1 DEF SameBelow
  <1>8. ASSUME NEW e \in EventNames, NEW p \in Priorities, OnEvent(e, p)
        PROVE  WorldGone'
    BY <1>2, <1>8 DEF OnEvent
  <1>9. ASSUME NEW b \in BOOLEAN, SetModHandled(b) PROVE WorldGone'
    BY <1>1, <1>3, <1>9, SetModHandledEffect DEF SameBelow
  <1>10. ASSUME NEW w \in Worlds, TakeHandle(w) PROVE WorldGone'
    BY <1>10 DEF TakeHandle, LuaRuns, WorldGone, TopIs, Top
  <1>11. ASSUME NEW h \in Hooks, NEW w \in Worlds, NEW m \in BOOLEAN, Raise(h, w, m)
         PROVE  WorldGone'
    BY <1>1, <1>11, RaisedEffect DEF WorldGone
  <1>12. CASE EngineReturns
    <2>1. /\ Len(stack') = Len(stack) - 1 /\ Len(stack) \in Nat \ {0}
          /\ \A d \in 1 .. Len(stack') : stack'[d] = stack[d]
          /\ stack' \in Seq(Invocation)
      BY <1>1, <1>12, ReturnEffect DEF EngineReturns, TopIs, TypeOK
    <2>2. stack' # <<>> => Top'.at = "lua"
      <3>1. stack' # <<>> => Len(stack') \in 1 .. Len(stack')
        BY <2>1
      <3>2. stack' # <<>> => Top' = stack[Len(stack) - 1] /\ Len(stack) - 1 \in 1 .. Len(stack)
        BY <2>1, <3>1 DEF Top
      <3>3. QED
        BY <2>1, <3>2 DEF IInv, Nested
    <2>3. QED
      BY <2>2 DEF WorldGone, TopIs
  <1>13. ASSUME NEW w, CreateWorld(w) \/ PlayerMoves(w) PROVE WorldGone'
    BY <1>2, <1>13 DEF CreateWorld, PlayerMoves
  <1>14. CASE LoadDone \/ Reopen \/ UNCHANGED vars
    BY <1>2, <1>14 DEF LoadDone, Reopen, vars
  <1>15. CASE Shutdown
    BY <1>15 DEF Shutdown, WorldGone
  <1>16. QED
    BY <1>4, <1>5, <1>6, <1>7, <1>8, <1>9, <1>10, <1>11, <1>12, <1>13, <1>14, <1>15
       DEF Next, Dispatch, Lua, Engine, Host

LEMMA ClosedNext ==
  ASSUME IInv, [Next]_vars
  PROVE  Closed'
  <1> USE DEF host, pool, limits, engine
  <1>1. TypeOK /\ Closed
    BY DEF IInv
  <1>2. CASE UNCHANGED <<luaOpen, slots>>
    BY <1>1, <1>2 DEF Closed
  <1>3. CASE luaOpen'
    BY <1>3 DEF Closed
  <1>4. CASE Shutdown
    BY <1>4 DEF Shutdown, EventsShutdown, Closed, FreeSlot
  <1>5. CASE LayoutFails
    <2>1. luaOpen /\ luaOpen' = luaOpen
      BY <1>5 DEF LayoutFails, Dispatchable
    <2>2. QED
      BY <1>3, <2>1
  <1>6. ASSUME NEW e \in EventNames, NEW p \in Priorities, OnEvent(e, p)
        PROVE  Closed'
    BY <1>3, <1>6 DEF OnEvent, LuaRuns
  <1>7. CASE SkipThunk \/ Enter \/ SkipHandler \/ CallHandler \/ HandlerReturns
    BY <1>2, <1>7 DEF SkipThunk, Enter, SkipHandler, CallHandler, HandlerReturns
  <1>8. CASE Finish \/ ReadBackFails \/ Abort
    BY <1>2, <1>8 DEF Finish, ReadBackFails, Abort
  <1>9. CASE Engine \/ LoadDone \/ UNCHANGED vars
    BY <1>2, <1>9 DEF Engine, Raise, EngineReturns, CreateWorld, PlayerMoves, LoadDone, vars
  <1>10. CASE Reopen
    BY <1>3, <1>10 DEF Reopen
  <1>11. QED
    BY <1>2, <1>4, <1>5, <1>6, <1>7, <1>8, <1>9, <1>10
       DEF Next, Dispatch, Lua, Host, SetModHandled, TakeHandle

-----------------------------------------------------------------------------
(* The theorems.                                                           *)

LEMMA InvInit == Init => IInv
  <1> SUFFICES ASSUME Init PROVE IInv
    OBVIOUS
  <1>1. Len(stack) = 0 /\ stack = <<>> /\ luaOpen
    BY DEF Init
  <1>2. Nested /\ Walks /\ ClaimsKept /\ WorldGone /\ Closed
    BY <1>1 DEF Nested, Walks, ClaimsKept, WorldGone, Closed, TopIs
  <1>3. installed = {} /\ Thunks = {} /\ \A s \in SlotIds : ~slots[s].used
    BY DEF Init, Thunks, FreeSlot
  <1>4. PoolMatchesEngine /\ Starts
    BY <1>3 DEF PoolMatchesEngine, Starts
  <1>5. LimitsStartAfresh
    BY DEF Init, LimitsStartAfresh
  <1>6. QED
    BY <1>2, <1>4, <1>5, TypeInit DEF IInv

LEMMA InvNext == IInv /\ [Next]_vars => IInv'
  <1> SUFFICES ASSUME IInv, [Next]_vars PROVE IInv'
    OBVIOUS
  <1>1. TypeOK'
    BY TypeNext DEF IInv
  <1>2. QED
    BY <1>1, PoolNext, LimitsNext, NestedNext, WalksNext, ClaimsNext, WorldGoneNext, ClosedNext
       DEF IInv

(* The types, and what relates the slots, the engine's installations, the  *)
(* invocations on the stack and the live handles.                          *)
THEOREM EventsInvariant == Spec => []IInv
  BY InvInit, InvNext, PTL DEF Spec

(* The state is well typed, and the reports stay within their budget.      *)
THEOREM EventsTypeCorrect == Spec => []TypeOK
  <1>1. IInv => TypeOK
    BY DEF IInv
  <1>2. QED
    BY <1>1, EventsInvariant, PTL

(* Each (hook, priority) pair has one slot, and what this start of the     *)
(* host installed are the thunks of the slots in use; if the game can      *)
(* remove hooks, nothing else is installed.                                *)
THEOREM PoolAndEngineAgree == Spec => []PoolMatchesEngine
  <1>1. IInv => PoolMatchesEngine
    BY DEF IInv
  <1>2. QED
    BY <1>1, EventsInvariant, PTL

(* A slot is handed out with its whole budget, in every start of the host. *)
THEOREM BudgetStartsAfresh == Spec => []LimitsStartAfresh
  <1>1. IInv => LimitsStartAfresh
    BY DEF IInv
  <1>2. QED
    BY <1>1, EventsInvariant, PTL

(* Only in a later start, of a game that cannot remove hooks, does a       *)
(* thunk lead to a slot of another hook.                                   *)
THEOREM NoStrayDispatch == Spec => []DispatchesReachTheirHook
  <1>1. IInv => DispatchesReachTheirHook
    BY DEF IInv, Walks, WalkOK, DispatchesReachTheirHook
  <1>2. QED
    BY <1>1, EventsInvariant, PTL

(* Whenever the engine has the control, modHandled is set if it was set    *)
(* before or a completed dispatch claimed it, and otherwise only if        *)
(* read_back failed on a claim.                                            *)
THEOREM ClaimsArrive == Spec => []ClaimsReachTheEngine
  <1>1. IInv => ClaimsReachTheEngine
    BY DEF IInv, ClaimsKept, ClaimOK, ClaimsReachTheEngine
  <1>2. QED
    BY <1>1, EventsInvariant, PTL

(* A world that is freed after some slot was told of it takes every handle *)
(* with it.                                                                *)
THEOREM NoHandleIntoFreedWorld == Spec => HandlesDieWithTheirWorld
  <1>1. ASSUME IInv, [Next]_vars, worlds' # worlds, TopIs("engine"), Top.hook = WorldDestroy,
               Top.dispatched, ~Top.stray
        PROVE  live' = {}
    <2>1. live = {}
      BY <1>1 DEF IInv, WorldGone
    <2>2. ~Finish /\ ~ReadBackFails /\ ~Abort
      BY <1>1 DEF Finish, ReadBackFails, Abort, Leave
    <2>3. ~LayoutFails
      BY <1>1 DEF LayoutFails, Leave
    <2>4. EngineReturns \/ \E w \in Worlds : CreateWorld(w)
      BY <1>1, <2>2, <2>3
         DEF Next, Dispatch, Lua, Engine, Host, SkipThunk, Enter, SkipHandler,
             CallHandler, HandlerReturns, OnEvent, SetModHandled,
             TakeHandle, Raise, PlayerMoves, LoadDone, Shutdown, Reopen, engine, vars
    <2>5. live' = live
      BY <2>4 DEF EngineReturns, CreateWorld
    <2>6. QED
      BY <2>1, <2>5
  <1>2. IInv /\ [Next]_vars =>
          [worlds' # worlds /\ TopIs("engine") /\ Top.hook = WorldDestroy /\ Top.dispatched
             /\ ~Top.stray => live' = {}]_vars
    BY <1>1
  <1>3. QED
    BY <1>2, EventsInvariant, PTL DEF Spec, HandlesDieWithTheirWorld

-----------------------------------------------------------------------------
(* The handlers a dispatch calls, and their order.                         *)

(* Each handler carries the filter of the name it was registered under.    *)
FiltersMatch ==
  \A s \in SlotIds : \A j \in DOMAIN handlers[s] :
    handlers[s][j].filter <=> handlers[s][j].event \in PlayerWorldOnly

(* With the handlers h, the loop is within those that were there when it   *)
(* began, and the ones it called are the wanted ones so far, in order.     *)
WantedIn(f, n, h) == {j \in 1 .. n : h[f.slot][j].event \in PlayerWorldOnly => f.isPlayerWorld}
LoopOK(f, h) ==
  /\ 1 <= f.i /\ f.i <= f.count + 1 /\ f.count <= Len(h[f.slot])
  /\ f.at = "lua" => f.i <= f.count
  /\ Enumerates(f.ran, WantedIn(f, IF f.at = "lua" THEN f.i ELSE f.i - 1, h))
OrderOK(f, h) == /\ f.at = "engine" => f.ran = <<>>
                 /\ f.at # "engine" => LoopOK(f, h)
Ordered == \A d \in 1 .. Len(stack) : OrderOK(stack[d], handlers)

OrderInv == FiltersMatch /\ Ordered

(* Handlers are only ever added, and behind the others, while Lua is open. *)
HandlersGrow ==
  \A s \in SlotIds :
    /\ Len(handlers[s]) <= Len(handlers'[s])
    /\ \A j \in 1 .. Len(handlers[s]) : handlers'[s][j] = handlers[s][j]

LEMMA RegisterGrows ==
  ASSUME TypeOK, FiltersMatch, NEW s, NEW e \in EventNames, Register(s, e)
  PROVE  HandlersGrow /\ FiltersMatch'
  <1> DEFINE entry == [event |-> e, filter |-> e \in PlayerWorldOnly]
             H == [event : EventNames, filter : BOOLEAN]
  <1>1. handlers \in [SlotIds -> Seq(H)] /\ entry \in H
    <2>1. handlers \in [SlotIds -> Seq(H)]
      BY DEF TypeOK
    <2>2. (e \in PlayerWorldOnly) \in BOOLEAN
      OBVIOUS
    <2>3. entry \in H
      BY <2>2
    <2>4. QED
      BY <2>1, <2>3
  <1>2. handlers' = [handlers EXCEPT ![s] = Append(@, entry)]
    BY DEF Register
  <1>3. entry.filter <=> entry.event \in PlayerWorldOnly
    OBVIOUS
  <1> HIDE DEF entry, H
  <1>4. ASSUME NEW r \in SlotIds
        PROVE  /\ Len(handlers[r]) <= Len(handlers'[r])
               /\ \A j \in 1 .. Len(handlers[r]) : handlers'[r][j] = handlers[r][j]
               /\ \A j \in DOMAIN handlers'[r] : j \in DOMAIN handlers[r] \/ handlers'[r][j] = entry
    <2>1. handlers[r] \in Seq(H)
      BY <1>1
    <2>2. CASE r = s
      <3>1. handlers'[r] = Append(handlers[r], entry)
        BY <1>1, <1>2, <2>2
      <3>2. QED
        BY <1>1, <2>1, <3>1
    <2>3. CASE r # s
      <3>1. handlers'[r] = handlers[r]
        BY <1>1, <1>2, <2>3
      <3>2. QED
        BY <2>1, <3>1
    <2>4. QED
      BY <2>2, <2>3
  <1>5. HandlersGrow
    BY <1>4 DEF HandlersGrow
  <1>6. ASSUME NEW r \in SlotIds, NEW j \in DOMAIN handlers'[r]
        PROVE  handlers'[r][j].filter <=> handlers'[r][j].event \in PlayerWorldOnly
    <2>1. CASE j \in DOMAIN handlers[r]
      <3>1. DOMAIN handlers[r] = 1 .. Len(handlers[r])
        BY <1>1
      <3>2. handlers'[r][j] = handlers[r][j]
        BY <1>4, <2>1, <3>1
      <3>3. QED
        BY <2>1, <3>2 DEF FiltersMatch
    <2>2. QED
      BY <1>3, <1>4, <2>1
  <1>7. QED
    BY <1>5, <1>6 DEF FiltersMatch

LEMMA DispatchKeepsHandlers ==
  ASSUME Dispatch
  PROVE  UNCHANGED <<host, installed, handlers>>
  <1> USE DEF host, pool
  <1>1. CASE SkipThunk \/ LayoutFails \/ Enter \/ SkipHandler \/ CallHandler
    BY <1>1 DEF SkipThunk, LayoutFails, Enter, SkipHandler, CallHandler
  <1>2. CASE HandlerReturns \/ Finish \/ ReadBackFails \/ Abort
    BY <1>2 DEF HandlerReturns, Finish, ReadBackFails, Abort
  <1>3. QED
    BY <1>1, <1>2 DEF Dispatch

LEMMA HandlersNext ==
  ASSUME IInv, FiltersMatch, [Next]_vars
  PROVE  FiltersMatch' /\ (HandlersGrow \/ Shutdown)
  <1> USE DEF host, pool, limits, engine
  <1>1. TypeOK
    BY DEF IInv
  <1>2. ASSUME UNCHANGED handlers PROVE FiltersMatch' /\ HandlersGrow
    <2>1. \A s \in SlotIds : Len(handlers[s]) \in Nat
      BY <1>1 DEF TypeOK
    <2>2. QED
      BY <1>2, <2>1 DEF FiltersMatch, HandlersGrow
  <1>3. ASSUME NEW e \in EventNames, NEW p \in Priorities, OnEvent(e, p)
        PROVE  FiltersMatch' /\ HandlersGrow
    <2>1. CASE RefuseSlot(e, p)
      <3>1. UNCHANGED handlers
        BY <2>1 DEF RefuseSlot
      <3>2. QED
        BY <1>2, <3>1
    <2>2. CASE JoinSlot(e, p)
      BY <1>1, <2>2, RegisterGrows DEF JoinSlot
    <2>3. CASE ClaimSlot(e, p)
      BY <1>1, <2>3, RegisterGrows DEF ClaimSlot
    <2>4. QED
      BY <1>3, <2>1, <2>2, <2>3 DEF OnEvent
  <1>4. CASE Shutdown
    BY <1>4 DEF Shutdown, FiltersMatch
  <1>5. CASE Dispatch
    BY <1>2, <1>5, DispatchKeepsHandlers
  <1>6. QED
    BY <1>2, <1>3, <1>4, <1>5
       DEF Next, Lua, Engine, Host, SetModHandled, TakeHandle, Raise, EngineReturns,
           CreateWorld, PlayerMoves, LoadDone, Reopen, vars

(* What runs is not disturbed when handlers are added.                     *)
LEMMA OldOrderStays ==
  ASSUME IInv, Ordered, HandlersGrow, [Next]_vars, NEW d \in 1 .. Len(stack)
  PROVE  OrderOK(stack[d], handlers')
  <1> DEFINE f == stack[d]
  <1>1. f \in Invocation /\ WalkOK(f) /\ OrderOK(f, handlers)
    <2>1. stack \in Seq(Invocation) /\ Walks
      BY DEF IInv, TypeOK
    <2>2. QED
      BY <2>1 DEF Walks, Ordered
  <1> HIDE DEF f
  <1>2. ASSUME f.at # "engine" PROVE LoopOK(f, handlers')
    <2>1. f.slot \in SlotIds /\ f.i \in Nat /\ f.count \in Nat
      BY <1>1, <1>2 DEF WalkOK, Invocation
    <2>2. Len(handlers[f.slot]) \in Nat /\ Len(handlers'[f.slot]) \in Nat
      <3> DEFINE H == [event : EventNames, filter : BOOLEAN]
      <3>1. TypeOK /\ TypeOK'
        BY TypeNext DEF IInv
      <3>2. handlers \in [SlotIds -> Seq(H)] /\ handlers' \in [SlotIds -> Seq(H)]
        BY <3>1 DEF TypeOK
      <3> HIDE DEF H
      <3>3. handlers[f.slot] \in Seq(H) /\ handlers'[f.slot] \in Seq(H)
        BY <2>1, <3>2
      <3>4. QED
        BY <3>3
    <2>3. LoopOK(f, handlers)
      BY <1>1, <1>2 DEF OrderOK
    <2>4. f.count <= Len(handlers'[f.slot])
      BY <2>1, <2>2, <2>3 DEF LoopOK, HandlersGrow
    <2>5. \A j \in 1 .. f.count : handlers'[f.slot][j] = handlers[f.slot][j]
      BY <2>1, <2>2, <2>3 DEF LoopOK, HandlersGrow
    <2> DEFINE n == IF f.at = "lua" THEN f.i ELSE f.i - 1
    <2>6. n \in Nat /\ n <= f.count
      BY <2>1, <2>3 DEF LoopOK
    <2> HIDE DEF n
    <2>7. WantedIn(f, n, handlers') = WantedIn(f, n, handlers)
      BY <2>1, <2>5, <2>6 DEF WantedIn
    <2>8. QED
      BY <2>3, <2>4, <2>7 DEF LoopOK, n
  <1>3. QED
    BY <1>1, <1>2 DEF OrderOK, f

(* A step of the innermost invocation alone has only that one to answer    *)
(* for.                                                                    *)
LEMMA OrderOfTop ==
  ASSUME IInv, Ordered, [Next]_vars, SameBelow, handlers' = handlers, OrderOK(Top', handlers)
  PROVE  Ordered'
  <1>1. ASSUME NEW d \in 1 .. Len(stack), d # Len(stack) PROVE OrderOK(stack'[d], handlers')
    <2>1. stack'[d] = stack[d] /\ OrderOK(stack[d], handlers)
      BY <1>1 DEF SameBelow, Ordered
    <2>2. QED
      BY <2>1
  <1>2. Top' = stack'[Len(stack)] /\ Len(stack') = Len(stack)
    BY DEF SameBelow, Top
  <1>3. QED
    BY <1>1, <1>2 DEF Ordered

(* What holds of the innermost invocation before the step.                 *)
LEMMA TopOrder ==
  ASSUME IInv, Ordered, stack # <<>>
  PROVE  Top \in Invocation /\ OrderOK(Top, handlers)
  <1>1. Top \in Invocation /\ Len(stack) \in 1 .. Len(stack)
    BY TopIsTyped DEF IInv
  <1>2. QED
    BY <1>1 DEF Ordered, Top

(* The list of what ran, when the handler at i is called.                  *)
LEMMA EnumeratesMore ==
  ASSUME NEW q \in Seq(Nat), NEW i \in Nat, NEW S, \A j \in S : j \in Nat /\ j < i, Enumerates(q, S)
  PROVE  Enumerates(Append(q, i), S \cup {i})
  <1> DEFINE r == Append(q, i)
  <1>1. /\ Len(q) \in Nat /\ DOMAIN q = 1 .. Len(q) /\ DOMAIN r = 1 .. Len(q) + 1
        /\ r[Len(q) + 1] = i
        /\ \A a \in DOMAIN q : r[a] = q[a] /\ q[a] \in S
    BY DEF Enumerates
  <1> HIDE DEF r
  <1>2. {r[a] : a \in DOMAIN r} = S \cup {i}
    <2>1. ASSUME NEW a \in DOMAIN r PROVE r[a] \in S \cup {i}
      <3>1. a \in DOMAIN q \/ a = Len(q) + 1
        BY <1>1
      <3>2. QED
        BY <1>1, <3>1
    <2>2. ASSUME NEW x \in S PROVE \E a \in DOMAIN r : r[a] = x
      <3>1. PICK a \in DOMAIN q : q[a] = x
        BY DEF Enumerates
      <3>2. a \in DOMAIN r /\ r[a] = x
        BY <1>1, <3>1
      <3>3. QED
        BY <3>2
    <2>3. \E a \in DOMAIN r : r[a] = i
      BY <1>1
    <2>4. QED
      BY <2>1, <2>2, <2>3
  <1>3. ASSUME NEW a \in DOMAIN r, NEW b \in DOMAIN r, a < b PROVE r[a] < r[b]
    <2>1. a \in DOMAIN q
      BY <1>1, <1>3
    <2>2. CASE b \in DOMAIN q
      BY <1>1, <1>3, <2>1, <2>2 DEF Enumerates
    <2>3. CASE b = Len(q) + 1
      BY <1>1, <2>1, <2>3
    <2>4. QED
      BY <1>1, <2>2, <2>3
  <1>4. QED
    BY <1>2, <1>3 DEF Enumerates, r

LEMMA EnterInOrder ==
  ASSUME IInv, Ordered, Enter
  PROVE  SameBelow /\ OrderOK(Top', handlers)
  <1>1. TypeOK /\ stack # <<>> /\ Top.at = "engine" /\ Top.ran = <<>>
    BY TopOrder DEF Enter, TopIs, OrderOK, IInv
  <1>2. PICK t \in Top.todo :
          /\ SameBelow /\ Top'.at = "loop" /\ Top'.slot = t.slot /\ t.slot \in SlotIds
          /\ Top'.ran = Top.ran /\ Top'.i = 1 /\ Top'.count = Len(handlers[t.slot])
    BY <1>1, EnterEffect
  <1>3. Len(handlers[t.slot]) \in Nat
    <2> DEFINE H == [event : EventNames, filter : BOOLEAN]
    <2>1. handlers \in [SlotIds -> Seq(H)]
      BY <1>1 DEF TypeOK
    <2> HIDE DEF H
    <2>2. handlers[t.slot] \in Seq(H)
      BY <1>2, <2>1
    <2>3. QED
      BY <2>2
  <1>4. Top'.ran = <<>>
    BY <1>1, <1>2
  <1>5. WantedIn(Top', Top'.i - 1, handlers) = {}
    BY <1>2 DEF WantedIn
  <1>6. Enumerates(Top'.ran, {})
    <2>1. DOMAIN Top'.ran = {}
      BY <1>4
    <2>2. QED
      BY <2>1 DEF Enumerates
  <1>7. /\ 1 <= Top'.i /\ Top'.i <= Top'.count + 1 /\ Top'.count <= Len(handlers[Top'.slot])
    BY <1>2, <1>3
  <1>8. LoopOK(Top', handlers)
    BY <1>2, <1>5, <1>6, <1>7 DEF LoopOK
  <1>9. QED
    BY <1>2, <1>8 DEF OrderOK

(* The innermost loop, and what is wanted of its next handler.             *)
LEMMA LoopStands ==
  ASSUME IInv, OrderInv, TopIs("loop"), More(Top)
  PROVE  /\ TypeOK /\ Top \in Invocation /\ LoopOK(Top, handlers) /\ Top.i \in Nat /\ Top.count \in Nat
         /\ Enumerates(Top.ran, WantedIn(Top, Top.i - 1, handlers))
         /\ Top.i <= Top.count
         /\ WantedIn(Top, Top.i, handlers) =
              WantedIn(Top, Top.i - 1, handlers) \cup (IF Filtered(Top) THEN {} ELSE {Top.i})
  <1>1. TypeOK /\ stack # <<>> /\ Top \in Invocation /\ OrderOK(Top, handlers) /\ Top.at = "loop"
    BY TopOrder DEF IInv, OrderInv, TopIs
  <1>2. Top.slot \in SlotIds
    BY <1>1, TopWalks
  <1>3. Top.i \in Nat /\ Top.count \in Nat /\ LoopOK(Top, handlers)
    BY <1>1 DEF Invocation, OrderOK
  <1>4. Top.i <= Top.count /\ Enumerates(Top.ran, WantedIn(Top, Top.i - 1, handlers))
    BY <1>1, <1>3 DEF LoopOK, More
  <1>5. Top.i \in DOMAIN handlers[Top.slot]
    <2>1. handlers[Top.slot] \in Seq([event : EventNames, filter : BOOLEAN])
      BY <1>1, <1>2 DEF TypeOK
    <2>2. QED
      BY <1>3, <1>4, <2>1 DEF LoopOK
  <1>6. handlers[Top.slot][Top.i].filter <=> handlers[Top.slot][Top.i].event \in PlayerWorldOnly
    BY <1>2, <1>5 DEF OrderInv, FiltersMatch
  <1>7. 1 .. Top.i = (1 .. Top.i - 1) \cup {Top.i}
    BY <1>3 DEF LoopOK
  <1>8. Filtered(Top) <=> ~(handlers[Top.slot][Top.i].event \in PlayerWorldOnly => Top.isPlayerWorld)
    BY <1>6 DEF Filtered
  <1>9. WantedIn(Top, Top.i, handlers) =
              WantedIn(Top, Top.i - 1, handlers) \cup (IF Filtered(Top) THEN {} ELSE {Top.i})
    BY <1>7, <1>8 DEF WantedIn
  <1>10. QED
    BY <1>1, <1>3, <1>4, <1>9

LEMMA SkipHandlerInOrder ==
  ASSUME IInv, OrderInv, SkipHandler
  PROVE  SameBelow /\ OrderOK(Top', handlers)
  <1>1. TopIs("loop") /\ More(Top) /\ Filtered(Top)
    BY DEF SkipHandler
  <1>2. /\ TypeOK /\ LoopOK(Top, handlers) /\ Top.i \in Nat /\ Top.count \in Nat
        /\ Enumerates(Top.ran, WantedIn(Top, Top.i, handlers)) /\ Top.i <= Top.count
    BY <1>1, LoopStands
  <1>3. /\ SameBelow /\ Top'.at = "loop" /\ Top'.i = Top.i + 1 /\ Top'.slot = Top.slot
        /\ Top'.ran = Top.ran /\ Top'.count = Top.count
        /\ Top'.isPlayerWorld = Top.isPlayerWorld
    BY <1>2, SkipHandlerEffect
  <1>4. Top'.i - 1 = Top.i
    BY <1>2, <1>3
  <1>5. WantedIn(Top', Top'.i - 1, handlers) = WantedIn(Top, Top.i, handlers)
    BY <1>3, <1>4 DEF WantedIn
  <1>6. LoopOK(Top', handlers)
    BY <1>2, <1>3, <1>5 DEF LoopOK
  <1>7. QED
    BY <1>3, <1>6 DEF OrderOK

LEMMA CallHandlerInOrder ==
  ASSUME IInv, OrderInv, CallHandler
  PROVE  SameBelow /\ OrderOK(Top', handlers)
  <1>1. TopIs("loop") /\ More(Top) /\ ~Filtered(Top)
    BY DEF CallHandler
  <1>2. /\ TypeOK /\ Top \in Invocation /\ LoopOK(Top, handlers)
        /\ Top.i \in Nat /\ Top.count \in Nat
        /\ Enumerates(Top.ran, WantedIn(Top, Top.i - 1, handlers)) /\ Top.i <= Top.count
        /\ WantedIn(Top, Top.i, handlers) = WantedIn(Top, Top.i - 1, handlers) \cup {Top.i}
    BY <1>1, LoopStands
  <1>3. /\ SameBelow /\ Top'.at = "lua" /\ Top'.i = Top.i /\ Top'.slot = Top.slot
        /\ Top'.ran = Append(Top.ran, Top.i) /\ Top'.count = Top.count
        /\ Top'.isPlayerWorld = Top.isPlayerWorld
    BY <1>2, CallHandlerEffect
  <1>4. Top.ran \in Seq(Nat)
    BY <1>2 DEF Invocation
  <1>5. Enumerates(Append(Top.ran, Top.i), WantedIn(Top, Top.i, handlers))
    <2>1. \A j \in WantedIn(Top, Top.i - 1, handlers) : j \in Nat /\ j < Top.i
      BY <1>2 DEF WantedIn
    <2>2. QED
      BY <1>2, <1>4, <2>1, EnumeratesMore
  <1>6. WantedIn(Top', Top'.i, handlers) = WantedIn(Top, Top.i, handlers)
    BY <1>3 DEF WantedIn
  <1>7. LoopOK(Top', handlers)
    BY <1>2, <1>3, <1>5, <1>6 DEF LoopOK
  <1>8. QED
    BY <1>3, <1>7 DEF OrderOK

LEMMA HandlerReturnsInOrder ==
  ASSUME IInv, Ordered, HandlerReturns
  PROVE  SameBelow /\ OrderOK(Top', handlers)
  <1>1. TypeOK /\ Top \in Invocation /\ Top.at = "lua" /\ LoopOK(Top, handlers)
    BY TopOrder DEF HandlerReturns, TopIs, IInv, OrderOK
  <1>2. /\ SameBelow /\ Top'.at = "loop" /\ Top'.i = Top.i + 1 /\ Top'.slot = Top.slot
        /\ Top'.ran = Top.ran /\ Top'.count = Top.count
        /\ Top'.isPlayerWorld = Top.isPlayerWorld
    BY <1>1, HandlerReturnsEffect
  <1>3. Top.i \in Nat /\ Top.count \in Nat
    BY <1>1 DEF Invocation
  <1>4. Top'.i - 1 = Top.i
    BY <1>2, <1>3
  <1>5. WantedIn(Top', Top'.i - 1, handlers) = WantedIn(Top, Top.i, handlers)
    BY <1>2, <1>4 DEF WantedIn
  <1>6. LoopOK(Top', handlers)
    BY <1>1, <1>2, <1>3, <1>5 DEF LoopOK
  <1>7. QED
    BY <1>2, <1>6 DEF OrderOK

LEMMA SetModHandledInOrder ==
  ASSUME IInv, Ordered, NEW b \in BOOLEAN, SetModHandled(b)
  PROVE  SameBelow /\ OrderOK(Top', handlers)
  <1>1. TypeOK /\ Top.at = "lua" /\ LoopOK(Top, handlers)
    BY TopOrder DEF SetModHandled, TopIs, IInv, OrderOK
  <1>2. /\ SameBelow /\ Top'.at = "lua" /\ Top'.i = Top.i /\ Top'.slot = Top.slot
        /\ Top'.ran = Top.ran /\ Top'.count = Top.count
        /\ Top'.isPlayerWorld = Top.isPlayerWorld
    BY <1>1, SetModHandledEffect
  <1>3. WantedIn(Top', Top'.i, handlers) = WantedIn(Top, Top.i, handlers)
    BY <1>2 DEF WantedIn
  <1>4. LoopOK(Top', handlers)
    BY <1>1, <1>2, <1>3 DEF LoopOK
  <1>5. QED
    BY <1>2, <1>4 DEF OrderOK

(* The engine's own steps leave an invocation that ran nothing.            *)
LEMMA EngineStepInOrder ==
  ASSUME IInv, Ordered, SkipThunk \/ LayoutFails \/ Finish \/ ReadBackFails \/ Abort
  PROVE  SameBelow /\ OrderOK(Top', handlers)
  <1>1. TypeOK
    BY DEF IInv
  <1>2. CASE SkipThunk
    <2>1. SameBelow /\ Top.at = "engine" /\ Top'.at = "engine" /\ Top'.ran = Top.ran
      BY <1>1, <1>2, SkipThunkEffect
    <2>2. Top.ran = <<>>
      BY <2>1, TopOrder DEF SameBelow, OrderOK
    <2>3. QED
      BY <2>1, <2>2 DEF OrderOK
  <1>3. CASE LayoutFails
    BY <1>1, <1>3, LayoutFailsEffect DEF OrderOK
  <1>4. CASE Finish \/ ReadBackFails \/ Abort
    BY <1>1, <1>4, FinishEffect, AbortEffect DEF OrderOK
  <1>5. QED
    BY <1>2, <1>3, <1>4

LEMMA OrderInit == Init => OrderInv
  <1> SUFFICES ASSUME Init PROVE OrderInv
    OBVIOUS
  <1>1. Len(stack) = 0 /\ \A s \in SlotIds : handlers[s] = <<>> /\ DOMAIN handlers[s] = {}
    BY DEF Init
  <1>2. QED
    BY <1>1 DEF OrderInv, FiltersMatch, Ordered

LEMMA OrderNext ==
  ASSUME IInv, OrderInv, [Next]_vars
  PROVE  OrderInv'
  <1> USE DEF host, pool, limits, engine
  <1>1. TypeOK /\ Ordered /\ FiltersMatch
    BY DEF IInv, OrderInv
  <1>2. FiltersMatch' /\ (HandlersGrow \/ Shutdown)
    BY <1>1, HandlersNext
  <1>3. ASSUME HandlersGrow, UNCHANGED stack PROVE Ordered'
    BY <1>1, <1>3, OldOrderStays DEF Ordered
  <1>4. ASSUME SameBelow, OrderOK(Top', handlers), handlers' = handlers PROVE Ordered'
    BY <1>1, <1>4, OrderOfTop
  <1>5. ASSUME Dispatch PROVE Ordered'
    <2>1. handlers' = handlers
      BY <1>5, DispatchKeepsHandlers
    <2>2. SameBelow /\ OrderOK(Top', handlers)
      BY <1>1, <1>5, EngineStepInOrder, EnterInOrder, SkipHandlerInOrder, CallHandlerInOrder,
         HandlerReturnsInOrder DEF Dispatch
    <2>3. QED
      BY <1>1, <2>1, <2>2, OrderOfTop
  <1>6. ASSUME NEW e \in EventNames, NEW p \in Priorities, OnEvent(e, p)
        PROVE  Ordered'
    <2>1. luaOpen /\ UNCHANGED <<stack, luaOpen>>
      BY <1>6 DEF OnEvent, LuaRuns
    <2>2. ~Shutdown
      BY <2>1 DEF Shutdown, EventsShutdown
    <2>3. QED
      BY <1>2, <1>3, <2>1, <2>2
  <1>7. ASSUME NEW b \in BOOLEAN, SetModHandled(b) PROVE Ordered'
    <2>1. handlers' = handlers
      BY <1>7 DEF SetModHandled
    <2>2. QED
      BY <1>1, <1>4, <1>7, <2>1, SetModHandledInOrder
  <1>8. ASSUME UNCHANGED <<stack, handlers>> PROVE Ordered'
    BY <1>1, <1>8 DEF Ordered
  <1>9. ASSUME NEW h \in Hooks, NEW w \in Worlds, NEW m \in BOOLEAN, Raise(h, w, m)
        PROVE  Ordered'
    <2> DEFINE f == NewInvocation(h, w, m)
    <2>1. handlers' = handlers
      BY <1>9 DEF Raise
    <2>2. /\ Len(stack') = Len(stack) + 1 /\ Len(stack) \in Nat
          /\ \A d \in 1 .. Len(stack') : stack'[d] = IF d = Len(stack') THEN f ELSE stack[d]
      BY <1>1, <1>9, RaisedEffect
    <2>3. f.at = "engine" /\ f.ran = <<>>
      BY DEF NewInvocation
    <2> HIDE DEF f
    <2>4. OrderOK(f, handlers)
      BY <2>3 DEF OrderOK
    <2>5. QED
      BY <1>1, <2>1, <2>2, <2>4 DEF Ordered
  <1>10. ASSUME EngineReturns PROVE Ordered'
    <2>1. /\ Len(stack') = Len(stack) - 1 /\ Len(stack) \in Nat \ {0}
          /\ \A d \in 1 .. Len(stack') : stack'[d] = stack[d]
      BY <1>1, <1>10, ReturnEffect DEF EngineReturns, TopIs, TypeOK
    <2>2. handlers' = handlers
      BY <1>10 DEF EngineReturns
    <2>3. ASSUME NEW d \in 1 .. Len(stack') PROVE OrderOK(stack'[d], handlers')
      <3>1. d \in 1 .. Len(stack) /\ stack'[d] = stack[d]
        BY <2>1
      <3>2. OrderOK(stack[d], handlers)
        BY <1>1, <3>1 DEF Ordered
      <3>3. QED
        BY <2>2, <3>1, <3>2
    <2>4. QED
      BY <2>3 DEF Ordered
  <1>11. ASSUME Shutdown PROVE Ordered'
    <2>1. Len(stack) = 1 /\ stack[1].at = "engine" /\ stack' = stack
      BY <1>11, ShutdownIsOutermost
    <2>2. OrderOK(stack[1], handlers)
      <3>1. 1 \in 1 .. Len(stack)
        BY <2>1
      <3>2. QED
        BY <1>1, <3>1 DEF Ordered
    <2>3. OrderOK(stack[1], handlers')
      BY <2>1, <2>2 DEF OrderOK
    <2>4. ASSUME NEW d \in 1 .. Len(stack') PROVE OrderOK(stack'[d], handlers')
      <3>1. Len(stack') = 1 /\ d \in Int /\ 1 <= d /\ d <= Len(stack')
        BY <2>1
      <3>2. d = 1
        BY <3>1
      <3>3. stack'[d] = stack[1]
        BY <2>1, <3>2
      <3>4. QED
        BY <2>3, <3>3
    <2>5. QED
      BY <2>4 DEF Ordered
  <1>12. Ordered'
    BY <1>5, <1>6, <1>7, <1>8, <1>9, <1>10, <1>11
       DEF Next, Lua, Engine, Host, TakeHandle, CreateWorld, PlayerMoves, LoadDone, Reopen, vars
  <1>13. QED
    BY <1>2, <1>12 DEF OrderInv

(* Handlers carry the filter of their own name, and every loop has called  *)
(* the wanted handlers so far.                                             *)
THEOREM OrderInvariant == Spec => []OrderInv
  BY OrderInit, OrderNext, EventsInvariant, PTL DEF Spec

(* In every dispatch, nested ones included, each wanted handler is called  *)
(* once and in the order of registration.                                  *)
THEOREM HandlersInOrder == Spec => []HandlersRunOnceInOrder
  <1>1. OrderInv => HandlersRunOnceInOrder
    BY DEF OrderInv, Ordered, OrderOK, LoopOK, WantedIn, WantedUpTo, HandlersRunOnceInOrder
  <1>2. QED
    BY <1>1, OrderInvariant, PTL

(* A dispatch that was not aborted has called every wanted handler that    *)
(* was there when it began.                                                *)
THEOREM NoHandlerIsLeftOut == Spec => EveryHandlerHasItsTurn
  <1>1. ASSUME IInv, OrderInv, [Next]_vars, TopIs("loop"), Len(stack') = Len(stack),
               stack'[Len(stack)].at = "engine", ~stack'[Len(stack)].aborted
        PROVE  Enumerates(Top.ran, WantedUpTo(Top, Top.count))
    <2>1. TypeOK /\ stack # <<>> /\ Top.at = "loop" /\ stack[Len(stack)].at = "loop"
      BY <1>1 DEF IInv, TopIs, Top
    <2>2. Top \in Invocation /\ OrderOK(Top, handlers)
      BY <1>1, <2>1, TopOrder DEF OrderInv
    <2>3. Top'.at = "engine" /\ ~Top'.aborted
      BY <1>1 DEF Top
    <2>4. ~Abort
      BY <2>1, <2>3, AbortEffect
    <2>5. Finish \/ ReadBackFails
      <3>1. stack' # stack
        BY <1>1, <2>1
      <3>2. ~SkipHandler /\ ~CallHandler
        BY <2>1, <2>3, SkipHandlerEffect, CallHandlerEffect
      <3>3. \A h \in Hooks, w \in Worlds, m \in BOOLEAN : ~Raise(h, w, m)
        BY <2>1 DEF Raise, TopIs
      <3>4. ~SkipThunk /\ ~LayoutFails /\ ~Enter /\ ~HandlerReturns
        BY <2>1 DEF SkipThunk, LayoutFails, Enter, HandlerReturns, TopIs
      <3>5. QED
        BY <1>1, <2>1, <2>4, <3>1, <3>2, <3>3, <3>4
           DEF Next, Dispatch, Lua, Engine, Host, OnEvent, SetModHandled, TakeHandle,
               EngineReturns, CreateWorld, PlayerMoves, LoadDone, Shutdown, Reopen, TopIs, vars
    <2>6. Top.i \in Nat /\ Top.count \in Nat /\ LoopOK(Top, handlers) /\ ~More(Top)
      BY <2>1, <2>2, <2>5 DEF Finish, ReadBackFails, Invocation, OrderOK
    <2>7. Top.i - 1 = Top.count
      BY <2>6 DEF LoopOK, More
    <2>8. QED
      BY <2>1, <2>6, <2>7 DEF LoopOK, WantedIn, WantedUpTo
  <1>2. IInv /\ OrderInv /\ [Next]_vars =>
          [TopIs("loop") /\ Len(stack') = Len(stack)
             /\ stack'[Len(stack)].at = "engine" /\ ~stack'[Len(stack)].aborted
             => Enumerates(Top.ran, WantedUpTo(Top, Top.count))]_vars
    BY <1>1
  <1>3. QED
    BY <1>2, EventsInvariant, OrderInvariant, PTL DEF Spec, EveryHandlerHasItsTurn
=============================================================================
