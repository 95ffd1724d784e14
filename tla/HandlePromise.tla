--------------------------- MODULE HandlePromise ---------------------------
(***************************************************************************)
(* What handle.hpp promises a mod, without slots, free lists or indices: a *)
(* handle is a ticket that is issued once, for one object, and names that  *)
(* object until everything is invalidated; then it is dead for good.       *)
(***************************************************************************)
CONSTANTS Tickets, Objects,
          Unused, Dead      \* two values that are no object

VARIABLE names      \* what each ticket names: an object, or Unused, or Dead

Init == names = [k \in Tickets |-> Unused]

(* The second conjunct follows from the third: it spares TLC the update of *)
(* every ticket but the one that is issued.                                *)
Issue(k, o) ==
  /\ names[k] = Unused
  /\ names'[k] = o
  /\ names' = [names EXCEPT ![k] = o]

InvalidateAll ==
  names' = [k \in Tickets |-> IF names[k] = Unused THEN Unused ELSE Dead]

Next == \/ \E k \in Tickets, o \in Objects : Issue(k, o)
        \/ InvalidateAll

Spec == Init /\ [][Next]_names
=============================================================================
