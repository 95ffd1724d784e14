----------------------------- MODULE MCEventCtx -----------------------------
(* An instance of EventCtx for TLC: the rows and the bit array do not      *)
(* affect each other, so that each is checked while the other rests.       *)
EXTENDS EventCtx, TLC

MCNumbers == (Lo - 1) .. (Hi + 1)
TwoRows == Permutations(Rows)

(* Any rows; an event without a bit array has a null one.                  *)
RowsOnly == array.ptr = "null"
(* Any array, next to a row that rests.                                    *)
BitsOnly == ~RowsOnly

MCInit ==
  /\ Init
  /\ RowsOnly => \A i \in DOMAIN array.word : array.word[i] = 0
  /\ BitsOnly => \A r \in Rows : ctx[r] = [kind |-> "value", ptr |-> "good", val |-> Lo]
  /\ touchKnown \/ (\E r \in Rows : KindOf(r) = "touch")

MCNext ==
  /\ Next
  /\ RowsOnly => dispatches' <= 1 /\ steps' <= 2
  /\ phase' = phase => IF RowsOnly THEN UNCHANGED field ELSE UNCHANGED <<ctx, event, epoch>>

MCSpec == MCInit /\ [][MCNext]_vars
=============================================================================
