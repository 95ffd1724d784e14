----------------------- MODULE HandleTableRefinement -----------------------
(***************************************************************************)
(* The table keeps the promise of HandlePromise, as long as no generation  *)
(* wraps more often than the laps of the tickets count.  A ticket is a     *)
(* slot with a generation and the lap it belongs to; the slot's present    *)
(* generation is the one ticket that can be alive, the earlier ones are    *)
(* dead and the later ones still to be issued.                             *)
(***************************************************************************)
EXTENDS HandleTable

Ticket == [slot : SlotIds, lap : 0 .. MaxLap, generation : Generations]

CONSTANTS UnusedTicket, DeadTicket

ASSUME TicketAssumption ==
  /\ UnusedTicket \notin Ptrs \X Types
  /\ DeadTicket \notin Ptrs \X Types
  /\ UnusedTicket # DeadTicket

Past(k) ==
  \/ k.lap < lap[k.slot]
  \/ k.lap = lap[k.slot] /\ k.generation < slots[k.slot].generation

Present(k) == k.lap = lap[k.slot] /\ k.generation = slots[k.slot].generation

(* invalidate_all takes effect when it begins: no Lua code can tell a slot *)
(* the loop has not reached yet from one it has retired.                   *)
NamedBy(k) ==
  IF Past(k) THEN DeadTicket
  ELSE IF ~Present(k) \/ ~slots[k.slot].live THEN UnusedTicket
  ELSE IF sweep # Idle THEN DeadTicket
  ELSE <<slots[k.slot].ptr, slots[k.slot].typeId>>

Promise == INSTANCE HandlePromise WITH
             Tickets <- Ticket, Objects <- Ptrs \X Types,
             Unused <- UnusedTicket, Dead <- DeadTicket,
             names <- [k \in Ticket |-> NamedBy(k)]

(* The handle table implements HandlePromise.                              *)
KeepsPromise == Promise!Spec
=============================================================================
