----------------------------- MODULE BookingStages -----------------------------
(***************************************************************************)
(* What the other services may rely on of a booking: the stages it goes    *)
(* through.  "held" is the set of statuses a booking has had.  Redis may   *)
(* go on serving any of them (FillCache of Reservation can store a row     *)
(* read long before), and a transition may be judged on any of them, so a  *)
(* booking can come back from "cancelled" - but it never gets a status     *)
(* that CanTransitionTo does not allow from one it has had.                *)
(***************************************************************************)
EXTENDS BookingStatus

CONSTANTS Bookings

VARIABLES status, held

stageVars == <<status, held>>

StagesTypeOK ==
    /\ status \in [Bookings -> Statuses \union {"absent"}]
    /\ held \in [Bookings -> SUBSET Statuses]

StagesInit ==
    /\ status = [b \in Bookings |-> "absent"]
    /\ held = [b \in Bookings |-> {}]

Enter(b, st) ==
    /\ status' = [status EXCEPT ![b] = st]
    /\ held' = [held EXCEPT ![b] = @ \union {st}]

Appear(b) == status[b] = "absent" /\ Enter(b, "pending")

\* A transition that was judged on some status the booking has had.
MayMove(b, to) == \E before \in held[b] : CanTransitionTo(before, to)

Move(b, to) == MayMove(b, to) /\ Enter(b, to)

StagesNext == \E b \in Bookings : Appear(b) \/ \E to \in Statuses : Move(b, to)

StagesSpec == StagesInit /\ [][StagesNext]_stageVars
=============================================================================
