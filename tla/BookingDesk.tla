----------------------------- MODULE BookingDesk -----------------------------
(***************************************************************************)
(* The booking system as one clerk at a desk would run it: each operation  *)
(* of BookingService is a single step on the bookings and on the spots.    *)
(* One request of the services at a time implements this specification     *)
(* (DeskSpec in ReservationProperties).                                    *)
(***************************************************************************)
EXTENDS BookingStatus

CONSTANTS Bookings, Spots, Slots, NoSpot, NoSlot, MaxTime

VARIABLES status, spotOf, slotOf, spot, now

deskVars == <<status, spotOf, slotOf, spot, now>>

DeskInit ==
    /\ status = [b \in Bookings |-> "absent"]
    /\ spotOf = [b \in Bookings |-> NoSpot]
    /\ slotOf = [b \in Bookings |-> NoSlot]
    /\ spot = [s \in Spots |-> "AVAILABLE"]
    /\ now = 0

\* A spot is given out only while it is AVAILABLE, and is RESERVED with the
\* booking's row.
Book(b, s, i) ==
    /\ status[b] = "absent" /\ spot[s] = "AVAILABLE"
    /\ status' = [status EXCEPT ![b] = "pending"]
    /\ spotOf' = [spotOf EXCEPT ![b] = s]
    /\ slotOf' = [slotOf EXCEPT ![b] = i]
    /\ spot' = [spot EXCEPT ![s] = "RESERVED"]
    /\ UNCHANGED now

Move(b, to) ==
    /\ CanTransitionTo(status[b], to)
    /\ status' = [status EXCEPT ![b] = to]
    /\ UNCHANGED <<spotOf, slotOf, now>>

Confirm(b) == Move(b, "confirmed") /\ UNCHANGED spot

\* A spot is given back only from RESERVED.
Freed(st) == IF st = "RESERVED" THEN "AVAILABLE" ELSE st

Cancel(b) ==
    /\ Move(b, "cancelled")
    /\ spot' = [spot EXCEPT ![spotOf[b]] = Freed(@)]

Start(b) ==
    /\ Move(b, "active") /\ now >= slotOf[b][1]
    /\ spot' = [spot EXCEPT ![spotOf[b]] = "OCCUPIED"]

\* The spot of an active booking is OCCUPIED, so that completing the booking
\* does not give it back.
Complete(b) ==
    /\ Move(b, "completed")
    /\ spot' = [spot EXCEPT ![spotOf[b]] = Freed(@)]

Pass == now < MaxTime /\ now' = now + 1 /\ UNCHANGED <<status, spotOf, slotOf, spot>>

DeskNext ==
    \/ \E b \in Bookings :
         \/ \E s \in Spots, i \in Slots : Book(b, s, i)
         \/ Confirm(b) \/ Cancel(b) \/ Start(b) \/ Complete(b)
    \/ Pass

DeskSpec == DeskInit /\ [][DeskNext]_deskVars
=============================================================================
