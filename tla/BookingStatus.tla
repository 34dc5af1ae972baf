---------------------------- MODULE BookingStatus ----------------------------
(***************************************************************************)
(* The pure part of booking-service: the booking statuses, the arrows      *)
(* between them and the overlap test on booking intervals                  *)
(* (internal/domain/booking.go and the two SQL predicates of               *)
(* internal/repository and postgres/init.sql).                             *)
(***************************************************************************)
EXTENDS Integers

Statuses == {"pending", "confirmed", "active", "completed", "cancelled"}

\* The statuses under which a booking claims its spot: the ones the conflict
\* query and the exclusion constraint range over.
LiveStatuses == {"pending", "confirmed", "active"}

\* Booking.CanTransitionTo.
CanTransitionTo(from, to) ==
    \/ from = "pending" /\ to \in {"confirmed", "cancelled"}
    \/ from = "confirmed" /\ to \in {"active", "cancelled"}
    \/ from = "active" /\ to = "completed"

-----------------------------------------------------------------------------
\* A booking interval <<start, end>> covers the instants start .. end - 1;
\* CreateInput.Validate rejects the empty ones.
Intervals == {i \in Nat \X Nat : i[1] < i[2]}

\* Faulty variant: the interval's end compared with the wrong bound, so that
\* only an interval starting inside the other is seen to overlap it.
OverlapsOneSided(i, j) == i[1] < j[2] /\ j[1] <= i[1]

\* NOT ($3 <= start_time OR $2 >= end_time), which on the half-open ranges of
\* the exclusion constraint is the operator &&.
Overlaps(i, j) == ~(i[2] <= j[1] \/ i[1] >= j[2])
=============================================================================
