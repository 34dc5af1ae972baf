-------------------------- MODULE ReservationHistory --------------------------
(***************************************************************************)
(* Reservation with a history variable: the statuses each booking has ever *)
(* had.  It observes the rows and constrains nothing.                      *)
(***************************************************************************)
EXTENDS ReservationProperties

VARIABLE held

historyVars == <<vars, held>>

HistoryTypeOK == TypeOK /\ held \in [Bookings -> SUBSET Statuses]

HistoryInit == Init /\ held = [b \in Bookings |-> {}]

HistoryNext ==
    /\ Next
    /\ held' = [b \in Bookings |-> held[b] \union ({status'[b]} \ {"absent"})]

HistorySpec == HistoryInit /\ [][HistoryNext]_historyVars

HistoryFairSpec == HistorySpec /\ Fairness

\* No booking skips a stage: whatever stale status a request acted on, each
\* status a booking has ever had, "pending" apart, is one CanTransitionTo
\* allows from another status that the same booking has had.
NoStageSkipped ==
    \A b \in Bookings : \A st \in held[b] \ {"pending"} :
        \E before \in held[b] : CanTransitionTo(before, st)

\* Nothing is announced that did not happen: a booking that an event calls
\* confirmed, or cancelled, has had that status in its row - whichever step of
\* ConfirmBooking or CancelBooking failed, timed out or was abandoned.
AnnouncedHappened ==
    \A b \in Bookings, k \in EventKinds : <<k, b>> \in events => Target(k) \in held[b]

Stages == INSTANCE BookingStages

\* What payment-service relies on: booking-service implements BookingStages,
\* the environment of Payment, with all its caches, races and faults.
StagesSpec == Stages!StagesSpec
=============================================================================
