------------------------ MODULE ReservationProperties ------------------------
(***************************************************************************)
(* What is claimed of Reservation: the properties its runs check and, in   *)
(* ReservationProofs, its theorems state.                                  *)
(***************************************************************************)
EXTENDS Reservation

-----------------------------------------------------------------------------
(* Under any interleaving and any fault.                                   *)

\* Two live bookings never hold one spot at one instant, though the conflict
\* SELECT of repo.Create can be overtaken between its answer and the INSERT,
\* and though UpdateStatus can bring a cancelled booking back to life.
NoDoubleBooking ==
    \A b, c \in Bookings :
        b # c /\ Live(b) /\ Live(c) /\ spotOf[b] = spotOf[c]
            => ~Overlaps(slotOf[b], slotOf[c])

\* Request r answers for a reservation of spot s: it has one that no row
\* claims yet, or it has one to give back.
AnswersFor(r, s) ==
    \/ req[r].spot = s /\ req[r].pc \in {"checking", "inserting"}
    \/ req[r].spot = s /\ req[r].op \in {"cancel", "complete"}
                       /\ req[r].pc \in {"invalidating", "caching"}
    \/ call[r].spot = s /\ call[r].op = "reserve" /\ call[r].phase = "ok"
    \/ call[r].spot = s /\ call[r].op = "release" /\ call[r].phase \in {"sent", "write"}

\* A RESERVED spot is never orphaned by an interleaving alone: a live booking
\* has it, or a request answers for it, or a fault (or an operator) struck
\* that very spot.
ReservedHasHolder ==
    \A s \in Spots : spot[s] = "RESERVED" =>
        \/ \E b \in Bookings : Live(b) /\ spotOf[b] = s
        \/ \E r \in Requests : AnswersFor(r, s)
        \/ s \in excused

\* The claims of the live bookings, as SpotCalendar sees them.
LiveClaims ==
    {[booking |-> b, spot |-> spotOf[b], slot |-> slotOf[b]] : b \in {c \in Bookings : Live(c)}}

Calendar == INSTANCE SpotCalendar WITH claims <- LiveClaims

\* The services implement the calendar: every claim is entered by a step that
\* finds it free of clashes.
CalendarSpec == Calendar!CalendarSpec

-----------------------------------------------------------------------------
(* One request at a time, without faults.                                  *)

AtRest == \A r \in Requests : Free(r)

\* Booking b has spot s, and its status is one of those.
HasSpot(b, s, statuses) == status[b] \in statuses /\ spotOf[b] = s

\* Between requests the status of a spot tells which bookings it has, and the
\* bookings tell the status: it is RESERVED exactly when a booking that has
\* not begun has it; that of an active booking is OCCUPIED, and a spot is
\* OCCUPIED only because of a booking that has begun, over or not (see
\* SpotFreedAfterwards); an AVAILABLE one has no live booking.
SpotTellsBooking ==
    AtRest => \A s \in Spots :
        /\ spot[s] = "RESERVED" <=> \E b \in Bookings : HasSpot(b, s, {"pending", "confirmed"})
        /\ (\E b \in Bookings : HasSpot(b, s, {"active"})) => spot[s] = "OCCUPIED"
        /\ spot[s] = "OCCUPIED" => \E b \in Bookings : HasSpot(b, s, {"active", "completed"})

\* Between requests a cached booking has the status of its row.
CacheCoherent ==
    AtRest => \A b \in Bookings : cache[b] \in {"none", status[b]}

\* Creation r has reserved spot s and its row is not there.
Unclaimed(r, s) ==
    /\ req[r].spot = s /\ req[r].op = "create"
    /\ \/ req[r].pc = "reserving" /\ call[r].phase = "ok"
       \/ req[r].pc \in {"checking", "inserting"}
       \/ req[r].pc = "undoing" /\ call[r].phase \in {"sent", "write"}

\* The row of r's operation op is written, its effect on spot s is to come.
Owing(r, op, s) ==
    /\ req[r].spot = s /\ req[r].op = op
    /\ \/ req[r].pc \in {"invalidating", "caching"}
       \/ req[r].pc = "calling" /\ call[r].phase \in {"sent", "write"}

\* The status a clerk would see on the board: the effect a request has still
\* to have on its spot is anticipated after its row is written, and the
\* reservation of a creation does not count until its row is there.
DeskSpot(s) ==
    CASE \E r \in Requests : Unclaimed(r, s) -> "AVAILABLE"
      [] \E r \in Requests : Owing(r, "start", s) -> Occupied
      [] (\E r \in Requests : Owing(r, "cancel", s) \/ Owing(r, "complete", s))
            /\ spot[s] = "RESERVED" -> "AVAILABLE"
      [] OTHER -> spot[s]

Desk == INSTANCE BookingDesk WITH spot <- [s \in Spots |-> DeskSpot(s)]

\* One request at a time, the many steps of an operation on Redis, PostgreSQL
\* and parking-service amount to the single step of the desk.
DeskSpec == Desk!DeskSpec

-----------------------------------------------------------------------------
(* Liveness, under the fairness of the schedulers.                         *)

\* A reservation comes to something: from a RESERVED spot without a live
\* booking, either a booking gets it or it is given back - whatever the
\* conflict check, the constraint and the other requests decide - unless a
\* fault struck the spot.
ReservationSettles ==
    \A s \in Spots :
        spot[s] = "RESERVED" /\ ~(\E b \in Bookings : Live(b) /\ spotOf[b] = s)
            ~> \/ spot[s] # "RESERVED"
               \/ \E b \in Bookings : Live(b) /\ spotOf[b] = s
               \/ s \in excused

\* A confirmed or cancelled booking is announced, when no fault intervenes.
DecisionAnnounced ==
    \A b \in Bookings, k \in EventKinds :
        status[b] = Target(k) ~> <<k, b>> \in events \/ faults > 0

-----------------------------------------------------------------------------
(* What the repository says of the program and the program does not do.    *)

\* booking_test.go, the table of TestBookingCanTransitionTo: a booking only
\* moves along the arrows of CanTransitionTo.
MovesAlongArrows ==
    [][\A b \in Bookings :
         status[b] # "absent" /\ status'[b] # status[b]
            => CanTransitionTo(status[b], status'[b])]_status

\* CompleteBooking asks for the release of its spot, and the ReleaseSpot of
\* fakeParkingLookup in booking_service_test.go grants it: the spot of a
\* booking that is over is free again.
SpotFreedAfterwards ==
    AtRest => \A s \in Spots :
        ~(\E b \in Bookings : Live(b) /\ spotOf[b] = s) => spot[s] = "AVAILABLE"
=============================================================================
