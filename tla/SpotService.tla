----------------------------- MODULE SpotService -----------------------------
(***************************************************************************)
(* parking-service, as far as bookings see it: one status per spot and the *)
(* calls that booking-service posts to /spots/:id/{reserve,release,status}.*)
(*                                                                         *)
(* A call is served by a goroutine of parking-service that does not share  *)
(* the caller's context, so it runs to its end even when the caller has    *)
(* given up waiting.  ReserveSpot and ReleaseSpot read the row and then    *)
(* write it with an unconditional UPDATE: two steps, and any other call    *)
(* may run between them.                                                   *)
(***************************************************************************)
CONSTANTS
    Requests,         \* the callers; each has at most one call outstanding
    Spots,            \* spot ids
    NoSpot,           \* "no spot", not a spot id
    OperatorStatuses  \* what an operator may PATCH a spot to, with "deleted"
                      \* standing for DELETE /spots/:id

SpotStatuses == {"AVAILABLE", "RESERVED", "OCCUPIED", "MAINTENANCE"}

ASSUME SpotAssumption ==
    /\ NoSpot \notin Spots
    /\ OperatorStatuses \subseteq SpotStatuses \union {"deleted"}

VARIABLES
    spot,   \* the status column of each spot row, "deleted" once it is gone
    call    \* the outstanding call of each caller

spotVars == <<spot, call>>

-----------------------------------------------------------------------------
CallOps == {"reserve", "release", "status"}

(* "sent": on its way; "write": the guard passed, the UPDATE is next;       *)
(* "ok", "failed": the reply is on its way back.                            *)
CallPhases == {"sent", "write", "ok", "failed"}

NoCall == [op |-> "none", spot |-> NoSpot, phase |-> "none"]

Calls == {NoCall} \union [op : CallOps, spot : Spots, phase : CallPhases]

SpotTypeOK ==
    /\ spot \in [Spots -> SpotStatuses \union {"deleted"}]
    /\ call \in [Requests -> Calls]

SpotInit ==
    /\ spot = [s \in Spots |-> "AVAILABLE"]
    /\ call = [r \in Requests |-> NoCall]

\* A caller posts an operation on a spot.
Post(r, op, s) == call' = [call EXCEPT ![r] = [op |-> op, spot |-> s, phase |-> "sent"]]

\* The reply of r's call is taken (or, with nobody waiting, dropped).
TakeReply(r) == call' = [call EXCEPT ![r] = NoCall]

Reply(r, phase) == call' = [call EXCEPT ![r].phase = phase]

Replied(r) == call[r].phase \in {"ok", "failed"}

\* UPDATE spots SET status = st WHERE id = s: no row, no effect, no error.
SetSpot(s, st) == spot' = [spot EXCEPT ![s] = IF @ = "deleted" THEN @ ELSE st]

-----------------------------------------------------------------------------
\* Faulty variant: reserve without looking at the status.
ReservableUnchecked(s) == spot[s] # "deleted"

Reservable(s) == spot[s] = "AVAILABLE"

Releasable(s) == spot[s] = "RESERVED"

\* SpotUsecase.ReserveSpot: the read and the test of the row ...
ReserveSpotRead(r) ==
    /\ call[r].op = "reserve" /\ call[r].phase = "sent"
    /\ Reply(r, IF Reservable(call[r].spot) THEN "write" ELSE "failed")
    /\ UNCHANGED spot

\* ... and its UPDATE.
ReserveSpotWrite(r) ==
    /\ call[r].op = "reserve" /\ call[r].phase = "write"
    /\ SetSpot(call[r].spot, "RESERVED")
    /\ Reply(r, "ok")

\* SpotUsecase.ReleaseSpot, likewise.
ReleaseSpotRead(r) ==
    /\ call[r].op = "release" /\ call[r].phase = "sent"
    /\ Reply(r, IF Releasable(call[r].spot) THEN "write" ELSE "failed")
    /\ UNCHANGED spot

ReleaseSpotWrite(r) ==
    /\ call[r].op = "release" /\ call[r].phase = "write"
    /\ SetSpot(call[r].spot, "AVAILABLE")
    /\ Reply(r, "ok")

\* Faulty variant: a status outside the enumeration, which nothing validates.
OccupiedMisspelt == "BUSY"

\* The status StartBooking posts.
Occupied == "OCCUPIED"

\* SpotUsecase.UpdateSpotStatus: one UPDATE, whatever the spot's status.
UpdateSpotStatus(r) ==
    /\ call[r].op = "status" /\ call[r].phase = "sent"
    /\ SetSpot(call[r].spot, Occupied)
    /\ Reply(r, "ok")

ServeCall(r) ==
    \/ ReserveSpotRead(r) \/ ReserveSpotWrite(r)
    \/ ReleaseSpotRead(r) \/ ReleaseSpotWrite(r)
    \/ UpdateSpotStatus(r)

\* PATCH /spots/:id/status, and DELETE /spots/:id, by an operator of the lot.
\* PATCH stores any text; to the code a text is RESERVED, AVAILABLE or another.
OperatorSets(s, st) ==
    /\ spot[s] # "deleted"
    /\ spot' = [spot EXCEPT ![s] = st]
    /\ UNCHANGED call
=============================================================================
