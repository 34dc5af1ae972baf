-------------------------- MODULE ReservationProofs --------------------------
(***************************************************************************)
(* Theorems about Reservation, for every set of requests, spots, bookings  *)
(* and intervals and every bound on the clock and on the faults.           *)
(***************************************************************************)
EXTENDS ReservationProperties, TLAPS

-----------------------------------------------------------------------------
(* Type correctness is not inductive by itself: UpdateStatus copies a      *)
(* booking's spot into the request, which is a spot only because a request *)
(* past its creation is always about a row that exists.                    *)

Creating == {"reserving", "checking", "inserting", "undoing"}

\* An inserted row has a spot and an interval.
RowsOK == \A b \in Bookings :
    status[b] # "absent" => spotOf[b] \in Spots /\ slotOf[b] \in Slots

\* What the place of a request says of its other fields and of its booking.
RequestOK(r) ==
    /\ req[r].pc = "idle" => req[r] = Idle
    /\ req[r].pc \in Creating =>
         req[r].op = "create" /\ req[r].spot \in Spots /\ req[r].slot \in Slots
    /\ req[r].pc \notin Creating \union {"idle"} =>
         req[r].booking \in Bookings /\ status[req[r].booking] # "absent"
    /\ req[r].pc \in {"filling", "invalidating", "caching"} => req[r].seen \in Statuses
    /\ req[r].pc \in {"updating", "invalidating"} => req[r].op \in Transitions
    /\ req[r].pc \in {"invalidating", "caching", "calling"} => req[r].spot \in Spots
    /\ req[r].pc = "caching" => req[r].op \in Transitions \union {"create"}
    /\ req[r].pc = "calling" => req[r].op \in Transitions
    /\ req[r].pc = "publishing" => req[r].op \in EventKinds

TypeInv == TypeOK /\ RowsOK /\ \A r \in Requests : RequestOK(r)

LEMMA TargetType == \A op \in Transitions : Target(op) \in Statuses
  BY DEF Transitions, Target, Statuses

\* A step that gives request r the state x leaves the other requests alone.
LEMMA RequestMoves ==
  ASSUME TypeOK, NEW r \in Requests, NEW x \in RequestStates,
         req' = [req EXCEPT ![r] = x]
  PROVE  /\ req' \in [Requests -> RequestStates]
         /\ req'[r] = x
         /\ \A q \in Requests \ {r} : req'[q] = req[q]
  BY DEF TypeOK

\* No step deletes a row, so what is known of the other requests stays true.
LEMMA OthersOK ==
  ASSUME TypeInv, NEW q \in Requests, req'[q] = req[q],
         \A c \in Bookings : status[c] # "absent" => status'[c] # "absent"
  PROVE  RequestOK(q)'
  BY DEF TypeInv, RequestOK

LEMMA InitTypeInv == Init => TypeInv
  BY SMTT(40), ReservationAssumption, SpotAssumption
  DEF Init, SpotInit, TypeInv, TypeOK, SpotTypeOK, RowsOK, RequestOK, RequestStates, Calls,
      NoCall, Idle, Creating, SpotStatuses, Statuses, Places

-----------------------------------------------------------------------------
(* The actions that change several fields of a request at once.            *)

LEMMA InsertBookingTypeInv ==
  ASSUME TypeInv, NEW r \in Requests, NEW b \in Bookings, InsertBooking(r, b)
  PROVE  TypeInv'
<1> DEFINE x == [req[r] EXCEPT !.pc = "caching", !.booking = b, !.seen = "pending"]
<1>1. /\ req[r] \in RequestStates
      /\ req[r].spot \in Spots /\ req[r].slot \in Slots /\ req[r].op = "create"
  BY DEF TypeInv, TypeOK, RequestOK, InsertBooking, At, Creating
<1>2. /\ status' = [status EXCEPT ![b] = "pending"]
      /\ spotOf' = [spotOf EXCEPT ![b] = req[r].spot]
      /\ slotOf' = [slotOf EXCEPT ![b] = req[r].slot]
      /\ UNCHANGED <<spot, call, cache, events, now, faults, excused>>
  BY DEF InsertBooking, InsertRow
<1>3. x \in RequestStates
  BY <1>1, Zenon DEF RequestStates, Places, Statuses
<1>4. req' = [req EXCEPT ![r] = x]
  BY Zenon DEF InsertBooking
<1>5. /\ x.pc = "caching" /\ x.booking = b /\ x.seen = "pending"
      /\ x.spot = req[r].spot /\ x.op = "create"
  BY <1>1 DEF RequestStates
<1> HIDE DEF x
<1>6. /\ req' \in [Requests -> RequestStates] /\ req'[r] = x
      /\ \A q \in Requests \ {r} : req'[q] = req[q]
  BY <1>3, <1>4, RequestMoves DEF TypeInv
<1>7. TypeOK'
  BY <1>1, <1>2, <1>6 DEF TypeInv, TypeOK, SpotTypeOK, Statuses
<1>8. RowsOK'
  BY <1>1, <1>2 DEF TypeInv, TypeOK, RowsOK
<1>9. ASSUME NEW q \in Requests PROVE RequestOK(q)'
  <2>1. status'[b] # "absent"
        /\ \A c \in Bookings : status[c] # "absent" => status'[c] # "absent"
    BY <1>2 DEF TypeInv, TypeOK
  <2>2. CASE q = r
    BY <1>1, <1>5, <1>6, <2>1, <2>2 DEF RequestOK, Creating, Statuses
  <2>3. CASE q # r
    BY <1>6, <2>1, <2>3, OthersOK
  <2> QED BY <2>2, <2>3
<1> QED BY <1>7, <1>8, <1>9 DEF TypeInv

LEMMA ReadRowTypeInv ==
  ASSUME TypeInv, NEW r \in Requests, ReadRow(r)
  PROVE  TypeInv'
<1> DEFINE b == req[r].booking
           x == [req[r] EXCEPT !.pc = "filling", !.seen = status[b]]
<1>1. req[r] \in RequestStates /\ b \in Bookings /\ status[b] \in Statuses
      /\ status[b] # "absent"
  BY DEF TypeInv, TypeOK, RequestOK, ReadRow, At, Creating
<1>2. UNCHANGED <<spot, call, rowVars, cache, events, now, faults, excused>>
  BY DEF ReadRow
<1>3. x \in RequestStates
  BY <1>1, Zenon DEF RequestStates, Places
<1>4. req' = [req EXCEPT ![r] = x]
  BY Zenon DEF ReadRow
<1>5. x.pc = "filling" /\ x.booking = b /\ x.seen \in Statuses
  BY <1>1 DEF RequestStates
<1> HIDE DEF x, b
<1>6. /\ req' \in [Requests -> RequestStates] /\ req'[r] = x
      /\ \A q \in Requests \ {r} : req'[q] = req[q]
  BY <1>3, <1>4, RequestMoves DEF TypeInv
<1>7. TypeOK' /\ RowsOK'
  BY <1>2, <1>6 DEF TypeInv, TypeOK, SpotTypeOK, RowsOK, rowVars
<1>8. ASSUME NEW q \in Requests PROVE RequestOK(q)'
  <2>1. CASE q = r
    BY <1>1, <1>2, <1>5, <1>6, <2>1 DEF RequestOK, Creating, rowVars
  <2>2. CASE q # r
    BY <1>2, <1>6, <2>2, OthersOK DEF rowVars
  <2> QED BY <2>1, <2>2
<1> QED BY <1>7, <1>8 DEF TypeInv

LEMMA UpdateStatusTypeInv ==
  ASSUME TypeInv, NEW r \in Requests, UpdateStatus(r)
  PROVE  TypeInv'
<1> DEFINE b  == req[r].booking
           st == Target(req[r].op)
           x  == [req[r] EXCEPT !.pc = "invalidating", !.seen = st, !.spot = spotOf[b]]
<1>1. /\ req[r] \in RequestStates /\ req[r].op \in Transitions
      /\ b \in Bookings /\ st \in Statuses /\ status[b] # "absent" /\ spotOf[b] \in Spots
  BY TargetType DEF TypeInv, TypeOK, RowsOK, RequestOK, UpdateStatus, At, Creating
<1>2. /\ status' = [status EXCEPT ![b] = st]
      /\ UNCHANGED <<spot, call, spotOf, slotOf, cache, events, now, faults, excused>>
  BY DEF UpdateStatus, UpdateRow
<1>3. req' = [req EXCEPT ![r] = x]
  BY Zenon DEF UpdateStatus
<1> HIDE DEF st
<1>4. x \in RequestStates
  BY <1>1, Zenon DEF RequestStates, Places
<1>5. /\ x.pc = "invalidating" /\ x.seen = st /\ x.spot = spotOf[b]
      /\ x.booking = b /\ x.op = req[r].op
  BY <1>1 DEF RequestStates
<1> HIDE DEF x, b
<1>6. /\ req' \in [Requests -> RequestStates] /\ req'[r] = x
      /\ \A q \in Requests \ {r} : req'[q] = req[q]
  BY <1>4, <1>3, RequestMoves DEF TypeInv
<1>7. TypeOK'
  BY <1>1, <1>2, <1>6 DEF TypeInv, TypeOK, SpotTypeOK
<1>8. RowsOK'
  BY <1>1, <1>2 DEF TypeInv, TypeOK, RowsOK
<1>9. ASSUME NEW q \in Requests PROVE RequestOK(q)'
  <2>1. \A c \in Bookings : status[c] # "absent" => status'[c] # "absent"
    BY <1>1, <1>2 DEF TypeInv, TypeOK, Statuses
  <2>2. CASE q = r
    BY <1>1, <1>5, <1>6, <2>1, <2>2 DEF RequestOK, Creating
  <2>3. CASE q # r
    BY <1>6, <2>1, <2>3, OthersOK
  <2> QED BY <2>2, <2>3
<1> QED BY <1>7, <1>8, <1>9 DEF TypeInv

\* What is left of an operation after its cache SET: the end, the publication
\* or a call to parking-service.
LEMMA AfterRepositoryOK ==
  ASSUME TypeInv, NEW r \in Requests, At(r, "caching"), AfterRepository(r), UNCHANGED rowVars
  PROVE  /\ req' \in [Requests -> RequestStates]
         /\ call' \in [Requests -> Calls]
         /\ \A q \in Requests : RequestOK(q)'
<1>1. /\ req[r].booking \in Bookings /\ req[r].spot \in Spots
      /\ req[r].op \in Transitions \union {"create"} /\ status[req[r].booking] # "absent"
  BY DEF TypeInv, RequestOK, At, Creating
<1>2. CASE req[r].op = "create" /\ Finish(r) /\ UNCHANGED call
  BY <1>2 DEF Finish, TypeInv, TypeOK, SpotTypeOK, RequestOK, RequestStates,
     rowVars, Idle, Creating, Places
<1>3. CASE req[r].op = "confirm" /\ Goto(r, "publishing") /\ UNCHANGED call
  BY <1>1, <1>3 DEF Goto, TypeInv, TypeOK, SpotTypeOK, RequestOK, RequestStates,
     rowVars, Creating, Places, EventKinds
<1>4. CASE \E op \in CallOps : /\ req[r].op \in Transitions
                               /\ Goto(r, "calling") /\ Post(r, op, req[r].spot)
  BY <1>1, <1>4 DEF Goto, Post, TypeInv, TypeOK, SpotTypeOK, RequestOK,
     RequestStates, rowVars, Creating, Places, Calls, CallPhases
<1> QED BY <1>2, <1>3, <1>4 DEF AfterRepository, CallOps, Transitions

LEMMA SetCacheTypeInv ==
  ASSUME TypeInv, NEW r \in Requests, SetCache(r)
  PROVE  TypeInv'
<1>1. req[r].booking \in Bookings /\ req[r].seen \in Statuses
  BY DEF TypeInv, RequestOK, SetCache, At, Creating
<1>2. cache' \in [Bookings -> Statuses \union {"none"}]
  BY <1>1 DEF SetCache, CachedStatus, TypeInv, TypeOK
<1>3. UNCHANGED <<spot, rowVars, events, now, faults, excused>>
  BY DEF SetCache
<1>4. /\ req' \in [Requests -> RequestStates]
      /\ call' \in [Requests -> Calls]
      /\ \A q \in Requests : RequestOK(q)'
  BY <1>3, AfterRepositoryOK DEF SetCache
<1> QED BY <1>2, <1>3, <1>4 DEF TypeInv, TypeOK, SpotTypeOK, RowsOK, rowVars

\* The error path of Create: the spot it gives back is the one it reserved.
LEMMA GiveUpSpotOK ==
  ASSUME TypeInv, NEW r \in Requests, req[r].pc \in {"checking", "inserting"},
         GiveUpSpot(r), \A c \in Bookings : status[c] # "absent" => status'[c] # "absent"
  PROVE  /\ req' \in [Requests -> RequestStates]
         /\ call' \in [Requests -> Calls]
         /\ \A q \in Requests : RequestOK(q)'
BY SMTT(40) DEF GiveUpSpot, Goto, Post, TypeInv, TypeOK, SpotTypeOK, RequestOK, RequestStates,
   Creating, Places, Calls, CallOps, CallPhases

-----------------------------------------------------------------------------
(* Every step keeps TypeInv.                                               *)

LEMMA RequestTypeInv ==
  ASSUME TypeInv, NEW r \in Requests, RequestStep(r)
  PROVE  TypeInv'
<1>1. ASSUME NEW b \in Bookings, InsertBooking(r, b) PROVE TypeInv'
  BY <1>1, InsertBookingTypeInv
<1>2. CASE ReadRow(r)
  BY <1>2, ReadRowTypeInv
<1>3. CASE UpdateStatus(r)
  BY <1>3, UpdateStatusTypeInv
<1>4. CASE SetCache(r)
  BY <1>4, SetCacheTypeInv
<1>5. CASE CheckConflict(r)
  <2>1. UNCHANGED <<spot, rowVars, cache, events, now, faults, excused>>
    BY <1>5 DEF CheckConflict
  <2>2. CASE GiveUpSpot(r)
    <3>1. \A c \in Bookings : status[c] # "absent" => status'[c] # "absent"
      BY <2>1 DEF rowVars
    <3>2. req[r].pc = "checking"
      BY <1>5 DEF CheckConflict, At
    <3> QED BY <2>1, <2>2, <3>1, <3>2, GiveUpSpotOK DEF TypeInv, TypeOK, SpotTypeOK, RowsOK, rowVars
  <2>3. CASE Goto(r, "inserting") /\ UNCHANGED call
    BY <1>5, <2>1, <2>3 DEF CheckConflict, Goto, At, TypeInv, TypeOK, SpotTypeOK, RowsOK,
       RequestOK, RequestStates, Creating, Places, rowVars
  <2> QED BY <1>5, <2>2, <2>3 DEF CheckConflict
<1>6. CASE InsertRejected(r)
  <2>1. UNCHANGED <<spot, rowVars, cache, events, now, faults, excused>>
    BY <1>6 DEF InsertRejected
  <2>2. req[r].pc = "inserting" /\ GiveUpSpot(r)
    BY <1>6 DEF InsertRejected, At
  <2>3. \A c \in Bookings : status[c] # "absent" => status'[c] # "absent"
    BY <2>1 DEF rowVars
  <2> QED BY <2>1, <2>2, <2>3, GiveUpSpotOK DEF TypeInv, TypeOK, SpotTypeOK, RowsOK, rowVars
<1> USE ReservationAssumption, SpotAssumption
    DEF TypeInv, TypeOK, SpotTypeOK, RowsOK, RequestOK, RequestStates, Calls, NoCall, Idle,
        Creating, Places, rowVars, At
<1>7. CASE ReserveReturned(r)
  BY <1>7, SMTT(40) DEF ReserveReturned, Goto, Finish, TakeReply
<1>8. CASE UndoReturned(r)
  BY <1>8, SMTT(40) DEF UndoReturned, TakeReply, Finish
<1>9. CASE ReadCache(r)
  BY <1>9, SMTT(40) DEF ReadCache, Decide, Permitted, Goto, Finish, Statuses
<1>10. CASE FillCache(r)
  BY <1>10, SMTT(40) DEF FillCache, Decide, Permitted, Finish, Statuses
<1>11. CASE UpdateRejected(r)
  BY <1>11, SMTT(40) DEF UpdateRejected, Finish
<1>12. CASE InvalidateCache(r)
  BY <1>12, SMTT(40) DEF InvalidateCache, Goto
<1>13. CASE CallReturned(r)
  BY <1>13, SMTT(40) DEF CallReturned, AfterCall, TakeReply, EventKinds, Goto, Finish
<1>14. CASE Publish(r)
  BY <1>14, SMTT(40) DEF Publish, EventKinds, Finish
<1> HIDE DEF TypeInv
<1> QED BY <1>1, <1>2, <1>3, <1>4, <1>5, <1>6, <1>7, <1>8, <1>9, <1>10, <1>11, <1>12,
           <1>13, <1>14 DEF RequestStep

LEMMA SpotTypeInv ==
  ASSUME TypeInv, NEW r \in Requests, SpotStep(r)
  PROVE  TypeInv'
<1> USE DEF TypeInv, TypeOK, SpotTypeOK, RowsOK, RequestOK, Calls, NoCall, rowVars
<1>1. CASE ServeCall(r) /\ UNCHANGED <<rowVars, cache, req, events, now, faults, excused>>
  BY <1>1, SMTT(40) DEF ServeCall, ReserveSpotRead, ReserveSpotWrite, ReleaseSpotRead,
     ReleaseSpotWrite, UpdateSpotStatus, Reply, SetSpot, Occupied, SpotStatuses, CallOps,
     CallPhases
<1>2. CASE DropReply(r)
  BY <1>2, SMTT(40) DEF DropReply, TakeReply
<1> QED BY <1>1, <1>2 DEF SpotStep

LEMMA FaultTypeInv ==
  ASSUME TypeInv, Fault
  PROVE  TypeInv'
<1>1. ASSUME NEW r \in Requests, CacheFails(r) PROVE TypeInv'
  <2>1. UNCHANGED <<spot, rowVars, cache, events, now, excused>> /\ faults' \in 0..MaxFaults
    BY <1>1, ReservationAssumption DEF CacheFails, Strike, TypeInv, TypeOK
  <2>2. /\ req' \in [Requests -> RequestStates]
        /\ call' \in [Requests -> Calls]
        /\ \A q \in Requests : RequestOK(q)'
    <3>1. CASE At(r, "caching") /\ AfterRepository(r)
      BY <2>1, <3>1, AfterRepositoryOK
    <3>2. CASE At(r, "looking") /\ Goto(r, "loading") /\ UNCHANGED call
      BY <2>1, <3>2 DEF At, Goto, TypeInv, TypeOK, SpotTypeOK, RequestOK, RequestStates,
         Creating, Places, rowVars
    <3>3. CASE At(r, "filling") /\ Decide(r, req[r].seen) /\ UNCHANGED call
      BY <2>1, <3>3, SMTT(40) DEF At, Decide, Permitted, Finish, TypeInv, TypeOK, SpotTypeOK,
         RequestOK, RequestStates, Idle, Creating, Places, Statuses, rowVars
    <3>4. CASE At(r, "invalidating") /\ Goto(r, "caching") /\ UNCHANGED call
      BY <2>1, <3>4 DEF At, Goto, TypeInv, TypeOK, SpotTypeOK, RequestOK, RequestStates,
         Creating, Places, rowVars
    <3> QED BY <1>1, <3>1, <3>2, <3>3, <3>4 DEF CacheFails
  <2> QED BY <2>1, <2>2 DEF TypeInv, TypeOK, SpotTypeOK, RowsOK, rowVars
<1> USE ReservationAssumption, SpotAssumption
    DEF TypeInv, TypeOK, SpotTypeOK, RowsOK, RequestOK, RequestStates, Calls, NoCall, Idle,
        Creating, Places, rowVars, At, Strike
<1>2. ASSUME NEW r \in Requests, ClientTimeout(r) PROVE TypeInv'
  BY <1>2, SMTT(40) DEF ClientTimeout, AfterCall, Waiting, EventKinds, Goto, Finish
<1>3. ASSUME NEW r \in Requests, CallFails(r) PROVE TypeInv'
  BY <1>3, SMTT(40) DEF CallFails, Reply, CallOps, CallPhases
<1>4. ASSUME NEW r \in Requests, StatementFails(r) PROVE TypeInv'
  BY <1>4, SMTT(40) DEF StatementFails, GiveUpSpot, Post, Goto, Finish, CallOps, CallPhases
<1>5. ASSUME NEW r \in Requests, NEW b \in Bookings, InsertUnacknowledged(r, b) PROVE TypeInv'
  BY <1>5, SMTT(40) DEF InsertUnacknowledged, InsertRow, GiveUpSpot, Post, Goto, Finish,
     CallOps, CallPhases, Statuses
<1>6. ASSUME NEW r \in Requests, UpdateUnacknowledged(r) PROVE TypeInv'
  BY <1>6, TargetType, SMTT(40) DEF UpdateUnacknowledged, UpdateRow, Finish, Statuses
<1>7. ASSUME NEW r \in Requests, PublishFails(r) PROVE TypeInv'
  BY <1>7, SMTT(40) DEF PublishFails, Finish
<1>8. ASSUME NEW r \in Requests, ContextCancelled(r) PROVE TypeInv'
  BY <1>8, SMTT(40) DEF ContextCancelled, Goto, Finish, EventKinds
<1>9. CASE Crash
  <2>1. \A r \in Requests : req[r].spot \in Spots \union {NoSpot}
    OBVIOUS
  <2>2. excused' \subseteq Spots
    BY <1>9, <2>1 DEF Crash
  <2> QED BY <1>9, <2>2 DEF Crash
<1> HIDE DEF TypeInv
<1> QED BY <1>1, <1>2, <1>3, <1>4, <1>5, <1>6, <1>7, <1>8, <1>9 DEF Fault

LEMMA NextTypeInv == TypeInv /\ [Next]_vars => TypeInv'
<1> SUFFICES ASSUME TypeInv, [Next]_vars PROVE TypeInv'
  OBVIOUS
<1>1. ASSUME NEW r \in Requests, NEW s \in Spots, NEW i \in Slots, BeginCreate(r, s, i)
      PROVE  TypeInv'
  BY <1>1, SMTT(40), SpotAssumption DEF BeginCreate, Post, Free, TypeInv, TypeOK, SpotTypeOK,
     RowsOK, RequestOK, RequestStates, Calls, CallOps, CallPhases, NoCall, Idle, Creating,
     Places, Statuses, rowVars
<1>2. ASSUME NEW r \in Requests, NEW op \in UserOps, NEW b \in Bookings, BeginOn(r, op, b)
      PROVE  TypeInv'
  BY <1>2, SMTT(40), ReservationAssumption DEF BeginOn, BookingOps, Free, TypeInv, TypeOK,
     SpotTypeOK, RowsOK, RequestOK, RequestStates, Idle, Creating, Places, rowVars
<1>3. ASSUME NEW r \in Requests, RequestStep(r) PROVE TypeInv'
  BY <1>3, RequestTypeInv
<1>4. ASSUME NEW r \in Requests, SpotStep(r) PROVE TypeInv'
  BY <1>4, SpotTypeInv
<1>5. CASE Tick
  BY <1>5, ReservationAssumption DEF Tick, TypeInv, TypeOK, SpotTypeOK, RowsOK, RequestOK,
     rowVars
<1>6. ASSUME NEW b \in Bookings, Expire(b) PROVE TypeInv'
  BY <1>6 DEF Expire, TypeInv, TypeOK, SpotTypeOK, RowsOK, RequestOK, rowVars
<1>7. ASSUME NEW s \in Spots, NEW st \in OperatorStatuses, Operator(s, st) PROVE TypeInv'
  BY <1>7, SpotAssumption DEF Operator, OperatorSets, TypeInv, TypeOK, SpotTypeOK, RowsOK,
     RequestOK, rowVars
<1>8. CASE Fault
  BY <1>8, FaultTypeInv
<1>9. CASE UNCHANGED vars
  BY <1>9 DEF vars, rowVars, TypeInv, TypeOK, SpotTypeOK, RowsOK, RequestOK
<1> QED BY <1>1, <1>2, <1>3, <1>4, <1>5, <1>6, <1>7, <1>8, <1>9
        DEF Next, CreateBooking, QuickBooking

LEMMA TypeInvHolds == Spec => []TypeInv
<1>1. Init => TypeInv
  BY InitTypeInv
<1>2. TypeInv /\ [Next]_vars => TypeInv'
  BY NextTypeInv
<1> QED BY <1>1, <1>2, PTL DEF Spec

\* Every variable of the services keeps its type: in particular a request that
\* updates a booking's row or calls parking-service always has a booking and a
\* spot to do it with (UpdateStatus, ReleaseSpot, UpdateSpotStatus).
THEOREM TypeCorrect == Spec => []TypeOK
<1>1. TypeInv => TypeOK
  BY DEF TypeInv
<1> QED BY <1>1, TypeInvHolds, PTL

-----------------------------------------------------------------------------
(* The rows change in two ways only, and both go through the constraint.   *)

LEMMA RowChanges ==
  ASSUME [Next]_vars
  PROVE  \/ UNCHANGED rowVars
         \/ \E r \in Requests, b \in Bookings :
              At(r, "inserting") /\ InsertRow(b, req[r].spot, req[r].slot)
         \/ \E r \in Requests :
              At(r, "updating") /\ UpdateRow(req[r].booking, Target(req[r].op))
<1>1. ASSUME NEW r \in Requests, RequestStep(r)
      PROVE  \/ UNCHANGED rowVars
             \/ \E b \in Bookings : At(r, "inserting") /\ InsertRow(b, req[r].spot, req[r].slot)
             \/ At(r, "updating") /\ UpdateRow(req[r].booking, Target(req[r].op))
  BY <1>1 DEF RequestStep, ReserveReturned, CheckConflict, InsertBooking, InsertRejected,
     UndoReturned, ReadCache, ReadRow, FillCache, UpdateStatus, UpdateRejected,
     InvalidateCache, SetCache, CallReturned, Publish
<1>2. ASSUME Fault
      PROVE  \/ UNCHANGED rowVars
             \/ \E r \in Requests, b \in Bookings :
                  At(r, "inserting") /\ InsertRow(b, req[r].spot, req[r].slot)
             \/ \E r \in Requests :
                  At(r, "updating") /\ UpdateRow(req[r].booking, Target(req[r].op))
  BY <1>2 DEF Fault, ClientTimeout, CallFails, StatementFails, InsertUnacknowledged,
     UpdateUnacknowledged, CacheFails, PublishFails, ContextCancelled, Crash
<1>3. ASSUME Next
      PROVE  UNCHANGED rowVars \/ (\E r \in Requests : RequestStep(r)) \/ Fault
  BY <1>3 DEF Next, CreateBooking, QuickBooking, BeginCreate, BeginOn, SpotStep, DropReply,
     Tick, Expire, Operator
<1>4. UNCHANGED vars => UNCHANGED rowVars
  BY DEF vars
<1> QED BY <1>1, <1>2, <1>3, <1>4

LEMMA RowSteps ==
  ASSUME TypeInv, [Next]_vars
  PROVE  \/ UNCHANGED rowVars
         \/ \E b \in Bookings, s \in Spots, i \in Slots : InsertRow(b, s, i)
         \/ \E b \in Bookings, st \in Statuses : status[b] # "absent" /\ UpdateRow(b, st)
<1>1. ASSUME NEW r \in Requests, NEW b \in Bookings,
             At(r, "inserting"), InsertRow(b, req[r].spot, req[r].slot)
      PROVE  \E s \in Spots, i \in Slots : InsertRow(b, s, i)
  BY <1>1 DEF TypeInv, RequestOK, At, Creating
<1>2. ASSUME NEW r \in Requests, At(r, "updating"),
             UpdateRow(req[r].booking, Target(req[r].op))
      PROVE  \E b \in Bookings, st \in Statuses : status[b] # "absent" /\ UpdateRow(b, st)
  BY <1>2, TargetType DEF TypeInv, RequestOK, At, Creating
<1> QED BY <1>1, <1>2, RowChanges

-----------------------------------------------------------------------------
(* NoDoubleBooking is inductive, with the types of the rows.               *)

\* Overlaps does not depend on the order of its intervals.
LEMMA OverlapsSymmetric ==
  ASSUME NEW i \in Slots, NEW j \in Slots, Overlaps(i, j)
  PROVE  Overlaps(j, i)
BY ReservationAssumption DEF Overlaps, Intervals

LEMMA NextNoDoubleBooking ==
  ASSUME TypeInv, NoDoubleBooking, [Next]_vars
  PROVE  NoDoubleBooking'
<1>1. CASE UNCHANGED rowVars
  BY <1>1 DEF NoDoubleBooking, Live, rowVars
<1>2. ASSUME NEW b \in Bookings, NEW st \in LiveStatuses \union Statuses,
             NEW s \in Spots, NEW i \in Slots, ExclusionAllows(b, st, s, i),
             status' = [status EXCEPT ![b] = st],
             spotOf' = [spotOf EXCEPT ![b] = s], slotOf' = [slotOf EXCEPT ![b] = i]
      PROVE  NoDoubleBooking'
  <2>1. ASSUME NEW c \in Bookings \ {b}, Live(b)', Live(c)', spotOf'[c] = spotOf'[b]
        PROVE  ~Overlaps(i, slotOf[c]) /\ ~Overlaps(slotOf[c], i)
    <3>1. st \in LiveStatuses /\ Live(c) /\ spotOf[c] = s
      BY <1>2, <2>1 DEF Live, TypeInv, TypeOK
    <3>2. ~Overlaps(i, slotOf[c])
      BY <1>2, <3>1 DEF ExclusionAllows, Conflict
    <3>3. slotOf[c] \in Slots
      BY <3>1 DEF Live, LiveStatuses, TypeInv, RowsOK
    <3> QED BY <3>2, <3>3, OverlapsSymmetric
  <2>2. ASSUME NEW c \in Bookings, NEW d \in Bookings,
               c # d, Live(c)', Live(d)', spotOf'[c] = spotOf'[d]
        PROVE  ~Overlaps(slotOf'[c], slotOf'[d])
    <3>1. CASE c = b
      BY <1>2, <2>1, <2>2, <3>1 DEF TypeInv, TypeOK
    <3>2. CASE d = b
      BY <1>2, <2>1, <2>2, <3>2 DEF TypeInv, TypeOK
    <3>3. CASE c # b /\ d # b
      BY <1>2, <2>2, <3>3 DEF NoDoubleBooking, Live, TypeInv, TypeOK
    <3> QED BY <3>1, <3>2, <3>3
  <2> QED BY <2>2 DEF NoDoubleBooking
<1>3. CASE \E b \in Bookings, s \in Spots, i \in Slots : InsertRow(b, s, i)
  BY <1>2, <1>3 DEF InsertRow, LiveStatuses
<1>4. CASE \E b \in Bookings, st \in Statuses : status[b] # "absent" /\ UpdateRow(b, st)
  <2> PICK b \in Bookings, st \in Statuses : status[b] # "absent" /\ UpdateRow(b, st)
    BY <1>4
  <2>1. spotOf[b] \in Spots /\ slotOf[b] \in Slots
    BY DEF TypeInv, RowsOK
  <2>2. spotOf' = [spotOf EXCEPT ![b] = spotOf[b]] /\ slotOf' = [slotOf EXCEPT ![b] = slotOf[b]]
    BY DEF UpdateRow, TypeInv, TypeOK
  <2> QED BY <1>2, <2>1, <2>2 DEF UpdateRow
<1> QED BY <1>1, <1>3, <1>4, RowSteps

\* No interleaving of the handlers and no fault gives one spot to two live
\* bookings at one instant: neither the race between the conflict SELECT and
\* the INSERT of repo.Create nor a stale UpdateStatus can.
THEOREM NoDoubleBookingHolds == Spec => []NoDoubleBooking
<1>1. Init => NoDoubleBooking
  BY DEF Init, NoDoubleBooking, Live, LiveStatuses
<1>2. TypeInv /\ NoDoubleBooking /\ [Next]_vars => NoDoubleBooking'
  BY NextNoDoubleBooking
<1> QED BY <1>1, <1>2, TypeInvHolds, PTL DEF Spec

-----------------------------------------------------------------------------
(* The services implement the calendar of SpotCalendar.                    *)

\* The predicate of the SQL finds every common instant.
LEMMA ClashOverlaps ==
  ASSUME NEW i \in Slots, NEW j \in Slots,
         Calendar!Instants(i) \cap Calendar!Instants(j) # {}
  PROVE  Overlaps(i, j)
BY ReservationAssumption DEF Calendar!Instants, Overlaps, Intervals

\* A row that becomes live, as the constraint lets it, enters a claim.
LEMMA LiveRowEnters ==
  ASSUME TypeInv, NEW b \in Bookings, NEW st \in LiveStatuses, ~Live(b),
         NEW s \in Spots, NEW i \in Slots, ExclusionAllows(b, st, s, i),
         status' = [status EXCEPT ![b] = st],
         spotOf' = [spotOf EXCEPT ![b] = s], slotOf' = [slotOf EXCEPT ![b] = i]
  PROVE  Calendar!CalendarNext
<1> DEFINE c == [booking |-> b, spot |-> s, slot |-> i]
<1>1. c \in Calendar!Claim
  BY DEF Calendar!Claim
<1>2. ASSUME NEW d \in LiveClaims PROVE d.booking # b /\ ~Calendar!Clash(c, d)
  <2> PICK a \in Bookings : Live(a) /\ d = [booking |-> a, spot |-> spotOf[a], slot |-> slotOf[a]]
    BY DEF LiveClaims
  <2>1. a # b
    OBVIOUS
  <2>2. slotOf[a] \in Slots
    BY DEF Live, LiveStatuses, TypeInv, RowsOK
  <2>3. spotOf[a] = s => ~Overlaps(i, slotOf[a])
    BY <2>1 DEF ExclusionAllows, Conflict
  <2> QED BY <2>1, <2>2, <2>3, ClashOverlaps DEF Calendar!Clash
<1>3. LiveClaims' = LiveClaims \union {c}
  <2>1. \A a \in Bookings \ {b} :
          (Live(a)' <=> Live(a)) /\ spotOf'[a] = spotOf[a] /\ slotOf'[a] = slotOf[a]
    BY DEF Live, TypeInv, TypeOK
  <2>2. Live(b)' /\ spotOf'[b] = s /\ slotOf'[b] = i
    BY DEF Live, TypeInv, TypeOK
  <2> QED BY <2>1, <2>2 DEF LiveClaims
<1> HIDE DEF c
<1>4. Calendar!Enter(c)
  <2>1. c.booking = b
    BY DEF c
  <2> QED BY <1>2, <1>3, <2>1 DEF Calendar!Enter
<1> QED BY <1>1, <1>4 DEF Calendar!CalendarNext

\* A row that ceases to be live withdraws its claim.
LEMMA DeadRowWithdraws ==
  ASSUME TypeInv, NEW b \in Bookings, Live(b), NEW st \in Statuses \ LiveStatuses,
         status' = [status EXCEPT ![b] = st], UNCHANGED <<spotOf, slotOf>>
  PROVE  Calendar!CalendarNext
<1> DEFINE c == [booking |-> b, spot |-> spotOf[b], slot |-> slotOf[b]]
<1>1. c \in Calendar!Claim /\ c \in LiveClaims
  BY DEF Calendar!Claim, LiveClaims, Live, LiveStatuses, TypeInv, RowsOK
<1>2. LiveClaims' = LiveClaims \ {c}
  <2>1. \A a \in Bookings \ {b} : Live(a)' <=> Live(a)
    BY DEF Live, TypeInv, TypeOK
  <2>2. ~Live(b)'
    BY DEF Live, TypeInv, TypeOK
  <2> QED BY <2>1, <2>2 DEF LiveClaims
<1> HIDE DEF c
<1> QED BY <1>1, <1>2 DEF Calendar!CalendarNext, Calendar!Withdraw

LEMMA NextCalendar ==
  ASSUME TypeInv, [Next]_vars
  PROVE  [Calendar!CalendarNext]_LiveClaims
<1>1. CASE UNCHANGED rowVars
  BY <1>1 DEF LiveClaims, Live, rowVars
<1>2. ASSUME NEW b \in Bookings, NEW s \in Spots, NEW i \in Slots, InsertRow(b, s, i)
      PROVE  Calendar!CalendarNext
  BY <1>2, LiveRowEnters DEF InsertRow, Live, LiveStatuses
<1>3. ASSUME NEW b \in Bookings, NEW st \in Statuses, status[b] # "absent", UpdateRow(b, st)
      PROVE  [Calendar!CalendarNext]_LiveClaims
  <2>1. /\ ExclusionAllows(b, st, spotOf[b], slotOf[b])
        /\ status' = [status EXCEPT ![b] = st]
        /\ UNCHANGED <<spotOf, slotOf>>
    BY <1>3 DEF UpdateRow
  <2>2. /\ spotOf[b] \in Spots /\ slotOf[b] \in Slots
        /\ spotOf' = [spotOf EXCEPT ![b] = spotOf[b]]
        /\ slotOf' = [slotOf EXCEPT ![b] = slotOf[b]]
    BY <1>3, <2>1 DEF TypeInv, TypeOK, RowsOK
  <2>3. CASE Live(b) <=> st \in LiveStatuses
    <3>1. \A a \in Bookings : Live(a)' <=> Live(a)
      BY <2>1, <2>3 DEF Live, TypeInv, TypeOK
    <3> QED BY <2>1, <3>1 DEF LiveClaims
  <2>4. CASE ~Live(b) /\ st \in LiveStatuses
    BY <2>1, <2>2, <2>4, LiveRowEnters
  <2>5. CASE Live(b) /\ st \notin LiveStatuses
    BY <2>1, <2>5, DeadRowWithdraws
  <2> QED BY <2>3, <2>4, <2>5
<1> QED BY <1>1, <1>2, <1>3, RowSteps

\* booking-service and its database implement the calendar: a claim on a spot
\* is entered only while it clashes with none, whatever the handlers' order.
THEOREM CalendarImplemented == Spec => CalendarSpec
<1>1. Init => Calendar!CalendarInit
  BY DEF Init, Calendar!CalendarInit, LiveClaims, Live, LiveStatuses
<1>2. TypeInv /\ [Next]_vars => [Calendar!CalendarNext]_LiveClaims
  BY NextCalendar
<1> QED BY <1>1, <1>2, TypeInvHolds, PTL DEF Spec, CalendarSpec, Calendar!CalendarSpec

-----------------------------------------------------------------------------
(* How a request and its call belong together.  ReservedHasHolder is not   *)
(* inductive without it: the reply of a ReserveSpot may only be dropped    *)
(* when its caller was struck by a fault, and a call may only be posted    *)
(* when none is outstanding that answers for a reservation.                *)

CallOK(r) ==
    /\ req[r].pc = "reserving" => call[r].op = "reserve" /\ call[r].spot = req[r].spot
    /\ call[r].op = "reserve" /\ req[r].pc # "reserving" => call[r].spot \in excused
    /\ req[r].pc \notin {"idle", "reserving", "undoing", "calling", "publishing"} =>
       call[r] = NoCall

CallInv == \A r \in Requests : CallOK(r)

LEMMA InitCallInv == Init => CallInv
  BY DEF Init, SpotInit, CallInv, CallOK, NoCall, Idle

LEMMA RequestCallInv ==
  ASSUME TypeInv, CallInv, NEW r \in Requests, RequestStep(r)
  PROVE  CallInv'
<1> USE DEF CallInv, CallOK, NoCall, Idle, At
<1>0. call \in [Requests -> Calls] /\ req \in [Requests -> RequestStates]
  BY DEF TypeInv, TypeOK, SpotTypeOK
<1>1. CASE ReserveReturned(r)
  BY <1>0, <1>1, SMTT(20) DEF ReserveReturned, Goto, Finish, TakeReply, RequestStates
<1>2. CASE CheckConflict(r)
  BY <1>0, <1>2, SMTT(20) DEF CheckConflict, GiveUpSpot, Goto, Post, RequestStates
<1>3. CASE \E b \in Bookings : InsertBooking(r, b)
  BY <1>0, <1>3, SMTT(20) DEF InsertBooking, RequestStates
<1>4. CASE InsertRejected(r)
  BY <1>0, <1>4, SMTT(20) DEF InsertRejected, GiveUpSpot, Goto, Post, RequestStates
<1>5. CASE UndoReturned(r) \/ CallReturned(r)
  BY <1>0, <1>5, SMTT(20) DEF UndoReturned, CallReturned, AfterCall, Goto, Finish,
     TakeReply, RequestStates
<1>6. CASE ReadCache(r) \/ FillCache(r)
  BY <1>0, <1>6, SMTT(20) DEF ReadCache, FillCache, Decide, Goto, Finish, RequestStates
<1>7. CASE ReadRow(r)
  BY <1>0, <1>7, SMTT(20) DEF ReadRow, RequestStates
<1>8. CASE UpdateStatus(r)
  BY <1>0, <1>8, SMTT(20) DEF UpdateStatus, RequestStates
<1>9. CASE UpdateRejected(r) \/ InvalidateCache(r) \/ Publish(r)
  BY <1>0, <1>9, SMTT(20) DEF UpdateRejected, InvalidateCache, Publish, Goto, Finish,
     RequestStates
<1>10. CASE SetCache(r)
  BY <1>0, <1>10, SMTT(20) DEF SetCache, AfterRepository, Goto, Finish, Post, RequestStates
<1> QED BY <1>1, <1>2, <1>3, <1>4, <1>5, <1>6, <1>7, <1>8, <1>9, <1>10 DEF RequestStep

LEMMA SpotCallInv ==
  ASSUME TypeInv, CallInv, NEW r \in Requests, SpotStep(r)
  PROVE  CallInv'
<1> USE DEF CallInv, CallOK, NoCall
<1>0. call \in [Requests -> Calls] /\ req \in [Requests -> RequestStates]
  BY DEF TypeInv, TypeOK, SpotTypeOK
<1>1. CASE ServeCall(r) /\ UNCHANGED <<rowVars, cache, req, events, now, faults, excused>>
  BY <1>0, <1>1, SMTT(20) DEF ServeCall, ReserveSpotRead, ReserveSpotWrite, ReleaseSpotRead,
     ReleaseSpotWrite, UpdateSpotStatus, Reply, Calls
<1>2. CASE DropReply(r)
  BY <1>0, <1>2, SMTT(20) DEF DropReply, TakeReply, Waiting
<1> QED BY <1>1, <1>2 DEF SpotStep

LEMMA FaultCallInv ==
  ASSUME TypeInv, CallInv, Fault
  PROVE  CallInv'
<1> USE DEF CallInv, CallOK, NoCall, Idle, At
<1>0. call \in [Requests -> Calls] /\ req \in [Requests -> RequestStates]
  BY DEF TypeInv, TypeOK, SpotTypeOK
<1>1. ASSUME NEW r \in Requests, ClientTimeout(r) PROVE CallInv'
  BY <1>0, <1>1, SMTT(20) DEF ClientTimeout, AfterCall, Goto, Finish, RequestStates, Waiting
<1>2. ASSUME NEW r \in Requests, CallFails(r) PROVE CallInv'
  BY <1>0, <1>2, SMTT(20) DEF CallFails, Reply, Calls
<1>3. ASSUME NEW r \in Requests, StatementFails(r) PROVE CallInv'
  BY <1>0, <1>3, SMTT(20) DEF StatementFails, GiveUpSpot, Goto, Finish, Post, RequestStates
<1>4. ASSUME NEW r \in Requests, NEW b \in Bookings, InsertUnacknowledged(r, b) PROVE
   CallInv'
  BY <1>0, <1>4, SMTT(20) DEF InsertUnacknowledged, GiveUpSpot, Goto, Post, RequestStates
<1>5. ASSUME NEW r \in Requests, UpdateUnacknowledged(r) PROVE CallInv'
  BY <1>0, <1>5, SMTT(20) DEF UpdateUnacknowledged, Finish, RequestStates
<1>6. ASSUME NEW r \in Requests, CacheFails(r) PROVE CallInv'
  BY <1>0, <1>6, SMTT(20) DEF CacheFails, AfterRepository, Decide, Goto, Finish, Post,
     RequestStates
<1>7. ASSUME NEW r \in Requests, PublishFails(r) PROVE CallInv'
  BY <1>0, <1>7, SMTT(20) DEF PublishFails, Finish, RequestStates
<1>8. ASSUME NEW r \in Requests, ContextCancelled(r) PROVE CallInv'
  BY <1>0, <1>8, SMTT(20), SpotAssumption DEF ContextCancelled, Goto, Finish,
     RequestStates, TypeInv, RequestOK, Creating
<1>9. CASE Crash
  BY <1>0, <1>9, SMTT(20), SpotAssumption DEF Crash, TypeInv, RequestOK, Creating
<1> QED BY <1>1, <1>2, <1>3, <1>4, <1>5, <1>6, <1>7, <1>8, <1>9 DEF Fault

LEMMA NextCallInv ==
  ASSUME TypeInv, CallInv, [Next]_vars
  PROVE  CallInv'
<1>1. ASSUME NEW r \in Requests, NEW s \in Spots, NEW i \in Slots, BeginCreate(r, s, i)
      PROVE  CallInv'
  BY <1>1, SMTT(20) DEF BeginCreate, Post, Free, CallInv, CallOK, Idle, NoCall, TypeInv,
     TypeOK, SpotTypeOK
<1>2. ASSUME NEW r \in Requests, NEW op \in UserOps, NEW b \in Bookings, BeginOn(r, op, b)
      PROVE  CallInv'
  BY <1>2, SMTT(20) DEF BeginOn, Free, CallInv, CallOK, Idle, NoCall, TypeInv, TypeOK,
     SpotTypeOK
<1>3. CASE Tick \/ \E b \in Bookings : Expire(b)
  BY <1>3 DEF Tick, Expire, CallInv, CallOK
<1>4. ASSUME NEW s \in Spots, NEW st \in OperatorStatuses, Operator(s, st) PROVE CallInv'
  BY <1>4 DEF Operator, OperatorSets, CallInv, CallOK
<1>5. CASE UNCHANGED vars
  BY <1>5 DEF vars, CallInv, CallOK
<1> QED BY <1>1, <1>2, <1>3, <1>4, <1>5, RequestCallInv, SpotCallInv, FaultCallInv
        DEF Next, CreateBooking, QuickBooking

-----------------------------------------------------------------------------
(* Every step leaves a RESERVED spot a holder.                             *)

Holder(s) ==
    \/ \E b \in Bookings : Live(b) /\ spotOf[b] = s
    \/ \E r \in Requests : AnswersFor(r, s)
    \/ s \in excused

LEMMA RequestHolder ==
  ASSUME TypeInv, CallInv, ReservedHasHolder, NEW r \in Requests, RequestStep(r)
  PROVE  ReservedHasHolder'
<1> SUFFICES ASSUME NEW s \in Spots, spot'[s] = "RESERVED" PROVE Holder(s)'
  BY DEF ReservedHasHolder, Holder
<1>0. /\ call \in [Requests -> Calls] /\ req \in [Requests -> RequestStates]
      /\ spot' = spot /\ excused' = excused /\ Holder(s)
  BY DEF TypeInv, TypeOK, SpotTypeOK, ReservedHasHolder, Holder, RequestStep,
     ReserveReturned, CheckConflict, InsertBooking, InsertRejected,
     UndoReturned, ReadCache, ReadRow, FillCache, UpdateStatus, UpdateRejected,
     InvalidateCache, SetCache, CallReturned, Publish
<1> USE DEF AnswersFor, At, CallInv, CallOK, NoCall, Idle, RequestStates, Holder, Live,
   rowVars
<1>1. CASE ReserveReturned(r)
  BY <1>0, <1>1, SMTT(20) DEF ReserveReturned, Goto, Finish, TakeReply, Replied
<1>2. CASE CheckConflict(r)
  BY <1>0, <1>2, SMTT(20) DEF CheckConflict, GiveUpSpot, Goto, Post
<1>3. CASE \E b \in Bookings : InsertBooking(r, b)
  BY <1>0, <1>3, SMTT(20) DEF InsertBooking, InsertRow, LiveStatuses, TypeInv, TypeOK
<1>4. CASE InsertRejected(r)
  BY <1>0, <1>4, SMTT(20) DEF InsertRejected, GiveUpSpot, Goto, Post
<1>5. CASE UndoReturned(r) \/ CallReturned(r)
  BY <1>0, <1>5, SMTT(20) DEF UndoReturned, CallReturned, AfterCall, Goto, Finish,
     TakeReply, Replied
<1>6. CASE ReadCache(r) \/ FillCache(r)
  BY <1>0, <1>6, SMTT(20) DEF ReadCache, FillCache, Decide, Goto, Finish
<1>7. CASE ReadRow(r)
  BY <1>0, <1>7, SMTT(20) DEF ReadRow
<1>8. CASE UpdateStatus(r)
  BY <1>0, <1>8, SMTT(20) DEF UpdateStatus, UpdateRow, LiveStatuses, Target, Transitions,
     TypeInv, TypeOK, RequestOK
<1>9. CASE UpdateRejected(r) \/ InvalidateCache(r) \/ Publish(r)
  BY <1>0, <1>9, SMTT(20) DEF UpdateRejected, InvalidateCache, Publish, Goto, Finish
<1>10. CASE SetCache(r)
  BY <1>0, <1>10, SMTT(20) DEF SetCache, AfterRepository, Goto, Finish, Post
<1> QED BY <1>1, <1>2, <1>3, <1>4, <1>5, <1>6, <1>7, <1>8, <1>9, <1>10 DEF RequestStep

LEMMA SpotHolder ==
  ASSUME TypeInv, CallInv, ReservedHasHolder, NEW r \in Requests, SpotStep(r)
  PROVE  ReservedHasHolder'
<1> SUFFICES ASSUME NEW s \in Spots, spot'[s] = "RESERVED" PROVE Holder(s)'
  BY DEF ReservedHasHolder, Holder
<1>0. /\ call \in [Requests -> Calls] /\ spot \in [Spots -> SpotStatuses \union {"deleted"}]
      /\ spot[s] = "RESERVED" => Holder(s)
      /\ UNCHANGED <<rowVars, req, excused>>
  BY DEF TypeInv, TypeOK, SpotTypeOK, ReservedHasHolder, Holder, SpotStep, DropReply
<1> USE DEF AnswersFor, At, Reply, Calls, NoCall, Holder, Live, rowVars, SetSpot, Occupied
<1>1. CASE ReserveSpotRead(r)
  BY <1>0, <1>1, SMTT(20) DEF ReserveSpotRead
<1>2. CASE ReserveSpotWrite(r)
  BY <1>0, <1>2, SMTT(20) DEF ReserveSpotWrite
<1>3. CASE ReleaseSpotRead(r)
  BY <1>0, <1>3, SMTT(20) DEF ReleaseSpotRead, Releasable
<1>4. CASE ReleaseSpotWrite(r)
  BY <1>0, <1>4, SMTT(20) DEF ReleaseSpotWrite
<1>5. CASE UpdateSpotStatus(r)
  BY <1>0, <1>5, SMTT(20) DEF UpdateSpotStatus
<1>6. CASE DropReply(r)
  BY <1>0, <1>6, SMTT(20) DEF DropReply, TakeReply, Waiting, Replied, CallInv, CallOK
<1> QED BY <1>1, <1>2, <1>3, <1>4, <1>5, <1>6 DEF SpotStep, ServeCall

LEMMA FaultHolder ==
  ASSUME TypeInv, CallInv, ReservedHasHolder, Fault
  PROVE  ReservedHasHolder'
<1> SUFFICES ASSUME NEW s \in Spots, spot'[s] = "RESERVED" PROVE Holder(s)'
  BY DEF ReservedHasHolder, Holder
<1>0. /\ call \in [Requests -> Calls] /\ req \in [Requests -> RequestStates]
      /\ spot' = spot /\ Holder(s)
  BY DEF TypeInv, TypeOK, SpotTypeOK, ReservedHasHolder, Holder, Fault, ClientTimeout,
     CallFails, StatementFails, InsertUnacknowledged,
     UpdateUnacknowledged, CacheFails, PublishFails, ContextCancelled, Crash
<1> USE DEF AnswersFor, At, Holder, Live, Idle, RequestStates
<1>1. ASSUME NEW r \in Requests, ClientTimeout(r) PROVE Holder(s)'
  BY <1>0, <1>1, SMTT(20) DEF ClientTimeout, AfterCall, Goto, Finish, Waiting, rowVars
<1>2. ASSUME NEW r \in Requests, CallFails(r) PROVE Holder(s)'
  BY <1>0, <1>2, SMTT(20) DEF CallFails, Reply, Calls, rowVars, NoCall
<1>3. ASSUME NEW r \in Requests, StatementFails(r) PROVE Holder(s)'
  BY <1>0, <1>3, SMTT(20) DEF StatementFails, GiveUpSpot, Goto, Finish, Post, rowVars,
     CallInv, CallOK, NoCall
<1>4. ASSUME NEW r \in Requests, NEW b \in Bookings, InsertUnacknowledged(r, b) PROVE
   Holder(s)'
  BY <1>0, <1>4, SMTT(20) DEF InsertUnacknowledged, InsertRow, GiveUpSpot, Goto, Post,
     CallInv, CallOK, NoCall, TypeInv, TypeOK, LiveStatuses
<1>5. ASSUME NEW r \in Requests, UpdateUnacknowledged(r) PROVE Holder(s)'
  BY <1>0, <1>5, SMTT(20) DEF UpdateUnacknowledged, UpdateRow, Finish, TypeInv, TypeOK
<1>6. ASSUME NEW r \in Requests, CacheFails(r) PROVE Holder(s)'
  BY <1>0, <1>6, SMTT(20) DEF CacheFails, AfterRepository, Decide, Goto, Finish, Post,
     CallInv, CallOK, NoCall, rowVars
<1>7. ASSUME NEW r \in Requests, PublishFails(r) PROVE Holder(s)'
  BY <1>0, <1>7, SMTT(20) DEF PublishFails, Finish, rowVars
<1>8. ASSUME NEW r \in Requests, ContextCancelled(r) PROVE Holder(s)'
  BY <1>0, <1>8, SMTT(20), SpotAssumption DEF ContextCancelled, Goto, Finish, rowVars
<1>9. CASE Crash
  BY <1>0, <1>9, SMTT(20), SpotAssumption DEF Crash, rowVars
<1> QED BY <1>1, <1>2, <1>3, <1>4, <1>5, <1>6, <1>7, <1>8, <1>9 DEF Fault

LEMMA NextHolder ==
  ASSUME TypeInv, CallInv, ReservedHasHolder, [Next]_vars
  PROVE  ReservedHasHolder'
<1>1. ASSUME NEW r \in Requests, NEW s \in Spots, NEW i \in Slots, BeginCreate(r, s, i)
      PROVE  ReservedHasHolder'
  BY <1>1, SMTT(20) DEF BeginCreate, Post, Free, ReservedHasHolder, AnswersFor, Live, Idle,
     NoCall, TypeInv, TypeOK, SpotTypeOK, rowVars
<1>2. ASSUME NEW r \in Requests, NEW op \in UserOps, NEW b \in Bookings, BeginOn(r, op, b)
      PROVE  ReservedHasHolder'
  BY <1>2, SMTT(20) DEF BeginOn, Free, ReservedHasHolder, AnswersFor, Live, Idle, TypeInv,
     TypeOK, rowVars
<1>3. CASE Tick \/ \E b \in Bookings : Expire(b)
  BY <1>3 DEF Tick, Expire, ReservedHasHolder, AnswersFor, Live, rowVars
<1>4. ASSUME NEW s \in Spots, NEW st \in OperatorStatuses, Operator(s, st)
      PROVE  ReservedHasHolder'
  BY <1>4 DEF Operator, OperatorSets, ReservedHasHolder, AnswersFor, Live, rowVars, TypeInv,
     TypeOK, SpotTypeOK
<1>5. CASE UNCHANGED vars
  BY <1>5 DEF vars, rowVars, ReservedHasHolder, AnswersFor, Live
<1> QED BY <1>1, <1>2, <1>3, <1>4, <1>5, RequestHolder, SpotHolder, FaultHolder
        DEF Next, CreateBooking, QuickBooking

\* No interleaving of the handlers of the two services orphans a reservation:
\* a RESERVED spot has a live booking, or a request that answers for it, unless
\* a fault or an operator struck the spot (CreateBooking, CancelBooking,
\* CompleteBooking and the release on CreateBooking's error path).
THEOREM ReservedHasHolderHolds == Spec => []ReservedHasHolder
<1>1. Init => CallInv /\ ReservedHasHolder
  BY InitCallInv DEF Init, SpotInit, ReservedHasHolder
<1>2. TypeInv /\ CallInv /\ ReservedHasHolder /\ [Next]_vars
        => CallInv' /\ ReservedHasHolder'
  BY NextCallInv, NextHolder
<1> QED BY <1>1, <1>2, TypeInvHolds, PTL DEF Spec
=============================================================================
