---------------------- MODULE ReservationHistoryProofs ----------------------
(***************************************************************************)
(* NoStageSkipped, AnnouncedHappened, what DecisionAnnounced rests on, and *)
(* the refinement of BookingStages, for every value of the constants.      *)
(***************************************************************************)
EXTENDS ReservationHistory, ReservationProofs

-----------------------------------------------------------------------------
(* A stale status is still one the booking has had: that is true of every  *)
(* place a status is copied to - the row, the cached copy and what each    *)
(* request has read - and makes NoStageSkipped inductive.                  *)

RowHeld == \A b \in Bookings : status[b] # "absent" => status[b] \in held[b]

CacheHeld == \A b \in Bookings : cache[b] = "none" \/ cache[b] \in held[b]

\* What request r has read, and what it decided from it.
SeenHeld(r) ==
    /\ req[r].pc \in {"filling", "updating", "invalidating", "caching"} =>
         req[r].seen \in held[req[r].booking]
    /\ req[r].pc = "updating" => CanTransitionTo(req[r].seen, Target(req[r].op))

HistoryInv ==
    /\ held \in [Bookings -> SUBSET Statuses]
    /\ RowHeld /\ CacheHeld /\ \A r \in Requests : SeenHeld(r)
    /\ NoStageSkipped

\* The history observes Reservation and adds no behaviour.
LEMMA HistoryRefines == HistorySpec => Spec
<1>1. HistoryInit => Init
  BY DEF HistoryInit
<1>2. [HistoryNext]_historyVars => [Next]_vars
  BY DEF HistoryNext, historyVars
<1> QED BY <1>1, <1>2, PTL DEF HistorySpec, Spec

LEMMA InitHistoryInv == HistoryInit => HistoryInv
  BY DEF HistoryInit, Init, HistoryInv, RowHeld, CacheHeld, SeenHeld, NoStageSkipped, Idle

\* What a step does to held, with the types of the two states.
LEMMA HeldGrows ==
  ASSUME TypeInv, TypeInv', HistoryInv,
         held' = [b \in Bookings |-> held[b] \union ({status'[b]} \ {"absent"})]
  PROVE  /\ held' \in [Bookings -> SUBSET Statuses]
         /\ RowHeld'
         /\ \A b \in Bookings : held[b] \subseteq held'[b]
<1>1. /\ held \in [Bookings -> SUBSET Statuses]
      /\ \A b \in Bookings : status'[b] \in Statuses \union {"absent"}
  BY DEF TypeInv, TypeOK, HistoryInv
<1>2. \A b \in Bookings : held'[b] = held[b] \union ({status'[b]} \ {"absent"})
  OBVIOUS
<1>3. \A b \in Bookings : held'[b] \in SUBSET Statuses
  BY <1>1, <1>2
<1> QED BY <1>2, <1>3 DEF RowHeld

\* The requests and the cache, over a step that enlarges held.
LEMMA CopiesHeld ==
  ASSUME TypeInv, TypeInv', HistoryInv, RowHeld', [Next]_vars,
         \A b \in Bookings : held[b] \subseteq held'[b]
  PROVE  CacheHeld' /\ \A r \in Requests : SeenHeld(r)'
<1>0. /\ req \in [Requests -> RequestStates] /\ cache \in [Bookings -> Statuses \union {"none"}]
      /\ \A r \in Requests : req[r].pc \notin Creating \union {"idle"} =>
             req[r].booking \in Bookings /\ status[req[r].booking] # "absent"
      /\ CacheHeld /\ RowHeld /\ \A r \in Requests : SeenHeld(r)
  BY DEF TypeInv, TypeOK, RequestOK, HistoryInv
<1> USE DEF CacheHeld, SeenHeld, Creating, At
<1>1. ASSUME NEW r \in Requests, NEW s \in Spots, NEW i \in Slots, BeginCreate(r, s, i)
      PROVE  CacheHeld' /\ \A q \in Requests : SeenHeld(q)'
  BY <1>0, <1>1, SMTT(20) DEF BeginCreate
<1>2. ASSUME NEW r \in Requests, NEW op \in UserOps, NEW b \in Bookings, BeginOn(r, op, b)
      PROVE  CacheHeld' /\ \A q \in Requests : SeenHeld(q)'
  BY <1>0, <1>2, SMTT(20) DEF BeginOn
<1>3. ASSUME NEW r \in Requests, RequestStep(r)
      PROVE  CacheHeld' /\ \A q \in Requests : SeenHeld(q)'
  <2>1. CASE ReserveReturned(r) \/ CheckConflict(r) \/ InsertRejected(r) \/ UndoReturned(r)
    BY <1>0, <2>1, SMTT(20) DEF ReserveReturned, CheckConflict, InsertRejected, UndoReturned,
       GiveUpSpot, Goto, Finish, RequestStates, Idle
  <2>2. CASE \E b \in Bookings : InsertBooking(r, b)
    BY <1>0, <2>2, SMTT(20) DEF InsertBooking, InsertRow, RequestStates, RowHeld, TypeInv,
       TypeOK
  <2>3. CASE ReadCache(r)
    BY <1>0, <2>3, SMTT(20) DEF ReadCache, Decide, Permitted, Goto, Finish, RequestStates, Idle
  <2>4. CASE ReadRow(r)
    BY <1>0, <2>4, SMTT(20) DEF ReadRow, RequestStates, RowHeld
  <2>5. CASE FillCache(r)
    BY <1>0, <2>5, SMTT(20) DEF FillCache, Decide, Permitted, Finish, RequestStates, Idle
  <2>6. CASE UpdateStatus(r)
    <3> DEFINE b  == req[r].booking
               st == Target(req[r].op)
               x  == [req[r] EXCEPT !.pc = "invalidating", !.seen = st, !.spot = spotOf[b]]
    <3>1. req[r] \in RequestStates /\ b \in Bookings /\ st \in Statuses
      BY <1>0, <2>6, TargetType DEF UpdateStatus, TypeInv, RequestOK
    <3>2. req' = [req EXCEPT ![r] = x]
      BY <2>6, Zenon DEF UpdateStatus
    <3>3. x.pc = "invalidating" /\ x.seen = st /\ x.booking = b
      BY <3>1 DEF RequestStates
    <3>4. status'[b] = st /\ UNCHANGED cache
      BY <2>6, <3>1 DEF UpdateStatus, UpdateRow, TypeInv, TypeOK
    <3>5. st \in held'[b]
      BY <3>1, <3>4 DEF RowHeld, Statuses
    <3> HIDE DEF x, b, st
    <3>6. req'[r] = x /\ \A q \in Requests \ {r} : req'[q] = req[q]
      BY <1>0, <3>2
    <3>7. CacheHeld'
      BY <1>0, <3>4
    <3>8. ASSUME NEW q \in Requests PROVE SeenHeld(q)'
      <4>1. CASE q = r
        BY <3>3, <3>5, <3>6, <4>1
      <4>2. CASE q # r
        BY <1>0, <3>6, <4>2
      <4> QED BY <4>1, <4>2
    <3> QED BY <3>7, <3>8
  <2>7. CASE UpdateRejected(r) \/ InvalidateCache(r) \/ CallReturned(r) \/ Publish(r)
    BY <1>0, <2>7, SMTT(20) DEF UpdateRejected, InvalidateCache, CallReturned, Publish,
       AfterCall, Goto, Finish, RequestStates, Idle
  <2>8. CASE SetCache(r)
    BY <1>0, <2>8, SMTT(20) DEF SetCache, CachedStatus, AfterRepository, Goto, Finish,
       RequestStates, Idle
  <2> QED BY <1>3, <2>1, <2>2, <2>3, <2>4, <2>5, <2>6, <2>7, <2>8 DEF RequestStep
<1>4. ASSUME NEW r \in Requests, SpotStep(r)
      PROVE  CacheHeld' /\ \A q \in Requests : SeenHeld(q)'
  BY <1>0, <1>4 DEF SpotStep, DropReply
<1>5. ASSUME NEW b \in Bookings, Expire(b)
      PROVE  CacheHeld' /\ \A q \in Requests : SeenHeld(q)'
  BY <1>0, <1>5 DEF Expire
<1>6. CASE Tick \/ (\E s \in Spots, st \in OperatorStatuses : Operator(s, st)) \/ UNCHANGED vars
  BY <1>0, <1>6 DEF Tick, Operator, vars
<1>7. CASE Fault
  <2>1. ASSUME NEW r \in Requests, CacheFails(r)
        PROVE  CacheHeld' /\ \A q \in Requests : SeenHeld(q)'
    BY <1>0, <2>1, SMTT(20) DEF CacheFails, AfterRepository, Decide, Permitted, Goto, Finish,
       RequestStates, Idle
  <2>2. ASSUME NEW r \in Requests,
               \/ ClientTimeout(r) \/ CallFails(r) \/ StatementFails(r) \/ PublishFails(r)
               \/ ContextCancelled(r) \/ UpdateUnacknowledged(r)
               \/ \E b \in Bookings : InsertUnacknowledged(r, b)
        PROVE  CacheHeld' /\ \A q \in Requests : SeenHeld(q)'
    BY <1>0, <2>2, SMTT(20) DEF ClientTimeout, CallFails, StatementFails, PublishFails,
       ContextCancelled, UpdateUnacknowledged, InsertUnacknowledged, AfterCall, GiveUpSpot,
       Goto, Finish, RequestStates, Idle
  <2>3. CASE Crash
    BY <1>0, <2>3 DEF Crash, Idle
  <2> QED BY <1>7, <2>1, <2>2, <2>3 DEF Fault
<1> QED BY <1>1, <1>2, <1>3, <1>4, <1>5, <1>6, <1>7 DEF Next, CreateBooking, QuickBooking

\* Where a status can come from: the INSERT, or the UPDATE of a request that
\* has tested a status the booking has had.
LEMMA NewStatus ==
  ASSUME TypeInv, HistoryInv, [Next]_vars, NEW b \in Bookings
  PROVE  \/ status'[b] = status[b]
         \/ status'[b] = "pending"
         \/ \E before \in held[b] : CanTransitionTo(before, status'[b])
<1>1. ASSUME NEW r \in Requests, NEW c \in Bookings, InsertRow(c, req[r].spot, req[r].slot)
      PROVE  status'[b] = status[b] \/ status'[b] = "pending"
  BY <1>1 DEF InsertRow, TypeInv, TypeOK
<1>2. ASSUME NEW r \in Requests, At(r, "updating"),
             UpdateRow(req[r].booking, Target(req[r].op))
      PROVE  \/ status'[b] = status[b]
             \/ \E before \in held[b] : CanTransitionTo(before, status'[b])
  <2>1. req[r].seen \in held[req[r].booking] /\ CanTransitionTo(req[r].seen, Target(req[r].op))
    BY <1>2 DEF HistoryInv, SeenHeld, At
  <2>2. status' = [status EXCEPT ![req[r].booking] = Target(req[r].op)]
    BY <1>2 DEF UpdateRow
  <2> QED BY <2>1, <2>2 DEF TypeInv, TypeOK
<1> QED BY <1>1, <1>2, RowChanges DEF rowVars

LEMMA NextHistoryInv ==
  ASSUME TypeInv, TypeInv', HistoryInv, [HistoryNext]_historyVars
  PROVE  HistoryInv'
<1>1. CASE UNCHANGED historyVars
  BY <1>1 DEF historyVars, vars, rowVars, HistoryInv, RowHeld, CacheHeld, SeenHeld,
     NoStageSkipped
<1>2. CASE HistoryNext
  <2>1. held' = [b \in Bookings |-> held[b] \union ({status'[b]} \ {"absent"})] /\ Next
    BY <1>2 DEF HistoryNext
  <2>2. /\ held' \in [Bookings -> SUBSET Statuses] /\ RowHeld'
        /\ \A b \in Bookings : held[b] \subseteq held'[b]
    BY <2>1, HeldGrows
  <2>3. CacheHeld' /\ \A r \in Requests : SeenHeld(r)'
    BY <2>1, <2>2, CopiesHeld
  <2>4. NoStageSkipped'
    <3> SUFFICES ASSUME NEW b \in Bookings, NEW st \in held'[b] \ {"pending"}
                 PROVE  \E before \in held'[b] : CanTransitionTo(before, st)
      BY DEF NoStageSkipped
    <3>1. CASE st \in held[b]
      BY <2>2, <3>1 DEF HistoryInv, NoStageSkipped
    <3>2. CASE st \notin held[b]
      <4>1. st = status'[b] /\ st # "absent"
        BY <2>1, <3>2
      <4>2. status'[b] # status[b]
        BY <3>2, <4>1 DEF HistoryInv, RowHeld
      <4> QED BY <2>1, <2>2, <4>1, <4>2, NewStatus
    <3> QED BY <3>1, <3>2
  <2> QED BY <2>2, <2>3, <2>4 DEF HistoryInv
<1> QED BY <1>1, <1>2

\* However stale the status a request acted on - an old cached copy, or a row
\* read before another request's UPDATE - no booking reaches a status without
\* having had one that CanTransitionTo allows it from: none is ever active or
\* completed that was not confirmed.
THEOREM NoStageSkippedHolds == HistorySpec => []NoStageSkipped
<1>1. HistorySpec => Spec
  BY HistoryRefines
<1>2. HistoryInit => HistoryInv
  BY InitHistoryInv
<1>3. TypeInv /\ TypeInv' /\ HistoryInv /\ [HistoryNext]_historyVars => HistoryInv'
  BY NextHistoryInv
<1>4. HistoryInv => NoStageSkipped
  BY DEF HistoryInv
<1> QED BY <1>1, <1>2, <1>3, <1>4, TypeInvHolds, PTL DEF HistorySpec

\* The types of Reservation with its history: a booking only ever has statuses
\* of the enumeration.
THEOREM HistoryTypeCorrect == HistorySpec => []HistoryTypeOK
<1>1. HistorySpec => Spec
  BY HistoryRefines
<1>2. TypeInv /\ TypeInv' /\ HistoryInv /\ [HistoryNext]_historyVars => HistoryInv'
  BY NextHistoryInv
<1>3. TypeInv /\ HistoryInv => HistoryTypeOK
  BY DEF TypeInv, HistoryInv, HistoryTypeOK
<1> QED BY <1>1, <1>2, <1>3, InitHistoryInv, TypeInvHolds, PTL DEF HistorySpec

-----------------------------------------------------------------------------
(* Announced means happened.                                               *)

\* A request that may still publish has written the row it is going to tell of.
DecidedHeld(r) ==
    /\ req[r].pc \in {"invalidating", "caching", "calling", "publishing"}
    /\ req[r].op \in EventKinds
    => Target(req[r].op) \in held[req[r].booking]

AnnounceInv == AnnouncedHappened /\ \A r \in Requests : DecidedHeld(r)

\* held only grows, so requests that stay behind their UPDATE, or publish
\* nothing, stay right.
LEMMA NextDecided ==
  ASSUME TypeInv, TypeInv', AnnounceInv, RowHeld', [Next]_vars,
         \A b \in Bookings : held[b] \subseteq held'[b]
  PROVE  \A q \in Requests : DecidedHeld(q)'
<1>0. /\ req \in [Requests -> RequestStates]
      /\ \A r \in Requests : req[r].pc \notin Creating \union {"idle"} =>
             req[r].booking \in Bookings
      /\ \A r \in Requests : DecidedHeld(r)
  BY DEF TypeInv, TypeOK, RequestOK, AnnounceInv
<1> USE DEF DecidedHeld, Creating, At
<1>1. ASSUME NEW r \in Requests, NEW s \in Spots, NEW i \in Slots, BeginCreate(r, s, i)
      PROVE  \A q \in Requests : DecidedHeld(q)'
  BY <1>0, <1>1, SMTT(20) DEF BeginCreate
<1>2. ASSUME NEW r \in Requests, NEW op \in UserOps, NEW b \in Bookings, BeginOn(r, op, b)
      PROVE  \A q \in Requests : DecidedHeld(q)'
  BY <1>0, <1>2, SMTT(20) DEF BeginOn
<1>3. ASSUME NEW r \in Requests, RequestStep(r)
      PROVE  \A q \in Requests : DecidedHeld(q)'
  <2>1. CASE ReserveReturned(r) \/ CheckConflict(r) \/ InsertRejected(r) \/ UndoReturned(r)
    BY <1>0, <2>1, SMTT(20) DEF ReserveReturned, CheckConflict, InsertRejected, UndoReturned,
       GiveUpSpot, Goto, Finish, RequestStates, Idle
  <2>2. CASE \E b \in Bookings : InsertBooking(r, b)
    <3>1. req[r].op = "create"
      BY <2>2 DEF InsertBooking, TypeInv, RequestOK
    <3> QED BY <1>0, <2>2, <3>1, SMTT(20) DEF InsertBooking, RequestStates, EventKinds
  <2>3. CASE ReadCache(r)
    BY <1>0, <2>3, SMTT(20) DEF ReadCache, Decide, Goto, Finish, RequestStates, Idle
  <2>4. CASE ReadRow(r)
    BY <1>0, <2>4, SMTT(20) DEF ReadRow, RequestStates
  <2>5. CASE FillCache(r)
    BY <1>0, <2>5, SMTT(20) DEF FillCache, Decide, Finish, RequestStates, Idle
  <2>6. CASE UpdateStatus(r)
    <3> DEFINE b  == req[r].booking
               st == Target(req[r].op)
               x  == [req[r] EXCEPT !.pc = "invalidating", !.seen = st, !.spot = spotOf[b]]
    <3>1. req[r] \in RequestStates /\ b \in Bookings /\ st \in Statuses
      BY <1>0, <2>6, TargetType DEF UpdateStatus, TypeInv, RequestOK
    <3>2. req' = [req EXCEPT ![r] = x]
      BY <2>6, Zenon DEF UpdateStatus
    <3>3. x.booking = b /\ Target(x.op) = st
      BY <3>1 DEF RequestStates
    <3>4. status'[b] = st
      BY <2>6, <3>1 DEF UpdateStatus, UpdateRow, TypeInv, TypeOK
    <3>5. st \in held'[b]
      BY <3>1, <3>4 DEF RowHeld, Statuses
    <3> HIDE DEF x, b, st
    <3>6. req'[r] = x /\ \A q \in Requests \ {r} : req'[q] = req[q]
      BY <1>0, <3>2
    <3> SUFFICES ASSUME NEW q \in Requests PROVE DecidedHeld(q)'
      OBVIOUS
    <3>7. CASE q = r
      BY <3>3, <3>5, <3>6, <3>7
    <3>8. CASE q # r
      BY <1>0, <3>6, <3>8
    <3> QED BY <3>7, <3>8
  <2>7. CASE UpdateRejected(r) \/ InvalidateCache(r) \/ CallReturned(r) \/ Publish(r)
    BY <1>0, <2>7, SMTT(20) DEF UpdateRejected, InvalidateCache, CallReturned, Publish,
       AfterCall, Goto, Finish, RequestStates, Idle
  <2>8. CASE SetCache(r)
    BY <1>0, <2>8, SMTT(20) DEF SetCache, AfterRepository, Goto, Finish, RequestStates, Idle
  <2> QED BY <1>3, <2>1, <2>2, <2>3, <2>4, <2>5, <2>6, <2>7, <2>8 DEF RequestStep
<1>4. CASE \/ \E r \in Requests : SpotStep(r)
           \/ Tick \/ (\E b \in Bookings : Expire(b)) \/ UNCHANGED vars
           \/ \E s \in Spots, st \in OperatorStatuses : Operator(s, st)
  BY <1>0, <1>4 DEF SpotStep, DropReply, Tick, Expire, Operator, vars
<1>5. CASE Fault
  <2>1. ASSUME NEW r \in Requests, CacheFails(r) PROVE \A q \in Requests : DecidedHeld(q)'
    BY <1>0, <2>1, SMTT(20) DEF CacheFails, AfterRepository, Decide, Goto, Finish,
       RequestStates, Idle
  <2>2. ASSUME NEW r \in Requests, ClientTimeout(r) \/ ContextCancelled(r)
        PROVE  \A q \in Requests : DecidedHeld(q)'
    BY <1>0, <2>2, SMTT(20) DEF ClientTimeout, ContextCancelled, AfterCall, Waiting, Goto,
       Finish, RequestStates, Idle
  <2>3. ASSUME NEW r \in Requests,
               \/ CallFails(r) \/ StatementFails(r) \/ PublishFails(r)
               \/ UpdateUnacknowledged(r) \/ \E b \in Bookings : InsertUnacknowledged(r, b)
        PROVE  \A q \in Requests : DecidedHeld(q)'
    BY <1>0, <2>3, SMTT(20) DEF CallFails, StatementFails, PublishFails,
       UpdateUnacknowledged, InsertUnacknowledged, GiveUpSpot, Goto, Finish, RequestStates,
       Idle
  <2>4. CASE Crash
    BY <1>0, <2>4 DEF Crash, Idle
  <2> QED BY <1>5, <2>1, <2>2, <2>3, <2>4 DEF Fault
<1> QED BY <1>1, <1>2, <1>3, <1>4, <1>5 DEF Next, CreateBooking, QuickBooking

\* The only step that publishes.
LEMMA EventsGrow ==
  ASSUME [Next]_vars
  PROVE  \/ events' = events
         \/ \E r \in Requests : /\ req[r].pc = "publishing"
                               /\ events' = events \union {<<req[r].op, req[r].booking>>}
BY DEF Next, CreateBooking, QuickBooking, BeginCreate, BeginOn, RequestStep, ReserveReturned,
   CheckConflict, InsertBooking, InsertRejected, UndoReturned, ReadCache, ReadRow, FillCache,
   UpdateStatus, UpdateRejected, InvalidateCache, SetCache, CallReturned, Publish, At,
   SpotStep, DropReply, Tick, Expire, Operator, Fault, ClientTimeout, CallFails,
   StatementFails, InsertUnacknowledged, UpdateUnacknowledged, CacheFails, PublishFails,
   ContextCancelled, Crash, vars

LEMMA NextAnnounce ==
  ASSUME TypeInv, TypeInv', HistoryInv, AnnounceInv, [HistoryNext]_historyVars
  PROVE  AnnounceInv'
<1>1. CASE UNCHANGED historyVars
  BY <1>1 DEF historyVars, vars, AnnounceInv, AnnouncedHappened, DecidedHeld
<1>2. CASE HistoryNext
  <2>1. held' = [b \in Bookings |-> held[b] \union ({status'[b]} \ {"absent"})] /\ Next
    BY <1>2 DEF HistoryNext
  <2>2. RowHeld' /\ \A b \in Bookings : held[b] \subseteq held'[b]
    BY <2>1, HeldGrows
  <2>3. \A r \in Requests : DecidedHeld(r)'
    BY <2>1, <2>2, NextDecided
  <2>4. AnnouncedHappened'
    <3> SUFFICES ASSUME NEW b \in Bookings, NEW k \in EventKinds, <<k, b>> \in events'
                 PROVE  Target(k) \in held'[b]
      BY DEF AnnouncedHappened
    <3>1. CASE <<k, b>> \in events
      BY <2>2, <3>1 DEF AnnounceInv, AnnouncedHappened
    <3>2. CASE <<k, b>> \notin events
      <4>1. PICK r \in Requests : /\ req[r].pc = "publishing"
                                  /\ events' = events \union {<<req[r].op, req[r].booking>>}
        BY <2>1, <3>2, EventsGrow
      <4>2. req[r].op = k /\ req[r].booking = b
        BY <3>2, <4>1
      <4> QED BY <2>2, <4>1, <4>2 DEF AnnounceInv, DecidedHeld
    <3> QED BY <3>1, <3>2
  <2> QED BY <2>3, <2>4 DEF AnnounceInv
<1> QED BY <1>1, <1>2

\* No user is told of a confirmation or a cancellation that did not happen:
\* the events of ConfirmBooking and CancelBooking follow the row, through every
\* time-out, failed statement, hang-up and crash.
THEOREM AnnouncedHappenedHolds == HistorySpec => []AnnouncedHappened
<1>1. HistorySpec => Spec
  BY HistoryRefines
<1>2. HistoryInit => HistoryInv /\ AnnounceInv
  BY InitHistoryInv DEF HistoryInit, Init, AnnounceInv, AnnouncedHappened, DecidedHeld, Idle
<1>3. TypeInv /\ TypeInv' /\ HistoryInv /\ AnnounceInv /\ [HistoryNext]_historyVars
        => HistoryInv' /\ AnnounceInv'
  BY NextHistoryInv, NextAnnounce
<1>4. AnnounceInv => AnnouncedHappened
  BY DEF AnnounceInv
<1> QED BY <1>1, <1>2, <1>3, <1>4, TypeInvHolds, PTL DEF HistorySpec

-----------------------------------------------------------------------------
(* What DecisionAnnounced needs besides fairness.                          *)

\* Request r has decided k of booking b and has not published it yet.
OwesEvent(r, k, b) ==
    /\ req[r].op = k /\ req[r].booking = b
    /\ req[r].pc \in {"invalidating", "caching", "calling", "publishing"}
    /\ req[r].pc = "calling" => k = "cancel"

\* Without a fault every confirmation and cancellation there ever was has its
\* event, or a request that is on the way to it.
DecisionOwed ==
    faults = 0 => \A b \in Bookings, k \in EventKinds :
        Target(k) \in held[b] => <<k, b>> \in events \/ \E r \in Requests : OwesEvent(r, k, b)

\* A request that owes an event goes on owing it until it has published it.
LEMMA DebtKept ==
  ASSUME TypeInv, ~Fault, [Next]_vars,
         NEW r \in Requests, NEW b \in Bookings, NEW k \in EventKinds, OwesEvent(r, k, b)
  PROVE  OwesEvent(r, k, b)' \/ <<k, b>> \in events'
<1>0. req \in [Requests -> RequestStates]
  BY DEF TypeInv, TypeOK
<1> USE DEF OwesEvent, At
<1>1. ASSUME req'[r] = req[r] PROVE OwesEvent(r, k, b)'
  BY <1>1
<1>2. ASSUME NEW q \in Requests,
             \/ \E s \in Spots, i \in Slots : BeginCreate(q, s, i)
             \/ \E op \in UserOps, c \in Bookings : BeginOn(q, op, c)
      PROVE  OwesEvent(r, k, b)'
  BY <1>0, <1>1, <1>2, SMTT(20) DEF BeginCreate, BeginOn, Free, Idle
<1>3. ASSUME NEW q \in Requests, RequestStep(q), q # r PROVE OwesEvent(r, k, b)'
  BY <1>0, <1>1, <1>3 DEF RequestStep, ReserveReturned, CheckConflict, InsertBooking,
     InsertRejected, UndoReturned, ReadCache, ReadRow, FillCache, UpdateStatus,
     UpdateRejected, InvalidateCache, SetCache, CallReturned, Publish, GiveUpSpot, Decide,
     AfterRepository, AfterCall, Goto, Finish
<1>4. ASSUME RequestStep(r) PROVE OwesEvent(r, k, b)' \/ <<k, b>> \in events'
  <2>1. \/ InvalidateCache(r) \/ SetCache(r) \/ CallReturned(r) \/ Publish(r)
    BY <1>4 DEF RequestStep, ReserveReturned, CheckConflict, InsertBooking, InsertRejected,
       UndoReturned, ReadCache, ReadRow, FillCache, UpdateStatus, UpdateRejected
  <2>2. CASE InvalidateCache(r)
    BY <1>0, <2>2 DEF InvalidateCache, Goto, RequestStates
  <2>3. CASE SetCache(r)
    BY <1>0, <2>3, SMTT(20) DEF SetCache, AfterRepository, Goto, RequestStates, EventKinds
  <2>4. CASE CallReturned(r)
    BY <1>0, <2>4 DEF CallReturned, AfterCall, Goto, RequestStates
  <2>5. CASE Publish(r)
    BY <2>5 DEF Publish
  <2> QED BY <2>1, <2>2, <2>3, <2>4, <2>5
<1>5. CASE \/ \E q \in Requests : SpotStep(q)
           \/ Tick \/ (\E c \in Bookings : Expire(c)) \/ UNCHANGED vars
           \/ \E s \in Spots, st \in OperatorStatuses : Operator(s, st)
  BY <1>1, <1>5 DEF SpotStep, DropReply, Tick, Expire, Operator, vars
<1> QED BY <1>2, <1>3, <1>4, <1>5 DEF Next, CreateBooking, QuickBooking

\* A decision enters held by an UPDATE, whose request then owes its event.
LEMMA DebtIncurred ==
  ASSUME TypeInv, ~Fault, [Next]_vars, NEW b \in Bookings, NEW k \in EventKinds,
         status'[b] = Target(k), status[b] # Target(k)
  PROVE  \E r \in Requests : OwesEvent(r, k, b)'
<1>0. /\ req \in [Requests -> RequestStates]
      /\ status \in [Bookings -> Statuses \union {"absent"}]
  BY DEF TypeInv, TypeOK
<1>1. PICK r \in Requests : (\E c \in Bookings : InsertBooking(r, c)) \/ UpdateStatus(r)
  BY DEF Next, CreateBooking, QuickBooking, BeginCreate, BeginOn, RequestStep,
     ReserveReturned, CheckConflict, InsertRejected, UndoReturned, ReadCache, ReadRow,
     FillCache, UpdateRejected, InvalidateCache, SetCache, CallReturned, Publish, SpotStep,
     DropReply, Tick, Expire, Operator, vars, rowVars
<1>2. ~\E c \in Bookings : InsertBooking(r, c)
  BY <1>0 DEF InsertBooking, InsertRow, EventKinds, Target
<1>3. UpdateStatus(r)
  BY <1>1, <1>2
<1> DEFINE c == req[r].booking
           x == [req[r] EXCEPT !.pc = "invalidating", !.seen = Target(req[r].op),
                               !.spot = spotOf[c]]
<1>4. req[r] \in RequestStates /\ req[r].op \in Transitions /\ c \in Bookings
  BY <1>0, <1>3 DEF UpdateStatus, At, TypeInv, RequestOK, Creating
<1>5. status' = [status EXCEPT ![c] = Target(req[r].op)]
  BY <1>3 DEF UpdateStatus, UpdateRow
<1>6. c = b /\ req[r].op = k
  BY <1>0, <1>4, <1>5 DEF Transitions, EventKinds, Target
<1>7. req' = [req EXCEPT ![r] = x]
  BY <1>3, Zenon DEF UpdateStatus
<1>8. x.pc = "invalidating" /\ x.booking = c /\ x.op = req[r].op
  BY <1>4 DEF RequestStates
<1> HIDE DEF x, c
<1>9. req'[r] = x
  BY <1>0, <1>7
<1> QED BY <1>6, <1>8, <1>9 DEF OwesEvent

LEMMA NextDebt ==
  ASSUME TypeInv, HistoryInv, DecisionOwed, [HistoryNext]_historyVars
  PROVE  DecisionOwed'
<1>1. CASE UNCHANGED historyVars
  BY <1>1 DEF historyVars, vars, DecisionOwed, OwesEvent
<1>2. CASE HistoryNext
  <2> SUFFICES ASSUME faults' = 0, NEW b \in Bookings, NEW k \in EventKinds,
                      Target(k) \in held'[b]
               PROVE  <<k, b>> \in events' \/ \E r \in Requests : OwesEvent(r, k, b)'
    BY DEF DecisionOwed
  <2>1. Next /\ held'[b] = held[b] \union ({status'[b]} \ {"absent"})
    BY <1>2 DEF HistoryNext
  <2>2. ~Fault
    BY DEF Fault, Strike, ClientTimeout, CallFails, StatementFails, InsertUnacknowledged,
       UpdateUnacknowledged, CacheFails, PublishFails, ContextCancelled, Crash, TypeInv,
       TypeOK
  <2>3. faults = 0
    BY <2>1, <2>2 DEF Next, CreateBooking, QuickBooking, BeginCreate, BeginOn, RequestStep,
       ReserveReturned, CheckConflict, InsertBooking, InsertRejected, UndoReturned,
       ReadCache, ReadRow, FillCache, UpdateStatus, UpdateRejected, InvalidateCache,
       SetCache, CallReturned, Publish, SpotStep, DropReply, Tick, Expire, Operator
  <2>4. events \subseteq events'
    BY <2>1, EventsGrow
  <2>5. CASE Target(k) \in held[b]
    BY <2>1, <2>2, <2>3, <2>4, <2>5, DebtKept DEF DecisionOwed
  <2>6. CASE Target(k) \notin held[b]
    <3>1. status'[b] = Target(k)
      BY <2>1, <2>6
    <3>2. status[b] # Target(k)
      BY <2>6 DEF HistoryInv, RowHeld, EventKinds, Target
    <3> QED BY <2>1, <2>2, <3>1, <3>2, DebtIncurred
  <2> QED BY <2>5, <2>6
<1> QED BY <1>1, <1>2

\* The safety half of DecisionAnnounced: for any number of requests that race
\* on stale copies, no confirmation or cancellation is ever forgotten, also not
\* one that another request has overwritten meanwhile.
THEOREM DecisionOwedHolds == HistorySpec => []DecisionOwed
<1>1. HistorySpec => Spec
  BY HistoryRefines
<1>2. HistoryInit => HistoryInv /\ DecisionOwed
  BY InitHistoryInv DEF HistoryInit, DecisionOwed
<1>3. TypeInv /\ TypeInv' /\ HistoryInv /\ DecisionOwed /\ [HistoryNext]_historyVars
        => HistoryInv' /\ DecisionOwed'
  BY NextHistoryInv, NextDebt
<1> QED BY <1>1, <1>2, <1>3, TypeInvHolds, PTL DEF HistorySpec

-----------------------------------------------------------------------------
(* BookingStages.                                                          *)

\* A row that is written is the only thing to enter held.
LEMMA HeldEnters ==
  ASSUME TypeInv, HistoryInv, NEW b \in Bookings, NEW st \in Statuses,
         status' = [status EXCEPT ![b] = st],
         held' = [c \in Bookings |-> held[c] \union ({status'[c]} \ {"absent"})]
  PROVE  Stages!Enter(b, st)
<1>1. /\ status \in [Bookings -> Statuses \union {"absent"}]
      /\ held \in [Bookings -> SUBSET Statuses]
      /\ RowHeld
  BY DEF TypeInv, TypeOK, HistoryInv
<1>2. st # "absent"
  BY DEF Statuses
<1>3. \A c \in Bookings : held'[c] = IF c = b THEN held[b] \union {st} ELSE held[c]
  BY <1>1, <1>2 DEF RowHeld
<1>4. held' = [held EXCEPT ![b] = held[b] \union {st}]
  BY <1>1, <1>3
<1> QED BY <1>4, Zenon DEF Stages!Enter

LEMMA NextStages ==
  ASSUME TypeInv, HistoryInv, [HistoryNext]_historyVars
  PROVE  [Stages!StagesNext]_(Stages!stageVars)
<1>0. /\ status \in [Bookings -> Statuses \union {"absent"}]
      /\ held \in [Bookings -> SUBSET Statuses]
      /\ RowHeld /\ \A r \in Requests : SeenHeld(r)
      /\ \A r \in Requests : req[r].pc = "updating" => req[r].booking \in Bookings
  BY DEF TypeInv, TypeOK, HistoryInv, RequestOK, Creating
<1>1. CASE UNCHANGED historyVars
  BY <1>1 DEF historyVars, vars, rowVars, Stages!stageVars
<1>2. CASE HistoryNext
  <2>0. held' = [b \in Bookings |-> held[b] \union ({status'[b]} \ {"absent"})] /\ Next
    BY <1>2 DEF HistoryNext
  <2>1. CASE UNCHANGED rowVars
    <3>1. status' = status
      BY <2>1 DEF rowVars
    <3>2. \A b \in Bookings : held'[b] = held[b]
      BY <1>0, <2>0, <3>1 DEF RowHeld
    <3>3. held' = held
      BY <1>0, <2>0, <3>2
    <3> QED BY <3>1, <3>3 DEF Stages!stageVars
  <2>2. ASSUME NEW r \in Requests, NEW b \in Bookings, InsertRow(b, req[r].spot, req[r].slot)
        PROVE  Stages!StagesNext
    <3>1. status[b] = "absent" /\ status' = [status EXCEPT ![b] = "pending"]
      BY <2>2 DEF InsertRow
    <3>2. Stages!Enter(b, "pending")
      BY <2>0, <3>1, HeldEnters DEF Statuses
    <3> QED BY <3>1, <3>2 DEF Stages!StagesNext, Stages!Appear
  <2>3. ASSUME NEW r \in Requests, At(r, "updating"),
               UpdateRow(req[r].booking, Target(req[r].op))
        PROVE  Stages!StagesNext
    <3> DEFINE b  == req[r].booking
               to == Target(req[r].op)
    <3>1. b \in Bookings /\ to \in Statuses
      BY <1>0, <2>3 DEF At, Target, Statuses
    <3>2. req[r].seen \in held[b] /\ CanTransitionTo(req[r].seen, to)
      BY <1>0, <2>3 DEF At, SeenHeld
    <3>3. status' = [status EXCEPT ![b] = to]
      BY <2>3 DEF UpdateRow
    <3> HIDE DEF b, to
    <3>4. Stages!Enter(b, to)
      BY <2>0, <3>1, <3>3, HeldEnters
    <3> QED BY <3>1, <3>2, <3>4 DEF Stages!StagesNext, Stages!Move, Stages!MayMove,
            CanTransitionTo, Stages!CanTransitionTo, Statuses, Stages!Statuses
  <2> QED BY <2>0, <2>1, <2>2, <2>3, RowChanges
<1> QED BY <1>1, <1>2

\* booking-service keeps the contract that Payment relies on: every status a
\* booking gets is one CanTransitionTo allows from a status it has had.
THEOREM StagesImplemented == HistorySpec => StagesSpec
<1>1. HistoryInit => Stages!StagesInit
  BY DEF HistoryInit, Init, Stages!StagesInit
<1>2. HistorySpec => [](TypeInv /\ HistoryInv)
  <2>1. HistorySpec => Spec
    BY HistoryRefines
  <2>2. TypeInv /\ TypeInv' /\ HistoryInv /\ [HistoryNext]_historyVars => HistoryInv'
    BY NextHistoryInv
  <2> QED BY <2>1, <2>2, InitHistoryInv, TypeInvHolds, PTL DEF HistorySpec
<1>3. TypeInv /\ HistoryInv /\ [HistoryNext]_historyVars
        => [Stages!StagesNext]_(Stages!stageVars)
  BY NextStages
<1> QED BY <1>1, <1>2, <1>3, PTL DEF HistorySpec, StagesSpec, Stages!StagesSpec
=============================================================================
