----------------------------- MODULE Reservation -----------------------------
(***************************************************************************)
(* booking-service composed with the spots of parking-service.             *)
(*                                                                         *)
(* Every request is a goroutine of booking-service that runs one operation *)
(* of BookingService: CreateBooking, GetBooking, ConfirmBooking,           *)
(* CancelBooking, StartBooking or CompleteBooking.  A step of a request is *)
(* one access to shared state - one Redis command, one SQL statement, one  *)
(* call to parking-service, one NATS publication - so that all the         *)
(* interleavings of concurrent requests are behaviours of the model.       *)
(*                                                                         *)
(* Redis, PostgreSQL, parking-service and NATS can fail under a request,   *)
(* a reply can be late or lost and booking-service can crash; MaxFaults    *)
(* bounds how often.                                                       *)
(***************************************************************************)
EXTENDS BookingStatus, SpotService, FiniteSets

CONSTANTS
    Bookings,    \* booking ids: the UUIDs the database may hand out
    NoBooking,   \* "no booking", not a booking id
    Slots,       \* the intervals users ask for
    UserOps,     \* bound: the operations users ask for on a booking they have
    MaxTime,     \* bound of the clock
    MaxFaults    \* bound on the faults of a behaviour

BookingOps == {"get", "confirm", "cancel", "start", "complete"}

ASSUME ReservationAssumption ==
    /\ NoBooking \notin Bookings
    /\ Slots \subseteq Intervals
    /\ UserOps \subseteq BookingOps
    /\ MaxTime \in Nat
    /\ MaxFaults \in Nat

VARIABLES
    status,    \* status column of each booking, "absent" before its INSERT
    spotOf,    \* spot_id column
    slotOf,    \* start_time and end_time columns
    cache,     \* Redis: the status in the cached copy of a booking, or "none"
    req,       \* what each request is doing
    events,    \* the booking events published to NATS
    now,       \* the clock
    faults,    \* how many faults have struck
    excused    \* history: the spots on which a fault, or an operator, may have
               \* left a reservation behind that nobody answers for

rowVars == <<status, spotOf, slotOf>>
vars == <<spot, call, rowVars, cache, req, events, now, faults, excused>>

-----------------------------------------------------------------------------
(* Requests.                                                               *)

NoSlot == <<0, 0>>

\* Where a request is: the access to shared state that it makes next.
Places ==
    {"reserving",     \* CreateBooking waits for ReserveSpot
     "checking",      \* the conflict SELECT of Create
     "inserting",     \* the INSERT of Create and its commit
     "undoing",       \* CreateBooking waits for ReleaseSpot
     "looking",       \* GetByID reads the cache
     "loading",       \* GetByID reads the row
     "filling",       \* GetByID caches the row it has read
     "updating",      \* the UPDATE of UpdateStatus
     "invalidating",  \* its cache DEL
     "caching",       \* the cache SET of Create and UpdateStatus
     "calling",       \* ReleaseSpot or UpdateSpotStatus after the transition
     "publishing"}    \* the NATS event

Idle == [pc |-> "idle", op |-> "none", booking |-> NoBooking, spot |-> NoSpot,
         slot |-> NoSlot, seen |-> "none"]

RequestStates ==
    [pc      : Places \union {"idle"},
     op      : BookingOps \union {"create", "none"},
     booking : Bookings \union {NoBooking},
     spot    : Spots \union {NoSpot},
     slot    : Slots \union {NoSlot},
     seen    : Statuses \union {"none"}]

\* The status a transition moves a booking to.
Target(op) ==
    IF op = "confirm" THEN "confirmed"
    ELSE IF op = "cancel" THEN "cancelled"
    ELSE IF op = "start" THEN "active"
    ELSE "completed"

Transitions == {"confirm", "cancel", "start", "complete"}

EventKinds == {"confirm", "cancel"}

TypeOK ==
    /\ SpotTypeOK
    /\ status \in [Bookings -> Statuses \union {"absent"}]
    /\ spotOf \in [Bookings -> Spots \union {NoSpot}]
    /\ slotOf \in [Bookings -> Slots \union {NoSlot}]
    /\ cache \in [Bookings -> Statuses \union {"none"}]
    /\ req \in [Requests -> RequestStates]
    /\ events \subseteq EventKinds \X Bookings
    /\ now \in 0..MaxTime
    /\ faults \in 0..MaxFaults
    /\ excused \subseteq Spots

Init ==
    /\ SpotInit
    /\ status = [b \in Bookings |-> "absent"]
    /\ spotOf = [b \in Bookings |-> NoSpot]
    /\ slotOf = [b \in Bookings |-> NoSlot]
    /\ cache = [b \in Bookings |-> "none"]
    /\ req = [r \in Requests |-> Idle]
    /\ events = {}
    /\ now = 0
    /\ faults = 0
    /\ excused = {}

-----------------------------------------------------------------------------
(* The steps of a request.                                                 *)

At(r, pc) == req[r].pc = pc
Goto(r, pc) == req' = [req EXCEPT ![r].pc = pc]
Finish(r) == req' = [req EXCEPT ![r] = Idle]

\* A request that is waiting for the reply of its call.
Waiting(r) == req[r].pc \in {"reserving", "undoing", "calling"}

\* A goroutine of booking-service is free to take r's next operation.
Free(r) == req[r] = Idle /\ call[r] = NoCall

Live(b) == status[b] \in LiveStatuses

\* Bound: an id is left for every creation that is under way.
IdsLeft ==
    Cardinality({b \in Bookings : status[b] = "absent"})
        > Cardinality({r \in Requests : req[r].op = "create" /\ req[r].booking = NoBooking})

BeginCreate(r, s, i) ==
    /\ Free(r) /\ IdsLeft
    /\ req' = [req EXCEPT ![r] = [pc |-> "reserving", op |-> "create", booking |-> NoBooking,
                                   spot |-> s, slot |-> i, seen |-> "none"]]
    /\ Post(r, "reserve", s)
    /\ UNCHANGED <<spot, rowVars, cache, events, now, faults, excused>>

\* CreateBooking for a spot the user names: it must exist, in the lot named.
CreateBooking(r, s, i) == spot[s] # "deleted" /\ BeginCreate(r, s, i)

\* CreateBooking without a spot: pickRandomAvailableSpot lists the lot and
\* draws one of the spots the list shows AVAILABLE.
QuickBooking(r, s, i) == spot[s] = "AVAILABLE" /\ BeginCreate(r, s, i)

\* ReserveSpot has answered: any error ends CreateBooking.
ReserveReturned(r) ==
    /\ At(r, "reserving") /\ Replied(r)
    /\ IF call[r].phase = "ok" THEN Goto(r, "checking") ELSE Finish(r)
    /\ TakeReply(r)
    /\ UNCHANGED <<spot, rowVars, cache, events, now, faults, excused>>

\* Faulty variant: the error path of Create without its ReleaseSpot.
GiveUpSpotForgotten(r) == Finish(r) /\ UNCHANGED call

\* repo.Create failed: CreateBooking posts ReleaseSpot, ignoring its outcome.
GiveUpSpot(r) == Goto(r, "undoing") /\ Post(r, "release", req[r].spot)

\* Some live booking of spot s, other than b, overlaps slot i.
Conflict(b, s, i) ==
    \E c \in Bookings \ {b} : Live(c) /\ spotOf[c] = s /\ Overlaps(i, slotOf[c])

\* The conflict SELECT of the transaction in repo.Create.
CheckConflict(r) ==
    /\ At(r, "checking")
    /\ IF Conflict(NoBooking, req[r].spot, req[r].slot)
         THEN GiveUpSpot(r)
         ELSE Goto(r, "inserting") /\ UNCHANGED call
    /\ UNCHANGED <<spot, rowVars, cache, events, now, faults, excused>>

\* Faulty variant: a schema without bookings_spot_time_overlap_excl.
ExclusionAllowsAnything(b, st, s, i) == TRUE

\* bookings_spot_time_overlap_excl: the database refuses to give row b status
\* st while another live row of its spot overlaps it.
ExclusionAllows(b, st, s, i) == st \in LiveStatuses => ~Conflict(b, s, i)

\* The INSERT, with the id the database generates; b is not in use.
InsertRow(b, s, i) ==
    /\ status[b] = "absent"
    /\ ExclusionAllows(b, "pending", s, i)
    /\ status' = [status EXCEPT ![b] = "pending"]
    /\ spotOf' = [spotOf EXCEPT ![b] = s]
    /\ slotOf' = [slotOf EXCEPT ![b] = i]

InsertBooking(r, b) ==
    /\ At(r, "inserting")
    /\ InsertRow(b, req[r].spot, req[r].slot)
    /\ req' = [req EXCEPT ![r].pc = "caching", ![r].booking = b, ![r].seen = "pending"]
    /\ UNCHANGED <<spot, call, cache, events, now, faults, excused>>

\* The exclusion constraint rejects the INSERT.
InsertRejected(r) ==
    /\ At(r, "inserting")
    /\ ~ExclusionAllows(NoBooking, "pending", req[r].spot, req[r].slot)
    /\ GiveUpSpot(r)
    /\ UNCHANGED <<spot, rowVars, cache, events, now, faults, excused>>

UndoReturned(r) ==
    /\ At(r, "undoing") /\ Replied(r)
    /\ Finish(r) /\ TakeReply(r)
    /\ UNCHANGED <<spot, rowVars, cache, events, now, faults, excused>>

-----------------------------------------------------------------------------
\* GetBooking, ConfirmBooking, CancelBooking, StartBooking, CompleteBooking on
\* an id that a user has; an unknown id ends the request.
BeginOn(r, op, b) ==
    /\ Free(r) /\ status[b] # "absent"
    /\ req' = [req EXCEPT ![r] = [pc |-> "looking", op |-> op, booking |-> b,
                                   spot |-> NoSpot, slot |-> NoSlot, seen |-> "none"]]
    /\ UNCHANGED <<spot, call, rowVars, cache, events, now, faults, excused>>

\* Faulty variant: StartBooking tests only the clock.
PermittedByClock(op, b, st) ==
    IF op = "start" THEN now >= slotOf[b][1] ELSE CanTransitionTo(st, Target(op))

\* The test an operation makes on the booking GetByID gave it; the interval of
\* a booking never changes, so the cached start_time is the row's.
Permitted(op, b, st) ==
    /\ op \in Transitions
    /\ CanTransitionTo(st, Target(op))
    /\ op = "start" => now >= slotOf[b][1]

\* GetByID returned a booking with status st: go on to UpdateStatus, or stop.
Decide(r, st) ==
    IF Permitted(req[r].op, req[r].booking, st)
      THEN req' = [req EXCEPT ![r].pc = "updating", ![r].seen = st]
      ELSE Finish(r)

ReadCache(r) ==
    /\ At(r, "looking")
    /\ LET st == cache[req[r].booking] IN
         IF st = "none" THEN Goto(r, "loading") ELSE Decide(r, st)
    /\ UNCHANGED <<spot, call, rowVars, cache, events, now, faults, excused>>

ReadRow(r) ==
    /\ At(r, "loading")
    /\ req' = [req EXCEPT ![r].pc = "filling", ![r].seen = status[req[r].booking]]
    /\ UNCHANGED <<spot, call, rowVars, cache, events, now, faults, excused>>

FillCache(r) ==
    /\ At(r, "filling")
    /\ cache' = [cache EXCEPT ![req[r].booking] = req[r].seen]
    /\ Decide(r, req[r].seen)
    /\ UNCHANGED <<spot, call, rowVars, events, now, faults, excused>>

\* UPDATE bookings SET status = ... WHERE id = b: whatever status the row has.
UpdateRow(b, st) ==
    /\ ExclusionAllows(b, st, spotOf[b], slotOf[b])
    /\ status' = [status EXCEPT ![b] = st]
    /\ UNCHANGED <<spotOf, slotOf>>

UpdateStatus(r) ==
    /\ At(r, "updating")
    /\ LET b == req[r].booking
           st == Target(req[r].op) IN
         /\ UpdateRow(b, st)
         /\ req' = [req EXCEPT ![r].pc = "invalidating", ![r].seen = st, ![r].spot = spotOf[b]]
    /\ UNCHANGED <<spot, call, cache, events, now, faults, excused>>

\* The exclusion constraint rejects the UPDATE.
UpdateRejected(r) ==
    /\ At(r, "updating")
    /\ LET b == req[r].booking IN
         ~ExclusionAllows(b, Target(req[r].op), spotOf[b], slotOf[b])
    /\ Finish(r)
    /\ UNCHANGED <<spot, call, rowVars, cache, events, now, faults, excused>>

InvalidateCache(r) ==
    /\ At(r, "invalidating")
    /\ cache' = [cache EXCEPT ![req[r].booking] = "none"]
    /\ Goto(r, "caching")
    /\ UNCHANGED <<spot, call, rowVars, events, now, faults, excused>>

\* Faulty variant: CancelBooking without its ReleaseSpot.
AfterRepositoryKeepsSpot(r) ==
    \/ req[r].op = "create" /\ Finish(r) /\ UNCHANGED call
    \/ req[r].op \in {"confirm", "cancel"} /\ Goto(r, "publishing") /\ UNCHANGED call
    \/ req[r].op = "start" /\ Goto(r, "calling") /\ Post(r, "status", req[r].spot)
    \/ req[r].op = "complete" /\ Goto(r, "calling") /\ Post(r, "release", req[r].spot)

\* After the repository: what is left of the operation.
AfterRepository(r) ==
    \/ req[r].op = "create" /\ Finish(r) /\ UNCHANGED call
    \/ req[r].op = "confirm" /\ Goto(r, "publishing") /\ UNCHANGED call
    \/ req[r].op = "start" /\ Goto(r, "calling") /\ Post(r, "status", req[r].spot)
    \/ /\ req[r].op \in {"cancel", "complete"}
       /\ Goto(r, "calling") /\ Post(r, "release", req[r].spot)

\* Faulty variant: the handler caches the booking as it read it, not the row
\* that UPDATE ... RETURNING gave it.
CachedStatusBefore(r) ==
    IF req[r].op = "create" THEN "pending"
    ELSE CHOOSE st \in Statuses : CanTransitionTo(st, req[r].seen)

\* The row setCache serialises: the one RETURNING gave.
CachedStatus(r) == req[r].seen

SetCache(r) ==
    /\ At(r, "caching")
    /\ cache' = [cache EXCEPT ![req[r].booking] = CachedStatus(r)]
    /\ AfterRepository(r)
    /\ UNCHANGED <<spot, rowVars, events, now, faults, excused>>

\* Faulty variant: no operation publishes an event after its call.
AfterCallSilent(r) == Finish(r)

\* CancelBooking publishes an event; StartBooking and CompleteBooking are done.
AfterCall(r) == IF req[r].op = "cancel" THEN Goto(r, "publishing") ELSE Finish(r)

\* ReleaseSpot or UpdateSpotStatus has answered; its outcome is ignored.
CallReturned(r) ==
    /\ At(r, "calling") /\ Replied(r)
    /\ AfterCall(r)
    /\ TakeReply(r)
    /\ UNCHANGED <<spot, rowVars, cache, events, now, faults, excused>>

Publish(r) ==
    /\ At(r, "publishing")
    /\ events' = events \union {<<req[r].op, req[r].booking>>}
    /\ Finish(r)
    /\ UNCHANGED <<spot, call, rowVars, cache, now, faults, excused>>

\* The steps a request and its call take by themselves.
RequestStep(r) ==
    \/ ReserveReturned(r) \/ CheckConflict(r)
    \/ \E b \in Bookings : InsertBooking(r, b)
    \/ InsertRejected(r) \/ UndoReturned(r)
    \/ ReadCache(r) \/ ReadRow(r) \/ FillCache(r)
    \/ UpdateStatus(r) \/ UpdateRejected(r)
    \/ InvalidateCache(r) \/ SetCache(r)
    \/ CallReturned(r) \/ Publish(r)

\* The reply of a call nobody waits for any more.
DropReply(r) ==
    /\ Replied(r) /\ ~Waiting(r)
    /\ TakeReply(r)
    /\ UNCHANGED <<spot, rowVars, cache, req, events, now, faults, excused>>

SpotStep(r) ==
    \/ ServeCall(r) /\ UNCHANGED <<rowVars, cache, req, events, now, faults, excused>>
    \/ DropReply(r)

-----------------------------------------------------------------------------
(* The environment: time, the cache's TTL, the operators of the lot.       *)

Tick ==
    /\ now < MaxTime
    /\ now' = now + 1
    /\ UNCHANGED <<spot, call, rowVars, cache, req, events, faults, excused>>

Expire(b) ==
    /\ cache[b] # "none"
    /\ cache' = [cache EXCEPT ![b] = "none"]
    /\ UNCHANGED <<spot, call, rowVars, req, events, now, faults, excused>>

Operator(s, st) ==
    /\ OperatorSets(s, st)
    /\ excused' = IF st = "RESERVED" THEN excused \union {s} ELSE excused
    /\ UNCHANGED <<rowVars, cache, req, events, now, faults>>

-----------------------------------------------------------------------------
(* Faults.                                                                 *)

Strike == faults < MaxFaults /\ faults' = faults + 1

\* The HTTP client gives up on its call, which parking-service goes on with.
\* An error is what every caller of ReleaseSpot and UpdateSpotStatus ignores
\* and what ends a CreateBooking that waits for ReserveSpot.
ClientTimeout(r) ==
    /\ Strike /\ Waiting(r)
    /\ IF At(r, "calling") THEN AfterCall(r) ELSE Finish(r)
    /\ excused' = IF At(r, "reserving") THEN excused \union {req[r].spot} ELSE excused
    /\ UNCHANGED <<spot, call, rowVars, cache, events, now>>

\* A call is lost, or fails in parking-service before it has had an effect.
CallFails(r) ==
    /\ Strike /\ call[r].phase \in {"sent", "write"}
    /\ Reply(r, "failed")
    /\ excused' = IF call[r].op = "release" THEN excused \union {call[r].spot} ELSE excused
    /\ UNCHANGED <<spot, rowVars, cache, req, events, now>>

\* Faulty variant: the error of the UPDATE is logged, and the event published.
StatementFailsUnnoticed(r) ==
    /\ Strike
    /\ \/ At(r, "loading") /\ Finish(r) /\ UNCHANGED call
       \/ /\ At(r, "updating") /\ UNCHANGED call
          /\ IF req[r].op \in EventKinds THEN Goto(r, "publishing") ELSE Finish(r)
       \/ req[r].pc \in {"checking", "inserting"} /\ GiveUpSpot(r)
    /\ UNCHANGED <<spot, rowVars, cache, events, now, excused>>

\* A SQL statement fails without effect.
StatementFails(r) ==
    /\ Strike
    /\ \/ req[r].pc \in {"loading", "updating"} /\ Finish(r) /\ UNCHANGED call
       \/ req[r].pc \in {"checking", "inserting"} /\ GiveUpSpot(r)
    /\ UNCHANGED <<spot, rowVars, cache, events, now, excused>>

\* The connection breaks after the commit: the handler sees an error, and the
\* row is there.
InsertUnacknowledged(r, b) ==
    /\ Strike /\ At(r, "inserting")
    /\ InsertRow(b, req[r].spot, req[r].slot)
    /\ GiveUpSpot(r)
    /\ UNCHANGED <<spot, cache, events, now, excused>>

UpdateUnacknowledged(r) ==
    /\ Strike /\ At(r, "updating")
    /\ UpdateRow(req[r].booking, Target(req[r].op))
    /\ Finish(r)
    /\ excused' = excused \union {spotOf[req[r].booking]}
    /\ UNCHANGED <<spot, call, cache, events, now>>

\* A Redis command fails: a GET counts as a miss, DEL and SET are given up.
CacheFails(r) ==
    /\ Strike
    /\ \/ At(r, "looking") /\ Goto(r, "loading") /\ UNCHANGED call
       \/ At(r, "filling") /\ Decide(r, req[r].seen) /\ UNCHANGED call
       \/ At(r, "invalidating") /\ Goto(r, "caching") /\ UNCHANGED call
       \/ At(r, "caching") /\ AfterRepository(r)
    /\ UNCHANGED <<spot, rowVars, cache, events, now, excused>>

\* The publication fails; the handler reports an error, the commit stands.
PublishFails(r) ==
    /\ Strike /\ At(r, "publishing")
    /\ Finish(r)
    /\ UNCHANGED <<spot, call, rowVars, cache, events, now, excused>>

\* The user hangs up: the context of the request is cancelled, and of what is
\* left of the operation only the publication, which takes no context, happens.
ContextCancelled(r) ==
    /\ Strike /\ req[r] # Idle
    /\ IF req[r].op \in EventKinds /\ req[r].pc \in {"invalidating", "caching", "calling", "publishing"}
         THEN Goto(r, "publishing")
         ELSE Finish(r)
    /\ excused' = excused \union ({req[r].spot} \ {NoSpot})
    /\ UNCHANGED <<spot, call, rowVars, cache, events, now>>

\* booking-service dies and restarts: its requests are gone, the calls they
\* have posted are not.
Crash ==
    /\ Strike /\ \E r \in Requests : req[r] # Idle
    /\ req' = [r \in Requests |-> Idle]
    /\ excused' = excused \union ({req[r].spot : r \in Requests} \ {NoSpot})
    /\ UNCHANGED <<spot, call, rowVars, cache, events, now>>

Fault ==
    \/ \E r \in Requests :
         \/ ClientTimeout(r) \/ CallFails(r) \/ StatementFails(r)
         \/ \E b \in Bookings : InsertUnacknowledged(r, b)
         \/ UpdateUnacknowledged(r) \/ CacheFails(r) \/ PublishFails(r)
         \/ ContextCancelled(r)
    \/ Crash

-----------------------------------------------------------------------------
Next ==
    \/ \E r \in Requests :
         \/ \E s \in Spots, i \in Slots : CreateBooking(r, s, i) \/ QuickBooking(r, s, i)
         \/ \E op \in UserOps, b \in Bookings : BeginOn(r, op, b)
         \/ RequestStep(r)
         \/ SpotStep(r)
    \/ Tick
    \/ \E b \in Bookings : Expire(b)
    \/ \E s \in Spots, st \in OperatorStatuses : Operator(s, st)
    \/ Fault

Spec == Init /\ [][Next]_vars

\* A goroutine that has something to do is scheduled, in either service; users,
\* operators, the clock, the cache's TTL and faults owe nothing.
Fairness == \A r \in Requests : WF_vars(RequestStep(r)) /\ WF_vars(SpotStep(r))

FairSpec == Spec /\ Fairness
=============================================================================
