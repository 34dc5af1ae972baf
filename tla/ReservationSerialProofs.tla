----------------------- MODULE ReservationSerialProofs -----------------------
(***************************************************************************)
(* One request at a time, without faults: SpotTellsBooking, CacheCoherent  *)
(* and the refinement of BookingDesk, for every set of spots, bookings and *)
(* intervals, every bound on the clock and any number of requests that     *)
(* take turns.                                                             *)
(***************************************************************************)
EXTENDS ReservationProofs

-----------------------------------------------------------------------------
(* The behaviours the theorems are about.                                  *)

\* Nobody but r has an operation, or a call, under way.
OnlyMover(r) == \A q \in Requests \ {r} : Free(q)

\* Requests take turns, and nothing fails.
Calm == faults = 0 /\ \A q, r \in Requests : ~Free(q) /\ ~Free(r) => q = r

-----------------------------------------------------------------------------
(* The inductive invariant.                                                *)

\* No live booking has spot s.
Vacant(s) == \A b \in Bookings : Live(b) => spotOf[b] # s

\* A creation holds a vacant spot from the UPDATE of its ReserveSpot to its
\* INSERT, which therefore nothing refuses.
CreationOK(r) ==
    /\ req[r].pc = "reserving" => call[r].op = "reserve" /\ call[r].spot = req[r].spot
    /\ req[r].pc = "reserving" /\ call[r].phase = "write" =>
         spot[req[r].spot] = "AVAILABLE"
    /\ Unclaimed(r, req[r].spot) => spot[req[r].spot] = "RESERVED" /\ Vacant(req[r].spot)
    /\ req[r].pc # "undoing"

\* What a request has read of its booking is what the row still says.
CopyOK(r) ==
    /\ req[r].pc \in {"filling", "updating", "invalidating", "caching"} =>
         req[r].seen = status[req[r].booking]
    /\ req[r].pc = "updating" => Permitted(req[r].op, req[r].booking, req[r].seen)
    /\ req[r].pc \in {"invalidating", "caching", "calling"} =>
         /\ req[r].spot = spotOf[req[r].booking]
         /\ status[req[r].booking] =
              (IF req[r].op = "create" THEN "pending" ELSE Target(req[r].op))

\* The call that is left of a transition finds its spot as the row's last
\* status left it.
EffectOK(r) ==
    /\ Owing(r, "start", req[r].spot) => spot[req[r].spot] = "RESERVED"
    /\ Owing(r, "cancel", req[r].spot) =>
         spot[req[r].spot] = "RESERVED" /\ Vacant(req[r].spot)
    /\ Owing(r, "complete", req[r].spot) =>
         spot[req[r].spot] = "OCCUPIED" /\ Vacant(req[r].spot)
    /\ req[r].pc = "calling" =>
         /\ req[r].op \in {"cancel", "start", "complete"} /\ call[r].spot = req[r].spot
         /\ call[r].op = (IF req[r].op = "start" THEN "status" ELSE "release")
         /\ req[r].op = "complete" => call[r].phase # "write"
    /\ req[r].pc \notin {"reserving", "calling"} => call[r] = NoCall

RequestInv(r) == CreationOK(r) /\ CopyOK(r) /\ EffectOK(r)

\* Two live bookings never have the same spot, at whatever time.
OneLive == \A b, c \in Bookings : Live(b) /\ Live(c) /\ spotOf[b] = spotOf[c] => b = c

\* The spot of a live booking, also while a request is at work.
SpotInv ==
    \A b \in Bookings :
        /\ status[b] \in {"pending", "confirmed"} => spot[spotOf[b]] = "RESERVED"
        /\ status[b] = "active" =>
             \/ spot[spotOf[b]] = "OCCUPIED"
             \/ \E r \in Requests : Owing(r, "start", spotOf[b])

\* A cached copy is stale only until the DEL of the request that wrote the row.
CacheInv ==
    \A b \in Bookings :
        \/ cache[b] \in {"none", status[b]}
        \/ \E r \in Requests : At(r, "invalidating") /\ req[r].booking = b

SerialInv == OneLive /\ SpotInv /\ CacheInv /\ \A r \in Requests : RequestInv(r)

-----------------------------------------------------------------------------
(* The invariant of the only request under way.                            *)

SpotInvOf(r) ==
    \A b \in Bookings :
        /\ status[b] \in {"pending", "confirmed"} => spot[spotOf[b]] = "RESERVED"
        /\ status[b] = "active" =>
             spot[spotOf[b]] = "OCCUPIED" \/ Owing(r, "start", spotOf[b])

CacheInvOf(r) ==
    \A b \in Bookings :
        cache[b] \in {"none", status[b]} \/ (At(r, "invalidating") /\ req[r].booking = b)

SerialInvOf(r) == OneLive /\ SpotInvOf(r) /\ CacheInvOf(r) /\ RequestInv(r)

\* A request that is not under way owes nothing and has nothing.
LEMMA FreeInv ==
  ASSUME NEW q \in Requests, Free(q)
  PROVE  /\ RequestInv(q)
         /\ \A s \in Spots, op \in BookingOps : ~Owing(q, op, s)
         /\ \A s \in Spots : ~Unclaimed(q, s)
         /\ ~At(q, "invalidating")
BY DEF Free, Idle, NoCall, RequestInv, CreationOK, CopyOK, EffectOK, Owing, Unclaimed, At,
   BookingOps

LEMMA FreeInvLater ==
  ASSUME NEW q \in Requests, Free(q)'
  PROVE  /\ RequestInv(q)'
         /\ \A s \in Spots, op \in BookingOps : ~Owing(q, op, s)'
         /\ \A s \in Spots : ~Unclaimed(q, s)'
         /\ ~At(q, "invalidating")'
BY DEF Free, Idle, NoCall, RequestInv, CreationOK, CopyOK, EffectOK, Owing, Unclaimed, At,
   BookingOps

LEMMA MoverInv ==
  ASSUME TypeInv, NEW r \in Requests, OnlyMover(r), SerialInv
  PROVE  SerialInvOf(r)
<1>1. \A b \in Bookings : status[b] = "active" => spotOf[b] \in Spots
  BY DEF TypeInv, RowsOK
<1>2. \A q \in Requests \ {r} :
        (\A s \in Spots : ~Owing(q, "start", s)) /\ ~At(q, "invalidating")
  BY FreeInv DEF OnlyMover, BookingOps
<1>3. SpotInvOf(r)
  BY <1>1, <1>2 DEF SpotInvOf, SerialInv, SpotInv
<1>4. CacheInvOf(r)
  BY <1>2 DEF CacheInvOf, SerialInv, CacheInv
<1> QED BY <1>3, <1>4 DEF SerialInv, SerialInvOf

LEMMA MoverInvLater ==
  ASSUME NEW r \in Requests, OnlyMover(r)', SerialInvOf(r)'
  PROVE  SerialInv'
<1>1. \A q \in Requests \ {r} : RequestInv(q)'
  BY FreeInvLater DEF OnlyMover
<1>2. SpotInv' /\ CacheInv'
  BY DEF SerialInvOf, SpotInvOf, CacheInvOf, SpotInv, CacheInv
<1> QED BY <1>1, <1>2 DEF SerialInv, SerialInvOf

-----------------------------------------------------------------------------
(* Every step of the only request under way keeps it.                      *)

\* An operation ends when it owes its spot nothing and the cache is right.
LEMMA FinishKeeps ==
  ASSUME TypeInv, NEW r \in Requests, SerialInvOf(r), Finish(r), call'[r] = NoCall,
         UNCHANGED <<spot, rowVars>>, \A s \in Spots : ~Owing(r, "start", s),
         \A b \in Bookings : cache'[b] \in {"none", status[b]}
  PROVE  SerialInvOf(r)'
<1>1. Free(r)'
  BY DEF Finish, Free, TypeInv, TypeOK
<1>2. RequestInv(r)'
  BY <1>1, FreeInvLater
<1>3. OneLive' /\ SpotInvOf(r)'
  BY DEF SerialInvOf, OneLive, SpotInvOf, Live, LiveStatuses, rowVars, TypeInv, RowsOK
<1>4. CacheInvOf(r)'
  BY DEF CacheInvOf, rowVars
<1> QED BY <1>2, <1>3, <1>4 DEF SerialInvOf

\* Reads of a booking, and the failed test that ends the operation.
LEMMA DecideKeeps ==
  ASSUME TypeInv, NEW r \in Requests, SerialInvOf(r), req[r].pc \in {"looking", "filling"},
         Decide(r, status[req[r].booking]), UNCHANGED <<spot, call, rowVars, now>>,
         \A b \in Bookings : cache'[b] \in {"none", status[b]}
  PROVE  SerialInvOf(r)'
<1>0. /\ call \in [Requests -> Calls] /\ req \in [Requests -> RequestStates] /\ RequestOK(r)
      /\ call[r] = NoCall /\ \A s \in Spots : ~Owing(r, "start", s)
  BY DEF TypeInv, TypeOK, SpotTypeOK, SerialInvOf, RequestInv, EffectOK, Owing
<1>1. CASE Finish(r)
  BY <1>0, <1>1, FinishKeeps
<1>2. CASE /\ Permitted(req[r].op, req[r].booking, status[req[r].booking])
           /\ req' = [req EXCEPT ![r].pc = "updating", ![r].seen = status[req[r].booking]]
  <2>1. /\ req'[r].pc = "updating" /\ req'[r].seen = status[req[r].booking]
        /\ req'[r].op = req[r].op /\ req'[r].booking = req[r].booking
        /\ call'[r] = NoCall
    BY <1>0, <1>2 DEF RequestStates
  <2>2. RequestInv(r)'
    BY <1>2, <2>1 DEF RequestInv, CreationOK, CopyOK, EffectOK, Owing, Unclaimed, NoCall,
       Permitted, rowVars
  <2>3. OneLive' /\ SpotInvOf(r)'
    BY <1>0 DEF SerialInvOf, OneLive, SpotInvOf, Live, LiveStatuses, rowVars, TypeInv, RowsOK
  <2>4. CacheInvOf(r)'
    BY DEF CacheInvOf, rowVars
  <2> QED BY <2>2, <2>3, <2>4 DEF SerialInvOf
<1> QED BY <1>1, <1>2 DEF Decide

\* The INSERT gives the vacant spot its only live booking.
LEMMA InsertStep ==
  ASSUME TypeInv, NEW r \in Requests, SerialInvOf(r),
         NEW b \in Bookings, InsertBooking(r, b)
  PROVE  SerialInvOf(r)'
<1>1. /\ req[r].spot \in Spots /\ req[r].op = "create" /\ req[r].pc = "inserting"
      /\ status[b] = "absent" /\ cache[b] \in Statuses \union {"none"}
  BY DEF InsertBooking, InsertRow, At, TypeInv, TypeOK, RequestOK, Creating
<1>2. /\ call[r] = NoCall /\ spot[req[r].spot] = "RESERVED" /\ Vacant(req[r].spot)
  BY <1>1 DEF SerialInvOf, RequestInv, CreationOK, EffectOK, Unclaimed
<1>3. /\ status'[b] = "pending" /\ spotOf'[b] = req[r].spot
      /\ \A c \in Bookings \ {b} : status'[c] = status[c] /\ spotOf'[c] = spotOf[c]
      /\ UNCHANGED <<spot, call, cache>>
  BY DEF InsertBooking, InsertRow, TypeInv, TypeOK
<1>4. /\ req'[r].pc = "caching" /\ req'[r].op = "create" /\ req'[r].booking = b
      /\ req'[r].seen = "pending" /\ req'[r].spot = req[r].spot
  BY <1>1 DEF InsertBooking, TypeInv, TypeOK, RequestStates
<1>5. \A c \in Bookings : cache[c] \in {"none", status[c]}
  BY <1>1 DEF SerialInvOf, CacheInvOf, At
<1>6. cache[b] = "none" /\ \A s \in Spots : ~Owing(r, "start", s)
  BY <1>1, <1>5 DEF Owing, Statuses
<1>7. OneLive'
  <2> SUFFICES ASSUME NEW c \in Bookings, NEW d \in Bookings,
                      Live(c)', Live(d)', spotOf'[c] = spotOf'[d]
               PROVE  c = d
    BY DEF OneLive
  <2>1. CASE c # b /\ d # b
    BY <1>3, <2>1 DEF SerialInvOf, OneLive, Live
  <2>2. CASE c = b \/ d = b
    BY <1>2, <1>3, <2>2 DEF Vacant, Live
  <2> QED BY <2>1, <2>2
<1>8. SpotInvOf(r)'
  <2> SUFFICES ASSUME NEW c \in Bookings
               PROVE  /\ status'[c] \in {"pending", "confirmed"} =>
                           spot'[spotOf'[c]] = "RESERVED"
                      /\ status'[c] = "active" => spot'[spotOf'[c]] = "OCCUPIED"
    BY DEF SpotInvOf
  <2>1. CASE c = b
    BY <1>2, <1>3, <2>1
  <2>2. CASE c # b
    BY <1>3, <1>6, <2>2 DEF SerialInvOf, SpotInvOf, TypeInv, RowsOK
  <2> QED BY <2>1, <2>2
<1>9. CacheInvOf(r)'
  BY <1>3, <1>5, <1>6 DEF CacheInvOf
<1>10. RequestInv(r)'
  BY <1>2, <1>3, <1>4 DEF RequestInv, CreationOK, CopyOK, EffectOK, Owing, Unclaimed
<1> QED BY <1>7, <1>8, <1>9, <1>10 DEF SerialInvOf

LEMMA CreationStep ==
  ASSUME TypeInv, NEW r \in Requests, SerialInvOf(r),
         \/ ReserveReturned(r) \/ CheckConflict(r) \/ InsertRejected(r) \/ UndoReturned(r)
         \/ \E b \in Bookings : InsertBooking(r, b)
  PROVE  SerialInvOf(r)'
<1>0. call \in [Requests -> Calls] /\ req \in [Requests -> RequestStates] /\ RequestOK(r)
  BY DEF TypeInv, TypeOK, SpotTypeOK
<1> USE DEF SerialInvOf, RequestInv, CreationOK, CopyOK, EffectOK, SpotInvOf, CacheInvOf,
      Owing, Unclaimed, At, NoCall, Idle, RequestStates, rowVars
<1>1. CASE ReserveReturned(r)
  <2>1. call'[r] = NoCall /\ UNCHANGED <<spot, rowVars, cache>>
    BY <1>0, <1>1 DEF ReserveReturned, TakeReply
  <2>2. CASE Finish(r)
    <3>1. (\A s \in Spots : ~Owing(r, "start", s))
          /\ \A b \in Bookings : cache[b] \in {"none", status[b]}
      BY <1>1 DEF ReserveReturned
    <3> HIDE DEF SerialInvOf, Owing
    <3> QED BY <2>1, <2>2, <3>1, FinishKeeps
  <2>3. CASE call[r].phase = "ok" /\ Goto(r, "checking")
    <3>1. Unclaimed(r, req[r].spot)
      BY <1>0, <1>1, <2>3 DEF ReserveReturned, RequestOK, Creating
    <3>2. /\ req'[r].pc = "checking" /\ req'[r].op = req[r].op
          /\ req'[r].spot = req[r].spot
      BY <1>0, <2>3 DEF Goto
    <3>3. RequestInv(r)'
      BY <2>1, <3>1, <3>2 DEF Vacant, Live
    <3> QED BY <1>1, <2>1, <3>2, <3>3 DEF OneLive, Live, ReserveReturned
  <2> QED BY <1>1, <2>2, <2>3 DEF ReserveReturned
<1>2. CASE CheckConflict(r)
  BY <1>0, <1>2, SMTT(40) DEF CheckConflict, Conflict, GiveUpSpot, Goto, Post, OneLive,
     Vacant, Live, RequestOK, Creating
<1>3. CASE InsertRejected(r)
  BY <1>0, <1>3, SMTT(40) DEF InsertRejected, ExclusionAllows, Conflict, Vacant, Live,
     RequestOK, Creating
<1>4. CASE UndoReturned(r)
  BY <1>4 DEF UndoReturned
<1>5. CASE \E b \in Bookings : InsertBooking(r, b)
  BY <1>5, InsertStep
<1> QED BY <1>1, <1>2, <1>3, <1>4, <1>5

LEMMA ReadStep ==
  ASSUME TypeInv, NEW r \in Requests, SerialInvOf(r),
         ReadCache(r) \/ ReadRow(r) \/ FillCache(r) \/ UpdateRejected(r)
  PROVE  SerialInvOf(r)'
<1>0. call \in [Requests -> Calls] /\ req \in [Requests -> RequestStates] /\ RequestOK(r)
  BY DEF TypeInv, TypeOK, SpotTypeOK
<1>1. CASE ReadCache(r)
  <2>1. \A b \in Bookings : cache'[b] \in {"none", status[b]}
    BY <1>1 DEF ReadCache, SerialInvOf, CacheInvOf, At
  <2>2. req[r].booking \in Bookings
    BY <1>0, <1>1 DEF ReadCache, RequestOK, At, Creating
  <2>3. CASE Goto(r, "loading")
    BY <1>0, <1>1, <2>3 DEF ReadCache, Goto, SerialInvOf, RequestInv, CreationOK, CopyOK,
       EffectOK, SpotInvOf, CacheInvOf, Owing, Unclaimed, At, NoCall, RequestStates, rowVars,
       OneLive, Live
  <2>4. CASE Decide(r, status[req[r].booking])
    BY <1>1, <2>1, <2>4, DecideKeeps DEF ReadCache, At
  <2> QED BY <1>1, <2>1, <2>2, <2>3, <2>4 DEF ReadCache
<1>2. CASE ReadRow(r)
  BY <1>0, <1>2, SMTT(40) DEF ReadRow, SerialInvOf, RequestInv, CreationOK, CopyOK, EffectOK,
     SpotInvOf, CacheInvOf, Owing, Unclaimed, At, NoCall, RequestStates, rowVars, OneLive,
     Live, RequestOK, Creating
<1>3. CASE FillCache(r)
  <2>1. req[r].booking \in Bookings /\ req[r].seen = status[req[r].booking]
    BY <1>0, <1>3 DEF FillCache, RequestOK, Creating, At, SerialInvOf, RequestInv, CopyOK
  <2>2. \A b \in Bookings : cache'[b] \in {"none", status[b]}
    BY <1>3, <2>1 DEF FillCache, At, SerialInvOf, CacheInvOf, TypeInv, TypeOK
  <2> QED BY <1>3, <2>1, <2>2, DecideKeeps DEF FillCache, At
<1>4. CASE UpdateRejected(r)
  <2>1. /\ \A s \in Spots : ~Owing(r, "start", s)
        /\ call[r] = NoCall /\ UNCHANGED <<spot, call, rowVars, cache>>
        /\ \A b \in Bookings : cache[b] \in {"none", status[b]}
    BY <1>4 DEF UpdateRejected, At, Owing, SerialInvOf, CacheInvOf, RequestInv, EffectOK
  <2> QED BY <1>4, <2>1, FinishKeeps DEF UpdateRejected
<1> QED BY <1>1, <1>2, <1>3, <1>4

LEMMA TransitionStep ==
  ASSUME TypeInv, NEW r \in Requests, SerialInvOf(r), UpdateStatus(r)
  PROVE  SerialInvOf(r)'
<1> DEFINE b  == req[r].booking
           op == req[r].op
<1>1. /\ op \in Transitions /\ b \in Bookings /\ spotOf[b] \in Spots
      /\ CanTransitionTo(status[b], Target(op)) /\ call[r] = NoCall
      /\ cache[b] \in Statuses \union {"none"}
  BY DEF UpdateStatus, SerialInvOf, RequestInv, CopyOK, EffectOK, Permitted, At, TypeInv,
     TypeOK, RowsOK, RequestOK, Creating
<1>2. /\ status' = [status EXCEPT ![b] = Target(op)]
      /\ UNCHANGED <<spotOf, spot, call, cache>>
  BY DEF UpdateStatus, UpdateRow
<1>3. /\ req'[r].pc = "invalidating" /\ req'[r].op = op /\ req'[r].booking = b
      /\ req'[r].spot = spotOf[b] /\ req'[r].seen = Target(op)
  BY DEF UpdateStatus, TypeInv, TypeOK, RequestStates
<1>4. /\ \A c \in Bookings \ {b} : status'[c] = status[c]
      /\ status'[b] = Target(op)
  BY <1>1, <1>2 DEF TypeInv, TypeOK
<1>5. Live(b) /\ \A c \in Bookings \ {b} : Live(c) => spotOf[c] # spotOf[b]
  BY <1>1 DEF CanTransitionTo, Live, LiveStatuses, SerialInvOf, OneLive
<1>6. /\ \A s \in Spots : ~Owing(r, "start", s)
      /\ op # "complete" => spot[spotOf[b]] = "RESERVED"
      /\ op = "complete" => spot[spotOf[b]] = "OCCUPIED"
  BY <1>1 DEF UpdateStatus, At, Owing, SerialInvOf, SpotInvOf, CanTransitionTo, Target,
     Transitions
<1> HIDE DEF b, op
<1>7. OneLive'
  BY <1>2, <1>4, <1>5 DEF Live, SerialInvOf, OneLive
<1>8. SpotInvOf(r)'
  BY <1>1, <1>2, <1>3, <1>4, <1>5, <1>6 DEF SpotInvOf, SerialInvOf, Owing, Target,
     Transitions, TypeInv, RowsOK
<1>9. CacheInvOf(r)'
  BY <1>2, <1>3, <1>4 DEF CacheInvOf, SerialInvOf, UpdateStatus, At
<1>10. \/ \A c \in Bookings : Live(c)' => spotOf'[c] # spotOf[b]
       \/ op \in {"confirm", "start"}
  BY <1>1, <1>2, <1>4, <1>5 DEF Live, LiveStatuses, Target, Transitions
<1>11. RequestInv(r)'
  BY <1>1, <1>2, <1>3, <1>4, <1>6, <1>10 DEF RequestInv, CreationOK, CopyOK, EffectOK,
     Owing, Unclaimed, Vacant, Transitions
<1> QED BY <1>7, <1>8, <1>9, <1>11 DEF SerialInvOf

LEMMA AfterwardsStep ==
  ASSUME TypeInv, NEW r \in Requests, SerialInvOf(r),
         InvalidateCache(r) \/ SetCache(r) \/ CallReturned(r) \/ Publish(r)
  PROVE  SerialInvOf(r)'
<1>0. call \in [Requests -> Calls] /\ req \in [Requests -> RequestStates] /\ RequestOK(r)
  BY DEF TypeInv, TypeOK, SpotTypeOK
<1>1. CASE InvalidateCache(r)
  BY <1>0, <1>1, SMTT(40) DEF InvalidateCache, Goto, TypeInv, TypeOK, SerialInvOf, RequestInv,
     CreationOK, CopyOK, EffectOK, SpotInvOf, CacheInvOf, Owing, Unclaimed, At, NoCall,
     RequestStates, rowVars, OneLive, Vacant, Live, RequestOK, Creating
<1>2. CASE SetCache(r)
  <2>1. /\ req[r].booking \in Bookings /\ req[r].seen = status[req[r].booking]
        /\ req[r].spot = spotOf[req[r].booking] /\ call[r] = NoCall
        /\ req[r].op \in Transitions \union {"create"} /\ req[r].pc = "caching"
        /\ req[r].op # "create" => status[req[r].booking] = Target(req[r].op)
    BY <1>0, <1>2 DEF SetCache, RequestOK, Creating, At, SerialInvOf, RequestInv, CopyOK,
       EffectOK
  <2>2. \A b \in Bookings : cache'[b] \in {"none", status[b]}
    BY <1>2, <2>1 DEF SetCache, CachedStatus, At, SerialInvOf, CacheInvOf, TypeInv, TypeOK
  <2>3. UNCHANGED <<spot, rowVars>>
    BY <1>2 DEF SetCache
  <2>4. CASE req[r].op = "create" /\ Finish(r) /\ UNCHANGED call
    BY <2>1, <2>2, <2>3, <2>4, FinishKeeps DEF Owing
  <2>5. CASE req[r].op = "confirm" /\ Goto(r, "publishing") /\ UNCHANGED call
    <3>1. /\ req'[r].pc = "publishing" /\ req'[r].op = "confirm" /\ call'[r] = NoCall
      BY <1>0, <2>1, <2>5 DEF Goto, RequestStates
    <3> QED BY <2>2, <2>3, <2>5, <3>1 DEF SerialInvOf, RequestInv, CreationOK, CopyOK,
          EffectOK, SpotInvOf, CacheInvOf, Owing, Unclaimed, NoCall, OneLive, Live, rowVars
  <2>6. ASSUME NEW op \in {"status", "release"},
               req[r].op \in {"cancel", "start", "complete"},
               op = (IF req[r].op = "start" THEN "status" ELSE "release"),
               Goto(r, "calling"), Post(r, op, req[r].spot)
        PROVE  SerialInvOf(r)'
    <3>1. /\ req'[r].pc = "calling" /\ req'[r].op = req[r].op
          /\ req'[r].spot = req[r].spot /\ req'[r].booking = req[r].booking
          /\ call'[r] = [op |-> op, spot |-> req[r].spot, phase |-> "sent"]
      BY <1>0, <2>1, <2>6 DEF Goto, Post, RequestStates
    <3>2. \A s \in Spots, o \in BookingOps : Owing(r, o, s)' <=> Owing(r, o, s)
      BY <2>1, <3>1 DEF Owing
    <3>3. OneLive' /\ SpotInvOf(r)'
      BY <2>3, <3>2 DEF SerialInvOf, OneLive, SpotInvOf, Live, LiveStatuses, rowVars,
         TypeInv, RowsOK, BookingOps
    <3>4. CacheInvOf(r)'
      BY <2>2, <2>3 DEF CacheInvOf, rowVars
    <3>5. RequestInv(r)'
      BY <2>1, <2>3, <2>6, <3>1 DEF SerialInvOf, RequestInv, CreationOK, CopyOK, EffectOK,
         Owing, Unclaimed, Vacant, Live, rowVars
    <3> QED BY <3>3, <3>4, <3>5 DEF SerialInvOf
  <2> QED BY <1>2, <2>4, <2>5, <2>6 DEF SetCache, AfterRepository
<1>3. CASE CallReturned(r)
  <2>1. /\ \A s \in Spots : ~Owing(r, "start", s)
        /\ \A b \in Bookings : cache[b] \in {"none", status[b]}
    BY <1>3 DEF CallReturned, Replied, At, Owing, SerialInvOf, CacheInvOf
  <2>2. UNCHANGED <<spot, rowVars, cache>> /\ call'[r] = NoCall
    BY <1>0, <1>3 DEF CallReturned, TakeReply
  <2>3. CASE Finish(r)
    BY <2>1, <2>2, <2>3, FinishKeeps
  <2>4. CASE req[r].op = "cancel" /\ Goto(r, "publishing")
    <3>1. req'[r].pc = "publishing" /\ req'[r].op = "cancel"
      BY <1>0, <2>4 DEF Goto, RequestStates
    <3>2. SpotInvOf(r)'
      BY <2>1, <2>2 DEF SerialInvOf, SpotInvOf, rowVars, TypeInv, RowsOK
    <3>3. OneLive' /\ CacheInvOf(r)'
      BY <2>1, <2>2 DEF SerialInvOf, OneLive, Live, CacheInvOf, rowVars
    <3>4. RequestInv(r)'
      BY <2>2, <3>1 DEF RequestInv, CreationOK, CopyOK, EffectOK, Owing, Unclaimed, NoCall
    <3> QED BY <3>2, <3>3, <3>4 DEF SerialInvOf
  <2> QED BY <1>3, <2>3, <2>4 DEF CallReturned, AfterCall
<1>4. CASE Publish(r)
  <2>1. /\ \A s \in Spots : ~Owing(r, "start", s)
        /\ call[r] = NoCall /\ UNCHANGED <<spot, call, rowVars, cache>>
        /\ \A b \in Bookings : cache[b] \in {"none", status[b]}
    BY <1>4 DEF Publish, At, Owing, SerialInvOf, CacheInvOf, RequestInv, EffectOK
  <2> QED BY <1>4, <2>1, FinishKeeps DEF Publish
<1> QED BY <1>1, <1>2, <1>3, <1>4

LEMMA SpotStepKeeps ==
  ASSUME TypeInv, NEW r \in Requests, SerialInvOf(r), SpotStep(r)
  PROVE  SerialInvOf(r)'
<1>0. /\ call \in [Requests -> Calls] /\ RequestOK(r)
      /\ spot \in [Spots -> SpotStatuses \union {"deleted"}]
      /\ \A b \in Bookings : Live(b) => spotOf[b] \in Spots
  BY DEF TypeInv, TypeOK, SpotTypeOK, RowsOK, Live, LiveStatuses
<1> USE DEF SerialInvOf, RequestInv, CreationOK, CopyOK, EffectOK, SpotInvOf, CacheInvOf,
      Owing, Unclaimed, At, NoCall, rowVars, OneLive, Vacant, Live, LiveStatuses,
      RequestOK, Creating, Reply, Calls, SetSpot, Permitted
<1> DEFINE Elsewhere == UNCHANGED <<rowVars, cache, req, events, now, faults, excused>>
<1>1. CASE ReserveSpotRead(r) /\ Elsewhere
  BY <1>0, <1>1, SMTT(40) DEF ReserveSpotRead, Reservable
<1>2. CASE ReserveSpotWrite(r) /\ Elsewhere
  BY <1>0, <1>2, SMTT(40) DEF ReserveSpotWrite
<1>3. CASE ReleaseSpotRead(r) /\ Elsewhere
  BY <1>0, <1>3, SMTT(40) DEF ReleaseSpotRead, Releasable, Transitions
<1>4. CASE ReleaseSpotWrite(r) /\ Elsewhere
  <2> DEFINE s == req[r].spot
  <2>1. /\ req[r].pc = "calling" /\ req[r].op = "cancel" /\ call[r].spot = s
        /\ s \in Spots /\ spot[s] = "RESERVED" /\ Vacant(s)
    BY <1>0, <1>4 DEF ReleaseSpotWrite
  <2>2. /\ \A t \in Spots \ {s} : spot'[t] = spot[t]
        /\ call'[r].op = "release" /\ call'[r].phase = "ok" /\ call'[r].spot = s
        /\ UNCHANGED <<rowVars, cache, req>>
    BY <1>0, <1>4, <2>1 DEF ReleaseSpotWrite
  <2> HIDE DEF s
  <2>3. SpotInvOf(r)'
    BY <1>0, <2>1, <2>2 DEF Vacant
  <2>4. RequestInv(r)'
    BY <1>0, <2>1, <2>2
  <2> QED BY <2>2, <2>3, <2>4
<1>5. CASE UpdateSpotStatus(r) /\ Elsewhere
  BY <1>0, <1>5, SMTT(40) DEF UpdateSpotStatus, Occupied, Target, Transitions
<1>6. CASE DropReply(r)
  BY <1>0, <1>6, SMTT(40) DEF DropReply, Replied, Waiting
<1> QED BY <1>1, <1>2, <1>3, <1>4, <1>5, <1>6 DEF SpotStep, ServeCall

-----------------------------------------------------------------------------
(* Every step of the behaviours keeps the invariant.                       *)

LEMMA Others ==
  ASSUME Calm, NEW r \in Requests, ~Free(r)
  PROVE  OnlyMover(r)
BY DEF Calm, OnlyMover

LEMMA OthersLater ==
  ASSUME Calm', NEW r \in Requests, ~Free(r)'
  PROVE  OnlyMover(r)'
BY DEF Calm, OnlyMover

\* A step of a request changes no other request and no other call.
LEMMA RequestStepLocal ==
  ASSUME TypeInv, NEW r \in Requests, RequestStep(r)
  PROVE  /\ ~Free(r)
         /\ \A q \in Requests \ {r} : req'[q] = req[q] /\ call'[q] = call[q]
<1>0. call \in [Requests -> Calls] /\ req \in [Requests -> RequestStates]
  BY DEF TypeInv, TypeOK, SpotTypeOK
<1> USE <1>0 DEF At, Free, Idle, Goto, Finish, TakeReply, Post
<1>1. CASE ReserveReturned(r) \/ UndoReturned(r)
  BY <1>1 DEF ReserveReturned, UndoReturned
<1>2. CASE CheckConflict(r) \/ InsertRejected(r)
  BY <1>2 DEF CheckConflict, InsertRejected, GiveUpSpot
<1>3. CASE \E b \in Bookings : InsertBooking(r, b)
  BY <1>3 DEF InsertBooking
<1>4. CASE ReadCache(r)
  BY <1>4 DEF ReadCache, Decide
<1>5. CASE ReadRow(r)
  BY <1>5 DEF ReadRow
<1>6. CASE FillCache(r)
  BY <1>6 DEF FillCache, Decide
<1>7. CASE UpdateStatus(r)
  BY <1>7 DEF UpdateStatus
<1>8. CASE UpdateRejected(r) \/ InvalidateCache(r) \/ Publish(r)
  BY <1>8 DEF UpdateRejected, InvalidateCache, Publish
<1>9. CASE SetCache(r)
  BY <1>9 DEF SetCache, AfterRepository
<1>10. CASE CallReturned(r)
  BY <1>10 DEF CallReturned, AfterCall
<1> QED BY <1>1, <1>2, <1>3, <1>4, <1>5, <1>6, <1>7, <1>8, <1>9, <1>10 DEF RequestStep

LEMMA SpotStepLocal ==
  ASSUME TypeInv, NEW r \in Requests, SpotStep(r)
  PROVE  /\ ~Free(r)
         /\ \A q \in Requests \ {r} : req'[q] = req[q] /\ call'[q] = call[q]
<1>0. call \in [Requests -> Calls]
  BY DEF TypeInv, TypeOK, SpotTypeOK
<1> USE <1>0 DEF Free, NoCall, Reply, TakeReply
<1>1. CASE ServeCall(r) /\ UNCHANGED req
  BY <1>1 DEF ServeCall, ReserveSpotRead, ReserveSpotWrite, ReleaseSpotRead, ReleaseSpotWrite,
     UpdateSpotStatus
<1>2. CASE DropReply(r)
  BY <1>2 DEF DropReply, Replied
<1> QED BY <1>1, <1>2 DEF SpotStep

\* A step of a request, or of its call, is made by the one under way.
LEMMA StepOfMover ==
  ASSUME TypeInv, Calm, NEW r \in Requests, RequestStep(r) \/ SpotStep(r)
  PROVE  OnlyMover(r) /\ OnlyMover(r)'
BY RequestStepLocal, SpotStepLocal, Others DEF OnlyMover, Free

\* An operation begins when nothing else is under way.
LEMMA BeginKeeps ==
  ASSUME TypeInv, NEW r \in Requests, SerialInvOf(r),
         \/ \E s \in Spots, i \in Slots : BeginCreate(r, s, i)
         \/ \E op \in UserOps, b \in Bookings : BeginOn(r, op, b)
  PROVE  SerialInvOf(r)'
<1>0. call \in [Requests -> Calls] /\ req \in [Requests -> RequestStates] /\ Free(r)
  BY DEF TypeInv, TypeOK, SpotTypeOK, BeginCreate, BeginOn
<1>1. /\ req'[r].pc \in {"reserving", "looking"} /\ UNCHANGED <<spot, rowVars, cache, now>>
      /\ req'[r].pc = "looking" => call'[r] = NoCall
      /\ req'[r].pc = "reserving" => call'[r].op = "reserve" /\ call'[r].spot = req'[r].spot
                                      /\ call'[r].phase = "sent"
  BY <1>0, SMTT(40) DEF BeginCreate, BeginOn, Post, Free
<1>2. RequestInv(r)'
  BY <1>1 DEF RequestInv, CreationOK, CopyOK, EffectOK, Owing, Unclaimed
<1>3. \A s \in Spots : ~Owing(r, "start", s)
  BY <1>0, FreeInv DEF BookingOps
<1>4. OneLive' /\ SpotInvOf(r)'
  BY <1>1, <1>3 DEF SerialInvOf, OneLive, SpotInvOf, Live, LiveStatuses, rowVars, TypeInv,
     RowsOK
<1>5. CacheInvOf(r)'
  BY <1>0, <1>1, FreeInv DEF SerialInvOf, CacheInvOf, rowVars
<1> QED BY <1>2, <1>4, <1>5 DEF SerialInvOf

LEMMA BeginOfMover ==
  ASSUME TypeInv, Calm', NEW r \in Requests,
         \/ \E s \in Spots, i \in Slots : BeginCreate(r, s, i)
         \/ \E op \in UserOps, b \in Bookings : BeginOn(r, op, b)
  PROVE  OnlyMover(r) /\ OnlyMover(r)'
<1>0. call \in [Requests -> Calls] /\ req \in [Requests -> RequestStates]
  BY DEF TypeInv, TypeOK, SpotTypeOK
<1>1. req'[r].pc \in {"reserving", "looking"}
      /\ \A q \in Requests \ {r} : req'[q] = req[q] /\ call'[q] = call[q]
  BY <1>0, SMTT(40) DEF BeginCreate, BeginOn, Post
<1>2. ~Free(r)'
  BY <1>1 DEF Free, Idle
<1> QED BY <1>1, <1>2, OthersLater DEF OnlyMover, Free

LEMMA EnvironmentKeeps ==
  ASSUME TypeInv, SerialInv, Tick \/ (\E b \in Bookings : Expire(b)) \/ UNCHANGED vars
  PROVE  SerialInv'
<1>1. UNCHANGED <<spot, call, rowVars, req>> /\ now' \in Int /\ now' >= now
  BY DEF Tick, Expire, vars, TypeInv, TypeOK
<1>2. OneLive' /\ SpotInv'
  BY <1>1 DEF SerialInv, OneLive, SpotInv, Live, Owing, rowVars
<1>3. CacheInv'
  BY <1>1, SMTT(40) DEF SerialInv, CacheInv, At, Tick, Expire, vars, rowVars, TypeInv, TypeOK
<1>4. ASSUME NEW r \in Requests PROVE RequestInv(r)'
  <2>1. CreationOK(r)' /\ EffectOK(r)'
    BY <1>1 DEF SerialInv, RequestInv, CreationOK, EffectOK, Owing, Unclaimed, Vacant, Live,
       rowVars
  <2>2. ASSUME req[r].pc = "updating", req[r].op = "start"
        PROVE  now' >= slotOf[req[r].booking][1]
    <3>1. now >= slotOf[req[r].booking][1]
      BY <2>2 DEF SerialInv, RequestInv, CopyOK, Permitted
    <3>2. slotOf[req[r].booking][1] \in Int
      BY <2>2, ReservationAssumption DEF TypeInv, RequestOK, RowsOK, Creating, Intervals
    <3> QED BY <1>1, <3>1, <3>2 DEF TypeInv, TypeOK
  <2>3. CopyOK(r)'
    BY <1>1, <2>2 DEF SerialInv, RequestInv, CopyOK, Permitted, rowVars
  <2> QED BY <2>1, <2>3 DEF RequestInv
<1> QED BY <1>2, <1>3, <1>4 DEF SerialInv

\* What a step of a calm behaviour is.
LEMMA CalmSteps ==
  ASSUME Calm, Calm', OperatorStatuses = {}, [Next]_vars
  PROVE  \/ \E r \in Requests :
              \/ \E s \in Spots, i \in Slots : BeginCreate(r, s, i)
              \/ \E op \in UserOps, b \in Bookings : BeginOn(r, op, b)
              \/ RequestStep(r)
              \/ SpotStep(r)
         \/ Tick
         \/ \E b \in Bookings : Expire(b)
         \/ UNCHANGED vars
<1>1. ~Fault
  BY DEF Calm, Fault, Strike, ClientTimeout, CallFails, StatementFails, InsertUnacknowledged,
     UpdateUnacknowledged, CacheFails, PublishFails, ContextCancelled, Crash
<1>2. ~\E s \in Spots, st \in OperatorStatuses : Operator(s, st)
  OBVIOUS
<1> QED BY <1>1, <1>2 DEF Next, CreateBooking, QuickBooking

LEMMA NextSerialInv ==
  ASSUME TypeInv, SerialInv, Calm, Calm', OperatorStatuses = {}, [Next]_vars
  PROVE  SerialInv'
<1>1. ASSUME NEW r \in Requests,
             \/ \E s \in Spots, i \in Slots : BeginCreate(r, s, i)
             \/ \E op \in UserOps, b \in Bookings : BeginOn(r, op, b)
      PROVE  SerialInv'
  BY <1>1, BeginOfMover, MoverInv, BeginKeeps, MoverInvLater
<1>2. ASSUME NEW r \in Requests, RequestStep(r)
      PROVE  SerialInv'
  <2>1. OnlyMover(r) /\ OnlyMover(r)' /\ SerialInvOf(r)
    BY <1>2, StepOfMover, MoverInv
  <2>2. SerialInvOf(r)'
    BY <1>2, <2>1, CreationStep, ReadStep, TransitionStep, AfterwardsStep DEF RequestStep
  <2> QED BY <2>1, <2>2, MoverInvLater
<1>3. ASSUME NEW r \in Requests, SpotStep(r)
      PROVE  SerialInv'
  BY <1>3, StepOfMover, MoverInv, SpotStepKeeps, MoverInvLater
<1> QED BY <1>1, <1>2, <1>3, EnvironmentKeeps, CalmSteps

LEMMA InitSerialInv == Init => SerialInv
BY DEF Init, SpotInit, SerialInv, OneLive, SpotInv, CacheInv, RequestInv, CreationOK, CopyOK,
   EffectOK, Owing, Unclaimed, Live, LiveStatuses, Idle, NoCall, At

\* While requests take turns, nothing fails and no operator interferes, the
\* invariant holds all along.
THEOREM SerialInvHolds == OperatorStatuses = {} => (Spec /\ []Calm => []SerialInv)
<1> SUFFICES ASSUME OperatorStatuses = {} PROVE Spec /\ []Calm => []SerialInv
  OBVIOUS
<1>1. TypeInv /\ SerialInv /\ Calm /\ Calm' /\ [Next]_vars => SerialInv'
  BY NextSerialInv
<1> QED BY <1>1, InitSerialInv, TypeInvHolds, PTL DEF Spec

-----------------------------------------------------------------------------
(* The converse: what the status of a spot tells about the bookings.       *)

\* A spot is RESERVED for this request: for a row to come, or for a row that
\* has begun, or is cancelled, and whose call is to come.
HeldBy(r, s) == Unclaimed(r, s) \/ Owing(r, "start", s) \/ Owing(r, "cancel", s)

HeldInv ==
    \A s \in Spots :
        /\ spot[s] = "RESERVED" =>
             \/ \E b \in Bookings : HasSpot(b, s, {"pending", "confirmed"})
             \/ \E r \in Requests : HeldBy(r, s)
        /\ spot[s] = "OCCUPIED" => \E b \in Bookings : HasSpot(b, s, {"active", "completed"})

HeldInvOf(r) ==
    \A s \in Spots :
        /\ spot[s] = "RESERVED" =>
             (\E b \in Bookings : HasSpot(b, s, {"pending", "confirmed"})) \/ HeldBy(r, s)
        /\ spot[s] = "OCCUPIED" => \E b \in Bookings : HasSpot(b, s, {"active", "completed"})

LEMMA MoverHeld ==
  ASSUME NEW r \in Requests, OnlyMover(r), HeldInv
  PROVE  HeldInvOf(r)
BY FreeInv DEF OnlyMover, HeldInv, HeldInvOf, HeldBy, BookingOps

\* Rows and spots stay, and the request keeps what is RESERVED for it.
LEMMA HeldKept ==
  ASSUME NEW r \in Requests, HeldInvOf(r), UNCHANGED <<spot, rowVars>>,
         \A s \in Spots : HeldBy(r, s) => HeldBy(r, s)'
  PROVE  HeldInvOf(r)'
BY DEF HeldInvOf, HasSpot, rowVars

\* Where a request has been given no spot and owes none.
LEMMA NothingHeld ==
  ASSUME NEW r \in Requests,
         \/ req[r].pc \in {"idle", "looking", "loading", "filling", "updating", "publishing"}
         \/ req[r].pc \in {"reserving", "undoing", "calling"} /\ call[r].phase = "failed"
         \/ req[r].pc \in {"undoing", "calling"} /\ call[r].phase = "ok"
  PROVE  \A s \in Spots : ~HeldBy(r, s)
BY DEF HeldBy, Unclaimed, Owing

LEMMA CreationHeld ==
  ASSUME TypeInv, NEW r \in Requests, SerialInvOf(r), HeldInvOf(r),
         \/ ReserveReturned(r) \/ CheckConflict(r) \/ InsertRejected(r) \/ UndoReturned(r)
         \/ \E b \in Bookings : InsertBooking(r, b)
  PROVE  HeldInvOf(r)'
<1>0. call \in [Requests -> Calls] /\ req \in [Requests -> RequestStates] /\ RequestOK(r)
  BY DEF TypeInv, TypeOK, SpotTypeOK
<1>1. CASE ReserveReturned(r)
  <2>1. req[r].pc = "reserving" /\ UNCHANGED <<spot, rowVars>>
    BY <1>1 DEF ReserveReturned, At
  <2>2. CASE call[r].phase = "failed"
    BY <2>1, <2>2, NothingHeld, HeldKept
  <2>3. CASE call[r].phase = "ok"
    <3>1. req'[r].pc = "checking" /\ req'[r].op = req[r].op /\ req'[r].spot = req[r].spot
      BY <1>0, <1>1, <2>3 DEF ReserveReturned, Goto, RequestStates
    <3>2. \A s \in Spots : HeldBy(r, s) => HeldBy(r, s)'
      BY <2>1, <3>1 DEF HeldBy, Unclaimed, Owing
    <3> QED BY <2>1, <3>2, HeldKept
  <2> QED BY <1>1, <2>2, <2>3 DEF ReserveReturned, Replied
<1>2. CASE CheckConflict(r)
  <2>1. req[r].pc = "checking" /\ UNCHANGED <<spot, rowVars>>
    BY <1>2 DEF CheckConflict, GiveUpSpot, At
  <2>2. req'[r].pc = "inserting" /\ req'[r].op = req[r].op /\ req'[r].spot = req[r].spot
    BY <1>0, <1>2, SMTT(40) DEF CheckConflict, Conflict, Goto, At, RequestStates, RequestOK,
       Creating, SerialInvOf, RequestInv, CreationOK, Unclaimed, Vacant, Live
  <2>3. \A s \in Spots : HeldBy(r, s) => HeldBy(r, s)'
    BY <2>1, <2>2 DEF HeldBy, Unclaimed, Owing
  <2> QED BY <2>1, <2>3, HeldKept
<1>3. CASE InsertRejected(r)
  BY <1>0, <1>3, SMTT(40) DEF InsertRejected, ExclusionAllows, Conflict, Vacant, Live,
     RequestOK, Creating, At, SerialInvOf, RequestInv, CreationOK, Unclaimed
<1>4. CASE UndoReturned(r)
  BY <1>4 DEF UndoReturned, At, SerialInvOf, RequestInv, CreationOK
<1>5. ASSUME NEW b \in Bookings, InsertBooking(r, b) PROVE HeldInvOf(r)'
  <2>1. /\ req[r].pc = "inserting" /\ req[r].spot \in Spots /\ status[b] = "absent"
        /\ status'[b] = "pending" /\ spotOf'[b] = req[r].spot /\ UNCHANGED spot
        /\ \A c \in Bookings \ {b} : status'[c] = status[c] /\ spotOf'[c] = spotOf[c]
    BY <1>0, <1>5 DEF InsertBooking, InsertRow, At, TypeInv, TypeOK, RequestOK, Creating
  <2>2. \A s \in Spots : HeldBy(r, s) => HasSpot(b, s, {"pending", "confirmed"})'
    BY <2>1 DEF HeldBy, Unclaimed, Owing, HasSpot
  <2>3. \A c \in Bookings, s \in Spots, sts \in {{"pending", "confirmed"}, {"active", "completed"}} :
          HasSpot(c, s, sts) => HasSpot(c, s, sts)'
    BY <2>1 DEF HasSpot
  <2> QED BY <2>1, <2>2, <2>3 DEF HeldInvOf
<1> QED BY <1>1, <1>2, <1>3, <1>4, <1>5

LEMMA ReadHeld ==
  ASSUME TypeInv, NEW r \in Requests, HeldInvOf(r),
         ReadCache(r) \/ ReadRow(r) \/ FillCache(r) \/ UpdateRejected(r) \/ Publish(r)
  PROVE  HeldInvOf(r)'
<1>1. req[r].pc \in {"looking", "loading", "filling", "updating", "publishing"}
      /\ UNCHANGED <<spot, rowVars>>
  BY DEF ReadCache, ReadRow, FillCache, UpdateRejected, Publish, Decide, At
<1> QED BY <1>1, NothingHeld, HeldKept

\* The UPDATE of a row: its spot is held by the row, or by the call to come.
LEMMA TransitionHeld ==
  ASSUME TypeInv, NEW r \in Requests, SerialInvOf(r), HeldInvOf(r), UpdateStatus(r)
  PROVE  HeldInvOf(r)'
<1>0. /\ req[r].op \in Transitions /\ req[r].booking \in Bookings /\ req[r].pc = "updating"
      /\ CanTransitionTo(status[req[r].booking], Target(req[r].op))
  BY DEF UpdateStatus, SerialInvOf, RequestInv, CopyOK, Permitted, At, TypeInv, RequestOK,
     Creating
<1>1. PICK b \in Bookings, op \in Transitions :
        /\ b = req[r].booking /\ op = req[r].op /\ req[r].pc = "updating"
        /\ CanTransitionTo(status[b], Target(op))
  BY <1>0
<1>2. /\ status' = [status EXCEPT ![b] = Target(op)] /\ UNCHANGED <<spotOf, spot>>
      /\ req'[r].pc = "invalidating" /\ req'[r].op = op /\ req'[r].spot = spotOf[b]
  BY <1>1 DEF UpdateStatus, UpdateRow, TypeInv, TypeOK, RequestStates
<1>3. status'[b] = Target(op) /\ \A c \in Bookings \ {b} : status'[c] = status[c]
  BY <1>1, <1>2 DEF TypeInv, TypeOK
<1>4. \A c \in Bookings \ {b}, s \in Spots,
         sts \in {{"pending", "confirmed"}, {"active", "completed"}} :
        HasSpot(c, s, sts) => HasSpot(c, s, sts)'
  BY <1>2, <1>3 DEF HasSpot
<1>5. ASSUME NEW s \in Spots, HasSpot(b, s, {"pending", "confirmed"})
      PROVE  HasSpot(b, s, {"pending", "confirmed"})' \/ HeldBy(r, s)'
  <2>1. spotOf[b] = s /\ op \in {"confirm", "cancel", "start"}
    BY <1>1, <1>5 DEF HasSpot, CanTransitionTo, Target, Transitions
  <2>2. CASE op = "confirm"
    BY <1>2, <1>3, <2>1, <2>2 DEF HasSpot, Target
  <2>3. CASE op \in {"cancel", "start"}
    BY <1>2, <2>1, <2>3 DEF HeldBy, Owing
  <2> QED BY <2>1, <2>2, <2>3
<1>6. ASSUME NEW s \in Spots, HasSpot(b, s, {"active", "completed"})
      PROVE  HasSpot(b, s, {"active", "completed"})'
  BY <1>1, <1>2, <1>3, <1>6 DEF HasSpot, CanTransitionTo, Target, Transitions
<1>7. \A s \in Spots : ~HeldBy(r, s)
  BY <1>1, NothingHeld
<1> QED BY <1>2, <1>4, <1>5, <1>6, <1>7 DEF HeldInvOf

LEMMA AfterwardsHeld ==
  ASSUME TypeInv, NEW r \in Requests, SerialInvOf(r), HeldInvOf(r),
         InvalidateCache(r) \/ SetCache(r) \/ CallReturned(r)
  PROVE  HeldInvOf(r)'
<1>0. call \in [Requests -> Calls] /\ req \in [Requests -> RequestStates]
  BY DEF TypeInv, TypeOK, SpotTypeOK
<1>1. UNCHANGED <<spot, rowVars>>
  BY DEF InvalidateCache, SetCache, CallReturned
<1>2. CASE InvalidateCache(r)
  <2>1. /\ req[r].pc = "invalidating" /\ req'[r].pc = "caching"
        /\ req'[r].op = req[r].op /\ req'[r].spot = req[r].spot
    BY <1>0, <1>2 DEF InvalidateCache, Goto, At, RequestStates
  <2> QED BY <1>1, <2>1, HeldKept DEF HeldBy, Unclaimed, Owing
<1>3. CASE SetCache(r)
  <2>1. req[r].pc = "caching"
    BY <1>3 DEF SetCache, At
  <2>2. CASE req[r].op \in {"start", "cancel"}
    <3>1. PICK op \in {"status", "release"} : Goto(r, "calling") /\ Post(r, op, req[r].spot)
      BY <1>3, <2>2 DEF SetCache, AfterRepository
    <3>2. /\ req'[r].pc = "calling" /\ req'[r].op = req[r].op
          /\ req'[r].spot = req[r].spot /\ call'[r].phase = "sent"
      BY <1>0, <3>1 DEF Goto, Post, RequestStates
    <3> QED BY <1>1, <2>1, <3>2, HeldKept DEF HeldBy, Unclaimed, Owing
  <2>3. CASE req[r].op \notin {"start", "cancel"}
    <3>1. \A s \in Spots : ~HeldBy(r, s)
      BY <2>1, <2>3 DEF HeldBy, Unclaimed, Owing
    <3> QED BY <1>1, <3>1, HeldKept
  <2> QED BY <2>2, <2>3
<1>4. CASE CallReturned(r)
  <2>1. req[r].pc = "calling" /\ call[r].phase \in {"ok", "failed"}
    BY <1>4 DEF CallReturned, Replied, At
  <2> QED BY <1>1, <2>1, NothingHeld, HeldKept
<1> QED BY <1>2, <1>3, <1>4

\* The steps of parking-service: RESERVED is written for the creation that
\* asked for it, OCCUPIED for a booking that has begun.
LEMMA SpotStepHeld ==
  ASSUME TypeInv, NEW r \in Requests, SerialInvOf(r), HeldInvOf(r), SpotStep(r)
  PROVE  HeldInvOf(r)'
<1>0. /\ call \in [Requests -> Calls] /\ RequestOK(r)
      /\ spot \in [Spots -> SpotStatuses \union {"deleted"}]
  BY DEF TypeInv, TypeOK, SpotTypeOK
<1> DEFINE Elsewhere == UNCHANGED <<rowVars, cache, req, events, now, faults, excused>>
<1>1. CASE ReserveSpotRead(r) /\ Elsewhere
  <2>1. call[r].op = "reserve" /\ call[r].phase = "sent" /\ UNCHANGED <<spot, rowVars>>
    BY <1>1 DEF ReserveSpotRead
  <2>2. \A s \in Spots : ~HeldBy(r, s)
    BY <2>1 DEF SerialInvOf, RequestInv, CreationOK, EffectOK, NoCall, HeldBy, Unclaimed, Owing
  <2> QED BY <2>1, <2>2, HeldKept
<1>2. CASE ReserveSpotWrite(r) /\ Elsewhere
  <2>1. PICK t \in Spots :
          /\ t = call[r].spot /\ req[r].pc = "reserving" /\ req[r].spot = t
          /\ req[r].op = "create" /\ UNCHANGED <<rowVars, req>>
    BY <1>0, <1>2 DEF ReserveSpotWrite, SerialInvOf, RequestInv, CreationOK, EffectOK, NoCall,
       RequestOK, Creating
  <2>2. call'[r].phase = "ok" /\ \A s \in Spots \ {t} : spot'[s] = spot[s]
    BY <1>0, <1>2, <2>1 DEF ReserveSpotWrite, Reply, SetSpot, Calls
  <2>3. spot'[t] \in {"RESERVED", "deleted"}
    BY <1>0, <1>2, <2>1 DEF ReserveSpotWrite, SetSpot
  <2>4. HeldBy(r, t)' /\ \A s \in Spots : ~HeldBy(r, s)
    BY <1>2, <2>1, <2>2 DEF ReserveSpotWrite, HeldBy, Unclaimed, Owing
  <2>5. ASSUME NEW s \in Spots
        PROVE  /\ spot'[s] = "RESERVED" =>
                    (\E b \in Bookings : HasSpot(b, s, {"pending", "confirmed"})') \/ HeldBy(r, s)'
               /\ spot'[s] = "OCCUPIED" =>
                    \E b \in Bookings : HasSpot(b, s, {"active", "completed"})'
    <3>1. CASE s = t
      BY <2>3, <2>4, <3>1
    <3>2. CASE s # t
      BY <2>1, <2>2, <2>4, <3>2 DEF HeldInvOf, HasSpot, rowVars
    <3> QED BY <3>1, <3>2
  <2> QED BY <2>5 DEF HeldInvOf
<1>3. CASE ReleaseSpotRead(r) /\ Elsewhere
  <2>1. /\ call[r].op = "release" /\ call[r].phase = "sent" /\ UNCHANGED <<spot, rowVars, req>>
        /\ call'[r].phase = (IF Releasable(call[r].spot) THEN "write" ELSE "failed")
    BY <1>0, <1>3 DEF ReleaseSpotRead, Reply, Calls
  <2>2. /\ req[r].pc = "calling" /\ call[r].spot = req[r].spot
        /\ (req[r].op = "cancel" => Releasable(call[r].spot)) /\ req[r].op # "start"
    BY <2>1 DEF SerialInvOf, RequestInv, CreationOK, EffectOK, NoCall, Owing, Releasable
  <2>3. \A s \in Spots : HeldBy(r, s) => HeldBy(r, s)'
    BY <2>1, <2>2 DEF HeldBy, Unclaimed, Owing
  <2> QED BY <2>1, <2>3, HeldKept
<1>4. CASE ReleaseSpotWrite(r) /\ Elsewhere
  <2> DEFINE t == call[r].spot
  <2>1. /\ req[r].pc = "calling" /\ req[r].spot = t /\ t \in Spots /\ UNCHANGED rowVars
    BY <1>0, <1>4 DEF ReleaseSpotWrite, SerialInvOf, RequestInv, CreationOK, EffectOK, NoCall,
       RequestOK, Creating
  <2>2. \A s \in Spots \ {t} : spot'[s] = spot[s] /\ ~HeldBy(r, s)
    BY <1>0, <1>4, <2>1 DEF ReleaseSpotWrite, SetSpot, HeldBy, Unclaimed, Owing
  <2>3. spot'[t] \in {"AVAILABLE", "deleted"}
    BY <1>0, <1>4, <2>1 DEF ReleaseSpotWrite, SetSpot
  <2> HIDE DEF t
  <2> QED BY <2>1, <2>2, <2>3 DEF HeldInvOf, HasSpot, rowVars
<1>5. CASE UpdateSpotStatus(r) /\ Elsewhere
  <2> DEFINE t == call[r].spot
  <2>1. /\ req[r].pc = "calling" /\ req[r].op = "start" /\ req[r].spot = t /\ t \in Spots
        /\ req[r].booking \in Bookings /\ UNCHANGED rowVars
    BY <1>0, <1>5 DEF UpdateSpotStatus, SerialInvOf, RequestInv, CreationOK, EffectOK, NoCall,
       RequestOK, Creating
  <2>2. HasSpot(req[r].booking, t, {"active", "completed"})
    BY <2>1 DEF SerialInvOf, RequestInv, CopyOK, Target, HasSpot
  <2>3. \A s \in Spots \ {t} : spot'[s] = spot[s] /\ ~HeldBy(r, s)
    BY <1>0, <1>5, <2>1 DEF UpdateSpotStatus, SetSpot, HeldBy, Unclaimed, Owing
  <2>4. spot'[t] \in {"OCCUPIED", "deleted"}
    BY <1>0, <1>5, <2>1 DEF UpdateSpotStatus, SetSpot, Occupied
  <2> HIDE DEF t
  <2> QED BY <2>1, <2>2, <2>3, <2>4 DEF HeldInvOf, HasSpot, rowVars
<1>6. CASE DropReply(r)
  <2>1. UNCHANGED <<spot, rowVars, req>> /\ ~Waiting(r)
    BY <1>6 DEF DropReply
  <2> QED BY <2>1, HeldKept DEF HeldBy, Unclaimed, Owing, Waiting
<1> QED BY <1>1, <1>2, <1>3, <1>4, <1>5, <1>6 DEF SpotStep, ServeCall

LEMMA NextHeldInv ==
  ASSUME TypeInv, SerialInv, HeldInv, Calm, Calm', OperatorStatuses = {}, [Next]_vars
  PROVE  HeldInv'
<1>0. ASSUME NEW r \in Requests, HeldInvOf(r)' PROVE HeldInv'
  BY <1>0 DEF HeldInvOf, HeldInv
<1>1. ASSUME NEW r \in Requests,
             \/ \E s \in Spots, i \in Slots : BeginCreate(r, s, i)
             \/ \E op \in UserOps, b \in Bookings : BeginOn(r, op, b)
      PROVE  HeldInv'
  <2>1. OnlyMover(r) /\ req[r].pc = "idle" /\ UNCHANGED <<spot, rowVars>>
    BY <1>1, BeginOfMover DEF BeginCreate, BeginOn, Free, Idle
  <2>2. HeldInvOf(r)'
    BY <2>1, MoverHeld, NothingHeld, HeldKept
  <2> QED BY <1>0, <2>2
<1>2. ASSUME NEW r \in Requests, RequestStep(r) \/ SpotStep(r)
      PROVE  HeldInv'
  <2>1. SerialInvOf(r) /\ HeldInvOf(r)
    BY <1>2, StepOfMover, MoverInv, MoverHeld
  <2>2. HeldInvOf(r)'
    BY <1>2, <2>1, CreationHeld, ReadHeld, TransitionHeld, AfterwardsHeld, SpotStepHeld
    DEF RequestStep
  <2> QED BY <1>0, <2>2
<1>3. CASE Tick \/ (\E b \in Bookings : Expire(b)) \/ UNCHANGED vars
  <2>1. UNCHANGED <<spot, call, rowVars, req>>
    BY <1>3 DEF Tick, Expire, vars
  <2> QED BY <2>1 DEF HeldInv, HeldBy, HasSpot, Unclaimed, Owing, rowVars
<1> QED BY <1>1, <1>2, <1>3, CalmSteps

\* Between two requests the status of a spot tells which bookings it has, and
\* the bookings tell the status: no operation of BookingService leaves a spot
\* RESERVED for nobody, or a booking without its spot.
THEOREM SpotTellsBookingHolds ==
  OperatorStatuses = {} => (Spec /\ []Calm => []SpotTellsBooking)
<1> SUFFICES ASSUME OperatorStatuses = {} PROVE Spec /\ []Calm => []SpotTellsBooking
  OBVIOUS
<1>1. TypeInv /\ SerialInv /\ HeldInv => SpotTellsBooking
  <2> SUFFICES ASSUME TypeInv, SerialInv, HeldInv, AtRest PROVE SpotTellsBooking
    BY DEF SpotTellsBooking
  <2>1. \A r \in Requests, s \in Spots : ~Owing(r, "start", s) /\ ~HeldBy(r, s)
    BY FreeInv DEF AtRest, BookingOps, HeldBy
  <2>2. ASSUME NEW b \in Bookings, NEW s \in Spots
        PROVE  /\ HasSpot(b, s, {"pending", "confirmed"}) => spot[s] = "RESERVED"
               /\ HasSpot(b, s, {"active"}) => spot[s] = "OCCUPIED"
    BY <2>1 DEF SerialInv, SpotInv, HasSpot
  <2> QED BY <2>1, <2>2 DEF SpotTellsBooking, HeldInv
<1>2. Spec /\ []Calm => []SerialInv
  BY SerialInvHolds
<1>3. Init => HeldInv
  BY DEF Init, SpotInit, HeldInv
<1>4. TypeInv /\ SerialInv /\ HeldInv /\ Calm /\ Calm' /\ [Next]_vars => HeldInv'
  BY NextHeldInv
<1> QED BY <1>1, <1>2, <1>3, <1>4, TypeInvHolds, PTL DEF Spec

THEOREM CacheCoherentHolds ==
  OperatorStatuses = {} => (Spec /\ []Calm => []CacheCoherent)
<1> SUFFICES ASSUME OperatorStatuses = {} PROVE Spec /\ []Calm => []CacheCoherent
  OBVIOUS
<1>1. SerialInv => CacheCoherent
  BY FreeInv DEF CacheCoherent, AtRest, SerialInv, CacheInv
<1>2. Spec /\ []Calm => []SerialInv
  BY SerialInvHolds
<1> QED BY <1>1, <1>2, PTL

-----------------------------------------------------------------------------
(* The services implement the desk.                                        *)

\* What the board shows of spot s, in terms of the request under way.
Shown(r, s, st) ==
    /\ Unclaimed(r, s) => st = "AVAILABLE"
    /\ Owing(r, "start", s) => st = "OCCUPIED"
    /\ Owing(r, "cancel", s) => st = "AVAILABLE"
    /\ ~Unclaimed(r, s) /\ ~Owing(r, "start", s) /\ ~Owing(r, "cancel", s) => st = spot[s]

LEMMA BoardShows ==
  ASSUME NEW r \in Requests, OnlyMover(r), RequestInv(r), NEW s \in Spots
  PROVE  Shown(r, s, DeskSpot(s))
<1>1. \A q \in Requests \ {r} :
        /\ ~Unclaimed(q, s)
        /\ ~Owing(q, "start", s) /\ ~Owing(q, "cancel", s) /\ ~Owing(q, "complete", s)
  BY FreeInv DEF OnlyMover, BookingOps
<1>2. /\ Owing(r, "cancel", s) => spot[s] = "RESERVED"
      /\ Owing(r, "complete", s) => spot[s] = "OCCUPIED"
  BY DEF RequestInv, EffectOK, Owing
<1>3. /\ ~(Unclaimed(r, s) /\ Owing(r, "start", s))
      /\ ~(Unclaimed(r, s) /\ Owing(r, "cancel", s))
      /\ ~(Owing(r, "start", s) /\ Owing(r, "cancel", s))
  BY DEF Unclaimed, Owing
<1> QED BY <1>1, <1>2, <1>3 DEF Shown, DeskSpot, Occupied

LEMMA BoardShowsLater ==
  ASSUME NEW r \in Requests, OnlyMover(r)', RequestInv(r)', NEW s \in Spots
  PROVE  Shown(r, s, DeskSpot(s))'
<1>1. \A q \in Requests \ {r} :
        /\ ~Unclaimed(q, s)'
        /\ ~Owing(q, "start", s)' /\ ~Owing(q, "cancel", s)' /\ ~Owing(q, "complete", s)'
  BY FreeInvLater DEF OnlyMover, BookingOps
<1>2. /\ Owing(r, "cancel", s)' => spot'[s] = "RESERVED"
      /\ Owing(r, "complete", s)' => spot'[s] = "OCCUPIED"
  BY DEF RequestInv, EffectOK, Owing
<1>3. /\ ~(Unclaimed(r, s)' /\ Owing(r, "start", s)')
      /\ ~(Unclaimed(r, s)' /\ Owing(r, "cancel", s)')
      /\ ~(Owing(r, "start", s)' /\ Owing(r, "cancel", s)')
  BY DEF Unclaimed, Owing
<1> QED BY <1>1, <1>2, <1>3 DEF Shown, DeskSpot, Occupied

\* A step that leaves the spots, and what the request has still to do to them,
\* as they were changes nothing on the board.
LEMMA BoardUnchanged ==
  ASSUME NEW r \in Requests, OnlyMover(r), OnlyMover(r)', RequestInv(r), RequestInv(r)',
         NEW s \in Spots, spot'[s] = spot[s],
         Unclaimed(r, s)' <=> Unclaimed(r, s),
         Owing(r, "start", s)' <=> Owing(r, "start", s),
         Owing(r, "cancel", s)' <=> Owing(r, "cancel", s)
  PROVE  DeskSpot(s)' = DeskSpot(s)
<1>1. Shown(r, s, DeskSpot(s)) /\ Shown(r, s, DeskSpot(s))'
  BY BoardShows, BoardShowsLater
<1> QED BY <1>1 DEF Shown

LEMMA DeskStutters ==
  ASSUME UNCHANGED <<rowVars, now>>, \A s \in Spots : DeskSpot(s)' = DeskSpot(s)
  PROVE  UNCHANGED Desk!deskVars
BY DEF Desk!deskVars, rowVars

LEMMA RequestOnDesk ==
  ASSUME TypeInv, NEW r \in Requests, OnlyMover(r), OnlyMover(r)',
         SerialInvOf(r), SerialInvOf(r)',
         \/ \E s \in Spots, i \in Slots : BeginCreate(r, s, i)
         \/ \E op \in UserOps, b \in Bookings : BeginOn(r, op, b)
         \/ ReserveReturned(r) \/ CheckConflict(r) \/ InsertRejected(r) \/ UndoReturned(r)
         \/ ReadCache(r) \/ ReadRow(r) \/ FillCache(r) \/ UpdateRejected(r)
         \/ InvalidateCache(r) \/ SetCache(r) \/ CallReturned(r) \/ Publish(r)
  PROVE  UNCHANGED Desk!deskVars
<1>0. /\ call \in [Requests -> Calls] /\ req \in [Requests -> RequestStates] /\ RequestOK(r)
      /\ RequestInv(r) /\ RequestInv(r)'
  BY DEF TypeInv, TypeOK, SpotTypeOK, SerialInvOf
<1>1. UNCHANGED <<spot, rowVars, now>>
  BY DEF BeginCreate, BeginOn, ReserveReturned, CheckConflict, InsertRejected, UndoReturned,
     ReadCache, ReadRow, FillCache, UpdateRejected, InvalidateCache, SetCache, CallReturned,
     Publish
<1>2. ASSUME NEW s \in Spots
      PROVE  /\ Unclaimed(r, s)' <=> Unclaimed(r, s)
             /\ Owing(r, "start", s)' <=> Owing(r, "start", s)
             /\ Owing(r, "cancel", s)' <=> Owing(r, "cancel", s)
  <2> USE <1>0, SpotAssumption DEF Unclaimed, Owing, At, Idle, NoCall, RequestStates, Goto,
        Finish, Post, TakeReply, Replied
  <2>1. CASE \E t \in Spots, i \in Slots : BeginCreate(r, t, i)
    BY <2>1 DEF BeginCreate, Free
  <2>2. CASE \E op \in UserOps, b \in Bookings : BeginOn(r, op, b)
    BY <2>2 DEF BeginOn, Free
  <2>3. CASE ReserveReturned(r)
    BY <2>3 DEF ReserveReturned, RequestOK, Creating
  <2>4. CASE CheckConflict(r)
    BY <2>4 DEF CheckConflict, GiveUpSpot, RequestInv, CreationOK
  <2>5. CASE InsertRejected(r) \/ UndoReturned(r)
    BY <2>5 DEF InsertRejected, UndoReturned, GiveUpSpot, RequestInv, CreationOK
  <2>6. CASE ReadCache(r)
    BY <2>6 DEF ReadCache, Decide
  <2>7. CASE ReadRow(r)
    BY <2>7 DEF ReadRow
  <2>8. CASE FillCache(r)
    BY <2>8 DEF FillCache, Decide
  <2>9. CASE UpdateRejected(r) \/ Publish(r)
    BY <2>9 DEF UpdateRejected, Publish
  <2>10. CASE InvalidateCache(r)
    BY <2>10 DEF InvalidateCache
  <2>11. CASE SetCache(r)
    BY <2>11 DEF SetCache, AfterRepository
  <2>12. CASE CallReturned(r)
    BY <2>12 DEF CallReturned, AfterCall
  <2> QED BY <2>1, <2>2, <2>3, <2>4, <2>5, <2>6, <2>7, <2>8, <2>9, <2>10, <2>11, <2>12
<1>3. \A s \in Spots : DeskSpot(s)' = DeskSpot(s)
  BY <1>0, <1>1, <1>2, BoardUnchanged
<1> QED BY <1>1, <1>3, DeskStutters

\* Served by parking-service, a call has the effect the board has shown.
LEMMA SpotStepOnDesk ==
  ASSUME TypeInv, NEW r \in Requests, OnlyMover(r), OnlyMover(r)',
         SerialInvOf(r), SerialInvOf(r)', SpotStep(r)
  PROVE  UNCHANGED Desk!deskVars
<1>0. /\ call \in [Requests -> Calls] /\ RequestOK(r)
      /\ spot \in [Spots -> SpotStatuses \union {"deleted"}]
      /\ RequestInv(r) /\ RequestInv(r)'
  BY DEF TypeInv, TypeOK, SpotTypeOK, SerialInvOf
<1>1. ServeCall(r) /\ UNCHANGED <<rowVars, req, now>>
  BY DEF SpotStep, DropReply, Waiting, Replied, SerialInvOf, RequestInv, EffectOK, CreationOK,
     NoCall
<1>2. ASSUME NEW s \in Spots PROVE DeskSpot(s)' = DeskSpot(s)
  <2>0. Shown(r, s, DeskSpot(s)) /\ Shown(r, s, DeskSpot(s))'
    BY <1>0, BoardShows, BoardShowsLater
  <2> USE <1>0, <1>1, <2>0 DEF Shown, Unclaimed, Owing, RequestInv, CreationOK, EffectOK,
        NoCall, Reply, SetSpot, Calls, RequestOK, Creating
  <2>1. CASE ReserveSpotRead(r)
    BY <2>1 DEF ReserveSpotRead
  <2>2. CASE ReserveSpotWrite(r)
    BY <2>2 DEF ReserveSpotWrite
  <2>3. CASE ReleaseSpotRead(r)
    BY <2>3 DEF ReleaseSpotRead, Releasable
  <2>4. CASE ReleaseSpotWrite(r)
    BY <2>4 DEF ReleaseSpotWrite
  <2>5. CASE UpdateSpotStatus(r)
    BY <2>5 DEF UpdateSpotStatus, Occupied
  <2> QED BY <2>1, <2>2, <2>3, <2>4, <2>5 DEF ServeCall
<1> QED BY <1>1, <1>2, DeskStutters

\* The INSERT is the moment at which the desk books.
LEMMA InsertOnDesk ==
  ASSUME TypeInv, NEW r \in Requests, OnlyMover(r), OnlyMover(r)',
         SerialInvOf(r), SerialInvOf(r)', NEW b \in Bookings, InsertBooking(r, b)
  PROVE  Desk!DeskNext
<1> DEFINE s == req[r].spot
           i == req[r].slot
<1>1. /\ s \in Spots /\ i \in Slots
      /\ req[r].op = "create" /\ req[r].pc = "inserting" /\ status[b] = "absent"
      /\ status' = [status EXCEPT ![b] = "pending"]
      /\ spotOf' = [spotOf EXCEPT ![b] = s]
      /\ slotOf' = [slotOf EXCEPT ![b] = i]
      /\ UNCHANGED <<spot, now>>
  BY DEF InsertBooking, InsertRow, At, TypeInv, RequestOK, Creating
<1>2. req'[r].pc = "caching" /\ req'[r].op = "create"
  BY <1>1 DEF InsertBooking, TypeInv, TypeOK, RequestStates
<1>3. ASSUME NEW t \in Spots
      PROVE  /\ t = s => DeskSpot(t) = "AVAILABLE" /\ DeskSpot(t)' = "RESERVED"
             /\ t # s => DeskSpot(t)' = DeskSpot(t)
  <2>1. Shown(r, t, DeskSpot(t)) /\ Shown(r, t, DeskSpot(t))'
    BY BoardShows, BoardShowsLater DEF SerialInvOf
  <2>2. DeskSpot(t)' = spot[t]
    BY <1>1, <1>2, <2>1 DEF Shown, Unclaimed, Owing
  <2>3. t = s => DeskSpot(t) = "AVAILABLE" /\ spot[t] = "RESERVED"
    BY <1>1, <2>1 DEF Shown, Unclaimed, SerialInvOf, RequestInv, CreationOK
  <2>4. t # s => DeskSpot(t) = spot[t]
    BY <1>1, <2>1 DEF Shown, Unclaimed, Owing
  <2> QED BY <2>2, <2>3, <2>4
<1> HIDE DEF s, i
<1>4. Desk!Book(b, s, i)
  BY <1>1, <1>3 DEF Desk!Book
<1> QED BY <1>1, <1>4 DEF Desk!DeskNext

\* The UPDATE is the moment at which the desk confirms, cancels, starts or
\* completes.
LEMMA UpdateOnDesk ==
  ASSUME TypeInv, NEW r \in Requests, OnlyMover(r), OnlyMover(r)',
         SerialInvOf(r), SerialInvOf(r)', UpdateStatus(r)
  PROVE  Desk!DeskNext
<1> DEFINE b  == req[r].booking
           op == req[r].op
           s  == spotOf[b]
<1>1. /\ op \in Transitions /\ b \in Bookings /\ s \in Spots
      /\ CanTransitionTo(status[b], Target(op))
      /\ op = "start" => now >= slotOf[b][1]
      /\ status' = [status EXCEPT ![b] = Target(op)]
      /\ req[r].pc = "updating" /\ UNCHANGED <<spotOf, slotOf, spot, now>>
  BY DEF UpdateStatus, UpdateRow, SerialInvOf, RequestInv, CopyOK, Permitted, At, TypeInv,
     RowsOK, RequestOK, Creating
<1>2. req'[r].pc = "invalidating" /\ req'[r].op = op /\ req'[r].spot = s
  BY DEF UpdateStatus, TypeInv, TypeOK, RequestStates
<1>3. /\ op # "complete" => spot[s] = "RESERVED"
      /\ op = "complete" => spot[s] = "OCCUPIED"
  BY <1>1 DEF SerialInvOf, SpotInvOf, CanTransitionTo, Target, Transitions, Owing
<1>4. ASSUME NEW t \in Spots
      PROVE  /\ DeskSpot(t) = spot[t]
             /\ DeskSpot(t)' = IF t = s /\ op = "start" THEN "OCCUPIED"
                               ELSE IF t = s /\ op = "cancel" THEN "AVAILABLE"
                               ELSE spot[t]
  <2>1. Shown(r, t, DeskSpot(t)) /\ Shown(r, t, DeskSpot(t))'
    BY BoardShows, BoardShowsLater DEF SerialInvOf
  <2>2. DeskSpot(t) = spot[t]
    BY <1>1, <2>1 DEF Shown, Unclaimed, Owing
  <2>3. /\ ~Unclaimed(r, t)'
        /\ Owing(r, "start", t)' <=> t = s /\ op = "start"
        /\ Owing(r, "cancel", t)' <=> t = s /\ op = "cancel"
    BY <1>2 DEF Unclaimed, Owing
  <2>4. spot'[t] = spot[t]
    BY <1>1
  <2> HIDE DEF b, op, s
  <2> QED BY <2>1, <2>2, <2>3, <2>4 DEF Shown
<1> HIDE DEF b, op, s
<1>5. Desk!Move(b, Target(op))
  BY <1>1 DEF Desk!Move, Desk!CanTransitionTo, CanTransitionTo
<1>6. CASE op = "confirm"
  BY <1>1, <1>4, <1>5, <1>6 DEF Desk!Confirm, Desk!DeskNext, Target
<1>7. CASE op = "cancel"
  <2>1. s = spotOf[b]
    BY DEF s
  <2>2. Desk!Cancel(b)
    BY <1>1, <1>3, <1>4, <1>5, <1>7, <2>1 DEF Desk!Cancel, Desk!Freed, Target
  <2> QED BY <1>1, <2>2 DEF Desk!DeskNext
<1>8. CASE op = "start"
  <2>1. s = spotOf[b]
    BY DEF s
  <2>2. Desk!Start(b)
    BY <1>1, <1>4, <1>5, <1>8, <2>1 DEF Desk!Start, Target
  <2> QED BY <1>1, <2>2 DEF Desk!DeskNext
<1>9. CASE op = "complete"
  <2>1. s = spotOf[b]
    BY DEF s
  <2>2. Desk!Complete(b)
    BY <1>1, <1>3, <1>4, <1>5, <1>9, <2>1 DEF Desk!Complete, Desk!Freed, Target
  <2> QED BY <1>1, <2>2 DEF Desk!DeskNext
<1> QED BY <1>1, <1>6, <1>7, <1>8, <1>9 DEF Transitions

LEMMA EnvironmentOnDesk ==
  ASSUME TypeInv, Tick \/ (\E b \in Bookings : Expire(b)) \/ UNCHANGED vars
  PROVE  [Desk!DeskNext]_Desk!deskVars
<1>1. UNCHANGED <<spot, call, rowVars, req>>
  BY DEF Tick, Expire, vars
<1>2. \A s \in Spots : DeskSpot(s)' = DeskSpot(s)
  BY <1>1 DEF DeskSpot, Unclaimed, Owing
<1>3. CASE Tick
  BY <1>1, <1>2, <1>3 DEF Tick, Desk!Pass, Desk!DeskNext, rowVars
<1>4. CASE (\E b \in Bookings : Expire(b)) \/ UNCHANGED vars
  <2>1. UNCHANGED now
    BY <1>4 DEF Expire, vars
  <2> QED BY <1>1, <1>2, <2>1, DeskStutters
<1> QED BY <1>3, <1>4

LEMMA NextOnDesk ==
  ASSUME TypeInv, SerialInv, Calm, Calm', OperatorStatuses = {}, [Next]_vars
  PROVE  [Desk!DeskNext]_Desk!deskVars
<1>1. ASSUME NEW r \in Requests,
             \/ \E s \in Spots, i \in Slots : BeginCreate(r, s, i)
             \/ \E op \in UserOps, b \in Bookings : BeginOn(r, op, b)
      PROVE  UNCHANGED Desk!deskVars
  <2>1. OnlyMover(r) /\ OnlyMover(r)' /\ SerialInvOf(r)
    BY <1>1, BeginOfMover, MoverInv
  <2>2. SerialInvOf(r)'
    BY <1>1, <2>1, BeginKeeps
  <2> QED BY <1>1, <2>1, <2>2, RequestOnDesk
<1>2. ASSUME NEW r \in Requests, RequestStep(r)
      PROVE  [Desk!DeskNext]_Desk!deskVars
  <2>1. OnlyMover(r) /\ OnlyMover(r)' /\ SerialInvOf(r)
    BY <1>2, StepOfMover, MoverInv
  <2>2. SerialInvOf(r)'
    BY <1>2, <2>1, CreationStep, ReadStep, TransitionStep, AfterwardsStep DEF RequestStep
  <2> QED BY <1>2, <2>1, <2>2, RequestOnDesk, InsertOnDesk, UpdateOnDesk DEF RequestStep
<1>3. ASSUME NEW r \in Requests, SpotStep(r)
      PROVE  UNCHANGED Desk!deskVars
  <2>1. OnlyMover(r) /\ OnlyMover(r)' /\ SerialInvOf(r)
    BY <1>3, StepOfMover, MoverInv
  <2>2. SerialInvOf(r)'
    BY <1>3, <2>1, SpotStepKeeps
  <2> QED BY <1>3, <2>1, <2>2, SpotStepOnDesk
<1> QED BY <1>1, <1>2, <1>3, EnvironmentOnDesk, CalmSteps

\* While requests take turns, the many steps of an operation on Redis,
\* PostgreSQL and parking-service amount to the single step of the clerk of
\* BookingDesk: the row's INSERT or UPDATE is where the operation happens.
THEOREM DeskImplemented == OperatorStatuses = {} => (Spec /\ []Calm => DeskSpec)
<1> SUFFICES ASSUME OperatorStatuses = {} PROVE Spec /\ []Calm => DeskSpec
  OBVIOUS
<1>1. Init => Desk!DeskInit
  BY DEF Init, SpotInit, Desk!DeskInit, DeskSpot, Unclaimed, Owing, Idle, NoCall
<1>2. TypeInv /\ SerialInv /\ Calm /\ Calm' /\ [Next]_vars
        => [Desk!DeskNext]_Desk!deskVars
  BY NextOnDesk
<1>3. Spec /\ []Calm => []SerialInv
  BY SerialInvHolds
<1> QED BY <1>1, <1>2, <1>3, TypeInvHolds, PTL DEF Spec, DeskSpec, Desk!DeskSpec

-----------------------------------------------------------------------------
(* One goroutine that never fails is calm by itself.                       *)

\* The behaviours of a single request with no fault left to strike, those of
\* the run ReservationSerial, are among the calm ones.
THEOREM OneRequestCalm ==
  (\A q, r \in Requests : q = r) /\ MaxFaults = 0 => (Spec => []Calm)
<1> SUFFICES ASSUME \A q, r \in Requests : q = r, MaxFaults = 0 PROVE Spec => []Calm
  OBVIOUS
<1>1. TypeInv => Calm
  BY DEF TypeInv, TypeOK, Calm
<1> QED BY <1>1, TypeInvHolds, PTL
=============================================================================
