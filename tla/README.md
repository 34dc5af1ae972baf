# OnlineParking in TLA+

This directory specifies the backend of OnlineParking: six Go services that
talk over HTTP, gRPC and NATS and keep their state in PostgreSQL and Redis. The
modules follow the source; each definition that stands for code is listed with
its lines in `PROJECT.json` ("map").

## 1. Inventory

| component | state | operations | interacts with |
|---|---|---|---|
| booking-service | rows of `bookings` (PostgreSQL, with the exclusion constraint `bookings_spot_time_overlap_excl`); a cached copy of each booking (Redis, TTL) | CreateBooking (spot named, or picked: "quick"), GetBooking, ListBookings, ConfirmBooking, CancelBooking, StartBooking, CompleteBooking | reserves, releases and occupies spots of parking-service over HTTP; looks users up over gRPC; publishes `parking.booking.confirmed` and `.cancelled` |
| parking-service, spots | rows of `spots`, one status each | ReserveSpot, ReleaseSpot, UpdateSpotStatus, CreateSpot (limit per lot), DeleteSpot | called by booking-service and by operators |
| parking-service, lots and tariffs | rows of `parkings` and `tariffs`; two kinds of Redis key, one per lot and one for the list of all lots | CreateParking, DeleteParking, GetParking, GetAllParkings, CreateTariff, UpdateTariff, GetTariff, CalculatePrice | called by operators, booking-service and payment-service; CreateSpot and the tariffs read the lot through its key |
| payment-service | rows of `payments`; a Redis lock per booking (30 s) | CreatePayment, CancelPayment, queries | reads and confirms bookings, prices over HTTP, publishes `parking.payment.success` |
| notification-service | a bounded job channel and its worker pool; a key per processed event (Redis, 24 h); rows of `notifications`; a hub with a bounded channel per stream | handling of five NATS subjects, SendEmail, SendBulkEmail, SendSMS, SendPush, DeleteNotification, MarkRead, preferences, StreamNotifications, Shutdown | consumes NATS, sends mail over SMTP, streams over gRPC |
| auth-service | rows of `auth_users` and `refresh_tokens`; verification and reset links (Redis, TTL) | Register, Login, RefreshToken, Logout, RevokeAllSessions, VerifyEmail, ForgotPassword, ResetPassword, ChangePassword, ValidateToken, GetSession | publishes `parking.user.registered` |
| user-service | rows of `users` (soft deletion, a unique index on the e-mail of the active rows); two Redis keys per profile, by id and by e-mail | Create, Get, GetByEmail, GetBatch, Update, VerifyEmail, Ban, Delete, WatchUser, a profile from each registration | consumes `parking.user.registered`, streams over gRPC |
| api gateway, frontend, monitoring | none that matters here | | |

What is hard, and what correctness means:

* **booking-service and spots.** Each handler is a sequence of accesses to
  Redis, PostgreSQL, parking-service and NATS without a transaction around
  them. Decisions are made on data that may be stale (a cached booking, the
  answer of a SELECT, a spot's status). Failures of later steps are ignored or
  leave earlier ones in place. Right is: no double booking; bookings skip no
  stage; a reserved spot always has somebody who will use it or give it back;
  spots, cache and rows agree when nothing is under way.
* **payment-service.** A lock that expires, a check before a charge, a charge
  before a confirmation. Right is: a booking is paid once, money taken is never
  recorded as cancelled, a receipt tells of a paid and confirmed booking.
* **notification-service.** A bounded queue that drops, deduplication before
  handling, a decoder that refuses, streams that subscribe while rows are
  written, shutdown against running callbacks. Right is: an event is mailed
  once, what is queued is mailed, a stream loses nothing between its history
  and its channel, and the workers stop.
* **auth-service.** Links and refresh tokens are read, acted upon and withdrawn
  in separate statements, and keys expire between them. Right is: one welcome
  per e-mail, with a link that works; no link spent in vain; one live refresh
  token per login.
* **user-service.** Two keys per row that writers drop and readers fill,
  deletion that leaves the row, an upsert beside a unique index. Right is: one
  active profile per e-mail; a cache that is stale for known reasons only; a
  stream that learns of a ban.
* **parking-service, lots.** Count-then-insert, a key that outlives its lot, two
  rows where one is meant. Right is: the limit holds, and is missed by no more
  than the requests that raced; nothing belongs to a lot that is gone; the keys
  tell which lots there are; a lot quotes one price.

`PROJECT.json` lists these hazards one by one, at their lines.

## 2. Plan

| order | module | abstract specification | status |
|---|---|---|---|
| 1 | `BookingStatus`, `SpotService`, `Reservation` (composed), `ReservationHistory` | `SpotCalendar`, `BookingDesk` | checked and proved |
| 2 | `Payment`, composed with the bookings it reads and confirms | `BookingStages`, the contract between the two services | checked and proved |
| 3 | `NotificationEvents`, `Notification` | | checked and proved |
| 4 | `ParkingLots` | | checked and proved |
| 5 | `Auth` | | checked and proved |
| 6 | `UserProfiles` | | checked and proved |

Modules to be proved about hold no RECURSIVE operator and name the assumptions
on their constants. `X` and its theorems are in two modules, `X` and `XProofs`;
`MCX` gives values to the constants that a .cfg cannot write. An operator whose
comment begins "Faulty variant" is a plausible bug: it is used by no
specification, and is there to show that the property it would break notices.

## 3. The core: Reservation

### Modules

* `BookingStatus` - the statuses, `CanTransitionTo` and the overlap predicate of
  the SQL (`Overlaps`), as pure operators.
* `SpotService` - parking-service as bookings see it: the variable `spot` (the
  status column, "deleted" for no row) and `call` (the outstanding HTTP call of
  each caller). `ReserveSpot` and `ReleaseSpot` are two steps, read and write,
  as in `spot_usecase.go`; `UpdateSpotStatus` is one. A call runs on after its
  caller has given up: the handlers of parking-service ignore the request's
  context.
* `Reservation` - booking-service on top of it. `status`, `spotOf`, `slotOf` are
  the columns of `bookings`; `cache` the status inside Redis' copy; `req` the
  goroutine of each request, whose `pc` names the next access to shared state;
  `events` what NATS was given; `now` the clock StartBooking reads. One action
  per access, so two requests interleave wherever two goroutines can:

  | operation | actions in order |
  |---|---|
  | CreateBooking | `CreateBooking`/`QuickBooking`, (spot served), `ReserveReturned`, `CheckConflict`, `InsertBooking` or `InsertRejected`, `SetCache`; on an error `GiveUpSpot`, (spot served), `UndoReturned` |
  | GetBooking | `BeginOn`, `ReadCache`, `ReadRow`, `FillCache` |
  | transitions | the same, `Decide`, `UpdateStatus` or `UpdateRejected`, `InvalidateCache`, `SetCache`, then a call (`CallReturned`) and/or `Publish` |

  Faults: `ClientTimeout`, `CallFails`, `StatementFails`, `InsertUnacknowledged`
  and `UpdateUnacknowledged` (committed, but the connection broke), `CacheFails`,
  `PublishFails`, `ContextCancelled` (the user hangs up: every later step that
  takes the request's context fails, the publication does not take it) and
  `Crash`. The environment: `Tick`, `Expire` (TTL), `Operator` (PATCH and DELETE
  of spots).
* `SpotCalendar` - abstract: a set of claims, entered only when they clash with
  none. `BookingDesk` - abstract: each operation as one atomic step.
* `ReservationProperties` - everything claimed; `ReservationHistory` - a history
  variable `held`, all the statuses a booking has had.
* `BookingStages` - abstract: what another service may rely on of a booking's
  status, in terms of `held`. `ReservationHistory` implements it (`StagesSpec`).

The vehicle plate, the price and the e-mail addresses are left out of a
booking's data; ids and times are small sets. The interval of a
booking is not in the cache model because no operation changes it. The history
variable `excused` records the spots on which a fault or an operator may have
left a reservation that nobody answers for; it never influences a step.

### Properties and runs

| run | instance | properties |
|---|---|---|
| ReservationRace | 2 requests, 1 spot, 2 bookings with overlapping slots, all transitions, no fault | `TypeOK`, `NoDoubleBooking`, `ReservedHasHolder`, `CalendarSpec` |
| ReservationFaults | 2 requests, 1 spot, 1 booking, every operation, one fault, an operator that sets MAINTENANCE or RESERVED or deletes | `HistoryTypeOK`, `NoStageSkipped`, `AnnouncedHappened`, `StagesSpec`, `ReservedHasHolder` |
| ReservationSerial | 1 request, 2 spots, 2 bookings, every operation, a clock of two instants | `SpotTellsBooking`, `CacheCoherent`, `DeskSpec`, `DecisionAnnounced` |
| ReservationLiveness | 2 requests, 1 spot, 2 bookings, creation and cancellation, one fault | `ReservationSettles` |

Why the bounds suffice: every hazard in the list is a race of two requests on
one spot or one booking, or one fault between two steps; two requests, one spot
and two overlapping slots reach each of them, and a second fault only adds to
what one may excuse. The theorems below remove the bounds for safety.
`ReservationSerial` is about one request at a time because `SpotTellsBooking`,
`CacheCoherent` and `DeskSpec` are false of two: two that interleave can leave
spots, rows and cache in disagreement. `SpotTellsBooking` says both what a
booking makes of its spot and what a spot tells of its bookings: between
requests a spot is RESERVED exactly when a pending or confirmed booking has it,
that of an active booking is OCCUPIED, and an OCCUPIED one belongs to a booking
that is active or completed. No operation leaves a spot reserved for nobody.
`AnnouncedHappened` is about faults: an event follows its row, whichever step of
ConfirmBooking or CancelBooking fails, times out or is abandoned.
`OperatorStatuses` has one status that no code asks about, MAINTENANCE, for all
the texts that PATCH accepts.
`ReservationFaults` does not check for deadlock because an operator may delete
the only spot, after which nothing is left to do.

Two runs on this module are expected to find a violation: something the
repository says that the code does not do.

* `StaleTransition` - a booking moves against `CanTransitionTo` (two requests
  that read before either writes; `UpdateStatus` has no condition on the status).
  `NoDoubleBooking` survives even this, thanks to the exclusion constraint, and
  `NoStageSkipped` is what is left of the arrows.
* `SpotLeftOccupied` - completing a booking asks `ReleaseSpot` for an OCCUPIED
  spot, which refuses; the spot is never AVAILABLE again. (A booking cannot go
  on once its only spot is lost, hence no check for deadlock in either run.)

`BookingDesk` therefore says what the services do, not what one would wish: its
`Complete` frees the spot only from RESERVED.

### Fairness

`Fairness` is weak fairness of each request's own steps and of the service of
its call: a goroutine that can run is run, and the HTTP client's timeout or a
reply ends each wait. Users, operators, the clock, the TTL and faults owe
nothing. `ReservationSettles` and `DecisionAnnounced` are claimed under it.

## 4. Payments

`Payment` composes payment-service with `BookingStages`. That is sound because
booking-service implements `BookingStages` (checked in `ReservationFaults`,
proved as `StagesImplemented`): whatever GetBooking answers is a status the
booking has had, and a confirmation succeeds only if `CanTransitionTo` allows it
from such a status. So the reads of payment-service are exactly as stale here as
the cache of booking-service can make them.

| code | model |
|---|---|
| key `payment:lock:<id>` in Redis | `locked` |
| rows of `payments` | `pay` (status), `payFor` (booking_id) |
| a goroutine in CreatePayment | `job`: `BeginPayment` (SETNX), `AskBooking`, `CheckPaid`, `CreateRow`, `MarkPaid`, `ConfirmBooking`, `Publish`, `Unlock` (the deferred DEL, on every way out) |
| a goroutine in CancelPayment | `BeginCancel` (the read), `CancelRow` (the guarded UPDATE) |
| the 30 seconds of the lock | `LockExpires`, at any time |
| users of booking-service | `BookingMoves` |
| faults | `StepFails` (an error or a hang-up; the DEL uses a context of its own), the `...Unacknowledged` actions (the effect is there, the reply is not), `Crash` |

`lapsed` records the bookings whose lock expired while a request still held it,
`refused` the payments whose confirmation was refused; neither influences a
step. The price and the e-mail address are not modelled, their look-ups can only
fail. A statement whose connection breaks takes effect before the handler goes
on, or not at all; booking ids are taken in the one form in which the API hands
them out, since the key of the lock is made from the text of the id.

`Payments` checks 2 requests, 1 booking, 3 payments, 2 faults, users that confirm
and cancel: two requests are enough for one to outlive its lock and delete the
other's, three payments let a payment be repeated twice, two faults let a lost
reply be followed by a crash.

* `PaidOnce` - no booking is paid for twice unless its lock lapsed. When it did,
  two requests pay, each with its own row (no constraint in the database refuses
  the second).
* `PaidStaysPaid` - CancelPayment decides on a status it has read, but its UPDATE
  tests again. The converse is not claimed: `MarkPaid` has no such test, and a
  payment cancelled between INSERT and MarkPaid is paid.
* `ReceiptFollows`, `PaidAnnounced` - a receipt comes after payment and
  confirmation; without faults it comes, unless the confirmation was refused
  (the booking was cancelled meanwhile, or confirmed by its user). The payment
  then stays paid and a retry is told that the booking is already paid.

`PaymentFairness` is weak fairness of each request's steps. Locks need not
expire, users need not act.

## 5. Notifications

`NotificationEvents` lists, per subject, the JSON fields the publisher marshals
and those of the struct the handler decodes into. `jsonUnmarshal` refuses
unknown fields and other JSON types, so `Understood` is inclusion: of the four
subjects that somebody publishes only `booking.cancelled` fits.

| code | model |
|---|---|
| the subscription's callback, its non-blocking send to the `jobs` channel | `inbox`, `Enqueue` into `jobs`, which drops at `QueueCap` and panics once Shutdown has closed the channel |
| a worker; `HandleEvent` | `task`: `TakeJob`, `MarkProcessed` (SETNX, then decoding), `createAndDeliver` |
| `createAndDeliver`, shared with the sends | `CreateRow`, `SendMail`, `UpdateStatus`, `Broadcast` |
| `notification:event:<id>` | `processed` |
| rows of `notifications` | `row` |
| hub, `StreamNotifications` | `feed` (the channel of a client), `OpenStream`, `ReadHistory`, `SendSnapshot`, `ReceiveNew`, `CloseStream` |
| `Shutdown` | `BeginShutdown` (Drain, close), `WorkersDone`, `Exit` |
| faults | `ForgetEvent` (the key is lost), `MarkFails`, `CreateFails`, `MailFails` (with or without effect), `UpdateFails`, `HistoryFails`, `Crash` |

The rest is history: `announced`, `seen`, `missed`, `mails`, `forgotten`,
`unrecorded`. All notifications are one user's. `BeginSend` starts only if
`RowsLeft`, a bound that keeps an id free for each creation under way.

`Notifications`: one event delivered twice, two workers, one request, one
stream, two rows, a queue and a stream channel of one place, a history page of
one row, one fault; 302,350 states. Two copies and two workers are what it takes
to race on the key; one place makes both channels overflow, and a page of one
row (50 in the code) leaves the other row beyond it. `Pages` lets any row be the
newest: rows created at the same instant are in no order.

* `MailedOnce` - duplicates and races of workers mail an event once while its
  key is in Redis, because SETNX decides.
* `StreamComplete` - subscribing before reading the history leaves no gap: what
  was announced has been seen or is in the channel, except for what a full
  channel or a failed statement lost and for what was announced before the
  client asked and is beyond the page. `missed` records what the channel had no
  room for and, when the page is read, those older announcements; a row that is
  in the channel is excused by neither.
* `ShutdownDrains` - past `workersDone.Wait` the queue is empty and no worker
  holds an event. This needs a worker (`Workers # {}`): the configuration's
  default is 5, and `New` replaces a number that is not positive by 5.
* `QueuedIsMailed`, `WorkersStop` - under `NotificationFairness`, weak fairness
  of callbacks, of each worker (a goroutine that can run is run, SMTP answers)
  and of the end of Shutdown's wait. Neither users, clients nor `Arrive` owe
  anything. `Exit` is not claimed: GracefulStop waits for the last stream.

`EventsMailed` is expected to be violated: it is `QueuedIsMailed` for every
event, as the repository's README.md promises, and a registration is marked as
processed, not understood and never mailed.

## 6. Accounts

`Auth` has one action per SQL statement or Redis command.

| operation | actions in order |
|---|---|
| Register | `BeginRegister`, `CreateUser` or `EmailTaken`, `StoreVerificationToken`, `PublishUserRegistered` |
| Login | `Login` (the row, the password), `CreateRefreshToken` |
| RefreshToken | `BeginRefresh` (both reads), `RevokeRefreshToken`, `RefreshToken` (the new row) |
| Logout, RevokeAllSessions | one UPDATE each |
| VerifyEmail | `BeginVerifyEmail` (GET), `MarkVerified`, `DeleteLink` |
| ForgotPassword | `ForgotPassword`, `StorePasswordResetToken` |
| ResetPassword | `BeginResetPassword` (GET), `ResetPassword`, `DeleteLink` |
| ChangePassword | `BeginChangePassword` (the row, the old password), `ChangePassword` |

`email`, `password`, `verified` are columns of `auth_users`, `link` the keys
`verify:` and `reset:`, `session` and `owner` the rows of `refresh_tokens`.
Passwords are model values with `Trimmed` (strings.TrimSpace, applied by
Register and Login, not by ResetPassword and ChangePassword) and `Strong`
(ValidatePassword). Keys and tokens expire at any time; `RequestFails`,
`RevokeFails` (whose outcome the code ignores) and `Crash` are the faults.

`Accounts`: two requests, two user ids for one e-mail, two verification links
and a reset link, three sessions, two passwords of which one is the other with
a blank, one fault. Two registrations of the e-mail and two refreshes of one
session race; three sessions make a login and two descendants.

* `WelcomedOnce`, `WelcomeLinkWorks` - the UNIQUE constraint leaves one of the
  registrations to be announced, after its link is stored.
* `SpentForGood` - both operations delete the link last.
* `OneLivePerLogin` - a family of refresh tokens has one live member. `forked`
  records the exceptions: two refreshes read the same token before either
  revokes it, or the revocation fails; then there are two.

Nothing is claimed to happen in the end: each step needs a client. The run does
not check for deadlock: ids of links and sessions run out.

## 7. Profiles

`UserProfiles` is user-service: `state` and `profile` are the table, `idKey` and
`emailKey` the two keys of Redis, `task` what a request executes next.
Transactions (`committing`) hold their row and their place in the unique index
from the statement to the COMMIT. Reads (`GetByID`, `GetByEmail`, `GetBatch`,
which asks for deleted rows too) take the row first and put it into Redis in two
later steps, `SetIdKey` and `SetEmailKey`; writes (`Update`, `VerifyEmail`,
`Ban`, `Delete`) change the row and then drop the keys the code drops
(`DropKeys`, `DropIdKey`). VerifyEmail, Ban and Delete make the key from the id
as the caller spelt it, and neither the handlers nor the service bring a UUID
into one spelling: `DropMisspelt` is their DEL of a key that is not there.
`HandleRegistered` is the upsert of the subscription,
one callback at a time. `WatchUser` and `Tick` are the stream that reads through
the cache every two seconds; asked for by another spelling of the id, it reads
the row each time, as `TickRead` does.

Faults: `Rollback` (a statement or COMMIT fails), `CacheFails` (a command on
Redis fails, which is ignored), `Abandon` (the UPDATE or COMMIT took effect but
its reply is lost, or the caller hangs up: the request returns before the
commands on Redis that are left) and `Crash`.

`Users`: two requests and a stream, two users of one e-mail, of which one is
registered by an event, two names, three writes, one fault; 438,080 states.
Three writes allow create, change and delete, so that a value read before a
write can be stored after it.

* `UniqueActiveEmail` - SELECT EXISTS guards nothing by itself; the partial
  index does, also against the upsert.
* `CacheFresh` - once nobody is about to drop or store a key, it agrees with the
  row. `excused` records the exceptions. Without a fault: a write that overtakes
  a value on its way to Redis, a DEL by another spelling of the id, a deleted row
  that GetBatch or the upsert caches. With one: a lost reply, a caller who hangs
  up, a failure of Redis, a crash, in each case while keys are left to be dropped
  or stored. And VerifyEmail and Ban leave the flags under the e-mail key alone.
* `WatcherLearnsBan` - under weak fairness of the stream's tick and of the TTL
  of the id key, a ban reaches the stream, however stale the key was.

No check for deadlock: the writes are bounded.

## 8. Lots

`ParkingLots`: `lot`, `spots` (how many), `tariff` are the tables, `lotKey` and
`listKey`/`listed` the keys. `GetByID` is a hit or a SELECT followed by
`SetCache`; CreateSpot is `GetByID`, `CountByParkingID`, `CreateSpot` and the
tariffs are `GetByID`, then `CreateTariff` or `UpdatePrice`; a hit on the key of
a deleted lot lets them go on, and the foreign key stops them. `GetAll` reads
the table and later writes the list (`SetAllCache`). Lots are deleted by the
usecase only: no route leads there.

Faults: `StatementFails`, `ReplyLost` (the INSERT or DELETE of a lot took effect,
and the request returns before it drops a key), `CacheFails` and `Crash`. The
repository's statements take no context, so nobody's hanging up cuts them short.
A spot or a price whose reply is lost is as one that was written: no key depends
on it.

`Lots`: three requests, one lot of one spot, two prices, four writes, one fault;
734,490 states. Three requests overshoot a limit of one by two, which is what
`OvershootBounded` allows. With two lots and two requests the properties hold as
well; a lot's rows and key do not depend on another's, and the list is tested
lot by lot.

* `LimitKept`, `OvershootBounded` - the limit, unless two CreateSpots both
  counted before either inserted (`crowded`); then less than one per request.
* `NoOrphans` - the cascade and the foreign key together, though the key is stale.
* `LotsFresh` - as `CacheFresh`, with `excused`, for both keys: a write that
  overtakes a list or a lot on its way to Redis, a lost reply, a failure of Redis
  or a crash.
* `OnePrice` - all tariffs of a lot agree, unless one was created beside another
  (`doubled`), which nothing prevents; UpdateTariff updates every row and so
  repairs it.

No check for deadlock: the writes are bounded and the service may be idle.

## 9. Proofs

All are about arbitrary sets for the constants and any number of faults. The
assumptions: slots are nonempty intervals of naturals (`ReservationAssumption`);
the null values are not ids (`SpotAssumption`, `PaymentAssumption` and the
others); capacities, limits and the size of a page are positive naturals and there is a
worker (`NotificationAssumption`, `LotAssumption`); verification and reset links
differ and trimming a password gives a password (`AuthAssumption`); the registered users have e-mails
(`UserAssumption`, `ProfileAssumption`); the requests at once are finitely many
where they are counted (`LotAssumption`).

* `ReservationProofs`
  * `TypeCorrect`: `TypeOK` is not inductive, because `UpdateStatus` copies the
    booking's spot into the request; `TypeInv` adds what the place of a request
    says of its other fields (`RequestOK`) and that an inserted row has a spot
    and a slot (`RowsOK`).
  * `NoDoubleBookingHolds`: `RowSteps` shows that the rows change by `InsertRow`
    and `UpdateRow` only; both go through `ExclusionAllows`, so the invariant is
    inductive with `TypeInv`.
  * `CalendarImplemented`: each of those two steps enters a claim
    (`LiveRowEnters`), withdraws one (`DeadRowWithdraws`) or changes none.
    `ClashOverlaps` connects the calendar's instants with the SQL predicate.
  * `ReservedHasHolderHolds`: `CallInv` ties a request to its call: a reserve
    call without a waiting caller is excused, and a request that posts a call has
    none outstanding. With it, each step either leaves the holder of a spot in
    place or hands the reservation on.
* `ReservationSerialProofs` - the properties of `ReservationSerial`, for every
  number of spots, bookings, intervals, instants, and of requests that take
  turns. Two hypotheses, both about behaviours: `OperatorStatuses = {}` (nobody
  sets a spot by hand) and `[]Calm` (no fault, and never two requests or calls
  under way). `OneRequestCalm` shows that the constants of the run give the
  second one; with more requests it selects the behaviours in which each waits
  for the one before.
  * `SerialInvHolds`: the properties speak of the moments between requests, so the
    induction needs `SerialInv`, which says in each place of each operation how
    far spot, row and cache have got: a creation holds a vacant spot from
    ReserveSpot to its INSERT, what has been read is still so, and the call that
    is left finds its spot as the row's last status left it. `OneLive` (a spot
    has one live booking at most, whatever the intervals, because ReserveSpot
    looks at the status only) makes that go through.
  * `SpotTellsBookingHolds`: `SerialInv` gives what the bookings tell of the
    spots. The converse needs `HeldInv`: a RESERVED spot has a booking that has
    not begun, or a request is on the way to giving it one or to changing it
    (`HeldBy`), and an OCCUPIED one has a booking that has begun. Between
    requests there is no such request.
  * `CacheCoherentHolds`: `SerialInv` between requests.
  * `DeskImplemented`: under `SerialInv` every step is a step of `BookingDesk` or
    a stutter. The spot of the desk is the spot without what a request holds for
    its INSERT (`Unclaimed`) and with what it still owes (`Owing`).
* `ReservationHistoryProofs`
  * `NoStageSkippedHolds`: `HistoryInv`, every copy of a status - row, cache,
    request - is one the booking has had, and a request about to update has found
    an arrow from what it read. `StagesImplemented` follows: `HeldEnters` turns
    each write of a row into a step of `BookingStages`. `HistoryTypeCorrect` is a
    part of the same invariant.
  * `AnnouncedHappenedHolds`: `AnnounceInv`, a request past its UPDATE has brought
    its booking the status it will announce.
  * `DecisionOwedHolds`, the converse: without a fault every decision in `held`
    has its event, or a request that owes it (`DebtIncurred`, `DebtKept`).
* `PaymentProofs` (`PaymentAssumption`: the null values are not ids)
  * `PaymentTypeCorrect`, with `JobOK`: what a request knows of its booking and
    its payment, by where it is.
  * `PaidOnceHolds`: `PaidOnce` is not inductive. `OneHolder` says that the lock
    excludes for as long as it has not lapsed, `StillUnpaid` that under it the
    answer of HasPaidPaymentForBooking is still true at `MarkPaid`; together with
    `PaidOnce` they are inductive, through lost replies, crashes and locks left
    behind.
  * `PaidStaysPaidHolds`: the only step that takes a payment from a status is
    `CancelRow`, and it tests for "pending".
  * `ReceiptFollowsHolds`: `ReceiptInv` carries, with a request that is about to
    publish, that its payment is paid and its booking has been confirmed
    (`Earned`), and `PaidKept` that neither is ever undone.
  * `ReceiptOwedHolds`: without a fault a paid payment has its receipt, its
    refusal, or a request on the way to one of them.
  * `StagesKept`: `Payment` keeps to `BookingStages` itself. With
    `StagesImplemented` this is the composition: booking-service allows what
    `Payment` takes for granted, and `Payment` does nothing else to a booking.
* `NotificationProofs`
  * `NotificationTypeCorrect`, with what each place of a task says of its event
    and its row.
  * `MailedOnceHolds`: `OnceInv` says that of an event Redis remembers at most one
    task is between `MarkProcessed` and the mail, that none is while the event is
    mailed already, and that an event without a key has neither.
  * `ShutdownDrainsHolds`: `DrainInv`, a worker that is gone saw the channel
    closed and empty, and nothing is put on a closed channel.
  * `MailOwedHolds`: without a fault or a panic an understood event whose key is
    set is mailed, or a worker is about to mail it. It rests on `DrainInv`, or the
    end of the process could lose one.
  * `StreamCompleteHolds`: `CarryInv` says that a row is carried by one task,
    which announces it once, and that the column tells what was announced unless
    its UPDATE failed or the row is deleted; `StreamInv` is `StreamComplete` from
    the moment the page of the history has been read, whatever its size.
* `AuthProofs` - every step is classified by what becomes of the request and of
  each table (`Becomes`, `Kinds`).
  * `AuthTypeCorrect`, with what each stage knows.
  * `SpentForGoodHolds`: `SpentInv`, a request that is about to delete a link has
    had its effect.
  * `WelcomeLinkWorksHolds`, `WelcomedOnceHolds`: `WelcomeInv`, an e-mail has one
    account, one request that welcomes it, and no event while that request has
    not published; a stored link is never taken from its account.
  * `OneLivePerLoginHolds`: `FamilyInv`, an unforked family has one request that
    refreshes it; the only live session is the one it is about to revoke, and
    there is none when it has.
* `UserProfilesProofs`
  * `UsersTypeCorrect`, with what each stage knows.
  * `UniqueActiveEmailHolds`: `IndexInv` extends the uniqueness to the rows that
    open transactions have written.
  * `CacheFreshHolds`: `FreshInv` says of every value on its way to Redis what
    `CacheFresh` says of the keys, `MailInv` that a row keeps its e-mail
    and every copy of the row has it. A request that leaves its commands on Redis
    undone, or drops a key that is not there, excuses its user (`CacheStep`).
* `ParkingLotsProofs`
  * `LotsTypeCorrect`; `NoOrphansHolds` and `OnePriceHolds`, inductive with it.
  * `LimitKeptHolds`: `LimitInv`, in a lot that is not crowded one request at most
    has counted, and there is room for its spot.
  * `OvershootBoundedHolds`: `OvershootInv`, spots and pending INSERTs together
    stay below the limit plus the number of requests.
  * `LotsFreshHolds`: `FreshInv`, of the keys and the values on their way to them.

Every invariant and action property of the runs, and every refinement, is
proved. Only model-checked are the liveness properties `ReservationSettles`,
`DecisionAnnounced`, `PaidAnnounced`, `QueuedIsMailed`, `WorkersStop` and
`WatcherLearnsBan`: fairness is out of the prover's reach. What four of them need
besides fairness is proved: that what must happen is never forgotten, but done or
in somebody's hands (`ReservedHasHolder`, `DecisionOwed`, `ReceiptOwed`,
`MailOwed`; the last three are stated with their proofs).

## 10. Not modelled

* Pure reads: ListBookings, ListUsers, CheckUserExists, the queries of spots and
  payments, GetTariff and CalculatePrice, ValidateToken and GetSession, which
  decode a token that is not stored.
* notification-service: MarkRead, the unread counter and the preferences. No
  other operation reads what they write: sends do not ask for the preferences.
  (Their key in Redis is written after the row, so that two updates at once may
  leave the older of the two in Redis for the five minutes of its TTL.)
* The `Server` of parking-service's `delivery/grpc/server.go` (the program
  registers `ParkingGRPCHandler`) and payment-service's gRPC server, which no
  program starts.
* Prices as numbers: DECIMAL(10,2) stores a price below half a cent as zero; the
  arithmetic of CalculatePrice is float64. Prices are model values.
* The API gateway, the frontend, monitoring, codecs, logging; Redis' or
  PostgreSQL's own replication; more than one instance of a service
  (docker-compose runs one of each).

Some hazards have no property, because the code has the behaviour and nothing in
the repository promises otherwise: a payment for a booking that is cancelled
between the check and the charge; MarkPaid over a cancelled payment; an event
dropped by a full queue; a registration event that is lost, which leaves an
account without a profile; ChangePassword over a reset that came between; a
second tariff beside the one a lot has, of which CalculatePrice takes whichever
row comes first. All
but the lost registration are behaviours of the modules.
