------------------------------- MODULE Payment -------------------------------
(***************************************************************************)
(* payment-service: CreatePayment under a Redis lock that expires, and     *)
(* CancelPayment, composed with the bookings as BookingStages gives them.  *)
(*                                                                         *)
(* A request is a goroutine of payment-service; a step is one access to    *)
(* Redis, PostgreSQL, booking-service or NATS.  The price and the e-mail   *)
(* address are read just before the INSERT, from services that no request  *)
(* changes: those calls can only fail, as StepFails at "creating".         *)
(***************************************************************************)
EXTENDS BookingStages, FiniteSets

CONSTANTS
    Requests,
    Payments,    \* payment ids: the UUIDs that CreatePayment may draw
    NoBooking, NoPayment,
    UserMoves,   \* bound: the statuses that users move bookings to themselves
    MaxFaults    \* bound on the faults of a behaviour

ASSUME PaymentAssumption ==
    /\ NoBooking \notin Bookings
    /\ NoPayment \notin Payments
    /\ UserMoves \subseteq Statuses
    /\ MaxFaults \in Nat

VARIABLES
    locked,    \* the bookings whose key payment:lock:<id> is in Redis
    pay,       \* status column of each payment, "absent" before its INSERT
    payFor,    \* booking_id column
    job,       \* what each request is doing
    receipts,  \* the payments whose success has been published to NATS
    faults,    \* how many faults have struck
    lapsed,    \* history: the bookings whose lock expired under its holder
    refused    \* history: the payments whose confirmation booking-service refused

paymentVars ==
    <<status, held, locked, pay, payFor, job, receipts, faults, lapsed, refused>>

-----------------------------------------------------------------------------
PaymentStatuses == {"pending", "paid", "cancelled"}

\* Where CreatePayment is while its deferred DEL is still to run.
Holding ==
    {"asking",      \* GetBooking
     "checking",    \* HasPaidPaymentForBooking
     "creating",    \* the price, the e-mail address, the INSERT of Create
     "marking",     \* the UPDATE of MarkPaid
     "confirming",  \* ConfirmBooking
     "publishing",  \* the NATS event
     "unlocking"}   \* the deferred DEL

Idle == [pc |-> "idle", booking |-> NoBooking, payment |-> NoPayment]

Jobs ==
    [pc      : Holding \union {"idle", "cancelling"},
     booking : Bookings \union {NoBooking},
     payment : Payments \union {NoPayment}]

PaymentTypeOK ==
    /\ StagesTypeOK
    /\ locked \subseteq Bookings
    /\ pay \in [Payments -> PaymentStatuses \union {"absent"}]
    /\ payFor \in [Payments -> Bookings \union {NoBooking}]
    /\ job \in [Requests -> Jobs]
    /\ receipts \subseteq Payments
    /\ faults \in 0..MaxFaults
    /\ lapsed \subseteq Bookings
    /\ refused \subseteq Payments

PaymentInit ==
    /\ StagesInit
    /\ locked = {}
    /\ pay = [p \in Payments |-> "absent"]
    /\ payFor = [p \in Payments |-> NoBooking]
    /\ job = [r \in Requests |-> Idle]
    /\ receipts = {}
    /\ faults = 0
    /\ lapsed = {} /\ refused = {}

At(r, pc) == job[r].pc = pc
Goto(r, pc) == job' = [job EXCEPT ![r].pc = pc]
Finish(r) == job' = [job EXCEPT ![r] = Idle]

-----------------------------------------------------------------------------
(* CreatePayment.                                                          *)

\* Bound: an id is left for every creation that may still draw one.
IdsLeft ==
    Cardinality({p \in Payments : pay[p] = "absent"})
        > Cardinality({r \in Requests : job[r].pc \in {"asking", "checking", "creating"}})

\* Faulty variant: SETNX whose answer is not looked at.
LockIgnored(b) == TRUE

\* SETNX succeeds.  A request that finds the key ends there.
LockFree(b) == b \notin locked

BeginPayment(r, b) ==
    /\ job[r] = Idle /\ IdsLeft
    /\ LockFree(b)
    /\ locked' = locked \union {b}
    /\ job' = [job EXCEPT ![r] = [pc |-> "asking", booking |-> b, payment |-> NoPayment]]
    /\ UNCHANGED <<status, held, pay, payFor, receipts, faults, lapsed, refused>>

Payable(st) == st \notin {"cancelled", "completed"}

\* GetBooking: 404, or the booking with a status that it has, or has had.
AskBooking(r) ==
    /\ At(r, "asking")
    /\ \/ held[job[r].booking] = {} /\ Goto(r, "unlocking")
       \/ \E st \in held[job[r].booking] :
            Goto(r, IF Payable(st) THEN "checking" ELSE "unlocking")
    /\ UNCHANGED <<status, held, locked, pay, payFor, receipts, faults, lapsed, refused>>

Paid(b) == \E p \in Payments : pay[p] = "paid" /\ payFor[p] = b

CheckPaid(r) ==
    /\ At(r, "checking")
    /\ Goto(r, IF Paid(job[r].booking) THEN "unlocking" ELSE "creating")
    /\ UNCHANGED <<status, held, locked, pay, payFor, receipts, faults, lapsed, refused>>

InsertPayment(r, p) ==
    /\ pay[p] = "absent"
    /\ pay' = [pay EXCEPT ![p] = "pending"]
    /\ payFor' = [payFor EXCEPT ![p] = job[r].booking]

CreateRow(r, p) ==
    /\ At(r, "creating")
    /\ InsertPayment(r, p)
    /\ job' = [job EXCEPT ![r] = [pc |-> "marking", booking |-> job[r].booking, payment |-> p]]
    /\ UNCHANGED <<status, held, locked, receipts, faults, lapsed, refused>>

\* Faulty variant: the word of the event's subject, parking.payment.success.
SetPaidMisspelt(p) == pay' = [pay EXCEPT ![p] = "success"]

\* UPDATE payments SET status = 'paid' WHERE id = p: a payment that was
\* cancelled in the meantime becomes paid all the same.
SetPaid(p) == pay' = [pay EXCEPT ![p] = "paid"]

MarkPaid(r) ==
    /\ At(r, "marking")
    /\ SetPaid(job[r].payment)
    /\ Goto(r, "confirming")
    /\ UNCHANGED <<status, held, locked, payFor, receipts, faults, lapsed, refused>>

\* Faulty variant: a confirmation that is refused is not an error.
AfterRefusalAnyway(r) == Goto(r, "publishing")

\* "payment created, but booking confirmation failed": nothing is undone.
AfterRefusal(r) == Goto(r, "unlocking")

ConfirmBooking(r) ==
    /\ At(r, "confirming")
    /\ \/ /\ Move(job[r].booking, "confirmed")
          /\ Goto(r, "publishing")
          /\ UNCHANGED refused
       \/ /\ \E st \in held[job[r].booking] : ~CanTransitionTo(st, "confirmed")
          /\ AfterRefusal(r)
          /\ refused' = refused \union {job[r].payment}
          /\ UNCHANGED stageVars
    /\ UNCHANGED <<locked, pay, payFor, receipts, faults, lapsed>>

\* Faulty variant: the event is prepared and never sent.
ReceiptsUnsent(r) == receipts

Receipts(r) == receipts \union {job[r].payment}

Publish(r) ==
    /\ At(r, "publishing")
    /\ receipts' = Receipts(r)
    /\ Goto(r, "unlocking")
    /\ UNCHANGED <<status, held, locked, pay, payFor, faults, lapsed, refused>>

\* The deferred DEL, which asks neither whether the key is still there nor
\* whose it is.
Unlock(r) ==
    /\ At(r, "unlocking")
    /\ locked' = locked \ {job[r].booking}
    /\ Finish(r)
    /\ UNCHANGED <<status, held, pay, payFor, receipts, faults, lapsed, refused>>

-----------------------------------------------------------------------------
(* CancelPayment.                                                          *)

\* GetByID finds the payment pending.
BeginCancel(r, p) ==
    /\ job[r] = Idle /\ pay[p] = "pending"
    /\ job' = [job EXCEPT ![r] = [pc |-> "cancelling", booking |-> NoBooking, payment |-> p]]
    /\ UNCHANGED <<status, held, locked, pay, payFor, receipts, faults, lapsed, refused>>

\* Faulty variant: the UPDATE trusts the status that GetByID has read.
CancellableAsRead(p) == pay[p] # "absent"

\* WHERE id = $3 AND status = 'pending'.
Cancellable(p) == pay[p] = "pending"

CancelRow(r) ==
    /\ At(r, "cancelling")
    /\ LET p == job[r].payment IN
         pay' = IF Cancellable(p) THEN [pay EXCEPT ![p] = "cancelled"] ELSE pay
    /\ Finish(r)
    /\ UNCHANGED <<status, held, locked, payFor, receipts, faults, lapsed, refused>>

RequestStep(r) ==
    \/ AskBooking(r) \/ CheckPaid(r)
    \/ \E p \in Payments : CreateRow(r, p)
    \/ MarkPaid(r) \/ ConfirmBooking(r) \/ Publish(r) \/ Unlock(r)
    \/ CancelRow(r)

-----------------------------------------------------------------------------
(* The environment: users of booking-service, the 30 seconds of the lock.  *)

BookingMoves(b) ==
    /\ Appear(b) \/ \E to \in UserMoves : Move(b, to)
    /\ UNCHANGED <<locked, pay, payFor, job, receipts, faults, lapsed, refused>>

\* A holder can outlive its lock: it waits up to 10 seconds for each of the
\* four answers it needs, and without limit for PostgreSQL.
LockExpires(b) ==
    /\ b \in locked
    /\ locked' = locked \ {b}
    /\ lapsed' = IF \E r \in Requests : job[r].booking = b THEN lapsed \union {b} ELSE lapsed
    /\ UNCHANGED <<status, held, pay, payFor, job, receipts, faults, refused>>

-----------------------------------------------------------------------------
(* Faults.                                                                 *)

Strike == faults < MaxFaults /\ faults' = faults + 1

\* A call or a statement fails without effect, or the user hangs up, which
\* cancels the context of every step but the publication and the DEL.
StepFails(r) ==
    /\ Strike
    /\ \/ job[r].pc \in Holding \ {"unlocking"} /\ Goto(r, "unlocking")
       \/ job[r].pc \in {"unlocking", "cancelling"} /\ Finish(r)
    /\ UNCHANGED <<status, held, locked, pay, payFor, receipts, lapsed, refused>>

\* SETNX has set the key and its reply is lost: nobody will delete it.
LockUnacknowledged(b) ==
    /\ Strike /\ LockFree(b)
    /\ locked' = locked \union {b}
    /\ UNCHANGED <<status, held, pay, payFor, job, receipts, lapsed, refused>>

\* The effect is there, the reply is lost.
CreateUnacknowledged(r, p) ==
    /\ Strike /\ At(r, "creating")
    /\ InsertPayment(r, p)
    /\ Goto(r, "unlocking")
    /\ UNCHANGED <<status, held, locked, receipts, lapsed, refused>>

MarkUnacknowledged(r) ==
    /\ Strike /\ At(r, "marking")
    /\ SetPaid(job[r].payment)
    /\ Goto(r, "unlocking")
    /\ UNCHANGED <<status, held, locked, payFor, receipts, lapsed, refused>>

ConfirmUnacknowledged(r) ==
    /\ Strike /\ At(r, "confirming")
    /\ Move(job[r].booking, "confirmed")
    /\ Goto(r, "unlocking")
    /\ UNCHANGED <<locked, pay, payFor, receipts, lapsed, refused>>

\* payment-service dies and restarts; its locks stay until they expire.
Crash ==
    /\ Strike /\ \E r \in Requests : job[r] # Idle
    /\ job' = [r \in Requests |-> Idle]
    /\ UNCHANGED <<status, held, locked, pay, payFor, receipts, lapsed, refused>>

Fault ==
    \/ \E r \in Requests :
         \/ StepFails(r) \/ MarkUnacknowledged(r) \/ ConfirmUnacknowledged(r)
         \/ \E p \in Payments : CreateUnacknowledged(r, p)
    \/ \E b \in Bookings : LockUnacknowledged(b)
    \/ Crash

-----------------------------------------------------------------------------
PaymentNext ==
    \/ \E r \in Requests :
         \/ \E b \in Bookings : BeginPayment(r, b)
         \/ \E p \in Payments : BeginCancel(r, p)
         \/ RequestStep(r)
    \/ \E b \in Bookings : BookingMoves(b) \/ LockExpires(b)
    \/ Fault

PaymentSpec == PaymentInit /\ [][PaymentNext]_paymentVars

\* Requests that can go on are scheduled; a lock need not ever expire.
PaymentFairness == \A r \in Requests : WF_paymentVars(RequestStep(r))

FairPaymentSpec == PaymentSpec /\ PaymentFairness

-----------------------------------------------------------------------------
(* Properties.                                                             *)

\* A booking is paid for once, whatever fails, crashes or is cancelled in
\* between - unless the lock of that booking expired under a request that
\* still held it, which the lock of CreatePayment is no protection against.
PaidOnce ==
    \A p, q \in Payments :
        pay[p] = "paid" /\ pay[q] = "paid" /\ payFor[p] = payFor[q]
            => p = q \/ payFor[p] \in lapsed

\* Money that was taken is not lost sight of: CancelPayment reads the status
\* before it writes, and yet never turns a paid payment into a cancelled one.
PaidStaysPaid ==
    [][\A p \in Payments : pay[p] = "paid" => pay'[p] = "paid"]_pay

\* The receipt is the last thing to happen: its payment is paid and its
\* booking has been confirmed, though not necessarily by this payment.
ReceiptFollows ==
    \A p \in receipts : pay[p] = "paid" /\ "confirmed" \in held[payFor[p]]

\* Without a fault a payment that was made is announced, unless
\* booking-service refused to confirm the booking.
PaidAnnounced ==
    \A p \in Payments :
        pay[p] = "paid" ~> p \in receipts \/ p \in refused \/ faults > 0
=============================================================================
