----------------------------- MODULE PaymentProofs -----------------------------
(***************************************************************************)
(* The safety of payment-service, for every value of the constants.  For   *)
(* PaidOnce: the lock of CreatePayment is a mutual exclusion for as long   *)
(* as it does not expire under a holder, and under mutual exclusion        *)
(* HasPaidPaymentForBooking is still true when MarkPaid acts on it.        *)
(***************************************************************************)
EXTENDS Payment, TLAPS

-----------------------------------------------------------------------------
(* Types, with what a request knows by where it is.                        *)

JobOK(r) ==
    /\ job[r].pc \in Holding => job[r].booking \in Bookings
    /\ job[r].pc \notin Holding => job[r].booking = NoBooking
    /\ job[r].pc \in {"marking", "confirming", "publishing", "cancelling"} =>
         job[r].payment \in Payments /\ pay[job[r].payment] # "absent"
    /\ job[r].pc \in {"marking", "confirming", "publishing"} =>
         payFor[job[r].payment] = job[r].booking

PaymentTypeInv == PaymentTypeOK /\ \A r \in Requests : JobOK(r)

LEMMA InitPaymentTypes == PaymentInit => PaymentTypeInv
  BY PaymentAssumption DEF PaymentInit, PaymentTypeInv, PaymentTypeOK, StagesInit, StagesTypeOK,
     JobOK, Idle, Jobs, Holding, Statuses, PaymentStatuses

\* What a transition of a booking does.
LEMMA EnterTypes ==
  ASSUME StagesTypeOK, NEW b \in Bookings, NEW st \in Statuses, Enter(b, st)
  PROVE  StagesTypeOK'
  BY DEF StagesTypeOK, Enter

LEMMA NextPaymentTypes == PaymentTypeInv /\ [PaymentNext]_paymentVars => PaymentTypeInv'
<1> SUFFICES ASSUME PaymentTypeInv, [PaymentNext]_paymentVars PROVE PaymentTypeInv'
  OBVIOUS
<1>0. /\ StagesTypeOK
      /\ locked \subseteq Bookings /\ lapsed \subseteq Bookings
      /\ pay \in [Payments -> PaymentStatuses \union {"absent"}]
      /\ payFor \in [Payments -> Bookings \union {NoBooking}]
      /\ job \in [Requests -> Jobs]
      /\ receipts \subseteq Payments /\ refused \subseteq Payments
      /\ faults \in 0..MaxFaults
      /\ \A q \in Requests : JobOK(q)
      /\ MaxFaults \in Nat
      /\ "confirmed" \in Statuses /\ "pending" \in Statuses /\ UserMoves \subseteq Statuses
  BY PaymentAssumption DEF PaymentTypeInv, PaymentTypeOK, Statuses
<1> USE DEF PaymentTypeInv, PaymentTypeOK, JobOK, Jobs, Holding, PaymentStatuses, At, Goto, Finish, Idle
<1>1. ASSUME NEW r \in Requests, NEW b \in Bookings, BeginPayment(r, b) PROVE PaymentTypeInv'
  BY <1>0, <1>1, SMTT(20) DEF BeginPayment, StagesTypeOK
<1>2. ASSUME NEW r \in Requests, NEW p \in Payments, BeginCancel(r, p) PROVE PaymentTypeInv'
  BY <1>0, <1>2, SMTT(20) DEF BeginCancel, StagesTypeOK
<1>3. ASSUME NEW r \in Requests, RequestStep(r) PROVE PaymentTypeInv'
  <2>1. CASE AskBooking(r)
    BY <1>0, <2>1, SMTT(20) DEF AskBooking, StagesTypeOK
  <2>2. CASE CheckPaid(r)
    BY <1>0, <2>2, SMTT(20) DEF CheckPaid, StagesTypeOK
  <2>3. CASE \E p \in Payments : CreateRow(r, p)
    BY <1>0, <2>3, SMTT(20) DEF CreateRow, InsertPayment, StagesTypeOK
  <2>4. CASE MarkPaid(r)
    BY <1>0, <2>4, SMTT(20) DEF MarkPaid, SetPaid, StagesTypeOK
  <2>5. CASE ConfirmBooking(r)
    <3>1. StagesTypeOK'
      BY <1>0, <2>5, EnterTypes DEF ConfirmBooking, Move, StagesTypeOK, stageVars
    <3> QED BY <1>0, <2>5, <3>1, SMTT(20) DEF ConfirmBooking, AfterRefusal
  <2>6. CASE Publish(r)
    BY <1>0, <2>6, SMTT(20) DEF Publish, Receipts, StagesTypeOK
  <2>7. CASE Unlock(r)
    BY <1>0, <2>7, SMTT(20) DEF Unlock, StagesTypeOK
  <2>8. CASE CancelRow(r)
    BY <1>0, <2>8, SMTT(20) DEF CancelRow, Cancellable, StagesTypeOK
  <2> QED BY <1>3, <2>1, <2>2, <2>3, <2>4, <2>5, <2>6, <2>7, <2>8 DEF RequestStep
<1>4. ASSUME NEW b \in Bookings, BookingMoves(b) PROVE PaymentTypeInv'
  <2>1. StagesTypeOK'
    BY <1>0, <1>4, EnterTypes DEF BookingMoves, Appear, Move
  <2> QED BY <1>0, <1>4, <2>1 DEF BookingMoves
<1>5. ASSUME NEW b \in Bookings, LockExpires(b) PROVE PaymentTypeInv'
  BY <1>0, <1>5, SMTT(20) DEF LockExpires, StagesTypeOK
<1>6. CASE Fault
  <2> USE DEF Strike
  <2>1. ASSUME NEW r \in Requests, StepFails(r) PROVE PaymentTypeInv'
    BY <1>0, <2>1, SMTT(20) DEF StepFails, StagesTypeOK
  <2>2. ASSUME NEW r \in Requests, MarkUnacknowledged(r) PROVE PaymentTypeInv'
    BY <1>0, <2>2, SMTT(20) DEF MarkUnacknowledged, SetPaid, StagesTypeOK
  <2>3. ASSUME NEW r \in Requests, ConfirmUnacknowledged(r) PROVE PaymentTypeInv'
    <3>1. StagesTypeOK'
      BY <1>0, <2>3, EnterTypes DEF ConfirmUnacknowledged, Move
    <3> QED BY <1>0, <2>3, <3>1, SMTT(20) DEF ConfirmUnacknowledged
  <2>4. ASSUME NEW r \in Requests, NEW p \in Payments, CreateUnacknowledged(r, p)
        PROVE  PaymentTypeInv'
    BY <1>0, <2>4, SMTT(20) DEF CreateUnacknowledged, InsertPayment, StagesTypeOK
  <2>5. ASSUME NEW b \in Bookings, LockUnacknowledged(b) PROVE PaymentTypeInv'
    BY <1>0, <2>5, SMTT(20) DEF LockUnacknowledged, StagesTypeOK
  <2>6. CASE Crash
    BY <1>0, <2>6, SMTT(20) DEF Crash, StagesTypeOK
  <2> QED BY <1>6, <2>1, <2>2, <2>3, <2>4, <2>5, <2>6 DEF Fault
<1>7. CASE UNCHANGED paymentVars
  BY <1>0, <1>7 DEF paymentVars, StagesTypeOK
<1> QED BY <1>1, <1>2, <1>3, <1>4, <1>5, <1>6, <1>7 DEF PaymentNext

LEMMA PaymentTypes == PaymentSpec => []PaymentTypeInv
  BY InitPaymentTypes, NextPaymentTypes, PTL DEF PaymentSpec

\* Every variable of payment-service keeps its type, whatever fails.
THEOREM PaymentTypeCorrect == PaymentSpec => []PaymentTypeOK
<1>1. PaymentTypeInv => PaymentTypeOK
  BY DEF PaymentTypeInv
<1> QED BY <1>1, PaymentTypes, PTL

-----------------------------------------------------------------------------
(* The lock.                                                               *)

\* A booking whose lock has not lapsed has at most one holder, and the key
\* is there as long as it has.
OneHolder ==
    \A b \in Bookings \ lapsed : \A r \in Requests : job[r].booking = b =>
        /\ b \in locked
        /\ \A q \in Requests : job[q].booking = b => q = r

\* What HasPaidPaymentForBooking has answered is still true when the holder
\* comes to MarkPaid.
StillUnpaid ==
    \A r \in Requests :
        job[r].pc \in {"creating", "marking"} /\ job[r].booking \notin lapsed
            => ~Paid(job[r].booking)

LockInv == OneHolder /\ StillUnpaid /\ PaidOnce

LEMMA InitLock == PaymentInit => LockInv
  BY PaymentAssumption DEF PaymentInit, LockInv, OneHolder, StillUnpaid, PaidOnce, Idle

LEMMA NextLock == PaymentTypeInv /\ LockInv /\ [PaymentNext]_paymentVars => LockInv'
<1> SUFFICES ASSUME PaymentTypeInv, LockInv, [PaymentNext]_paymentVars PROVE LockInv'
  OBVIOUS
<1>0. /\ lapsed \subseteq Bookings
      /\ pay \in [Payments -> PaymentStatuses \union {"absent"}]
      /\ payFor \in [Payments -> Bookings \union {NoBooking}]
      /\ job \in [Requests -> Jobs]
      /\ \A q \in Requests : JobOK(q)
      /\ NoBooking \notin Bookings
      /\ OneHolder /\ StillUnpaid /\ PaidOnce
  BY PaymentAssumption DEF PaymentTypeInv, PaymentTypeOK, LockInv
<1> USE DEF LockInv, OneHolder, StillUnpaid, PaidOnce, Paid, JobOK, Jobs, Holding,
            PaymentStatuses, At, Goto, Finish, Idle
<1>1. ASSUME NEW r \in Requests, NEW b \in Bookings, BeginPayment(r, b) PROVE LockInv'
  BY <1>0, <1>1, SMTT(20) DEF BeginPayment, LockFree
<1>2. ASSUME NEW r \in Requests, NEW p \in Payments, BeginCancel(r, p) PROVE LockInv'
  BY <1>0, <1>2, SMTT(20) DEF BeginCancel
<1>3. ASSUME NEW r \in Requests, RequestStep(r) PROVE LockInv'
  <2>1. CASE AskBooking(r)
    BY <1>0, <2>1, SMTT(20) DEF AskBooking
  <2>2. CASE CheckPaid(r)
    BY <1>0, <2>2, SMTT(20) DEF CheckPaid
  <2>3. CASE \E p \in Payments : CreateRow(r, p)
    BY <1>0, <2>3, SMTT(20) DEF CreateRow, InsertPayment
  <2>4. CASE MarkPaid(r)
    BY <1>0, <2>4, SMTT(20) DEF MarkPaid, SetPaid
  <2>5. CASE ConfirmBooking(r)
    BY <1>0, <2>5, SMTT(20) DEF ConfirmBooking, AfterRefusal
  <2>6. CASE Publish(r)
    BY <1>0, <2>6, SMTT(20) DEF Publish
  <2>7. CASE Unlock(r)
    BY <1>0, <2>7, SMTT(20) DEF Unlock
  <2>8. CASE CancelRow(r)
    BY <1>0, <2>8, SMTT(20) DEF CancelRow, Cancellable
  <2> QED BY <1>3, <2>1, <2>2, <2>3, <2>4, <2>5, <2>6, <2>7, <2>8 DEF RequestStep
<1>4. ASSUME NEW b \in Bookings, BookingMoves(b) PROVE LockInv'
  BY <1>0, <1>4 DEF BookingMoves
<1>5. ASSUME NEW b \in Bookings, LockExpires(b) PROVE LockInv'
  BY <1>0, <1>5, SMTT(20) DEF LockExpires
<1>6. CASE Fault
  <2>1. ASSUME NEW r \in Requests, StepFails(r) PROVE LockInv'
    BY <1>0, <2>1, SMTT(20) DEF StepFails
  <2>2. ASSUME NEW r \in Requests, MarkUnacknowledged(r) PROVE LockInv'
    BY <1>0, <2>2, SMTT(20) DEF MarkUnacknowledged, SetPaid
  <2>3. ASSUME NEW r \in Requests, ConfirmUnacknowledged(r) PROVE LockInv'
    BY <1>0, <2>3, SMTT(20) DEF ConfirmUnacknowledged
  <2>4. ASSUME NEW r \in Requests, NEW p \in Payments, CreateUnacknowledged(r, p) PROVE LockInv'
    BY <1>0, <2>4, SMTT(20) DEF CreateUnacknowledged, InsertPayment
  <2>5. ASSUME NEW b \in Bookings, LockUnacknowledged(b) PROVE LockInv'
    BY <1>0, <2>5, SMTT(20) DEF LockUnacknowledged
  <2>6. CASE Crash
    BY <1>0, <2>6, SMTT(20) DEF Crash
  <2> QED BY <1>6, <2>1, <2>2, <2>3, <2>4, <2>5, <2>6 DEF Fault
<1>7. CASE UNCHANGED paymentVars
  BY <1>0, <1>7 DEF paymentVars
<1> QED BY <1>1, <1>2, <1>3, <1>4, <1>5, <1>6, <1>7 DEF PaymentNext

\* No booking is paid for twice by requests that race, fail, crash, hang up or
\* are repeated, as long as the lock of the booking does not expire under one
\* of them: the lock and HasPaidPaymentForBooking are enough, without a
\* constraint in the database.
THEOREM PaidOnceHolds == PaymentSpec => []PaidOnce
<1>1. LockInv => PaidOnce
  BY DEF LockInv
<1> QED BY <1>1, InitLock, NextLock, PaymentTypes, PTL DEF PaymentSpec

\* CancelPayment never takes back a payment that has been made, though it
\* tests the status before it writes: the UPDATE tests it again.
THEOREM PaidStaysPaidHolds == PaymentSpec => PaidStaysPaid
<1>1. ASSUME PaymentTypeInv, [PaymentNext]_paymentVars
      PROVE  [\A p \in Payments : pay[p] = "paid" => pay'[p] = "paid"]_pay
  <2>1. /\ pay \in [Payments -> PaymentStatuses \union {"absent"}]
        /\ job \in [Requests -> Jobs] /\ \A q \in Requests : JobOK(q)
    BY <1>1 DEF PaymentTypeInv, PaymentTypeOK
  <2> USE <2>1 DEF JobOK, At, InsertPayment, SetPaid
  <2>2. ASSUME NEW r \in Requests, RequestStep(r)
        PROVE  \A p \in Payments : pay[p] = "paid" => pay'[p] = "paid"
    BY <2>2, SMTT(20) DEF RequestStep, AskBooking, CheckPaid, CreateRow, MarkPaid,
       ConfirmBooking, Publish, Unlock, CancelRow, Cancellable
  <2>3. CASE Fault
    BY <2>3, SMTT(20) DEF Fault, StepFails, MarkUnacknowledged, ConfirmUnacknowledged,
       CreateUnacknowledged, LockUnacknowledged, Crash
  <2> QED BY <1>1, <2>2, <2>3 DEF PaymentNext, paymentVars, BeginPayment, BeginCancel,
       BookingMoves, LockExpires
<1> QED BY <1>1, PaymentTypes, PTL DEF PaymentSpec, PaidStaysPaid
-----------------------------------------------------------------------------
(* The receipts.                                                           *)

\* What no step takes back: a payment that is made, what it is for, and a
\* status that a booking has had.
PaidKept ==
    /\ \A p \in Payments : pay[p] = "paid" => pay'[p] = "paid"
    /\ \A p \in Payments : pay[p] # "absent" => payFor'[p] = payFor[p]
    /\ \A b \in Bookings : held[b] \subseteq held'[b]

\* What a request that is about to publish has done.
Earned(r) ==
    /\ job[r].pc \in {"confirming", "publishing"} => pay[job[r].payment] = "paid"
    /\ job[r].pc = "publishing" => "confirmed" \in held[job[r].booking]

ReceiptInv ==
    /\ \A p \in receipts :
         pay[p] = "paid" /\ payFor[p] \in Bookings /\ "confirmed" \in held[payFor[p]]
    /\ \A r \in Requests : Earned(r)

LEMMA MoveGrows ==
  ASSUME PaymentTypeInv, NEW b \in Bookings, NEW to \in Statuses, Enter(b, to)
  PROVE  (\A c \in Bookings : held[c] \subseteq held'[c]) /\ to \in held'[b]
  BY DEF Enter, PaymentTypeInv, PaymentTypeOK, StagesTypeOK

LEMMA NextKeepsPaid == PaymentTypeInv /\ [PaymentNext]_paymentVars => PaidKept
<1> SUFFICES ASSUME PaymentTypeInv, [PaymentNext]_paymentVars PROVE PaidKept
  OBVIOUS
<1>0. /\ pay \in [Payments -> PaymentStatuses \union {"absent"}]
      /\ payFor \in [Payments -> Bookings \union {NoBooking}]
      /\ job \in [Requests -> Jobs] /\ \A q \in Requests : JobOK(q)
      /\ "confirmed" \in Statuses /\ "pending" \in Statuses /\ UserMoves \subseteq Statuses
  BY PaymentAssumption DEF PaymentTypeInv, PaymentTypeOK, Statuses
<1>1. UNCHANGED <<pay, payFor, held>> => PaidKept
  BY DEF PaidKept
<1>2. ASSUME UNCHANGED <<pay, payFor>>, NEW b \in Bookings, NEW to \in Statuses, Enter(b, to)
      PROVE  PaidKept
  BY <1>2, MoveGrows DEF PaidKept
<1>3. ASSUME NEW r \in Requests, RequestStep(r) PROVE PaidKept
  <2>1. CASE AskBooking(r) \/ CheckPaid(r) \/ Publish(r) \/ Unlock(r)
    BY <1>1, <2>1 DEF AskBooking, CheckPaid, Publish, Unlock
  <2>2. CASE \E p \in Payments : CreateRow(r, p)
    BY <1>0, <2>2, SMTT(20) DEF CreateRow, InsertPayment, PaidKept
  <2>3. CASE MarkPaid(r)
    BY <1>0, <2>3, SMTT(20) DEF MarkPaid, SetPaid, PaidKept
  <2>4. CASE ConfirmBooking(r)
    <3>1. job[r].booking \in Bookings
      BY <1>0, <2>4 DEF ConfirmBooking, At, JobOK, Holding
    <3> QED BY <1>0, <1>1, <1>2, <2>4, <3>1 DEF ConfirmBooking, Move, stageVars
  <2>5. CASE CancelRow(r)
    BY <1>0, <2>5, SMTT(20) DEF CancelRow, Cancellable, PaidKept
  <2> QED BY <1>3, <2>1, <2>2, <2>3, <2>4, <2>5 DEF RequestStep
<1>4. ASSUME NEW b \in Bookings, BookingMoves(b) PROVE PaidKept
  BY <1>0, <1>2, <1>4 DEF BookingMoves, Appear, Move
<1>5. CASE Fault
  <2>1. ASSUME NEW r \in Requests, ConfirmUnacknowledged(r) PROVE PaidKept
    <3>1. job[r].booking \in Bookings
      BY <1>0, <2>1 DEF ConfirmUnacknowledged, At, JobOK, Holding
    <3> QED BY <1>0, <1>2, <2>1, <3>1 DEF ConfirmUnacknowledged, Move
  <2>2. ASSUME NEW r \in Requests, MarkUnacknowledged(r) PROVE PaidKept
    BY <1>0, <2>2, SMTT(20) DEF MarkUnacknowledged, SetPaid, PaidKept
  <2>3. ASSUME NEW r \in Requests, NEW p \in Payments, CreateUnacknowledged(r, p) PROVE PaidKept
    BY <1>0, <2>3, SMTT(20) DEF CreateUnacknowledged, InsertPayment, PaidKept
  <2> QED BY <1>1, <1>5, <2>1, <2>2, <2>3 DEF Fault, StepFails, LockUnacknowledged, Crash
<1> QED BY <1>1, <1>3, <1>4, <1>5 DEF PaymentNext, BeginPayment, BeginCancel, LockExpires, paymentVars

\* A request earns its receipt in MarkPaid and ConfirmBooking.
LEMMA EarnedKept ==
  ASSUME PaymentTypeInv, PaidKept, NEW q \in Requests, Earned(q),
         job'[q] = job[q] \/ job'[q].pc \notin {"confirming", "publishing"}
  PROVE  Earned(q)'
<1>1. job[q].pc \in {"confirming", "publishing"} =>
        job[q].payment \in Payments /\ job[q].booking \in Bookings
  BY DEF PaymentTypeInv, JobOK, Holding
<1> QED BY <1>1 DEF PaidKept, Earned

LEMMA NextReceipts == PaymentTypeInv /\ ReceiptInv /\ [PaymentNext]_paymentVars => ReceiptInv'
<1> SUFFICES ASSUME PaymentTypeInv, ReceiptInv, [PaymentNext]_paymentVars PROVE ReceiptInv'
  OBVIOUS
<1>0. /\ PaidKept /\ pay \in [Payments -> PaymentStatuses \union {"absent"}]
      /\ job \in [Requests -> Jobs] /\ receipts \subseteq Payments
      /\ \A q \in Requests : JobOK(q)
  BY NextKeepsPaid DEF PaymentTypeInv, PaymentTypeOK
<1>1. \A p \in receipts :
        pay'[p] = "paid" /\ payFor'[p] \in Bookings /\ "confirmed" \in held'[payFor'[p]]
  BY <1>0 DEF ReceiptInv, PaidKept
<1>2. ASSUME receipts' = receipts,
             \A q \in Requests :
               \/ job'[q] = job[q] \/ job'[q].pc \notin {"confirming", "publishing"}
               \/ Earned(q)'
      PROVE  ReceiptInv'
  BY <1>0, <1>1, <1>2, EarnedKept DEF ReceiptInv
<1> USE DEF At, Goto, Finish, Idle
<1>3. ASSUME NEW r \in Requests, RequestStep(r) PROVE ReceiptInv'
  <2>1. CASE AskBooking(r) \/ CheckPaid(r) \/ Unlock(r) \/ CancelRow(r)
             \/ \E p \in Payments : CreateRow(r, p)
    BY <1>0, <1>2, <2>1, SMTT(20) DEF AskBooking, CheckPaid, Unlock, CancelRow, CreateRow, Jobs
  <2>2. CASE MarkPaid(r)
    <3>1. job[r].payment \in Payments
      BY <1>0, <2>2 DEF MarkPaid, JobOK
    <3>2. pay'[job[r].payment] = "paid" /\ job'[r].pc = "confirming"
          /\ job'[r].payment = job[r].payment
      BY <1>0, <2>2, <3>1 DEF MarkPaid, SetPaid, Jobs
    <3>3. Earned(r)'
      BY <3>2 DEF Earned
    <3> QED BY <1>0, <1>2, <2>2, <3>3 DEF MarkPaid
  <2>3. CASE ConfirmBooking(r)
    <3>1. /\ job[r].payment \in Payments /\ job[r].booking \in Bookings
          /\ pay[job[r].payment] = "paid"
      BY <1>0, <2>3 DEF ConfirmBooking, JobOK, Holding, ReceiptInv, Earned
    <3>2. CASE Move(job[r].booking, "confirmed") /\ Goto(r, "publishing")
      <4>1. "confirmed" \in held'[job[r].booking]
        BY <3>1, <3>2, MoveGrows DEF Move, Statuses
      <4>2. pay'[job[r].payment] = "paid"
        BY <1>0, <3>1 DEF PaidKept
      <4>3. job'[r].payment = job[r].payment /\ job'[r].booking = job[r].booking
        BY <1>0, <3>2 DEF Jobs
      <4>4. Earned(r)'
        BY <4>1, <4>2, <4>3 DEF Earned
      <4> QED BY <1>0, <1>2, <2>3, <3>2, <4>4 DEF ConfirmBooking
    <3>3. CASE AfterRefusal(r)
      BY <1>0, <1>2, <2>3, <3>3 DEF ConfirmBooking, AfterRefusal, Jobs
    <3> QED BY <2>3, <3>2, <3>3 DEF ConfirmBooking
  <2>4. CASE Publish(r)
    <3>1. /\ job[r].payment \in Payments /\ job[r].booking \in Bookings
          /\ pay[job[r].payment] = "paid" /\ pay' = pay /\ payFor' = payFor /\ held' = held
          /\ payFor[job[r].payment] = job[r].booking
          /\ "confirmed" \in held[job[r].booking]
      BY <1>0, <2>4 DEF Publish, JobOK, Holding, ReceiptInv, Earned
    <3>2. receipts' = receipts \union {job[r].payment}
      BY <2>4 DEF Publish, Receipts
    <3>3. \A q \in Requests : job'[q] = job[q] \/ job'[q].pc \notin {"confirming", "publishing"}
      BY <1>0, <2>4 DEF Publish, Jobs
    <3>4. \A q \in Requests : Earned(q)'
      BY <1>0, <3>3, EarnedKept DEF ReceiptInv
    <3> QED BY <1>1, <3>1, <3>2, <3>4 DEF ReceiptInv
  <2> QED BY <1>3, <2>1, <2>2, <2>3, <2>4 DEF RequestStep
<1>4. CASE Fault
  BY <1>0, <1>2, <1>4, SMTT(30) DEF Fault, StepFails, MarkUnacknowledged, ConfirmUnacknowledged,
     CreateUnacknowledged, LockUnacknowledged, Crash, Jobs
<1>5. ASSUME NEW r \in Requests,
             (\E b \in Bookings : BeginPayment(r, b)) \/ \E p \in Payments : BeginCancel(r, p)
      PROVE  ReceiptInv'
  BY <1>0, <1>2, <1>5 DEF BeginPayment, BeginCancel
<1>6. CASE (\E b \in Bookings : BookingMoves(b) \/ LockExpires(b)) \/ UNCHANGED paymentVars
  BY <1>0, <1>2, <1>6 DEF BookingMoves, LockExpires, paymentVars
<1> QED BY <1>3, <1>4, <1>5, <1>6 DEF PaymentNext

\* A receipt is published for a payment that is made and a booking that has
\* been confirmed, and neither is ever taken back.
THEOREM ReceiptFollowsHolds == PaymentSpec => []ReceiptFollows
<1>1. PaymentInit => ReceiptInv
  BY DEF PaymentInit, ReceiptInv, Earned, Idle
<1>2. ReceiptInv => ReceiptFollows
  BY DEF ReceiptInv, ReceiptFollows
<1> QED BY <1>1, <1>2, NextReceipts, PaymentTypes, PTL DEF PaymentSpec

-----------------------------------------------------------------------------
(* The other side of BookingStages.                                        *)

\* Payment keeps the contract that booking-service is shown to implement
\* (StagesImplemented): whatever payment-service and the users of Payment do
\* to a booking, lost replies included, is a step BookingStages allows.
THEOREM StagesKept == PaymentSpec => StagesSpec
<1>1. PaymentInit => StagesInit
  BY DEF PaymentInit
<1>2. PaymentTypeInv /\ [PaymentNext]_paymentVars => [StagesNext]_stageVars
  <2> SUFFICES ASSUME PaymentTypeInv, [PaymentNext]_paymentVars PROVE [StagesNext]_stageVars
    OBVIOUS
  <2>0. "confirmed" \in Statuses /\ UserMoves \subseteq Statuses
    BY PaymentAssumption DEF Statuses
  <2>1. ASSUME NEW r \in Requests, At(r, "confirming"), Move(job[r].booking, "confirmed")
        PROVE  StagesNext
    <3>1. job[r].booking \in Bookings
      BY <2>1 DEF PaymentTypeInv, JobOK, At, Holding
    <3> QED BY <2>0, <2>1, <3>1 DEF StagesNext
  <2>2. ASSUME NEW r \in Requests, RequestStep(r) PROVE [StagesNext]_stageVars
    BY <2>1, <2>2 DEF RequestStep, AskBooking, CheckPaid, CreateRow, MarkPaid, ConfirmBooking,
       Publish, Unlock, CancelRow, stageVars
  <2>3. ASSUME NEW b \in Bookings, BookingMoves(b) PROVE StagesNext
    BY <2>0, <2>3 DEF BookingMoves, StagesNext
  <2>4. CASE Fault
    BY <2>1, <2>4 DEF Fault, StepFails, MarkUnacknowledged, ConfirmUnacknowledged,
       CreateUnacknowledged, LockUnacknowledged, Crash, stageVars
  <2>5. CASE \/ \E r \in Requests : \/ \E b \in Bookings : BeginPayment(r, b)
                                   \/ \E p \in Payments : BeginCancel(r, p)
             \/ \E b \in Bookings : LockExpires(b)
             \/ UNCHANGED paymentVars
    BY <2>5 DEF BeginPayment, BeginCancel, LockExpires, paymentVars, stageVars
  <2> QED BY <2>2, <2>3, <2>4, <2>5 DEF PaymentNext
<1> QED BY <1>1, <1>2, PaymentTypes, PTL DEF PaymentSpec, StagesSpec

-----------------------------------------------------------------------------
(* What PaidAnnounced needs besides fairness.                              *)

\* Somebody is on the way to the receipt of p, or to its refusal.
Announcing(p) ==
    \E r \in Requests : job[r].pc \in {"confirming", "publishing"} /\ job[r].payment = p

\* Without a fault, a payment that is made has its receipt, was refused its
\* confirmation, or still has the request that made it.
ReceiptOwed ==
    faults = 0 => \A p \in Payments :
        pay[p] = "paid" => p \in receipts \union refused \/ Announcing(p)

LEMMA NextOwed == PaymentTypeInv /\ ReceiptOwed /\ [PaymentNext]_paymentVars => ReceiptOwed'
<1> SUFFICES ASSUME PaymentTypeInv, ReceiptOwed, [PaymentNext]_paymentVars, faults' = 0
             PROVE  \A p \in Payments :
                      pay'[p] = "paid" => p \in receipts' \union refused' \/ Announcing(p)'
  BY DEF ReceiptOwed
<1>0. /\ faults \in Nat /\ job \in [Requests -> Jobs]
      /\ pay \in [Payments -> PaymentStatuses \union {"absent"}]
  BY PaymentAssumption DEF PaymentTypeInv, PaymentTypeOK
<1>1. ~Fault
  BY <1>0 DEF Fault, Strike, StepFails, MarkUnacknowledged, ConfirmUnacknowledged,
     CreateUnacknowledged, LockUnacknowledged, Crash
<1>2. faults = 0
  BY <1>1 DEF PaymentNext, BeginPayment, BeginCancel, RequestStep, AskBooking, CheckPaid,
     CreateRow, MarkPaid, ConfirmBooking, Publish, Unlock, CancelRow, BookingMoves,
     LockExpires, paymentVars
<1>3. \A p \in Payments : pay[p] = "paid" => p \in receipts \union refused \/ Announcing(p)
  BY <1>2 DEF ReceiptOwed
<1> USE DEF Announcing, At, Goto, Finish, Idle, Jobs, PaymentStatuses
<1>4. ASSUME NEW r \in Requests, RequestStep(r)
      PROVE  \A p \in Payments :
               pay'[p] = "paid" => p \in receipts' \union refused' \/ Announcing(p)'
  <2>1. CASE AskBooking(r) \/ CheckPaid(r) \/ Unlock(r)
    BY <1>0, <1>3, <2>1, SMTT(20) DEF AskBooking, CheckPaid, Unlock, Holding
  <2>2. CASE \E p \in Payments : CreateRow(r, p)
    BY <1>0, <1>3, <2>2, SMTT(20) DEF CreateRow, InsertPayment, Holding
  <2>3. CASE MarkPaid(r)
    BY <1>0, <1>3, <2>3, SMTT(20) DEF MarkPaid, SetPaid, Holding
  <2>4. CASE ConfirmBooking(r) \/ Publish(r)
    BY <1>0, <1>3, <2>4, SMTT(20) DEF ConfirmBooking, AfterRefusal, Publish, Receipts, Holding
  <2>5. CASE CancelRow(r)
    BY <1>0, <1>3, <2>5, SMTT(20) DEF CancelRow, Cancellable, Holding
  <2> QED BY <1>4, <2>1, <2>2, <2>3, <2>4, <2>5 DEF RequestStep
<1>5. CASE \/ \E r \in Requests : \/ \E b \in Bookings : BeginPayment(r, b)
                                 \/ \E p \in Payments : BeginCancel(r, p)
           \/ \E b \in Bookings : BookingMoves(b) \/ LockExpires(b)
           \/ UNCHANGED paymentVars
  BY <1>0, <1>3, <1>5, SMTT(20) DEF BeginPayment, BeginCancel, BookingMoves, LockExpires,
     paymentVars, Holding
<1> QED BY <1>1, <1>4, <1>5 DEF PaymentNext

\* The safety half of PaidAnnounced: however requests, cancellations and
\* expiring locks interleave, no payment is left without a request that owes
\* its receipt; fairness then only has to let that request go on.
THEOREM ReceiptOwedHolds == PaymentSpec => []ReceiptOwed
<1>1. PaymentInit => ReceiptOwed
  BY DEF PaymentInit, ReceiptOwed
<1> QED BY <1>1, NextOwed, PaymentTypes, PTL DEF PaymentSpec
=============================================================================
