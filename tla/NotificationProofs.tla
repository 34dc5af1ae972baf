-------------------------- MODULE NotificationProofs --------------------------
(***************************************************************************)
(* For every number of workers, requests, streams, copies and faults: the  *)
(* types of notification-service, MailedOnce, ShutdownDrains, what         *)
(* QueuedIsMailed rests on, and StreamComplete.                            *)
(***************************************************************************)
EXTENDS Notification, TLAPS

-----------------------------------------------------------------------------
(* Types, with what a task knows by where it is.                           *)

TaskOK(t) ==
    /\ task[t].pc = "marking" => task[t].event \in Events
    /\ task[t].pc \in {"mailing", "recording", "announcing"} =>
         task[t].row \in Rows /\ row[task[t].row] # "absent"

NotificationTypeInv == NotificationTypeOK /\ \A t \in Tasks : TaskOK(t)

LEMMA InitNotificationTypes == NotificationInit => NotificationTypeInv
  BY NotificationAssumption
  DEF NotificationInit, NotificationTypeInv, NotificationTypeOK, TaskOK, Idle, TaskRecords,
      Places, Stages

LEMMA LoseMemoryTypes ==
  ASSUME NotificationTypeInv, LoseMemory,
         row' \in [Rows -> {"absent", "pending", "sent", "failed", "deleted"}]
  PROVE  /\ jobs' \in Seq(Events) /\ task' \in [Tasks -> TaskRecords]
         /\ stream' \in [Clients -> {"off", "reading", "sending", "streaming"}]
         /\ feed' \in [Clients -> Seq(Rows)]
         /\ seen' \in [Clients -> [Rows -> {"nothing", "pending", "sent", "failed"}]]
         /\ missed' \in [Clients -> SUBSET Rows]
         /\ \A t \in Tasks : TaskOK(t)'
  BY DEF LoseMemory, TaskOK, Idle, TaskRecords, Places

\* Going to another place changes the place only.
Went(t, pc) ==
    /\ task' \in [Tasks -> TaskRecords]
    /\ task'[t].pc = pc /\ task'[t].event = task[t].event /\ task'[t].row = task[t].row
    /\ task'[t].result = task[t].result
    /\ \A q \in Tasks : q # t => task'[q] = task[q]

LEMMA GotoTypes ==
  ASSUME NEW t \in Tasks, NEW pc \in Places, task \in [Tasks -> TaskRecords], Goto(t, pc)
  PROVE  Went(t, pc)
<1> DEFINE x == [pc |-> pc, event |-> task[t].event, email |-> task[t].email,
                row |-> task[t].row, result |-> task[t].result]
<1>1. x \in TaskRecords
  BY DEF TaskRecords
<1>2. [task[t] EXCEPT !.pc = pc] = x
  BY DEF TaskRecords
<1>3. task' = [task EXCEPT ![t] = x]
  BY <1>2, Zenon DEF Goto
<1>4. x.pc = pc /\ x.event = task[t].event /\ x.row = task[t].row /\ x.result = task[t].result
  OBVIOUS
<1> HIDE DEF x
<1> QED BY <1>1, <1>3, <1>4 DEF Went

LEMMA AppendTypes ==
  ASSUME NEW S, NEW s \in Seq(S), NEW x \in S
  PROVE  Append(s, x) \in Seq(S)
  OBVIOUS

LEMMA MailedTypes ==
  ASSUME NEW t \in Tasks, mails \in [Events -> Nat], task \in [Tasks -> TaskRecords],
         Mailed(t) \/ UNCHANGED mails
  PROVE  mails' \in [Events -> Nat]
<1>1. CASE Mailed(t) /\ task[t].event # NoEvent
  BY <1>1 DEF Mailed, TaskRecords
<1>2. CASE Mailed(t) /\ task[t].event = NoEvent
  BY <1>2 DEF Mailed
<1> QED BY <1>1, <1>2

LEMMA NextNotificationTypes ==
  NotificationTypeInv /\ [NotificationNext]_notificationVars => NotificationTypeInv'
<1> SUFFICES ASSUME NotificationTypeInv, [NotificationNext]_notificationVars
             PROVE  NotificationTypeInv'
  OBVIOUS
<1>0. NotificationTypeOK /\ (\A t \in Tasks : TaskOK(t)) /\ Workers \subseteq Tasks
      /\ Callers \subseteq Tasks /\ NoEvent \notin Events /\ NoRow \notin Rows
  BY NotificationAssumption DEF NotificationTypeInv, Tasks
<1> USE DEF NotificationTypeInv, NotificationTypeOK, TaskOK, TaskRecords, Places, Stages,
            At, Finish, Idle, queueVars, rowVars, streamVars
<1>1. ASSUME NEW e \in Events, Arrive(e) PROVE NotificationTypeInv'
  BY <1>0, <1>1, SMTT(30) DEF Arrive
<1>2. ASSUME NEW e \in Events, Enqueue(e) PROVE NotificationTypeInv'
  <2>1. inbox' \in [Events -> Nat]
    BY <1>0, <1>2, SMTT(30) DEF Enqueue
  <2>2. CASE stage = "up"
    <3>1. jobs' \in Seq(Events)
      <4>1. jobs' = jobs \/ jobs' = Append(jobs, e)
        BY <1>2, <2>2 DEF Enqueue
      <4>2. jobs \in Seq(Events)
        BY <1>0
      <4>3. Append(jobs, e) \in Seq(Events)
        BY <4>2, AppendTypes
      <4> QED BY <4>1, <4>2, <4>3
    <3> QED BY <1>0, <1>2, <2>1, <2>2, <3>1, SMTT(30) DEF Enqueue
  <2>3. CASE stage # "up"
    <3>1. LoseMemory /\ row' = row
      BY <1>2, <2>3 DEF Enqueue
    <3> HIDE DEF TaskOK, TaskRecords, Places, Idle
    <3> QED BY <1>0, <1>2, <2>1, <2>3, <3>1, LoseMemoryTypes, SMTT(30) DEF Enqueue
  <2> QED BY <2>2, <2>3
<1>3. ASSUME NEW w \in Workers, TakeJob(w) PROVE NotificationTypeInv'
  <2>1. jobs' \in Seq(Events) /\ Head(jobs) \in Events
    BY <1>0, <1>3 DEF TakeJob
  <2> QED BY <1>0, <1>3, <2>1, SMTT(30) DEF TakeJob
<1>4. ASSUME NEW w \in Workers, MarkProcessed(w) PROVE NotificationTypeInv'
  <2>1. task[w].event \in Events
    BY <1>0, <1>4 DEF MarkProcessed
  <2>2. CASE Goto(w, "creating")
    <3>1. Went(w, "creating")
      BY <1>0, <2>2, GotoTypes
    <3>8. NotificationTypeOK'
      <4> HIDE DEF TaskRecords, Places
      <4> QED BY <1>0, <1>4, <2>1, <3>1, SMTT(30) DEF MarkProcessed, Went
    <3>9. ASSUME NEW q \in Tasks PROVE TaskOK(q)'
      <4> HIDE DEF TaskRecords, Places
      <4>1. CASE q = w
        BY <1>0, <1>4, <2>1, <3>1, <4>1, SMTT(30) DEF MarkProcessed, Went
      <4>2. CASE q # w
        BY <1>0, <1>4, <2>1, <3>1, <4>2, SMTT(30) DEF MarkProcessed, Went
      <4> QED BY <4>1, <4>2
    <3> QED BY <3>8, <3>9
  <2>3. CASE Finish(w)
    BY <1>0, <1>4, <2>1, <2>3, SMTT(30) DEF MarkProcessed
  <2> QED BY <1>4, <2>2, <2>3 DEF MarkProcessed
<1>5. ASSUME NEW w \in Workers, StopWorker(w) PROVE NotificationTypeInv'
  BY <1>0, <1>5, SMTT(30) DEF StopWorker, Gone
<1>6. ASSUME NEW t \in Tasks, Deliver(t) PROVE NotificationTypeInv'
  <2>1. ASSUME NEW n \in Rows, CreateRow(t, n) PROVE NotificationTypeInv'
    <3>1. CASE task[t].email
      BY <1>0, <2>1, <3>1, SMTT(30) DEF CreateRow, InsertRow
    <3>2. CASE ~task[t].email
      BY <1>0, <2>1, <3>2, SMTT(30) DEF CreateRow, InsertRow
    <3> QED BY <3>1, <3>2
  <2>2. CASE SendMail(t)
    <3>1. mails' \in [Events -> Nat]
      BY <1>0, <2>2, MailedTypes DEF SendMail
    <3>2. Went(t, "recording")
      BY <1>0, <2>2, GotoTypes DEF SendMail
    <3>8. NotificationTypeOK'
      <4> HIDE DEF TaskRecords, Places
      <4> QED BY <1>0, <2>2, <3>1, <3>2, SMTT(30) DEF SendMail, Went
    <3>9. ASSUME NEW q \in Tasks PROVE TaskOK(q)'
      <4> HIDE DEF TaskRecords, Places
      <4>1. CASE q = t
        BY <1>0, <2>2, <3>1, <3>2, <4>1, SMTT(30) DEF SendMail, Went
      <4>2. CASE q # t
        BY <1>0, <2>2, <3>1, <3>2, <4>2, SMTT(30) DEF SendMail, Went
      <4> QED BY <4>1, <4>2
    <3> QED BY <3>8, <3>9
  <2>3. CASE UpdateStatus(t)
    <3>0. Went(t, "announcing")
      BY <1>0, <2>3, GotoTypes DEF UpdateStatus
    <3>1. /\ row' \in [Rows -> {"absent", "pending", "sent", "failed", "deleted"}]
          /\ \A n \in Rows : row[n] # "absent" => row'[n] # "absent"
      <4>1. task[t].result \in {"sent", "failed"}
        BY <1>0
      <4> HIDE DEF TaskRecords, TaskOK, Places
      <4>2. CASE row' = row
        BY <1>0, <4>2
      <4>3. CASE row' = [row EXCEPT ![task[t].row] = task[t].result]
        BY <1>0, <4>1, <4>3
      <4> QED BY <2>3, <4>2, <4>3 DEF UpdateStatus, Recorded
    <3>8. NotificationTypeOK'
      <4> HIDE DEF TaskRecords, Places
      <4> QED BY <1>0, <2>3, <3>0, <3>1, SMTT(30) DEF UpdateStatus, Went
    <3>9. ASSUME NEW q \in Tasks PROVE TaskOK(q)'
      <4> HIDE DEF TaskRecords, Places, NotificationTypeOK
      <4>0. TaskOK(t) /\ TaskOK(q) /\ task[t].pc = "recording"
        BY <1>0, <2>3 DEF UpdateStatus
      <4>1. CASE q = t
        BY <3>0, <3>1, <4>0, <4>1 DEF Went
      <4>2. CASE q # t
        BY <3>0, <3>1, <4>0, <4>2 DEF Went
      <4> QED BY <4>1, <4>2
    <3> QED BY <3>8, <3>9
  <2>4. CASE Broadcast(t)
    <3>1. feed' \in [Clients -> Seq(Rows)] /\ missed' \in [Clients -> SUBSET Rows]
      BY <1>0, <2>4, SMTT(30) DEF Broadcast
    <3> QED BY <1>0, <2>4, <3>1, SMTT(30) DEF Broadcast
  <2> QED BY <1>6, <2>1, <2>2, <2>3, <2>4 DEF Deliver
<1>7. ASSUME NEW c \in Callers, NEW typ \in SendTypes, BeginSend(c, typ) PROVE NotificationTypeInv'
  BY <1>0, <1>7, SMTT(30) DEF BeginSend
<1>8. ASSUME NEW n \in Rows, DeleteNotification(n) PROVE NotificationTypeInv'
  BY <1>0, <1>8, SMTT(30) DEF DeleteNotification, Exists
<1>9. ASSUME NEW c \in Clients, OpenStream(c) PROVE NotificationTypeInv'
  BY <1>0, <1>9, SMTT(30) DEF OpenStream
<1>10. ASSUME NEW c \in Clients, ReadHistory(c) PROVE NotificationTypeInv'
  <2>1. PICK page \in SUBSET Rows :
          /\ \A n \in page : Exists(n)
          /\ seen' = [seen EXCEPT ![c] = [n \in Rows |-> IF n \in page THEN row[n] ELSE "nothing"]]
          /\ missed' = [missed EXCEPT ![c] = @ \union ToldBeside(c, page)]
    BY <1>10 DEF ReadHistory, Pages
  <2>2. [n \in Rows |-> IF n \in page THEN row[n] ELSE "nothing"]
          \in [Rows -> {"nothing", "pending", "sent", "failed"}]
    BY <2>1 DEF Exists
  <2>3. ToldBeside(c, page) \subseteq Rows
    BY DEF ToldBeside
  <2> QED BY <1>0, <1>10, <2>1, <2>2, <2>3, SMTT(30) DEF ReadHistory
<1>11. ASSUME NEW c \in Clients, SendSnapshot(c) PROVE NotificationTypeInv'
  BY <1>0, <1>11, SMTT(30) DEF SendSnapshot
<1>12. ASSUME NEW c \in Clients, ReceiveNew(c) PROVE NotificationTypeInv'
  <2>1. Head(feed[c]) \in Rows /\ Tail(feed[c]) \in Seq(Rows)
    BY <1>0, <1>12 DEF ReceiveNew
  <2> QED BY <1>0, <1>12, <2>1, SMTT(30) DEF ReceiveNew
<1>13. ASSUME NEW c \in Clients, CloseStream(c) PROVE NotificationTypeInv'
  BY <1>0, <1>13, SMTT(30) DEF CloseStream
<1>14. CASE BeginShutdown \/ WorkersDone
  BY <1>0, <1>14, SMTT(30) DEF BeginShutdown, WorkersDone
<1>15. CASE Exit
  <2> HIDE DEF TaskOK, TaskRecords, Places, Idle
  <2> QED BY <1>0, <1>15, LoseMemoryTypes, SMTT(30) DEF Exit
<1>16. CASE Fault
  <2> USE DEF Strike
  <2>1. ASSUME NEW e \in Events, ForgetEvent(e) PROVE NotificationTypeInv'
    BY <1>0, <2>1, SMTT(30) DEF ForgetEvent
  <2>2. ASSUME NEW w \in Workers, MarkFails(w) PROVE NotificationTypeInv'
    BY <1>0, <2>2, SMTT(30) DEF MarkFails
  <2>3. ASSUME NEW t \in Tasks, CreateFails(t) PROVE NotificationTypeInv'
    <3>1. CASE \E n \in Rows : InsertRow(n)
      BY <1>0, <2>3, <3>1, SMTT(30) DEF CreateFails, InsertRow
    <3>2. CASE UNCHANGED row
      BY <1>0, <2>3, <3>2, SMTT(30) DEF CreateFails
    <3> QED BY <2>3, <3>1, <3>2 DEF CreateFails
  <2>4. ASSUME NEW t \in Tasks, MailFails(t) PROVE NotificationTypeInv'
    <3>1. mails' \in [Events -> Nat]
      BY <1>0, <2>4, MailedTypes DEF MailFails
    <3> QED BY <1>0, <2>4, <3>1, SMTT(30) DEF MailFails
  <2>5. ASSUME NEW t \in Tasks, UpdateFails(t) PROVE NotificationTypeInv'
    <3>1. task[t].row \in Rows
      BY <1>0, <2>5 DEF UpdateFails
    <3>2. Went(t, "announcing")
      BY <1>0, <2>5, GotoTypes DEF UpdateFails
    <3>8. NotificationTypeOK'
      <4> HIDE DEF TaskRecords, Places
      <4> QED BY <1>0, <2>5, <3>1, <3>2, SMTT(30) DEF UpdateFails, Went
    <3>9. ASSUME NEW q \in Tasks PROVE TaskOK(q)'
      <4> HIDE DEF TaskRecords, Places
      <4>1. CASE q = t
        BY <1>0, <2>5, <3>1, <3>2, <4>1, SMTT(30) DEF UpdateFails, Went
      <4>2. CASE q # t
        BY <1>0, <2>5, <3>1, <3>2, <4>2, SMTT(30) DEF UpdateFails, Went
      <4> QED BY <4>1, <4>2
    <3> QED BY <3>8, <3>9
  <2>6. ASSUME NEW c \in Clients, HistoryFails(c) PROVE NotificationTypeInv'
    <3>1. ToldBeside(c, {}) \subseteq Rows
      BY DEF ToldBeside
    <3> QED BY <1>0, <2>6, <3>1, SMTT(30) DEF HistoryFails
  <2>7. CASE Crash
    <3> HIDE DEF TaskOK, TaskRecords, Places, Idle
    <3> QED BY <1>0, <2>7, LoseMemoryTypes, SMTT(30) DEF Crash
  <2> QED BY <1>16, <2>1, <2>2, <2>3, <2>4, <2>5, <2>6, <2>7 DEF Fault
<1>17. CASE UNCHANGED notificationVars
  BY <1>0, <1>17, SMTT(30) DEF notificationVars
<1> QED
  BY <1>0, <1>1, <1>2, <1>3, <1>4, <1>5, <1>6, <1>7, <1>8, <1>9, <1>10, <1>11, <1>12, <1>13,
     <1>14, <1>15, <1>16, <1>17 DEF NotificationNext, WorkerStep

LEMMA NotificationTypes == NotificationSpec => []NotificationTypeInv
  BY InitNotificationTypes, NextNotificationTypes, PTL DEF NotificationSpec

\* Every variable keeps its type, and a task that records or announces has
\* a row to do it to.
THEOREM NotificationTypeCorrect == NotificationSpec => []NotificationTypeOK
<1>1. NotificationTypeInv => NotificationTypeOK
  BY DEF NotificationTypeInv
<1> QED BY <1>1, NotificationTypes, PTL

-----------------------------------------------------------------------------
(* An event that Redis remembers is mailed once.                           *)

\* A worker has passed MarkEventProcessed with e and has not mailed it yet.
Unspent(t, e) == task[t].event = e /\ task[t].pc \in {"creating", "mailing"}

OnceInv ==
    \A e \in Events \ forgotten :
        /\ mails[e] <= 1
        /\ e \notin processed => mails[e] = 0 /\ \A t \in Tasks : ~Unspent(t, e)
        /\ \A t \in Tasks : Unspent(t, e) =>
             mails[e] = 0 /\ \A q \in Tasks : Unspent(q, e) => q = t

\* What the steps that hand out no event and mail none have in common.
LEMMA QuietStep ==
  ASSUME NotificationTypeInv, OnceInv, mails' = mails, forgotten \subseteq forgotten',
         processed \subseteq processed',
         \A t \in Tasks, e \in Events : Unspent(t, e)' => Unspent(t, e)
  PROVE  OnceInv'
<1> HIDE DEF Unspent
<1> QED BY DEF OnceInv

\* A task that had an event unspent mails it, and has it no longer.
LEMMA MailOnceMore ==
  ASSUME NotificationTypeInv, OnceInv, NEW t \in Tasks, Mailed(t),
         task[t].pc = "mailing", processed' = processed, forgotten' = forgotten,
         \A q \in Tasks, d \in Events : Unspent(q, d)' => Unspent(q, d) /\ q # t
  PROVE  OnceInv'
<1>0. mails \in [Events -> Nat] /\ task[t].event \in Events \union {NoEvent}
  BY DEF NotificationTypeInv, NotificationTypeOK, TaskRecords
<1>1. CASE task[t].event = NoEvent
  BY <1>1, QuietStep DEF Mailed
<1>2. CASE task[t].event # NoEvent
  <2> DEFINE e == task[t].event
  <2>1. e \in Events /\ mails' = [mails EXCEPT ![e] = @ + 1] /\ Unspent(t, e)
    BY <1>0, <1>2 DEF Mailed, Unspent
  <2> HIDE DEF e, Unspent
  <2> QED BY <1>0, <2>1 DEF OnceInv
<1> QED BY <1>1, <1>2

LEMMA NextOnce ==
  NotificationTypeInv /\ OnceInv /\ [NotificationNext]_notificationVars => OnceInv'
<1> SUFFICES ASSUME NotificationTypeInv, OnceInv, [NotificationNext]_notificationVars
             PROVE  OnceInv'
  OBVIOUS
<1>0. /\ task \in [Tasks -> TaskRecords] /\ mails \in [Events -> Nat]
      /\ processed \subseteq Events /\ forgotten \subseteq Events
      /\ Workers \subseteq Tasks /\ Callers \subseteq Tasks /\ NoEvent \notin Events
      /\ \A t \in Tasks : TaskOK(t)
  BY NotificationAssumption DEF NotificationTypeInv, NotificationTypeOK, Tasks
<1>1. ASSUME UNCHANGED <<processed, task, mails, forgotten>> PROVE OnceInv'
  BY <1>1, QuietStep DEF Unspent
<1>2. ASSUME LoseMemory, UNCHANGED <<processed, mails, forgotten>> PROVE OnceInv'
  BY <1>2, QuietStep DEF Unspent, LoseMemory, Idle
<1>3. ASSUME NEW w \in Workers, TakeJob(w) PROVE OnceInv'
  BY <1>0, <1>3, QuietStep, SMTT(30) DEF TakeJob, Unspent
<1>4. ASSUME NEW w \in Workers, MarkProcessed(w) PROVE OnceInv'
  <2> DEFINE e == task[w].event
  <2>0. e \in Events /\ task[w].pc = "marking"
    BY <1>0, <1>4 DEF MarkProcessed, TaskOK, At
  <2>1. CASE Finish(w)
    BY <1>0, <1>4, <2>1, QuietStep, SMTT(30) DEF MarkProcessed, Finish, Unspent, Idle
  <2>2. CASE FirstTime(e) /\ Goto(w, "creating")
    <3>1. Went(w, "creating")
      BY <1>0, <2>2, GotoTypes DEF Places
    <3>2. \A q \in Tasks, d \in Events : Unspent(q, d)' <=> Unspent(q, d) \/ (q = w /\ d = e)
      BY <1>0, <2>0, <3>1 DEF Unspent, Went
    <3>3. mails' = mails /\ forgotten' = forgotten /\ processed' = processed \union {e}
      BY <1>4 DEF MarkProcessed
    <3>4. e \notin processed
      BY <2>2 DEF FirstTime
    <3> HIDE DEF e, Unspent
    <3> QED BY <1>0, <2>0, <3>2, <3>3, <3>4 DEF OnceInv
  <2> QED BY <1>4, <2>1, <2>2 DEF MarkProcessed
<1>5. ASSUME NEW w \in Workers, StopWorker(w) PROVE OnceInv'
  BY <1>0, <1>5, QuietStep, SMTT(30) DEF StopWorker, Gone, Unspent
<1>6. ASSUME NEW t \in Tasks, Deliver(t) PROVE OnceInv'
  <2>1. ASSUME NEW n \in Rows, CreateRow(t, n) PROVE OnceInv'
    BY <1>0, <2>1, QuietStep, SMTT(30) DEF CreateRow, Unspent, At
  <2>2. CASE SendMail(t)
    <3>1. Went(t, "recording") /\ task[t].pc = "mailing"
      BY <1>0, <2>2, GotoTypes DEF SendMail, Places, At
    <3>2. \A q \in Tasks, d \in Events : Unspent(q, d)' => Unspent(q, d) /\ q # t
      BY <1>0, <3>1 DEF Unspent, Went
    <3>3. processed' = processed /\ forgotten' = forgotten /\ Mailed(t)
      BY <2>2 DEF SendMail
    <3> QED BY <1>0, <3>1, <3>2, <3>3, MailOnceMore DEF Unspent
  <2>3. CASE UpdateStatus(t)
    <3>1. Went(t, "announcing") /\ task[t].pc = "recording"
      BY <1>0, <2>3, GotoTypes DEF UpdateStatus, Places, At
    <3> QED BY <1>0, <2>3, <3>1, QuietStep DEF UpdateStatus, Unspent, Went
  <2>4. CASE Broadcast(t)
    BY <1>0, <2>4, QuietStep, SMTT(30) DEF Broadcast, Finish, Idle, Unspent
  <2> QED BY <1>6, <2>1, <2>2, <2>3, <2>4 DEF Deliver
<1>7. ASSUME NEW c \in Callers, NEW typ \in SendTypes, BeginSend(c, typ) PROVE OnceInv'
  BY <1>0, <1>7, QuietStep, SMTT(30) DEF BeginSend, Unspent
<1>8. CASE Fault
  <2>1. ASSUME NEW e \in Events, ForgetEvent(e) PROVE OnceInv'
    <3>1. \A q \in Tasks, d \in Events : Unspent(q, d)' <=> Unspent(q, d)
      BY <2>1 DEF ForgetEvent, Unspent
    <3> HIDE DEF Unspent
    <3> QED BY <1>0, <2>1, <3>1 DEF ForgetEvent, OnceInv
  <2>2. ASSUME NEW w \in Workers, MarkFails(w) PROVE OnceInv'
    BY <1>0, <2>2, QuietStep, SMTT(30) DEF MarkFails, Finish, Idle, Unspent
  <2>3. ASSUME NEW t \in Tasks, CreateFails(t) PROVE OnceInv'
    BY <1>0, <2>3, QuietStep, SMTT(30) DEF CreateFails, Finish, Idle, Unspent
  <2>4. ASSUME NEW t \in Tasks, MailFails(t) PROVE OnceInv'
    <3>1. task[t].pc = "mailing"
      BY <2>4 DEF MailFails, At
    <3>2. \A q \in Tasks, d \in Events : Unspent(q, d)' => Unspent(q, d) /\ q # t
      BY <1>0, <2>4, SMTT(30) DEF MailFails, Unspent
    <3>3. processed' = processed /\ forgotten' = forgotten
      BY <2>4 DEF MailFails
    <3>4. CASE Mailed(t)
      BY <1>0, <3>1, <3>2, <3>3, <3>4, MailOnceMore DEF Unspent
    <3>5. CASE mails' = mails
      BY <3>2, <3>3, <3>5, QuietStep
    <3> QED BY <2>4, <3>4, <3>5 DEF MailFails
  <2>5. ASSUME NEW t \in Tasks, UpdateFails(t) PROVE OnceInv'
    <3>1. Went(t, "announcing") /\ task[t].pc = "recording"
      BY <1>0, <2>5, GotoTypes DEF UpdateFails, Places, At
    <3> QED BY <1>0, <2>5, <3>1, QuietStep DEF UpdateFails, Unspent, Went
  <2>6. ASSUME NEW c \in Clients, HistoryFails(c) PROVE OnceInv'
    BY <1>1, <2>6 DEF HistoryFails
  <2>7. CASE Crash
    BY <1>2, <2>7 DEF Crash
  <2> QED BY <1>8, <2>1, <2>2, <2>3, <2>4, <2>5, <2>6, <2>7 DEF Fault
<1>9. ASSUME NEW e \in Events, Arrive(e) \/ Enqueue(e) PROVE OnceInv'
  BY <1>1, <1>2, <1>9 DEF Arrive, Enqueue, queueVars, streamVars
<1>10. ASSUME NEW n \in Rows, DeleteNotification(n) PROVE OnceInv'
  BY <1>1, <1>10 DEF DeleteNotification
<1>11. ASSUME NEW c \in Clients,
              OpenStream(c) \/ ReadHistory(c) \/ SendSnapshot(c) \/ ReceiveNew(c) \/ CloseStream(c)
       PROVE  OnceInv'
  BY <1>1, <1>11 DEF OpenStream, ReadHistory, SendSnapshot, ReceiveNew, CloseStream
<1>12. CASE BeginShutdown \/ WorkersDone \/ Exit
  BY <1>1, <1>2, <1>12 DEF BeginShutdown, WorkersDone, Exit
<1>13. CASE UNCHANGED notificationVars
  BY <1>1, <1>13 DEF notificationVars
<1> QED
  BY <1>0, <1>3, <1>4, <1>5, <1>6, <1>7, <1>8, <1>9, <1>10, <1>11, <1>12, <1>13
  DEF NotificationNext, WorkerStep

\* However often NATS delivers an event, and whichever workers get the
\* copies, crashes and lost replies included, it is mailed at most once,
\* unless its key has left Redis.
THEOREM MailedOnceHolds == NotificationSpec => []MailedOnce
<1>1. NotificationInit => OnceInv
  BY DEF NotificationInit, OnceInv, Unspent, Idle
<1>2. OnceInv => MailedOnce
  BY DEF OnceInv, MailedOnce
<1> QED BY <1>1, <1>2, NotificationTypes, NextOnce, PTL DEF NotificationSpec

-----------------------------------------------------------------------------
(* A shutdown loses nothing.                                               *)

\* A worker that is gone saw the channel closed and empty, and nothing is put
\* on a closed channel.
DrainInv ==
    /\ \A w \in Workers : At(w, "gone") =>
         task[w] = Gone /\ jobs = <<>> /\ stage \in {"draining", "stopping"}
    /\ stage = "stopping" => \A w \in Workers : At(w, "gone")

\* Steps that leave the stage, and the workers that are gone, as they are.
LEMMA QuietDrain ==
  ASSUME DrainInv, stage' = stage, jobs = <<>> => jobs' = <<>> \/ stage = "up",
         \A w \in Workers : At(w, "gone") \/ At(w, "gone")' => task'[w] = task[w]
  PROVE  DrainInv'
BY DEF DrainInv, At

LEMMA NextDrain ==
  NotificationTypeInv /\ DrainInv /\ [NotificationNext]_notificationVars => DrainInv'
<1> SUFFICES ASSUME NotificationTypeInv, DrainInv, [NotificationNext]_notificationVars
             PROVE  DrainInv'
  OBVIOUS
<1>0. /\ task \in [Tasks -> TaskRecords] /\ Workers \subseteq Tasks /\ Callers \subseteq Tasks
      /\ Workers \intersect Callers = {} /\ Workers # {} /\ jobs \in Seq(Events)
  BY NotificationAssumption DEF NotificationTypeInv, NotificationTypeOK, Tasks
<1>1. ASSUME UNCHANGED <<stage, jobs, task>> PROVE DrainInv'
  BY <1>1, QuietDrain DEF At
<1>2. ASSUME LoseMemory, stage' # "stopping" PROVE DrainInv'
  BY <1>0, <1>2 DEF LoseMemory, Idle, DrainInv, At
<1>3. ASSUME NEW e \in Events, Enqueue(e) PROVE DrainInv'
  <2>1. CASE stage = "up"
    BY <1>3, <2>1, QuietDrain DEF Enqueue, At
  <2>2. CASE stage # "up"
    BY <1>2, <1>3, <2>2 DEF Enqueue
  <2> QED BY <2>1, <2>2
<1>4. ASSUME NEW w \in Workers, TakeJob(w) PROVE DrainInv'
  <2>1. jobs # <<>> /\ stage' = stage /\ task[w].pc = "idle" /\ task'[w].pc = "marking"
        /\ \A q \in Workers : q # w => task'[q] = task[q]
    BY <1>0, <1>4 DEF TakeJob, Idle
  <2> QED BY <2>1, QuietDrain DEF At
<1>5. ASSUME NEW w \in Workers, MarkProcessed(w) PROVE DrainInv'
  <2>1. UNCHANGED <<stage, jobs>> /\ (Finish(w) \/ Goto(w, "creating"))
        /\ task[w].pc = "marking"
    BY <1>5 DEF MarkProcessed, At, queueVars
  <2>2. task'[w].pc # "gone" /\ \A q \in Workers : q # w => task'[q] = task[q]
    BY <1>0, <2>1 DEF Finish, Goto, Idle, TaskRecords
  <2> QED BY <2>1, <2>2, QuietDrain DEF At
<1>6. ASSUME NEW w \in Workers, StopWorker(w) PROVE DrainInv'
  <2>1. /\ stage = "draining" /\ jobs = <<>> /\ UNCHANGED <<stage, jobs>>
        /\ task'[w] = Gone /\ \A q \in Workers : q # w => task'[q] = task[q]
    BY <1>0, <1>6 DEF StopWorker, ChannelEnds, queueVars
  <2> QED BY <2>1 DEF DrainInv, At
<1>7. ASSUME NEW t \in Tasks, Deliver(t) PROVE DrainInv'
  <2>1. UNCHANGED <<stage, jobs>> /\ task[t].pc # "gone"
    BY <1>7 DEF Deliver, CreateRow, SendMail, UpdateStatus, Broadcast, At, queueVars
  <2>2. task'[t].pc # "gone" /\ \A q \in Tasks : q # t => task'[q] = task[q]
    BY <1>0, <1>7, SMTT(30) DEF Deliver, CreateRow, SendMail, UpdateStatus, Broadcast, Goto,
       Finish, Idle, TaskRecords
  <2> QED BY <1>0, <2>1, <2>2, QuietDrain DEF At
<1>8. ASSUME NEW c \in Callers, NEW typ \in SendTypes, BeginSend(c, typ) PROVE DrainInv'
  <2>1. UNCHANGED <<stage, jobs>> /\ \A w \in Workers : task'[w] = task[w]
    BY <1>0, <1>8 DEF BeginSend, queueVars
  <2> QED BY <2>1, QuietDrain DEF At
<1>9. CASE BeginShutdown
  BY <1>9 DEF BeginShutdown, DrainInv, At, queueVars
<1>10. CASE WorkersDone
  BY <1>0, <1>10 DEF WorkersDone, DrainInv, At, queueVars
<1>11. CASE Exit
  BY <1>2, <1>11 DEF Exit
<1>12. ASSUME NEW w \in Tasks, MarkFails(w) \/ CreateFails(w) \/ MailFails(w) \/ UpdateFails(w)
       PROVE  DrainInv'
  <2>1. UNCHANGED <<stage, jobs>> /\ task[w].pc # "gone"
    BY <1>12 DEF MarkFails, CreateFails, MailFails, UpdateFails, At, queueVars
  <2>2. task'[w].pc # "gone" /\ \A q \in Tasks : q # w => task'[q] = task[q]
    BY <1>0, <1>12, SMTT(30) DEF MarkFails, CreateFails, MailFails, UpdateFails, Goto,
       Finish, Idle, TaskRecords
  <2> QED BY <1>0, <2>1, <2>2, QuietDrain DEF At
<1>13. CASE Crash
  BY <1>2, <1>13 DEF Crash
<1>14. CASE Fault
  <2>1. ASSUME NEW e \in Events, ForgetEvent(e) PROVE DrainInv'
    BY <1>1, <2>1 DEF ForgetEvent, queueVars
  <2>2. ASSUME NEW c \in Clients, HistoryFails(c) PROVE DrainInv'
    BY <1>1, <2>2 DEF HistoryFails, queueVars
  <2> QED BY <1>0, <1>12, <1>13, <1>14, <2>1, <2>2 DEF Fault
<1>15. ASSUME \/ \E e \in Events : Arrive(e)
              \/ \E n \in Rows : DeleteNotification(n)
              \/ \E c \in Clients : \/ OpenStream(c) \/ ReadHistory(c) \/ SendSnapshot(c)
                                    \/ ReceiveNew(c) \/ CloseStream(c)
              \/ UNCHANGED notificationVars
       PROVE  DrainInv'
  BY <1>1, <1>15 DEF Arrive, DeleteNotification, OpenStream, ReadHistory, SendSnapshot,
     ReceiveNew, CloseStream, notificationVars, queueVars
<1> QED BY <1>0, <1>3, <1>4, <1>5, <1>6, <1>7, <1>8, <1>9, <1>10, <1>11, <1>14, <1>15
        DEF NotificationNext, WorkerStep

\* However many workers there are and whatever fails meanwhile, Shutdown gets
\* past workersDone.Wait only when the queue is empty and no worker holds an
\* event: nothing that was accepted is lost by a shutdown that does not panic.
THEOREM ShutdownDrainsHolds == NotificationSpec => []ShutdownDrains
<1>1. NotificationInit => DrainInv
  BY NotificationAssumption DEF NotificationInit, DrainInv, Idle, At, Tasks
<1>2. DrainInv => ShutdownDrains
  BY NotificationAssumption DEF DrainInv, ShutdownDrains, Gone
<1> QED BY <1>1, <1>2, NotificationTypes, NextDrain, PTL DEF NotificationSpec

-----------------------------------------------------------------------------
(* What QueuedIsMailed needs besides fairness.                             *)

\* Worker w has an e-mail to send for event e.
Carries(w, e) ==
    task[w].event = e /\ task[w].email /\ task[w].pc \in {"creating", "mailing"}

\* Without a fault or a panic every event that Redis remembers and a handler
\* understands is mailed, or a worker is about to mail it.
MailOwed ==
    faults = 0 /\ stage # "panicked" =>
        \A e \in processed : Understood(SubjectOf[e]) =>
            mails[e] > 0 \/ \E w \in Workers : Carries(w, e)

OwedInv == MailOwed /\ \A w \in Workers : At(w, "marking") => task[w].email

\* Steps that mark no event, mail none and take none from its worker.
LEMMA QuietOwed ==
  ASSUME OwedInv, faults = 0, stage # "panicked", processed' = processed, mails' = mails,
         \A w \in Workers : At(w, "marking")' => task'[w].email,
         \A w \in Workers, e \in Events : Carries(w, e) => Carries(w, e)',
         processed \subseteq Events
  PROVE  OwedInv'
BY DEF OwedInv, MailOwed

LEMMA NextMailOwed ==
  NotificationTypeInv /\ DrainInv /\ OwedInv /\ [NotificationNext]_notificationVars => OwedInv'
<1> SUFFICES ASSUME NotificationTypeInv, DrainInv, OwedInv,
                    [NotificationNext]_notificationVars
             PROVE  OwedInv'
  OBVIOUS
<1>0. /\ task \in [Tasks -> TaskRecords] /\ Workers \subseteq Tasks /\ Callers \subseteq Tasks
      /\ Workers \intersect Callers = {} /\ jobs \in Seq(Events)
      /\ processed \subseteq Events /\ mails \in [Events -> Nat] /\ faults \in Nat
      /\ \A w \in Workers : At(w, "marking") => task[w].email
      /\ \A w \in Workers : At(w, "marking") => task[w].event \in Events
  BY NotificationAssumption
  DEF NotificationTypeInv, NotificationTypeOK, Tasks, OwedInv, TaskOK, At
\* A fault, a panic and what comes after them owe nothing.
<1>1. ASSUME faults' # 0 \/ stage' = "panicked",
             \A w \in Workers : At(w, "marking")' => task'[w].email
      PROVE  OwedInv'
  BY <1>1 DEF OwedInv, MailOwed
<1>2. ASSUME LoseMemory, faults' # 0 \/ stage' = "panicked" PROVE OwedInv'
  BY <1>0, <1>1, <1>2 DEF LoseMemory, Idle, At
<1>3. ASSUME UNCHANGED <<processed, mails, faults, stage>>,
             \A w \in Workers : At(w, "marking")' => task'[w].email,
             \A w \in Workers, e \in Events : Carries(w, e) => Carries(w, e)'
      PROVE  OwedInv'
  BY <1>0, <1>1, <1>3, QuietOwed
<1>4. ASSUME UNCHANGED <<processed, mails, faults, stage, task>> PROVE OwedInv'
  BY <1>0, <1>3, <1>4 DEF At, Carries
<1>5. ASSUME NEW e \in Events, Enqueue(e) PROVE OwedInv'
  BY <1>2, <1>4, <1>5 DEF Enqueue
<1>6. ASSUME NEW w \in Workers, TakeJob(w) PROVE OwedInv'
  <2>1. /\ UNCHANGED <<processed, mails, faults, stage>> /\ task[w].pc = "idle"
        /\ task'[w].email /\ \A q \in Workers : q # w => task'[q] = task[q]
    BY <1>0, <1>6 DEF TakeJob, Idle
  <2> QED BY <1>0, <1>3, <2>1 DEF At, Carries
<1>7. ASSUME NEW w \in Workers, MarkProcessed(w) PROVE OwedInv'
  <2> DEFINE e == task[w].event
  <2>1. /\ At(w, "marking") /\ task[w].email /\ e \in Events
        /\ processed' = processed \union {e} /\ UNCHANGED <<mails, faults, stage>>
        /\ IF e \notin processed /\ Understood(SubjectOf[e]) THEN Goto(w, "creating") ELSE Finish(w)
    BY <1>0, <1>7 DEF MarkProcessed, FirstTime
  <2>2. task'[w].pc # "marking" /\ \A q \in Workers : q # w => task'[q] = task[q]
    BY <1>0, <2>1 DEF Goto, Finish, Idle, TaskRecords
  <2>3. \A f \in Events \ processed : f = e /\ Understood(SubjectOf[f]) => Carries(w, f)'
    BY <1>0, <2>1 DEF Goto, Carries, TaskRecords
  <2>4. \A q \in Workers, f \in Events : Carries(q, f) => Carries(q, f)'
    BY <2>1, <2>2 DEF Carries, At
  <2>5. \A q \in Workers : At(q, "marking")' => task'[q].email
    BY <1>0, <2>2 DEF At
  <2>6. MailOwed'
    <3> HIDE DEF e
    <3> SUFFICES ASSUME faults = 0, stage # "panicked",
                        NEW f \in processed', Understood(SubjectOf[f])
                 PROVE  mails[f] > 0 \/ \E q \in Workers : Carries(q, f)'
      BY <2>1 DEF MailOwed
    <3>1. CASE f \in processed
      BY <1>0, <2>4, <3>1 DEF OwedInv, MailOwed
    <3>2. CASE f \notin processed
      BY <2>1, <2>3, <3>2
    <3> QED BY <3>1, <3>2
  <2> QED BY <2>5, <2>6 DEF OwedInv
<1>8. ASSUME NEW w \in Workers, StopWorker(w) PROVE OwedInv'
  <2>1. /\ UNCHANGED <<processed, mails, faults, stage>> /\ task[w].pc = "idle"
        /\ task'[w] = Gone /\ \A q \in Workers : q # w => task'[q] = task[q]
    BY <1>0, <1>8 DEF StopWorker, Idle, queueVars
  <2> QED BY <1>0, <1>3, <2>1 DEF At, Carries, Gone
<1>9. ASSUME NEW t \in Tasks, Deliver(t) PROVE OwedInv'
  <2>1. CASE \E n \in Rows : CreateRow(t, n)
    <3>1. /\ UNCHANGED <<processed, mails, faults, stage>>
          /\ task'[t].pc # "marking" /\ task'[t].event = task[t].event
          /\ task'[t].email = task[t].email /\ (task[t].email => task'[t].pc = "mailing")
          /\ \A q \in Tasks : q # t => task'[q] = task[q]
      BY <1>0, <2>1, SMTT(20) DEF CreateRow, queueVars
    <3> QED BY <1>0, <1>3, <3>1 DEF At, Carries
  <2>2. CASE SendMail(t)
    <3>1. /\ UNCHANGED <<processed, faults, stage>> /\ task'[t].pc # "marking"
          /\ \A q \in Tasks : q # t => task'[q] = task[q]
      BY <1>0, <2>2 DEF SendMail, Goto, TaskRecords, queueVars
    <3>2. /\ \A e \in Events : mails[e] > 0 => mails'[e] > 0
          /\ \A e \in Events : task[t].event = e => e = NoEvent \/ mails'[e] > 0
      BY <1>0, <2>2, SMTT(20) DEF SendMail, Mailed
    <3>3. \A q \in Workers, e \in Events : Carries(q, e) => Carries(q, e)' \/ mails'[e] > 0
      BY <1>0, <3>1, <3>2, NotificationAssumption DEF Carries
    <3> QED BY <1>0, <3>1, <3>2, <3>3 DEF OwedInv, MailOwed, At
  <2>3. CASE UpdateStatus(t) \/ Broadcast(t)
    <3>1. /\ UNCHANGED <<processed, mails, faults, stage>>
          /\ task[t].pc \in {"recording", "announcing"} /\ task'[t].pc # "marking"
          /\ \A q \in Tasks : q # t => task'[q] = task[q]
      BY <1>0, <2>3, SMTT(20) DEF UpdateStatus, Broadcast, Goto, Finish, Idle, At,
         TaskRecords, queueVars
    <3> QED BY <1>0, <1>3, <3>1 DEF At, Carries
  <2> QED BY <1>9, <2>1, <2>2, <2>3 DEF Deliver
<1>10. ASSUME NEW c \in Callers, NEW typ \in SendTypes, BeginSend(c, typ) PROVE OwedInv'
  <2>1. UNCHANGED <<processed, mails, faults, stage>> /\ \A w \in Workers : task'[w] = task[w]
    BY <1>0, <1>10 DEF BeginSend, queueVars
  <2> QED BY <1>0, <1>3, <2>1 DEF At, Carries
<1>11. CASE BeginShutdown \/ WorkersDone
  <2>1. UNCHANGED <<processed, mails, faults, task>> /\ stage # "panicked"
    BY <1>11 DEF BeginShutdown, WorkersDone
  <2> QED BY <2>1 DEF OwedInv, MailOwed, At, Carries
<1>12. CASE Exit
  <2>1. /\ stage = "stopping" /\ LoseMemory /\ UNCHANGED <<processed, mails, faults>>
    BY <1>12 DEF Exit
  <2>2. \A w \in Workers : task[w] = Gone /\ ~At(w, "marking")'
    BY <1>0, <2>1 DEF DrainInv, LoseMemory, Idle, At
  <2>3. \A w \in Workers, e \in Events : ~Carries(w, e)
    BY <2>2 DEF Carries, Gone
  <2> QED BY <1>0, <2>1, <2>2, <2>3 DEF OwedInv, MailOwed
<1>13. CASE Fault
  <2>1. faults' # 0
    BY <1>0, <1>13 DEF Fault, Strike, ForgetEvent, MarkFails, CreateFails, MailFails,
       UpdateFails, HistoryFails, Crash
  <2>2. CASE Crash
    BY <1>2, <2>1, <2>2 DEF Crash
  <2>3. ASSUME NEW t \in Tasks,
               MarkFails(t) \/ CreateFails(t) \/ MailFails(t) \/ UpdateFails(t)
        PROVE  OwedInv'
    <3>1. task'[t].pc # "marking" /\ \A q \in Tasks : q # t => task'[q] = task[q]
      BY <1>0, <2>3, SMTT(30) DEF MarkFails, CreateFails, MailFails, UpdateFails, Goto,
         Finish, Idle, TaskRecords
    <3> QED BY <1>0, <1>1, <2>1, <3>1 DEF At
  <2>4. CASE (\E e \in Events : ForgetEvent(e)) \/ \E c \in Clients : HistoryFails(c)
    BY <1>0, <1>1, <2>1, <2>4 DEF ForgetEvent, HistoryFails, At
  <2> QED BY <1>0, <1>13, <2>2, <2>3, <2>4 DEF Fault
<1>14. CASE \/ \E e \in Events : Arrive(e)
            \/ \E n \in Rows : DeleteNotification(n)
            \/ \E c \in Clients : \/ OpenStream(c) \/ ReadHistory(c) \/ SendSnapshot(c)
                                  \/ ReceiveNew(c) \/ CloseStream(c)
            \/ UNCHANGED notificationVars
  BY <1>4, <1>14 DEF Arrive, DeleteNotification, OpenStream, ReadHistory, SendSnapshot,
     ReceiveNew, CloseStream, notificationVars
<1> QED BY <1>0, <1>5, <1>6, <1>7, <1>8, <1>9, <1>10, <1>11, <1>12, <1>13, <1>14
        DEF NotificationNext, WorkerStep

\* The safety half of QueuedIsMailed: no worker, race of duplicates or shutdown
\* makes an event disappear between its key in Redis, which keeps it from ever
\* being handled again, and its mail.
THEOREM MailOwedHolds == NotificationSpec => []MailOwed
<1>1. NotificationInit => DrainInv /\ OwedInv
  BY NotificationAssumption
  DEF NotificationInit, DrainInv, OwedInv, MailOwed, Idle, At, Tasks
<1>2. OwedInv => MailOwed
  BY DEF OwedInv
<1> QED BY <1>1, <1>2, NotificationTypes, NextDrain, NextMailOwed, PTL DEF NotificationSpec

-----------------------------------------------------------------------------
(* A stream loses nothing.                                                 *)

Carrying(t) == task[t].pc \in {"mailing", "recording", "announcing"}

\* What the database tells of row n is st, as far as it can.
Tells(n, st) == row[n] = st \/ n \in unrecorded \/ row[n] = "deleted"

\* A row is delivered by one task, which announces it when it has recorded
\* its status; from then on the row tells what was announced.
CarryInv ==
    /\ \A n \in Rows :
         /\ announced[n] # "nothing" => Tells(n, announced[n])
         /\ row[n] = "absent" => announced[n] = "nothing"
    /\ \A t \in Tasks : Carrying(t) =>
         /\ announced[task[t].row] = "nothing"
         /\ task[t].pc = "announcing" => Tells(task[t].row, task[t].result)
         /\ \A q \in Tasks : Carrying(q) /\ task[q].row = task[t].row => q = t

\* Steps that leave the rows alone and start no delivery.
LEMMA QuietCarry ==
  ASSUME NotificationTypeInv, CarryInv, row' = row, announced' = announced,
         unrecorded \subseteq unrecorded',
         \A t \in Tasks : Carrying(t)' =>
            /\ Carrying(t) /\ task'[t].row = task[t].row /\ task'[t].result = task[t].result
            /\ task'[t].pc = "announcing" =>
                 task[t].pc = "announcing" \/ task[t].row \in unrecorded'
  PROVE  CarryInv'
<1>1. \A n \in Rows, st \in {"sent", "failed"} : Tells(n, st) => Tells(n, st)'
  BY DEF Tells
<1>2. \A t \in Tasks : task[t].result \in {"sent", "failed"} /\ (Carrying(t) => task[t].row \in Rows)
  BY DEF NotificationTypeInv, NotificationTypeOK, TaskOK, TaskRecords, Carrying
<1>3. announced \in [Rows -> {"nothing", "sent", "failed"}]
  BY DEF NotificationTypeInv, NotificationTypeOK
<1>4. \A n \in Rows : /\ announced'[n] # "nothing" => Tells(n, announced[n])'
                      /\ row'[n] = "absent" => announced'[n] = "nothing"
  BY <1>1, <1>3 DEF CarryInv
<1>5. ASSUME NEW t \in Tasks, Carrying(t)' PROVE
         /\ announced'[task'[t].row] = "nothing"
         /\ task'[t].pc = "announcing" => Tells(task[t].row, task[t].result)'
         /\ \A q \in Tasks : Carrying(q)' /\ task'[q].row = task'[t].row => q = t
  <2>1. CASE task[t].row \in unrecorded'
    BY <1>2, <1>5, <2>1 DEF CarryInv, Tells
  <2>2. CASE task[t].row \notin unrecorded'
    <3> HIDE DEF Tells
    <3> QED BY <1>1, <1>2, <1>5, <2>2 DEF CarryInv
  <2> QED BY <2>1, <2>2
<1> QED BY <1>4, <1>5 DEF CarryInv

LEMMA NextCarry ==
  NotificationTypeInv /\ CarryInv /\ [NotificationNext]_notificationVars => CarryInv'
<1> SUFFICES ASSUME NotificationTypeInv, CarryInv, [NotificationNext]_notificationVars
             PROVE  CarryInv'
  OBVIOUS
<1>0. /\ task \in [Tasks -> TaskRecords]
      /\ row \in [Rows -> {"absent", "pending", "sent", "failed", "deleted"}]
      /\ announced \in [Rows -> {"nothing", "sent", "failed"}]
      /\ unrecorded \subseteq Rows
      /\ Workers \subseteq Tasks /\ Callers \subseteq Tasks
      /\ \A t \in Tasks : TaskOK(t)
  BY DEF NotificationTypeInv, NotificationTypeOK, Tasks
<1>1. ASSUME UNCHANGED <<row, announced, unrecorded, task>> PROVE CarryInv'
  BY <1>1, QuietCarry DEF Carrying
<1>2. ASSUME LoseMemory, UNCHANGED <<row, announced, unrecorded>> PROVE CarryInv'
  BY <1>2, QuietCarry DEF Carrying, LoseMemory, Idle
<1>3. ASSUME NEW w \in Workers, TakeJob(w) PROVE CarryInv'
  BY <1>0, <1>3, QuietCarry, SMTT(30) DEF TakeJob, Carrying, rowVars
<1>4. ASSUME NEW w \in Workers, MarkProcessed(w) PROVE CarryInv'
  <2>1. CASE Finish(w)
    BY <1>0, <1>4, <2>1, QuietCarry, SMTT(30) DEF MarkProcessed, Finish, Carrying, Idle, rowVars
  <2>2. CASE Goto(w, "creating")
    <3>1. Went(w, "creating")
      BY <1>0, <2>2, GotoTypes DEF Places
    <3> QED BY <1>0, <1>4, <3>1, QuietCarry DEF MarkProcessed, Carrying, Went, rowVars
  <2> QED BY <1>4, <2>1, <2>2 DEF MarkProcessed
<1>5. ASSUME NEW w \in Workers, StopWorker(w) PROVE CarryInv'
  BY <1>0, <1>5, QuietCarry, SMTT(30) DEF StopWorker, Gone, Carrying, rowVars
<1>6. ASSUME NEW t \in Tasks, Deliver(t) PROVE CarryInv'
  <2>1. ASSUME NEW n \in Rows, CreateRow(t, n) PROVE CarryInv'
    <3>1. /\ row[n] = "absent" /\ row' = [row EXCEPT ![n] = "pending"]
          /\ announced' = announced /\ unrecorded' = unrecorded
      BY <2>1 DEF CreateRow, InsertRow
    <3>2. /\ task'[t].row = n /\ task'[t].pc # "announcing"
          /\ \A q \in Tasks : q # t => task'[q] = task[q]
      BY <1>0, <2>1, SMTT(30) DEF CreateRow
    <3>3. \A q \in Tasks : Carrying(q) => task[q].row \in Rows /\ task[q].row # n
      BY <1>0, <3>1 DEF TaskOK, Carrying
    <3>4. \A q \in Tasks : q # t => (Carrying(q)' <=> Carrying(q))
      BY <3>2 DEF Carrying
    <3>5. \A m \in Rows, st \in {"sent", "failed"} : m # n => (Tells(m, st) => Tells(m, st)')
      BY <1>0, <3>1 DEF Tells
    <3>6. \A m \in Rows : /\ announced'[m] # "nothing" => Tells(m, announced[m])'
                          /\ row'[m] = "absent" => announced'[m] = "nothing"
      <4> HIDE DEF Tells
      <4> QED BY <1>0, <3>1, <3>5 DEF CarryInv
    <3>7. ASSUME NEW q \in Tasks, Carrying(q)' PROVE
            /\ announced'[task'[q].row] = "nothing"
            /\ task'[q].pc = "announcing" => Tells(task[q].row, task[q].result)'
            /\ \A p \in Tasks : Carrying(p)' /\ task'[p].row = task'[q].row => p = q
      <4>1. CASE q = t
        BY <3>1, <3>2, <3>3, <3>4, <4>1 DEF CarryInv
      <4>2. CASE q # t
        <5>1. task[q].result \in {"sent", "failed"} /\ Carrying(q)
          BY <1>0, <3>4, <3>7, <4>2 DEF TaskRecords
        <5> HIDE DEF Tells, Carrying
        <5> QED BY <3>1, <3>2, <3>3, <3>4, <3>5, <3>7, <4>2, <5>1 DEF CarryInv
      <4> QED BY <4>1, <4>2
    <3>8. \A q \in Tasks : Carrying(q)' /\ task'[q].pc = "announcing" =>
            task'[q].row = task[q].row /\ task'[q].result = task[q].result
      BY <3>2
    <3> HIDE DEF Tells, Carrying
    <3> QED BY <3>6, <3>7, <3>8 DEF CarryInv
  <2>2. CASE SendMail(t)
    <3>1. Went(t, "recording") /\ task[t].pc = "mailing"
      BY <1>0, <2>2, GotoTypes DEF SendMail, Places, At
    <3> QED BY <1>0, <2>2, <3>1, QuietCarry DEF SendMail, Carrying, Went, rowVars
  <2>3. CASE UpdateStatus(t)
    <3> DEFINE r == task[t].row
    <3>1. Went(t, "announcing") /\ task[t].pc = "recording" /\ r \in Rows
      BY <1>0, <2>3, GotoTypes DEF UpdateStatus, Places, At, TaskOK
    <3>2. announced' = announced /\ unrecorded' = unrecorded
      BY <2>3 DEF UpdateStatus
    <3>3. /\ \A m \in Rows : m # r => row'[m] = row[m]
          /\ Tells(r, task[t].result)' /\ row'[r] # "absent"
      <4>1. CASE row[r] \in {"pending", "sent", "failed"} /\ row' = [row EXCEPT ![r] = task[t].result]
        BY <1>0, <3>1, <3>2, <4>1 DEF Tells, TaskRecords, Went
      <4>2. CASE row' = row /\ row[r] \notin {"pending", "sent", "failed"}
        BY <1>0, <3>1, <3>2, <4>2 DEF Tells, TaskOK, Went
      <4> QED BY <2>3, <4>1, <4>2 DEF UpdateStatus, Exists, Recorded
    <3>4. Carrying(t) /\ announced[r] = "nothing"
      BY <3>1 DEF Carrying, CarryInv
    <3>5. \A q \in Tasks : Carrying(q)' => /\ Carrying(q) /\ task'[q].row = task[q].row
                                           /\ task'[q].result = task[q].result
      BY <3>1 DEF Carrying, Went
    <3>6. \A m \in Rows, st \in {"sent", "failed"} : m # r => (Tells(m, st) => Tells(m, st)')
      BY <3>2, <3>3 DEF Tells
    <3>7. \A m \in Rows : /\ announced'[m] # "nothing" => Tells(m, announced[m])'
                          /\ row'[m] = "absent" => announced'[m] = "nothing"
      <4> HIDE DEF Tells, r
      <4> QED BY <1>0, <3>2, <3>3, <3>4, <3>6 DEF CarryInv
    <3>8. ASSUME NEW q \in Tasks, Carrying(q)' PROVE
            /\ announced'[task'[q].row] = "nothing"
            /\ task'[q].pc = "announcing" => Tells(task[q].row, task[q].result)'
            /\ \A p \in Tasks : Carrying(p)' /\ task'[p].row = task'[q].row => p = q
      <4>1. CASE q = t
        <5> HIDE DEF Tells, Carrying
        <5> QED BY <3>2, <3>3, <3>4, <3>5, <3>8, <4>1 DEF CarryInv
      <4>2. CASE q # t
        <5>1. task[q].result \in {"sent", "failed"} /\ Carrying(q) /\ task'[q].pc = task[q].pc
          BY <1>0, <3>1, <3>5, <3>8, <4>2 DEF TaskRecords, Went
        <5>2. task[q].row # r /\ task[q].row \in Rows
          BY <1>0, <3>4, <4>2, <5>1 DEF CarryInv, TaskOK, Carrying
        <5> HIDE DEF Tells, Carrying, r
        <5> QED BY <3>2, <3>4, <3>5, <3>6, <3>8, <4>2, <5>1, <5>2 DEF CarryInv
      <4> QED BY <4>1, <4>2
    <3> HIDE DEF Tells, Carrying
    <3> QED BY <3>5, <3>7, <3>8 DEF CarryInv
  <2>4. CASE Broadcast(t)
    <3> DEFINE r == task[t].row
    <3>1. /\ task[t].pc = "announcing" /\ Carrying(t) /\ r \in Rows
          /\ row[r] # "absent" /\ task[t].result \in {"sent", "failed"}
      BY <1>0, <2>4 DEF Broadcast, At, Carrying, TaskOK, TaskRecords
    <3>2. /\ announced' = [announced EXCEPT ![r] = task[t].result]
          /\ row' = row /\ unrecorded' = unrecorded
      BY <2>4 DEF Broadcast
    <3>3. \A q \in Tasks : Carrying(q)' => Carrying(q) /\ task'[q] = task[q] /\ q # t
      BY <1>0, <2>4, SMTT(30) DEF Broadcast, Finish, Idle, Carrying
    <3>4. \A m, st : Tells(m, st)' <=> Tells(m, st)
      BY <3>2 DEF Tells
    <3> HIDE DEF Tells, Carrying
    <3>5. \A q \in Tasks : Carrying(q) => task[q].row \in Rows
      BY <1>0 DEF Carrying, TaskOK
    <3>6. \A m \in Rows : /\ announced'[m] # "nothing" => Tells(m, announced'[m])
                          /\ row[m] = "absent" => announced'[m] = "nothing"
      BY <1>0, <3>1, <3>2 DEF CarryInv
    <3>7. ASSUME NEW q \in Tasks, Carrying(q)' PROVE
            /\ announced'[task'[q].row] = "nothing"
            /\ task'[q].pc = "announcing" => Tells(task'[q].row, task'[q].result)
            /\ \A p \in Tasks : Carrying(p)' /\ task'[p].row = task'[q].row => p = q
      BY <1>0, <3>1, <3>2, <3>3, <3>5, <3>7 DEF CarryInv
    <3>8. /\ \A m \in Rows : announced'[m] # "nothing" => Tells(m, announced[m])'
          /\ \A q \in Tasks : Carrying(q)' /\ task'[q].pc = "announcing" =>
               Tells(task[q].row, task[q].result)'
      BY <3>2, <3>4, <3>6, <3>7 DEF Tells
    <3> QED BY <3>2, <3>6, <3>7, <3>8 DEF CarryInv
  <2> QED BY <1>6, <2>1, <2>2, <2>3, <2>4 DEF Deliver
<1>7. ASSUME NEW c \in Callers, NEW typ \in SendTypes, BeginSend(c, typ) PROVE CarryInv'
  BY <1>0, <1>7, QuietCarry, SMTT(30) DEF BeginSend, Carrying, rowVars
<1>8. ASSUME NEW n \in Rows, DeleteNotification(n) PROVE CarryInv'
  <2>1. /\ row' = [row EXCEPT ![n] = "deleted"]
        /\ announced' = announced /\ unrecorded' = unrecorded /\ task' = task
    BY <1>8 DEF DeleteNotification
  <2>2. \A m \in Rows, st \in {"sent", "failed"} : Tells(m, st) => Tells(m, st)'
    BY <1>0, <2>1 DEF Tells
  <2>3. \A q \in Tasks : /\ task[q].result \in {"sent", "failed"}
                         /\ Carrying(q) => task[q].row \in Rows
                         /\ Carrying(q)' <=> Carrying(q)
    BY <1>0, <2>1 DEF TaskRecords, TaskOK, Carrying
  <2> HIDE DEF Tells, Carrying
  <2> QED BY <1>0, <2>1, <2>2, <2>3 DEF CarryInv
<1>9. CASE Fault
  <2>1. ASSUME NEW e \in Events, ForgetEvent(e) PROVE CarryInv'
    BY <1>1, <2>1 DEF ForgetEvent, rowVars
  <2>2. ASSUME NEW w \in Workers, MarkFails(w) PROVE CarryInv'
    BY <1>0, <2>2, QuietCarry, SMTT(30) DEF MarkFails, Finish, Idle, Carrying, rowVars
  <2>3. ASSUME NEW t \in Tasks, CreateFails(t) PROVE CarryInv'
    <3>1. announced' = announced /\ unrecorded' = unrecorded
      BY <2>3 DEF CreateFails
    <3>2. \A q \in Tasks : Carrying(q)' => Carrying(q) /\ task'[q] = task[q]
      BY <1>0, <2>3, SMTT(30) DEF CreateFails, Finish, Idle, Carrying
    <3>3. CASE row' = row
      BY <3>1, <3>2, <3>3, QuietCarry DEF Carrying
    <3>4. ASSUME NEW n \in Rows, InsertRow(n) PROVE CarryInv'
      <4>1. row[n] = "absent" /\ row' = [row EXCEPT ![n] = "pending"]
        BY <3>4 DEF InsertRow
      <4>2. \A q \in Tasks : Carrying(q) => /\ task[q].row \in Rows /\ task[q].row # n
                                           /\ task[q].result \in {"sent", "failed"}
        BY <1>0, <4>1 DEF TaskOK, Carrying, TaskRecords
      <4>3. \A m \in Rows, st \in {"sent", "failed"} : m # n => (Tells(m, st) => Tells(m, st)')
        BY <1>0, <3>1, <4>1 DEF Tells
      <4> HIDE DEF Tells, Carrying
      <4> QED BY <1>0, <3>1, <3>2, <4>1, <4>2, <4>3 DEF CarryInv
    <3> QED BY <2>3, <3>3, <3>4 DEF CreateFails
  <2>4. ASSUME NEW t \in Tasks, MailFails(t) PROVE CarryInv'
    <3>1. /\ row' = row /\ announced' = announced /\ unrecorded' = unrecorded
          /\ task[t].pc = "mailing" /\ task'[t].pc = "recording" /\ task'[t].row = task[t].row
          /\ \A q \in Tasks : q # t => task'[q] = task[q]
      BY <1>0, <2>4, SMTT(30) DEF MailFails, At, rowVars
    <3>2. \A q \in Tasks : Carrying(q)' => Carrying(q) /\ task'[q].row = task[q].row
      BY <3>1 DEF Carrying
    <3>3. \A m, st : Tells(m, st)' <=> Tells(m, st)
      BY <3>1 DEF Tells
    <3>4. /\ \A m \in Rows : announced'[m] # "nothing" => Tells(m, announced[m])'
          /\ \A q \in Tasks : Carrying(q)' /\ task'[q].pc = "announcing" =>
               q # t /\ Tells(task[q].row, task[q].result)'
      BY <1>0, <3>1, <3>2 DEF Tells, CarryInv
    <3> HIDE DEF Tells, Carrying
    <3> QED BY <3>1, <3>2, <3>4 DEF CarryInv
  <2>5. ASSUME NEW t \in Tasks, UpdateFails(t) PROVE CarryInv'
    <3>1. Went(t, "announcing") /\ task[t].pc = "recording"
      BY <1>0, <2>5, GotoTypes DEF UpdateFails, Places, At
    <3> QED BY <1>0, <2>5, <3>1, QuietCarry DEF UpdateFails, Carrying, Went
  <2>6. ASSUME NEW c \in Clients, HistoryFails(c) PROVE CarryInv'
    BY <1>1, <2>6 DEF HistoryFails, rowVars
  <2>7. CASE Crash
    BY <1>2, <2>7 DEF Crash, rowVars
  <2> QED BY <1>9, <2>1, <2>2, <2>3, <2>4, <2>5, <2>6, <2>7 DEF Fault
<1>10. ASSUME NEW e \in Events, Arrive(e) \/ Enqueue(e) PROVE CarryInv'
  BY <1>1, <1>2, <1>10 DEF Arrive, Enqueue, queueVars, streamVars, rowVars
<1>11. ASSUME NEW c \in Clients,
              OpenStream(c) \/ ReadHistory(c) \/ SendSnapshot(c) \/ ReceiveNew(c) \/ CloseStream(c)
       PROVE  CarryInv'
  BY <1>1, <1>11 DEF OpenStream, ReadHistory, SendSnapshot, ReceiveNew, CloseStream, rowVars
<1>12. CASE BeginShutdown \/ WorkersDone \/ Exit
  BY <1>1, <1>2, <1>12 DEF BeginShutdown, WorkersDone, Exit, rowVars
<1>13. CASE UNCHANGED notificationVars
  BY <1>1, <1>13 DEF notificationVars, rowVars
<1> QED
  BY <1>0, <1>3, <1>4, <1>5, <1>6, <1>7, <1>8, <1>9, <1>10, <1>11, <1>12, <1>13
  DEF NotificationNext, WorkerStep

\* As StreamComplete, from the moment the history has been read.
StreamInv ==
    \A c \in Clients, n \in Rows :
        stream[c] \in {"sending", "streaming"} /\ announced[n] # "nothing" =>
            \/ seen[c][n] = announced[n]
            \/ Coming(c, n)
            \/ n \in missed[c] \union unrecorded
            \/ row[n] = "deleted"

LEMMA QuietStream ==
  ASSUME StreamInv, announced' = announced,
         unrecorded \subseteq unrecorded',
         \A n \in Rows : row[n] = "deleted" => row'[n] = "deleted",
         \A c \in Clients : stream'[c] \in {"sending", "streaming"} =>
            /\ stream[c] \in {"sending", "streaming"}
            /\ seen'[c] = seen[c] /\ feed'[c] = feed[c] /\ missed'[c] = missed[c]
  PROVE  StreamInv'
BY DEF StreamInv, Coming

LEMMA InAppend ==
  ASSUME NEW s \in Seq(Rows), NEW x \in Rows
  PROVE  /\ \E i \in 1..Len(Append(s, x)) : Append(s, x)[i] = x
         /\ \A n : (\E i \in 1..Len(s) : s[i] = n) => \E i \in 1..Len(Append(s, x)) : Append(s, x)[i] = n
<1>1. /\ Len(Append(s, x)) = Len(s) + 1 /\ Append(s, x)[Len(s) + 1] = x
      /\ \A i \in 1..Len(s) : Append(s, x)[i] = s[i]
      /\ Len(s) \in Nat
  OBVIOUS
<1> QED BY <1>1

LEMMA InTail ==
  ASSUME NEW s \in Seq(Rows), s # <<>>, NEW n, NEW i \in 1..Len(s), s[i] = n, n # Head(s)
  PROVE  \E j \in 1..Len(Tail(s)) : Tail(s)[j] = n
<1>1. /\ Len(s) \in Nat /\ Len(s) > 0 /\ Len(Tail(s)) = Len(s) - 1
      /\ \A j \in 1..(Len(s) - 1) : Tail(s)[j] = s[j + 1]
      /\ Head(s) = s[1]
  OBVIOUS
<1>2. i # 1 /\ i - 1 \in 1..(Len(s) - 1) /\ s[(i - 1) + 1] = n
  BY <1>1
<1> QED BY <1>1, <1>2

LEMMA NextStream ==
  NotificationTypeInv /\ CarryInv /\ StreamInv /\ [NotificationNext]_notificationVars => StreamInv'
<1> SUFFICES ASSUME NotificationTypeInv, CarryInv, StreamInv, [NotificationNext]_notificationVars
             PROVE  StreamInv'
  OBVIOUS
<1>0. /\ task \in [Tasks -> TaskRecords]
      /\ row \in [Rows -> {"absent", "pending", "sent", "failed", "deleted"}]
      /\ announced \in [Rows -> {"nothing", "sent", "failed"}]
      /\ stream \in [Clients -> {"off", "reading", "sending", "streaming"}]
      /\ feed \in [Clients -> Seq(Rows)]
      /\ seen \in [Clients -> [Rows -> {"nothing", "pending", "sent", "failed"}]]
      /\ missed \in [Clients -> SUBSET Rows]
      /\ unrecorded \subseteq Rows
      /\ Workers \subseteq Tasks /\ Callers \subseteq Tasks
      /\ \A t \in Tasks : TaskOK(t)
  BY DEF NotificationTypeInv, NotificationTypeOK, Tasks
<1>1. ASSUME UNCHANGED <<rowVars, streamVars>> PROVE StreamInv'
  BY <1>1, QuietStream DEF rowVars, streamVars
<1>2. ASSUME LoseMemory, UNCHANGED rowVars PROVE StreamInv'
  BY <1>2, QuietStream DEF rowVars, LoseMemory
<1>3. ASSUME NEW w \in Workers, TakeJob(w) \/ MarkProcessed(w) \/ StopWorker(w) PROVE StreamInv'
  BY <1>1, <1>3 DEF TakeJob, MarkProcessed, StopWorker
<1>4. ASSUME NEW t \in Tasks, Deliver(t) PROVE StreamInv'
  <2>1. ASSUME NEW n \in Rows, CreateRow(t, n) PROVE StreamInv'
    BY <1>0, <2>1, QuietStream DEF CreateRow, InsertRow, streamVars
  <2>2. CASE SendMail(t)
    BY <1>1, <2>2 DEF SendMail
  <2>3. CASE UpdateStatus(t)
    <3>1. \A n \in Rows : row[n] = "deleted" => row'[n] = "deleted"
      BY <1>0, <2>3 DEF UpdateStatus, Exists
    <3> QED BY <2>3, <3>1, QuietStream DEF UpdateStatus, streamVars
  <2>4. CASE Broadcast(t)
    <3>1. PICK r \in Rows :
          /\ r = task[t].row
          /\ announced[r] = "nothing" /\ announced' = [announced EXCEPT ![r] = task[t].result]
          /\ stream' = stream /\ seen' = seen /\ row' = row /\ unrecorded' = unrecorded
      BY <1>0, <2>4 DEF Broadcast, TaskOK, At, CarryInv, Carrying
    <3>2. ASSUME NEW c \in Clients, stream[c] \in {"sending", "streaming"}
          PROVE  /\ Coming(c, r)' \/ r \in missed'[c]
                 /\ \A n \in Rows : Coming(c, n) => Coming(c, n)'
                 /\ missed[c] \subseteq missed'[c]
      <4>1. CASE HasSpace(c)
        <5>1. feed'[c] = Append(feed[c], r) /\ missed'[c] = missed[c]
          BY <2>4, <3>1, <3>2, <4>1 DEF Broadcast, Subscribed
        <5> QED BY <1>0, <3>1, <5>1, InAppend DEF Coming
      <4>2. CASE ~HasSpace(c)
        <5>1. feed'[c] = feed[c] /\ missed'[c] = missed[c] \union {r}
          BY <2>4, <3>1, <3>2, <4>2 DEF Broadcast, Subscribed
        <5> QED BY <5>1 DEF Coming
      <4> QED BY <4>1, <4>2
    <3>3. ASSUME NEW c \in Clients, NEW n \in Rows,
                 stream[c] \in {"sending", "streaming"}, announced'[n] # "nothing"
          PROVE  \/ seen[c][n] = announced'[n] \/ Coming(c, n)'
                 \/ n \in missed'[c] \union unrecorded \/ row[n] = "deleted"
      <4> HIDE DEF Coming
      <4>1. CASE n = r
        BY <3>2, <3>3, <4>1
      <4>2. CASE n # r
        BY <1>0, <3>1, <3>2, <3>3, <4>2 DEF StreamInv
      <4> QED BY <4>1, <4>2
    <3> HIDE DEF Coming
    <3> QED BY <3>1, <3>3 DEF StreamInv
  <2> QED BY <1>4, <2>1, <2>2, <2>3, <2>4 DEF Deliver
<1>5. ASSUME NEW c \in Callers, NEW typ \in SendTypes, BeginSend(c, typ) PROVE StreamInv'
  BY <1>1, <1>5 DEF BeginSend
<1>6. ASSUME NEW n \in Rows, DeleteNotification(n) PROVE StreamInv'
  BY <1>0, <1>6, QuietStream DEF DeleteNotification, streamVars
<1>7. ASSUME NEW c \in Clients, OpenStream(c) PROVE StreamInv'
  BY <1>0, <1>7, QuietStream DEF OpenStream, rowVars
<1>8. ASSUME NEW c \in Clients, ReadHistory(c) PROVE StreamInv'
  <2>1. PICK page \in SUBSET Rows :
          /\ seen' = [seen EXCEPT ![c] = [n \in Rows |-> IF n \in page THEN row[n] ELSE "nothing"]]
          /\ missed' = [missed EXCEPT ![c] = @ \union ToldBeside(c, page)]
          /\ \A n \in page : Exists(n)
    BY <1>8 DEF ReadHistory, Pages
  <2>2. ASSUME NEW n \in Rows, announced[n] # "nothing"
        PROVE  seen'[c][n] = announced[n] \/ Coming(c, n) \/ n \in missed'[c] \union unrecorded
    <3>1. Tells(n, announced[n])
      BY <2>2 DEF CarryInv
    <3>2. CASE n \in page
      BY <1>0, <2>1, <3>1, <3>2 DEF Tells, Exists
    <3>3. CASE n \notin page
      <4>1. n \in ToldBeside(c, page) \/ Coming(c, n)
        BY <2>2, <3>3 DEF ToldBeside
      <4> QED BY <1>0, <2>1, <4>1
    <3> QED BY <3>2, <3>3
  <2>3. \A d \in Clients : d # c =>
          stream'[d] = stream[d] /\ seen'[d] = seen[d] /\ missed'[d] = missed[d]
    BY <1>0, <1>8, <2>1 DEF ReadHistory
  <2>4. feed' = feed /\ UNCHANGED rowVars
    BY <1>8 DEF ReadHistory
  <2> QED BY <2>2, <2>3, <2>4 DEF StreamInv, Coming, rowVars
<1>9. ASSUME NEW c \in Clients, SendSnapshot(c) PROVE StreamInv'
  BY <1>0, <1>9, QuietStream DEF SendSnapshot, rowVars
<1>10. ASSUME NEW c \in Clients, ReceiveNew(c) PROVE StreamInv'
  <2>1. PICK h \in Rows :
        /\ h = Head(feed[c]) /\ feed[c] \in Seq(Rows) /\ feed[c] # <<>> /\ feed'[c] = Tail(feed[c])
        /\ seen'[c] = [seen[c] EXCEPT ![h] = announced[h]]
        /\ \A d \in Clients : d # c => feed'[d] = feed[d] /\ seen'[d] = seen[d]
        /\ stream' = stream /\ missed' = missed /\ UNCHANGED rowVars
    <3>1. Head(feed[c]) \in Rows /\ feed[c] \in Seq(Rows) /\ feed[c] # <<>>
      BY <1>0, <1>10 DEF ReceiveNew
    <3> QED BY <1>0, <1>10, <3>1 DEF ReceiveNew
  <2>2. \A n \in Rows : n # h => (Coming(c, n) => Coming(c, n)') /\ seen'[c][n] = seen[c][n]
    BY <1>0, <2>1, InTail DEF Coming
  <2>3. seen'[c][h] = announced[h]
    BY <1>0, <2>1
  <2>4. \A d \in Clients, n \in Rows : d # c => (Coming(d, n) => Coming(d, n)')
    BY <2>1 DEF Coming
  <2> HIDE DEF Coming
  <2>5. ASSUME NEW d \in Clients, NEW n \in Rows,
               stream[d] \in {"sending", "streaming"}, announced[n] # "nothing"
        PROVE  \/ seen'[d][n] = announced[n] \/ Coming(d, n)'
               \/ n \in missed[d] \union unrecorded \/ row[n] = "deleted"
    <3>1. \/ seen[d][n] = announced[n] \/ Coming(d, n)
          \/ n \in missed[d] \union unrecorded \/ row[n] = "deleted"
      BY <2>5 DEF StreamInv
    <3>2. CASE d # c
      BY <2>1, <2>4, <3>1, <3>2
    <3>3. CASE d = c /\ n # h
      BY <2>2, <3>1, <3>3
    <3>4. CASE d = c /\ n = h
      BY <2>3, <3>4
    <3> QED BY <3>2, <3>3, <3>4
  <2> QED BY <2>1, <2>5 DEF StreamInv, rowVars
<1>11. ASSUME NEW c \in Clients, CloseStream(c) PROVE StreamInv'
  BY <1>0, <1>11, QuietStream DEF CloseStream, rowVars
<1>12. CASE BeginShutdown \/ WorkersDone \/ Exit
  BY <1>1, <1>2, <1>12 DEF BeginShutdown, WorkersDone, Exit
<1>13. CASE Fault
  <2>1. ASSUME NEW e \in Events, ForgetEvent(e) PROVE StreamInv'
    BY <1>1, <2>1 DEF ForgetEvent
  <2>2. ASSUME NEW w \in Workers, MarkFails(w) PROVE StreamInv'
    BY <1>1, <2>2 DEF MarkFails
  <2>3. ASSUME NEW t \in Tasks, CreateFails(t) PROVE StreamInv'
    <3>1. \A n \in Rows : row[n] = "deleted" => row'[n] = "deleted"
      BY <1>0, <2>3 DEF CreateFails, InsertRow
    <3> QED BY <2>3, <3>1, QuietStream DEF CreateFails, streamVars
  <2>4. ASSUME NEW t \in Tasks, MailFails(t) PROVE StreamInv'
    BY <1>1, <2>4 DEF MailFails
  <2>5. ASSUME NEW t \in Tasks, UpdateFails(t) PROVE StreamInv'
    BY <2>5, QuietStream DEF UpdateFails, streamVars
  <2>6. ASSUME NEW c \in Clients, HistoryFails(c) PROVE StreamInv'
    <3>1. /\ UNCHANGED <<feed, seen, rowVars>>
          /\ missed'[c] = missed[c] \union ToldBeside(c, {})
          /\ \A d \in Clients : d # c => stream'[d] = stream[d] /\ missed'[d] = missed[d]
      BY <1>0, <2>6 DEF HistoryFails
    <3>2. \A n \in Rows : announced[n] # "nothing" => Coming(c, n) \/ n \in missed'[c]
      BY <3>1 DEF ToldBeside
    <3> QED BY <3>1, <3>2 DEF StreamInv, Coming, rowVars
  <2>7. CASE Crash
    BY <1>2, <2>7 DEF Crash
  <2> QED BY <1>13, <2>1, <2>2, <2>3, <2>4, <2>5, <2>6, <2>7 DEF Fault
<1>14. ASSUME NEW e \in Events, Arrive(e) \/ Enqueue(e) PROVE StreamInv'
  BY <1>1, <1>2, <1>14 DEF Arrive, Enqueue
<1>15. CASE UNCHANGED notificationVars
  BY <1>1, <1>15 DEF notificationVars
<1> QED
  BY <1>0, <1>3, <1>4, <1>5, <1>6, <1>7, <1>8, <1>9, <1>10, <1>11, <1>12, <1>13, <1>14, <1>15
  DEF NotificationNext, WorkerStep

\* Subscribe comes before the history is read: no notification falls between
\* the two, however broadcasts, snapshot, deletions and faults interleave.
THEOREM StreamCompleteHolds == NotificationSpec => []StreamComplete
<1>1. NotificationInit => CarryInv /\ StreamInv
  BY DEF NotificationInit, CarryInv, StreamInv, Carrying, Idle
<1>2. StreamInv => StreamComplete
  BY DEF StreamInv, StreamComplete, Coming
<1> QED
  BY <1>1, <1>2, NotificationTypes, NextCarry, NextStream, PTL DEF NotificationSpec
=============================================================================
