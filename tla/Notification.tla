----------------------------- MODULE Notification -----------------------------
(***************************************************************************)
(* notification-service: from a message of NATS through the job queue, the *)
(* workers, deduplication and SMTP to the stored notification and the      *)
(* streams that watch it; the sends of the HTTP and gRPC interfaces, which *)
(* share createAndDeliver with the workers; and the shutdown.              *)
(*                                                                         *)
(* All notifications are those of one user: a row or a stream of another   *)
(* user has nothing to do with them.  A row's text is left out.            *)
(***************************************************************************)
EXTENDS NotificationEvents, Naturals, Sequences, FiniteSets

CONSTANTS
    Workers,     \* the goroutines of the pool
    Callers,     \* the requests of the HTTP and gRPC interfaces
    SendTypes,   \* the types of notification that requests ask for
    Clients,     \* those who call StreamNotifications
    Events, SubjectOf,
    Rows,        \* the ids of notifications
    NoEvent, NoRow,
    QueueCap,    \* capacity of the jobs channel, numWorkers*64 in the code
    StreamCap,   \* capacity of a subscriber's channel, 32 in the code
    PageSize,    \* rows of the history that a stream asks for, 50 in the code
    MaxCopies,   \* bound: how often one event is delivered
    MaxFaults    \* bound on the faults of a behaviour

ASSUME NotificationAssumption ==
    /\ Workers # {} /\ Workers \intersect Callers = {}
    /\ NoEvent \notin Events
    /\ NoRow \notin Rows
    /\ SubjectOf \in [Events -> Subjects \ {"auth.password_reset"}]
    /\ QueueCap \in Nat \ {0} /\ StreamCap \in Nat \ {0}
    /\ PageSize \in Nat \ {0}
    /\ MaxCopies \in Nat /\ MaxFaults \in Nat

VARIABLES
    stage,      \* of the process
    copies,     \* how often NATS has delivered each event
    inbox,      \* the copies whose subscription callback is still to run
    jobs,       \* the jobs channel
    processed,  \* the events whose key notification:event: is in Redis
    task,       \* what each worker and each request is doing
    row,        \* status column of each notification, "absent" before its INSERT
    announced,  \* what Broadcast has said of each row
    stream,     \* where each client's StreamNotifications is
    feed,       \* the channel of each client in the hub
    seen,       \* history: the last status each client was sent of each row
    missed,     \* history: the rows whose broadcast a full channel lost, or
                \* that were announced before and are not on the page
    mails,      \* history: the mails that SMTP accepted for each event
    forgotten,  \* history: the events whose key has left Redis
    unrecorded, \* history: the rows whose UpdateStatus has failed
    faults      \* how many faults have struck

queueVars == <<copies, inbox, jobs>>
streamVars == <<stream, feed, seen, missed>>
rowVars == <<row, announced, unrecorded>>
notificationVars ==
    <<stage, queueVars, processed, task, rowVars, streamVars, mails, forgotten, faults>>

-----------------------------------------------------------------------------
Tasks == Workers \union Callers
Stages == {"up", "draining", "stopping", "stopped", "panicked"}
Places ==
    {"idle", "gone",
     "marking",     \* MarkEventProcessed
     "creating",    \* the INSERT of Create
     "mailing",     \* sendSMTP
     "recording",   \* the UPDATE of UpdateStatus
     "announcing"}  \* Broadcast

\* typ is TypeEmail; result is what createAndDeliver is about to record.
Idle == [pc |-> "idle", event |-> NoEvent, email |-> FALSE, row |-> NoRow, result |-> "sent"]
Gone == [pc |-> "gone", event |-> NoEvent, email |-> FALSE, row |-> NoRow, result |-> "sent"]

TaskRecords ==
    [pc : Places, event : Events \union {NoEvent}, email : BOOLEAN,
     row : Rows \union {NoRow}, result : {"sent", "failed"}]

NotificationTypeOK ==
    /\ stage \in Stages
    /\ copies \in [Events -> Nat] /\ inbox \in [Events -> Nat]
    /\ jobs \in Seq(Events)
    /\ processed \subseteq Events
    /\ task \in [Tasks -> TaskRecords]
    /\ row \in [Rows -> {"absent", "pending", "sent", "failed", "deleted"}]
    /\ announced \in [Rows -> {"nothing", "sent", "failed"}]
    /\ stream \in [Clients -> {"off", "reading", "sending", "streaming"}]
    /\ feed \in [Clients -> Seq(Rows)]
    /\ seen \in [Clients -> [Rows -> {"nothing", "pending", "sent", "failed"}]]
    /\ missed \in [Clients -> SUBSET Rows]
    /\ mails \in [Events -> Nat]
    /\ forgotten \subseteq Events /\ unrecorded \subseteq Rows
    /\ faults \in Nat

NotificationInit ==
    /\ stage = "up"
    /\ copies = [e \in Events |-> 0] /\ inbox = [e \in Events |-> 0]
    /\ processed = {}
    /\ row = [n \in Rows |-> "absent"]
    /\ announced = [n \in Rows |-> "nothing"]
    /\ jobs = <<>>
    /\ task = [t \in Tasks |-> Idle]
    /\ stream = [c \in Clients |-> "off"]
    /\ feed = [c \in Clients |-> <<>>]
    /\ seen = [c \in Clients |-> [n \in Rows |-> "nothing"]]
    /\ missed = [c \in Clients |-> {}]
    /\ mails = [e \in Events |-> 0]
    /\ forgotten = {} /\ unrecorded = {}
    /\ faults = 0

\* The process ends, and with it its memory.
LoseMemory ==
    /\ jobs' = <<>>
    /\ task' = [t \in Tasks |-> Idle]
    /\ stream' = [c \in Clients |-> "off"]
    /\ feed' = [c \in Clients |-> <<>>]
    /\ seen' = [c \in Clients |-> [n \in Rows |-> "nothing"]]
    /\ missed' = [c \in Clients |-> {}]

At(t, pc) == task[t].pc = pc
Goto(t, pc) == task' = [task EXCEPT ![t].pc = pc]
Finish(t) == task' = [task EXCEPT ![t] = Idle]
Serving == stage \in {"up", "draining"}   \* the HTTP and gRPC servers are up

-----------------------------------------------------------------------------
(* NATS and the queue.                                                     *)

\* A service publishes an event, or NATS delivers it once more.
Arrive(e) ==
    /\ stage = "up" /\ copies[e] < MaxCopies
    /\ copies' = [copies EXCEPT ![e] = @ + 1]
    /\ inbox' = [inbox EXCEPT ![e] = @ + 1]
    /\ UNCHANGED <<stage, jobs, processed, task, rowVars, streamVars, mails, forgotten, faults>>

HasRoom == Len(jobs) < QueueCap

\* The callback of the subscription.  The select drops the event when the
\* channel is full, but a send on a closed channel panics even in a select:
\* Drain only asks for the callbacks to end, and Shutdown does not wait.
Enqueue(e) ==
    /\ inbox[e] > 0 /\ stage \in {"up", "draining", "stopping"}
    /\ inbox' = [inbox EXCEPT ![e] = @ - 1]
    /\ IF stage = "up"
         THEN /\ jobs' = IF HasRoom THEN Append(jobs, e) ELSE jobs
              /\ UNCHANGED <<stage, task, streamVars>>
         ELSE /\ stage' = "panicked"
              /\ LoseMemory
    /\ UNCHANGED <<copies, processed, rowVars, mails, forgotten, faults>>

-----------------------------------------------------------------------------
(* The workers.                                                            *)

TakeJob(w) ==
    /\ task[w] = Idle /\ jobs # <<>>
    /\ jobs' = Tail(jobs)
    /\ task' = [task EXCEPT ![w] = [pc |-> "marking", event |-> Head(jobs), email |-> TRUE,
                                     row |-> NoRow, result |-> "sent"]]
    /\ UNCHANGED <<stage, copies, inbox, processed, rowVars, streamVars, mails, forgotten, faults>>

\* Faulty variant: a worker that looks at a done channel first.
ChannelEndsAtOnce == TRUE

\* Faulty variant: a loop that receives without asking whether it is closed.
ChannelEndsNever == FALSE

\* The channel ends when it is closed and empty.
ChannelEnds == jobs = <<>>

StopWorker(w) ==
    /\ task[w] = Idle /\ stage = "draining" /\ ChannelEnds
    /\ task' = [task EXCEPT ![w] = Gone]
    /\ UNCHANGED <<stage, queueVars, processed, rowVars, streamVars, mails, forgotten, faults>>

\* Faulty variant: the reply of SETNX is not looked at.
FirstTimeAlways(e) == TRUE

FirstTime(e) == e \notin processed

\* MarkEventProcessed, then the handler of the subject: it decodes the event
\* and goes on to createAndDeliver.
MarkProcessed(w) ==
    /\ At(w, "marking")
    /\ LET e == task[w].event IN
         /\ processed' = processed \union {e}
         /\ IF FirstTime(e) /\ Understood(SubjectOf[e]) THEN Goto(w, "creating") ELSE Finish(w)
    /\ UNCHANGED <<stage, queueVars, rowVars, streamVars, mails, forgotten, faults>>

-----------------------------------------------------------------------------
(* The requests.                                                           *)

\* Bound: an id is left for every creation under way and every event to come.
RowsLeft ==
    Cardinality({n \in Rows : row[n] = "absent"})
        > Cardinality({t \in Tasks : At(t, "creating")} \union (Events \ processed))

\* SendEmail, one recipient of SendBulkEmail, SendSMS, SendPush.  SendEmail
\* takes the type from the request: any but "email" is stored, recorded as
\* sent and not mailed.
BeginSend(c, typ) ==
    /\ task[c] = Idle /\ Serving /\ RowsLeft
    /\ task' = [task EXCEPT ![c] = [pc |-> "creating", event |-> NoEvent, email |-> typ = "email",
                                     row |-> NoRow, result |-> "sent"]]
    /\ UNCHANGED <<stage, queueVars, processed, rowVars, streamVars, mails, forgotten, faults>>

Exists(n) == row[n] \in {"pending", "sent", "failed"}

DeleteNotification(n) ==
    /\ Serving /\ Exists(n)
    /\ row' = [row EXCEPT ![n] = "deleted"]
    /\ UNCHANGED <<stage, queueVars, processed, task, announced, unrecorded, streamVars,
                   mails, forgotten, faults>>

-----------------------------------------------------------------------------
(* createAndDeliver.                                                       *)

InsertRow(n) ==
    /\ row[n] = "absent"
    /\ row' = [row EXCEPT ![n] = "pending"]

CreateRow(t, n) ==
    /\ At(t, "creating")
    /\ InsertRow(n)
    /\ task' = [task EXCEPT ![t] = [pc |-> IF task[t].email THEN "mailing" ELSE "recording",
                                     event |-> task[t].event, email |-> task[t].email,
                                     row |-> n, result |-> "sent"]]
    /\ UNCHANGED <<stage, queueVars, processed, announced, unrecorded, streamVars,
                   mails, forgotten, faults>>

Mailed(t) ==
    mails' = IF task[t].event = NoEvent THEN mails ELSE [mails EXCEPT ![task[t].event] = @ + 1]

SendMail(t) ==
    /\ At(t, "mailing")
    /\ Mailed(t)
    /\ Goto(t, "recording")
    /\ UNCHANGED <<stage, queueVars, processed, rowVars, streamVars, forgotten, faults>>

\* Faulty variant: a status the frontend does not know.
RecordedMisspelt(t) == "delivered"

Recorded(t) == task[t].result

\* A row that has been deleted meanwhile is not updated, which is no error.
UpdateStatus(t) ==
    /\ At(t, "recording")
    /\ row' = IF Exists(task[t].row) THEN [row EXCEPT ![task[t].row] = Recorded(t)] ELSE row
    /\ Goto(t, "announcing")
    /\ UNCHANGED <<stage, queueVars, processed, announced, unrecorded, streamVars,
                   mails, forgotten, faults>>

\* Faulty variant: the stream subscribes when it has sent the history.
SubscribedLate(c) == stream[c] = "streaming"

Subscribed(c) == stream[c] # "off"

HasSpace(c) == Len(feed[c]) < StreamCap

Broadcast(t) ==
    /\ At(t, "announcing")
    /\ LET n == task[t].row IN
         /\ announced' = [announced EXCEPT ![n] = task[t].result]
         /\ feed' = [c \in Clients |->
                       IF Subscribed(c) /\ HasSpace(c) THEN Append(feed[c], n) ELSE feed[c]]
         /\ missed' = [c \in Clients |->
                       IF Subscribed(c) /\ ~HasSpace(c) THEN missed[c] \union {n} ELSE missed[c]]
    /\ Finish(t)
    /\ UNCHANGED <<stage, queueVars, processed, row, unrecorded, stream, seen,
                   mails, forgotten, faults>>

-----------------------------------------------------------------------------
(* StreamNotifications.                                                    *)

OpenStream(c) ==
    /\ stream[c] = "off" /\ Serving
    /\ stream' = [stream EXCEPT ![c] = "reading"]
    /\ UNCHANGED <<stage, queueVars, processed, task, rowVars, feed, seen, missed,
                   mails, forgotten, faults>>

\* ORDER BY created_at DESC LIMIT: every row, or as many as a page holds.
\* Rows created at once are in no order; here any may be the newest.
Pages ==
    LET history == {n \in Rows : Exists(n)} IN
    {page \in SUBSET history :
        \/ page = history /\ Cardinality(page) <= PageSize
        \/ Cardinality(page) = PageSize}

\* The channel of the stream has it.
Coming(c, n) == \E i \in 1..Len(feed[c]) : feed[c][i] = n

\* The rows announced before the client asked that are not among rows: only
\* the history could still bring them to it.
ToldBeside(c, rows) == {n \in Rows \ rows : announced[n] # "nothing" /\ ~Coming(c, n)}

\* The first page of the history.
ReadHistory(c) ==
    /\ stream[c] = "reading"
    /\ stream' = [stream EXCEPT ![c] = "sending"]
    /\ \E page \in Pages :
         /\ seen' = [seen EXCEPT ![c] = [n \in Rows |-> IF n \in page THEN row[n] ELSE "nothing"]]
         /\ missed' = [missed EXCEPT ![c] = @ \union ToldBeside(c, page)]
    /\ UNCHANGED <<stage, queueVars, processed, task, rowVars, feed, mails, forgotten, faults>>

\* The snapshot has been sent, row by row.
SendSnapshot(c) ==
    /\ stream[c] = "sending"
    /\ stream' = [stream EXCEPT ![c] = "streaming"]
    /\ UNCHANGED <<stage, queueVars, processed, task, rowVars, feed, seen, missed,
                   mails, forgotten, faults>>

ReceiveNew(c) ==
    /\ stream[c] = "streaming" /\ feed[c] # <<>>
    /\ LET n == Head(feed[c]) IN seen' = [seen EXCEPT ![c][n] = announced[n]]
    /\ feed' = [feed EXCEPT ![c] = Tail(@)]
    /\ UNCHANGED <<stage, queueVars, processed, task, rowVars, stream, missed,
                   mails, forgotten, faults>>

\* The client goes away; Unsubscribe drops its channel.
CloseStream(c) ==
    /\ stream[c] # "off"
    /\ stream' = [stream EXCEPT ![c] = "off"]
    /\ feed' = [feed EXCEPT ![c] = <<>>]
    /\ seen' = [seen EXCEPT ![c] = [n \in Rows |-> "nothing"]]
    /\ missed' = [missed EXCEPT ![c] = {}]
    /\ UNCHANGED <<stage, queueVars, processed, task, rowVars, mails, forgotten, faults>>

-----------------------------------------------------------------------------
(* Shutdown.                                                               *)

\* Drain returns at once, and the jobs channel is closed.
BeginShutdown ==
    /\ stage = "up"
    /\ stage' = "draining"
    /\ UNCHANGED <<queueVars, processed, task, rowVars, streamVars, mails, forgotten, faults>>

\* workersDone.Wait; then the HTTP servers stop and GracefulStop begins.
WorkersDone ==
    /\ stage = "draining" /\ \A w \in Workers : At(w, "gone")
    /\ stage' = "stopping"
    /\ UNCHANGED <<queueVars, processed, task, rowVars, streamVars, mails, forgotten, faults>>

\* GracefulStop waits for the last stream, without limit.
Exit ==
    /\ stage = "stopping" /\ \A c \in Clients : stream[c] = "off"
    /\ stage' = "stopped"
    /\ LoseMemory
    /\ UNCHANGED <<copies, inbox, processed, rowVars, mails, forgotten, faults>>

-----------------------------------------------------------------------------
(* Faults.                                                                 *)

Strike == faults < MaxFaults /\ faults' = faults + 1

\* The key expires after 24 hours, or Redis loses it.
ForgetEvent(e) ==
    /\ Strike /\ e \in processed /\ RowsLeft
    /\ processed' = processed \ {e}
    /\ forgotten' = forgotten \union {e}
    /\ UNCHANGED <<stage, queueVars, task, rowVars, streamVars, mails>>

\* SETNX fails, with or without effect: the event is not handled.
MarkFails(w) ==
    /\ Strike /\ At(w, "marking")
    /\ processed' \in {processed, processed \union {task[w].event}}
    /\ Finish(w)
    /\ UNCHANGED <<stage, queueVars, rowVars, streamVars, mails, forgotten>>

\* The INSERT fails, or is done and its reply is lost.
CreateFails(t) ==
    /\ Strike /\ At(t, "creating")
    /\ (\E n \in Rows : InsertRow(n)) \/ UNCHANGED row
    /\ Finish(t)
    /\ UNCHANGED <<stage, queueVars, processed, announced, unrecorded, streamVars,
                   mails, forgotten>>

\* SendMail returns an error, perhaps after the server has taken the mail.
MailFails(t) ==
    /\ Strike /\ At(t, "mailing")
    /\ Mailed(t) \/ UNCHANGED mails
    /\ task' = [task EXCEPT ![t] = [pc |-> "recording", event |-> task[t].event, email |-> TRUE,
                                     row |-> task[t].row, result |-> "failed"]]
    /\ UNCHANGED <<stage, queueVars, processed, rowVars, streamVars, forgotten>>

\* The UPDATE fails, which is ignored.
UpdateFails(t) ==
    /\ Strike /\ At(t, "recording")
    /\ unrecorded' = unrecorded \union {task[t].row}
    /\ Goto(t, "announcing")
    /\ UNCHANGED <<stage, queueVars, processed, row, announced, streamVars,
                   mails, forgotten>>

\* The stream goes on without its snapshot.
HistoryFails(c) ==
    /\ Strike /\ stream[c] = "reading"
    /\ stream' = [stream EXCEPT ![c] = "streaming"]
    /\ missed' = [missed EXCEPT ![c] = @ \union ToldBeside(c, {})]
    /\ UNCHANGED <<stage, queueVars, processed, task, rowVars, feed, seen, mails, forgotten>>

\* The process dies and restarts.
Crash ==
    /\ Strike /\ stage = "up"
    /\ LoseMemory
    /\ UNCHANGED <<stage, copies, inbox, processed, rowVars, mails, forgotten>>

Fault ==
    \/ \E e \in Events : ForgetEvent(e)
    \/ \E w \in Workers : MarkFails(w)
    \/ \E t \in Tasks : CreateFails(t) \/ MailFails(t) \/ UpdateFails(t)
    \/ \E c \in Clients : HistoryFails(c)
    \/ Crash

-----------------------------------------------------------------------------
Deliver(t) ==
    \/ \E n \in Rows : CreateRow(t, n)
    \/ SendMail(t) \/ UpdateStatus(t) \/ Broadcast(t)

WorkerStep(w) == TakeJob(w) \/ MarkProcessed(w) \/ Deliver(w) \/ StopWorker(w)

NotificationNext ==
    \/ \E e \in Events : Arrive(e) \/ Enqueue(e)
    \/ \E w \in Workers : WorkerStep(w)
    \/ \E c \in Callers : Deliver(c) \/ \E typ \in SendTypes : BeginSend(c, typ)
    \/ \E n \in Rows : DeleteNotification(n)
    \/ \E c \in Clients : OpenStream(c) \/ ReadHistory(c) \/ SendSnapshot(c)
                            \/ ReceiveNew(c) \/ CloseStream(c)
    \/ BeginShutdown \/ WorkersDone \/ Exit
    \/ Fault

NotificationSpec == NotificationInit /\ [][NotificationNext]_notificationVars

\* Callbacks, workers and Shutdown are scheduled, and SMTP answers.  Nobody
\* has to send, to stream, to hang up or to ask for a shutdown.
NotificationFairness ==
    /\ \A e \in Events : WF_notificationVars(Enqueue(e))
    /\ \A w \in Workers : WF_notificationVars(WorkerStep(w))
    /\ WF_notificationVars(WorkersDone)

FairNotificationSpec == NotificationSpec /\ NotificationFairness

-----------------------------------------------------------------------------
(* Properties.                                                             *)

\* However often NATS delivers an event, and whichever workers get the
\* copies, it is mailed once - as long as Redis remembers it.
MailedOnce == \A e \in Events \ forgotten : mails[e] <= 1

\* Between the history it reads and the channel it listens to, a stream
\* loses nothing: of every notification that was announced its client has
\* seen the status announced, or has it coming, unless the channel was full,
\* the status never reached the database, the row is deleted, or it was
\* announced before the client asked and is beyond the first page (or the
\* page could not be read).
StreamComplete ==
    \A c \in Clients, n \in Rows :
        stream[c] = "streaming" /\ announced[n] # "nothing" =>
            \/ seen[c][n] = announced[n]
            \/ Coming(c, n)
            \/ n \in missed[c] \union unrecorded
            \/ row[n] = "deleted"

\* An event in the queue whose payload the handler understands is mailed,
\* Shutdown or not: without a fault only the panic of a callback that comes
\* too late loses it.
QueuedIsMailed ==
    \A e \in Events :
        (\E i \in 1..Len(jobs) : jobs[i] = e) /\ Understood(SubjectOf[e])
            ~> mails[e] > 0 \/ faults > 0 \/ stage = "panicked"

\* A shutdown loses nothing that was accepted: once it is past its wait for
\* the workers, the queue is empty and no event is between its key in Redis
\* and its broadcast - however the closing of the channel interleaves with
\* callbacks, workers and faults.
ShutdownDrains ==
    stage = "stopping" => jobs = <<>> /\ \A w \in Workers : task[w].event = NoEvent

\* What the README promises of every event: it is mailed.
EventsMailed ==
    \A e \in Events :
        (\E i \in 1..Len(jobs) : jobs[i] = e)
            ~> mails[e] > 0 \/ faults > 0 \/ stage = "panicked"

\* Shutdown gets past its wait for the workers.
WorkersStop == stage = "draining" ~> stage # "draining"
=============================================================================
