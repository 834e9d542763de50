------------------------ MODULE NotificationDelivery -------------------------
(***************************************************************************)
(* Notifications: apps/api/src/modules/notifications.  dispatch writes a   *)
(* notification and its deliveries and queues a job for each; the workers  *)
(* of the channels call the provider and record the result; the providers  *)
(* report by callbacks; an administrator has a dead letter sent again.     *)
(*                                                                         *)
(* A step is one statement, one call of a provider or one operation of     *)
(* BullMQ.  Whom to notify, preferences, templates, quiet hours, the feed  *)
(* and the retention of dead letters are left out; 'delivered' as the      *)
(* answer of a provider is 'sent'.                                         *)
(***************************************************************************)
EXTENDS RowLocks, Naturals, FiniteSets

CONSTANTS
  Requests,             \* calls of dispatch; the id of the notification they insert
  Keys,                 \* idempotency keys
  Channels, QueueOf,    \* devices and addresses to send to; the queue of each
  Workers, Callbacks,   \* the connections: workers, and callbacks of providers
  Serves,               \* the queue a worker takes its jobs from
  MaxAttempts,          \* attempts of a job
  MaxFaults,            \* bound: failures and stops of workers, lost answers
  NoKey, NoRequest, NoDelivery

\* The devices of a recipient are channels of one queue.
Deliveries == Requests \X Channels

ASSUME NotificationConstants ==
  /\ Conns = Workers \cup Callbacks /\ Workers \cap Callbacks = {}
  /\ NoKey \notin Keys /\ NoRequest \notin Requests /\ NoDelivery \notin Deliveries
  /\ MaxAttempts \in Nat \ {0} /\ MaxFaults \in Nat /\ IsFiniteSet(Channels)

VARIABLES
  request,          \* calls of dispatch, by itself or to send a dead letter again
  note, delivery,   \* notifications and notification_deliveries: their status
  letters, stamped, \* notification_dead_letters of a delivery; those with retried_at
  unsent, job,      \* jobs still to be added, and jobs at BullMQ
  work,             \* per connection: the delivery and how far it is with it
  copies,           \* of a delivery, the copies its provider has accepted
  faults, missed    \* of a delivery: what went wrong; jobs lost, or taken too early

vars == <<request, note, delivery, letters, stamped, unsent, job, work, copies, faults, missed>>

-----------------------------------------------------------------------------
NoteStatuses == {"none", "dispatched", "cancelled", "partially_failed", "failed", "delivered"}
Settled == {"sent", "delivered", "bounced", "suppressed", "dead_lettered"}
Statuses == {"none", "queued", "failed"} \cup Settled

\* `as` are the rows of its deliveries, until it commits.
RequestSteps == {"idle", "insert", "compile", "commit", "stamp", "answered", "failed"}
RequestRows == [pc : RequestSteps, key : Keys \cup {NoKey}, of : Deliveries \cup {NoDelivery},
                as : [Channels -> {"none", "queued", "suppressed"}],
                answer : Requests \cup {NoRequest}]
NotCalled == [pc |-> "idle", key |-> NoKey, of |-> NoDelivery,
              as |-> [ch \in Channels |-> "none"], answer |-> NoRequest]

Jobs == [state : {"none", "waiting", "active", "done", "failed"}, made : Nat, stalls : Nat]
NoJob == [state |-> "none", made |-> 0, stalls |-> 0]

Steps == {"idle", "send", "record", "report", "read", "settle", "commit", "ack", "done"}
Results == {"sent", "failed", "permanent", "delivered", "bounced"}
Works == [pc : Steps, on : Deliveries \cup {NoDelivery}, result : Results, to : NoteStatuses]
Idle == [pc |-> "idle", on |-> NoDelivery, result |-> "sent", to |-> "none"]

TypeOK ==
  /\ request \in [Requests -> RequestRows]
  /\ note \in Tables(Requests, NoteStatuses) /\ delivery \in Tables(Deliveries, Statuses)
  /\ letters \in [Deliveries -> Nat] /\ stamped \subseteq Deliveries
  /\ unsent \subseteq Deliveries /\ job \in [Deliveries -> Jobs] /\ work \in [Conns -> Works]
  /\ copies \in [Deliveries -> Nat] /\ faults \in [Deliveries -> Nat]
  /\ missed \subseteq Deliveries

Init ==
  /\ request = [r \in Requests |-> NotCalled]
  /\ note = Filled(Requests, "none") /\ delivery = Filled(Deliveries, "none")
  /\ letters = [d \in Deliveries |-> 0] /\ stamped = {}
  /\ unsent = {} /\ job = [d \in Deliveries |-> NoJob] /\ work = [c \in Conns |-> Idle]
  /\ copies = [d \in Deliveries |-> 0] /\ faults = [d \in Deliveries |-> 0] /\ missed = {}

-----------------------------------------------------------------------------
(***************************************************************************)
(* dispatch.                                                               *)
(***************************************************************************)
tracked == <<letters, job, work, copies, faults, missed>>

Serving(r, pc) == request[r].pc = pc
Turn(r, pc) == request' = [request EXCEPT ![r].pc = pc]
Exists(n) == note.row[n] # "none"
Same(r, n) == request[n].key = request[r].key /\ request[r].key # NoKey

\* The SELECT by the key.
BeginDispatch(r, key) ==
  LET found == {n \in Requests : Exists(n) /\ request[n].key = key} IN
  /\ Serving(r, "idle")
  /\ request' = [request EXCEPT ![r] =
       IF key = NoKey \/ found = {} THEN [NotCalled EXCEPT !.pc = "insert", !.key = key]
       ELSE [NotCalled EXCEPT !.pc = "answered", !.key = key, !.answer = CHOOSE n \in found : TRUE]]
  /\ UNCHANGED <<note, delivery, stamped, unsent, tracked>>

\* DeadLettersService.retry: dispatch under a key of its own.
retry(r, d) ==
  /\ Serving(r, "idle") /\ letters[d] > 0
  /\ request' = [request EXCEPT ![r] = [NotCalled EXCEPT !.pc = "insert", !.of = d]]
  /\ UNCHANGED <<note, delivery, stamped, unsent, tracked>>

\* The INSERT waits for a transaction that has inserted the key, and is refused once it has
\* committed.  The statement after it, by which the handler looks for that row, is refused
\* as well: its transaction is aborted.
\* Mutant: no unique index.
InsertAnyway(r) ==
  /\ Serving(r, "insert") /\ Turn(r, "compile")
  /\ UNCHANGED <<note, delivery, stamped, unsent, tracked>>

InsertNotification(r) ==
  LET others == {n \in Requests \ {r} : Same(r, n)} IN
  /\ Serving(r, "insert")
  /\ \A n \in others : request[n].pc \notin {"compile", "commit"}
  /\ Turn(r, IF \E n \in others : Exists(n) THEN "failed" ELSE "compile")
  /\ UNCHANGED <<note, delivery, stamped, unsent, tracked>>

\* The rows of the deliveries and the status of the notification; setImmediate for the jobs.
\* A dead letter goes out again to every device and recipient on its queue.
WriteDeliveries(r) ==
  LET d == request[r].of IN
  /\ Serving(r, "compile")
  /\ \E rows \in [Channels -> {"none", "queued", "suppressed"}] :
       /\ d # NoDelivery => \A ch \in Channels : rows[ch] # "none" => QueueOf[ch] = QueueOf[d[2]]
       /\ request' = [request EXCEPT ![r].pc = "commit", ![r].as = rows]
       /\ unsent' = unsent \cup {x \in Deliveries : x[1] = r /\ rows[x[2]] = "queued"}
  /\ UNCHANGED <<note, delivery, stamped, tracked>>

CommitDispatch(r) ==
  LET rows == request[r].as IN
  /\ Serving(r, "commit")
  /\ request' = [request EXCEPT ![r].pc = IF request[r].of = NoDelivery THEN "answered" ELSE "stamp",
                                ![r].answer = r]
  /\ note' = [note EXCEPT !.row = [@ EXCEPT ![r] =
       IF \E ch \in Channels : rows[ch] = "queued" THEN "dispatched" ELSE "cancelled"]]
  /\ delivery' = [delivery EXCEPT !.row =
       [x \in Deliveries |-> IF x[1] = r THEN rows[x[2]] ELSE delivery.row[x]]]
  /\ UNCHANGED <<stamped, unsent, tracked>>

Stamp(r) ==
  /\ Serving(r, "stamp") /\ Turn(r, "answered")
  /\ stamped' = stamped \cup {request[r].of}
  /\ UNCHANGED <<note, delivery, unsent, tracked>>

\* No recipient, a statement fails, or the process stops.
AbortDispatch(r) ==
  /\ request[r].pc \in {"insert", "compile", "commit", "stamp"} /\ Turn(r, "failed")
  /\ UNCHANGED <<note, delivery, stamped, unsent, tracked>>

\* After the handler has returned, and maybe before its COMMIT; lost with the process or
\* when Redis fails.
Enqueue(d) ==
  /\ d \in unsent /\ unsent' = unsent \ {d}
  /\ \/ job' = [job EXCEPT ![d].state = "waiting"] /\ UNCHANGED missed
     \/ missed' = missed \cup {d} /\ UNCHANGED job
  /\ UNCHANGED <<request, note, delivery, letters, stamped, work, copies, faults>>

-----------------------------------------------------------------------------
(***************************************************************************)
(* A worker has one job at a time: handle, recordChannelResult.            *)
(***************************************************************************)
calls == <<request, stamped, unsent>>

At(c, pc) == work[c].pc = pc
Goto(c, pc) == work' = [work EXCEPT ![c].pc = pc]
On(c) == work[c].on
NoteOf(c) == work[c].on[1]
Fault(d) ==
  /\ \A x \in Deliveries : faults[x] < MaxFaults
  /\ faults' = [faults EXCEPT ![d] = @ + 1]

\* No row yet: the worker is done with it.
Take(w, d) ==
  /\ At(w, "idle") /\ job[d].state = "waiting" /\ QueueOf[d[2]] = Serves[w]
  /\ IF Exists(d[1])
     THEN /\ job' = [job EXCEPT ![d].state = "active"] /\ UNCHANGED missed
          /\ work' = [work EXCEPT ![w] = [Idle EXCEPT !.pc = "send", !.on = d]]
     ELSE /\ job' = [job EXCEPT ![d].state = "done"] /\ missed' = missed \cup {d}
          /\ UNCHANGED work
  /\ UNCHANGED <<calls, note, delivery, letters, copies, faults>>

\* The provider accepts it, or accepts it and the answer is lost, or refuses it.
Answered(w, result) == work' = [work EXCEPT ![w].pc = "record", ![w].result = result]

Send(w) ==
  LET d == On(w) IN
  /\ At(w, "send")
  /\ \/ Answered(w, "sent") /\ copies' = [copies EXCEPT ![d] = @ + 1] /\ UNCHANGED faults
     \/ Answered(w, "failed") /\ copies' = [copies EXCEPT ![d] = @ + 1] /\ Fault(d)
     \/ /\ \E result \in {"failed", "permanent"} : Answered(w, result)
        /\ UNCHANGED <<copies, faults>>
  /\ UNCHANGED <<calls, note, delivery, letters, job, missed>>

LastAttempt(w) == job[On(w)].made + 1 >= MaxAttempts

\* Mutant: the last attempt is final whatever came of it.
lastIsFinal(w) ==
  CASE LastAttempt(w) \/ work[w].result = "permanent" -> "dead_lettered"
    [] work[w].result = "sent" -> "sent"
    [] OTHER -> "failed"

\* Mutant: a failure is a failure, the last one too.
failedIsFailed(w) ==
  CASE work[w].result = "sent" -> "sent"
    [] work[w].result = "permanent" -> "dead_lettered"
    [] OTHER -> "failed"

NextStatus(w) ==
  CASE work[w].result = "sent" -> "sent"
    [] work[w].result = "permanent" -> "dead_lettered"
    [] work[w].result = "failed" -> IF LastAttempt(w) THEN "dead_lettered" ELSE "failed"
    [] OTHER -> "failed"

\* UPDATE ... WHERE id.
Record(w) ==
  LET d == On(w) IN
  /\ At(w, "record") /\ Free(delivery, w, d)
  /\ delivery' = Written(delivery, w, d, NextStatus(w))
  /\ Goto(w, "read") /\ UNCHANGED <<calls, note, letters, job, copies, faults, missed>>

\* The status of a notification whose deliveries all have a result.
Rollup(statuses) ==
  LET success == statuses \cap {"sent", "delivered"} # {}
      failure == statuses \cap {"failed", "bounced", "dead_lettered"} # {}
  IN  CASE success /\ failure -> "partially_failed"
        [] success /\ ~failure -> "delivered"
        [] OTHER -> "failed"

\* Mutant: those still queued do not count.
SettleRest(c, statuses) ==
  work' = [work EXCEPT ![c].pc = "settle", ![c].to = Rollup(statuses \ {"queued"})]

SettleOn(c, statuses) ==
  work' = IF "queued" \notin statuses
          THEN [work EXCEPT ![c].pc = "settle", ![c].to = Rollup(statuses)]
          ELSE [work EXCEPT ![c].pc = "commit"]

\* maybeSettleParent: a SELECT, and an UPDATE by id.
RowsOf(n) == {d \in Deliveries : d[1] = n}

ReadDeliveries(w) ==
  /\ At(w, "read")
  /\ SettleOn(w, {Seen(delivery, w, d) : d \in RowsOf(NoteOf(w))} \ {"none"})
  /\ UNCHANGED <<calls, note, delivery, letters, job, copies, faults, missed>>

SettleNotification(w) ==
  /\ At(w, "settle") /\ Free(note, w, NoteOf(w))
  /\ note' = Written(note, w, NoteOf(w), work[w].to)
  /\ Goto(w, "commit") /\ UNCHANGED <<calls, delivery, letters, job, copies, faults, missed>>

\* With the dead letter.
CommitResult(w) ==
  LET d == On(w) IN
  /\ At(w, "commit")
  /\ note' = Committed(note, w) /\ delivery' = Committed(delivery, w)
  /\ letters' = IF NextStatus(w) = "dead_lettered" THEN [letters EXCEPT ![d] = @ + 1] ELSE letters
  /\ Goto(w, "ack") /\ UNCHANGED <<calls, job, copies, faults, missed>>

\* BullMQ: a job that throws waits for its next attempt, or has failed.
Attempted(d) ==
  job' = [job EXCEPT ![d].made = @ + 1,
                     ![d].state = IF job[d].made + 1 < MaxAttempts THEN "waiting" ELSE "failed"]

\* Mutant: every attempt but the last is retried.
RetryAlways(w) == ~LastAttempt(w)

\* Mutant: a failure is the end of the job.
RetryNever(w) == FALSE

ShouldRetry(w) == work[w].result = "failed" /\ ~LastAttempt(w)

Acknowledge(w) ==
  LET d == On(w) IN
  /\ At(w, "ack") /\ work' = [work EXCEPT ![w] = Idle]
  /\ IF ShouldRetry(w) THEN Attempted(d) ELSE job' = [job EXCEPT ![d].state = "done"]
  /\ UNCHANGED <<calls, note, delivery, letters, copies, faults, missed>>

Drop(w) ==
  /\ note' = RolledBack(note, w) /\ delivery' = RolledBack(delivery, w)
  /\ work' = [work EXCEPT ![w] = Idle] /\ Fault(On(w))
  /\ UNCHANGED <<calls, letters, copies, missed>>

\* A statement fails: that which looks for the row, before it is sent, or one of the record.
HandleThrows(w) ==
  /\ work[w].pc \in {"send", "record", "read", "settle", "commit"}
  /\ Attempted(On(w)) /\ Drop(w)

\* The process stops.  BullMQ has the job run again, once.
Stop(w) ==
  LET d == On(w) IN
  /\ ~At(w, "idle")
  /\ job' = [job EXCEPT ![d].stalls = @ + 1,
                        ![d].state = IF job[d].stalls = 0 THEN "waiting" ELSE "failed"]
  /\ Drop(w)

-----------------------------------------------------------------------------
(***************************************************************************)
(* Callbacks: DeliveryTrackingService.apply.  The notification is settled  *)
(* on a connection of its own, which does not see the new status.          *)
(***************************************************************************)
Report(c, d, status) ==
  /\ At(c, "idle") /\ copies[d] > 0 /\ Free(delivery, c, d)
  /\ delivery' = Written(delivery, c, d, status)
  /\ work' = [work EXCEPT ![c] = [Idle EXCEPT !.pc = "read", !.on = d, !.result = status]]
  /\ UNCHANGED <<calls, note, letters, job, copies, faults, missed>>

ReadCommitted(c) ==
  /\ At(c, "read")
  /\ SettleOn(c, {delivery.row[d] : d \in RowsOf(NoteOf(c))} \ {"none"})
  /\ UNCHANGED <<calls, note, delivery, letters, job, copies, faults, missed>>

SettleApart(c) ==
  /\ At(c, "settle") /\ Free(note, c, NoteOf(c))
  /\ note' = Committed(Written(note, c, NoteOf(c), work[c].to), c)
  /\ Goto(c, "commit") /\ UNCHANGED <<calls, delivery, letters, job, copies, faults, missed>>

EndReport(c) ==
  /\ \/ At(c, "commit") /\ delivery' = Committed(delivery, c)
     \/ work[c].pc \in {"read", "settle", "commit"} /\ delivery' = RolledBack(delivery, c)
  /\ work' = [work EXCEPT ![c] = [Idle EXCEPT !.pc = "done", !.on = On(c)]]
  /\ UNCHANGED <<calls, note, letters, job, copies, faults, missed>>

-----------------------------------------------------------------------------
Dispatch(r) ==
  \/ \E key \in Keys \cup {NoKey} : BeginDispatch(r, key)
  \/ \E d \in Deliveries : retry(r, d)
  \/ InsertNotification(r) \/ WriteDeliveries(r) \/ CommitDispatch(r) \/ Stamp(r)
  \/ AbortDispatch(r)

Handle(w) ==
  \/ \E d \in Deliveries : Take(w, d)
  \/ Send(w) \/ Record(w) \/ ReadDeliveries(w) \/ SettleNotification(w) \/ CommitResult(w)
  \/ Acknowledge(w)

Callback(c) ==
  \/ \E d \in Deliveries, status \in {"sent", "delivered", "bounced", "failed"} :
       Report(c, d, status)
  \/ ReadCommitted(c) \/ SettleApart(c) \/ EndReport(c)

Next ==
  \/ \E r \in Requests : Dispatch(r)
  \/ \E d \in Deliveries : Enqueue(d)
  \/ \E w \in Workers : Handle(w) \/ HandleThrows(w) \/ Stop(w)
  \/ \E c \in Callbacks : Callback(c)

Spec == Init /\ [][Next]_vars

\* Workers take jobs and calls of providers end; a callback that has begun ends.
Fairness ==
  /\ \A w \in Workers : WF_vars(Handle(w))
  /\ \A c \in Callbacks : WF_vars(ReadCommitted(c) \/ SettleApart(c) \/ EndReport(c))

FairSpec == Spec /\ Fairness

-----------------------------------------------------------------------------
(***************************************************************************)
(* Properties.                                                             *)
(***************************************************************************)
\* Calls of dispatch under one key, at the same time or one after the other, some of which
\* fail: all that are answered are answered with one notification, and it is in the table.
AnswersAgree ==
  \A r, s \in Requests :
    /\ Serving(r, "answered") => Exists(request[r].answer)
    /\ Same(r, s) /\ Serving(r, "answered") /\ Serving(s, "answered") =>
         request[r].answer = request[s].answer

\* A notification is closed by workers of several channels and by callbacks, each from what
\* it read in its own transaction: no delivery of it waits for its first attempt then, one
\* that is 'delivered' was accepted by the provider of every delivery that was to be sent,
\* and of one that is 'partially_failed' somebody has a copy.  A failure closes it too while
\* its retry is still to come, which is not to say that "every delivery has settled".
ToBeSent(d) == request[d[1]].as[d[2]] = "queued"
Accepted(d) == copies[d] > 0

ClosedIsEarned ==
  \A n \in Requests :
    /\ note.row[n] \in {"partially_failed", "failed", "delivered"} =>
         \A d \in RowsOf(n) : delivery.row[d] # "queued"
    /\ note.row[n] = "delivered" => \A d \in RowsOf(n) : ToBeSent(d) => Accepted(d)
    /\ note.row[n] = "partially_failed" => \E d \in RowsOf(n) : Accepted(d)

\* A recipient gets a notification once; every further copy is owed to an answer that was
\* lost, a result that could not be recorded or a worker that stopped.
NoSpareCopies == \A d \in Deliveries : copies[d] <= 1 + faults[d]

\* What is among the dead letters did not reach its recipient, unless something failed.
DeadLettersUndelivered ==
  \A d \in Deliveries :
    /\ delivery.row[d] = "dead_lettered" => letters[d] > 0
    /\ letters[d] <= 1 + faults[d]
    /\ letters[d] > 0 => copies[d] = 0 \/ faults[d] > 0

\* A dead letter that is marked as retried was sent again.
StampedWasResent ==
  \A d \in stamped : \E r \in Requests : request[r].of = d /\ Exists(r)

\* A delivery without a result, or with one that is to be retried, has a job, unless its
\* job was lost, or taken before the COMMIT, or something failed on the way.
Reported(d) == \E c \in Callbacks : On(c) = d
NothingForgotten ==
  \A d \in Deliveries :
    delivery.row[d] \in {"queued", "failed"} =>
      \/ job[d].state \in {"waiting", "active"} \/ d \in unsent \cup missed
      \/ faults[d] > 0 \/ Reported(d)

\* A delivery with a job, whose queue has a worker, comes to an end: it has its result, or BullMQ has given up.
EveryDeliveryEnds ==
  \A d \in Deliveries :
    Exists(d[1]) /\ job[d].state = "waiting" ~>
      delivery.row[d] \in Settled \/ job[d].state = "failed" \/ Reported(d)
=============================================================================
