--------------------------- MODULE AccountingSync ---------------------------
(***************************************************************************)
(* The push side of the accounting sync engine,                            *)
(* apps/api/src/modules/accounting: sync_jobs rows inserted by calls that  *)
(* billing does not await, drained by processBatch, retried by operators.  *)
(*                                                                         *)
(* A step is one statement, one short transaction or one call to the       *)
(* accounting provider.  A worker is one run of processBatch: the timer    *)
(* starts one every five seconds on every API instance and does not wait   *)
(* for the previous one.  Backoff delays are left out: a pending row may   *)
(* be claimed at any time.  Pull jobs and customers are left out.          *)
(***************************************************************************)
EXTENDS Naturals, Sequences, FiniteSets

CONSTANTS
  Invoices, Payments,
  Rows,            \* sync_jobs rows, inserted by enqueue
  Workers,         \* concurrent runs of processBatch
  MAX_RETRY_COUNT,
  BatchLimit,      \* rows one run claims
  MaxVersion,      \* bound: committed writes of one invoice
  MaxDocs,         \* bound: documents the provider creates for one entity
  InvoiceOf,       \* the invoice a payment is recorded on
  NoEntity, NoRow

Entities == Invoices \cup Payments

ASSUME SyncConstants ==
  /\ InvoiceOf \in [Payments -> Invoices] /\ Invoices \cap Payments = {}
  /\ NoEntity \notin Entities /\ NoRow \notin Rows
  /\ MAX_RETRY_COUNT \in Nat \ {0} /\ BatchLimit \in Nat \ {0} /\ MaxVersion \in Nat
  /\ MaxDocs \in Nat

VARIABLES
  version,   \* committed writes of an invoice; a payment has 0 or 1
  writing,   \* per invoice: what the open billing transaction writes
  calls,     \* enqueue calls nobody awaits, still to run
  conn,      \* the status of the tenant's accounting_connections row
  row,       \* sync_jobs
  external,  \* external_id of the newest completed row of an entity, 0: none
  books,     \* the provider: documents created for an entity, version of the last push
  worker     \* what a run of processBatch holds

billingVars == <<version, writing, calls>>
vars == <<billingVars, conn, row, external, books, worker>>

Active == {"pending", "processing"}
SyncRows == [entity : Entities \cup {NoEntity}, retries : Nat,
             status : Active \cup {"none", "completed", "failed", "dead_letter"}]
Batches == [pc : {"idle", "next", "read", "lookup", "push", "complete", "fail", "promote"},
            batch : SUBSET Rows, row : Rows \cup {NoRow}, todo : Seq(Entities),
            tries : Nat, version : Nat, ext : Nat, caught : BOOLEAN]
NoBatch == [pc |-> "idle", batch |-> {}, row |-> NoRow, todo |-> <<>>,
            tries |-> 0, version |-> 0, ext |-> 0, caught |-> FALSE]

TypeOK ==
  /\ version \in [Entities -> Nat] /\ writing \in [Invoices -> SUBSET Entities]
  /\ calls \subseteq Entities /\ conn \in {"pending", "connected", "disconnected"}
  /\ row \in [Rows -> SyncRows] /\ external \in [Entities -> Nat]
  /\ books \in [Entities -> [docs : Nat, version : Nat]]
  /\ worker \in [Workers -> Batches]

Init ==
  /\ version = [e \in Entities |-> 0] /\ writing = [i \in Invoices |-> {}]
  /\ calls = {} /\ conn = "connected"
  /\ row = [r \in Rows |-> [entity |-> NoEntity, status |-> "none", retries |-> 0]]
  /\ external = [e \in Entities |-> 0]
  /\ books = [e \in Entities |-> [docs |-> 0, version |-> 0]]
  /\ worker = [w \in Workers |-> NoBatch]

-----------------------------------------------------------------------------
\* Billing: issue and recordPayment call enqueue inside their transaction, on a
\* connection of its own, and do not wait for it.
Write(i, E) ==
  /\ writing[i] = {} /\ version[i] < MaxVersion
  /\ \A e \in E \cap Payments : version[e] = 0
  /\ writing' = [writing EXCEPT ![i] = E]
  /\ calls' = calls \cup E
  /\ UNCHANGED <<version, conn, row, external, books, worker>>

Issue(i) == Write(i, {i})
RecordPayment(p) == version[InvoiceOf[p]] > 0 /\ Write(InvoiceOf[p], {InvoiceOf[p], p})

CommitWrite(i) ==
  /\ writing[i] # {}
  /\ version' = [e \in Entities |-> version[e] + (IF e \in writing[i] THEN 1 ELSE 0)]
  /\ writing' = [writing EXCEPT ![i] = {}]
  /\ UNCHANGED <<calls, conn, row, external, books, worker>>

RollbackWrite(i) ==
  /\ writing[i] # {}
  /\ writing' = [writing EXCEPT ![i] = {}]
  /\ UNCHANGED <<version, calls, conn, row, external, books, worker>>

-----------------------------------------------------------------------------
\* enqueue: INSERT ... ON CONFLICT DO NOTHING against sync_jobs_active_entity_unique.
ActiveRows(e) == {r \in Rows : row[r].entity = e /\ row[r].status \in Active}

\* Mutant: only pending rows are in the index.
InsertUnlessPending(e) ==
  IF \E r \in ActiveRows(e) : row[r].status = "pending" THEN UNCHANGED row
  ELSE \E r \in Rows :
         /\ row[r].status = "none"
         /\ row' = [row EXCEPT ![r] = [entity |-> e, status |-> "pending", retries |-> 0]]

Insert(e) ==
  IF ActiveRows(e) # {} THEN UNCHANGED row
  ELSE \E r \in Rows :
         /\ row[r].status = "none"
         /\ row' = [row EXCEPT ![r] = [entity |-> e, status |-> "pending", retries |-> 0]]

Enqueue(e) ==
  /\ e \in calls /\ calls' = calls \ {e}
  /\ IF conn = "connected" THEN Insert(e) ELSE UNCHANGED row
  /\ UNCHANGED <<version, writing, conn, external, books, worker>>

\* The error is swallowed, or the process dies first.
EnqueueLost(e) ==
  /\ e \in calls /\ calls' = calls \ {e}
  /\ UNCHANGED <<version, writing, conn, row, external, books, worker>>

\* The operator names an invoice or a payment there is.
manualSync(e) ==
  /\ version[e] > 0 \/ e \in Invoices
  /\ conn = "connected" /\ ActiveRows(e) = {} /\ Insert(e)
  /\ UNCHANGED <<billingVars, conn, external, books, worker>>

\* One UPDATE of every failed and dead_letter row of the entity: two of them, or an
\* active row beside one, violate the unique index and nothing changes.
Retryable(e) == {r \in Rows : row[r].entity = e /\ row[r].status \in {"failed", "dead_letter"}}

retrySync(e) ==
  /\ ActiveRows(e) = {}
  /\ \E r \in Rows :
       /\ Retryable(e) = {r}
       /\ row' = [row EXCEPT ![r].status = "pending", ![r].retries = 0]
  /\ UNCHANGED <<billingVars, conn, external, books, worker>>

startConnect ==
  /\ conn' = "pending"
  /\ UNCHANGED <<billingVars, row, external, books, worker>>

completeConnect ==
  /\ conn = "pending" /\ conn' = "connected"
  /\ UNCHANGED <<billingVars, row, external, books, worker>>

disconnect ==
  /\ conn' = "disconnected"
  /\ UNCHANGED <<billingVars, row, external, books, worker>>

-----------------------------------------------------------------------------
\* processBatch: claim, then one row after the other.
SetWorker(w, b) == worker' = [worker EXCEPT ![w] = b]

\* Mutant: rows another run is working on are claimed too.
ClaimAny(w) ==
  /\ worker[w].pc = "idle"
  /\ \E S \in SUBSET {r \in Rows : row[r].status \in Active} :
       /\ S # {} /\ Cardinality(S) <= BatchLimit
       /\ row' = [r \in Rows |-> IF r \in S THEN [row[r] EXCEPT !.status = "processing"]
                                 ELSE row[r]]
       /\ SetWorker(w, [NoBatch EXCEPT !.pc = "next", !.batch = S])
  /\ UNCHANGED <<billingVars, conn, external, books>>

claimReadyJobs(w) ==
  /\ worker[w].pc = "idle"
  /\ \E S \in SUBSET {r \in Rows : row[r].status = "pending"} :
       /\ S # {} /\ Cardinality(S) <= BatchLimit
       /\ row' = [r \in Rows |-> IF r \in S THEN [row[r] EXCEPT !.status = "processing"]
                                 ELSE row[r]]
       /\ SetWorker(w, [NoBatch EXCEPT !.pc = "next", !.batch = S])
  /\ UNCHANGED <<billingVars, conn, external, books>>

\* pushPayment pushes the invoice before the payment.
PushOrder(e) == IF e \in Payments THEN <<InvoiceOf[e], e>> ELSE <<e>>

\* The next row: without credentials markFailed is called inside the try block.
NextRow(w) ==
  /\ worker[w].pc = "next"
  /\ \/ \E r \in worker[w].batch :
          SetWorker(w, [NoBatch EXCEPT !.batch = worker[w].batch \ {r}, !.row = r,
                          !.tries = row[r].retries, !.todo = PushOrder(row[r].entity),
                          !.pc = IF conn = "connected" THEN "read" ELSE "fail"])
     \/ worker[w].batch = {} /\ SetWorker(w, NoBatch)
  /\ UNCHANGED <<billingVars, conn, row, external, books>>

Caught(w) == SetWorker(w, [worker[w] EXCEPT !.pc = "fail", !.caught = TRUE])

\* pushInvoice and pushPayment: read the entity, find the id the provider knows it
\* by, call the provider.
ReadEntity(w) ==
  LET k == worker[w]
      e == row[k.row].entity
  IN
  /\ k.pc = "read"
  /\ IF e \in Payments /\ version[e] = 0 THEN Caught(w)   \* payment not found
     ELSE SetWorker(w, [k EXCEPT !.version = version[Head(k.todo)], !.pc = "lookup"])
  /\ UNCHANGED <<billingVars, conn, row, external, books>>

findCompletedJob(w) ==
  /\ worker[w].pc = "lookup"
  /\ SetWorker(w, [worker[w] EXCEPT !.pc = "push",
                                      !.ext = external[Head(worker[w].todo)]])
  /\ UNCHANGED <<billingVars, conn, row, external, books>>

\* Without an external id the provider creates a document, with one it updates it.
Provider(e, ext, ver) ==
  /\ ext = 0 => books[e].docs < MaxDocs
  /\ books' = [books EXCEPT ![e] =
                [docs |-> @.docs + (IF ext = 0 THEN 1 ELSE 0), version |-> ver]]

Push(w) ==
  LET k == worker[w]
      e == Head(k.todo)
  IN
  /\ k.pc = "push"
  /\ Provider(e, k.ext, k.version)
  /\ SetWorker(w, IF Len(k.todo) > 1 THEN [k EXCEPT !.todo = Tail(@), !.pc = "read"]
                  ELSE [k EXCEPT !.pc = "complete",
                                    !.ext = IF @ = 0 THEN books'[e].docs ELSE @])
  /\ UNCHANGED <<billingVars, conn, row, external>>

\* The answer of the provider is lost.
PushUnanswered(w) ==
  /\ worker[w].pc = "push"
  /\ Provider(Head(worker[w].todo), worker[w].ext, worker[w].version)
  /\ Caught(w)
  /\ UNCHANGED <<billingVars, conn, row, external>>

Throw(w) ==
  /\ worker[w].pc \in {"read", "lookup", "push", "complete"}
  /\ Caught(w)
  /\ UNCHANGED <<billingVars, conn, row, external, books>>

-----------------------------------------------------------------------------
\* The end of a row.  markCompleted and markFailed update by id, whatever the status.
Settle(w, status, tries) ==
  row' = [row EXCEPT ![worker[w].row].status = status, ![worker[w].row].retries = tries]

markCompleted(w) ==
  LET k == worker[w] IN
  /\ k.pc = "complete"
  /\ Settle(w, "completed", row[k.row].retries)
  /\ external' = [external EXCEPT ![row[k.row].entity] = k.ext]
  /\ SetWorker(w, [k EXCEPT !.pc = "next"])
  /\ UNCHANGED <<billingVars, conn, books>>

\* Mutant: the retry count does not move.
markFailedUncounted(w) ==
  LET k == worker[w] IN
  /\ k.pc = "fail"
  /\ Settle(w, "failed", k.tries)
  /\ SetWorker(w, [k EXCEPT !.pc = "promote"])
  /\ UNCHANGED <<billingVars, conn, external, books>>

markFailed(w) ==
  LET k == worker[w]
      goingDead == k.tries + 1 >= MAX_RETRY_COUNT
  IN
  /\ k.pc = "fail"
  /\ Settle(w, IF goingDead THEN "dead_letter" ELSE "failed", k.tries + 1)
  /\ SetWorker(w, [k EXCEPT !.pc = IF goingDead THEN "next" ELSE "promote"])
  /\ UNCHANGED <<billingVars, conn, external, books>>

\* The second transaction of markFailed.  Beside a newer active row of the entity it
\* violates the unique index: inside the try block the error is caught and the row
\* fails again, from the catch block it ends the run, rest of the batch included.
Blocked(w) == ActiveRows(row[worker[w].row].entity) # {}

Promote(w) ==
  LET k == worker[w] IN
  /\ k.pc = "promote"
  /\ \/ /\ row[k.row].status = "failed" /\ ~Blocked(w)
        /\ row' = [row EXCEPT ![k.row].status = "pending"]
        /\ SetWorker(w, [k EXCEPT !.pc = "next"])
     \/ /\ row[k.row].status # "failed"
        /\ SetWorker(w, [k EXCEPT !.pc = "next"]) /\ UNCHANGED row
     \/ /\ row[k.row].status = "failed" /\ Blocked(w)
        /\ IF k.caught THEN SetWorker(w, NoBatch) ELSE Caught(w)
        /\ UNCHANGED row
  /\ UNCHANGED <<billingVars, conn, external, books>>

\* The process stops, or the database fails in markFailed: nobody looks for rows
\* left in processing.
Abandon(w) ==
  /\ worker[w].pc # "idle"
  /\ SetWorker(w, NoBatch)
  /\ UNCHANGED <<billingVars, conn, row, external, books>>

-----------------------------------------------------------------------------
Billing ==
  \/ \E i \in Invoices : Issue(i) \/ CommitWrite(i) \/ RollbackWrite(i)
  \/ \E p \in Payments : RecordPayment(p)

Calls == \E e \in Entities : Enqueue(e)

Operator == \E e \in Entities : manualSync(e) \/ retrySync(e)

Reconnect == startConnect \/ completeConnect \/ disconnect

\* What a run does when nothing fails, and what it does with a failure.
Work(w) ==
  \/ claimReadyJobs(w) \/ NextRow(w) \/ ReadEntity(w) \/ findCompletedJob(w) \/ Push(w)
  \/ markCompleted(w) \/ markFailed(w) \/ Promote(w)

Failure(w) == Throw(w) \/ PushUnanswered(w)

Next ==
  \/ Billing \/ Calls \/ Operator \/ Reconnect
  \/ \E e \in Entities : EnqueueLost(e)
  \/ \E w \in Workers : Work(w) \/ Failure(w) \/ Abandon(w)

Spec == Init /\ [][Next]_vars

\* The same with the connection up all the time.
SteadyNext ==
  \/ Billing \/ Calls \/ Operator
  \/ \E e \in Entities : EnqueueLost(e)
  \/ \E w \in Workers : Work(w) \/ Failure(w) \/ Abandon(w)

SteadySpec == Init /\ [][SteadyNext]_vars

-----------------------------------------------------------------------------
Handling(w) == worker[w].pc \in {"read", "lookup", "push", "complete", "fail"}
Held(w) == worker[w].batch \cup (IF Handling(w) THEN {worker[w].row} ELSE {})

\* The idempotency lock: however inserts, retries and promotions race, an entity has
\* one row pending or processing.
OneActiveRow == \A r, q \in Rows :
  row[r].status \in Active /\ row[q].status \in Active /\ r # q =>
    row[r].entity # row[q].entity

\* While the connection stays up no two runs ever hold the same row, nor two rows of
\* one entity, and what a run holds is marked processing: a claim is exclusive until
\* the run marks the row, although no later statement looks at the status again.
ExclusiveClaim ==
  /\ \A w \in Workers : \A r \in Held(w) : row[r].status = "processing"
  /\ \A w, x \in Workers : w # x => Held(w) \cap Held(x) = {}

\* What was completed stays completed: no late failure of another run overwrites it.
CompletedIsFinal ==
  [][\A r \in Rows : row[r].status = "completed" => row'[r] = row[r]]_vars

\* Every row that may be claimed ends: pushed, or handed to an operator.
EveryRowSettles ==
  \A r \in Rows : row[r].status = "pending" ~> row[r].status \in {"completed", "dead_letter"}
=============================================================================
