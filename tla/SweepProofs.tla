---------------------------- MODULE SweepProofs ----------------------------
(***************************************************************************)
(* Theorems about the two jobs that the timer of every API instance starts *)
(* and that only their database rows keep apart: the runs of processBatch  *)
(* over sync_jobs (AccountingSync) and the daily storage fees of impounded *)
(* vehicles (ImpoundStorage).                                              *)
(*                                                                         *)
(* The first part is about the one, the second about the other; nothing    *)
(* relates them.  Both hold for any number of instances, rows and requests *)
(* and for any bounds.                                                     *)
(***************************************************************************)
EXTENDS AccountingSync, ImpoundStorage, SequenceTheorems, FiniteSetTheorems,
        WellFoundedInduction, TLAPS

-----------------------------------------------------------------------------
(***************************************************************************)
(* The runs of processBatch.                                               *)
(***************************************************************************)
\* What TypeOK does not say: rows and runs in use name what they work on.
Busy(pc) == pc \in {"read", "lookup", "push", "complete", "fail", "promote"}

RowInUse(r) == r \in Rows /\ row[r].status # "none"

WellFormed(k) ==
  /\ \A r \in k.batch : RowInUse(r)
  /\ Busy(k.pc) => RowInUse(k.row)
  /\ k.pc \in {"read", "lookup", "push"} => k.todo # <<>>

TypeInv ==
  /\ TypeOK
  /\ \A r \in Rows : row[r].status # "none" => row[r].entity \in Entities
  /\ \A w \in Workers : WellFormed(worker[w])

RowsInv == row \in [Rows -> SyncRows]
           /\ \A r \in Rows : row[r].status # "none" => row[r].entity \in Entities

-----------------------------------------------------------------------------
LEMMA InitType == Init => TypeInv
BY SyncConstants DEF Init, TypeInv, TypeOK, WellFormed, Busy, SyncRows, Batches, NoBatch, Active

\* A row in use stays in use: nothing deletes a row or takes its entity away.
LEMMA RowsStay ==
  ASSUME TypeInv, RowsInv', \A r \in Rows : row[r].status # "none" => row'[r].status # "none",
         UNCHANGED worker
  PROVE  \A w \in Workers : WellFormed(worker[w])'
BY DEF TypeInv, WellFormed, RowInUse

\* A run goes on with a record of its own.
LEMMA RunType ==
  ASSUME TypeInv, RowsInv', \A r \in Rows : row[r].status # "none" => row'[r].status # "none",
         NEW w \in Workers, NEW k \in Batches, SetWorker(w, k), WellFormed(k)'
  PROVE  /\ worker' \in [Workers -> Batches]
         /\ \A x \in Workers : WellFormed(worker[x])'
BY DEF TypeInv, TypeOK, SetWorker, WellFormed, RowInUse

-----------------------------------------------------------------------------
\* Billing, the calls and the operator.
LEMMA BillingType ==
  ASSUME TypeInv, Billing \/ (\E e \in Entities : EnqueueLost(e)) \/ Reconnect
  PROVE  TypeInv'
<1>1. row' = row /\ worker' = worker /\ external' = external /\ books' = books
  BY DEF Billing, Issue, RecordPayment, Write, CommitWrite, RollbackWrite, EnqueueLost,
         Reconnect, startConnect, completeConnect, disconnect, billingVars
<1>2. \A p \in Payments : InvoiceOf[p] \in Invoices
  BY SyncConstants
<1>3. /\ version' \in [Entities -> Nat] /\ writing' \in [Invoices -> SUBSET Entities]
      /\ calls' \subseteq Entities /\ conn' \in {"pending", "connected", "disconnected"}
  <2>1. CASE \E i \in Invoices : Issue(i)
    BY <2>1 DEF Issue, Write, TypeInv, TypeOK, Entities
  <2>2. CASE \E p \in Payments : RecordPayment(p)
    BY <2>2, <1>2 DEF RecordPayment, Write, TypeInv, TypeOK, Entities
  <2>3. CASE \E i \in Invoices : CommitWrite(i)
    BY <2>3 DEF CommitWrite, TypeInv, TypeOK
  <2>4. CASE \E i \in Invoices : RollbackWrite(i)
    BY <2>4 DEF RollbackWrite, TypeInv, TypeOK
  <2>5. CASE \E e \in Entities : EnqueueLost(e)
    BY <2>5 DEF EnqueueLost, TypeInv, TypeOK
  <2>6. CASE Reconnect
    BY <2>6 DEF Reconnect, startConnect, completeConnect, disconnect, billingVars,
                TypeInv, TypeOK
  <2> QED
    BY <2>1, <2>2, <2>3, <2>4, <2>5, <2>6 DEF Billing
<1> QED
  BY <1>1, <1>3 DEF TypeInv, TypeOK, WellFormed, RowInUse

\* INSERT and the operator's UPDATE leave good rows.
LEMMA InsertRows ==
  ASSUME TypeInv, NEW e \in Entities, Insert(e)
  PROVE  RowsInv' /\ \A r \in Rows : row[r].status # "none" => row'[r].status # "none"
<1>1. CASE UNCHANGED row
  BY <1>1 DEF TypeInv, TypeOK, RowsInv
<1>2. ASSUME NEW r \in Rows,
             row' = [row EXCEPT ![r] = [entity |-> e, status |-> "pending", retries |-> 0]]
      PROVE  RowsInv' /\ \A q \in Rows : row[q].status # "none" => row'[q].status # "none"
  <2>1. [entity |-> e, status |-> "pending", retries |-> 0] \in SyncRows
    BY DEF SyncRows, Active
  <2> QED
    BY <1>2, <2>1 DEF TypeInv, TypeOK, RowsInv
<1> QED
  BY <1>1, <1>2 DEF Insert

LEMMA OperatorType ==
  ASSUME TypeInv, Calls \/ Operator
  PROVE  TypeInv'
<1>1. /\ version' = version /\ writing' = writing /\ calls' \subseteq Entities /\ conn' = conn
      /\ external' = external /\ books' = books /\ worker' = worker
  BY DEF Calls, Enqueue, Operator, manualSync, retrySync, billingVars, TypeInv, TypeOK
<1>2. RowsInv' /\ \A r \in Rows : row[r].status # "none" => row'[r].status # "none"
  <2>1. CASE Calls \/ \E e \in Entities : manualSync(e)
    <3>1. UNCHANGED row \/ \E e \in Entities : Insert(e)
      BY <2>1 DEF Calls, Enqueue, manualSync
    <3> QED
      BY <3>1, InsertRows DEF RowsInv, TypeInv, TypeOK
  <2>2. CASE \E e \in Entities : retrySync(e)
    <3>1. PICK r \in Rows :
            /\ row[r].status \in {"failed", "dead_letter"}
            /\ row' = [row EXCEPT ![r] = [row[r] EXCEPT !.status = "pending", !.retries = 0]]
      BY <2>2 DEF retrySync, Retryable, TypeInv, TypeOK
    <3>2. [row[r] EXCEPT !.status = "pending", !.retries = 0] \in SyncRows
      BY DEF TypeInv, TypeOK, SyncRows, Active
    <3>3. [row[r] EXCEPT !.status = "pending", !.retries = 0].entity = row[r].entity
      BY DEF TypeInv, TypeOK, SyncRows
    <3>4. [row[r] EXCEPT !.status = "pending", !.retries = 0].status = "pending"
      BY DEF TypeInv, TypeOK, SyncRows
    <3> QED
      BY <3>1, <3>2, <3>3, <3>4 DEF TypeInv, TypeOK, RowsInv
  <2> QED
    BY <2>1, <2>2 DEF Operator
<1>3. \A w \in Workers : WellFormed(worker[w])'
  BY <1>1, <1>2, RowsStay
<1> QED
  BY <1>1, <1>2, <1>3 DEF TypeInv, TypeOK, RowsInv

-----------------------------------------------------------------------------
\* Steps of a run.
LEMMA ClaimType ==
  ASSUME TypeInv, NEW w \in Workers, claimReadyJobs(w)
  PROVE  TypeInv'
<1>1. PICK S \in SUBSET {r \in Rows : row[r].status = "pending"} :
        /\ row' = [r \in Rows |-> IF r \in S THEN [row[r] EXCEPT !.status = "processing"]
                                  ELSE row[r]]
        /\ SetWorker(w, [NoBatch EXCEPT !.pc = "next", !.batch = S])
  BY DEF claimReadyJobs
<1>2. RowsInv' /\ \A r \in Rows : row[r].status # "none" => row'[r].status # "none"
  BY <1>1 DEF RowsInv, TypeInv, TypeOK, SyncRows, Active
<1>3. /\ [NoBatch EXCEPT !.pc = "next", !.batch = S] \in Batches
      /\ WellFormed([NoBatch EXCEPT !.pc = "next", !.batch = S])'
  <2>1. [NoBatch EXCEPT !.pc = "next", !.batch = S] \in Batches
    <3>1. NoBatch \in Batches
      BY DEF NoBatch, Batches
    <3>2. S \in SUBSET Rows
      OBVIOUS
    <3> HIDE DEF NoBatch
    <3> QED
      BY <3>1, <3>2 DEF Batches
  <2>2. \A r \in S : row'[r].status # "none"
    BY <1>2
  <2> QED
    BY <2>1, <2>2 DEF NoBatch, WellFormed, RowInUse, Busy
<1>4. worker' \in [Workers -> Batches] /\ \A x \in Workers : WellFormed(worker[x])'
  BY <1>1, <1>2, <1>3, RunType
<1> QED
  BY <1>2, <1>4 DEF claimReadyJobs, billingVars, TypeInv, TypeOK, RowsInv

\* Steps that read and call the provider: the table is not touched.
LEMMA HandlerType ==
  ASSUME TypeInv, NEW w \in Workers, NEW k \in Batches, WellFormed(k), SetWorker(w, k),
         UNCHANGED <<version, writing, calls, conn, row, external>>,
         books' \in [Entities -> [docs : Nat, version : Nat]]
  PROVE  TypeInv'
<1>1. RowsInv' /\ WellFormed(k)'
  BY DEF RowsInv, TypeInv, TypeOK, WellFormed, RowInUse
<1> QED
  BY <1>1, RunType DEF TypeInv, TypeOK, RowsInv

LEMMA NextRowType ==
  ASSUME TypeInv, NEW w \in Workers, NextRow(w)
  PROVE  TypeInv'
<1>1. ASSUME NEW r \in worker[w].batch,
             SetWorker(w, [NoBatch EXCEPT !.batch = worker[w].batch \ {r}, !.row = r,
                             !.tries = row[r].retries, !.todo = PushOrder(row[r].entity),
                             !.pc = IF conn = "connected" THEN "read" ELSE "fail"])
      PROVE  TypeInv'
  <2> DEFINE k == [NoBatch EXCEPT !.batch = worker[w].batch \ {r}, !.row = r,
                     !.tries = row[r].retries, !.todo = PushOrder(row[r].entity),
                     !.pc = IF conn = "connected" THEN "read" ELSE "fail"]
  <2>1. RowInUse(r) /\ worker[w].batch \in SUBSET Rows /\ row[r].retries \in Nat
        /\ row[r].entity \in Entities
    BY DEF TypeInv, TypeOK, WellFormed, RowInUse, Batches, SyncRows
  <2>2. PushOrder(row[r].entity) \in Seq(Entities) /\ PushOrder(row[r].entity) # <<>>
    <3> DEFINE e == row[r].entity
    <3>1. CASE e \in Payments
      <4>1. InvoiceOf[e] \in Entities
        BY <3>1, SyncConstants DEF Entities
      <4> QED
        BY <2>1, <3>1, <4>1 DEF PushOrder
    <3>2. CASE e \notin Payments
      BY <2>1, <3>2 DEF PushOrder
    <3> QED
      BY <3>1, <3>2
  <2>3. k \in Batches
    BY <2>1, <2>2 DEF NoBatch, Batches, RowInUse
  <2>4. WellFormed(k)
    BY <2>1, <2>2 DEF NoBatch, WellFormed, Busy, TypeInv
  <2> QED
    BY <1>1, <2>3, <2>4, HandlerType DEF NextRow, billingVars, TypeInv, TypeOK
<1>2. NoBatch \in Batches /\ WellFormed(NoBatch)
  BY DEF NoBatch, Batches, WellFormed, Busy
<1>3. CASE SetWorker(w, NoBatch)
  BY <1>2, <1>3, HandlerType DEF NextRow, billingVars, TypeInv, TypeOK
<1> QED
  BY <1>1, <1>3 DEF NextRow

\* What is left of two entities to push is not empty.
LEMMA TailOfMore ==
  ASSUME NEW S, NEW s \in Seq(S), Len(s) > 1
  PROVE  Tail(s) \in Seq(S) /\ Tail(s) # <<>>
<1>1. Len(s) \in Nat /\ s # <<>>
  OBVIOUS
<1>2. Tail(s) \in Seq(S) /\ Len(Tail(s)) = Len(s) - 1
  BY <1>1
<1>3. Len(s) > 1 /\ Len(Tail(s)) = Len(s) - 1 => Len(Tail(s)) > 0
  BY <1>1
<1>4. Len(Tail(s)) > 0
  BY <1>2, <1>3
<1> DEFINE t == Tail(s)
<1>5. t \in Seq(S) /\ Len(t) > 0
  BY <1>2, <1>4
<1> HIDE DEF t
<1>6. t # <<>>
  BY <1>5, EmptySeq
<1> QED
  BY <1>5, <1>6 DEF t

LEMMA PushType ==
  ASSUME TypeInv, NEW w \in Workers,
         ReadEntity(w) \/ findCompletedJob(w) \/ Push(w) \/ Failure(w)
  PROVE  TypeInv'
<1> DEFINE b == worker[w]
<1>1. b \in Batches /\ WellFormed(b)
  BY DEF TypeInv, TypeOK
<1>2. b.pc \in {"read", "lookup", "push"} => Head(b.todo) \in Entities
  BY <1>1 DEF Batches, WellFormed
<1>3. /\ [b EXCEPT !.pc = "fail", !.caught = TRUE] \in Batches
      /\ Busy(b.pc) => WellFormed([b EXCEPT !.pc = "fail", !.caught = TRUE])
  BY <1>1 DEF Batches, WellFormed, Busy
<1>4. CASE ReadEntity(w)
  <2>1. ASSUME b.pc = "read"
        PROVE  /\ [b EXCEPT !.version = version[Head(b.todo)], !.pc = "lookup"] \in Batches
               /\ WellFormed([b EXCEPT !.version = version[Head(b.todo)], !.pc = "lookup"])
    <3>1. version[Head(b.todo)] \in Nat
      BY <1>2, <2>1 DEF TypeInv, TypeOK
    <3> QED
      BY <1>1, <2>1, <3>1 DEF Batches, WellFormed, Busy
  <2> QED
    BY <1>1, <1>3, <1>4, <2>1, HandlerType DEF ReadEntity, Caught, Busy, billingVars, TypeInv, TypeOK
<1>5. CASE findCompletedJob(w)
  <2>1. external[Head(b.todo)] \in Nat
    BY <1>2, <1>5 DEF findCompletedJob, TypeInv, TypeOK
  <2>2. /\ [b EXCEPT !.pc = "push", !.ext = external[Head(b.todo)]] \in Batches
        /\ WellFormed([b EXCEPT !.pc = "push", !.ext = external[Head(b.todo)]])
    BY <1>1, <1>5, <2>1 DEF findCompletedJob, Batches, WellFormed, Busy
  <2> QED
    BY <1>5, <2>2, HandlerType DEF findCompletedJob, billingVars, TypeInv, TypeOK
<1>6. ASSUME b.pc = "push", Provider(Head(b.todo), b.ext, b.version)
      PROVE  books' \in [Entities -> [docs : Nat, version : Nat]]
  <2>1. /\ Head(b.todo) \in Entities /\ b.version \in Nat
        /\ books[Head(b.todo)].docs + (IF b.ext = 0 THEN 1 ELSE 0) \in Nat
    BY <1>1, <1>2, <1>6 DEF TypeInv, TypeOK, Batches
  <2> QED
    BY <1>6, <2>1 DEF Provider, TypeInv, TypeOK
<1>7. CASE Push(w)
  <2>1. CASE Len(b.todo) > 1
    <3>1. Tail(b.todo) \in Seq(Entities) /\ Tail(b.todo) # <<>>
      BY <1>1, <2>1, TailOfMore DEF Batches
    <3>2. /\ [b EXCEPT !.todo = Tail(b.todo), !.pc = "read"] \in Batches
          /\ WellFormed([b EXCEPT !.todo = Tail(b.todo), !.pc = "read"])
      BY <1>1, <1>7, <3>1 DEF Push, Batches, WellFormed, Busy
    <3>3. SetWorker(w, [b EXCEPT !.todo = Tail(b.todo), !.pc = "read"])
      BY <1>1, <1>7, <2>1 DEF Push, Batches
    <3> QED
      BY <1>6, <1>7, <3>2, <3>3, HandlerType DEF Push, billingVars
  <2>2. CASE ~(Len(b.todo) > 1)
    <3> DEFINE ext == IF b.ext = 0 THEN books'[Head(b.todo)].docs ELSE b.ext
    <3>1. ext \in Nat
      BY <1>1, <1>2, <1>6, <1>7 DEF Push, Batches
    <3>2. /\ [b EXCEPT !.pc = "complete", !.ext = ext] \in Batches
          /\ WellFormed([b EXCEPT !.pc = "complete", !.ext = ext])
      <4> HIDE DEF ext
      <4> QED
        BY <1>1, <1>7, <3>1 DEF Push, Batches, WellFormed, Busy
    <3>3. SetWorker(w, [b EXCEPT !.pc = "complete", !.ext = ext])
      BY <1>1, <1>7, <2>2 DEF Push, Batches
    <3> QED
      BY <1>6, <1>7, <3>2, <3>3, HandlerType DEF Push, billingVars
  <2> QED
    BY <2>1, <2>2
<1>8. CASE Failure(w)
  BY <1>3, <1>6, <1>8, HandlerType
     DEF Failure, Throw, PushUnanswered, Caught, Busy, billingVars, TypeInv, TypeOK
<1> QED
  BY <1>4, <1>5, <1>7, <1>8

\* Steps that end a row write the row of the run.
LEMMA SettleType ==
  ASSUME TypeInv, NEW w \in Workers, markCompleted(w) \/ markFailed(w) \/ Promote(w)
  PROVE  TypeInv'
<1> DEFINE b == worker[w]
           r == b.row
<1>1. b \in Batches /\ WellFormed(b) /\ r \in Rows /\ row[r] \in SyncRows
      /\ row[r].status # "none" /\ row[r].entity \in Entities
  BY DEF TypeInv, TypeOK, WellFormed, RowInUse, Busy, markCompleted, markFailed, Promote
<1>2. ASSUME NEW status \in {"completed", "failed", "dead_letter", "pending"}, NEW n \in Nat,
             row' = [row EXCEPT ![r].status = status, ![r].retries = n] \/ UNCHANGED row
             \/ row' = [row EXCEPT ![r].status = status]
      PROVE  RowsInv' /\ \A q \in Rows : row[q].status # "none" => row'[q].status # "none"
  <2>1. CASE row' = [row EXCEPT ![r].status = status, ![r].retries = n]
    <3> DEFINE new == [row[r] EXCEPT !.status = status, !.retries = n]
    <3>1. row' = [row EXCEPT ![r] = new]
      BY <2>1 DEF TypeInv, TypeOK
    <3>2. new \in SyncRows /\ new.entity = row[r].entity /\ new.status # "none"
      BY <1>1 DEF SyncRows, Active
    <3> HIDE DEF new
    <3> QED
      BY <1>1, <3>1, <3>2 DEF TypeInv, TypeOK, RowsInv
  <2>2. CASE row' = [row EXCEPT ![r].status = status]
    <3> DEFINE new == [row[r] EXCEPT !.status = status]
    <3>1. row' = [row EXCEPT ![r] = new]
      BY <2>2 DEF TypeInv, TypeOK
    <3>2. new \in SyncRows /\ new.entity = row[r].entity /\ new.status # "none"
      BY <1>1 DEF SyncRows, Active
    <3> HIDE DEF new
    <3> QED
      BY <1>1, <3>1, <3>2 DEF TypeInv, TypeOK, RowsInv
  <2>3. CASE UNCHANGED row
    BY <2>3 DEF TypeInv, TypeOK, RowsInv
  <2> QED
    BY <1>2, <2>1, <2>2, <2>3
<1>3. b.tries + 1 \in Nat /\ row[r].retries \in Nat
  BY <1>1 DEF Batches, SyncRows
<1>4. RowsInv' /\ \A q \in Rows : row[q].status # "none" => row'[q].status # "none"
  <2>1. CASE markCompleted(w)
    BY <1>2, <1>3, <2>1 DEF markCompleted, Settle
  <2>2. CASE markFailed(w)
    BY <1>2, <1>3, <2>2 DEF markFailed, Settle
  <2>3. CASE Promote(w)
    BY <1>2, <1>3, <2>3 DEF Promote
  <2> QED
    BY <2>1, <2>2, <2>3
<1>5. \E k \in Batches : WellFormed(k) /\ SetWorker(w, k)
  <2>1. \A pc \in {"next", "promote"} :
          [b EXCEPT !.pc = pc] \in Batches /\ WellFormed([b EXCEPT !.pc = pc])
    BY <1>1 DEF Batches, WellFormed, Busy, RowInUse
  <2>2. /\ [b EXCEPT !.pc = "fail", !.caught = TRUE] \in Batches
        /\ WellFormed([b EXCEPT !.pc = "fail", !.caught = TRUE])
    BY <1>1 DEF Batches, WellFormed, RowInUse
  <2>3. NoBatch \in Batches /\ WellFormed(NoBatch)
    BY DEF NoBatch, Batches, WellFormed, Busy
  <2> QED
    BY <2>1, <2>2, <2>3 DEF markCompleted, markFailed, Promote, Caught
<1>6. worker' \in [Workers -> Batches] /\ \A x \in Workers : WellFormed(worker[x])'
  <2>1. PICK k \in Batches : WellFormed(k) /\ SetWorker(w, k)
    BY <1>5
  <2>2. WellFormed(k)'
    BY <1>4, <2>1 DEF WellFormed, RowInUse
  <2> QED
    BY <1>4, <2>1, <2>2, RunType
<1>7. external' \in [Entities -> Nat]
  BY <1>1 DEF markCompleted, markFailed, Promote, TypeInv, TypeOK, Batches
<1> QED
  BY <1>4, <1>6, <1>7
     DEF markCompleted, markFailed, Promote, billingVars, TypeInv, TypeOK, RowsInv

-----------------------------------------------------------------------------
LEMMA TypeStep == TypeInv /\ [Next]_vars => TypeInv'
<1> SUFFICES ASSUME TypeInv, [Next]_vars PROVE TypeInv'
  OBVIOUS
<1>1. CASE Billing \/ (\E e \in Entities : EnqueueLost(e)) \/ Reconnect
  BY <1>1, BillingType
<1>2. CASE Calls \/ Operator
  BY <1>2, OperatorType
<1>3. ASSUME NEW w \in Workers, Work(w) \/ Failure(w) \/ Abandon(w) PROVE TypeInv'
  <2>1. CASE Abandon(w)
    <3>1. NoBatch \in Batches /\ WellFormed(NoBatch)
      BY DEF NoBatch, Batches, WellFormed, Busy
    <3> QED
      BY <2>1, <3>1, HandlerType DEF Abandon, billingVars, TypeInv, TypeOK
  <2> QED
    BY <1>3, <2>1, ClaimType, NextRowType, PushType, SettleType DEF Work
<1>4. CASE UNCHANGED vars
  BY <1>4 DEF vars, billingVars, TypeInv, TypeOK, WellFormed, RowInUse
<1> QED
  BY <1>1, <1>2, <1>3, <1>4 DEF Next

\* The table, the runs and the books keep their types whatever interleaves.
THEOREM TypeCorrect == Spec => []TypeOK
<1>1. TypeInv => TypeOK
  BY DEF TypeInv
<1> QED
  BY <1>1, InitType, TypeStep, PTL DEF Spec

-----------------------------------------------------------------------------
\* The idempotency lock.
LEMMA OneActiveStep ==
  ASSUME TypeInv, OneActiveRow, [Next]_vars
  PROVE  OneActiveRow'
<1>1. CASE UNCHANGED row
  BY <1>1 DEF OneActiveRow
\* A step that makes a row active finds no other active row of the entity.
<1>2. ASSUME NEW r \in Rows, ActiveRows(row'[r].entity) \subseteq {r},
             \A q \in Rows : q # r => row'[q] = row[q]
      PROVE  OneActiveRow'
  BY <1>2 DEF OneActiveRow, ActiveRows
\* A step that ends rows, or moves them between the active states.
<1>3. ASSUME \A x \in Rows : row'[x].entity = row[x].entity,
             \A x \in Rows : row'[x].status \in Active => row[x].status \in Active
      PROVE  OneActiveRow'
  <2> SUFFICES ASSUME NEW r \in Rows, NEW q \in Rows, r # q,
                      row'[r].status \in Active, row'[q].status \in Active
               PROVE  row'[r].entity # row'[q].entity
    BY Zenon DEF OneActiveRow
  <2>1. /\ row[r].status \in Active /\ row[q].status \in Active
        /\ row'[r].entity = row[r].entity /\ row'[q].entity = row[q].entity
    BY <1>3
  <2> QED
    BY <2>1 DEF OneActiveRow
<1>4. CASE Calls \/ Operator
  <2>1. ASSUME NEW e \in Entities, Insert(e) PROVE OneActiveRow'
    <3>1. ASSUME ActiveRows(e) = {}, NEW r \in Rows,
                 row' = [row EXCEPT ![r] = [entity |-> e, status |-> "pending", retries |-> 0]]
          PROVE  OneActiveRow'
      BY <1>2, <3>1 DEF TypeInv, TypeOK
    <3> QED
      BY <1>1, <2>1, <3>1 DEF Insert
  <2>2. ASSUME NEW e \in Entities, retrySync(e) PROVE OneActiveRow'
    <3>1. PICK r \in Rows :
            /\ ActiveRows(e) = {} /\ row[r].entity = e
            /\ row' = [row EXCEPT ![r].status = "pending", ![r].retries = 0]
      BY <2>2 DEF retrySync, Retryable
    <3>2. row'[r].entity = e /\ \A q \in Rows : q # r => row'[q] = row[q]
      BY <3>1 DEF TypeInv, TypeOK, SyncRows
    <3> QED
      BY <1>2, <3>1, <3>2
  <2> QED
    BY <1>1, <1>4, <2>1, <2>2 DEF Calls, Enqueue, Operator, manualSync
<1>5. ASSUME NEW w \in Workers, claimReadyJobs(w) PROVE OneActiveRow'
  BY <1>3, <1>5 DEF claimReadyJobs, TypeInv, TypeOK, SyncRows, Active
<1>6. ASSUME NEW w \in Workers, markCompleted(w) \/ markFailed(w) PROVE OneActiveRow'
  <2>1. PICK status \in {"completed", "failed", "dead_letter"}, n \in Nat :
          row' = [row EXCEPT ![worker[w].row].status = status, ![worker[w].row].retries = n]
    <3>1. worker[w].row \in Rows /\ worker[w].tries + 1 \in Nat
      BY <1>6 DEF markCompleted, markFailed, TypeInv, TypeOK, WellFormed, RowInUse, Busy, Batches
    <3>2. row[worker[w].row].retries \in Nat
      BY <3>1 DEF TypeInv, TypeOK, SyncRows
    <3> QED
      BY <1>6, <3>1, <3>2 DEF markCompleted, markFailed, Settle
  <2>2. \A q \in Rows : /\ row'[q].entity = row[q].entity
                        /\ row'[q].status \in Active => row[q].status \in Active
    BY <2>1 DEF TypeInv, TypeOK, SyncRows, Active
  <2> QED
    BY <1>3, <2>2
<1>7. ASSUME NEW w \in Workers, Promote(w) PROVE OneActiveRow'
  <2>1. worker[w].row \in Rows
    BY <1>7 DEF Promote, TypeInv, WellFormed, RowInUse, Busy
  <2>2. CASE UNCHANGED row
    BY <1>1, <2>2
  <2>3. CASE ~Blocked(w) /\ row' = [row EXCEPT ![worker[w].row].status = "pending"]
    BY <1>2, <2>1, <2>3 DEF Blocked, TypeInv, TypeOK, SyncRows
  <2> QED
    BY <1>7, <2>2, <2>3 DEF Promote
<1> QED
  BY <1>1, <1>4, <1>5, <1>6, <1>7
     DEF Next, vars, billingVars, Billing, Issue, RecordPayment, Write, CommitWrite, RollbackWrite,
         EnqueueLost, Reconnect, startConnect, completeConnect, disconnect,
         Work, NextRow, ReadEntity, findCompletedJob, Push, Failure, Throw, PushUnanswered, Abandon

\* enqueue, retrySync and the promotion of failed rows are independent transactions:
\* the partial unique index keeps one active row per entity between them.
THEOREM OneActiveRowHolds == Spec => []OneActiveRow
<1>1. Init => OneActiveRow
  BY DEF Init, OneActiveRow, Active
<1> QED
  BY <1>1, InitType, TypeStep, OneActiveStep, PTL DEF Spec

-----------------------------------------------------------------------------
\* Exclusive claims.  The inductive invariant adds what a run in the middle of a row
\* relies on: the row is no longer in its batch, and a failure was caught, so that the
\* unique violation of a promotion ends the run.
ClaimInv ==
  /\ TypeInv /\ ExclusiveClaim /\ conn = "connected"
  /\ \A w \in Workers :
       /\ Handling(w) => worker[w].row \notin worker[w].batch
       /\ worker[w].pc \in {"fail", "promote"} => worker[w].caught

LEMMA InitClaim == Init => ClaimInv
<1> SUFFICES ASSUME Init PROVE ClaimInv
  OBVIOUS
<1>1. TypeInv /\ conn = "connected"
  BY InitType DEF Init
<1>2. \A w \in Workers : Held(w) = {} /\ worker[w].pc = "idle"
  BY DEF Init, Held, Handling, NoBatch
<1> QED
  BY <1>1, <1>2 DEF ClaimInv, ExclusiveClaim, Handling

\* A step of nobody's run that leaves processing rows alone.
LEMMA OthersClaim ==
  ASSUME ClaimInv, TypeInv', UNCHANGED <<worker, conn>>,
         \A r \in Rows : row[r].status = "processing" => row'[r].status = "processing"
  PROVE  ClaimInv'
<1>1. \A w \in Workers : Held(w)' = Held(w) /\ Held(w) \subseteq Rows
  BY DEF ClaimInv, TypeInv, TypeOK, Batches, WellFormed, RowInUse, Busy, Held, Handling
<1>2. \A w \in Workers : \A r \in Held(w) : row'[r].status = "processing"
  BY <1>1 DEF ClaimInv, ExclusiveClaim
<1>3. ExclusiveClaim'
  BY <1>1, <1>2 DEF ClaimInv, ExclusiveClaim
<1> QED
  BY <1>3 DEF ClaimInv, Handling

\* A step of one run that keeps or gives up rows.
LEMMA OwnClaim ==
  ASSUME ClaimInv, TypeInv', UNCHANGED conn, NEW w \in Workers, NEW k \in Batches,
         worker' = [worker EXCEPT ![w] = k], Held(w)' \subseteq Held(w),
         \A r \in Held(w)' : row'[r].status = "processing",
         \A r \in Rows \ Held(w) : row[r].status = "processing" => row'[r].status = "processing",
         k.pc \in {"read", "lookup", "push", "complete", "fail"} => k.row \notin k.batch,
         k.pc \in {"fail", "promote"} => k.caught
  PROVE  ClaimInv'
<1>1. worker'[w] = k /\ \A x \in Workers : x # w => worker'[x] = worker[x]
  BY DEF ClaimInv, TypeInv, TypeOK
<1>2. \A x \in Workers : x # w => Held(x)' = Held(x)
  BY <1>1 DEF Held, Handling
<1>3. \A x \in Workers : Held(x) \subseteq Rows
  BY DEF ClaimInv, TypeInv, TypeOK, Batches, WellFormed, RowInUse, Busy, Held, Handling
<1>4. \A x \in Workers : \A r \in Held(x)' : row'[r].status = "processing"
  BY <1>2, <1>3 DEF ClaimInv, ExclusiveClaim
<1>5. \A x, y \in Workers : x # y => Held(x)' \cap Held(y)' = {}
  BY <1>2 DEF ClaimInv, ExclusiveClaim
<1>6. \A x \in Workers :
        /\ Handling(x)' => worker'[x].row \notin worker'[x].batch
        /\ worker'[x].pc \in {"fail", "promote"} => worker'[x].caught
  BY <1>1 DEF ClaimInv, Handling
<1> QED
  BY <1>4, <1>5, <1>6 DEF ClaimInv, ExclusiveClaim

LEMMA ClaimStep == ClaimInv /\ [SteadyNext]_vars => ClaimInv'
<1> SUFFICES ASSUME ClaimInv, [SteadyNext]_vars PROVE ClaimInv'
  OBVIOUS
<1>1. TypeInv'
  BY TypeStep DEF SteadyNext, Next, ClaimInv
<1>2. CASE UNCHANGED vars
  BY <1>1, <1>2, OthersClaim DEF vars
<1>3. CASE Billing \/ (\E e \in Entities : EnqueueLost(e))
  <2>1. UNCHANGED <<worker, conn, row>>
    BY <1>3 DEF Billing, Issue, RecordPayment, Write, CommitWrite, RollbackWrite, EnqueueLost
  <2> QED
    BY <1>1, <2>1, OthersClaim
<1>4. CASE Calls \/ Operator
  <2>1. UNCHANGED <<worker, conn>>
    BY <1>4 DEF Calls, Enqueue, Operator, manualSync, retrySync
  <2>2. \A r \in Rows : row[r].status = "processing" => row'[r].status = "processing"
    BY <1>4 DEF Calls, Enqueue, Operator, manualSync, retrySync, Insert, Retryable,
                ClaimInv, TypeInv, TypeOK
  <2> QED
    BY <1>1, <2>1, <2>2, OthersClaim
<1>5. ASSUME NEW w \in Workers, Work(w) \/ Failure(w) \/ Abandon(w) PROVE ClaimInv'
  <2> DEFINE b == worker[w]
  <2>0. /\ b \in Batches /\ WellFormed(b) /\ worker \in [Workers -> Batches]
        /\ row \in [Rows -> SyncRows] /\ Held(w) \subseteq Rows
    BY DEF ClaimInv, TypeInv, TypeOK, Batches, WellFormed, RowInUse, Busy, Held, Handling
  <2>n. NoBatch \in Batches /\ NoBatch.pc = "idle" /\ NoBatch.batch = {}
    BY DEF NoBatch, Batches
  <2>1. CASE claimReadyJobs(w)
    <3>1. PICK S \in SUBSET {r \in Rows : row[r].status = "pending"} :
            /\ row' = [r \in Rows |-> IF r \in S THEN [row[r] EXCEPT !.status = "processing"]
                                      ELSE row[r]]
            /\ SetWorker(w, [NoBatch EXCEPT !.pc = "next", !.batch = S])
      BY <2>1 DEF claimReadyJobs
    <3>2. /\ worker'[w] = [NoBatch EXCEPT !.pc = "next", !.batch = S]
          /\ \A x \in Workers : x # w => worker'[x] = worker[x]
      BY <2>0, <3>1 DEF SetWorker
    <3>3. Held(w)' = S /\ \A x \in Workers : x # w => Held(x)' = Held(x)
      BY <3>2 DEF Held, Handling, NoBatch
    <3>4. \A r \in S : row'[r].status = "processing" /\ row[r].status = "pending"
      BY <2>0, <3>1 DEF SyncRows
    <3>5. \A x \in Workers : Held(x) \subseteq Rows
      BY DEF ClaimInv, TypeInv, TypeOK, Batches, WellFormed, RowInUse, Busy, Held, Handling
    <3>6. \A x \in Workers : Held(x) \cap S = {}
      BY <3>4 DEF ClaimInv, ExclusiveClaim
    <3>7. \A x \in Workers : x # w => \A r \in Held(x) : row'[r].status = "processing"
      BY <3>1, <3>5, <3>6 DEF ClaimInv, ExclusiveClaim
    <3>8. ExclusiveClaim'
      BY <3>3, <3>4, <3>6, <3>7 DEF ClaimInv, ExclusiveClaim
    <3>9. \A x \in Workers :
            /\ Handling(x)' => worker'[x].row \notin worker'[x].batch
            /\ worker'[x].pc \in {"fail", "promote"} => worker'[x].caught
      BY <3>2 DEF ClaimInv, Handling, NoBatch
    <3> QED
      BY <1>1, <2>1, <3>8, <3>9 DEF ClaimInv, claimReadyJobs
  <2>2. CASE NextRow(w)
    <3>1. ASSUME NEW r \in b.batch,
                 SetWorker(w, [NoBatch EXCEPT !.batch = b.batch \ {r}, !.row = r,
                                 !.tries = row[r].retries, !.todo = PushOrder(row[r].entity),
                                 !.pc = IF conn = "connected" THEN "read" ELSE "fail"])
          PROVE  ClaimInv'
      <4> DEFINE k == [NoBatch EXCEPT !.batch = b.batch \ {r}, !.row = r,
                         !.tries = row[r].retries, !.todo = PushOrder(row[r].entity),
                         !.pc = IF conn = "connected" THEN "read" ELSE "fail"]
      <4>1. worker' = [worker EXCEPT ![w] = k] /\ worker'[w] = k
        BY <2>0, <3>1 DEF SetWorker
      <4>2. k.pc = "read" /\ k.row = r /\ k.batch = b.batch \ {r}
        BY DEF ClaimInv, NoBatch
      <4>3. k \in Batches
        BY <1>1, <4>1 DEF TypeInv, TypeOK
      <4> HIDE DEF k
      <4>4. Held(w)' = b.batch
        BY <4>1, <4>2, <3>1 DEF Held, Handling
      <4>5. b.batch \subseteq Held(w) /\ UNCHANGED <<row, conn>>
        BY <2>2 DEF Held, NextRow
      <4>6. \A q \in b.batch : row'[q].status = "processing"
        BY <4>5 DEF ClaimInv, ExclusiveClaim
      <4> QED
        BY <1>1, <4>1, <4>2, <4>3, <4>4, <4>5, <4>6, OwnClaim
    <3>2. CASE SetWorker(w, NoBatch)
      <4>1. worker' = [worker EXCEPT ![w] = NoBatch] /\ worker'[w] = NoBatch
        BY <2>0, <3>2 DEF SetWorker
      <4>2. Held(w)' = {} /\ UNCHANGED <<row, conn>>
        BY <2>2, <2>n, <4>1 DEF Held, Handling, NextRow
      <4> QED
        BY <1>1, <2>n, <4>1, <4>2, OwnClaim
    <3> QED
      BY <2>2, <3>1, <3>2 DEF NextRow
  \* Steps inside a row: the run holds what it held, and the table is not touched.
  <2>3. ASSUME NEW k \in Batches, SetWorker(w, k), k.batch = b.batch, k.row = b.row,
               Handling(w), UNCHANGED <<row, conn>>,
               k.pc \in {"read", "lookup", "push", "complete", "fail"}, k.pc = "fail" => k.caught
        PROVE  ClaimInv'
    <3>1. worker' = [worker EXCEPT ![w] = k] /\ worker'[w] = k
      BY <2>0, <2>3 DEF SetWorker
    <3>2. Held(w)' = Held(w)
      BY <2>3, <3>1 DEF Held, Handling
    <3>3. \A r \in Held(w) : row'[r].status = "processing"
      BY <2>3 DEF ClaimInv, ExclusiveClaim
    <3>4. k.row \notin k.batch
      BY <2>3 DEF ClaimInv
    <3>5. k.pc \in {"fail", "promote"} => k.caught
      BY <2>3
    <3> QED
      BY <1>1, <2>3, <3>1, <3>2, <3>3, <3>4, <3>5, OwnClaim
  <2>4. CASE ReadEntity(w) \/ findCompletedJob(w) \/ Push(w) \/ Failure(w)
    <3>1. worker'[w] \in Batches
      BY <1>1 DEF TypeInv, TypeOK
    <3>2. /\ SetWorker(w, worker'[w]) /\ worker'[w].batch = b.batch /\ worker'[w].row = b.row
          /\ worker'[w].pc \in {"read", "lookup", "push", "complete", "fail"}
          /\ worker'[w].pc = "fail" => worker'[w].caught
      <4>0. ASSUME Caught(w)
            PROVE  /\ SetWorker(w, worker'[w]) /\ worker'[w].batch = b.batch
                   /\ worker'[w].row = b.row /\ worker'[w].pc = "fail" /\ worker'[w].caught
        <5> DEFINE k == [b EXCEPT !.pc = "fail", !.caught = TRUE]
        <5>1. k.batch = b.batch /\ k.row = b.row /\ k.pc = "fail"
          BY <2>0 DEF Batches
        <5>2. k.caught
          BY <2>0, Zenon DEF Batches
        <5>3. worker' = [worker EXCEPT ![w] = k]
          BY <4>0 DEF Caught, SetWorker
        <5> HIDE DEF k
        <5>4. worker'[w] = k
          BY <2>0, <5>3
        <5> QED
          BY <5>1, <5>2, <5>3, <5>4 DEF SetWorker
      <4>1. CASE ReadEntity(w)
        <5>1. CASE Caught(w)
          BY <4>0, <5>1
        <5>2. CASE ~Caught(w)
          <6>1. SetWorker(w, [b EXCEPT !.version = version[Head(b.todo)], !.pc = "lookup"])
            BY <4>1, <5>2 DEF ReadEntity
          <6> QED
            BY <2>0, <6>1 DEF SetWorker, Batches
        <5> QED
          BY <5>1, <5>2
      <4>2. CASE findCompletedJob(w)
        BY <2>0, <4>2 DEF findCompletedJob, SetWorker, Batches
      <4>3. CASE Push(w)
        BY <2>0, <4>3 DEF Push, SetWorker, Batches
      <4>4. CASE Failure(w)
        BY <4>0, <4>4 DEF Failure, Throw, PushUnanswered
      <4> QED
        BY <2>4, <4>1, <4>2, <4>3, <4>4
    <3>3. Handling(w) /\ UNCHANGED <<row, conn>>
      BY <2>4 DEF ReadEntity, findCompletedJob, Push, Failure, Throw, PushUnanswered, Handling
    <3> QED
      BY <2>3, <3>1, <3>2, <3>3
  \* Steps that end a row: it was the run's own.
  <2>5. CASE markCompleted(w) \/ markFailed(w)
    <3>1. worker'[w] \in Batches /\ worker' = [worker EXCEPT ![w] = worker'[w]]
      BY <1>1, <2>0, <2>5 DEF TypeInv, TypeOK, markCompleted, markFailed, SetWorker
    <3>2. /\ worker'[w].batch = b.batch /\ worker'[w].pc \in {"next", "promote"}
          /\ worker'[w].pc = "promote" => b.pc = "fail" /\ worker'[w].caught = b.caught
      BY <2>0, <2>5 DEF markCompleted, markFailed, SetWorker, Batches
    <3>3. b.row \in Held(w) /\ b.row \notin b.batch /\ Held(w)' = b.batch
      BY <2>5, <3>2 DEF markCompleted, markFailed, Held, Handling, ClaimInv
    <3>4. \A r \in Rows : r # b.row => row'[r] = row[r]
      BY <2>0, <2>5 DEF markCompleted, markFailed, Settle
    <3>5. Held(w)' \subseteq Held(w) /\ \A r \in Held(w)' : row'[r].status = "processing"
      BY <2>0, <3>3, <3>4 DEF Held, ClaimInv, ExclusiveClaim
    <3>6. \A r \in Rows \ Held(w) : row[r].status = "processing" => row'[r].status = "processing"
      BY <3>3, <3>4
    <3>7. worker'[w].pc \in {"fail", "promote"} => worker'[w].caught
      <4>1. CASE worker'[w].pc = "promote"
        <5>1. b.pc \in {"fail", "promote"} => b.caught
          BY DEF ClaimInv
        <5> QED
          BY <3>2, <4>1, <5>1
      <4>2. CASE worker'[w].pc # "promote"
        BY <3>2, <4>2
      <4> QED
        BY <4>1, <4>2
    <3> QED
      BY <1>1, <2>5, <3>1, <3>2, <3>5, <3>6, <3>7, OwnClaim DEF markCompleted, markFailed
  <2>6. CASE Promote(w)
    <3>1. worker'[w] \in Batches /\ worker' = [worker EXCEPT ![w] = worker'[w]]
      BY <1>1, <2>0, <2>6 DEF TypeInv, TypeOK, Promote, Caught, SetWorker
    <3>2. b.caught
      BY <2>6 DEF Promote, ClaimInv
    <3>3. worker'[w].batch \subseteq b.batch /\ worker'[w].pc \in {"next", "idle"}
      <4>1. SetWorker(w, [b EXCEPT !.pc = "next"]) \/ SetWorker(w, NoBatch)
        BY <2>6, <3>2 DEF Promote
      <4>2. CASE SetWorker(w, [b EXCEPT !.pc = "next"])
        BY <2>0, <4>2 DEF SetWorker, Batches
      <4>3. CASE SetWorker(w, NoBatch)
        <5>1. worker'[w] = NoBatch
          BY <2>0, <4>3 DEF SetWorker
        <5> QED
          BY <2>n, <5>1
      <4> QED
        BY <4>1, <4>2, <4>3
    <3>4. Held(w)' \subseteq b.batch /\ b.batch \subseteq Held(w)
      BY <3>3 DEF Held, Handling
    <3>5. \A r \in Rows : row[r].status = "processing" => row'[r].status = "processing"
      BY <2>0, <2>6 DEF Promote
    <3>6. \A r \in Held(w)' : row'[r].status = "processing"
      BY <2>0, <3>4, <3>5 DEF ClaimInv, ExclusiveClaim
    <3> QED
      BY <1>1, <2>6, <3>1, <3>3, <3>4, <3>5, <3>6, OwnClaim DEF Promote
  <2>7. CASE Abandon(w)
    <3>1. worker' = [worker EXCEPT ![w] = NoBatch] /\ worker'[w] = NoBatch
      BY <2>0, <2>7 DEF Abandon, SetWorker
    <3>2. Held(w)' = {} /\ UNCHANGED <<row, conn>>
      BY <2>7, <2>n, <3>1 DEF Held, Handling, Abandon
    <3> QED
      BY <1>1, <2>n, <3>1, <3>2, OwnClaim
  <2> QED
    BY <1>5, <2>1, <2>2, <2>4, <2>5, <2>6, <2>7 DEF Work
<1> QED
  BY <1>2, <1>3, <1>4, <1>5 DEF SteadyNext

\* The claim of a batch is exclusive to the end although markCompleted and markFailed
\* update by id alone, as long as the connection stays up.
THEOREM ExclusiveClaimHolds == SteadySpec => []ExclusiveClaim
<1>1. ClaimInv => ExclusiveClaim
  BY DEF ClaimInv
<1> QED
  BY <1>1, InitClaim, ClaimStep, PTL DEF SteadySpec

\* A completed row is never written again: every write goes to a row that is
\* processing and the writer's own, or failed, or not there yet.
LEMMA CompletedStep ==
  ASSUME ClaimInv, [SteadyNext]_vars, NEW r \in Rows, row[r].status = "completed"
  PROVE  row'[r] = row[r]
<1>0. row \in [Rows -> SyncRows]
  BY DEF ClaimInv, TypeInv, TypeOK
<1>1. CASE Calls \/ Operator
  BY <1>0, <1>1 DEF Calls, Enqueue, Operator, manualSync, retrySync, Insert, Retryable
<1>2. ASSUME NEW w \in Workers, markCompleted(w) \/ markFailed(w) PROVE row'[r] = row[r]
  <2>1. worker[w].row \in Held(w)
    BY <1>2 DEF markCompleted, markFailed, Held, Handling
  <2>2. worker[w].row # r
    BY <2>1 DEF ClaimInv, ExclusiveClaim
  <2> QED
    BY <1>0, <1>2, <2>2 DEF markCompleted, markFailed, Settle
<1>3. ASSUME NEW w \in Workers, Promote(w) \/ claimReadyJobs(w) PROVE row'[r] = row[r]
  BY <1>0, <1>3 DEF Promote, claimReadyJobs
<1> QED
  BY <1>1, <1>2, <1>3
     DEF SteadyNext, vars, Billing, Issue, RecordPayment, Write, CommitWrite, RollbackWrite,
         EnqueueLost, Work, NextRow, ReadEntity, findCompletedJob, Push, Failure, Throw,
         PushUnanswered, Abandon

\* No late failure overwrites a success, while the connection stays up.
THEOREM CompletedIsFinalHolds == SteadySpec => CompletedIsFinal
<1>1. ClaimInv /\ [SteadyNext]_vars =>
        [\A r \in Rows : row[r].status = "completed" => row'[r] = row[r]]_vars
  BY CompletedStep
<1> QED
  BY <1>1, InitClaim, ClaimStep, PTL DEF SteadySpec, CompletedIsFinal

-----------------------------------------------------------------------------
(***************************************************************************)
(* Storage fees.  First the sums of the amounts of finitely many rows: the *)
(* recursion of MapThenSumSet has one solution.                            *)
(***************************************************************************)
First(s) == CHOOSE x \in s : TRUE

Adds(g, f, T) ==
  /\ g = [s \in SUBSET T |-> g[s]]
  /\ \A s \in SUBSET T : g[s] = IF s = {} THEN 0 ELSE f[First(s)] + g[s \ {First(s)}]

Sum(f, S) == (CHOOSE g : Adds(g, f, S))[S]

LEMMA FirstOf ==
  ASSUME NEW s, s # {}
  PROVE  First(s) \in s /\ s \ {First(s)} \subseteq s /\ s \ {First(s)} # s
BY DEF First

\* What is true of no least subset is true of none.
LEMMA LeastSubset ==
  ASSUME NEW S, IsFiniteSet(S), NEW B \in SUBSET (SUBSET S), B # {}
  PROVE  \E s \in B : \A t \in B : t \subseteq s => t = s
<1>1. B \subseteq FiniteSubsetsOf(S)
  BY FS_Subset DEF FiniteSubsetsOf
<1>2. \E s \in B : \A t \in B : ~(<<t, s>> \in StrictSubsetOrdering(S))
  BY <1>1, FS_StrictSubsetOrderingWellFounded, WFMin
<1>3. \A s, t \in B : t \subseteq s /\ t # s => <<t, s>> \in StrictSubsetOrdering(S)
  BY DEF StrictSubsetOrdering
<1> QED
  BY <1>2, <1>3

LEMMA AddsOnce ==
  ASSUME NEW S, IsFiniteSet(S), NEW T \in SUBSET S, NEW U \in SUBSET S,
         NEW f, NEW g, Adds(g, f, T), NEW h, Adds(h, f, U),
         NEW V \in SUBSET T, V \subseteq U
  PROVE  g[V] = h[V]
<1> DEFINE B == {s \in SUBSET V : g[s] # h[s]}
<1>1. SUFFICES ASSUME B # {} PROVE FALSE
  OBVIOUS
<1>2. PICK s \in B : \A t \in B : t \subseteq s => t = s
  <2>1. B \in SUBSET (SUBSET S)
    OBVIOUS
  <2> HIDE DEF B
  <2> QED
    BY <1>1, <2>1, LeastSubset
<1>3. s # {}
  BY DEF Adds
<1>4. s \ {First(s)} \in SUBSET V /\ s \ {First(s)} \notin B
  BY <1>2, <1>3, FirstOf
<1>5. g[s \ {First(s)}] = h[s \ {First(s)}]
  BY <1>4
<1>6. /\ g[s] = f[First(s)] + g[s \ {First(s)}]
      /\ h[s] = f[First(s)] + h[s \ {First(s)}]
  BY <1>3 DEF Adds
<1> QED
  BY <1>5, <1>6

LEMMA AddsTo ==
  ASSUME NEW S, IsFiniteSet(S), NEW f, \A x \in S : f[x] \in Int
  PROVE  \E g : Adds(g, f, S) /\ g \in [SUBSET S -> Int]
<1> DEFINE Good(T, g) == Adds(g, f, T) /\ g \in [SUBSET T -> Int]
           B == {T \in SUBSET S : ~\E g : Good(T, g)}
<1>1. SUFFICES ASSUME B # {} PROVE FALSE
  OBVIOUS
<1>2. PICK T \in B : \A U \in B : U \subseteq T => U = T
  <2>1. B \in SUBSET (SUBSET S)
    OBVIOUS
  <2> HIDE DEF B
  <2> QED
    BY <1>1, <2>1, LeastSubset
<1> DEFINE G(U) == CHOOSE g : Good(U, g)
           At(s) == G(s)[s]
<1>3. \A U \in SUBSET T : U # T => Good(U, G(U))
  BY <1>2
<1>4. ASSUME NEW U \in SUBSET T, U # T, NEW s \in SUBSET U
      PROVE  At(s) = G(U)[s] /\ At(s) \in Int
  <2>1. Good(U, G(U)) /\ Good(s, G(s)) /\ T \in SUBSET S
    BY <1>3, <1>4
  <2> HIDE DEF G
  <2>2. At(s) = G(U)[s]
    BY <1>4, <2>1, AddsOnce
  <2> QED
    BY <2>1, <2>2
<1> DEFINE top == IF T = {} THEN 0 ELSE f[First(T)] + At(T \ {First(T)})
           g == [s \in SUBSET T |-> IF s = T THEN top ELSE At(s)]
<1>5. T # {} => First(T) \in T /\ T \ {First(T)} \in SUBSET T /\ T \ {First(T)} # T
  BY FirstOf
<1> HIDE DEF At
<1>6. top \in Int
  <2>1. CASE T # {}
    <3>1. At(T \ {First(T)}) \in Int
      BY <1>4, <1>5, <2>1
    <3>2. f[First(T)] \in Int
      BY <1>2, <1>5, <2>1
    <3> QED
      BY <2>1, <3>1, <3>2
  <2> QED
    BY <2>1
<1>7. g \in [SUBSET T -> Int]
  BY <1>4, <1>6
<1>8. ASSUME NEW s \in SUBSET T
      PROVE  g[s] = IF s = {} THEN 0 ELSE f[First(s)] + g[s \ {First(s)}]
  <2>1. CASE s = T
    BY <1>5, <2>1
  <2>2. CASE s # T
    <3>1. s # {} => s \ {First(s)} \in SUBSET s /\ s \ {First(s)} # T
      BY <2>2, FirstOf
    <3>2. Adds(G(s), f, s)
      BY <1>3, <2>2
    <3> HIDE DEF G
    <3>3. G(s)[s] = IF s = {} THEN 0 ELSE f[First(s)] + G(s)[s \ {First(s)}]
      BY <3>2 DEF Adds
    <3>4. At(s) = G(s)[s] /\ (s # {} => At(s \ {First(s)}) = G(s)[s \ {First(s)}])
      BY <1>4, <2>2, <3>1
    <3> QED
      BY <2>2, <3>1, <3>3, <3>4
  <2> QED
    BY <2>1, <2>2
<1>9. Good(T, g)
  <2> HIDE DEF top, G
  <2>1. g = [s \in SUBSET T |-> g[s]]
    OBVIOUS
  <2> QED
    BY <1>7, <1>8, <2>1 DEF Adds
<1> HIDE DEF Good, g
<1> QED
  BY <1>2, <1>9

\* The sum is the one number the recursion can come to.
LEMMA SumIs ==
  ASSUME NEW S, IsFiniteSet(S), NEW f, \A x \in S : f[x] \in Int
  PROVE  /\ \A T \in SUBSET S : Sum(f, T) \in Int
         /\ \A T \in SUBSET S : \A h : Adds(h, f, T) =>
              \A s \in SUBSET T : h[s] = Sum(f, s)
<1>1. ASSUME NEW T \in SUBSET S
      PROVE  \E g : Adds(g, f, T) /\ g \in [SUBSET T -> Int] /\ Sum(f, T) = g[T]
  <2> DEFINE k == CHOOSE g : Adds(g, f, T)
  <2>1. IsFiniteSet(T)
    BY FS_Subset
  <2>2. PICK g : Adds(g, f, T) /\ g \in [SUBSET T -> Int]
    BY <2>1, AddsTo
  <2>3. Adds(k, f, T)
    BY <2>2
  <2> HIDE DEF k
  <2>4. k[T] = g[T]
    BY <2>2, <2>3, AddsOnce
  <2> QED
    BY <2>2, <2>4 DEF Sum, k
<1>2. ASSUME NEW T \in SUBSET S, NEW h, Adds(h, f, T), NEW s \in SUBSET T
      PROVE  h[s] = Sum(f, s)
  <2>1. s \in SUBSET S /\ s \in SUBSET s
    OBVIOUS
  <2>2. PICK g : Adds(g, f, s) /\ Sum(f, s) = g[s]
    BY <1>1, <2>1
  <2>3. g[s] = h[s]
    BY <1>2, <2>1, <2>2, AddsOnce
  <2> QED
    BY <2>2, <2>3
<1>3. ASSUME NEW T \in SUBSET S
      PROVE  Sum(f, T) \in Int
  <2>1. PICK g : g \in [SUBSET T -> Int] /\ Sum(f, T) = g[T]
    BY <1>1
  <2>2. T \in SUBSET T
    OBVIOUS
  <2>3. g[T] \in Int
    BY <2>1, <2>2
  <2> QED
    BY <2>1, <2>3
<1> QED
  BY <1>2, <1>3, Zenon

LEMMA SumFirst ==
  ASSUME NEW S, IsFiniteSet(S), NEW f, \A x \in S : f[x] \in Int
  PROVE  /\ Sum(f, {}) = 0
         /\ \A T \in SUBSET S : T # {} => Sum(f, T) = f[First(T)] + Sum(f, T \ {First(T)})
<1>1. PICK g : Adds(g, f, S)
  BY AddsTo
<1>2. \A T \in SUBSET S : Sum(f, T) = g[T]
  BY <1>1, SumIs
<1> QED
  BY <1>1, <1>2, FirstOf DEF Adds

-----------------------------------------------------------------------------
\* The days a sweep's request would bill, from what it has read.
Plan(q) == planDailyAccrual(q.read, q.now)
Sweeping(q) == q.op = "accrue"
Inserting(q) == Sweeping(q) /\ q.pc \in {"write", "commit"} /\ q.inserted > 0

SameCharges(a, b) == a.started = b.started /\ a.accrued = b.accrued /\ a.through = b.through

\* What a request is about.
Sound(c) ==
  LET q == tx[c]
      record == rec.row[q.record] IN
  /\ q.pc = "idle" => q = Idle
  /\ q.pc # "idle" => q.record \in Records /\ q.op # "none"
  /\ q.pc = "days" => Sweeping(q)
  /\ q.pc \in {"holds", "insert"} => q.op = "release"
  /\ Sweeping(q) =>
       /\ c \in Sweepers /\ q.record \in todo[c] /\ q.pc \in {"days", "write", "commit"}
       /\ q.now = today /\ q.read.status # "none" /\ q.read.started = record.started
  /\ q.op = "intake" =>
       /\ record = NotTakenIn /\ q.now \in Days
       /\ \A d \in Conns \ {c} : tx[d].record # q.record
  /\ q.op \in {"update", "close", "release"} => record.status # "none"

TakenIn(r) ==
  LET record == rec.row[r] IN
  IF record.status = "none" THEN record = NotTakenIn
  ELSE record.started \in Days /\ record.through \in {0} \cup (record.started..today)

\* The uncommitted version of a record.
Writing(r) ==
  LET c == rec.lock[r]
      new == rec.new[r]
      q == tx[c] IN
  IF c = NoConn THEN new = rec.row[r]
  ELSE /\ q.record = r /\ q.pc = "commit" /\ new.status # "none"
       /\ IF q.op = "intake" THEN new.started \in Days /\ new.accrued = 0 /\ new.through = 0
          ELSE IF Inserting(q)
          THEN /\ new.started = rec.row[r].started
               /\ new.accrued = q.read.accrued + q.inserted * q.read.fee
               /\ new.through = Max(Plan(q))
          ELSE SameCharges(new, rec.row[r])

\* and of a storage row.
BilledBy(r, d) ==
  LET k == <<r, d>>
      c == storage.lock[k] IN
  IF c = NoConn THEN storage.new[k] = storage.row[k]
  ELSE Inserting(tx[c]) /\ tx[c].record = r /\ d \in Plan(tx[c])

\* A sweep that has inserted days holds them all, and its reading is what is committed;
\* one that has still to insert has this too, or the days are billed already.
Holding(c) ==
  LET q == tx[c]
      record == rec.row[q.record] IN
  /\ Inserting(q) =>
       /\ SameCharges(q.read, record) /\ q.inserted = Cardinality(Plan(q))
       /\ \A d \in Plan(q) :
            /\ storage.lock[<<q.record, d>>] = c
            /\ storage.row[<<q.record, d>>] = 0
            /\ storage.new[<<q.record, d>>] = q.read.fee
       /\ q.pc = "commit" => rec.lock[q.record] = c
  /\ q.pc = "days" => SameCharges(q.read, record) \/ Plan(q) \subseteq DaysBilled(q.record)

\* What the storage rows of a record come to.
Charges(rows, r) == [d \in Days |-> rows[<<r, d>>]]

\* What a record has been charged matches its storage rows.
Matches(record, rows, r) ==
  /\ record.accrued = Sum(Charges(rows, r), Days)
  /\ \A d \in Days :
       rows[<<r, d>>] > 0 <=> record.through > 0 /\ d \in record.started..record.through

YardInv ==
  /\ ImpoundConstants /\ StorageTypeOK
  /\ \A c \in Sweepers : \A r \in todo[c] : rec.row[r].status # "none"
  /\ \A c \in Conns : Sound(c)
  /\ \A r \in Records : TakenIn(r) /\ Writing(r)
  /\ \A r \in Records, d \in Days : BilledBy(r, d)
  /\ \A c \in Conns : Holding(c)
  /\ \A r \in Records : Matches(rec.row[r], storage.row, r)

-----------------------------------------------------------------------------
\* The tables of RowLocks: what Committed and RolledBack make of a row,
LEMMA TableSteps ==
  ASSUME NEW Ids, NEW R, NEW t \in Tables(Ids, R), NEW c \in Conns
  PROVE  /\ Committed(t, c) \in Tables(Ids, R) /\ RolledBack(t, c) \in Tables(Ids, R)
         /\ RolledBack(t, c).row = t.row
         /\ \A x \in Ids :
              /\ Committed(t, c).row[x] = (IF t.lock[x] = c THEN t.new[x] ELSE t.row[x])
              /\ Committed(t, c).new[x] = t.new[x]
              /\ RolledBack(t, c).row[x] = t.row[x]
              /\ RolledBack(t, c).new[x] = (IF t.lock[x] = c THEN t.row[x] ELSE t.new[x])
              /\ Committed(t, c).lock[x] = (IF t.lock[x] = c THEN NoConn ELSE t.lock[x])
              /\ RolledBack(t, c).lock[x] = (IF t.lock[x] = c THEN NoConn ELSE t.lock[x])
BY DEF Committed, RolledBack, Released, Tables

\* and Written.
LEMMA TableWrite ==
  ASSUME NEW Ids, NEW R, NEW t \in Tables(Ids, R), NEW c \in Conns,
         NEW x \in Ids, NEW r \in R
  PROVE  /\ Written(t, c, x, r) \in Tables(Ids, R)
         /\ Written(t, c, x, r).row = t.row
         /\ Written(t, c, x, r).new[x] = r /\ Written(t, c, x, r).lock[x] = c
         /\ \A y \in Ids \ {x} : /\ Written(t, c, x, r).new[y] = t.new[y]
                                 /\ Written(t, c, x, r).lock[y] = t.lock[y]
BY DEF Written, Tables

-----------------------------------------------------------------------------
LEMMA SumZero ==
  ASSUME NEW S, IsFiniteSet(S), NEW f, \A x \in S : f[x] = 0
  PROVE  Sum(f, S) = 0
<1> DEFINE B == {T \in SUBSET S : Sum(f, T) # 0}
<1>1. SUFFICES ASSUME B # {} PROVE FALSE
  OBVIOUS
<1>2. PICK T \in B : \A U \in B : U \subseteq T => U = T
  <2>1. B \in SUBSET (SUBSET S)
    OBVIOUS
  <2> HIDE DEF B
  <2> QED
    BY <1>1, <2>1, LeastSubset
<1>3. \A x \in S : f[x] \in Int
  OBVIOUS
<1>4. T # {}
  BY <1>2, <1>3, SumFirst
<1>5. First(T) \in S /\ f[First(T)] = 0 /\ Sum(f, T \ {First(T)}) = 0
  BY <1>2, <1>4, FirstOf
<1> QED
  BY <1>2, <1>3, <1>4, <1>5, SumFirst

\* One amount put on each member of T.
RaisedOn(S, T, a, f, g) ==
  (\A x \in S \ T : g[x] = f[x]) /\ (\A x \in T : g[x] = f[x] + a)

\* Raising some amounts by the same raises the sum by that many times it.
LEMMA SumRaise ==
  ASSUME NEW S, IsFiniteSet(S), NEW T \in SUBSET S, NEW a \in Int,
         NEW f, \A x \in S : f[x] \in Int, NEW g, RaisedOn(S, T, a, f, g)
  PROVE  Sum(g, S) = Sum(f, S) + Cardinality(T) * a
<1>0. (\A x \in S \ T : g[x] = f[x]) /\ (\A x \in T : g[x] = f[x] + a)
  BY DEF RaisedOn
<1> DEFINE Raised(U) == Sum(g, U) = Sum(f, U) + Cardinality(T \cap U) * a
           B == {U \in SUBSET S : ~Raised(U)}
<1>1. \A x \in S : g[x] \in Int
  BY <1>0
<1>2. SUFFICES ASSUME B # {} PROVE FALSE
  <2>1. T \cap S = T /\ S \in SUBSET S
    OBVIOUS
  <2> QED
    BY <2>1
<1>3. PICK U \in B : \A V \in B : V \subseteq U => V = U
  <2>1. B \in SUBSET (SUBSET S)
    OBVIOUS
  <2> HIDE DEF B
  <2> QED
    BY <1>2, <2>1, LeastSubset
<1> DEFINE x == First(U)
           V == U \ {x}
<1>4. U # {}
  <2>1. T \cap {} = {} /\ Cardinality({}) = 0 /\ 0 * a = 0
    BY FS_EmptySet
  <2>2. Sum(g, {}) = 0 /\ Sum(f, {}) = 0
    BY <1>1, SumFirst
  <2>3. Raised({})
    BY <2>1, <2>2
  <2> HIDE DEF Raised
  <2> QED
    BY <1>3, <2>3
<1>5. x \in U /\ V \in SUBSET S /\ V # U /\ x \in S
  BY <1>3, <1>4, FirstOf
<1>6. Raised(V)
  BY <1>3, <1>5
<1>7. Sum(g, U) = g[x] + Sum(g, V) /\ Sum(f, U) = f[x] + Sum(f, V)
  BY <1>1, <1>3, <1>4, SumFirst
<1>8. Sum(f, V) \in Int /\ Sum(g, V) \in Int /\ f[x] \in Int /\ g[x] \in Int
  BY <1>1, <1>5, SumIs
<1>9. IsFiniteSet(T \cap V) /\ Cardinality(T \cap V) \in Nat
  <2>1. T \cap V \subseteq S
    OBVIOUS
  <2> QED
    BY <2>1, FS_Subset, FS_CardinalityType
<1> DEFINE n == Cardinality(T \cap V)
<1>10. CASE x \in T
  <2>1. T \cap U = (T \cap V) \cup {x} /\ x \notin T \cap V
    BY <1>5, <1>10
  <2>2. Cardinality(T \cap U) = Cardinality(T \cap V) + 1
    BY <1>9, <2>1, FS_AddElement
  <2>3. (Cardinality(T \cap V) + 1) * a = Cardinality(T \cap V) * a + a
    BY <1>9
  <2>4. Cardinality(T \cap V) * a \in Int
    BY <1>9
  <2>5. Raised(U)
    BY <1>0, <1>5, <1>6, <1>7, <1>8, <1>10, <2>2, <2>3, <2>4
  <2> HIDE DEF Raised
  <2> QED
    BY <1>3, <2>5
<1>11. CASE x \notin T
  <2>1. T \cap U = T \cap V
    BY <1>5, <1>11
  <2>2. n * a \in Int /\ g[x] = f[x]
    BY <1>0, <1>5, <1>9, <1>11
  <2> HIDE DEF x, V
  <2>3. Sum(g, V) = Sum(f, V) + n * a
    BY <1>6
  <2> HIDE DEF n
  <2>4. Sum(g, U) = Sum(f, U) + n * a
    BY <1>7, <1>8, <2>2, <2>3
  <2>5. Raised(U)
    BY <2>1, <2>4 DEF n
  <2> HIDE DEF Raised
  <2> QED
    BY <1>3, <2>5
<1> QED
  BY <1>10, <1>11

\* MapThenSumSet over the rows of a record is that sum.
LEMMA DaySum ==
  ASSUME NEW S, IsFiniteSet(S), NEW rows, NEW r, \A d \in S : rows[<<r, d>>] \in Int
  PROVE  LET amount(d) == rows[<<r, d>>]
         IN  MapThenSumSet(amount, S) = Sum([d \in S |-> rows[<<r, d>>]], S)
<1> DEFINE f == [d \in S |-> rows[<<r, d>>]]
           Rec(h) == h = [s \in SUBSET S |->
                       IF s = {} THEN 0
                       ELSE rows[<<r, CHOOSE x \in s : TRUE>>] + h[s \ {CHOOSE x \in s : TRUE}]]
           iter == CHOOSE h : Rec(h)
           amount(d) == rows[<<r, d>>]
<1>1. \A x \in S : f[x] \in Int
  OBVIOUS
<1>2. PICK g : Adds(g, f, S)
  <2> HIDE DEF f
  <2> QED
    BY <1>1, AddsTo
<1>3. \A h : Adds(h, f, S) <=> Rec(h)
  <2> TAKE h
  <2> DEFINE at(s) == rows[<<r, CHOOSE x \in s : TRUE>>]
  <2>1. \A s \in SUBSET S : s # {} => f[First(s)] = at(s)
    BY FirstOf DEF First
  <2>2. Rec(h) <=> h = [s \in SUBSET S |-> IF s = {} THEN 0
                                           ELSE at(s) + h[s \ {CHOOSE x \in s : TRUE}]]
    OBVIOUS
  <2> HIDE DEF f, at, Rec
  <2>3. Adds(h, f, S) => h = [s \in SUBSET S |-> IF s = {} THEN 0
                                           ELSE at(s) + h[s \ {CHOOSE x \in s : TRUE}]]
    BY <2>1 DEF Adds, First
  <2>4. h = [s \in SUBSET S |-> IF s = {} THEN 0 ELSE at(s) + h[s \ {CHOOSE x \in s : TRUE}]]
          => Adds(h, f, S)
    BY <2>1 DEF Adds, First
  <2> QED
    BY <2>2, <2>3, <2>4
<1>4. Adds(iter, f, S)
  <2> HIDE DEF f, Rec
  <2> QED
    BY <1>2, <1>3, Zenon
<1>5. MapThenSumSet(amount, S) = iter[S]
  BY DEF MapThenSumSet, MapThenFoldSet
<1> HIDE DEF f, iter
<1>6. iter[S] = Sum(f, S)
  <2>1. S \in SUBSET S
    OBVIOUS
  <2>2. \A h : Adds(h, f, S) => \A s \in SUBSET S : h[s] = Sum(f, s)
    BY <1>1, <2>1, SumIs, Zenon
  <2>3. \A s \in SUBSET S : iter[s] = Sum(f, s)
    BY <1>4, <2>2, Zenon
  <2> QED
    BY <2>1, <2>3
<1> QED
  BY <1>5, <1>6 DEF f

\* The bounds leave finitely many days.
LEMMA YardDays == ASSUME ImpoundConstants PROVE IsFiniteSet(Days)
BY FS_Interval DEF ImpoundConstants, Days

ChargedAs(record, rows, r) ==
  LET amount(d) == rows[<<r, d>>] IN
  /\ record.accrued = MapThenSumSet(amount, Days)
  /\ {d \in Days : rows[<<r, d>>] > 0}
       = IF record.through = 0 THEN {} ELSE record.started..record.through

\* The property as the invariant says it.
LEMMA MatchesIs ==
  ASSUME ImpoundConstants, NEW rows \in [Records \X Days -> Nat], NEW r \in Records, NEW record,
         record.through \in Nat, record.through = 0 \/ record.started..record.through \subseteq Days
  PROVE  ChargedAs(record, rows, r) <=> Matches(record, rows, r)
<1> DEFINE amount(d) == rows[<<r, d>>]
<1>1. \A d \in Days : rows[<<r, d>>] \in Int
  OBVIOUS
<1>2. MapThenSumSet(amount, Days) = Sum(Charges(rows, r), Days)
  BY <1>1, DaySum, YardDays DEF Charges
<1>3. {d \in Days : rows[<<r, d>>] > 0}
        = (IF record.through = 0 THEN {} ELSE record.started..record.through)
      <=> \A d \in Days :
            rows[<<r, d>>] > 0 <=> record.through > 0 /\ d \in record.started..record.through
  OBVIOUS
<1> QED
  BY <1>2, <1>3 DEF Matches, ChargedAs

\* No record is taken in yet.
LEMMA YardInit == ASSUME ImpoundConstants PROVE StorageInit => YardInv
<1> SUFFICES ASSUME StorageInit PROVE YardInv
  OBVIOUS
<1>1. /\ Idle \in Requests /\ NotTakenIn \in ImpoundRows /\ Idle.pc = "idle" /\ Idle.op = "none"
      /\ NotTakenIn.status = "none" /\ NotTakenIn.accrued = 0 /\ NotTakenIn.through = 0
  BY DEF Idle, Requests, NotTakenIn, ImpoundRows, Statuses, Ops, Steps
<1>2. /\ rec \in Tables(Records, ImpoundRows) /\ storage \in Tables(Records \X Days, Nat)
      /\ released \in Tables(Records, BOOLEAN)
      /\ \A r \in Records : rec.row[r] = NotTakenIn /\ rec.new[r] = NotTakenIn /\ rec.lock[r] = NoConn
      /\ \A k \in Records \X Days : storage.row[k] = 0 /\ storage.new[k] = 0 /\ storage.lock[k] = NoConn
  BY <1>1 DEF StorageInit, Filled, Tables
<1>3. today = 1 /\ todo = [c \in Sweepers |-> {}] /\ tx = [c \in Conns |-> Idle]
  BY DEF StorageInit
<1>4. StorageTypeOK
  <2>1. today \in Days
    BY <1>3 DEF ImpoundConstants, Days
  <2>2. todo \in [Sweepers -> SUBSET Records] /\ tx \in [Conns -> Requests]
    BY <1>1, <1>3
  <2>3. hold \in [Holds -> Records \cup {NoRecord}]
    BY DEF StorageInit
  <2>4. \A r \in Records : rec.row[r].through <= today
    BY <1>1, <1>2, <1>3
  <2> QED
    BY <1>2, <2>1, <2>2, <2>3, <2>4 DEF StorageTypeOK
<1>5. \A c \in Conns : Sound(c) /\ Holding(c)
  BY <1>1, <1>3 DEF Sound, Holding, Sweeping, Inserting
<1>6. \A r \in Records : TakenIn(r) /\ Writing(r)
  BY <1>1, <1>2 DEF TakenIn, Writing
<1>7. \A r \in Records, d \in Days : BilledBy(r, d)
  BY <1>2 DEF BilledBy
<1>8. ASSUME NEW r \in Records
      PROVE  Matches(rec.row[r], storage.row, r)
  <2>1. \A d \in Days : storage.row[<<r, d>>] = 0
    BY <1>2
  <2>2. \A d \in Days : Charges(storage.row, r)[d] = 0
    BY <2>1 DEF Charges
  <2>3. Sum(Charges(storage.row, r), Days) = 0
    BY <2>2, YardDays, SumZero
  <2> QED
    BY <1>1, <1>2, <2>1, <2>3 DEF Matches
<1> QED
  BY <1>3, <1>4, <1>5, <1>6, <1>7, <1>8 DEF YardInv

\* The invariant gives the property.
LEMMA Accrued == YardInv => AccruedMatchesRows
<1> SUFFICES ASSUME YardInv, NEW r \in Records PROVE ChargedAs(rec.row[r], storage.row, r)
  BY DEF AccruedMatchesRows, DaysBilled, ChargedAs
<1> DEFINE record == rec.row[r]
           rows == storage.row
<1>1. ImpoundConstants /\ rows \in [Records \X Days -> Nat] /\ record.through \in Nat
      /\ record.through <= LastDay /\ LastDay \in Nat
  BY DEF YardInv, StorageTypeOK, Tables, ImpoundRows, Days, ImpoundConstants
<1>2. record.through = 0 \/ record.started..record.through \subseteq Days
  BY <1>1 DEF YardInv, TakenIn, Days, NotTakenIn
<1>3. Matches(record, rows, r)
  BY DEF YardInv
<1> HIDE DEF record, rows
<1>4. ChargedAs(record, rows, r)
  BY <1>1, <1>2, <1>3, MatchesIs
<1> QED
  BY <1>4 DEF record, rows

-----------------------------------------------------------------------------
\* What most steps need of the types.
LEMMA YardTyped ==
  ASSUME YardInv
  PROVE  /\ ImpoundConstants
         /\ rec \in Tables(Records, ImpoundRows) /\ storage \in Tables(Records \X Days, Nat)
         /\ released \in Tables(Records, BOOLEAN)
         /\ hold \in [Holds -> Records \cup {NoRecord}]
         /\ today \in Days /\ todo \in [Sweepers -> SUBSET Records]
         /\ tx \in [Conns -> Requests]
         /\ (\A c \in Conns : tx[c] \in Requests) /\ (\A r \in Records : rec.row[r] \in ImpoundRows)
         /\ Clerks \subseteq Conns /\ Sweepers \subseteq Conns
BY DEF YardInv, StorageTypeOK, Tables, ImpoundConstants

\* The days owed run on from the first one; where some are owed there is a last one.
LEMMA PlanIs ==
  ASSUME ImpoundConstants, NEW record \in ImpoundRows, NEW now \in Nat
  PROVE  LET P == planDailyAccrual(record, now)
             first == FirstDayOwed(record)
         IN  /\ P \subseteq first..now /\ first \in Nat
             /\ IsFiniteSet(P) /\ Cardinality(P) \in Nat /\ (P = {} <=> Cardinality(P) = 0)
             /\ P # {} => /\ record.fee > 0 /\ record.status = "stored"
                          /\ Max(P) \in first..now /\ P = first..Max(P)
<1> DEFINE P == planDailyAccrual(record, now)
           first == FirstDayOwed(record)
           B == MAX_BACKFILL_DAYS
           last == IF now < first + B THEN now ELSE first + B - 1
<1>1. first \in Nat /\ B \in Nat \ {0}
  BY DEF ImpoundRows, FirstDayOwed, ImpoundConstants
<1>2. P = {d \in first..now : record.status = "stored" /\ record.fee > 0 /\ d < first + B}
  BY DEF planDailyAccrual, ACCRUING_STATUSES
<1>3. P # {} => record.status = "stored" /\ record.fee > 0 /\ first <= now
  BY <1>1, <1>2
<1>4. IsFiniteSet(first..now)
  BY <1>1, FS_Interval
<1>5. P \subseteq first..now
  BY <1>2
<1> HIDE DEF first, B, P
<1>6. IsFiniteSet(P) /\ Cardinality(P) \in Nat /\ (P = {} <=> Cardinality(P) = 0)
  BY <1>4, <1>5, FS_Subset, FS_CardinalityType, FS_EmptySet
<1>7. ASSUME P # {}
      PROVE  Max(P) \in first..now /\ P = first..Max(P)
  <2>1. last \in first..now /\ P = first..last
    <3>1. first <= now /\ P = {d \in first..now : d < first + B}
      BY <1>2, <1>3, <1>7
    <3>2. last \in first..now /\ \A d \in first..now : d < first + B <=> d <= last
      BY <1>1, <3>1
    <3> HIDE DEF last
    <3>3. \A d \in P : d \in first..last
      BY <1>1, <3>1, <3>2
    <3>4. \A d \in first..last : d \in P
      BY <1>1, <3>1, <3>2
    <3> QED
      BY <3>2, <3>3, <3>4
  <2> HIDE DEF last
  <2>2. last \in P /\ \A d \in P : last >= d
    BY <1>1, <2>1
  <2>3. Max(P) \in P /\ \A d \in P : Max(P) >= d
    BY <2>2 DEF Max
  <2>4. Max(P) = last
    BY <1>1, <2>1, <2>2, <2>3
  <2> QED
    BY <2>1, <2>4
<1> QED
  BY <1>1, <1>3, <1>5, <1>6, <1>7 DEF P, first

\* The same of what a sweep has read.
LEMMA PlanOf ==
  ASSUME YardInv, NEW c \in Conns
  PROVE  LET q == tx[c]
             first == FirstDayOwed(q.read)
         IN  /\ IsFiniteSet(Plan(q)) /\ Cardinality(Plan(q)) \in Nat
             /\ Plan(q) = {} <=> Cardinality(Plan(q)) = 0
             /\ first \in Nat /\ q.now \in Nat
             /\ Plan(q) # {} => /\ q.read.fee > 0 /\ q.read.status = "stored"
                                /\ Max(Plan(q)) \in Nat /\ Max(Plan(q)) >= first
                                /\ Max(Plan(q)) <= q.now /\ Plan(q) = first..Max(Plan(q))
<1> DEFINE record == tx[c].read
           now == tx[c].now
           P == planDailyAccrual(record, now)
           first == FirstDayOwed(record)
<1>1. record \in ImpoundRows /\ now \in Nat /\ ImpoundConstants
  BY YardTyped DEF Requests
<1> HIDE DEF record, now
<1>2. /\ P \subseteq first..now /\ first \in Nat
      /\ IsFiniteSet(P) /\ Cardinality(P) \in Nat /\ (P = {} <=> Cardinality(P) = 0)
      /\ P # {} => /\ record.fee > 0 /\ record.status = "stored"
                   /\ Max(P) \in first..now /\ P = first..Max(P)
  BY <1>1, PlanIs
<1>3. Plan(tx[c]) = P
  BY DEF Plan, record, now
<1> HIDE DEF P, first
<1>4. P # {} => Max(P) \in Nat /\ Max(P) >= first /\ Max(P) <= now
  BY <1>1, <1>2
<1> QED
  BY <1>1, <1>2, <1>3, <1>4 DEF first, record, now

\* The days a sweep plans are days of a record that is taken in.
LEMMA PlanDays ==
  ASSUME YardInv, NEW c \in Conns, Sweeping(tx[c])
  PROVE  /\ tx[c].record \in Records /\ Plan(tx[c]) \subseteq Days
         /\ rec.row[tx[c].record].status # "none"
<1> DEFINE q == tx[c]
<1>1. q \in Requests /\ q.read \in ImpoundRows /\ q.now \in Nat
  BY YardTyped DEF Requests
<1>2. /\ q.record \in Records /\ rec.row[q.record].status # "none"
      /\ q.now = today /\ q.read.started = rec.row[q.record].started
  BY YardTyped DEF YardInv, Sound, Sweeping
<1>3. q.read.started \in Days
  BY <1>2 DEF YardInv, TakenIn
<1>4. FirstDayOwed(q.read) >= 1
  BY <1>1, <1>3 DEF FirstDayOwed, ImpoundRows, Days
<1>5. Plan(q) \subseteq FirstDayOwed(q.read)..q.now /\ FirstDayOwed(q.read) \in Nat
  BY <1>1, YardTyped, PlanIs DEF Plan
<1>6. today \in Days /\ LastDay \in Nat
  BY YardTyped DEF ImpoundConstants
<1> QED
  BY <1>2, <1>4, <1>5, <1>6 DEF Days

\* Who serves no request holds no row, nor does who has only begun.
LEMMA HoldsNothing ==
  ASSUME YardInv, NEW c \in Conns, ~Inserting(tx[c]), tx[c].pc # "commit"
  PROVE  /\ \A r \in Records : rec.lock[r] # c
         /\ \A k \in Records \X Days : storage.lock[k] # c
<1>1. \A r \in Records : rec.lock[r] # c
  BY NoConnIsNone DEF YardInv, Writing
<1>2. ASSUME NEW k \in Records \X Days PROVE storage.lock[k] # c
  <2>1. PICK r \in Records, d \in Days : k = <<r, d>>
    OBVIOUS
  <2>2. BilledBy(r, d)
    BY DEF YardInv
  <2> QED
    BY <2>1, <2>2, NoConnIsNone DEF BilledBy
<1> QED
  BY <1>1, <1>2

\* A step of c that commits nothing leaves the others what they have.
Apart(c) ==
  /\ rec'.row = rec.row /\ storage'.row = storage.row /\ today' = today
  /\ \A r \in Records : rec.lock[r] \notin {c, NoConn} =>
       rec'.lock[r] = rec.lock[r] /\ rec'.new[r] = rec.new[r]
  /\ \A r \in Records, d \in Days : storage.lock[<<r, d>>] \notin {c, NoConn} =>
       /\ storage'.lock[<<r, d>>] = storage.lock[<<r, d>>]
       /\ storage'.new[<<r, d>>] = storage.new[<<r, d>>]
  /\ \A d \in Conns \ {c} : tx'[d] = tx[d]
  /\ \A d \in Sweepers \ {c} : todo'[d] = todo[d]

Types ==
  /\ rec \in Tables(Records, ImpoundRows) /\ storage \in Tables(Records \X Days, Nat)
  /\ released \in Tables(Records, BOOLEAN)
  /\ hold \in [Holds -> Records \cup {NoRecord}]
  /\ today \in Days /\ todo \in [Sweepers -> SUBSET Records]
  /\ tx \in [Conns -> Requests]

\* A step of one request keeps the invariant if it keeps what is its own.
LEMMA ApartStep ==
  ASSUME YardInv, NEW c \in Conns, Apart(c), Types', Sound(c)', Holding(c)',
         \A d \in Conns \ {c} : tx[d].op = "intake" => tx'[c].record # tx[d].record,
         c \in Sweepers => \A r \in todo'[c] : rec.row[r].status # "none",
         \A r \in Records : rec.lock[r] \in {c, NoConn} => Writing(r)',
         \A r \in Records, d \in Days : storage.lock[<<r, d>>] \in {c, NoConn} => BilledBy(r, d)'
  PROVE  YardInv'
<1>1. StorageTypeOK'
  BY DEF YardInv, StorageTypeOK, Types, Apart
<1>2. \A d \in Sweepers : \A r \in todo'[d] : rec'.row[r].status # "none"
  BY DEF YardInv, Apart
<1>3. ASSUME NEW d \in Conns \ {c} PROVE Sound(d)'
  <2>1. Sound(d)
    BY DEF YardInv
  <2> QED
    BY <2>1 DEF Sound, Apart, Sweeping, Plan
<1>4. ASSUME NEW d \in Conns \ {c} PROVE Holding(d)'
  <2>1. Holding(d)
    BY DEF YardInv
  <2> DEFINE q == tx[d]
  <2>2. /\ tx'[d] = q /\ (Plan(tx[d]))' = Plan(q)
        /\ (SameCharges(tx[d].read, rec.row[tx[d].record]))'
             = SameCharges(q.read, rec.row[q.record])
    BY DEF Apart, Plan, planDailyAccrual, FirstDayOwed, SameCharges
  <2>3. Inserting(q) => q.record \in Records /\ Plan(q) \subseteq Days
    BY PlanDays DEF Inserting
  <2>4. (Inserting(tx[d]))' = Inserting(q) /\ (DaysBilled(tx[d].record))' = DaysBilled(q.record)
    BY <2>2 DEF Inserting, Sweeping, DaysBilled, Apart
  <2>5. Inserting(q) => \A x \in Plan(q) :
           /\ storage'.lock[<<q.record, x>>] = d /\ storage'.row[<<q.record, x>>] = 0
           /\ storage'.new[<<q.record, x>>] = q.read.fee
    BY <2>1, <2>3, NoConnIsNone DEF Holding, Apart
  <2>6. Inserting(q) /\ q.pc = "commit" => rec'.lock[q.record] = d
    BY <2>1, <2>3, NoConnIsNone DEF Holding, Apart
  <2>7. q = tx[d]
    OBVIOUS
  <2> HIDE DEF q
  <2> QED
    BY <2>1, <2>2, <2>4, <2>5, <2>6, <2>7 DEF Holding
<1>5. ASSUME NEW r \in Records PROVE Writing(r)'
  <2>1. CASE rec.lock[r] \notin {c, NoConn}
    <3> DEFINE d == rec.lock[r]
    <3>1. d \in Conns \ {c} /\ Writing(r)
      BY <2>1, YardTyped DEF Tables, YardInv
    <3>2. rec'.lock[r] = d /\ rec'.new[r] = rec.new[r] /\ tx'[d] = tx[d] /\ rec'.row = rec.row
      BY <2>1, <3>1 DEF Apart
    <3> HIDE DEF d
    <3> QED
      BY <3>1, <3>2 DEF Writing, Inserting, Sweeping, Plan, SameCharges, d
  <2> QED
    BY <2>1
<1>6. ASSUME NEW r \in Records, NEW x \in Days PROVE BilledBy(r, x)'
  <2>1. CASE storage.lock[<<r, x>>] \notin {c, NoConn}
    <3> DEFINE d == storage.lock[<<r, x>>]
    <3>1. d \in Conns \ {c} /\ BilledBy(r, x)
      BY <2>1, YardTyped DEF Tables, YardInv
    <3>2. storage'.lock[<<r, x>>] = d /\ tx'[d] = tx[d]
      BY <2>1, <3>1 DEF Apart
    <3> HIDE DEF d
    <3> QED
      BY <3>1, <3>2 DEF BilledBy, Inserting, Sweeping, Plan, d
  <2> QED
    BY <2>1
<1>7. \A r \in Records : (TakenIn(r) /\ Matches(rec.row[r], storage.row, r))'
  BY DEF YardInv, TakenIn, Matches, Apart, Charges
<1>8. \A d \in Conns : Sound(d)' /\ Holding(d)'
  BY <1>3, <1>4
<1>9. ImpoundConstants
  BY DEF YardInv
<1>10. \A d \in Sweepers : \A r \in todo'[d] : rec'.row[r].status # "none"
  BY <1>2
<1> QED
  BY <1>1, <1>10, <1>5, <1>6, <1>7, <1>8, <1>9 DEF YardInv

\* A step that writes no record and no day.
LEMMA QuietStep ==
  ASSUME YardInv, NEW c \in Conns, UNCHANGED <<rec, storage, hold, today>>,
         released' \in Tables(Records, BOOLEAN), NEW q \in Requests, tx' = [tx EXCEPT ![c] = q],
         ~Inserting(tx[c]), tx[c].pc # "commit",
         todo' \in [Sweepers -> SUBSET Records], \A d \in Sweepers \ {c} : todo'[d] = todo[d],
         c \in Sweepers => \A r \in todo'[c] : rec.row[r].status # "none",
         Sound(c)', Holding(c)',
         \A d \in Conns \ {c} : tx[d].op = "intake" => q.record # tx[d].record
  PROVE  YardInv'
<1>1. Types'
  BY YardTyped DEF Types
<1>2. tx'[c] = q /\ \A d \in Conns \ {c} : tx'[d] = tx[d]
  BY YardTyped
<1>3. Apart(c)
  BY <1>2 DEF Apart
<1>4. \A r \in Records : rec.lock[r] \in {c, NoConn} => Writing(r)'
  BY HoldsNothing DEF YardInv, Writing
<1>5. \A r \in Records, d \in Days : storage.lock[<<r, d>>] \in {c, NoConn} => BilledBy(r, d)'
  BY HoldsNothing DEF YardInv, BilledBy
<1> QED
  BY <1>1, <1>2, <1>3, <1>4, <1>5, ApartStep

\* An idle connection takes a request.
LEMMA BeginStep ==
  ASSUME YardInv, NEW c \in Conns, NEW q \in Requests, Begin(c, q), UNCHANGED todo,
         q.pc # "idle", q.record \in Records, ~Inserting(q), q.pc \in {"days", "holds", "write"},
         q.op = "accrue" => /\ q.pc = "days" /\ c \in Sweepers /\ q.record \in todo[c]
                            /\ q.now = today /\ q.read = rec.row[q.record],
         q.op = "intake" => q.pc = "write" /\ NewRecord(q.record) /\ q.now \in Days,
         q.op \in {"update", "close", "release"} => rec.row[q.record].status # "none",
         q.op # "none", q.pc = "days" => q.op = "accrue", q.pc = "holds" => q.op = "release"
  PROVE  YardInv'
<1>1. /\ UNCHANGED <<rec, storage, released, hold, today>> /\ tx' = [tx EXCEPT ![c] = q]
      /\ tx[c] = Idle
  BY YardTyped DEF Begin, tables, Serving, YardInv, Sound
<1>2. ~Inserting(tx[c]) /\ tx[c].pc # "commit"
  BY <1>1 DEF Idle, Inserting, Sweeping
<1>3. tx'[c] = q /\ \A d \in Conns \ {c} : tx'[d] = tx[d]
  BY <1>1, YardTyped
<1>4. \A d \in Sweepers : \A r \in todo[d] : rec.row[r].status # "none"
  BY DEF YardInv
<1>5. Sound(c)'
  BY <1>1, <1>3, <1>4 DEF Sound, Sweeping, NewRecord, Days
<1>6. Holding(c)'
  BY <1>1, <1>3 DEF Holding, SameCharges, Inserting, Sweeping
<1>7. \A d \in Conns \ {c} : tx[d].op = "intake" => q.record # tx[d].record
  <2> SUFFICES ASSUME NEW d \in Conns \ {c}, tx[d].op = "intake", q.record = tx[d].record
               PROVE  FALSE
    OBVIOUS
  <2>1. Sound(d)
    BY DEF YardInv
  <2>2. rec.row[q.record] = NotTakenIn /\ tx[d].record = q.record
    BY <2>1 DEF Sound
  <2>3. NotTakenIn.status = "none"
    BY DEF NotTakenIn
  <2> QED
    BY <1>4, <2>2, <2>3 DEF NewRecord, Requests, Ops
<1> QED
  BY <1>1, <1>2, <1>4, <1>5, <1>6, <1>7, YardTyped, QuietStep

\* A clerk's request begins.
LEMMA RequestStep == ASSUME YardInv, NEW c \in Clerks, ClerkRequest(c) PROVE YardInv'
<1>1. PICK r \in Records :
        \/ \E fee \in DailyFees :
             updateRecord(c, r, fee) \/ \E day \in Days : intakeRecord(c, r, day, fee)
        \/ \E d \in Dispositions : closeRecord(c, r, d)
        \/ releaseRecord(c, r)
  BY DEF ClerkRequest
<1>2. /\ c \in Conns /\ rec.row[r] \in ImpoundRows /\ DailyFees \subseteq Nat /\ Days \subseteq Nat
      /\ Dispositions \subseteq Statuses /\ NotTakenIn \in ImpoundRows
  BY YardTyped DEF ImpoundConstants, Days, Statuses, NotTakenIn, ImpoundRows
<1>3. ASSUME NEW fee \in DailyFees, updateRecord(c, r, fee) PROVE YardInv'
  <2> DEFINE q == [Idle EXCEPT !.op = "update", !.pc = "write", !.record = r, !.fee = fee]
  <2>1. Begin(c, q) /\ UNCHANGED todo /\ rec.row[r].status # "none"
    BY <1>3 DEF updateRecord
  <2>2. q \in Requests /\ q.op = "update" /\ q.pc = "write" /\ q.record = r
    BY <1>2 DEF Idle, Requests, Ops, Steps, Statuses
  <2> HIDE DEF q
  <2> QED
    BY <1>2, <2>1, <2>2, BeginStep DEF Inserting, Sweeping
<1>4. ASSUME NEW fee \in DailyFees, NEW day \in Days, intakeRecord(c, r, day, fee) PROVE YardInv'
  <2> DEFINE q == [Idle EXCEPT !.op = "intake", !.pc = "write", !.record = r, !.fee = fee,
                     !.now = day]
  <2>1. Begin(c, q) /\ UNCHANGED todo /\ NewRecord(r)
    BY <1>4 DEF intakeRecord
  <2>2. q \in Requests /\ q.op = "intake" /\ q.pc = "write" /\ q.record = r /\ q.now = day
    BY <1>2 DEF Idle, Requests, Ops, Steps, Statuses
  <2> HIDE DEF q
  <2> QED
    BY <1>2, <2>1, <2>2, BeginStep DEF Inserting, Sweeping
<1>5. ASSUME NEW d \in Dispositions, closeRecord(c, r, d) PROVE YardInv'
  <2> DEFINE q == [Idle EXCEPT !.op = "close", !.pc = "write", !.record = r, !.to = d]
  <2>1. Begin(c, q) /\ UNCHANGED todo /\ rec.row[r].status # "none"
    BY <1>5 DEF closeRecord
  <2>2. q \in Requests /\ q.op = "close" /\ q.pc = "write" /\ q.record = r
    BY <1>2 DEF Idle, Requests, Ops, Steps
  <2> HIDE DEF q
  <2> QED
    BY <1>2, <2>1, <2>2, BeginStep DEF Inserting, Sweeping
<1>6. ASSUME releaseRecord(c, r) PROVE YardInv'
  <2> DEFINE q == [Idle EXCEPT !.op = "release", !.pc = "holds", !.record = r,
                     !.read = rec.row[r], !.to = "released"]
  <2>1. Begin(c, q) /\ UNCHANGED todo /\ rec.row[r].status # "none"
    BY <1>6 DEF releaseRecord
  <2>2. q \in Requests /\ q.op = "release" /\ q.pc = "holds" /\ q.record = r
    BY <1>2 DEF Idle, Requests, Ops, Steps, Statuses
  <2> HIDE DEF q
  <2> QED
    BY <1>2, <2>1, <2>2, BeginStep DEF Inserting, Sweeping
<1> QED
  BY <1>1, <1>3, <1>4, <1>5, <1>6

\* A sweep lists its records, or begins with the next one.
LEMMA SweepStep == ASSUME YardInv, NEW c \in Sweepers, Sweep(c) PROVE YardInv'
<1>1. c \in Conns
  BY YardTyped
<1>2. ASSUME tick(c) PROVE YardInv'
  <2> DEFINE candidates == {r \in Records : rec.row[r].status \in ACCRUING_STATUSES}
  <2>1. /\ tx[c].pc = "idle" /\ todo' = [todo EXCEPT ![c] = candidates]
        /\ UNCHANGED <<rec, storage, released, hold, today, tx>>
    BY <1>2 DEF tick, Serving, tables
  <2>2. tx[c] = Idle /\ tx' = [tx EXCEPT ![c] = Idle]
    BY <1>1, <2>1, YardTyped DEF YardInv, Sound
  <2>3. /\ Idle \in Requests /\ ~Inserting(Idle) /\ Idle.pc = "idle" /\ Idle.record = NoRecord
        /\ Idle.op = "none"
    BY DEF Idle, Inserting, Sweeping, Requests, Ops, Steps, Statuses, NotTakenIn, ImpoundRows
  <2>4. todo' \in [Sweepers -> SUBSET Records] /\ todo'[c] = candidates
        /\ \A d \in Sweepers \ {c} : todo'[d] = todo[d]
    BY <2>1, YardTyped
  <2>5. \A r \in todo'[c] : rec.row[r].status # "none"
    BY <2>4 DEF ACCRUING_STATUSES
  <2>6. Sound(c)' /\ Holding(c)'
    BY <1>1, <2>1, <2>2, <2>3 DEF Sound, Holding, Inserting, Sweeping
  <2>7. \A d \in Conns \ {c} : tx[d].op = "intake" => Idle.record # tx[d].record
    BY <2>3, YardTyped DEF YardInv, Sound, ImpoundConstants
  <2> QED
    BY <1>1, <2>1, <2>2, <2>3, <2>4, <2>5, <2>6, <2>7, YardTyped, QuietStep, ZenonT(30)
<1>3. ASSUME NEW r \in Records, accrueOne(c, r) PROVE YardInv'
  <2> DEFINE q == [Idle EXCEPT !.op = "accrue", !.pc = "days", !.record = r,
                 !.read = rec.row[r], !.now = today]
  <2>1. Begin(c, q) /\ UNCHANGED todo /\ r \in todo[c]
    BY <1>3 DEF accrueOne
  <2>2. /\ q \in Requests /\ q.op = "accrue" /\ q.pc = "days" /\ q.record = r
        /\ q.read = rec.row[r] /\ q.now = today
    <3>1. rec.row[r] \in ImpoundRows /\ today \in Nat /\ Idle \in Requests
      BY YardTyped DEF Days, Idle, Requests, Ops, Steps, Statuses, NotTakenIn, ImpoundRows
    <3> QED
      BY <3>1 DEF Requests, Ops, Steps
  <2> HIDE DEF q
  <2> QED
    BY <1>1, <2>1, <2>2, BeginStep DEF Inserting, Sweeping
<1> QED
  BY <1>2, <1>3 DEF Sweep

\* Nothing that the invariant is about moves.
LEMMA StillStep ==
  ASSUME YardInv, UNCHANGED <<rec, storage, released, today, todo, tx>>,
         hold' \in [Holds -> Records \cup {NoRecord}]
  PROVE  YardInv'
<1>1. StorageTypeOK'
  BY DEF YardInv, StorageTypeOK
<1>2. \A c \in Conns : Sound(c)' /\ Holding(c)'
  BY DEF YardInv, Sound, Holding, Sweeping, Inserting, Plan, SameCharges, DaysBilled
<1>3. \A r \in Records : (TakenIn(r) /\ Writing(r) /\ Matches(rec.row[r], storage.row, r))'
  BY DEF YardInv, TakenIn, Writing, Matches, Charges, Sweeping, Inserting, Plan, SameCharges
<1>4. ASSUME NEW r \in Records, NEW d \in Days PROVE BilledBy(r, d)'
  <2>1. BilledBy(r, d)
    BY DEF YardInv
  <2> QED
    BY <2>1 DEF BilledBy, Sweeping, Inserting, Plan
<1> QED
  BY <1>1, <1>2, <1>3, <1>4 DEF YardInv

\* Holds are no part of what is charged.
LEMMA HoldStep ==
  ASSUME YardInv, NEW h \in Holds, releaseHold(h) \/ \E r \in Records : addHold(r, h)
  PROVE  YardInv'
BY YardTyped, StillStep DEF releaseHold, addHold, tables

\* No sweep is under way when a day passes.
LEMMA DayStep == ASSUME YardInv, DayPasses PROVE YardInv'
<1>1. /\ today' = today + 1 /\ today < LastDay /\ UNCHANGED <<rec, storage, released, hold, todo, tx>>
      /\ \A c \in Sweepers : todo[c] = {}
  BY DEF DayPasses, tables
<1>2. today' \in Days /\ today \in Nat
  BY <1>1, YardTyped DEF Days, ImpoundConstants
<1>3. \A c \in Conns : ~Sweeping(tx[c])
  BY <1>1 DEF YardInv, Sound
<1>4. StorageTypeOK'
  <2>1. \A r \in Records : rec.row[r].through <= today + 1
    BY <1>2, YardTyped DEF YardInv, StorageTypeOK, ImpoundRows
  <2> QED
    BY <1>1, <1>2, <2>1 DEF YardInv, StorageTypeOK
<1>5. \A c \in Conns : Sound(c)' /\ Holding(c)'
  BY <1>1, <1>3 DEF YardInv, Sound, Holding, Sweeping, Inserting
<1>6. \A r \in Records : TakenIn(r)'
  BY <1>1, <1>2, YardTyped DEF YardInv, TakenIn, ImpoundRows
<1>7. \A r \in Records : (Writing(r) /\ Matches(rec.row[r], storage.row, r))'
  BY <1>1 DEF YardInv, Writing, Matches, Charges, Sweeping, Inserting, Plan, SameCharges
<1>8. ASSUME NEW r \in Records, NEW d \in Days PROVE BilledBy(r, d)'
  <2>1. BilledBy(r, d)
    BY DEF YardInv
  <2> QED
    BY <1>1, <2>1 DEF BilledBy, Sweeping, Inserting, Plan
<1> QED
  BY <1>1, <1>4, <1>5, <1>6, <1>7, <1>8 DEF YardInv

\* A request that holds nothing goes on to its next statement.
LEMMA GoStep ==
  ASSUME YardInv, NEW c \in Conns, NEW pc \in {"insert", "write"}, Goto(c, pc),
         tx[c].pc \in {"holds", "insert"},
         UNCHANGED <<rec, storage, hold, today, todo>>, released' \in Tables(Records, BOOLEAN)
  PROVE  YardInv'
<1> DEFINE q == [tx[c] EXCEPT !.pc = pc]
<1>1. tx[c] \in Requests /\ tx' = [tx EXCEPT ![c] = q]
  BY YardTyped DEF Goto
<1>2. tx[c].op = "release" /\ ~Inserting(tx[c]) /\ tx[c].pc # "commit" /\ Sound(c)
  BY DEF YardInv, Sound, Inserting, Sweeping
<1>3. /\ q \in Requests /\ q.op = "release" /\ q.pc = pc /\ q.record = tx[c].record
      /\ ~Inserting(q)
  BY <1>1, <1>2 DEF Requests, Steps, Inserting, Sweeping
<1>4. tx'[c] = q
  BY <1>1, YardTyped
<1> HIDE DEF q
<1>5. Sound(c)' /\ Holding(c)'
  BY <1>2, <1>3, <1>4 DEF Sound, Holding, Sweeping, Inserting
<1>6. \A d \in Conns \ {c} : tx[d].op = "intake" => q.record # tx[d].record
  BY <1>3 DEF YardInv, Sound
<1>7. \A d \in Sweepers : \A r \in todo[d] : rec.row[r].status # "none"
  BY DEF YardInv
<1> QED
  BY <1>1, <1>2, <1>3, <1>5, <1>6, <1>7, YardTyped, QuietStep

\* A transaction gives its rows back.
LEMMA UndoneStep ==
  ASSUME YardInv, NEW c \in Conns, rec' = RolledBack(rec, c), storage' = RolledBack(storage, c),
         released' = RolledBack(released, c), tx' = [tx EXCEPT ![c] = Idle],
         UNCHANGED <<hold, today>>,
         todo' \in [Sweepers -> SUBSET Records], \A d \in Sweepers \ {c} : todo'[d] = todo[d],
         c \in Sweepers => todo'[c] \subseteq todo[c]
  PROVE  YardInv'
<1>1. /\ Idle \in Requests /\ ~Inserting(Idle) /\ Idle.pc = "idle" /\ Idle.record = NoRecord
      /\ Idle.op = "none"
  BY DEF Idle, Inserting, Sweeping, Requests, Ops, Steps, Statuses, NotTakenIn, ImpoundRows
<1>2. /\ rec' \in Tables(Records, ImpoundRows) /\ rec'.row = rec.row
      /\ \A r \in Records :
           /\ rec'.new[r] = (IF rec.lock[r] = c THEN rec.row[r] ELSE rec.new[r])
           /\ rec'.lock[r] = (IF rec.lock[r] = c THEN NoConn ELSE rec.lock[r])
  BY YardTyped, TableSteps
<1>3. /\ storage' \in Tables(Records \X Days, Nat) /\ storage'.row = storage.row
      /\ \A k \in Records \X Days :
           /\ storage'.new[k] = (IF storage.lock[k] = c THEN storage.row[k] ELSE storage.new[k])
           /\ storage'.lock[k] = (IF storage.lock[k] = c THEN NoConn ELSE storage.lock[k])
  BY YardTyped, TableSteps
<1>4. released' \in Tables(Records, BOOLEAN)
  BY YardTyped, TableSteps
<1>5. tx'[c] = Idle /\ tx' \in [Conns -> Requests] /\ \A d \in Conns \ {c} : tx'[d] = tx[d]
  BY <1>1, YardTyped
<1>6. Types'
  BY <1>2, <1>3, <1>4, <1>5, YardTyped DEF Types
<1>7. Apart(c)
  BY <1>2, <1>3, <1>5 DEF Apart
<1>8. Sound(c)' /\ Holding(c)'
  BY <1>1, <1>5 DEF Sound, Holding, Sweeping, Inserting
<1>9. \A r \in Records : rec.lock[r] \in {c, NoConn} => Writing(r)'
  BY <1>2, NoConnIsNone DEF YardInv, Writing
<1>10. \A r \in Records, d \in Days : storage.lock[<<r, d>>] \in {c, NoConn} => BilledBy(r, d)'
  BY <1>3, NoConnIsNone DEF YardInv, BilledBy
<1>11. \A d \in Conns \ {c} : tx[d].op = "intake" => tx'[c].record # tx[d].record
  BY <1>1, <1>5, YardTyped DEF YardInv, Sound, ImpoundConstants, Requests
<1>12. c \in Sweepers => \A r \in todo'[c] : rec.row[r].status # "none"
  BY DEF YardInv
<1> QED
  BY <1>6, <1>7, <1>8, <1>9, <1>10, <1>11, <1>12, ApartStep

-----------------------------------------------------------------------------
\* A record is written where no other transaction has written it.
LEMMA WriteStep ==
  ASSUME YardInv, NEW c \in Conns, Serving(c, "write"), Free(rec, c, tx[c].record),
         NEW record \in ImpoundRows, rec' = Written(rec, c, tx[c].record, record), Goto(c, "commit"),
         UNCHANGED <<storage, released, hold, today, todo>>, record.status # "none",
         tx[c].op = "intake" => record.started \in Days /\ record.accrued = 0 /\ record.through = 0,
         Inserting(tx[c]) =>
           /\ record.started = rec.row[tx[c].record].started
           /\ record.accrued = tx[c].read.accrued + tx[c].inserted * tx[c].read.fee
           /\ record.through = Max(Plan(tx[c])),
         tx[c].op # "intake" /\ ~Inserting(tx[c]) => SameCharges(record, rec.row[tx[c].record])
  PROVE  YardInv'
<1> DEFINE r == tx[c].record
           q == [tx[c] EXCEPT !.pc = "commit"]
<1>1. /\ tx[c] \in Requests /\ tx[c].pc = "write" /\ r \in Records
      /\ Sound(c) /\ Holding(c)
  BY YardTyped DEF YardInv, Sound, Serving
<1>2. /\ q \in Requests /\ q.pc = "commit" /\ q.op = tx[c].op /\ q.record = r
      /\ q.read = tx[c].read /\ q.now = tx[c].now /\ q.inserted = tx[c].inserted
  BY <1>1 DEF Requests, Steps
<1>3. tx'[c] = q /\ tx' \in [Conns -> Requests] /\ \A d \in Conns \ {c} : tx'[d] = tx[d]
  BY <1>2, YardTyped DEF Goto
<1>4. \A x \in Records : rec.lock[x] # c
  BY <1>1, NoConnIsNone DEF YardInv, Writing
<1>5. rec.lock[r] = NoConn
  BY <1>1, <1>4 DEF Free
<1>6. /\ rec' \in Tables(Records, ImpoundRows) /\ rec'.row = rec.row /\ rec'.new[r] = record /\ rec'.lock[r] = c
      /\ \A x \in Records \ {r} : rec'.new[x] = rec.new[x] /\ rec'.lock[x] = rec.lock[x]
  BY <1>1, YardTyped, TableWrite
<1> HIDE DEF q
<1>7. (Inserting(q) <=> Inserting(tx[c])) /\ Plan(q) = Plan(tx[c]) /\ (Sweeping(q) <=> Sweeping(tx[c]))
  BY <1>1, <1>2 DEF Inserting, Sweeping, Plan
<1>8. Types'
  BY <1>3, <1>6, YardTyped DEF Types
<1>9. Apart(c)
  BY <1>1, <1>3, <1>5, <1>6 DEF Apart
<1>10. Sound(c)'
  BY <1>1, <1>2, <1>3, <1>6, <1>7 DEF Sound, Sweeping
<1>11. Holding(c)'
  <2>1. \A x \in Plan(q) : /\ storage'.lock[<<r, x>>] = storage.lock[<<r, x>>]
                           /\ storage'.row[<<r, x>>] = storage.row[<<r, x>>]
                           /\ storage'.new[<<r, x>>] = storage.new[<<r, x>>]
    OBVIOUS
  <2> QED
    BY <1>1, <1>2, <1>3, <1>6, <1>7, <2>1 DEF Holding
<1>12. \A d \in Conns \ {c} : tx[d].op = "intake" => tx'[c].record # tx[d].record
  BY <1>2, <1>3 DEF YardInv, Sound
<1>13. ASSUME NEW x \in Records, rec.lock[x] \in {c, NoConn} PROVE Writing(x)'
  <2>1. CASE x = r
    <3>1. /\ Inserting(tx'[c]) <=> Inserting(q)
          /\ Plan(tx'[c]) = Plan(q)
      BY <1>3
    <3>2. /\ Inserting(q) => /\ record.started = rec'.row[r].started
                             /\ record.accrued = q.read.accrued + q.inserted * q.read.fee
                             /\ record.through = Max(Plan(q))
          /\ q.op # "intake" /\ ~Inserting(q) => SameCharges(record, rec'.row[r])
          /\ q.op = "intake" => record.started \in Days /\ record.accrued = 0 /\ record.through = 0
      BY <1>2, <1>6, <1>7
    <3>3. c # NoConn /\ rec'.lock[x] = c /\ rec'.new[x] = record
      BY <1>6, <2>1, NoConnIsNone
    <3> HIDE DEF r
    <3> QED
      BY <1>2, <1>3, <2>1, <3>1, <3>2, <3>3 DEF Writing, SameCharges
  <2>2. CASE x # r
    <3>1. rec.lock[x] = NoConn /\ Writing(x)
      BY <1>4, <1>13 DEF YardInv
    <3>2. rec'.lock[x] = NoConn /\ rec'.new[x] = rec.new[x] /\ rec'.row[x] = rec.row[x]
      BY <1>6, <1>13, <2>2, <3>1
    <3> QED
      BY <3>1, <3>2 DEF Writing
  <2> QED
    BY <2>1, <2>2
<1>14. ASSUME NEW x \in Records, NEW d \in Days, storage.lock[<<x, d>>] \in {c, NoConn}
       PROVE  BilledBy(x, d)'
  <2>1. BilledBy(x, d)
    BY DEF YardInv
  <2>2. (Inserting(tx[c]))' <=> Inserting(tx[c])
    BY <1>3, <1>7 DEF Inserting, Sweeping
  <2>3. (Plan(tx[c]))' = Plan(tx[c]) /\ tx'[c].record = r
    BY <1>2, <1>3 DEF Plan
  <2> QED
    BY <1>14, <2>1, <2>2, <2>3, NoConnIsNone DEF BilledBy
<1>15. c \in Sweepers => \A x \in todo'[c] : rec.row[x].status # "none"
  BY DEF YardInv
<1> QED
  BY <1>8, <1>9, <1>10, <1>11, <1>12, <1>13, <1>14, <1>15, ApartStep

\* A clerk's UPDATE, and the INSERT of an intake.
LEMMA WriteRecordStep == ASSUME YardInv, NEW c \in Conns, WriteRecord(c) PROVE YardInv'
<1> DEFINE t == tx[c]
           was == Seen(rec, c, t.record)
           record == CASE t.op = "intake" -> [NotTakenIn EXCEPT !.status = "stored", !.started = t.now,
                                             !.fee = t.fee]
                    [] t.op = "update" -> [was EXCEPT !.fee = t.fee]
                    [] OTHER           -> [was EXCEPT !.status = t.to]
<1>1. /\ Serving(c, "write") /\ t.op # "accrue" /\ Free(rec, c, t.record)
      /\ rec' = Written(rec, c, t.record, record)
      /\ Goto(c, "commit") /\ UNCHANGED <<storage, released, hold, today, todo>>
  BY DEF WriteRecord
<1>2. t \in Requests /\ t.record \in Records /\ Sound(c) /\ rec.row[t.record] \in ImpoundRows
  BY <1>1, YardTyped DEF YardInv, Sound, Serving
<1>3. was = rec.row[t.record]
  BY <1>1, <1>2, NoConnIsNone DEF Seen, YardInv, Writing, Serving
<1>4. ~Inserting(t)
  BY <1>1 DEF Inserting, Sweeping
<1>5. t.op \in {"intake", "update", "close", "release"}
  BY <1>1, <1>2 DEF Sound, Serving, Requests, Ops
<1> HIDE DEF was
<1>6. CASE t.op = "intake"
  <2>1. record = [NotTakenIn EXCEPT !.status = "stored", !.started = t.now, !.fee = t.fee]
    BY <1>6
  <2>2. t.now \in Days /\ t.now \in Nat /\ t.fee \in Nat
    BY <1>2, <1>6 DEF Sound, Requests
  <2> HIDE DEF record
  <2>3. /\ record \in ImpoundRows /\ record.status = "stored" /\ record.started = t.now
        /\ record.accrued = 0 /\ record.through = 0
    BY <2>1, <2>2 DEF NotTakenIn, ImpoundRows, Statuses
  <2> QED
    BY <1>1, <1>4, <1>6, <2>2, <2>3, WriteStep
<1>7. CASE t.op # "intake"
  <2>1. was \in ImpoundRows /\ t.fee \in Nat /\ t.to \in Statuses /\ was.status # "none"
    BY <1>2, <1>3, <1>5, <1>7 DEF Requests, Sound
  <2>2. record = IF t.op = "update" THEN [was EXCEPT !.fee = t.fee] ELSE [was EXCEPT !.status = t.to]
    BY <1>7
  <2>3. record \in ImpoundRows /\ record.status # "none" /\ SameCharges(record, was)
    <3>1. CASE t.op = "update"
      BY <2>1, <2>2, <3>1 DEF ImpoundRows, SameCharges
    <3>2. CASE t.op # "update"
      BY <2>1, <2>2, <3>2, ZenonT(30) DEF ImpoundRows, Statuses, SameCharges
    <3> QED
      BY <3>1, <3>2
  <2> HIDE DEF record
  <2> QED
    BY <1>1, <1>3, <1>4, <1>7, <2>3, WriteStep
<1> QED
  BY <1>6, <1>7

\* A sweep sets the totals to what it has read and inserted.
LEMMA WriteAccrualStep == ASSUME YardInv, NEW c \in Conns, WriteAccrual(c) PROVE YardInv'
<1> DEFINE t == tx[c]
           was == Seen(rec, c, t.record)
           record == [was EXCEPT
             !.accrued = IF t.inserted > 0 THEN t.read.accrued + t.inserted * t.read.fee ELSE @,
             !.through = IF t.inserted > 0 THEN Max(planDailyAccrual(t.read, t.now)) ELSE @,
             !.lien    = @ \/ computeLienEligibility(t.read, t.now)]
<1>1. /\ Serving(c, "write") /\ t.op = "accrue" /\ Free(rec, c, t.record)
      /\ rec' = Written(rec, c, t.record, record)
      /\ Goto(c, "commit") /\ UNCHANGED <<storage, released, hold, today, todo>>
  BY DEF WriteAccrual
<1>2. t \in Requests /\ t.record \in Records /\ Holding(c) /\ rec.row[t.record] \in ImpoundRows
  BY <1>1, YardTyped DEF YardInv, Sound, Serving
<1>3. was = rec.row[t.record] /\ was.status # "none"
  <2>1. was = rec.row[t.record]
    BY <1>1, <1>2, NoConnIsNone DEF Seen, YardInv, Writing, Serving
  <2>2. Sweeping(t)
    BY <1>1 DEF Sweeping
  <2> QED
    BY <2>1, <2>2, PlanDays
<1>4. /\ t.read \in ImpoundRows /\ t.now \in Nat /\ t.inserted \in Nat
      /\ t.read.accrued \in Nat /\ t.read.fee \in Nat
  BY <1>2 DEF Requests, ImpoundRows
<1>5. Inserting(t) <=> t.inserted > 0
  BY <1>1 DEF Inserting, Sweeping, Serving
<1>6. t.inserted > 0 => Max(Plan(t)) \in Nat
  <2>1. t.inserted > 0 => t.inserted = Cardinality(Plan(t))
    BY <1>2, <1>5 DEF Holding
  <2>2. Plan(t) = {} => Cardinality(Plan(t)) = 0
    BY PlanOf
  <2>3. t.inserted > 0 => Plan(t) # {}
    BY <1>4, <2>1, <2>2
  <2> QED
    BY <2>3, PlanOf
<1>7. t.inserted * t.read.fee \in Nat
  BY <1>4
<1>8. computeLienEligibility(t.read, t.now) \in BOOLEAN
  BY DEF computeLienEligibility
<1> DEFINE accrued == IF t.inserted > 0 THEN t.read.accrued + t.inserted * t.read.fee ELSE was.accrued
           through == IF t.inserted > 0 THEN Max(Plan(t)) ELSE was.through
           lien == was.lien \/ computeLienEligibility(t.read, t.now)
<1>10. was \in ImpoundRows /\ accrued \in Nat /\ through \in Nat /\ lien \in BOOLEAN
  BY <1>2, <1>3, <1>4, <1>6, <1>7, <1>8 DEF ImpoundRows
<1>11. record = [was EXCEPT !.accrued = accrued, !.through = through, !.lien = lien]
  BY DEF Plan
<1>12. (t.inserted > 0 => accrued = t.read.accrued + t.inserted * t.read.fee /\ through = Max(Plan(t)))
       /\ (~(t.inserted > 0) => accrued = was.accrued /\ through = was.through)
  OBVIOUS
<1> HIDE DEF was, record, accrued, through, lien
<1>9. /\ record \in ImpoundRows /\ record.status = was.status /\ record.started = was.started
      /\ t.inserted > 0 => /\ record.accrued = t.read.accrued + t.inserted * t.read.fee
                           /\ record.through = Max(Plan(t))
      /\ ~(t.inserted > 0) => SameCharges(record, was)
  BY <1>10, <1>11, <1>12 DEF ImpoundRows, SameCharges
<1> QED
  BY <1>1, <1>3, <1>5, <1>9, WriteStep

-----------------------------------------------------------------------------
\* The days a sweep plans are all free of charge, or none of them: then another sweep has
\* billed them since.
LEMMA AllOrNone ==
  ASSUME YardInv, NEW c \in Conns, Sweeping(tx[c]), tx[c].pc = "days"
  PROVE  LET q == tx[c]
             record == rec.row[q.record]
         IN \/ /\ SameCharges(q.read, record)
               /\ \A d \in Plan(q) : storage.row[<<q.record, d>>] = 0
            \/ \A d \in Plan(q) : storage.row[<<q.record, d>>] > 0
<1> DEFINE q == tx[c]
           r == q.record
           record == rec.row[r]
<1>1. /\ r \in Records /\ Plan(q) \subseteq Days /\ record \in ImpoundRows /\ Matches(record, storage.row, r)
      /\ \A d \in Days : storage.row[<<r, d>>] \in Nat
  BY PlanDays, YardTyped DEF YardInv, Tables
<1>2. SameCharges(q.read, record) \/ Plan(q) \subseteq DaysBilled(r)
  BY DEF YardInv, Holding
<1>3. CASE Plan(q) \subseteq DaysBilled(r)
  BY <1>3 DEF DaysBilled
<1>4. CASE SameCharges(q.read, record)
  <2>1. ASSUME NEW d \in Plan(q), storage.row[<<r, d>>] > 0
        PROVE  FALSE
    <3>1. record.through > 0 /\ d \in record.started..record.through
      BY <1>1, <2>1 DEF Matches
    <3>2. q.read.through = record.through /\ record.through \in Nat /\ record.started \in Nat
      BY <1>1, <1>4 DEF SameCharges, ImpoundRows
    <3>3. FirstDayOwed(q.read) = record.through + 1
      BY <3>1, <3>2 DEF FirstDayOwed
    <3>4. d \in FirstDayOwed(q.read)..Max(Plan(q)) /\ Max(Plan(q)) \in Nat
      BY <2>1, PlanOf
    <3> QED
      BY <3>1, <3>2, <3>3, <3>4
  <2>2. \A d \in Plan(q) : storage.row[<<r, d>>] = 0
    BY <1>1, <2>1
  <2> QED
    BY <1>4, <2>2
<1> QED
  BY <1>2, <1>3, <1>4

\* A sweep inserts all the days of its plan, or finds them billed and inserts none.
LEMMA InsertDaysStep == ASSUME YardInv, NEW c \in Conns, InsertDays(c) PROVE YardInv'
<1> DEFINE t == tx[c]
           r == t.record
           planned == {r} \X Plan(t)
           fresh == {k \in planned : storage.row[k] = 0}
           flags == computeLienEligibility(t.read, t.now) /\ ~t.read.lien
           pc == IF fresh # {} \/ flags THEN "write" ELSE "commit"
           n == Cardinality(fresh)
           q == [t EXCEPT !.inserted = n, !.pc = pc]
<1>1. /\ t.pc = "days" /\ (\A k \in planned : Free(storage, c, k))
      /\ storage' = [storage EXCEPT
           !.new  = [k \in DOMAIN @ |-> IF k \in fresh THEN t.read.fee ELSE @[k]],
           !.lock = [k \in DOMAIN @ |-> IF k \in fresh THEN c ELSE @[k]]]
      /\ UNCHANGED <<rec, released, hold, today, todo>>
  BY DEF InsertDays, Serving, Plan
<1>2. tx' = [tx EXCEPT ![c] = q]
  BY YardTyped DEF InsertDays, Plan
<1>3. /\ t \in Requests /\ Sweeping(t) /\ Sound(c) /\ ~Inserting(t) /\ t.pc # "commit"
      /\ r \in Records /\ t.read \in ImpoundRows /\ t.read.fee \in Nat
  BY <1>1, YardTyped DEF YardInv, Sound, Inserting, Requests, ImpoundRows
<1>4. Plan(t) \subseteq Days /\ rec.row[r].status # "none" /\ planned \subseteq Records \X Days
  BY <1>3, PlanDays
<1>5. \/ fresh = {}
      \/ SameCharges(t.read, rec.row[r]) /\ fresh = planned
  BY <1>1, <1>3, AllOrNone
<1>6. IsFiniteSet(planned) /\ Cardinality(planned) = Cardinality(Plan(t))
  <2>1. IsFiniteSet({r}) /\ Cardinality({r}) = 1
    BY FS_Singleton
  <2>2. IsFiniteSet(Plan(t)) /\ Cardinality(Plan(t)) \in Nat
    BY PlanOf
  <2>3. /\ IsFiniteSet({r} \X Plan(t))
        /\ Cardinality({r} \X Plan(t)) = Cardinality({r}) * Cardinality(Plan(t))
    BY <2>1, <2>2, FS_Product
  <2> QED
    BY <2>1, <2>2, <2>3
<1>7. n \in Nat /\ (n > 0 <=> fresh # {})
  <2>1. IsFiniteSet(fresh)
    BY <1>6, FS_Subset
  <2> HIDE DEF fresh
  <2> QED
    BY <2>1, FS_CardinalityType, FS_EmptySet
<1>8. n > 0 => /\ SameCharges(t.read, rec.row[r]) /\ n = Cardinality(Plan(t)) /\ pc = "write"
               /\ \A d \in Plan(t) : <<r, d>> \in fresh
  <2>1. \A d \in Plan(t) : <<r, d>> \in planned
    OBVIOUS
  <2> QED
    BY <1>5, <1>6, <1>7, <2>1
<1>9. \A k \in Records \X Days : storage.lock[k] # c
  BY <1>3, HoldsNothing
<1>10. \A k \in fresh : k \in Records \X Days /\ storage.lock[k] = NoConn /\ storage.row[k] = 0
  BY <1>1, <1>4, <1>9 DEF Free
<1>11. /\ storage' \in Tables(Records \X Days, Nat) /\ storage'.row = storage.row
       /\ \A k \in Records \X Days :
            /\ storage'.new[k] = IF k \in fresh THEN t.read.fee ELSE storage.new[k]
            /\ storage'.lock[k] = IF k \in fresh THEN c ELSE storage.lock[k]
  <2> HIDE DEF fresh
  <2> QED
    BY <1>1, <1>3, YardTyped DEF Tables
<1>12. pc \in {"write", "commit"}
  OBVIOUS
<1>13. \A k \in fresh : \E d \in Plan(t) : k = <<r, d>>
  OBVIOUS
<1>14. /\ q \in Requests /\ q.pc = pc /\ q.op = t.op /\ q.record = r /\ q.read = t.read /\ q.now = t.now
       /\ q.inserted = n
  <2> HIDE DEF n, pc, flags, fresh
  <2> QED
    BY <1>3, <1>7, <1>12 DEF Requests, Steps
<1> HIDE DEF q, n, pc, flags, fresh, planned
<1>15. Plan(q) = Plan(t) /\ Sweeping(q) /\ (Inserting(q) <=> n > 0)
  BY <1>3, <1>12, <1>14 DEF Plan, Sweeping, Inserting
<1>16. tx'[c] = q /\ tx' \in [Conns -> Requests] /\ \A d \in Conns \ {c} : tx'[d] = tx[d]
  BY <1>2, <1>14, YardTyped
<1>17. Types'
  BY <1>1, <1>11, <1>16, YardTyped DEF Types
<1>18. Apart(c)
  <2>1. ASSUME NEW x \in Records, NEW d \in Days, storage.lock[<<x, d>>] \notin {c, NoConn}
        PROVE  /\ storage'.lock[<<x, d>>] = storage.lock[<<x, d>>]
               /\ storage'.new[<<x, d>>] = storage.new[<<x, d>>]
    BY <1>10, <1>11, <2>1
  <2> QED
    BY <1>1, <1>11, <1>16, <2>1 DEF Apart
<1>19. Sound(c)'
  BY <1>1, <1>3, <1>12, <1>14, <1>15, <1>16 DEF Sound, Sweeping
<1>20. Holding(c)'
  <2>1. ASSUME n > 0, NEW d \in Plan(t)
        PROVE  /\ storage'.lock[<<r, d>>] = c /\ storage'.row[<<r, d>>] = 0
               /\ storage'.new[<<r, d>>] = t.read.fee
    BY <1>8, <1>10, <1>11, <2>1
  <2>2. (Inserting(tx[c]))' <=> n > 0
    BY <1>15, <1>16 DEF Inserting, Sweeping
  <2>3. (Plan(tx[c]))' = Plan(t)
    BY <1>15, <1>16 DEF Plan
  <2>4. n > 0 => (SameCharges(tx[c].read, rec.row[tx[c].record]))'
    BY <1>1, <1>8, <1>14, <1>16 DEF SameCharges
  <2> QED
    BY <1>8, <1>12, <1>14, <1>16, <2>1, <2>2, <2>3, <2>4 DEF Holding
<1>21. \A d \in Conns \ {c} : tx[d].op = "intake" => tx'[c].record # tx[d].record
  BY <1>14, <1>16 DEF YardInv, Sound
<1>22. ASSUME NEW x \in Records, rec.lock[x] \in {c, NoConn} PROVE Writing(x)'
  BY <1>1, <1>3, <1>22, HoldsNothing DEF YardInv, Writing
<1>23. ASSUME NEW x \in Records, NEW d \in Days, storage.lock[<<x, d>>] \in {c, NoConn}
       PROVE  BilledBy(x, d)'
  <2>1. CASE <<x, d>> \in fresh
    <3>1. x = r /\ d \in Plan(t)
      BY <1>13, <2>1
    <3>2. storage'.lock[<<x, d>>] = c
      BY <1>11, <2>1
    <3>3. n > 0
      BY <1>7, <2>1
    <3>4. (Inserting(tx[c]))' /\ (Plan(tx[c]))' = Plan(t)
      BY <1>15, <1>16, <3>3 DEF Inserting, Sweeping, Plan
    <3> QED
      BY <1>14, <1>16, <3>1, <3>2, <3>4, NoConnIsNone DEF BilledBy
  <2>2. CASE <<x, d>> \notin fresh
    BY <1>9, <1>11, <1>23, <2>2 DEF YardInv, BilledBy
  <2> QED
    BY <2>1, <2>2
<1>24. c \in Sweepers => \A x \in todo'[c] : rec.row[x].status # "none"
  BY <1>1 DEF YardInv
<1> QED
  BY <1>17, <1>18, <1>19, <1>20, <1>21, <1>22, <1>23, <1>24, ApartStep

-----------------------------------------------------------------------------
\* Two sweeps that owe days from the same row on the same day owe the same days.
LEMMA SamePlan ==
  ASSUME YardInv, NEW c \in Conns, NEW d \in Conns, Plan(tx[c]) # {}, Plan(tx[d]) # {},
         tx[c].read.through = tx[d].read.through, tx[c].read.started = tx[d].read.started,
         tx[c].now = tx[d].now
  PROVE  Plan(tx[c]) = Plan(tx[d])
<1>1. /\ tx[c].read.status = "stored" /\ tx[c].read.fee > 0
      /\ tx[d].read.status = "stored" /\ tx[d].read.fee > 0
  BY PlanOf
<1>2. FirstDayOwed(tx[c].read) = FirstDayOwed(tx[d].read)
  BY DEF FirstDayOwed
<1> QED
  BY <1>1, <1>2 DEF Plan, planDailyAccrual

\* A sweep that has inserted days has planned an interval of them.
LEMMA InsertedPlan ==
  ASSUME YardInv, NEW c \in Conns, Inserting(tx[c])
  PROVE  LET q == tx[c]
             first == FirstDayOwed(q.read)
         IN /\ SameCharges(q.read, rec.row[q.record]) /\ q.inserted = Cardinality(Plan(q))
            /\ Plan(q) # {} /\ q.read.fee > 0 /\ q.now = today
            /\ first \in Nat /\ Max(Plan(q)) \in Nat /\ Max(Plan(q)) >= first
            /\ Max(Plan(q)) <= today /\ Plan(q) = first..Max(Plan(q))
<1> DEFINE q == tx[c]
<1>1. /\ SameCharges(q.read, rec.row[q.record]) /\ q.inserted = Cardinality(Plan(q))
      /\ q.inserted > 0 /\ q.now = today
  BY DEF YardInv, Holding, Sound, Inserting
<1>2. Plan(q) = {} => Cardinality(Plan(q)) = 0
  BY PlanOf
<1>3. Plan(q) # {}
  BY <1>1, <1>2
<1> QED
  BY <1>1, <1>3, PlanOf

\* A plan goes on where the days billed end.
LEMMA DaysAdded ==
  ASSUME NEW started \in Nat, started > 0, NEW through \in Nat, through = 0 \/ through >= started,
         NEW first, first = (IF through > 0 THEN through + 1 ELSE started),
         NEW last \in Nat, last >= first, NEW d \in Nat
  PROVE  (last > 0 /\ d \in started..last)
           <=> d \in first..last \/ (through > 0 /\ d \in started..through)
OBVIOUS

\* What a commit makes of the rows.
LEMMA CommitRows ==
  ASSUME YardInv, NEW c \in Conns, tx[c].pc = "commit", rec' = Committed(rec, c)
  PROVE  LET q == tx[c]
             r == q.record
             record == rec.row[r]
             next == rec'.row[r]
         IN /\ r \in Records /\ rec' \in Tables(Records, ImpoundRows)
            /\ \A x \in Records \ {r} : rec'.row[x] = rec.row[x]
            /\ \A x \in Records :
                 /\ rec'.new[x] = rec.new[x]
                 /\ rec'.lock[x] = (IF rec.lock[x] = c THEN NoConn ELSE rec.lock[x])
                 /\ rec'.row[x] = (IF rec.lock[x] = c THEN rec.new[x] ELSE rec.row[x])
            /\ record.status # "none" => next.status # "none" /\ next.started = record.started
            /\ next.status = "none" => next = NotTakenIn
            /\ record.status = "none" /\ next.status # "none" =>
                 next.started \in Days /\ next.accrued = 0 /\ next.through = 0
            /\ record.status # "none" /\ ~Inserting(q) => SameCharges(next, record)
            /\ Inserting(q) =>
                 /\ record.status # "none" /\ next.through = Max(Plan(q))
                 /\ next.accrued = record.accrued + Cardinality(Plan(q)) * q.read.fee
<1> DEFINE q == tx[c]
           r == q.record
           record == rec.row[r]
           next == rec'.row[r]
           new == rec.new[r]
<1>1. r \in Records /\ Sound(c) /\ Holding(c) /\ Writing(r) /\ TakenIn(r) /\ c # NoConn
  BY NoConnIsNone DEF YardInv, Sound
<1>2. /\ rec' \in Tables(Records, ImpoundRows)
      /\ \A x \in Records :
                 /\ rec'.new[x] = rec.new[x]
                 /\ rec'.lock[x] = (IF rec.lock[x] = c THEN NoConn ELSE rec.lock[x])
                 /\ rec'.row[x] = (IF rec.lock[x] = c THEN rec.new[x] ELSE rec.row[x])
  BY YardTyped, TableSteps
<1>3. \A x \in Records \ {r} : rec'.row[x] = rec.row[x]
  <2> SUFFICES ASSUME NEW x \in Records, rec.lock[x] = c PROVE x = r
    BY <1>2
  <2> QED
    BY <1>1 DEF YardInv, Writing
<1>4. rec.lock[r] # c => next = record
  BY <1>1, <1>2
<1>5. rec.lock[r] = c =>
        /\ next = new /\ new.status # "none"
        /\ IF q.op = "intake" THEN new.started \in Days /\ new.accrued = 0 /\ new.through = 0
           ELSE IF Inserting(q)
           THEN /\ new.started = record.started /\ new.through = Max(Plan(q))
                /\ new.accrued = q.read.accrued + q.inserted * q.read.fee
           ELSE SameCharges(new, record)
  BY <1>1, <1>2 DEF Writing
<1>6. Inserting(q) =>
        /\ rec.lock[r] = c /\ q.op # "intake" /\ q.read.accrued = record.accrued
        /\ q.inserted = Cardinality(Plan(q)) /\ record.status # "none"
  BY <1>1, PlanDays DEF Holding, SameCharges, Inserting, Sweeping
<1>7. q.op = "intake" <=> record.status = "none"
  <2>1. q.op = "intake" => record.status = "none"
    BY <1>1 DEF Sound, NotTakenIn
  <2>2. q.op = "accrue" => record.status # "none"
    BY PlanDays DEF Sweeping
  <2>3. q.op \in {"intake", "update", "close", "release", "accrue"}
    BY <1>1, YardTyped DEF Sound, Requests, Ops
  <2> QED
    BY <1>1, <2>1, <2>2, <2>3 DEF Sound
<1>8. record.status = "none" => record = NotTakenIn
  BY <1>1 DEF TakenIn
<1> HIDE DEF q, r, record, next, new
<1>9. /\ record.status # "none" => next.status # "none" /\ next.started = record.started
      /\ next.status = "none" => next = NotTakenIn
      /\ record.status = "none" /\ next.status # "none" =>
           next.started \in Days /\ next.accrued = 0 /\ next.through = 0
      /\ record.status # "none" /\ ~Inserting(q) => SameCharges(next, record)
      /\ Inserting(q) =>
           /\ record.status # "none" /\ next.through = Max(Plan(q))
           /\ next.accrued = record.accrued + Cardinality(Plan(q)) * q.read.fee
  BY <1>4, <1>5, <1>6, <1>7, <1>8 DEF SameCharges
<1> QED
  BY <1>1, <1>2, <1>3, <1>9 DEF q, r, record, next

\* and of the storage rows.
LEMMA CommitDays ==
  ASSUME YardInv, NEW c \in Conns, tx[c].pc = "commit", storage' = Committed(storage, c)
  PROVE  LET q == tx[c]
             r == q.record
         IN /\ storage' \in Tables(Records \X Days, Nat)
            /\ \A k \in Records \X Days :
                 /\ storage'.new[k] = storage.new[k]
                 /\ storage'.lock[k] = (IF storage.lock[k] = c THEN NoConn ELSE storage.lock[k])
                 /\ storage'.row[k] = (IF storage.lock[k] = c THEN storage.new[k] ELSE storage.row[k])
            /\ ~Inserting(q) => storage'.row = storage.row
            /\ \A x \in Records \ {r}, d \in Days : storage'.row[<<x, d>>] = storage.row[<<x, d>>]
            /\ \A d \in Days \ Plan(q) : storage'.row[<<r, d>>] = storage.row[<<r, d>>]
            /\ Inserting(q) => \A d \in Plan(q) :
                 storage.row[<<r, d>>] = 0 /\ storage'.row[<<r, d>>] = q.read.fee
<1> DEFINE q == tx[c]
           r == q.record
<1>1. r \in Records /\ Holding(c) /\ c # NoConn
  BY NoConnIsNone DEF YardInv, Sound
<1>2. /\ storage' \in Tables(Records \X Days, Nat)
      /\ \A k \in Records \X Days :
                 /\ storage'.new[k] = storage.new[k]
                 /\ storage'.lock[k] = (IF storage.lock[k] = c THEN NoConn ELSE storage.lock[k])
                 /\ storage'.row[k] = (IF storage.lock[k] = c THEN storage.new[k] ELSE storage.row[k])
  BY YardTyped, TableSteps
<1>3. ASSUME NEW x \in Records, NEW d \in Days, storage.lock[<<x, d>>] = c
      PROVE  Inserting(q) /\ x = r /\ d \in Plan(q)
  <2>1. BilledBy(x, d)
    BY DEF YardInv
  <2> QED
    BY <1>1, <1>3, <2>1 DEF BilledBy
<1>4. ~Inserting(q) => storage'.row = storage.row
  <2> SUFFICES ASSUME ~Inserting(q) PROVE storage'.row = storage.row
    OBVIOUS
  <2>1. \A x \in Records, d \in Days : storage.lock[<<x, d>>] # c
    BY <1>3
  <2>2. \A k \in Records \X Days : storage'.row[k] = storage.row[k]
    BY <1>2, <2>1
  <2>3. storage'.row \in [Records \X Days -> Nat] /\ storage.row \in [Records \X Days -> Nat]
    BY <1>2, YardTyped DEF Tables
  <2> QED
    BY <2>2, <2>3
<1>5. \A x \in Records \ {r}, d \in Days : storage'.row[<<x, d>>] = storage.row[<<x, d>>]
  BY <1>2, <1>3
<1>6. \A d \in Days \ Plan(q) : storage'.row[<<r, d>>] = storage.row[<<r, d>>]
  BY <1>1, <1>2, <1>3
<1>7. ASSUME Inserting(q), NEW d \in Plan(q)
      PROVE  storage.row[<<r, d>>] = 0 /\ storage'.row[<<r, d>>] = q.read.fee
  <2>1. d \in Days
    BY <1>7, PlanDays DEF Inserting
  <2>2. /\ storage.lock[<<r, d>>] = c /\ storage.row[<<r, d>>] = 0
        /\ storage.new[<<r, d>>] = q.read.fee
    BY <1>1, <1>7 DEF Holding
  <2> QED
    BY <1>1, <1>2, <2>1, <2>2
<1> HIDE DEF q, r
<1> QED
  BY <1>2, <1>4, <1>5, <1>6, <1>7 DEF q, r

\* The days that a commit adds are those its record is charged for.
LEMMA CommitMatches ==
  ASSUME YardInv, NEW c \in Conns, tx[c].pc = "commit", rec' = Committed(rec, c),
         storage' = Committed(storage, c), NEW x \in Records
  PROVE  Matches(rec'.row[x], storage'.row, x)
<1> DEFINE q == tx[c]
           r == q.record
           record == rec.row[r]
           next == rec'.row[r]
           old == Charges(storage.row, x)
           now == Charges(storage'.row, x)
<1>1. /\ Matches(rec.row[x], storage.row, x) /\ TakenIn(x)
      /\ \A d \in Days : storage.row[<<x, d>>] \in Nat
  BY YardTyped DEF YardInv, Tables
<1>2. ASSUME \A d \in Days : storage'.row[<<x, d>>] = storage.row[<<x, d>>]
      PROVE  now = old
  BY <1>2 DEF Charges
<1>3. CASE x # r
  <2>1. rec'.row[x] = rec.row[x] /\ \A d \in Days : storage'.row[<<x, d>>] = storage.row[<<x, d>>]
    BY <1>3, CommitRows, CommitDays
  <2> QED
    BY <1>1, <1>2, <2>1 DEF Matches
<1>4. CASE x = r /\ ~Inserting(q)
  <2>1. storage'.row = storage.row
    BY <1>4, CommitDays
  <2>2. record.status # "none" => next.started = record.started /\ SameCharges(next, record)
    BY <1>4, CommitRows
  <2>3. record.status = "none" => /\ record.through = 0 /\ record.accrued = 0
                               /\ next.through = 0 /\ next.accrued = 0
    <3>1. NotTakenIn.through = 0 /\ NotTakenIn.accrued = 0
      BY DEF NotTakenIn
    <3>2. record.status = "none" => record = NotTakenIn
      BY <1>1, <1>4 DEF TakenIn
    <3> QED
      BY <3>1, <3>2, CommitRows
  <2>4. /\ next.accrued = record.accrued /\ next.through = record.through
        /\ next.started = record.started \/ record.through = 0
    BY <2>2, <2>3 DEF SameCharges
  <2>5. Matches(record, storage.row, x)
    BY <1>1, <1>4
  <2> HIDE DEF next, record
  <2>6. Matches(next, storage.row, x)
    BY <2>4, <2>5 DEF Matches
  <2> QED
    BY <1>4, <2>1, <2>6 DEF next
<1>5. CASE x = r /\ Inserting(q)
  <2> DEFINE P == Plan(q)
             fee == q.read.fee
             last == Max(P)
             first == FirstDayOwed(q.read)
  <2>1. /\ record.status # "none" /\ next.started = record.started /\ next.through = last
        /\ next.accrued = record.accrued + Cardinality(P) * fee
    BY <1>5, CommitRows
  <2>2. /\ \A d \in Days \ P : storage'.row[<<r, d>>] = storage.row[<<r, d>>]
        /\ \A d \in P : storage.row[<<r, d>>] = 0 /\ storage'.row[<<r, d>>] = fee
    BY <1>5, CommitDays
  <2>3. Inserting(q) /\ P \subseteq Days /\ fee \in Nat
    BY <1>5, PlanDays, YardTyped DEF Inserting, Requests, ImpoundRows
  <2>4. /\ q.inserted > 0 /\ q.inserted = Cardinality(P) /\ SameCharges(q.read, record)
    BY <1>5 DEF YardInv, Holding, Inserting
  <2>5. /\ P # {} /\ fee > 0 /\ last \in Nat /\ last >= first /\ first \in Nat
        /\ P = first..last
    BY <1>5, InsertedPlan
  <2>6. /\ record.through \in Nat /\ record.started \in Days
        /\ record.through = 0 \/ record.through >= record.started
    <3>1. record \in ImpoundRows
      BY <1>5, YardTyped
    <3>2. record.started \in Days /\ record.through \in {0} \cup (record.started..today)
      BY <1>1, <1>5, <2>1 DEF TakenIn
    <3> QED
      BY <3>1, <3>2 DEF ImpoundRows
  <2>7. first = IF record.through > 0 THEN record.through + 1 ELSE record.started
    BY <2>4 DEF FirstDayOwed, SameCharges
  <2> HIDE DEF P, fee, last, first
  <2>8. Sum(now, Days) = Sum(old, Days) + Cardinality(P) * fee
    <3>1. (\A d \in Days : old[d] \in Int) /\ (\A d \in Days \ P : now[d] = old[d])
          /\ (\A d \in P : now[d] = old[d] + fee)
      BY <1>1, <1>5, <2>2, <2>3 DEF Charges
    <3>2. IsFiniteSet(Days) /\ P \in SUBSET Days /\ fee \in Int
      BY <2>3, YardDays, YardTyped
    <3> HIDE DEF old, now
    <3>3. RaisedOn(Days, P, fee, old, now)
      BY <3>1 DEF RaisedOn
    <3> QED
      BY <3>1, <3>2, <3>3, SumRaise
  <2>9. ASSUME NEW d \in Days
        PROVE  storage'.row[<<r, d>>] > 0 <=> last > 0 /\ d \in record.started..last
    <3>1. storage.row[<<r, d>>] > 0 <=> record.through > 0 /\ d \in record.started..record.through
      BY <1>1, <1>5 DEF Matches
    <3>2. d \in Nat /\ record.started \in Nat /\ record.started > 0
      BY <2>6, <2>9 DEF Days
    <3>3. (last > 0 /\ d \in record.started..last)
            <=> d \in first..last \/ (record.through > 0 /\ d \in record.started..record.through)
      <4> DEFINE started == record.started
                 through == record.through
      <4>1. /\ started \in Nat /\ started > 0 /\ through \in Nat
            /\ through = 0 \/ through >= started
            /\ first = IF through > 0 THEN through + 1 ELSE started
        BY <2>6, <2>7, <3>2
      <4> HIDE DEF started, through
      <4>2. (last > 0 /\ d \in started..last)
              <=> d \in first..last \/ (through > 0 /\ d \in started..through)
        BY <2>5, <3>2, <4>1, DaysAdded
      <4> QED
        BY <4>2 DEF started, through
    <3>4. d \in P <=> d \in first..last
      BY <2>5
    <3>5. d \in P => storage'.row[<<r, d>>] > 0
      BY <2>2, <2>5
    <3>6. d \notin P => storage'.row[<<r, d>>] = storage.row[<<r, d>>]
      BY <2>2
    <3> QED
      BY <3>1, <3>3, <3>4, <3>5, <3>6
  <2>10. record.accrued = Sum(old, Days)
    BY <1>1, <1>5 DEF Matches
  <2> QED
    BY <1>5, <2>1, <2>8, <2>9, <2>10 DEF Matches
<1> QED
  BY <1>3, <1>4, <1>5

\* What the others have survives a commit: of two that have inserted the days of one record
\* each would hold them all.
LEMMA CommitHolding ==
  ASSUME YardInv, NEW c \in Conns, tx[c].pc = "commit", rec' = Committed(rec, c),
         storage' = Committed(storage, c), NEW d \in Conns \ {c}, tx'[d] = tx[d]
  PROVE  Holding(d)'
<1> DEFINE q == tx[c]
           r == q.record
           t == tx[d]
           record == rec.row[t.record]
           next == rec'.row[t.record]
<1>1. Holding(c) /\ Holding(d) /\ c # NoConn /\ d # NoConn /\ Sound(c) /\ Sound(d)
  BY NoConnIsNone DEF YardInv
<1>2. t.pc = "days" \/ Inserting(t) =>
        Sweeping(t) /\ t.record \in Records /\ Plan(t) \subseteq Days /\ record.status # "none"
        /\ t.now = today
  BY <1>1, PlanDays DEF Sound, Inserting
<1>3. ASSUME Inserting(q), t.record = r, SameCharges(t.read, record), Plan(t) # {}, Sweeping(t)
      PROVE  Plan(t) = Plan(q)
  <2>1. SameCharges(q.read, record)
    BY <1>3, InsertedPlan
  <2>2. Plan(q) # {}
    BY <1>3, InsertedPlan
  <2>3. q.now = t.now
    BY <1>1, <1>3 DEF Sound, Inserting, Sweeping
  <2>4. tx[c].read.through = tx[d].read.through /\ tx[c].read.started = tx[d].read.started
    BY <1>3, <2>1 DEF SameCharges
  <2> QED
    BY <1>3, <2>2, <2>3, <2>4, SamePlan
<1>4. Inserting(t) => ~(Inserting(q) /\ t.record = r)
  <2> SUFFICES ASSUME Inserting(t), Inserting(q), t.record = r PROVE FALSE
    OBVIOUS
  <2>1. SameCharges(t.read, record)
    BY InsertedPlan
  <2>2. Plan(t) # {}
    BY InsertedPlan
  <2>3. Plan(t) = Plan(q)
    BY <1>2, <1>3, <2>1, <2>2
  <2>4. PICK x \in Plan(t) : TRUE
    BY <2>2
  <2>5. storage.lock[<<r, x>>] = d /\ storage.lock[<<r, x>>] = c
    BY <1>1, <2>3, <2>4 DEF Holding
  <2> QED
    BY <2>5
<1>5. ASSUME t.pc = "days" \/ Inserting(t), ~(Inserting(q) /\ t.record = r)
      PROVE  SameCharges(next, record)
  <2>1. next = record \/ (t.record = r /\ SameCharges(next, record))
    BY <1>2, <1>5, CommitRows
  <2> QED
    BY <2>1 DEF SameCharges
<1>6. ASSUME t.pc = "days" \/ Inserting(t), NEW x \in Days, storage.row[<<t.record, x>>] > 0
      PROVE  storage'.row[<<t.record, x>>] > 0
  <2>1. <<t.record, x>> \in Records \X Days
    BY <1>2, <1>6
  <2>2. CASE storage'.row[<<t.record, x>>] = storage.row[<<t.record, x>>]
    BY <1>6, <2>2
  <2>3. CASE t.record = r /\ x \in Plan(q) /\ Inserting(q)
    BY <1>6, <2>3, CommitDays
  <2> QED
    BY <1>2, <2>1, <2>2, <2>3, CommitDays
<1>7. ASSUME Inserting(t), NEW x \in Plan(t)
      PROVE  /\ storage'.lock[<<t.record, x>>] = d /\ storage'.row[<<t.record, x>>] = 0
             /\ storage'.new[<<t.record, x>>] = t.read.fee
  <2>1. <<t.record, x>> \in Records \X Days
    BY <1>2, <1>7
  <2>2. /\ storage.lock[<<t.record, x>>] = d /\ storage.row[<<t.record, x>>] = 0
        /\ storage.new[<<t.record, x>>] = t.read.fee
    BY <1>1, <1>7 DEF Holding
  <2> QED
    BY <2>1, <2>2, CommitDays
<1>8. ASSUME Inserting(t)
      PROVE  /\ SameCharges(t.read, next) /\ t.inserted = Cardinality(Plan(t))
             /\ t.pc = "commit" => rec'.lock[t.record] = d
  <2>1. /\ SameCharges(t.read, record) /\ t.inserted = Cardinality(Plan(t))
        /\ t.pc = "commit" => rec.lock[t.record] = d
    BY <1>1, <1>8 DEF Holding
  <2>2. SameCharges(next, record)
    BY <1>4, <1>5, <1>8
  <2>3. t.pc = "commit" => rec'.lock[t.record] = d
    BY <1>2, <1>8, <2>1, CommitRows
  <2> QED
    BY <2>1, <2>2, <2>3 DEF SameCharges
<1>9. ASSUME t.pc = "days"
      PROVE  SameCharges(t.read, next) \/ \A x \in Plan(t) : storage'.row[<<t.record, x>>] > 0
  <2>1. CASE Plan(t) \subseteq DaysBilled(t.record)
    BY <1>6, <1>9, <2>1 DEF DaysBilled
  <2>2. CASE SameCharges(t.read, record) /\ ~(Inserting(q) /\ t.record = r)
    BY <1>5, <1>9, <2>2 DEF SameCharges
  <2>3. CASE SameCharges(t.read, record) /\ Inserting(q) /\ t.record = r /\ Plan(t) # {}
    <3>1. Plan(t) = Plan(q)
      BY <1>2, <1>3, <1>9, <2>3
    <3>2. q.read.fee > 0
      BY <2>3, <3>1, PlanOf
    <3> QED
      BY <2>3, <3>1, <3>2, CommitDays
  <2>4. CASE Plan(t) = {}
    BY <2>4
  <2> QED
    BY <1>1, <1>9, <2>1, <2>2, <2>3, <2>4 DEF Holding
<1>10. /\ (Inserting(tx[d]))' <=> Inserting(t)
       /\ (Plan(tx[d]))' = Plan(t)
       /\ (SameCharges(tx[d].read, rec.row[tx[d].record]))' <=> SameCharges(t.read, next)
  BY DEF Inserting, Sweeping, Plan, SameCharges
<1>11. t.pc = "days" /\ (\A x \in Plan(t) : storage'.row[<<t.record, x>>] > 0) =>
         Plan(t) \subseteq (DaysBilled(tx[d].record))'
  BY <1>2 DEF DaysBilled
<1>12. t = tx[d]
  OBVIOUS
<1> HIDE DEF q, r, t, record, next
<1> QED
  BY <1>7, <1>8, <1>9, <1>10, <1>11, <1>12 DEF Holding

\* The COMMIT of any transaction.
LEMMA CommitStep == ASSUME YardInv, NEW c \in Conns, Commit(c) PROVE YardInv'
<1> DEFINE q == tx[c]
           r == q.record
<1>1. /\ tx[c].pc = "commit" /\ rec' = Committed(rec, c) /\ storage' = Committed(storage, c)
      /\ released' = Committed(released, c) /\ tx' = [tx EXCEPT ![c] = Idle]
      /\ UNCHANGED <<hold, today>>
      /\ todo' = IF c \in Sweepers THEN [todo EXCEPT ![c] = @ \ {r}] ELSE todo
  BY DEF Commit, Serving, End
<1>2. /\ Idle \in Requests /\ ~Inserting(Idle) /\ Idle.pc = "idle" /\ Idle.record = NoRecord
      /\ Idle.op = "none"
  BY DEF Idle, Inserting, Sweeping, Requests, Ops, Steps, Statuses, NotTakenIn, ImpoundRows
<1>3. tx'[c] = Idle /\ tx' \in [Conns -> Requests] /\ \A d \in Conns \ {c} : tx'[d] = tx[d]
  BY <1>1, <1>2, YardTyped
<1>4. /\ todo' \in [Sweepers -> SUBSET Records] /\ \A d \in Sweepers \ {c} : todo'[d] = todo[d]
      /\ \A d \in Sweepers : todo'[d] \subseteq todo[d]
  BY <1>1, YardTyped
<1>5. released' \in Tables(Records, BOOLEAN)
  BY <1>1, YardTyped, TableSteps
<1>6. /\ r \in Records /\ rec' \in Tables(Records, ImpoundRows)
      /\ (\A x \in Records \ {r} : rec'.row[x] = rec.row[x])
      /\ storage' \in Tables(Records \X Days, Nat)
  BY <1>1, CommitRows, CommitDays
<1>7. ASSUME NEW x \in Records, rec.row[x].status # "none"
      PROVE  rec'.row[x].status # "none" /\ rec'.row[x].started = rec.row[x].started
  BY <1>1, <1>6, <1>7, CommitRows
<1>8. ASSUME NEW x \in Records PROVE TakenIn(x)' /\ rec'.row[x].through <= today
  <2>0. TakenIn(x) /\ today \in Nat /\ NotTakenIn.through = 0 /\ NotTakenIn.status = "none"
    BY YardTyped DEF YardInv, Days, NotTakenIn
  <2>1. CASE x # r \/ (x = r /\ rec.row[r].status # "none" /\ ~Inserting(q))
    <3>1. CASE x # r
      BY <1>1, <1>6, <2>0, <3>1 DEF TakenIn, YardInv, StorageTypeOK
    <3>2. CASE x = r /\ rec.row[r].status # "none" /\ ~Inserting(q)
      <4>1. rec'.row[x].status # "none" /\ SameCharges(rec'.row[x], rec.row[x])
        BY <1>1, <3>2, CommitRows
      <4>2. rec.row[x].through <= today
        BY DEF YardInv, StorageTypeOK
      <4> QED
        BY <1>1, <2>0, <3>2, <4>1, <4>2 DEF TakenIn, SameCharges
    <3> QED
      BY <2>1, <3>1, <3>2
  <2>2. CASE x = r /\ rec.row[r].status = "none"
    <3>1. /\ rec'.row[x].status = "none" => rec'.row[x] = NotTakenIn
          /\ rec'.row[x].status # "none" => rec'.row[x].started \in Days /\ rec'.row[x].through = 0
      BY <1>1, <2>2, CommitRows
    <3> QED
      BY <1>1, <2>0, <3>1 DEF TakenIn
  <2>3. CASE x = r /\ Inserting(q)
    <3>1. /\ rec.row[x].status # "none" /\ rec'.row[x].through = Max(Plan(q))
          /\ rec'.row[x].status # "none" /\ rec'.row[x].started = rec.row[x].started
      BY <1>1, <2>3, CommitRows
    <3>2. SameCharges(q.read, rec.row[x])
      BY <2>3, InsertedPlan
    <3>3. /\ Max(Plan(q)) \in Nat /\ Max(Plan(q)) >= FirstDayOwed(q.read) /\ Max(Plan(q)) <= today
          /\ FirstDayOwed(q.read) \in Nat
      BY <2>3, InsertedPlan
    <3>4. rec.row[x].started \in Days /\ rec.row[x].through \in {0} \cup (rec.row[x].started..today)
      BY <2>0, <3>1 DEF TakenIn
    <3>5. FirstDayOwed(q.read) >= rec.row[x].started
      BY <2>0, <3>2, <3>4 DEF FirstDayOwed, SameCharges, Days
    <3>6. Max(Plan(q)) \in rec.row[x].started..today
      <4>1. rec.row[x].started \in Nat
        BY <3>4 DEF Days
      <4> QED
        BY <2>0, <3>3, <3>5, <4>1
    <3> QED
      BY <1>1, <3>1, <3>3, <3>4, <3>6 DEF TakenIn
  <2> QED
    BY <2>1, <2>2, <2>3
<1>9. StorageTypeOK'
  BY <1>1, <1>3, <1>4, <1>5, <1>6, <1>8, YardTyped DEF StorageTypeOK
<1>10. \A d \in Sweepers : \A x \in todo'[d] : rec'.row[x].status # "none"
  BY <1>4, <1>7, YardTyped DEF YardInv
<1>11. Sound(c)' /\ Holding(c)'
  BY <1>2, <1>3 DEF Sound, Holding, Sweeping, Inserting
<1>12. ASSUME NEW d \in Conns \ {c} PROVE Sound(d)'
  <2>1. Sound(d) /\ Sound(c)
    BY DEF YardInv
  <2>2. (Sweeping(tx[d]))' <=> Sweeping(tx[d])
    BY <1>3 DEF Sweeping
  <2>3. tx[d].op = "intake" => rec'.row[tx[d].record] = NotTakenIn
    BY <1>2, <1>6, <2>1 DEF Sound
  <2>4. tx[d].op = "intake" => \A e \in Conns \ {d} : tx'[e].record # tx[d].record
    BY <1>2, <1>3, <2>1, YardTyped DEF Sound, ImpoundConstants, Requests
  <2>5. tx[d].op # "none" => tx[d].record \in Records
    BY <2>1, <1>2 DEF Sound
  <2>6. Sweeping(tx[d]) => rec.row[tx[d].record].status # "none"
    BY PlanDays
  <2>7. Sweeping(tx[d]) => tx[d].record \in todo'[d]
    BY <1>4, <2>1 DEF Sound
  <2>8. Sweeping(tx[d]) => rec'.row[tx[d].record].started = rec.row[tx[d].record].started
    BY <1>7, <2>5, <2>6 DEF Sweeping
  <2>9. tx[d].op \in {"update", "close", "release"} => rec'.row[tx[d].record].status # "none"
    BY <1>7, <2>1, <2>5 DEF Sound
  <2> QED
    BY <1>1, <1>3, <2>1, <2>2, <2>3, <2>4, <2>7, <2>8, <2>9 DEF Sound
<1>13. \A d \in Conns \ {c} : Holding(d)'
  BY <1>1, <1>3, CommitHolding
<1>14. ASSUME NEW x \in Records PROVE Writing(x)'
  <2>1. /\ rec'.new[x] = rec.new[x]
        /\ rec'.lock[x] = (IF rec.lock[x] = c THEN NoConn ELSE rec.lock[x])
        /\ rec'.row[x] = (IF rec.lock[x] = c THEN rec.new[x] ELSE rec.row[x])
    BY <1>1, CommitRows
  <2>2. Writing(x) /\ rec.lock[x] \in Conns \cup {NoConn} /\ c # NoConn
    BY YardTyped, NoConnIsNone DEF YardInv, Tables
  <2>3. CASE rec.lock[x] = c \/ rec.lock[x] = NoConn
    BY <2>1, <2>2, <2>3 DEF Writing
  <2>4. CASE rec.lock[x] # c /\ rec.lock[x] # NoConn
    <3> DEFINE d == rec.lock[x]
    <3>1. d \in Conns \ {c} /\ rec'.lock[x] = d /\ tx'[d] = tx[d]
          /\ rec'.row[x] = rec.row[x] /\ rec'.new[x] = rec.new[x]
      BY <1>3, <2>1, <2>2, <2>4
    <3> HIDE DEF d
    <3> QED
      BY <2>2, <3>1 DEF Writing, Inserting, Sweeping, Plan, SameCharges, d
  <2> QED
    BY <2>3, <2>4
<1>15. ASSUME NEW x \in Records, NEW y \in Days PROVE BilledBy(x, y)'
  <2> DEFINE k == <<x, y>>
  <2>1. /\ storage'.new[k] = storage.new[k]
        /\ storage'.lock[k] = (IF storage.lock[k] = c THEN NoConn ELSE storage.lock[k])
        /\ storage'.row[k] = (IF storage.lock[k] = c THEN storage.new[k] ELSE storage.row[k])
    BY <1>1, CommitDays
  <2>2. BilledBy(x, y) /\ storage.lock[k] \in Conns \cup {NoConn} /\ c # NoConn
    BY YardTyped, NoConnIsNone DEF YardInv, Tables
  <2>3. CASE storage.lock[k] = c \/ storage.lock[k] = NoConn
    BY <2>1, <2>2, <2>3 DEF BilledBy
  <2>4. CASE storage.lock[k] # c /\ storage.lock[k] # NoConn
    <3> DEFINE d == storage.lock[k]
    <3>1. d \in Conns \ {c} /\ storage'.lock[k] = d /\ tx'[d] = tx[d]
      BY <1>3, <2>1, <2>2, <2>4
    <3> HIDE DEF d
    <3> QED
      BY <2>2, <2>4, <3>1 DEF BilledBy, Inserting, Sweeping, Plan, d
  <2> QED
    BY <2>3, <2>4
<1>16. \A x \in Records : Matches(rec.row[x], storage.row, x)'
  <2>1. \A x \in Records : Matches(rec'.row[x], storage'.row, x)
    BY <1>1, CommitMatches
  <2> QED
    BY <2>1 DEF Matches, Charges
<1>17. ImpoundConstants
  BY DEF YardInv
<1> QED
  BY <1>8, <1>9, <1>10, <1>11, <1>12, <1>13, <1>14, <1>15, <1>16, <1>17 DEF YardInv

-----------------------------------------------------------------------------
\* A transaction is rolled back,
LEMMA EndStep ==
  ASSUME YardInv, NEW c \in Conns, Rollback(c) PROVE YardInv'
<1>1. /\ rec' = RolledBack(rec, c) /\ storage' = RolledBack(storage, c)
      /\ released' = RolledBack(released, c) /\ tx' = [tx EXCEPT ![c] = Idle]
      /\ UNCHANGED <<hold, today>>
      /\ todo' = IF c \in Sweepers THEN [todo EXCEPT ![c] = @ \ {tx[c].record}] ELSE todo
  BY DEF Rollback, End
<1>2. /\ todo' \in [Sweepers -> SUBSET Records] /\ \A d \in Sweepers \ {c} : todo'[d] = todo[d]
      /\ c \in Sweepers => todo'[c] \subseteq todo[c]
  BY <1>1, YardTyped
<1> QED
  BY <1>1, <1>2, UndoneStep

\* or its process stops.
LEMMA CrashStep == ASSUME YardInv, NEW c \in Sweepers, Crash(c) PROVE YardInv'
<1>1. /\ rec' = RolledBack(rec, c) /\ storage' = RolledBack(storage, c)
      /\ released' = RolledBack(released, c) /\ tx' = [tx EXCEPT ![c] = Idle]
      /\ UNCHANGED <<hold, today>> /\ todo' = [todo EXCEPT ![c] = {}]
  BY DEF Crash
<1>2. /\ todo' \in [Sweepers -> SUBSET Records] /\ \A d \in Sweepers \ {c} : todo'[d] = todo[d]
      /\ todo'[c] \subseteq todo[c] /\ c \in Conns
  BY <1>1, YardTyped
<1> QED
  BY <1>1, <1>2, UndoneStep

\* Every statement, and every step.
LEMMA StatementStep == ASSUME YardInv, NEW c \in Conns, Statement(c) PROVE YardInv'
<1>1. ASSUME evaluateReleaseGate(c) PROVE YardInv'
  <2>1. CASE Rollback(c)
    BY <2>1, EndStep
  <2>2. CASE Goto(c, "insert") /\ UNCHANGED <<tables, hold, today, todo>>
    BY <1>1, <2>2, YardTyped, GoStep DEF evaluateReleaseGate, Serving, tables
  <2> QED
    BY <1>1, <2>1, <2>2 DEF evaluateReleaseGate
<1>2. ASSUME InsertRelease(c) PROVE YardInv'
  <2>1. CASE Rollback(c)
    BY <2>1, EndStep
  <2>2. CASE /\ released' = Written(released, c, tx[c].record, TRUE)
             /\ Goto(c, "write") /\ UNCHANGED <<rec, storage, hold, today, todo>>
    <3>1. tx[c].pc = "insert" /\ tx[c].record \in Records
      BY <1>2 DEF InsertRelease, Serving, YardInv, Sound
    <3>2. released' \in Tables(Records, BOOLEAN)
      <4>1. TRUE \in BOOLEAN /\ released \in Tables(Records, BOOLEAN)
        BY YardTyped
      <4>2. Written(released, c, tx[c].record, TRUE) \in Tables(Records, BOOLEAN)
        BY <3>1, <4>1, Zenon DEF Written, Tables
      <4> QED
        BY <2>2, <4>2
    <3> QED
      BY <2>2, <3>1, <3>2, GoStep
  <2> QED
    BY <1>2, <2>1, <2>2 DEF InsertRelease
<1> QED
  BY <1>1, <1>2, WriteRecordStep, InsertDaysStep, WriteAccrualStep, CommitStep DEF Statement

LEMMA YardStep == YardInv /\ [StorageNext]_storageVars => YardInv'
<1> SUFFICES ASSUME YardInv, [StorageNext]_storageVars PROVE YardInv'
  OBVIOUS
<1>1. CASE UNCHANGED storageVars
  BY <1>1, YardTyped, StillStep DEF storageVars, tables
<1>2. CASE \E c \in Clerks : ClerkRequest(c)
  BY <1>2, RequestStep
<1>3. CASE \E c \in Sweepers : Sweep(c) \/ Crash(c)
  BY <1>3, SweepStep, CrashStep
<1>4. CASE \E c \in Conns : Statement(c) \/ Abort(c)
  BY <1>4, StatementStep, EndStep DEF Abort
<1>5. CASE \E h \in Holds : releaseHold(h) \/ \E r \in Records : addHold(r, h)
  BY <1>5, HoldStep
<1>6. CASE DayPasses
  BY <1>6, DayStep
<1> QED
  BY <1>1, <1>2, <1>3, <1>4, <1>5, <1>6 DEF StorageNext

\* Any number of clerks, sweepers, records, holds and days: the tables hold what they are
\* meant to hold, and no record is accrued past the current day.
THEOREM StorageTypeCorrect == StorageSpec => []StorageTypeOK
<1>1. StorageInit => YardInv
  BY ImpoundConstants, YardInit
<1>2. YardInv => StorageTypeOK
  BY DEF YardInv
<1> QED
  BY <1>1, <1>2, YardStep, PTL DEF StorageSpec

\* A vehicle is charged what its storage rows say, each day from its arrival to
\* last_accrued_on once, however sweeps, clerks, failures and crashes interleave.
THEOREM AccruedMatchesRowsHolds == StorageSpec => []AccruedMatchesRows
<1>1. StorageInit => YardInv
  BY ImpoundConstants, YardInit
<1> QED
  BY <1>1, YardStep, Accrued, PTL DEF StorageSpec
=============================================================================
