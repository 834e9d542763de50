---------------------------- MODULE JobDispatch ----------------------------
(***************************************************************************)
(* The dispatch board's write path: assign, unassign and transition of     *)
(* apps/api/src/modules/jobs/jobs.service.ts and the shift operations of   *)
(* apps/api/src/modules/dispatch/drivers.service.ts.                       *)
(*                                                                         *)
(* Every request is one READ COMMITTED transaction on a pooled connection: *)
(* plain SELECTs that see committed rows, guards on what they saw, UPDATEs *)
(* that take row locks, the event emitted by a synchronous call inside the *)
(* transaction, COMMIT.  A step here is one statement, so requests         *)
(* interleave between statements.  With one connection the specification   *)
(* is the sequential program.                                              *)
(***************************************************************************)
EXTENDS JobStateMachine, Naturals, FiniteSets

CONSTANTS
  Conns,        \* pooled connections, each serving one request at a time
  Jobs,         \* jobs rows, already taken in
  Drivers,      \* active drivers
  Trucks,       \* trucks in service
  Shifts,       \* driver_shifts rows, inserted by startShift
  Targets,      \* the statuses POST transition is called with
  BoardShifts,  \* what assign's callers send as shiftId; NoShift: nothing
  Reported,     \* the statuses drivers report for their shift
  NoConn, NoJob, NoDriver, NoTruck, NoShift

ASSUME NullsAreDistinct ==
  /\ NoConn \notin Conns /\ NoJob \notin Jobs /\ NoDriver \notin Drivers
  /\ NoTruck \notin Trucks /\ NoShift \notin Shifts

ASSUME InputsAreLegal ==
  /\ Targets \subseteq JobStatuses /\ Reported \subseteq ShiftStatuses
  /\ BoardShifts \subseteq Shifts \cup {NoShift}

VARIABLES
  job,        \* the committed jobs rows
  jobNew,     \* their uncommitted versions, seen by the lock holder only
  jobLock,    \* the connection holding the row lock
  shift, shiftNew, shiftLock,   \* the same for driver_shifts
  tx,         \* per connection: the request and how far it is
  announced,  \* per job: the status of the last event subscribers received
  phantom     \* jobs whose last event came from a rolled-back transaction

jobVars == <<job, jobNew, jobLock>>
shiftVars == <<shift, shiftNew, shiftLock>>
feedVars == <<announced, phantom>>
vars == <<jobVars, shiftVars, tx, feedVars>>

-----------------------------------------------------------------------------
\* Rows.  "moved" is where the newest job_status_transitions row of the job ends.
JobRows == [status : JobStatuses, driver : Drivers \cup {NoDriver},
            shift : Shifts \cup {NoShift}, moved : JobStatuses]
ShiftRows == [driver : Drivers \cup {NoDriver}, truck : Trucks \cup {NoTruck},
              status : ShiftStatuses, cur : Jobs \cup {NoJob}, ended : BOOLEAN]

NewJob == [status |-> "new", driver |-> NoDriver, shift |-> NoShift, moved |-> "new"]
NoRow == [driver |-> NoDriver, truck |-> NoTruck, status |-> "available",
          cur |-> NoJob, ended |-> FALSE]

Exists(row) == row.driver # NoDriver
Open(row) == Exists(row) /\ ~row.ended
OpenShiftsOf(d) == {s \in Shifts : Open(shift[s]) /\ shift[s].driver = d}

\* The request a connection serves: from and prev are the status and driver it
\* read on the job, shift the driver_shifts row it will write.
Ops == {"none", "assign", "unassign", "transition", "startShift", "endShift",
        "shiftStatus"}
Steps == {"idle", "lookup", "job", "prev", "shift", "insert", "emit", "commit"}
Idle == [op |-> "none", pc |-> "idle", job |-> NoJob, driver |-> NoDriver,
         truck |-> NoTruck, shift |-> NoShift, prev |-> NoDriver,
         from |-> "new", to |-> "new"]
Requests == [op : Ops, pc : Steps, job : Jobs \cup {NoJob},
             driver : Drivers \cup {NoDriver}, truck : Trucks \cup {NoTruck},
             shift : Shifts \cup {NoShift}, prev : Drivers \cup {NoDriver},
             from : JobStatuses, to : JobStatuses \cup ShiftStatuses]

TypeOK ==
  /\ job \in [Jobs -> JobRows] /\ jobNew \in [Jobs -> JobRows]
  /\ jobLock \in [Jobs -> Conns \cup {NoConn}]
  /\ shift \in [Shifts -> ShiftRows] /\ shiftNew \in [Shifts -> ShiftRows]
  /\ shiftLock \in [Shifts -> Conns \cup {NoConn}]
  /\ tx \in [Conns -> Requests]
  /\ announced \in [Jobs -> JobStatuses] /\ phantom \subseteq Jobs

Init ==
  /\ job = [j \in Jobs |-> NewJob] /\ jobNew = job
  /\ jobLock = [j \in Jobs |-> NoConn]
  /\ shift = [s \in Shifts |-> NoRow] /\ shiftNew = shift
  /\ shiftLock = [s \in Shifts |-> NoConn]
  /\ tx = [c \in Conns |-> Idle]
  /\ announced = [j \in Jobs |-> "new"] /\ phantom = {}

-----------------------------------------------------------------------------
\* The database.
At(c, op, pc) == tx[c].op = op /\ tx[c].pc = pc
Goto(c, pc) == tx' = [tx EXCEPT ![c].pc = pc]
Free(lock, c) == lock \in {NoConn, c}

\* UPDATE ... WHERE id: waits for the row lock, then writes a new version.
WriteJob(c, j, row) ==
  /\ Free(jobLock[j], c)
  /\ jobLock' = [jobLock EXCEPT ![j] = c]
  /\ jobNew' = [jobNew EXCEPT ![j] = row]
  /\ UNCHANGED <<job, shiftVars, feedVars>>

WriteShift(c, s, row) ==
  /\ Free(shiftLock[s], c)
  /\ shiftLock' = [shiftLock EXCEPT ![s] = c]
  /\ shiftNew' = [shiftNew EXCEPT ![s] = row]
  /\ UNCHANGED <<jobVars, shift, feedVars>>

\* The end of runInTenantContext: the locks go, the versions written stay
\* (COMMIT) or not (ROLLBACK).
Release(c) ==
  /\ jobLock' = [j \in Jobs |-> IF jobLock[j] = c THEN NoConn ELSE jobLock[j]]
  /\ shiftLock' = [s \in Shifts |-> IF shiftLock[s] = c THEN NoConn ELSE shiftLock[s]]
  /\ tx' = [tx EXCEPT ![c] = Idle]

Commit(c) ==
  /\ tx[c].pc = "commit"
  /\ Release(c)
  /\ job' = [j \in Jobs |-> IF jobLock[j] = c THEN jobNew[j] ELSE job[j]]
  /\ shift' = [s \in Shifts |-> IF shiftLock[s] = c THEN shiftNew[s] ELSE shift[s]]
  /\ UNCHANGED <<jobNew, shiftNew, feedVars>>

Rollback(c) ==
  /\ Release(c)
  /\ jobNew' = [j \in Jobs |-> IF jobLock[j] = c THEN job[j] ELSE jobNew[j]]
  /\ shiftNew' = [s \in Shifts |-> IF shiftLock[s] = c THEN shift[s] ELSE shiftNew[s]]
  /\ phantom' = IF tx[c].pc = "commit" /\ tx[c].job # NoJob
                THEN phantom \cup {tx[c].job} ELSE phantom
  /\ UNCHANGED <<job, shift, announced>>

\* A statement or the COMMIT fails: connection lost, timeout, process killed.
Abort(c) == tx[c].pc # "idle" /\ Rollback(c)

-----------------------------------------------------------------------------
\* assign: the SELECT of the job and its guards, then the shift to use.
Begin(c, request) == tx[c].pc = "idle" /\ tx' = [tx EXCEPT ![c] = request]
Unchanged == UNCHANGED <<jobVars, shiftVars, feedVars>>

\* Mutant: only finished jobs are refused.
AssignableUnlessDone(status) == status \notin TERMINAL_STATUSES

Assignable(status) == status \notin TERMINAL_STATUSES /\ status \in {"new", "dispatched"}

BeginAssign(c, j, d, s) ==
  /\ Assignable(job[j].status)
  /\ s # NoShift => Exists(shift[s])
  /\ Begin(c, [Idle EXCEPT !.op = "assign", !.job = j, !.driver = d, !.shift = s,
                 !.pc = IF s = NoShift THEN "lookup" ELSE "job",
                 !.from = job[j].status, !.prev = job[j].driver, !.to = "dispatched"])
  /\ Unchanged

\* Mutant: SELECT ... FOR UPDATE, before the job's row.
LookupShiftForUpdate(c) ==
  /\ At(c, "assign", "lookup")
  /\ \/ \E s \in OpenShiftsOf(tx[c].driver) :
          /\ WriteShift(c, s, shiftNew[s])
          /\ tx' = [tx EXCEPT ![c].shift = s, ![c].pc = "job"]
     \/ OpenShiftsOf(tx[c].driver) = {} /\ tx' = [tx EXCEPT ![c] = Idle] /\ Unchanged

LookupShift(c) ==
  /\ At(c, "assign", "lookup")
  /\ \/ \E s \in OpenShiftsOf(tx[c].driver) :
          tx' = [tx EXCEPT ![c].shift = s, ![c].pc = "job"]
     \/ OpenShiftsOf(tx[c].driver) = {} /\ tx' = [tx EXCEPT ![c] = Idle]  \* 409
  /\ Unchanged

\* Mutant: the UPDATE leaves assigned_shift_id to the shift's own row.
AssignJobWithoutShift(c) ==
  LET t == tx[c] IN
  /\ At(c, "assign", "job")
  /\ WriteJob(c, t.job, [jobNew[t.job] EXCEPT !.status = "dispatched", !.driver = t.driver])
  /\ Goto(c, IF t.prev \notin {NoDriver, t.driver} THEN "prev" ELSE "shift")

AssignJob(c) ==
  LET t == tx[c] IN
  /\ At(c, "assign", "job")
  /\ WriteJob(c, t.job, [jobNew[t.job] EXCEPT !.status = "dispatched",
                           !.driver = t.driver, !.shift = t.shift])
  /\ Goto(c, IF t.prev \notin {NoDriver, t.driver} THEN "prev" ELSE "shift")

\* UPDATE ... WHERE driver_id = prev AND ended_at IS NULL: the row is found in the
\* committed table; without one the statement changes nothing.
NoOpenShift(d) == OpenShiftsOf(d) = {} /\ Unchanged

\* Mutant: the previous driver's shift is not looked for.
LeavePrev(c) == At(c, "assign", "prev") /\ Unchanged /\ Goto(c, "shift")

ClearPrev(c) ==
  /\ At(c, "assign", "prev")
  /\ \/ \E s \in OpenShiftsOf(tx[c].prev) :
          WriteShift(c, s, [shiftNew[s] EXCEPT !.cur = NoJob])
     \/ NoOpenShift(tx[c].prev)
  /\ Goto(c, "shift")

TakeShift(c) ==
  LET t == tx[c] IN
  /\ At(c, "assign", "shift")
  /\ WriteShift(c, t.shift, [shiftNew[t.shift] EXCEPT !.cur = t.job, !.status = "en_route"])
  /\ Goto(c, "emit")

-----------------------------------------------------------------------------
\* unassign
BeginUnassign(c, j) ==
  /\ job[j].status = "dispatched"
  /\ Begin(c, [Idle EXCEPT !.op = "unassign", !.job = j, !.pc = "job",
                 !.from = "dispatched", !.prev = job[j].driver, !.to = "new"])
  /\ Unchanged

\* Mutant: the shift stays on the row.
UnassignJobKeepsShift(c) ==
  LET t == tx[c] IN
  /\ At(c, "unassign", "job")
  /\ WriteJob(c, t.job, [jobNew[t.job] EXCEPT !.status = "new", !.driver = NoDriver])
  /\ Goto(c, IF t.prev # NoDriver THEN "prev" ELSE "emit")

UnassignJob(c) ==
  LET t == tx[c] IN
  /\ At(c, "unassign", "job")
  /\ WriteJob(c, t.job, [jobNew[t.job] EXCEPT !.status = "new", !.driver = NoDriver,
                           !.shift = NoShift])
  /\ Goto(c, IF t.prev # NoDriver THEN "prev" ELSE "emit")

FreePrev(c) ==
  /\ At(c, "unassign", "prev")
  /\ \/ \E s \in OpenShiftsOf(tx[c].prev) :
          WriteShift(c, s, [shiftNew[s] EXCEPT !.cur = NoJob, !.status = "available"])
     \/ NoOpenShift(tx[c].prev)
  /\ Goto(c, "emit")

-----------------------------------------------------------------------------
\* transition (and cancel, which is transition to "cancelled")
BeginTransition(c, j, to) ==
  /\ canTransition(job[j].status, to)
  /\ Begin(c, [Idle EXCEPT !.op = "transition", !.job = j, !.pc = "job",
                 !.from = job[j].status, !.to = to, !.shift = job[j].shift])
  /\ Unchanged

MoveJob(c) ==
  LET t == tx[c]
      touchesShift == t.to \in TERMINAL_STATUSES \cup DOMAIN MirroredStatus
  IN
  /\ At(c, "transition", "job")
  /\ WriteJob(c, t.job, [jobNew[t.job] EXCEPT !.status = t.to])
  /\ Goto(c, IF t.shift # NoShift /\ touchesShift THEN "shift" ELSE "emit")

FreeShift(c) ==
  LET t == tx[c] IN
  /\ At(c, "transition", "shift") /\ t.to \in TERMINAL_STATUSES
  /\ WriteShift(c, t.shift, [shiftNew[t.shift] EXCEPT !.cur = NoJob, !.status = "available"])
  /\ Goto(c, "emit")

MirrorShift(c) ==
  LET t == tx[c] IN
  /\ At(c, "transition", "shift") /\ t.to \in DOMAIN MirroredStatus
  /\ WriteShift(c, t.shift, [shiftNew[t.shift] EXCEPT !.status = MirroredStatus[t.to]])
  /\ Goto(c, "emit")

\* The end of the three job handlers: the history row, unless a reassign left the
\* status alone, and the events, every one of which carries the job's new status.
\* Mutant: events only for a change of status.
EmitMovesOnly(c) ==
  LET t == tx[c] IN
  /\ t.pc = "emit"
  /\ IF t.from # t.to
     THEN /\ jobNew' = [jobNew EXCEPT ![t.job].moved = t.to]
          /\ announced' = [announced EXCEPT ![t.job] = jobNew[t.job].status]
          /\ phantom' = phantom \ {t.job}
     ELSE UNCHANGED <<jobNew, feedVars>>
  /\ Goto(c, "commit")
  /\ UNCHANGED <<job, jobLock, shiftVars>>

Emit(c) ==
  LET t == tx[c] IN
  /\ t.pc = "emit"
  /\ jobNew' = [jobNew EXCEPT ![t.job].moved = IF t.from # t.to THEN t.to ELSE @]
  /\ announced' = [announced EXCEPT ![t.job] = jobNew[t.job].status]
  /\ phantom' = phantom \ {t.job}
  /\ Goto(c, "commit")
  /\ UNCHANGED <<job, jobLock, shiftVars>>

-----------------------------------------------------------------------------
\* startShift.  Its SELECTs look for an open shift of the driver or the truck; the
\* partial unique indexes decide at the INSERT, which waits for any transaction
\* that may add or end a conflicting row.
\* Mutant: one index over the pair.
ConflictsAsPair(row, d, k) == Open(row) /\ row.driver = d /\ row.truck = k

Conflicts(row, d, k) == Open(row) /\ (row.driver = d \/ (k # NoTruck /\ row.truck = k))

\* Bound: a request only begins while there is a row left for it in Shifts.
RowsLeft ==
  Cardinality({s \in Shifts : ~Exists(shiftNew[s])})
    > Cardinality({c \in Conns : tx[c].pc = "insert"})

BeginStartShift(c, d, k) ==
  /\ RowsLeft
  /\ \A s \in Shifts : ~Conflicts(shift[s], d, k)
  /\ Begin(c, [Idle EXCEPT !.op = "startShift", !.pc = "insert", !.driver = d, !.truck = k])
  /\ Unchanged

InsertShift(c) ==
  LET d == tx[c].driver
      k == tx[c].truck
      inFlight(s) == shiftLock[s] # NoConn
                     /\ (Conflicts(shift[s], d, k) \/ Conflicts(shiftNew[s], d, k))
      taken == \E s \in Shifts : Conflicts(shift[s], d, k)
  IN
  /\ At(c, "startShift", "insert")
  /\ \A s \in Shifts : ~inFlight(s)
  /\ \/ /\ ~taken
        /\ \E s \in Shifts :
             /\ shiftLock[s] = NoConn /\ ~Exists(shift[s])
             /\ WriteShift(c, s, [NoRow EXCEPT !.driver = d, !.truck = k])
        /\ Goto(c, "commit")
     \/ taken /\ Rollback(c)    \* unique violation

-----------------------------------------------------------------------------
\* endShift and updateShiftStatus
BeginEndShift(c, s) ==
  /\ Open(shift[s]) /\ shift[s].cur = NoJob
  /\ Begin(c, [Idle EXCEPT !.op = "endShift", !.pc = "shift", !.shift = s])
  /\ Unchanged

EndShift(c) ==
  LET s == tx[c].shift IN
  /\ At(c, "endShift", "shift")
  /\ WriteShift(c, s, [shiftNew[s] EXCEPT !.ended = TRUE])
  /\ Goto(c, "commit")

BeginShiftStatus(c, s, status) ==
  /\ Open(shift[s])
  /\ Begin(c, [Idle EXCEPT !.op = "shiftStatus", !.pc = "shift", !.shift = s, !.to = status])
  /\ Unchanged

ReportStatus(c) ==
  LET t == tx[c] IN
  /\ At(c, "shiftStatus", "shift")
  /\ WriteShift(c, t.shift, [shiftNew[t.shift] EXCEPT !.status = t.to])
  /\ Goto(c, "commit")

-----------------------------------------------------------------------------
\* Lock waits.  PostgreSQL queues the waiters of a row first come first served, and
\* after deadlock_timeout rolls back a transaction of every waiting cycle.
Wanted(c) ==
  LET t == tx[c] IN
  CASE t.pc = "shift"  -> {shiftLock[t.shift]}
    [] t.pc = "job"    -> {jobLock[t.job]}
    [] t.pc = "prev"   -> {shiftLock[s] : s \in OpenShiftsOf(t.prev)}
    [] t.pc = "insert" -> {shiftLock[s] : s \in {r \in Shifts :
                             Conflicts(shift[r], t.driver, t.truck)
                             \/ Conflicts(shiftNew[r], t.driver, t.truck)}}
    [] OTHER           -> {}

WaitsFor(c, d) == c # d /\ d \in Wanted(c)

InCycle(c) ==
  \E S \in SUBSET Conns :
    /\ c \in S
    /\ \A x \in S : \E y \in S : WaitsFor(x, y)
    /\ \A y \in S : \E x \in S : WaitsFor(x, y)

DeadlockVictim(c) == InCycle(c) /\ Rollback(c)

-----------------------------------------------------------------------------
Request(c) ==
  \/ \E j \in Jobs, d \in Drivers, s \in BoardShifts : BeginAssign(c, j, d, s)
  \/ \E j \in Jobs : BeginUnassign(c, j)
  \/ \E j \in Jobs, to \in Targets : BeginTransition(c, j, to)
  \/ \E d \in Drivers, k \in Trucks \cup {NoTruck} : BeginStartShift(c, d, k)
  \/ \E s \in Shifts : BeginEndShift(c, s)
  \/ \E s \in Shifts, status \in Reported : BeginShiftStatus(c, s, status)

Statement(c) ==
  \/ LookupShift(c) \/ AssignJob(c) \/ ClearPrev(c) \/ TakeShift(c)
  \/ UnassignJob(c) \/ FreePrev(c)
  \/ MoveJob(c) \/ FreeShift(c) \/ MirrorShift(c)
  \/ InsertShift(c) \/ EndShift(c) \/ ReportStatus(c)
  \/ Emit(c) \/ Commit(c)

Next == \E c \in Conns : Request(c) \/ Statement(c) \/ DeadlockVictim(c) \/ Abort(c)

Spec == Init /\ [][Next]_vars

-----------------------------------------------------------------------------
(***************************************************************************)
(* Properties of the committed tables and of the event feed.               *)
(***************************************************************************)
InFlight == {"dispatched", "enroute", "on_scene", "in_progress"}

\* However startShift and endShift interleave, a driver, and a truck, is on at most
\* one open shift: the partial unique indexes carry the check startShift's own
\* SELECTs cannot.
OneOpenShift ==
  \A r, s \in Shifts :
    r # s /\ Open(shift[r]) /\ Open(shift[s]) =>
      /\ shift[r].driver # shift[s].driver
      /\ shift[r].truck = NoTruck \/ shift[r].truck # shift[s].truck

\* The live board does not fall behind the table: events leave while the row lock is
\* held, so for a job nobody is writing the last event carries the committed status,
\* whatever the interleaving, unless the transaction behind it rolled back.
FeedCurrent ==
  \A j \in Jobs :
    jobLock[j] = NoConn /\ j \notin phantom => announced[j] = job[j].status

\* A job is never left on another driver's shift: driver and shift are assigned by
\* one UPDATE from a shift that was the driver's, and a shift never changes hands.
AssignedShiftIsDrivers ==
  \A j \in Jobs :
    job[j].driver # NoDriver =>
      job[j].shift # NoShift /\ shift[job[j].shift].driver = job[j].driver

\* Status, history, driver and shift of a job, which every handler writes in columns and
\* rows of their own, agree: the newest row of job_status_transitions ends at the status, a
\* job being worked has a driver, one back in the queue has neither driver nor shift.
JobRowsAgree ==
  \A j \in Jobs :
    /\ job[j].moved = job[j].status
    /\ job[j].status \in InFlight => job[j].driver # NoDriver
    /\ job[j].status = "new" => job[j].driver = NoDriver /\ job[j].shift = NoShift

\* What pins a driver to a shift is a job of that shift which is still to be done:
\* whoever takes the job away, or finishes it, also clears current_job_id.
ShiftPinnedByOwnJob ==
  \A s \in Shifts :
    shift[s].cur # NoJob =>
      job[shift[s].cur].shift = s /\ job[shift[s].cur].status \in InFlight

\* The requests that deadlock are reassigns which swap drivers, and no others: each has
\* cleared the shift of the driver it takes its job from and waits for a shift another of
\* them has cleared.  A status move, an unassign, a shift's start or end, a report and the
\* first assign of a job are never the victim, since they lock the job before one shift.
DeadlocksAreSwaps ==
  \A c \in Conns :
    InCycle(c) =>
      /\ At(c, "assign", "shift") /\ tx[c].prev \notin {NoDriver, tx[c].driver}
      /\ \E s \in Shifts : shiftLock[s] = c /\ shift[s].driver = tx[c].prev

\* Seen from outside, the jobs table runs the job state machine.
Lifecycle == INSTANCE JobLifecycle WITH status <- [j \in Jobs |-> job[j].status]
ImplementsLifecycle == Lifecycle!Spec
=============================================================================
