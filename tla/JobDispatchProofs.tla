------------------------- MODULE JobDispatchProofs --------------------------
(* Theorems about JobDispatch, for any number of connections, jobs, drivers, *)
(* trucks and shift rows.                                                    *)
EXTENDS JobDispatch, TLAPS

-----------------------------------------------------------------------------
\* Which steps a request goes through, and which of its fields are set by then:
\* what TypeOK alone does not say, and every step relies on.
JobOps == {"assign", "unassign", "transition"}

WellFormed(t) ==
  /\ t.pc = "idle" <=> t.op = "none"
  /\ t.op \in JobOps => t.job \in Jobs /\ t.pc \in {"lookup", "job", "prev", "shift", "emit", "commit"}
  /\ t.op \notin JobOps => t.job = NoJob
  /\ t.op = "assign" =>
       /\ t.driver \in Drivers /\ t.to = "dispatched"
       /\ t.pc = "lookup" \/ t.shift \in Shifts
  /\ t.op = "unassign" => t.to = "new" /\ t.pc \in {"job", "prev", "emit", "commit"}
  /\ t.op = "transition" =>
       /\ t.to \in JobStatuses /\ t.pc \in {"job", "shift", "emit", "commit"}
       /\ t.pc = "shift" => t.shift \in Shifts
  /\ t.op = "startShift" => t.driver \in Drivers /\ t.pc \in {"insert", "commit"}
  /\ t.op \in {"endShift", "shiftStatus"} => t.shift \in Shifts /\ t.pc \in {"shift", "commit"}
  /\ t.op = "shiftStatus" => t.to \in ShiftStatuses

TypeInv == TypeOK /\ \A c \in Conns : WellFormed(tx[c])

-----------------------------------------------------------------------------
\* What the two ends of a transaction do to the locks and the requests.
LEMMA ReleaseType ==
  ASSUME TypeInv, NEW c \in Conns, Release(c)
  PROVE  /\ jobLock' \in [Jobs -> Conns \cup {NoConn}]
         /\ shiftLock' \in [Shifts -> Conns \cup {NoConn}]
         /\ tx' \in [Conns -> Requests] /\ \A d \in Conns : WellFormed(tx'[d])
<1>1. Idle \in Requests /\ WellFormed(Idle)
  BY DEF Idle, Requests, Ops, Steps, JobStatuses, WellFormed, JobOps
<1> QED
  BY <1>1 DEF TypeInv, TypeOK, Release

LEMMA RollbackType ==
  ASSUME TypeInv, NEW c \in Conns, Rollback(c)
  PROVE  TypeInv'
<1>1. Release(c)
  BY DEF Rollback
<1>2. phantom' \subseteq Jobs
  BY DEF Rollback, TypeInv, TypeOK, Requests
<1> QED
  BY <1>1, <1>2, ReleaseType DEF Rollback, TypeInv, TypeOK

\* An UPDATE keeps the tables typed when the row it writes is.
LEMMA WriteJobType ==
  ASSUME TypeOK, NEW c \in Conns, NEW j \in Jobs, NEW row \in JobRows, WriteJob(c, j, row)
  PROVE  /\ jobNew' \in [Jobs -> JobRows] /\ jobLock' \in [Jobs -> Conns \cup {NoConn}]
         /\ UNCHANGED <<job, shift, shiftNew, shiftLock, announced, phantom>>
BY DEF TypeOK, WriteJob, shiftVars, feedVars

LEMMA WriteShiftType ==
  ASSUME TypeOK, NEW c \in Conns, NEW s \in Shifts, NEW row \in ShiftRows,
         WriteShift(c, s, row)
  PROVE  /\ shiftNew' \in [Shifts -> ShiftRows]
         /\ shiftLock' \in [Shifts -> Conns \cup {NoConn}]
         /\ UNCHANGED <<job, jobNew, jobLock, shift, announced, phantom>>
BY DEF TypeOK, WriteShift, jobVars, feedVars

\* Rows stay rows under the SETs of the handlers.
LEMMA ShiftRowSets ==
  ASSUME NEW row \in ShiftRows, NEW status \in ShiftStatuses, NEW cur \in Jobs \cup {NoJob}
  PROVE  /\ [row EXCEPT !.cur = cur] \in ShiftRows
         /\ [row EXCEPT !.status = status] \in ShiftRows
         /\ [row EXCEPT !.cur = cur, !.status = status] \in ShiftRows
         /\ [row EXCEPT !.ended = TRUE] \in ShiftRows
<1>1. [row EXCEPT !.cur = cur] \in ShiftRows
  BY DEF ShiftRows
<1>2. [row EXCEPT !.status = status] \in ShiftRows
  BY DEF ShiftRows
<1>3. [row EXCEPT !.cur = cur, !.status = status] \in ShiftRows
  BY DEF ShiftRows
<1>4. [row EXCEPT !.ended = TRUE] \in ShiftRows
  BY Zenon DEF ShiftRows
<1> QED
  BY <1>1, <1>2, <1>3, <1>4

LEMMA JobRowSets ==
  ASSUME NEW row \in JobRows, NEW status \in JobStatuses,
         NEW driver \in Drivers \cup {NoDriver}, NEW s \in Shifts \cup {NoShift}
  PROVE  /\ [row EXCEPT !.status = status] \in JobRows
         /\ [row EXCEPT !.status = status, !.driver = driver, !.shift = s] \in JobRows
BY DEF JobRows

\* A request that begins or moves on stays well-formed when its new record is.
LEMMA StepType ==
  ASSUME TypeInv, NEW c \in Conns, NEW t \in Requests, WellFormed(t),
         tx' = [tx EXCEPT ![c] = t]
  PROVE  tx' \in [Conns -> Requests] /\ \A d \in Conns : WellFormed(tx'[d])
BY DEF TypeInv, TypeOK

LEMMA GotoType ==
  ASSUME TypeInv, NEW c \in Conns, NEW pc \in Steps, Goto(c, pc),
         WellFormed([tx[c] EXCEPT !.pc = pc])
  PROVE  tx' \in [Conns -> Requests] /\ \A d \in Conns : WellFormed(tx'[d])
<1>1. [tx[c] EXCEPT !.pc = pc] \in Requests
  BY DEF TypeInv, TypeOK, Requests
<1>2. tx' = [tx EXCEPT ![c] = [tx[c] EXCEPT !.pc = pc]]
  BY DEF TypeInv, TypeOK, Goto
<1> QED
  BY <1>1, <1>2, StepType

-----------------------------------------------------------------------------
\* Every action keeps the state typed and the requests well-formed.
LEMMA RequestType ==
  ASSUME TypeInv, NEW c \in Conns, Request(c)
  PROVE  TypeInv'
<1> USE DEF TypeInv, TypeOK, Unchanged, jobVars, shiftVars, feedVars
<1>0. Unchanged
  BY DEF Request, BeginAssign, BeginUnassign, BeginTransition, BeginStartShift,
         BeginEndShift, BeginShiftStatus
<1> SUFFICES tx' \in [Conns -> Requests] /\ \A d \in Conns : WellFormed(tx'[d])
  BY <1>0
<1>1. CASE \E j \in Jobs, d \in Drivers, s \in BoardShifts : BeginAssign(c, j, d, s)
  <2> PICK j \in Jobs, d \in Drivers, s \in BoardShifts : BeginAssign(c, j, d, s)
    BY <1>1
  <2>1. job[j].status \in JobStatuses /\ job[j].driver \in Drivers \cup {NoDriver}
    BY DEF JobRows
  <2>2. s \in Shifts \cup {NoShift}
    BY InputsAreLegal
  <2> DEFINE t == [Idle EXCEPT !.op = "assign", !.job = j, !.driver = d, !.shift = s,
               !.pc = IF s = NoShift THEN "lookup" ELSE "job",
               !.from = job[j].status, !.prev = job[j].driver, !.to = "dispatched"]
  <2>3. t \in Requests
    BY <2>1, <2>2 DEF Idle, Requests, Ops, Steps, JobStatuses
  <2>4. WellFormed(t)
    BY <2>1, <2>2 DEF Idle, WellFormed, JobOps
  <2> QED
    BY <2>3, <2>4, StepType DEF Begin, BeginAssign
<1>2. CASE \E j \in Jobs : BeginUnassign(c, j)
  <2> PICK j \in Jobs : BeginUnassign(c, j)
    BY <1>2
  <2>1. job[j].driver \in Drivers \cup {NoDriver}
    BY DEF JobRows
  <2> DEFINE t == [Idle EXCEPT !.op = "unassign", !.job = j, !.pc = "job",
               !.from = "dispatched", !.prev = job[j].driver, !.to = "new"]
  <2>2. t \in Requests /\ WellFormed(t)
    BY <2>1 DEF Idle, Requests, WellFormed, JobOps, Ops, Steps, JobStatuses
  <2> QED
    BY <2>2, StepType DEF Begin, BeginUnassign
<1>3. CASE \E j \in Jobs, to \in Targets : BeginTransition(c, j, to)
  <2> PICK j \in Jobs, to \in Targets : BeginTransition(c, j, to)
    BY <1>3
  <2>1. job[j].status \in JobStatuses /\ job[j].shift \in Shifts \cup {NoShift}
    BY DEF JobRows
  <2>2. to \in JobStatuses
    BY InputsAreLegal
  <2> DEFINE t == [Idle EXCEPT !.op = "transition", !.job = j, !.pc = "job",
               !.from = job[j].status, !.to = to, !.shift = job[j].shift]
  <2>3. t \in Requests /\ WellFormed(t)
    BY <2>1, <2>2 DEF Idle, Requests, WellFormed, JobOps, Ops, Steps
  <2> QED
    BY <2>3, StepType DEF Begin, BeginTransition
<1>4. CASE \E d \in Drivers, k \in Trucks \cup {NoTruck} : BeginStartShift(c, d, k)
  <2> PICK d \in Drivers, k \in Trucks \cup {NoTruck} : BeginStartShift(c, d, k)
    BY <1>4
  <2> DEFINE t == [Idle EXCEPT !.op = "startShift", !.pc = "insert", !.driver = d, !.truck = k]
  <2>1. t \in Requests /\ WellFormed(t)
    BY DEF Idle, Requests, WellFormed, JobOps, Ops, Steps, JobStatuses
  <2> QED
    BY <2>1, StepType DEF Begin, BeginStartShift
<1>5. CASE \E s \in Shifts : BeginEndShift(c, s)
  <2> PICK s \in Shifts : BeginEndShift(c, s)
    BY <1>5
  <2> DEFINE t == [Idle EXCEPT !.op = "endShift", !.pc = "shift", !.shift = s]
  <2>1. t \in Requests /\ WellFormed(t)
    BY DEF Idle, Requests, WellFormed, JobOps, Ops, Steps, JobStatuses
  <2> QED
    BY <2>1, StepType DEF Begin, BeginEndShift
<1>6. CASE \E s \in Shifts, status \in Reported : BeginShiftStatus(c, s, status)
  <2> PICK s \in Shifts, status \in Reported : BeginShiftStatus(c, s, status)
    BY <1>6
  <2>1. status \in ShiftStatuses
    BY InputsAreLegal
  <2> DEFINE t == [Idle EXCEPT !.op = "shiftStatus", !.pc = "shift", !.shift = s, !.to = status]
  <2>2. t \in Requests /\ WellFormed(t)
    BY <2>1 DEF Idle, Requests, WellFormed, JobOps, Ops, Steps, JobStatuses
  <2> QED
    BY <2>2, StepType DEF Begin, BeginShiftStatus
<1> QED
  BY <1>1, <1>2, <1>3, <1>4, <1>5, <1>6 DEF Request

LEMMA StatementType ==
  ASSUME TypeInv, NEW c \in Conns, Statement(c)
  PROVE  TypeInv'
<1> DEFINE t == tx[c]
<1> USE DEF At
<1>0. t \in Requests /\ WellFormed(t)
  BY DEF TypeInv, TypeOK
<1>1. CASE LookupShift(c)
  <2>1. CASE OpenShiftsOf(t.driver) = {} /\ tx' = [tx EXCEPT ![c] = Idle]
    <3>1. Idle \in Requests /\ WellFormed(Idle)
      BY DEF Idle, Requests, Ops, Steps, JobStatuses, WellFormed, JobOps
    <3> QED
      BY <1>1, <2>1, <3>1, StepType
      DEF LookupShift, Unchanged, TypeInv, TypeOK, jobVars, shiftVars, feedVars
  <2>2. ASSUME NEW s \in OpenShiftsOf(t.driver),
               tx' = [tx EXCEPT ![c].shift = s, ![c].pc = "job"]
        PROVE  TypeInv'
    <3> DEFINE u == [t EXCEPT !.shift = s, !.pc = "job"]
    <3>1. s \in Shifts
      BY DEF OpenShiftsOf
    <3>2. u \in Requests /\ WellFormed(u)
      BY <1>0, <1>1, <3>1 DEF LookupShift, Requests, Steps, WellFormed, JobOps
    <3>3. tx' = [tx EXCEPT ![c] = u]
      BY <2>2 DEF TypeInv, TypeOK
    <3> QED
      BY <1>1, <3>2, <3>3, StepType
      DEF LookupShift, Unchanged, TypeInv, TypeOK, jobVars, shiftVars, feedVars
  <2> QED
    BY <1>1, <2>1, <2>2 DEF LookupShift
<1>2. ASSUME NEW pc \in Steps, Goto(c, pc), WellFormed([t EXCEPT !.pc = pc]),
             NEW row \in JobRows, WriteJob(c, t.job, row), t.job \in Jobs
      PROVE  TypeInv'
  BY <1>2, GotoType, WriteJobType DEF TypeInv, TypeOK
<1>3. ASSUME NEW pc \in Steps, Goto(c, pc), WellFormed([t EXCEPT !.pc = pc]),
             NEW s \in Shifts, NEW row \in ShiftRows, WriteShift(c, s, row)
      PROVE  TypeInv'
  BY <1>3, GotoType, WriteShiftType DEF TypeInv, TypeOK
<1>4. CASE AssignJob(c)
  <2> DEFINE row == [jobNew[t.job] EXCEPT !.status = "dispatched", !.driver = t.driver,
                                          !.shift = t.shift]
             pc == IF t.prev \notin {NoDriver, t.driver} THEN "prev" ELSE "shift"
  <2>1. t.job \in Jobs /\ t.driver \in Drivers /\ t.shift \in Shifts
    BY <1>0, <1>4 DEF AssignJob, WellFormed, JobOps
  <2>2. row \in JobRows
    BY <2>1, JobRowSets DEF TypeInv, TypeOK, JobStatuses
  <2>3. pc \in Steps /\ WellFormed([t EXCEPT !.pc = pc])
    BY <1>0, <1>4 DEF AssignJob, WellFormed, JobOps, Steps, Requests
  <2> QED
    BY <1>2, <1>4, <2>1, <2>2, <2>3 DEF AssignJob
<1>5. CASE UnassignJob(c)
  <2> DEFINE row == [jobNew[t.job] EXCEPT !.status = "new", !.driver = NoDriver,
                                          !.shift = NoShift]
             pc == IF t.prev # NoDriver THEN "prev" ELSE "emit"
  <2>1. t.job \in Jobs
    BY <1>0, <1>5 DEF UnassignJob, WellFormed, JobOps
  <2>2. row \in JobRows
    BY <2>1, JobRowSets DEF TypeInv, TypeOK, JobStatuses
  <2>3. pc \in Steps /\ WellFormed([t EXCEPT !.pc = pc])
    BY <1>0, <1>5 DEF UnassignJob, WellFormed, JobOps, Steps, Requests
  <2> QED
    BY <1>2, <1>5, <2>1, <2>2, <2>3 DEF UnassignJob
<1>6. CASE MoveJob(c)
  <2> DEFINE row == [jobNew[t.job] EXCEPT !.status = t.to]
             pc == IF t.shift # NoShift /\ t.to \in TERMINAL_STATUSES \cup DOMAIN MirroredStatus
                   THEN "shift" ELSE "emit"
  <2>1. t.job \in Jobs /\ t.to \in JobStatuses
    BY <1>0, <1>6 DEF MoveJob, WellFormed, JobOps
  <2>2. row \in JobRows
    BY <2>1, JobRowSets DEF TypeInv, TypeOK
  <2>3. pc \in Steps /\ WellFormed([t EXCEPT !.pc = pc])
    BY <1>0, <1>6 DEF MoveJob, WellFormed, JobOps, Steps, Requests
  <2> QED
    BY <1>2, <1>6, <2>1, <2>2, <2>3 DEF MoveJob
<1>7. CASE ClearPrev(c)
  <2>1. "shift" \in Steps /\ WellFormed([t EXCEPT !.pc = "shift"])
    BY <1>0, <1>7 DEF ClearPrev, WellFormed, JobOps, Steps, Requests
  <2>2. CASE NoOpenShift(t.prev)
    BY <1>7, <2>1, <2>2, GotoType
    DEF ClearPrev, NoOpenShift, Unchanged, TypeInv, TypeOK, jobVars, shiftVars, feedVars
  <2>3. ASSUME NEW s \in OpenShiftsOf(t.prev),
               WriteShift(c, s, [shiftNew[s] EXCEPT !.cur = NoJob])
        PROVE  TypeInv'
    <3>1. s \in Shifts /\ [shiftNew[s] EXCEPT !.cur = NoJob] \in ShiftRows
      BY ShiftRowSets DEF OpenShiftsOf, TypeInv, TypeOK, ShiftStatuses
    <3> QED
      BY <1>3, <1>7, <2>1, <2>3, <3>1 DEF ClearPrev
  <2> QED
    BY <1>7, <2>2, <2>3 DEF ClearPrev
<1>8. CASE FreePrev(c)
  <2>1. "emit" \in Steps /\ WellFormed([t EXCEPT !.pc = "emit"])
    BY <1>0, <1>8 DEF FreePrev, WellFormed, JobOps, Steps, Requests
  <2>2. CASE NoOpenShift(t.prev)
    BY <1>8, <2>1, <2>2, GotoType
    DEF FreePrev, NoOpenShift, Unchanged, TypeInv, TypeOK, jobVars, shiftVars, feedVars
  <2>3. ASSUME NEW s \in OpenShiftsOf(t.prev),
               WriteShift(c, s, [shiftNew[s] EXCEPT !.cur = NoJob, !.status = "available"])
        PROVE  TypeInv'
    <3>1. s \in Shifts /\ [shiftNew[s] EXCEPT !.cur = NoJob, !.status = "available"] \in ShiftRows
      BY ShiftRowSets DEF OpenShiftsOf, TypeInv, TypeOK, ShiftStatuses
    <3> QED
      BY <1>3, <1>8, <2>1, <2>3, <3>1 DEF FreePrev
  <2> QED
    BY <1>8, <2>2, <2>3 DEF FreePrev
<1>9. CASE TakeShift(c)
  <2>1. t.shift \in Shifts /\ t.job \in Jobs
    BY <1>0, <1>9 DEF TakeShift, WellFormed, JobOps
  <2>2. [shiftNew[t.shift] EXCEPT !.cur = t.job, !.status = "en_route"] \in ShiftRows
    BY <2>1, ShiftRowSets DEF TypeInv, TypeOK, ShiftStatuses
  <2>3. "emit" \in Steps /\ WellFormed([t EXCEPT !.pc = "emit"])
    BY <1>0, <1>9 DEF TakeShift, WellFormed, JobOps, Steps, Requests
  <2> QED
    BY <1>3, <1>9, <2>1, <2>2, <2>3 DEF TakeShift
<1>10. CASE FreeShift(c)
  <2>1. t.shift \in Shifts
    BY <1>0, <1>10 DEF FreeShift, WellFormed, JobOps
  <2>2. [shiftNew[t.shift] EXCEPT !.cur = NoJob, !.status = "available"] \in ShiftRows
    BY <2>1, ShiftRowSets DEF TypeInv, TypeOK, ShiftStatuses
  <2>3. "emit" \in Steps /\ WellFormed([t EXCEPT !.pc = "emit"])
    BY <1>0, <1>10 DEF FreeShift, WellFormed, JobOps, Steps, Requests
  <2> QED
    BY <1>3, <1>10, <2>1, <2>2, <2>3 DEF FreeShift
<1>11. CASE MirrorShift(c)
  <2>1. t.shift \in Shifts
    BY <1>0, <1>11 DEF MirrorShift, WellFormed, JobOps
  <2>2. MirroredStatus[t.to] \in ShiftStatuses
    BY <1>11 DEF MirrorShift, MirroredStatus, ShiftStatuses
  <2>3. [shiftNew[t.shift] EXCEPT !.status = MirroredStatus[t.to]] \in ShiftRows
    BY <2>1, <2>2, ShiftRowSets DEF TypeInv, TypeOK
  <2>4. "emit" \in Steps /\ WellFormed([t EXCEPT !.pc = "emit"])
    BY <1>0, <1>11 DEF MirrorShift, WellFormed, JobOps, Steps, Requests
  <2> QED
    BY <1>3, <1>11, <2>1, <2>3, <2>4 DEF MirrorShift
<1>12. CASE EndShift(c)
  <2>1. t.shift \in Shifts
    BY <1>0, <1>12 DEF EndShift, WellFormed
  <2>2. [shiftNew[t.shift] EXCEPT !.ended = TRUE] \in ShiftRows
    BY <2>1, ShiftRowSets DEF TypeInv, TypeOK, ShiftStatuses
  <2>3. "commit" \in Steps /\ WellFormed([t EXCEPT !.pc = "commit"])
    BY <1>0, <1>12 DEF EndShift, WellFormed, JobOps, Steps, Requests
  <2> QED
    BY <1>3, <1>12, <2>1, <2>2, <2>3 DEF EndShift
<1>13. CASE ReportStatus(c)
  <2>1. t.shift \in Shifts /\ t.to \in ShiftStatuses
    BY <1>0, <1>13 DEF ReportStatus, WellFormed
  <2>2. [shiftNew[t.shift] EXCEPT !.status = t.to] \in ShiftRows
    BY <2>1, ShiftRowSets DEF TypeInv, TypeOK, ShiftStatuses
  <2>3. "commit" \in Steps /\ WellFormed([t EXCEPT !.pc = "commit"])
    BY <1>0, <1>13 DEF ReportStatus, WellFormed, JobOps, Steps, Requests
  <2> QED
    BY <1>3, <1>13, <2>1, <2>2, <2>3 DEF ReportStatus
<1>14. CASE InsertShift(c)
  <2>1. CASE Rollback(c)
    BY <2>1, RollbackType
  <2>2. ASSUME NEW s \in Shifts, Goto(c, "commit"),
               WriteShift(c, s, [NoRow EXCEPT !.driver = t.driver, !.truck = t.truck])
        PROVE  TypeInv'
    <3>1. t.driver \in Drivers /\ t.truck \in Trucks \cup {NoTruck}
      BY <1>0, <1>14 DEF InsertShift, WellFormed, Requests
    <3>2. [NoRow EXCEPT !.driver = t.driver, !.truck = t.truck] \in ShiftRows
      BY <3>1 DEF NoRow, ShiftRows, ShiftStatuses
    <3>3. "commit" \in Steps /\ WellFormed([t EXCEPT !.pc = "commit"])
      BY <1>0, <1>14 DEF InsertShift, WellFormed, JobOps, Steps, Requests
    <3> QED
      BY <1>3, <2>2, <3>2, <3>3
  <2> QED
    BY <1>14, <2>1, <2>2 DEF InsertShift
<1>15. CASE Emit(c)
  <2>1. t.op \in JobOps /\ t.job \in Jobs
    BY <1>0, <1>15 DEF Emit, WellFormed, JobOps, Requests, Ops
  <2>2. t.to \in JobStatuses
    BY <1>0, <2>1 DEF WellFormed, JobOps, JobStatuses
  <2>3. "commit" \in Steps /\ WellFormed([t EXCEPT !.pc = "commit"])
    BY <1>0, <1>15 DEF Emit, WellFormed, JobOps, Steps, Requests
  <2>4. jobNew' \in [Jobs -> JobRows]
    BY <1>15, <2>1, <2>2 DEF Emit, TypeInv, TypeOK, JobRows
  <2>5. announced' \in [Jobs -> JobStatuses] /\ phantom' \subseteq Jobs
    BY <1>15, <2>1 DEF Emit, TypeInv, TypeOK, JobRows
  <2> QED
    BY <1>15, <2>3, <2>4, <2>5, GotoType DEF Emit, TypeInv, TypeOK, shiftVars
<1>16. CASE Commit(c)
  BY <1>16, ReleaseType DEF Commit, TypeInv, TypeOK, feedVars
<1> QED
  BY <1>1, <1>4, <1>5, <1>6, <1>7, <1>8, <1>9, <1>10, <1>11, <1>12, <1>13, <1>14,
     <1>15, <1>16 DEF Statement

LEMMA TypeInvInductive == TypeInv /\ [Next]_vars => TypeInv'
<1> SUFFICES ASSUME TypeInv, [Next]_vars
             PROVE  TypeInv'
  OBVIOUS
<1>1. ASSUME NEW c \in Conns, Request(c) \/ Statement(c) \/ DeadlockVictim(c) \/ Abort(c)
      PROVE  TypeInv'
  BY <1>1, RequestType, StatementType, RollbackType DEF DeadlockVictim, Abort
<1>2. CASE UNCHANGED vars
  BY <1>2 DEF TypeInv, TypeOK, vars, jobVars, shiftVars, feedVars
<1> QED
  BY <1>1, <1>2 DEF Next

LEMMA TypeInvInit == Init => TypeInv
<1> SUFFICES ASSUME Init PROVE TypeInv
  OBVIOUS
<1>1. NewJob \in JobRows /\ NoRow \in ShiftRows
  BY DEF NewJob, JobRows, NoRow, ShiftRows, JobStatuses, ShiftStatuses
<1>2. Idle \in Requests /\ WellFormed(Idle)
  BY DEF Idle, Requests, Ops, Steps, JobStatuses, WellFormed, JobOps
<1> QED
  BY <1>1, <1>2 DEF Init, TypeInv, TypeOK, JobStatuses

\* Type correctness: whatever statements of whatever requests interleave, the tables,
\* the locks, the requests and the feed keep their types.
THEOREM TypeCorrect == Spec => []TypeOK
<1>1. Spec => []TypeInv
  BY TypeInvInit, TypeInvInductive, PTL DEF Spec
<1>2. TypeInv => TypeOK
  BY DEF TypeInv
<1> QED
  BY <1>1, <1>2, PTL

-----------------------------------------------------------------------------
(***************************************************************************)
(* One open shift per driver and per truck.  The invariant speaks of every *)
(* version of a row, the committed one and the one a transaction has yet   *)
(* to commit: whichever of them survive, no two open ones clash.           *)
(***************************************************************************)
Versions == \A s \in Shifts : shiftLock[s] = NoConn => shiftNew[s] = shift[s]

Clash(a, b) ==
  /\ Open(a) /\ Open(b)
  /\ a.driver = b.driver \/ (a.truck # NoTruck /\ a.truck = b.truck)

Exclusive ==
  \A r, s \in Shifts :
    r # s => \A a \in {shift[r], shiftNew[r]}, b \in {shift[s], shiftNew[s]} : ~Clash(a, b)

ShiftInv == TypeInv /\ Versions /\ Exclusive

\* What an UPDATE of driver_shifts leaves alone: it never hands a shift over and
\* never reopens one.
SameHolder(new, old) ==
  new.driver = old.driver /\ new.truck = old.truck /\ (Open(new) => Open(old))

UpdatesShift(c) ==
  \E s \in Shifts, row \in ShiftRows : SameHolder(row, shiftNew[s]) /\ WriteShift(c, s, row)

AddsShift(c) ==
  \E s \in Shifts, d \in Drivers, k \in Trucks \cup {NoTruck} :
    /\ shiftLock[s] = NoConn /\ ~Exists(shift[s])
    /\ WriteShift(c, s, [NoRow EXCEPT !.driver = d, !.truck = k])
    /\ \A r \in Shifts :
         ~Conflicts(shift[r], d, k)
         /\ (shiftLock[r] # NoConn => ~Conflicts(shiftNew[r], d, k))

UpdatesJob(c) == \E j \in Jobs, row \in JobRows : WriteJob(c, j, row)

\* Every statement is, for the tables, one of a few kinds.
LEMMA StatementKinds ==
  ASSUME TypeInv, NEW c \in Conns, Statement(c)
  PROVE  \/ Unchanged \/ UpdatesJob(c) \/ UpdatesShift(c) \/ AddsShift(c)
         \/ Emit(c) \/ Commit(c) \/ Rollback(c)
<1> DEFINE t == tx[c]
<1>0. t \in Requests /\ WellFormed(t) /\ \A s \in Shifts : shiftNew[s] \in ShiftRows
  BY DEF TypeInv, TypeOK
<1>a. \A s \in Shifts, status \in ShiftStatuses, cur \in Jobs \cup {NoJob} :
        /\ SameHolder([shiftNew[s] EXCEPT !.cur = cur], shiftNew[s])
        /\ SameHolder([shiftNew[s] EXCEPT !.status = status], shiftNew[s])
        /\ SameHolder([shiftNew[s] EXCEPT !.cur = cur, !.status = status], shiftNew[s])
        /\ SameHolder([shiftNew[s] EXCEPT !.ended = TRUE], shiftNew[s])
  BY <1>0 DEF SameHolder, Open, Exists, ShiftRows
<1>b. \A s \in Shifts, status \in ShiftStatuses, cur \in Jobs \cup {NoJob} :
        /\ [shiftNew[s] EXCEPT !.cur = cur] \in ShiftRows
        /\ [shiftNew[s] EXCEPT !.status = status] \in ShiftRows
        /\ [shiftNew[s] EXCEPT !.cur = cur, !.status = status] \in ShiftRows
        /\ [shiftNew[s] EXCEPT !.ended = TRUE] \in ShiftRows
  BY <1>0, ShiftRowSets
<1>c. ASSUME NEW s \in Shifts, NEW row \in ShiftRows, SameHolder(row, shiftNew[s]),
             WriteShift(c, s, row)
      PROVE  UpdatesShift(c)
  BY <1>c DEF UpdatesShift
<1>d. "available" \in ShiftStatuses /\ "en_route" \in ShiftStatuses
  BY DEF ShiftStatuses
<1>1. CASE LookupShift(c)
  BY <1>1 DEF LookupShift
<1>2. CASE AssignJob(c)
  <2>1. t.job \in Jobs /\ t.driver \in Drivers /\ t.shift \in Shifts
    BY <1>0, <1>2 DEF AssignJob, At, WellFormed, JobOps
  <2>2. [jobNew[t.job] EXCEPT !.status = "dispatched", !.driver = t.driver, !.shift = t.shift]
          \in JobRows
    BY <2>1, JobRowSets DEF TypeInv, TypeOK, JobStatuses
  <2>3. WriteJob(c, t.job, [jobNew[t.job] EXCEPT !.status = "dispatched", !.driver = t.driver,
                                                  !.shift = t.shift])
    BY <1>2 DEF AssignJob
  <2> QED
    BY <2>1, <2>2, <2>3 DEF UpdatesJob
<1>3. CASE UnassignJob(c)
  <2>1. t.job \in Jobs
    BY <1>0, <1>3 DEF UnassignJob, At, WellFormed, JobOps
  <2>2. [jobNew[t.job] EXCEPT !.status = "new", !.driver = NoDriver, !.shift = NoShift]
          \in JobRows
    BY <2>1, JobRowSets, ZenonT(30) DEF TypeInv, TypeOK, JobStatuses
  <2> QED
    BY <1>3, <2>1, <2>2 DEF UnassignJob, UpdatesJob
<1>4. CASE MoveJob(c)
  <2>1. t.job \in Jobs /\ t.to \in JobStatuses
    BY <1>0, <1>4 DEF MoveJob, At, WellFormed, JobOps
  <2>2. [jobNew[t.job] EXCEPT !.status = t.to] \in JobRows
    BY <2>1, JobRowSets DEF TypeInv, TypeOK
  <2> QED
    BY <1>4, <2>1, <2>2 DEF MoveJob, UpdatesJob
<1>5. CASE ClearPrev(c)
  <2>1. ASSUME NEW s \in Shifts, WriteShift(c, s, [shiftNew[s] EXCEPT !.cur = NoJob])
        PROVE  UpdatesShift(c)
    BY <1>a, <1>b, <1>c, <1>d, <2>1
  <2> QED
    BY <1>5, <2>1 DEF ClearPrev, NoOpenShift, OpenShiftsOf
<1>6. CASE FreePrev(c)
  <2>1. ASSUME NEW s \in Shifts,
               WriteShift(c, s, [shiftNew[s] EXCEPT !.cur = NoJob, !.status = "available"])
        PROVE  UpdatesShift(c)
    BY <1>a, <1>b, <1>c, <1>d, <2>1
  <2> QED
    BY <1>6, <2>1 DEF FreePrev, NoOpenShift, OpenShiftsOf
<1>7. CASE TakeShift(c)
  <2>1. t.shift \in Shifts /\ t.job \in Jobs
    BY <1>0, <1>7 DEF TakeShift, At, WellFormed, JobOps
  <2>2. WriteShift(c, t.shift, [shiftNew[t.shift] EXCEPT !.cur = t.job, !.status = "en_route"])
    BY <1>7 DEF TakeShift
  <2> QED
    BY <1>a, <1>b, <1>c, <1>d, <2>1, <2>2
<1>8. CASE FreeShift(c)
  <2>1. t.shift \in Shifts
    BY <1>0, <1>8 DEF FreeShift, At, WellFormed, JobOps
  <2>2. WriteShift(c, t.shift, [shiftNew[t.shift] EXCEPT !.cur = NoJob, !.status = "available"])
    BY <1>8 DEF FreeShift
  <2> QED
    BY <1>a, <1>b, <1>c, <1>d, <2>1, <2>2
<1>9. CASE MirrorShift(c)
  <2>1. t.shift \in Shifts
    BY <1>0, <1>9 DEF MirrorShift, At, WellFormed, JobOps
  <2>2. MirroredStatus[t.to] \in ShiftStatuses
    BY <1>9 DEF MirrorShift, MirroredStatus, ShiftStatuses
  <2>3. WriteShift(c, t.shift, [shiftNew[t.shift] EXCEPT !.status = MirroredStatus[t.to]])
    BY <1>9 DEF MirrorShift
  <2> QED
    BY <1>a, <1>b, <1>c, <2>1, <2>2, <2>3
<1>10. CASE EndShift(c)
  <2>1. t.shift \in Shifts
    BY <1>0, <1>10 DEF EndShift, At, WellFormed
  <2>2. WriteShift(c, t.shift, [shiftNew[t.shift] EXCEPT !.ended = TRUE])
    BY <1>10 DEF EndShift
  <2> QED
    BY <1>a, <1>b, <1>c, <1>d, <2>1, <2>2
<1>11. CASE ReportStatus(c)
  <2>1. t.shift \in Shifts /\ t.to \in ShiftStatuses
    BY <1>0, <1>11 DEF ReportStatus, At, WellFormed
  <2>2. WriteShift(c, t.shift, [shiftNew[t.shift] EXCEPT !.status = t.to])
    BY <1>11 DEF ReportStatus
  <2> QED
    BY <1>a, <1>b, <1>c, <2>1, <2>2
<1>12. CASE InsertShift(c)
  <2>1. t.driver \in Drivers /\ t.truck \in Trucks \cup {NoTruck}
    BY <1>0, <1>12 DEF InsertShift, At, WellFormed, Requests
  <2> QED
    BY <1>12, <2>1 DEF InsertShift, AddsShift
<1> QED
  BY <1>1, <1>2, <1>3, <1>4, <1>5, <1>6, <1>7, <1>8, <1>9, <1>10, <1>11, <1>12
  DEF Statement

LEMMA RollbackShiftInv ==
  ASSUME ShiftInv, NEW c \in Conns, Rollback(c)
  PROVE  Versions' /\ Exclusive'
<1> USE DEF ShiftInv, TypeInv, TypeOK, Rollback, Release
<1>1. Versions'
  BY NullsAreDistinct DEF Versions
<1>2. \A s \in Shifts : shift'[s] = shift[s] /\ shiftNew'[s] \in {shift[s], shiftNew[s]}
  OBVIOUS
<1> QED
  BY <1>1, <1>2 DEF Exclusive

LEMMA ShiftInvInductive == ShiftInv /\ [Next]_vars => ShiftInv'
<1> SUFFICES ASSUME ShiftInv, [Next]_vars
             PROVE  Versions' /\ Exclusive'
  BY TypeInvInductive DEF ShiftInv
<1> USE DEF ShiftInv
<1>t. TypeInv /\ TypeOK
  BY DEF TypeInv
<1>1. CASE Unchanged \/ UNCHANGED vars
  BY <1>1 DEF Versions, Exclusive, Unchanged, vars, jobVars, shiftVars, feedVars
<1>2. ASSUME NEW c \in Conns, UpdatesJob(c)
      PROVE  Versions' /\ Exclusive'
  BY <1>2, <1>t, NullsAreDistinct DEF UpdatesJob, WriteJob, TypeOK, Versions, Exclusive, shiftVars, feedVars
<1>3. ASSUME NEW c \in Conns, UpdatesShift(c)
      PROVE  Versions' /\ Exclusive'
  <2> PICK s \in Shifts, row \in ShiftRows :
             SameHolder(row, shiftNew[s]) /\ WriteShift(c, s, row)
    BY <1>3 DEF UpdatesShift
  <2>1. shiftNew' = [shiftNew EXCEPT ![s] = row] /\ shift' = shift
    BY DEF WriteShift
  <2>2. Versions'
    BY <1>t, NullsAreDistinct DEF WriteShift, TypeOK, Versions, jobVars
  <2>3. \A b : Clash(row, b) => Clash(shiftNew[s], b)
    BY DEF Clash, SameHolder
  <2>4. \A b : Clash(b, row) => Clash(b, shiftNew[s])
    BY DEF Clash, SameHolder
  <2>5. Exclusive'
    BY <1>t, <2>1, <2>3, <2>4 DEF Exclusive, TypeOK
  <2> QED
    BY <2>2, <2>5
<1>4. ASSUME NEW c \in Conns, AddsShift(c)
      PROVE  Versions' /\ Exclusive'
  <2> PICK s \in Shifts, d \in Drivers, k \in Trucks \cup {NoTruck} :
             /\ shiftLock[s] = NoConn /\ ~Exists(shift[s])
             /\ WriteShift(c, s, [NoRow EXCEPT !.driver = d, !.truck = k])
             /\ \A r \in Shifts :
                  ~Conflicts(shift[r], d, k)
                  /\ (shiftLock[r] # NoConn => ~Conflicts(shiftNew[r], d, k))
    BY <1>4 DEF AddsShift
  <2> DEFINE row == [NoRow EXCEPT !.driver = d, !.truck = k]
  <2>1. shiftNew' = [shiftNew EXCEPT ![s] = row] /\ shift' = shift
    BY DEF WriteShift
  <2>2. Versions'
    BY <1>t, NullsAreDistinct DEF WriteShift, TypeOK, Versions, jobVars
  <2>3. \A r \in Shifts : ~Conflicts(shift[r], d, k) /\ ~Conflicts(shiftNew[r], d, k)
    BY DEF Versions
  <2>4. row.driver = d /\ row.truck = k
    BY DEF NoRow
  <2>5. \A b : Clash(row, b) \/ Clash(b, row) => Conflicts(b, d, k)
    BY <2>4 DEF Clash, Conflicts
  <2>6. Exclusive'
    BY <1>t, <2>1, <2>3, <2>5 DEF Exclusive, TypeOK
  <2> QED
    BY <2>2, <2>6
<1>5. ASSUME NEW c \in Conns, Emit(c)
      PROVE  Versions' /\ Exclusive'
  BY <1>5 DEF Emit, Versions, Exclusive, shiftVars
<1>6. ASSUME NEW c \in Conns, Commit(c)
      PROVE  Versions' /\ Exclusive'
  <2> USE <1>6, <1>t DEF Commit, Release, TypeOK
  <2>1. Versions'
    BY NullsAreDistinct DEF Versions
  <2>2. \A s \in Shifts : shiftNew'[s] = shiftNew[s] /\ shift'[s] \in {shift[s], shiftNew[s]}
    OBVIOUS
  <2> QED
    BY <2>1, <2>2 DEF Exclusive
<1>7. ASSUME NEW c \in Conns, Rollback(c)
      PROVE  Versions' /\ Exclusive'
  BY <1>7, RollbackShiftInv
<1>8. ASSUME NEW c \in Conns, Request(c)
      PROVE  Unchanged
  BY <1>8 DEF Request, BeginAssign, BeginUnassign, BeginTransition, BeginStartShift,
              BeginEndShift, BeginShiftStatus
<1> QED
  BY <1>t, <1>1, <1>2, <1>3, <1>4, <1>5, <1>6, <1>7, <1>8, StatementKinds
  DEF Next, DeadlockVictim, Abort

LEMMA ShiftInvInit == Init => ShiftInv
BY TypeInvInit DEF Init, ShiftInv, Versions, Exclusive, Clash, Open, Exists, NoRow

\* For every number of connections, drivers and trucks: however the check of
\* startShift, its INSERT and other requests interleave, no driver and no truck is on
\* two open shifts.
THEOREM OneOpenShiftHolds == Spec => []OneOpenShift
<1>1. Spec => []ShiftInv
  BY ShiftInvInit, ShiftInvInductive, PTL DEF Spec
<1>2. ShiftInv => OneOpenShift
  BY DEF ShiftInv, Exclusive, Clash, OneOpenShift
<1> QED
  BY <1>1, <1>2, PTL

-----------------------------------------------------------------------------
(***************************************************************************)
(* The feed.  A job's row lock is held from its UPDATE to the end of the   *)
(* transaction, and the event leaves in between.  So the status last       *)
(* announced is the committed one or, between a holder's event and its     *)
(* COMMIT, the one about to be committed.                                  *)
(***************************************************************************)
PastUpdate == {"prev", "shift", "emit", "commit"}

Holding ==
  \A c \in Conns, j \in Jobs :
    jobLock[j] = c <=> tx[c].job = j /\ tx[c].pc \in PastUpdate

Announced(c, j) == jobLock[j] = c /\ tx[c].pc = "commit"

Feed ==
  \A j \in Jobs :
    /\ jobLock[j] = NoConn => jobNew[j] = job[j]
    /\ \A c \in Conns : Announced(c, j) => j \notin phantom /\ announced[j] = jobNew[j].status
    /\ (\A c \in Conns : ~Announced(c, j)) /\ j \notin phantom =>
         announced[j] = job[j].status

FeedInv == TypeInv /\ Holding /\ Feed

LEMMA RollbackFeed ==
  ASSUME FeedInv, NEW c \in Conns, Rollback(c)
  PROVE  Holding' /\ Feed'
<1> USE NullsAreDistinct DEF FeedInv, TypeInv, TypeOK, Rollback, Release, Idle, PastUpdate
<1>1. Holding'
  BY DEF Holding
<1>2. ASSUME NEW j \in Jobs, jobLock[j] = c
      PROVE  /\ jobLock'[j] = NoConn /\ jobNew'[j] = job'[j]
             /\ \A d \in Conns : ~Announced(d, j)'
             /\ j \notin phantom' => announced'[j] = job'[j].status
  <2>1. jobLock'[j] = NoConn /\ jobNew'[j] = job'[j] /\ tx[c].job = j /\ j # NoJob
    BY <1>2 DEF Holding
  <2>2. \A d \in Conns : ~Announced(d, j)'
    BY <2>1 DEF Announced
  <2>3. tx[c].pc = "commit" => j \in phantom'
    BY <2>1
  <2>4. tx[c].pc # "commit" => \A d \in Conns : ~Announced(d, j)
    BY <1>2 DEF Announced
  <2>5. phantom \subseteq phantom'
    OBVIOUS
  <2> QED
    BY <2>1, <2>2, <2>3, <2>4, <2>5 DEF Feed
<1>3. ASSUME NEW j \in Jobs, jobLock[j] # c
      PROVE  /\ jobLock'[j] = jobLock[j] /\ jobNew'[j] = jobNew[j] /\ job'[j] = job[j]
             /\ announced'[j] = announced[j] /\ (j \in phantom' <=> j \in phantom)
             /\ \A d \in Conns : Announced(d, j)' <=> Announced(d, j)
  <2>1. jobLock'[j] = jobLock[j] /\ jobNew'[j] = jobNew[j] /\ job'[j] = job[j]
    BY <1>3
  <2>2. ~(tx[c].pc = "commit" /\ tx[c].job = j)
    BY <1>3 DEF Holding
  <2>3. \A d \in Conns : Announced(d, j)' <=> Announced(d, j)
    BY <1>3, <2>1 DEF Announced
  <2> QED
    BY <2>1, <2>2, <2>3
<1>4. Feed'
  BY <1>2, <1>3 DEF Feed
<1> QED
  BY <1>1, <1>4

\* A request takes a new step without touching the jobs table.
LEMMA OtherStepFeed ==
  ASSUME FeedInv, NEW c \in Conns, NEW t \in Requests, tx' = [tx EXCEPT ![c] = t],
         UNCHANGED <<jobVars, feedVars>>,
         \/ /\ t.job = tx[c].job
            /\ t.pc \in PastUpdate <=> tx[c].pc \in PastUpdate
            /\ t.pc = "commit" <=> tx[c].pc = "commit"
         \/ /\ t.job = NoJob \/ t.pc \notin PastUpdate
            /\ tx[c].job = NoJob \/ tx[c].pc \notin PastUpdate
  PROVE  Holding' /\ Feed'
<1> USE NullsAreDistinct DEF FeedInv, TypeInv, TypeOK, jobVars, feedVars
<1>1. Holding'
  BY DEF Holding
<1>2. \A d \in Conns, j \in Jobs : Announced(d, j)' <=> Announced(d, j)
  BY DEF Announced, Holding, PastUpdate
<1> QED
  BY <1>1, <1>2 DEF Feed

\* The UPDATE of the jobs row.
LEMMA UpdateJobFeed ==
  ASSUME FeedInv, NEW c \in Conns, NEW row, WriteJob(c, tx[c].job, row),
         tx[c].job \in Jobs, tx[c].pc = "job",
         NEW pc \in PastUpdate \ {"commit"}, Goto(c, pc)
  PROVE  Holding' /\ Feed'
<1> USE NullsAreDistinct DEF FeedInv, TypeInv, TypeOK, WriteJob, Goto, Free, feedVars
<1> DEFINE j == tx[c].job
<1>1. jobLock[j] = NoConn
  BY DEF Holding, PastUpdate
<1>2. /\ tx'[c].job = j /\ tx'[c].pc = pc
      /\ \A d \in Conns \ {c} : tx'[d] = tx[d]
  BY DEF Requests
<1>3. Holding'
  BY <1>1, <1>2 DEF Holding, PastUpdate
<1>4. \A d \in Conns, i \in Jobs : Announced(d, i)' <=> Announced(d, i)
  BY <1>1, <1>2 DEF Announced, PastUpdate
<1>5. /\ jobLock'[j] # NoConn
      /\ \A i \in Jobs \ {j} : jobLock'[i] = jobLock[i] /\ jobNew'[i] = jobNew[i]
      /\ \A d \in Conns : ~Announced(d, j)
      /\ UNCHANGED <<job, announced, phantom>>
  BY <1>1 DEF Announced
<1> HIDE DEF j
<1> QED
  BY <1>1, <1>4, <1>5, <1>3 DEF Feed

LEMMA FeedInvInductive == FeedInv /\ [Next]_vars => FeedInv'
<1> SUFFICES ASSUME FeedInv, [Next]_vars
             PROVE  Holding' /\ Feed'
  BY TypeInvInductive DEF FeedInv
<1> USE DEF FeedInv
<1>t. TypeInv /\ TypeOK
  BY DEF TypeInv
<1>w. \A c \in Conns : tx[c] \in Requests /\ WellFormed(tx[c])
  BY DEF TypeInv, TypeOK
<1>1. ASSUME NEW c \in Conns, Request(c)
      PROVE  Holding' /\ Feed'
  <2>1. tx[c].pc \notin PastUpdate /\ UNCHANGED <<jobVars, feedVars>>
    BY <1>1 DEF Request, BeginAssign, BeginUnassign, BeginTransition, BeginStartShift,
                BeginEndShift, BeginShiftStatus, Begin, Unchanged, PastUpdate
  <2>2. tx'[c] \in Requests /\ tx' = [tx EXCEPT ![c] = tx'[c]]
    <3>1. tx' \in [Conns -> Requests]
      BY <1>1, RequestType DEF TypeInv, TypeOK
    <3>2. \E t : tx' = [tx EXCEPT ![c] = t]
      BY <1>1 DEF Request, BeginAssign, BeginUnassign, BeginTransition, BeginStartShift,
                  BeginEndShift, BeginShiftStatus, Begin
    <3> QED
      BY <1>t, <3>1, <3>2 DEF TypeOK
  <2>3. tx'[c].job = NoJob \/ tx'[c].pc \notin PastUpdate
    <3>1. CASE \/ \E j \in Jobs, d \in Drivers, s \in BoardShifts : BeginAssign(c, j, d, s)
               \/ \E j \in Jobs : BeginUnassign(c, j)
               \/ \E j \in Jobs, to \in Targets : BeginTransition(c, j, to)
      <4>1. tx'[c].pc \in {"lookup", "job"}
        <5>1. ASSUME NEW j \in Jobs, NEW d \in Drivers, NEW s \in BoardShifts,
                     BeginAssign(c, j, d, s)
              PROVE  tx'[c].pc \in {"lookup", "job"}
          BY <1>t, <5>1 DEF BeginAssign, Begin, Idle, TypeOK
        <5>2. ASSUME NEW j \in Jobs, BeginUnassign(c, j)
              PROVE  tx'[c].pc \in {"lookup", "job"}
          BY <1>t, <5>2 DEF BeginUnassign, Begin, Idle, TypeOK
        <5>3. ASSUME NEW j \in Jobs, NEW to \in Targets, BeginTransition(c, j, to)
              PROVE  tx'[c].pc \in {"lookup", "job"}
          BY <1>t, <5>3 DEF BeginTransition, Begin, Idle, TypeOK
        <5> QED
          BY <3>1, <5>1, <5>2, <5>3
      <4> QED
        BY <1>t, <4>1 DEF TypeOK, PastUpdate
    <3>2. CASE \/ \E d \in Drivers, k \in Trucks \cup {NoTruck} : BeginStartShift(c, d, k)
               \/ \E s \in Shifts : BeginEndShift(c, s)
               \/ \E s \in Shifts, status \in Reported : BeginShiftStatus(c, s, status)
      <4>1. ASSUME NEW d \in Drivers, NEW k \in Trucks \cup {NoTruck}, BeginStartShift(c, d, k)
            PROVE  tx'[c].job = NoJob
        BY <1>t, <4>1 DEF BeginStartShift, Begin, Idle, TypeOK
      <4>2. ASSUME NEW s \in Shifts, BeginEndShift(c, s)
            PROVE  tx'[c].job = NoJob
        BY <1>t, <4>2 DEF BeginEndShift, Begin, Idle, TypeOK
      <4>3. ASSUME NEW s \in Shifts, NEW status \in Reported, BeginShiftStatus(c, s, status)
            PROVE  tx'[c].job = NoJob
        BY <1>t, <4>3 DEF BeginShiftStatus, Begin, Idle, TypeOK
      <4> QED
        BY <3>2, <4>1, <4>2, <4>3
    <3> QED
      BY <1>1, <3>1, <3>2 DEF Request
  <2> QED
    BY <2>1, <2>2, <2>3, OtherStepFeed
<1>2. ASSUME NEW c \in Conns, LookupShift(c)
      PROVE  Holding' /\ Feed'
  <2>1. Idle \in Requests
    BY DEF Idle, Requests, Ops, Steps, JobStatuses
  <2>2. CASE tx' = [tx EXCEPT ![c] = Idle]
    BY <1>2, <2>1, <2>2, OtherStepFeed DEF LookupShift, At, Unchanged, PastUpdate, Idle
  <2>3. ASSUME NEW s \in Shifts, tx' = [tx EXCEPT ![c].shift = s, ![c].pc = "job"]
        PROVE  Holding' /\ Feed'
    <3> DEFINE t == [tx[c] EXCEPT !.shift = s, !.pc = "job"]
    <3>1. tx' = [tx EXCEPT ![c] = t]
      BY <1>t, <2>3 DEF TypeOK
    <3>2. t \in Requests /\ t.pc = "job"
      BY <1>w DEF Requests, Steps
    <3> QED
      BY <1>2, <3>1, <3>2, OtherStepFeed DEF LookupShift, At, Unchanged, PastUpdate
  <2> QED
    BY <1>2, <2>2, <2>3 DEF LookupShift, OpenShiftsOf
<1>3. ASSUME NEW c \in Conns, AssignJob(c) \/ UnassignJob(c) \/ MoveJob(c)
      PROVE  Holding' /\ Feed'
  <2>1. tx[c].job \in Jobs /\ tx[c].pc = "job"
    BY <1>w, <1>3 DEF AssignJob, UnassignJob, MoveJob, At, WellFormed, JobOps
  <2>2. \E row : WriteJob(c, tx[c].job, row)
    BY <1>3 DEF AssignJob, UnassignJob, MoveJob
  <2>3. \E pc \in PastUpdate \ {"commit"} : Goto(c, pc)
    BY <1>3 DEF AssignJob, UnassignJob, MoveJob, PastUpdate
  <2> QED
    BY <2>1, <2>2, <2>3, UpdateJobFeed
<1>4. ASSUME NEW c \in Conns, NEW pc \in Steps, Goto(c, pc), UNCHANGED <<jobVars, feedVars>>,
             \/ tx[c].job = NoJob
             \/ tx[c].pc \in {"prev", "shift"} /\ pc \in {"shift", "emit"}
      PROVE  Holding' /\ Feed'
  <2> DEFINE t == [tx[c] EXCEPT !.pc = pc]
  <2>1. tx' = [tx EXCEPT ![c] = t]
    BY <1>t, <1>4 DEF TypeOK, Goto
  <2>2. t \in Requests /\ t.pc = pc /\ t.job = tx[c].job
    BY <1>w, <1>4 DEF Requests
  <2> QED
    BY <1>4, <2>1, <2>2, OtherStepFeed DEF PastUpdate
<1>5. ASSUME NEW c \in Conns,
             \/ ClearPrev(c) \/ FreePrev(c) \/ TakeShift(c) \/ FreeShift(c) \/ MirrorShift(c)
             \/ EndShift(c) \/ ReportStatus(c)
      PROVE  Holding' /\ Feed'
  <2>1. UNCHANGED <<jobVars, feedVars>>
    BY <1>5 DEF ClearPrev, FreePrev, TakeShift, FreeShift, MirrorShift, EndShift, ReportStatus,
                WriteShift, NoOpenShift, Unchanged
  <2>2. CASE EndShift(c) \/ ReportStatus(c)
    <3>1. tx[c].job = NoJob /\ Goto(c, "commit")
      BY <1>w, <2>2 DEF EndShift, ReportStatus, At, WellFormed, JobOps
    <3> QED
      BY <1>4, <2>1, <3>1 DEF Steps
  <2>3. CASE ClearPrev(c) \/ FreePrev(c) \/ TakeShift(c) \/ FreeShift(c) \/ MirrorShift(c)
    <3>1. tx[c].pc \in {"prev", "shift"} /\ \E pc \in {"shift", "emit"} : Goto(c, pc)
      BY <2>3 DEF ClearPrev, FreePrev, TakeShift, FreeShift, MirrorShift, At
    <3> QED
      BY <1>4, <2>1, <3>1 DEF Steps
  <2> QED
    BY <1>5, <2>2, <2>3
<1>6. ASSUME NEW c \in Conns, InsertShift(c)
      PROVE  Holding' /\ Feed'
  <2>1. CASE Rollback(c)
    BY <2>1, RollbackFeed
  <2>2. CASE Goto(c, "commit") /\ UNCHANGED <<jobVars, feedVars>>
    <3>1. tx[c].job = NoJob
      BY <1>w, <1>6 DEF InsertShift, At, WellFormed, JobOps
    <3> QED
      BY <1>4, <2>2, <3>1 DEF Steps
  <2> QED
    BY <1>6, <2>1, <2>2 DEF InsertShift, WriteShift
<1>7. ASSUME NEW c \in Conns, Emit(c)
      PROVE  Holding' /\ Feed'
  <2> DEFINE j == tx[c].job
  <2>1. j \in Jobs /\ tx[c].pc = "emit" /\ jobLock[j] = c
    BY <1>w, <1>7 DEF Emit, WellFormed, JobOps, Requests, Ops, Holding, PastUpdate
  <2>2. /\ tx'[c].pc = "commit" /\ tx'[c].job = j
        /\ \A d \in Conns \ {c} : tx'[d] = tx[d]
    BY <1>t, <1>w, <1>7 DEF Emit, Goto, TypeOK, Requests
  <2>3. Holding'
    BY <1>7, <2>1, <2>2 DEF Emit, Holding, PastUpdate
  <2>4. /\ j \notin phantom' /\ announced'[j] = jobNew[j].status
        /\ jobNew'[j].status = jobNew[j].status
    BY <1>t, <1>7, <2>1 DEF Emit, TypeOK, JobRows
  <2>5. \A i \in Jobs \ {j} :
          /\ jobNew'[i] = jobNew[i] /\ announced'[i] = announced[i]
          /\ i \in phantom' <=> i \in phantom
          /\ \A d \in Conns : Announced(d, i)' <=> Announced(d, i)
    BY <1>t, <1>7, <2>1, <2>2 DEF Emit, TypeOK, Announced, Holding, PastUpdate
  <2>6. jobLock' = jobLock /\ job' = job /\ Announced(c, j)'
    BY <1>7, <2>1, <2>2 DEF Emit, Announced
  <2>7. jobLock[j] # NoConn
    BY <2>1, NullsAreDistinct
  <2>8. Feed'
    <3> SUFFICES ASSUME NEW i \in Jobs
                 PROVE  /\ jobLock'[i] = NoConn => jobNew'[i] = job'[i]
                        /\ \A d \in Conns : Announced(d, i)' =>
                             i \notin phantom' /\ announced'[i] = jobNew'[i].status
                        /\ (\A d \in Conns : ~Announced(d, i)') /\ i \notin phantom' =>
                             announced'[i] = job'[i].status
      BY DEF Feed
    <3>1. CASE i = j
      BY <2>1, <2>4, <2>6, <2>7, <3>1 DEF Announced
    <3>2. CASE i # j
      BY <2>5, <2>6, <3>2 DEF Feed
    <3> QED
      BY <3>1, <3>2
  <2> QED
    BY <2>3, <2>8
<1>8. ASSUME NEW c \in Conns, Commit(c)
      PROVE  Holding' /\ Feed'
  <2> USE <1>8, <1>t, NullsAreDistinct DEF Commit, Release, TypeOK, Idle, PastUpdate, feedVars
  <2>1. Holding'
    BY DEF Holding
  <2>2. ASSUME NEW j \in Jobs, jobLock[j] = c
        PROVE  /\ jobNew'[j] = job'[j] /\ jobLock'[j] = NoConn
               /\ announced'[j] = job'[j].status
    <3>1. Announced(c, j)
      BY <2>2 DEF Announced
    <3> QED
      BY <2>2, <3>1 DEF Feed
  <2>3. ASSUME NEW j \in Jobs, jobLock[j] # c
        PROVE  /\ jobLock'[j] = jobLock[j] /\ jobNew'[j] = jobNew[j] /\ job'[j] = job[j]
               /\ announced'[j] = announced[j] /\ (j \in phantom' <=> j \in phantom)
               /\ \A d \in Conns : Announced(d, j)' <=> Announced(d, j)
    BY <2>3 DEF Announced
  <2>4. ASSUME NEW j \in Jobs, jobLock[j] = c
        PROVE  \A d \in Conns : ~Announced(d, j)'
    BY <2>2, <2>4 DEF Announced
  <2>5. Feed'
    BY <2>2, <2>3, <2>4 DEF Feed
  <2> QED
    BY <2>1, <2>5
<1>9. CASE UNCHANGED vars
  BY <1>9 DEF vars, jobVars, feedVars, Holding, Feed, Announced
<1> QED
  BY <1>1, <1>2, <1>3, <1>5, <1>6, <1>7, <1>8, <1>9, RollbackFeed
  DEF Next, Statement, DeadlockVictim, Abort

LEMMA FeedInvInit == Init => FeedInv
BY TypeInvInit, NullsAreDistinct
DEF Init, FeedInv, Holding, Feed, Announced, Idle, NewJob, PastUpdate

\* However requests on the same job interleave, and whichever of them fail: when nobody
\* is writing a job, subscribers hold its committed status, unless the last event they
\* received came from a transaction that rolled back.
THEOREM FeedCurrentHolds == Spec => []FeedCurrent
<1>1. Spec => []FeedInv
  BY FeedInvInit, FeedInvInductive, PTL DEF Spec
<1>2. FeedInv => FeedCurrent
  BY NullsAreDistinct DEF FeedInv, Feed, Announced, FeedCurrent
<1> QED
  BY <1>1, <1>2, PTL

-----------------------------------------------------------------------------
(***************************************************************************)
(* Deadlocks.  A request locks its job before a shift, and holds a shift   *)
(* while it waits for another only when it takes a job from one driver and *)
(* gives it to another.                                                    *)
(***************************************************************************)
Reassigning(t) == t.op = "assign" /\ t.prev \notin {NoDriver, t.driver}

HeldShifts(c) ==
  \A s \in Shifts :
    shiftLock[s] = c =>
      \/ tx[c].pc \in {"emit", "commit"}
      \/ tx[c].pc = "shift" /\ Reassigning(tx[c]) /\ shift[s].driver = tx[c].prev

LockOrder ==
  \A c \in Conns : (At(c, "assign", "prev") => Reassigning(tx[c])) /\ HeldShifts(c)

OrderInv == FeedInv /\ LockOrder

\* Nobody else's request moves, nobody else is given a lock, and the rows others hold
\* keep their committed versions.
LEMMA OthersKeep ==
  ASSUME TypeInv, NEW c \in Conns, Request(c) \/ Statement(c) \/ Rollback(c),
         NEW d \in Conns \ {c}
  PROVE  /\ tx'[d] = tx[d]
         /\ \A s \in Shifts : shiftLock'[s] = d => shiftLock[s] = d /\ shift'[s] = shift[s]
<1>t. TypeOK
  BY DEF TypeInv
<1>1. tx'[d] = tx[d]
  BY <1>t DEF TypeOK, Request, BeginAssign, BeginUnassign, BeginTransition, BeginStartShift,
     BeginEndShift, BeginShiftStatus, Begin, Statement, LookupShift, AssignJob, ClearPrev,
     TakeShift, UnassignJob, FreePrev, MoveJob, FreeShift, MirrorShift, InsertShift, EndShift,
     ReportStatus, Emit, Commit, Rollback, Release, Goto
<1>2. ASSUME NEW s \in Shifts, shiftLock'[s] = d
      PROVE  shiftLock[s] = d /\ shift'[s] = shift[s]
  <2>1. CASE Unchanged \/ UpdatesJob(c) \/ Emit(c)
    BY <1>2, <2>1 DEF Unchanged, UpdatesJob, WriteJob, Emit, shiftVars
  <2>2. CASE UpdatesShift(c) \/ AddsShift(c)
    BY <1>t, <1>2, <2>2 DEF TypeOK, UpdatesShift, AddsShift, WriteShift
  <2>3. CASE Commit(c) \/ Rollback(c)
    BY <1>t, <1>2, <2>3, NullsAreDistinct DEF TypeOK, Commit, Rollback, Release
  <2>4. CASE Request(c)
    BY <2>1, <2>4 DEF Request, BeginAssign, BeginUnassign, BeginTransition, BeginStartShift,
                      BeginEndShift, BeginShiftStatus
  <2> QED
    BY <2>1, <2>2, <2>3, <2>4, StatementKinds
<1> QED
  BY <1>1, <1>2

\* The request that moves takes its locks in order.
LEMMA OwnOrder ==
  ASSUME OrderInv, NEW c \in Conns, Request(c) \/ Statement(c) \/ Rollback(c)
  PROVE  (At(c, "assign", "prev") => Reassigning(tx[c]))' /\ HeldShifts(c)'
<1>t. TypeInv /\ TypeOK /\ tx[c] \in Requests /\ WellFormed(tx[c])
  BY DEF OrderInv, FeedInv, TypeInv, TypeOK
<1>i. HeldShifts(c) /\ (At(c, "assign", "prev") => Reassigning(tx[c]))
  BY DEF OrderInv, LockOrder
<1>1. ASSUME tx[c].pc \in {"idle", "lookup", "job", "prev"}, shiftLock' = shiftLock
      PROVE  HeldShifts(c)'
  BY <1>1, <1>i DEF HeldShifts
<1>2. ASSUME tx'[c].pc \in {"emit", "commit"}
      PROVE  (At(c, "assign", "prev") => Reassigning(tx[c]))' /\ HeldShifts(c)'
  BY <1>2 DEF At, HeldShifts
<1>3. ASSUME Request(c)
      PROVE  (At(c, "assign", "prev") => Reassigning(tx[c]))' /\ HeldShifts(c)'
  <2>1. tx[c].pc = "idle" /\ shiftLock' = shiftLock
    BY <1>3 DEF Request, BeginAssign, BeginUnassign, BeginTransition, BeginStartShift,
                BeginEndShift, BeginShiftStatus, Begin, Unchanged, shiftVars
  <2>2. tx'[c].pc # "prev"
    <3>1. ASSUME NEW j \in Jobs, NEW d \in Drivers, NEW s \in BoardShifts, BeginAssign(c, j, d, s)
          PROVE  tx'[c].pc # "prev"
      BY <1>t, <3>1 DEF BeginAssign, Begin, Idle, TypeOK
    <3>2. ASSUME NEW j \in Jobs, BeginUnassign(c, j)
          PROVE  tx'[c].pc # "prev"
      BY <1>t, <3>2 DEF BeginUnassign, Begin, Idle, TypeOK
    <3>3. ASSUME NEW j \in Jobs, NEW to \in Targets, BeginTransition(c, j, to)
          PROVE  tx'[c].pc # "prev"
      BY <1>t, <3>3 DEF BeginTransition, Begin, Idle, TypeOK
    <3>4. ASSUME NEW d \in Drivers, NEW k \in Trucks \cup {NoTruck}, BeginStartShift(c, d, k)
          PROVE  tx'[c].pc # "prev"
      BY <1>t, <3>4 DEF BeginStartShift, Begin, Idle, TypeOK
    <3>5. ASSUME NEW s \in Shifts, BeginEndShift(c, s)
          PROVE  tx'[c].pc # "prev"
      BY <1>t, <3>5 DEF BeginEndShift, Begin, Idle, TypeOK
    <3>6. ASSUME NEW s \in Shifts, NEW status \in Reported, BeginShiftStatus(c, s, status)
          PROVE  tx'[c].pc # "prev"
      BY <1>t, <3>6 DEF BeginShiftStatus, Begin, Idle, TypeOK
    <3> QED
      BY <1>3, <3>1, <3>2, <3>3, <3>4, <3>5, <3>6 DEF Request
  <2> QED
    BY <1>1, <2>1, <2>2 DEF At
<1>4. ASSUME Release(c)
      PROVE  (At(c, "assign", "prev") => Reassigning(tx[c]))' /\ HeldShifts(c)'
  BY <1>4, <1>t, NullsAreDistinct DEF TypeOK, Release, Idle, At, HeldShifts
<1>5. CASE LookupShift(c)
  <2>1. tx[c].pc = "lookup" /\ shiftLock' = shiftLock
    BY <1>5 DEF LookupShift, At, Unchanged, shiftVars
  <2>2. ASSUME NEW s \in Shifts, tx' = [tx EXCEPT ![c].shift = s, ![c].pc = "job"]
        PROVE  tx'[c].pc = "job"
    BY <1>t, <2>2 DEF TypeOK, Requests
  <2>3. ASSUME tx' = [tx EXCEPT ![c] = Idle]
        PROVE  tx'[c].pc = "idle"
    BY <1>t, <2>3 DEF TypeOK, Idle
  <2>4. tx'[c].pc \in {"job", "idle"}
    BY <1>5, <2>2, <2>3 DEF LookupShift, OpenShiftsOf
  <2> QED
    BY <1>1, <2>1, <2>4 DEF At
<1>6. CASE AssignJob(c)
  <2>1. shiftLock' = shiftLock /\ tx[c].pc = "job" /\ tx[c].op = "assign"
    BY <1>6 DEF AssignJob, WriteJob, shiftVars, At
  <2>2. /\ tx'[c].op = "assign" /\ tx'[c].prev = tx[c].prev /\ tx'[c].driver = tx[c].driver
        /\ tx'[c].pc = "prev" => tx[c].prev \notin {NoDriver, tx[c].driver}
    BY <1>6, <1>t, <2>1 DEF TypeOK, Requests, AssignJob, Goto
  <2> QED
    BY <1>1, <2>1, <2>2 DEF At, Reassigning
<1>7. CASE UnassignJob(c) \/ MoveJob(c)
  <2>1. shiftLock' = shiftLock /\ tx[c].pc = "job" /\ tx[c].op # "assign"
    BY <1>7 DEF UnassignJob, MoveJob, WriteJob, shiftVars, At
  <2>2. tx'[c].op # "assign"
    BY <1>7, <1>t, <2>1 DEF TypeOK, Requests, UnassignJob, MoveJob, Goto
  <2> QED
    BY <1>1, <2>1, <2>2 DEF At
<1>8. CASE ClearPrev(c)
  <2> DEFINE t == tx[c]
  <2>1. t.pc = "prev" /\ t.op = "assign" /\ Reassigning(t)
    BY <1>8, <1>i DEF ClearPrev, At
  <2>2. tx'[c].pc = "shift" /\ tx'[c].prev = t.prev /\ Reassigning(tx'[c])
    BY <1>8, <1>t, <2>1 DEF TypeOK, Requests, ClearPrev, Goto, Reassigning
  <2>3. ASSUME NEW s \in Shifts, shiftLock[s] = c
        PROVE  FALSE
    BY <1>i, <2>1, <2>3 DEF HeldShifts
  <2>4. ASSUME NEW s \in Shifts, shiftLock'[s] = c
        PROVE  shift'[s].driver = t.prev
    <3>1. CASE NoOpenShift(t.prev)
      BY <2>3, <2>4, <3>1 DEF NoOpenShift, Unchanged, shiftVars
    <3>2. ASSUME NEW r \in OpenShiftsOf(t.prev),
                 WriteShift(c, r, [shiftNew[r] EXCEPT !.cur = NoJob])
          PROVE  shift'[s].driver = t.prev
      BY <1>t, <2>3, <2>4, <3>2 DEF TypeOK, WriteShift, OpenShiftsOf
    <3> QED
      BY <1>8, <3>1, <3>2 DEF ClearPrev
  <2> QED
    BY <2>2, <2>4 DEF At, HeldShifts
<1>9. CASE Emit(c) \/ TakeShift(c) \/ FreePrev(c) \/ FreeShift(c) \/ MirrorShift(c)
           \/ EndShift(c) \/ ReportStatus(c)
  <2>1. PICK pc \in {"emit", "commit"} : Goto(c, pc)
    BY <1>9 DEF Emit, TakeShift, FreePrev, FreeShift, MirrorShift, EndShift, ReportStatus
  <2>2. tx \in [Conns -> Requests]
    BY <1>t DEF TypeOK
  <2>3. tx'[c].pc \in {"emit", "commit"}
    BY <1>t, <2>1, <2>2 DEF Requests, Goto
  <2> QED
    BY <1>2, <2>3
<1>10. CASE InsertShift(c)
  <2>1. Release(c) \/ tx'[c].pc = "commit"
    BY <1>10, <1>t DEF TypeOK, Requests, InsertShift, Goto, Rollback
  <2> QED
    BY <1>2, <1>4, <2>1
<1>11. CASE Commit(c) \/ Rollback(c)
  BY <1>4, <1>11 DEF Commit, Rollback
<1> QED
  BY <1>3, <1>5, <1>6, <1>7, <1>8, <1>9, <1>10, <1>11 DEF Statement

LEMMA OrderInvInductive == OrderInv /\ [Next]_vars => OrderInv'
<1> SUFFICES ASSUME OrderInv, [Next]_vars
             PROVE  LockOrder'
  BY FeedInvInductive DEF OrderInv
<1>1. ASSUME NEW c \in Conns, Request(c) \/ Statement(c) \/ Rollback(c)
      PROVE  LockOrder'
  <2>1. ASSUME NEW d \in Conns \ {c}
        PROVE  (At(d, "assign", "prev") => Reassigning(tx[d]))' /\ HeldShifts(d)'
    <3>1. /\ tx'[d] = tx[d]
          /\ \A s \in Shifts : shiftLock'[s] = d => shiftLock[s] = d /\ shift'[s] = shift[s]
      BY <1>1, OthersKeep DEF OrderInv, FeedInv
    <3> QED
      BY <3>1 DEF OrderInv, LockOrder, HeldShifts, At
  <2> QED
    BY <1>1, <2>1, OwnOrder DEF LockOrder
<1>2. CASE UNCHANGED vars
  BY <1>2 DEF vars, shiftVars, OrderInv, LockOrder, HeldShifts, At
<1> QED
  BY <1>1, <1>2 DEF Next, DeadlockVictim, Abort

LEMMA OrderInvInit == Init => OrderInv
BY FeedInvInit, NullsAreDistinct DEF Init, OrderInv, LockOrder, HeldShifts, At, Idle

\* A connection somebody waits for holds a shift, or a job the other's UPDATE is waiting for;
\* who waits for a job holds nothing yet.
LEMMA WaitedFor ==
  ASSUME OrderInv, NEW x \in Conns, NEW d \in Conns, WaitsFor(x, d)
  PROVE  /\ tx[d].pc # "job"
         /\ tx[x].pc \in {"job", "shift", "prev", "insert"}
         /\ tx[x].pc # "job" => \E s \in Shifts : shiftLock[s] = d
<1>1. TypeOK /\ WellFormed(tx[x]) /\ Holding /\ HeldShifts(d) /\ tx[x] \in Requests
  BY DEF OrderInv, FeedInv, TypeInv, TypeOK, LockOrder
<1>2. CASE tx[x].pc = "shift"
  <2>1. shiftLock[tx[x].shift] = d /\ tx[x].shift \in Shifts
    BY <1>1, <1>2 DEF WaitsFor, Wanted, WellFormed, JobOps, Requests, Ops
  <2> QED
    BY <1>1, <1>2, <2>1 DEF HeldShifts
<1>3. CASE tx[x].pc = "job"
  <2>1. jobLock[tx[x].job] = d /\ tx[x].job \in Jobs
    BY <1>1, <1>3 DEF WaitsFor, Wanted, WellFormed, JobOps, Requests, Ops
  <2> QED
    BY <1>1, <1>3, <2>1 DEF Holding, PastUpdate
<1>4. CASE tx[x].pc \in {"prev", "insert"}
  <2>1. \E s \in Shifts : shiftLock[s] = d
    BY <1>4 DEF WaitsFor, Wanted, OpenShiftsOf
  <2> QED
    BY <1>1, <1>4, <2>1 DEF HeldShifts
<1>5. CASE tx[x].pc \notin {"job", "shift", "prev", "insert"}
  BY <1>5 DEF WaitsFor, Wanted
<1> QED
  BY <1>2, <1>3, <1>4, <1>5

\* For every number of connections, jobs and shifts, in any cycle of requests that wait for
\* one another each takes a job from one driver and gives it to another: no status move,
\* no unassign, no shift operation and no first assign is ever the victim of a deadlock.
THEOREM DeadlocksAreSwapsHold == Spec => []DeadlocksAreSwaps
<1>1. Spec => []OrderInv
  BY OrderInvInit, OrderInvInductive, PTL DEF Spec
<1>2. OrderInv => DeadlocksAreSwaps
  <2> SUFFICES ASSUME OrderInv, NEW c \in Conns, InCycle(c)
               PROVE  /\ At(c, "assign", "shift") /\ tx[c].prev \notin {NoDriver, tx[c].driver}
                      /\ \E s \in Shifts : shiftLock[s] = c /\ shift[s].driver = tx[c].prev
    BY DEF DeadlocksAreSwaps
  <2>1. PICK S \in SUBSET Conns :
          /\ c \in S
          /\ \A x \in S : \E y \in S : WaitsFor(x, y)
          /\ \A y \in S : \E x \in S : WaitsFor(x, y)
    BY DEF InCycle
  <2>2. PICK x \in S, y \in S : WaitsFor(x, c) /\ WaitsFor(c, y)
    BY <2>1
  <2>3. tx[x].pc # "job"
    BY <2>1, WaitedFor
  <2>4. PICK s \in Shifts : shiftLock[s] = c
    BY <2>1, <2>2, <2>3, WaitedFor
  <2>5. tx[c].pc \notin {"emit", "commit"}
    BY <2>1, <2>2, WaitedFor
  <2>6. tx[c].pc = "shift" /\ Reassigning(tx[c]) /\ shift[s].driver = tx[c].prev
    BY <2>1, <2>4, <2>5 DEF OrderInv, LockOrder, HeldShifts
  <2> QED
    BY <2>4, <2>6 DEF Reassigning, At
<1> QED
  BY <1>1, <1>2, PTL

-----------------------------------------------------------------------------
(***************************************************************************)
(* The shift on a job is its driver's, when assign is left to look it up   *)
(* (BoardShifts has no shift in it).                                       *)
(***************************************************************************)
SameDriver(old, new) == Exists(old) => new.driver = old.driver

Placed(row) ==
  row.driver # NoDriver => row.shift # NoShift /\ shift[row.shift].driver = row.driver

Chosen(t) == t.op = "assign" /\ t.pc # "lookup" => shift[t.shift].driver = t.driver

Hands ==
  /\ \A s \in Shifts : SameDriver(shift[s], shiftNew[s])
  /\ \A j \in Jobs : Placed(job[j]) /\ Placed(jobNew[j])
  /\ \A c \in Conns : Chosen(tx[c])

HandsInv == TypeInv /\ Hands

\* No statement gives a committed shift row another driver.
LEMMA ShiftsStay ==
  ASSUME HandsInv, NEW c \in Conns,
         Unchanged \/ UpdatesJob(c) \/ UpdatesShift(c) \/ AddsShift(c) \/ Emit(c)
           \/ Commit(c) \/ Rollback(c)
  PROVE  \A s \in Shifts : SameDriver(shift[s], shift'[s]) /\ SameDriver(shift'[s], shiftNew'[s])
<1> USE DEF HandsInv, TypeInv, TypeOK, Hands, SameDriver
<1>1. CASE Unchanged \/ UpdatesJob(c) \/ Emit(c)
  <2>1. shift' = shift /\ shiftNew' = shiftNew
    BY <1>1 DEF Unchanged, UpdatesJob, Emit, WriteJob, shiftVars
  <2> QED
    BY <2>1
<1>2. CASE UpdatesShift(c)
  <2>1. PICK s \in Shifts, row \in ShiftRows : SameHolder(row, shiftNew[s]) /\ WriteShift(c, s, row)
    BY <1>2 DEF UpdatesShift
  <2> QED
    BY <2>1 DEF WriteShift, SameHolder
<1>3. CASE AddsShift(c)
  <2>1. PICK s \in Shifts, d \in Drivers, k \in Trucks \cup {NoTruck} :
          ~Exists(shift[s]) /\ WriteShift(c, s, [NoRow EXCEPT !.driver = d, !.truck = k])
    BY <1>3 DEF AddsShift
  <2> QED
    BY <2>1 DEF WriteShift
<1>4. CASE Commit(c)
  BY <1>4 DEF Commit, Exists
<1>5. CASE Rollback(c)
  BY <1>5 DEF Rollback
<1> QED
  BY <1>1, <1>2, <1>3, <1>4, <1>5

\* What was placed, or chosen, stays so while shifts do not change hands.
LEMMA PlacedStays ==
  ASSUME \A s \in Shifts : SameDriver(shift[s], shift'[s])
  PROVE  /\ \A row \in JobRows : Placed(row) => Placed(row)'
         /\ \A t \in Requests : WellFormed(t) /\ Chosen(t) => Chosen(t)'
<1>1. ASSUME NEW row \in JobRows, Placed(row)
      PROVE  Placed(row)'
  BY <1>1 DEF Placed, JobRows, SameDriver, Exists
<1>2. ASSUME NEW t \in Requests, WellFormed(t), Chosen(t)
      PROVE  Chosen(t)'
  <2> SUFFICES ASSUME t.op = "assign", t.pc # "lookup"
               PROVE  shift'[t.shift].driver = t.driver
    BY DEF Chosen
  <2>1. t.shift \in Shifts /\ t.driver # NoDriver
    BY <1>2, NullsAreDistinct DEF WellFormed
  <2>2. shift[t.shift].driver = t.driver
    BY <1>2 DEF Chosen
  <2>3. SameDriver(shift[t.shift], shift'[t.shift])
    BY <2>1
  <2> QED
    BY Zenon, <2>1, <2>2, <2>3 DEF SameDriver, Exists
<1> QED
  BY <1>1, <1>2

\* The rows the handlers write are placed.
LEMMA JobsStayPlaced ==
  ASSUME HandsInv, NEW c \in Conns, Statement(c)
  PROVE  \A j \in Jobs : job'[j] \in {job[j], jobNew[j]} /\ Placed(jobNew'[j])
<1> DEFINE t == tx[c]
<1>t. TypeInv /\ TypeOK
  BY DEF HandsInv, TypeInv
<1>w. t \in Requests /\ WellFormed(t) /\ Chosen(t)
  BY <1>t DEF TypeInv, TypeOK, HandsInv, Hands
<1>1. CASE AssignJob(c) \/ UnassignJob(c) \/ MoveJob(c)
  <2>1. job' = job /\ t.job \in Jobs
    BY <1>w, <1>1 DEF AssignJob, UnassignJob, MoveJob, WriteJob, At, WellFormed, JobOps
  <2>2. \E row : Placed(row) /\ jobNew' = [jobNew EXCEPT ![t.job] = row]
    <3>1. CASE AssignJob(c)
      <4> DEFINE row == [jobNew[t.job] EXCEPT !.status = "dispatched", !.driver = t.driver,
                                              !.shift = t.shift]
      <4>1. row.driver = t.driver /\ row.shift = t.shift /\ t.shift \in Shifts
        BY <1>t, <1>w, <2>1, <3>1 DEF TypeOK, JobRows, AssignJob, At, WellFormed
      <4>2. Placed(row)
        BY <1>w, <3>1, <4>1, NullsAreDistinct DEF Placed, Chosen, AssignJob, At
      <4> QED
        BY <3>1, <4>2 DEF AssignJob, WriteJob
    <3>2. CASE UnassignJob(c)
      <4> DEFINE row == [jobNew[t.job] EXCEPT !.status = "new", !.driver = NoDriver,
                                              !.shift = NoShift]
      <4>1. Placed(row)
        BY <1>t, <2>1 DEF Placed, TypeOK, JobRows
      <4> QED
        BY <3>2, <4>1 DEF UnassignJob, WriteJob
    <3>3. CASE MoveJob(c)
      <4> DEFINE row == [jobNew[t.job] EXCEPT !.status = t.to]
      <4>1. row.driver = jobNew[t.job].driver /\ row.shift = jobNew[t.job].shift
        BY <1>t, <2>1 DEF TypeOK, JobRows
      <4>2. Placed(row)
        BY <2>1, <4>1 DEF Placed, HandsInv, Hands
      <4> QED
        BY <3>3, <4>2 DEF MoveJob, WriteJob
    <3> QED
      BY <1>1, <3>1, <3>2, <3>3
  <2> QED
    BY <1>t, <2>1, <2>2 DEF TypeOK, HandsInv, Hands
<1>2. CASE Emit(c)
  <2>1. \A j \in Jobs : jobNew'[j].driver = jobNew[j].driver /\ jobNew'[j].shift = jobNew[j].shift
    BY <1>t, <1>2 DEF Emit, TypeOK, JobRows
  <2> QED
    BY <1>2, <2>1 DEF Emit, Placed, HandsInv, Hands
<1>3. CASE Commit(c) \/ Rollback(c)
  <2>1. CASE Commit(c)
    BY <1>t, <2>1 DEF Commit, TypeOK, HandsInv, Hands
  <2>2. CASE Rollback(c)
    BY <1>t, <2>2 DEF Rollback, TypeOK, HandsInv, Hands
  <2> QED
    BY <1>3, <2>1, <2>2
<1>4. CASE UNCHANGED jobVars
  BY <1>4 DEF jobVars, HandsInv, Hands
<1> QED
  BY Zenon, <1>1, <1>2, <1>3, <1>4
  DEF Statement, LookupShift, ClearPrev, FreePrev, TakeShift, FreeShift, MirrorShift,
      InsertShift, EndShift, ReportStatus, WriteShift, NoOpenShift, Unchanged

\* The shift an assign goes on with is one of the driver's.
LEMMA RequestsStayChosen ==
  ASSUME HandsInv, BoardShifts \subseteq {NoShift}, NEW c \in Conns,
         Request(c) \/ Statement(c) \/ Rollback(c)
  PROVE  \A d \in Conns : Chosen(tx'[d])
<1>t. TypeInv /\ TypeOK
  BY DEF HandsInv, TypeInv
<1>w. \A d \in Conns : tx[d] \in Requests /\ Chosen(tx[d])
  BY <1>t DEF TypeOK, HandsInv, Hands
<1>1. ASSUME NEW t, tx' = [tx EXCEPT ![c] = t], Chosen(t)
      PROVE  \A d \in Conns : Chosen(tx'[d])
  <2> TAKE d \in Conns
  <2>1. tx'[d] = IF d = c THEN t ELSE tx[d]
    BY <1>t, <1>1 DEF TypeOK
  <2> QED
    BY <1>w, <1>1, <2>1
<1>2. Chosen(Idle)
  BY DEF Chosen, Idle
<1>3. CASE Request(c)
  <2>0. \E request : Begin(c, request)
    BY Zenon, <1>3 DEF Request, BeginAssign, BeginUnassign, BeginTransition, BeginStartShift,
                       BeginEndShift, BeginShiftStatus
  <2>1. \A d \in Conns \ {c} : tx'[d] = tx[d]
    BY <1>t, <2>0 DEF Begin, TypeOK
  <2>2. tx'[c].op # "assign" \/ tx'[c].pc = "lookup"
    <3>1. ASSUME NEW j \in Jobs, NEW d \in Drivers, NEW s \in BoardShifts,
                 BeginAssign(c, j, d, s)
          PROVE  tx'[c].pc = "lookup"
      BY <1>t, <3>1 DEF BeginAssign, Begin, Idle, TypeOK
    <3>2. ASSUME NEW j \in Jobs, BeginUnassign(c, j)
          PROVE  tx'[c].op # "assign"
      BY <1>t, <3>2 DEF BeginUnassign, Begin, Idle, TypeOK
    <3>3. ASSUME NEW j \in Jobs, NEW to \in Targets, BeginTransition(c, j, to)
          PROVE  tx'[c].op # "assign"
      BY <1>t, <3>3 DEF BeginTransition, Begin, Idle, TypeOK
    <3>4. ASSUME NEW d \in Drivers, NEW k \in Trucks \cup {NoTruck}, BeginStartShift(c, d, k)
          PROVE  tx'[c].op # "assign"
      BY <1>t, <3>4 DEF BeginStartShift, Begin, Idle, TypeOK
    <3>5. ASSUME NEW s \in Shifts, BeginEndShift(c, s)
          PROVE  tx'[c].op # "assign"
      BY <1>t, <3>5 DEF BeginEndShift, Begin, Idle, TypeOK
    <3>6. ASSUME NEW s \in Shifts, NEW status \in Reported, BeginShiftStatus(c, s, status)
          PROVE  tx'[c].op # "assign"
      BY <1>t, <3>6 DEF BeginShiftStatus, Begin, Idle, TypeOK
    <3> QED
      BY <1>3, <3>1, <3>2, <3>3, <3>4, <3>5, <3>6 DEF Request
  <2> TAKE d \in Conns
  <2>3. CASE d = c
    BY <2>2, <2>3 DEF Chosen
  <2>4. CASE d # c
    BY <1>w, <2>1, <2>4
  <2> QED
    BY Zenon, <2>3, <2>4
<1>4. CASE Commit(c) \/ Rollback(c)
  BY <1>1, <1>2, <1>4 DEF Commit, Rollback, Release
<1>5. CASE LookupShift(c)
  <2>1. CASE tx' = [tx EXCEPT ![c] = Idle]
    BY <1>1, <1>2, <2>1
  <2>2. ASSUME NEW s \in OpenShiftsOf(tx[c].driver),
               tx' = [tx EXCEPT ![c].shift = s, ![c].pc = "job"]
        PROVE  \A d \in Conns : Chosen(tx'[d])
    <3> DEFINE t == [tx[c] EXCEPT !.shift = s, !.pc = "job"]
    <3>1. tx' = [tx EXCEPT ![c] = t]
      BY <1>t, <2>2 DEF TypeOK
    <3>2. t.shift = s /\ t.driver = tx[c].driver
      BY <1>w DEF Requests
    <3>3. Chosen(t)
      BY <3>2 DEF Chosen, OpenShiftsOf
    <3> QED
      BY <1>1, <3>1, <3>3
  <2> QED
    BY <1>5, <2>1, <2>2 DEF LookupShift
<1>6. ASSUME NEW pc \in Steps, Goto(c, pc), tx[c].pc # "lookup"
      PROVE  \A d \in Conns : Chosen(tx'[d])
  <2> DEFINE t == [tx[c] EXCEPT !.pc = pc]
  <2>1. tx' = [tx EXCEPT ![c] = t]
    BY <1>t, <1>6 DEF TypeOK, Goto
  <2>2. Chosen(t)
    BY <1>w, <1>6 DEF Requests, Chosen
  <2> QED
    BY <1>1, <2>1, <2>2
<1>7. CASE \/ AssignJob(c) \/ UnassignJob(c) \/ MoveJob(c) \/ ClearPrev(c) \/ FreePrev(c)
           \/ TakeShift(c) \/ FreeShift(c) \/ MirrorShift(c) \/ EndShift(c) \/ ReportStatus(c)
           \/ Emit(c)
  <2>1. tx[c].pc # "lookup"
    BY <1>7 DEF AssignJob, UnassignJob, MoveJob, ClearPrev, FreePrev, TakeShift, FreeShift,
                MirrorShift, EndShift, ReportStatus, Emit, At
  <2>2. \E pc \in Steps : Goto(c, pc)
    BY <1>7 DEF AssignJob, UnassignJob, MoveJob, ClearPrev, FreePrev, TakeShift, FreeShift,
                MirrorShift, EndShift, ReportStatus, Emit, Steps
  <2> QED
    BY <1>6, <2>1, <2>2
<1>8. CASE InsertShift(c)
  BY <1>4, <1>6, <1>8 DEF InsertShift, At, Steps
<1> QED
  BY <1>3, <1>4, <1>5, <1>7, <1>8 DEF Statement

LEMMA HandsInvInductive ==
  ASSUME BoardShifts \subseteq {NoShift}
  PROVE  HandsInv /\ [Next]_vars => HandsInv'
<1> SUFFICES ASSUME HandsInv, [Next]_vars
             PROVE  Hands'
  BY TypeInvInductive DEF HandsInv
<1>t. TypeInv /\ TypeOK /\ TypeInv'
  BY TypeInvInductive DEF HandsInv, TypeInv
<1>1. ASSUME NEW c \in Conns, Request(c) \/ Statement(c) \/ Rollback(c)
      PROVE  Hands'
  <2>1. CASE Request(c)
    <3>1. Unchanged
      BY <2>1 DEF Request, BeginAssign, BeginUnassign, BeginTransition, BeginStartShift,
                  BeginEndShift, BeginShiftStatus
    <3>2. \A d \in Conns : Chosen(tx'[d])
      BY <2>1, RequestsStayChosen
    <3> QED
      BY <3>1, <3>2 DEF Unchanged, jobVars, shiftVars, HandsInv, Hands, Placed, Chosen,
                        SameDriver, Exists
  <2>2. CASE Statement(c) \/ Rollback(c)
    <3>1. \A s \in Shifts : SameDriver(shift[s], shift'[s]) /\ SameDriver(shift'[s], shiftNew'[s])
      BY <1>t, <2>2, StatementKinds, ShiftsStay
    <3>2. \A j \in Jobs : job'[j] \in {job[j], jobNew[j]} /\ Placed(jobNew'[j]) /\ Placed(job'[j])
      BY <1>t, <2>2, JobsStayPlaced DEF Rollback, TypeOK, HandsInv, Hands
    <3>3. \A d \in Conns : Chosen(tx'[d])
      BY <2>2, RequestsStayChosen
    <3>4. \A j \in Jobs : job'[j] \in JobRows /\ jobNew'[j] \in JobRows
      BY <1>t DEF TypeInv, TypeOK
    <3>5. \A d \in Conns : tx'[d] \in Requests /\ WellFormed(tx'[d])
      BY <1>t DEF TypeInv, TypeOK
    <3>6. /\ \A row \in JobRows : Placed(row) => Placed(row)'
          /\ \A t \in Requests : WellFormed(t) /\ Chosen(t) => Chosen(t)'
      BY <3>1, PlacedStays
    <3>7. \A j \in Jobs : (Placed(job[j]) /\ Placed(jobNew[j]))'
      BY <3>2, <3>4, <3>6 DEF Placed
    <3>8. \A d \in Conns : Chosen(tx[d])'
      BY <3>3, <3>5, <3>6 DEF Chosen
    <3>9. \A s \in Shifts : SameDriver(shift[s], shiftNew[s])'
      BY <3>1 DEF SameDriver, Exists
    <3> QED
      BY <3>7, <3>8, <3>9 DEF Hands
  <2> QED
    BY <1>1, <2>1, <2>2
<1>2. CASE UNCHANGED vars
  BY <1>2 DEF vars, jobVars, shiftVars, HandsInv, Hands, Placed, Chosen, SameDriver, Exists
<1> QED
  BY <1>1, <1>2 DEF Next, DeadlockVictim, Abort

LEMMA HandsInvInit == Init => HandsInv
BY TypeInvInit DEF Init, HandsInv, Hands, SameDriver, Placed, Chosen, NewJob, NoRow, Idle, Exists

\* When assign looks the shift up itself, no interleaving of reassignments, clock-offs and
\* clock-ons leaves a job with a shift that is not its driver's.
THEOREM AssignedShiftHolds ==
  ASSUME BoardShifts \subseteq {NoShift}
  PROVE  Spec => []AssignedShiftIsDrivers
<1>1. Spec => []HandsInv
  BY HandsInvInit, HandsInvInductive, PTL DEF Spec
<1>2. HandsInv => AssignedShiftIsDrivers
  BY DEF HandsInv, Hands, Placed, AssignedShiftIsDrivers
<1> QED
  BY <1>1, <1>2, PTL

-----------------------------------------------------------------------------
(***************************************************************************)
(* One request at a time: status, history, driver and shift of a job agree *)
(* with one another and with the shifts, and the jobs table runs the state *)
(* machine.  A request knows what it read, and what it wrote is its alone. *)
(***************************************************************************)
OneConnection == \A c, d \in Conns : c = d

\* What the UPDATE of a request makes of its job's row, and the history row of it.
Written(t) ==
  LET row == job[t.job] IN
  CASE t.op = "assign"   -> [row EXCEPT !.status = "dispatched", !.driver = t.driver,
                                        !.shift = t.shift]
    [] t.op = "unassign" -> [row EXCEPT !.status = "new", !.driver = NoDriver,
                                        !.shift = NoShift]
    [] OTHER             -> [row EXCEPT !.status = t.to]

Booked(t) == [Written(t) EXCEPT !.moved = IF t.from # t.to THEN t.to ELSE @]

\* The jobs table as the transaction of a request sees it.
JobsSeen(t) ==
  CASE t.op \in JobOps /\ t.pc \in {"prev", "shift", "emit"} ->
         [job EXCEPT ![t.job] = Written(t)]
    [] t.op \in JobOps /\ t.pc = "commit" -> [job EXCEPT ![t.job] = Booked(t)]
    [] OTHER -> job

\* What a request read is still so, and allows what it does.
Fresh(t) ==
  t.op \in JobOps =>
    /\ t.from = job[t.job].status
    /\ t.from = t.to \/ canTransition(t.from, t.to)
    /\ t.op \in {"assign", "unassign"} => t.prev = job[t.job].driver
    /\ t.op = "transition" => t.shift = job[t.job].shift /\ t.to \in Targets

Booking == \A j \in Jobs : job[j].moved = job[j].status

SerialInv ==
  /\ FeedInv /\ Booking
  /\ \A c \in Conns : Fresh(tx[c]) /\ jobNew = JobsSeen(tx[c])

\* The rows a request writes, column by column.
LEMMA WrittenRow ==
  ASSUME TypeOK, NEW t \in Requests, WellFormed(t), t.op \in JobOps
  PROVE  /\ Written(t) \in JobRows /\ Booked(t) \in JobRows
         /\ Written(t).status = t.to /\ Written(t).moved = job[t.job].moved
         /\ Booked(t).status = t.to
         /\ Booked(t).moved = IF t.from # t.to THEN t.to ELSE job[t.job].moved
         /\ Booked(t).driver = Written(t).driver /\ Booked(t).shift = Written(t).shift
         /\ t.op = "assign" => Written(t).driver = t.driver /\ Written(t).shift = t.shift
         /\ t.op = "unassign" => Written(t).driver = NoDriver /\ Written(t).shift = NoShift
         /\ t.op = "transition" => /\ Written(t).driver = job[t.job].driver
                                   /\ Written(t).shift = job[t.job].shift
<1>1. job[t.job] \in JobRows /\ t.to \in JobStatuses
  BY DEF TypeOK, WellFormed, JobOps, JobStatuses
<1>2. /\ Written(t) \in JobRows
      /\ Written(t).status = t.to /\ Written(t).moved = job[t.job].moved
      /\ t.op = "assign" => Written(t).driver = t.driver /\ Written(t).shift = t.shift
      /\ t.op = "unassign" => Written(t).driver = NoDriver /\ Written(t).shift = NoShift
      /\ t.op = "transition" => /\ Written(t).driver = job[t.job].driver
                                /\ Written(t).shift = job[t.job].shift
  <2>1. CASE t.op = "assign"
    BY <1>1, <2>1 DEF Written, JobRows, WellFormed, JobStatuses, Requests
  <2>2. CASE t.op = "unassign"
    BY <1>1, <2>2 DEF Written, JobRows, WellFormed, JobStatuses, Requests
  <2>3. CASE t.op = "transition"
    BY <1>1, <2>3 DEF Written, JobRows, WellFormed, JobStatuses, Requests
  <2> QED
    BY <2>1, <2>2, <2>3 DEF JobOps
<1> QED
  BY <1>1, <1>2 DEF Booked, JobRows

\* With one connection, the end of its transaction makes the two versions of a table equal.
LEMMA SerialEnd ==
  ASSUME OneConnection, FeedInv, NEW c \in Conns, Commit(c) \/ Rollback(c)
  PROVE  /\ jobNew' = job' /\ tx'[c] = Idle
         /\ Commit(c) => job' = jobNew
         /\ Rollback(c) => job' = job
<1> USE DEF FeedInv, TypeInv, TypeOK, Release
<1>1. \A j \in Jobs : jobLock[j] # c => jobNew[j] = job[j]
  BY DEF OneConnection, Feed
<1>2. Commit(c) => job' = jobNew /\ jobNew' = job' /\ tx'[c] = Idle
  BY <1>1 DEF Commit
<1>3. Rollback(c) => job' = job /\ jobNew' = job' /\ tx'[c] = Idle
  BY <1>1 DEF Rollback
<1> QED
  BY <1>2, <1>3

\* What a step of the one connection owes the invariant.
LEMMA SerialStep ==
  ASSUME OneConnection, SerialInv, FeedInv', NEW c \in Conns,
         Fresh(tx[c])', (jobNew = JobsSeen(tx[c]))', Booking'
  PROVE  SerialInv'
<1>1. \A d \in Conns : (Fresh(tx[d]) /\ jobNew = JobsSeen(tx[d]))'
  BY DEF OneConnection
<1> QED
  BY <1>1 DEF SerialInv

\* A statement that leaves the jobs table alone and moves on between two steps at which the
\* transaction has written the same.
LEMMA SerialGoto ==
  ASSUME OneConnection, SerialInv, FeedInv', NEW c \in Conns, NEW pc \in Steps, Goto(c, pc),
         UNCHANGED jobVars,
         \/ tx[c].op \notin JobOps
         \/ tx[c].pc \in {"prev", "shift"} /\ pc \in {"shift", "emit"}
  PROVE  SerialInv'
<1> DEFINE t == [tx[c] EXCEPT !.pc = pc]
<1>1. tx'[c] = t /\ tx[c] \in Requests
  BY DEF SerialInv, FeedInv, TypeInv, TypeOK, Goto
<1>2. /\ t.pc = pc
      /\ t.op = tx[c].op /\ t.job = tx[c].job /\ t.from = tx[c].from /\ t.to = tx[c].to
      /\ t.driver = tx[c].driver /\ t.shift = tx[c].shift /\ t.prev = tx[c].prev
  BY <1>1 DEF Requests
<1> HIDE DEF t
<1>3. job' = job /\ jobNew' = jobNew
  BY DEF jobVars
<1>4. Fresh(tx[c])'
  BY <1>1, <1>2, <1>3 DEF Fresh, SerialInv
<1>5. Written(tx[c])' = Written(tx[c])
  BY <1>1, <1>2, <1>3 DEF Written
<1>6. (jobNew = JobsSeen(tx[c]))'
  BY <1>1, <1>2, <1>3, <1>5 DEF JobsSeen, SerialInv
<1>7. Booking'
  BY <1>3 DEF Booking, SerialInv
<1> QED
  BY <1>4, <1>6, <1>7, SerialStep

\* A request begins with what it just read.
LEMMA SerialRequest ==
  ASSUME OneConnection, SerialInv, FeedInv', NEW c \in Conns, Request(c)
  PROVE  SerialInv'
<1>t. TypeInv /\ TypeOK
  BY DEF SerialInv, FeedInv, TypeInv
<1>0. Unchanged /\ tx[c].pc = "idle"
  BY DEF Request, BeginAssign, BeginUnassign, BeginTransition, BeginStartShift,
         BeginEndShift, BeginShiftStatus, Begin
<1>1. job' = job /\ jobNew' = jobNew /\ Booking'
  BY <1>0 DEF Unchanged, jobVars, Booking, SerialInv
<1>2. jobNew = job
  BY <1>0, <1>t DEF SerialInv, JobsSeen, TypeInv, WellFormed, JobOps
<1>3. ASSUME NEW t, tx' = [tx EXCEPT ![c] = t], Fresh(t), t.pc \notin PastUpdate
      PROVE  SerialInv'
  <2>1. tx'[c] = t
    BY <1>t, <1>3 DEF TypeOK
  <2>2. Fresh(tx[c])'
    BY <1>1, <1>3, <2>1 DEF Fresh
  <2>3. (jobNew = JobsSeen(tx[c]))'
    BY <1>1, <1>2, <1>3, <2>1 DEF JobsSeen, PastUpdate
  <2> QED
    BY <1>1, <2>2, <2>3, SerialStep
<1>3b. ASSUME NEW t, tx' = [tx EXCEPT ![c] = t], t.op \notin JobOps
      PROVE  SerialInv'
  <2>1. tx'[c] = t
    BY <1>t, <1>3b DEF TypeOK
  <2>2. Fresh(tx[c])'
    BY <1>3b, <2>1 DEF Fresh
  <2>3. (jobNew = JobsSeen(tx[c]))'
    BY <1>1, <1>2, <1>3b, <2>1 DEF JobsSeen
  <2> QED
    BY <1>1, <2>2, <2>3, SerialStep
<1>4. ASSUME NEW j \in Jobs, NEW d \in Drivers, NEW s \in BoardShifts, BeginAssign(c, j, d, s)
      PROVE  SerialInv'
  <2> DEFINE t == [Idle EXCEPT !.op = "assign", !.job = j, !.driver = d, !.shift = s,
                     !.pc = IF s = NoShift THEN "lookup" ELSE "job",
                     !.from = job[j].status, !.prev = job[j].driver, !.to = "dispatched"]
  <2>1. Fresh(t) /\ t.pc \notin PastUpdate
    BY <1>4 DEF BeginAssign, Assignable, Fresh, Idle, canTransition, TRANSITION_MAP, PastUpdate
  <2> QED
    BY <1>3, <1>4, <2>1 DEF BeginAssign, Begin
<1>5. ASSUME NEW j \in Jobs, BeginUnassign(c, j)
      PROVE  SerialInv'
  <2> DEFINE t == [Idle EXCEPT !.op = "unassign", !.job = j, !.pc = "job",
                     !.from = "dispatched", !.prev = job[j].driver, !.to = "new"]
  <2>1. Fresh(t) /\ t.pc \notin PastUpdate
    BY <1>5 DEF BeginUnassign, Fresh, Idle, canTransition, TRANSITION_MAP, PastUpdate
  <2> QED
    BY <1>3, <1>5, <2>1 DEF BeginUnassign, Begin
<1>6. ASSUME NEW j \in Jobs, NEW to \in Targets, BeginTransition(c, j, to)
      PROVE  SerialInv'
  <2> DEFINE t == [Idle EXCEPT !.op = "transition", !.job = j, !.pc = "job",
                     !.from = job[j].status, !.to = to, !.shift = job[j].shift]
  <2>1. Fresh(t) /\ t.pc \notin PastUpdate
    BY <1>6 DEF BeginTransition, Fresh, Idle, PastUpdate
  <2> QED
    BY <1>3, <1>6, <2>1 DEF BeginTransition, Begin
<1>7. CASE \E d \in Drivers, k \in Trucks \cup {NoTruck} : BeginStartShift(c, d, k)
  BY <1>3b, <1>7 DEF BeginStartShift, Begin, Idle, JobOps
<1>8. CASE \E s \in Shifts : BeginEndShift(c, s)
  BY <1>3b, <1>8 DEF BeginEndShift, Begin, Idle, JobOps
<1>9. CASE \E s \in Shifts, status \in Reported : BeginShiftStatus(c, s, status)
  BY <1>3b, <1>9 DEF BeginShiftStatus, Begin, Idle, JobOps
<1> QED
  BY <1>4, <1>5, <1>6, <1>7, <1>8, <1>9 DEF Request

\* The UPDATE of a job's row.
LEMMA UpdateWrites ==
  ASSUME SerialInv, NEW c \in Conns, AssignJob(c) \/ UnassignJob(c) \/ MoveJob(c)
  PROVE  /\ tx[c].op \in JobOps /\ tx[c].job \in Jobs /\ tx[c].pc = "job" /\ job' = job
         /\ jobNew' = [job EXCEPT ![tx[c].job] = Written(tx[c])]
<1> DEFINE t == tx[c]
<1>t. TypeInv /\ TypeOK /\ t \in Requests /\ WellFormed(t)
  BY DEF SerialInv, FeedInv, TypeInv, TypeOK
<1>1. t.op \in JobOps /\ t.job \in Jobs /\ t.pc = "job" /\ job' = job
  BY <1>t DEF AssignJob, UnassignJob, MoveJob, At, WellFormed, JobOps, WriteJob
<1>2. jobNew = job
  BY <1>1 DEF SerialInv, JobsSeen
<1>3. CASE AssignJob(c)
  BY <1>1, <1>2, <1>3 DEF AssignJob, At, WriteJob, Written
<1>4. CASE UnassignJob(c)
  BY <1>1, <1>2, <1>4 DEF UnassignJob, At, WriteJob, Written
<1>5. CASE MoveJob(c)
  BY <1>1, <1>2, <1>5 DEF MoveJob, At, WriteJob, Written
<1> QED
  BY <1>3, <1>4, <1>5

LEMMA SerialUpdate ==
  ASSUME OneConnection, SerialInv, FeedInv', NEW c \in Conns,
         AssignJob(c) \/ UnassignJob(c) \/ MoveJob(c)
  PROVE  SerialInv'
<1> DEFINE t == tx[c]
<1>t. TypeOK /\ t \in Requests
  BY DEF SerialInv, FeedInv, TypeInv, TypeOK
<1>1. t.op \in JobOps /\ t.job \in Jobs /\ t.pc = "job" /\ job' = job
  BY UpdateWrites
<1>3. jobNew' = [job EXCEPT ![t.job] = Written(t)]
  BY UpdateWrites
<1>4. PICK pc \in {"prev", "shift", "emit"} : Goto(c, pc)
  BY DEF AssignJob, UnassignJob, MoveJob
<1>5. tx'[c] = [t EXCEPT !.pc = pc]
  BY <1>t, <1>4 DEF Goto, TypeOK
<1>6. /\ tx'[c].pc = pc
      /\ tx'[c].op = t.op /\ tx'[c].job = t.job /\ tx'[c].from = t.from /\ tx'[c].to = t.to
      /\ tx'[c].driver = t.driver /\ tx'[c].shift = t.shift /\ tx'[c].prev = t.prev
  BY <1>t, <1>5 DEF Requests
<1>7. Written(tx[c])' = Written(t)
  BY <1>1, <1>6 DEF Written
<1> HIDE DEF t
<1>8. (jobNew = JobsSeen(tx[c]))'
  BY <1>1, <1>3, <1>4, <1>6, <1>7 DEF JobsSeen
<1>9. Fresh(tx[c])'
  BY <1>1, <1>6 DEF Fresh, SerialInv, t
<1>10. Booking'
  BY <1>1 DEF Booking, SerialInv
<1> QED
  BY <1>8, <1>9, <1>10, SerialStep

\* The history row and the event.
LEMMA SerialEmit ==
  ASSUME OneConnection, SerialInv, FeedInv', NEW c \in Conns, Emit(c)
  PROVE  SerialInv'
<1> DEFINE t == tx[c]
<1>t. TypeInv /\ TypeOK /\ t \in Requests /\ WellFormed(t)
  BY DEF SerialInv, FeedInv, TypeInv, TypeOK
<1>1. t.op \in JobOps /\ t.job \in Jobs /\ t.pc = "emit" /\ job' = job
  BY <1>t DEF Emit, WellFormed, JobOps, Requests, Ops
<1>2. jobNew = [job EXCEPT ![t.job] = Written(t)]
  BY <1>1 DEF SerialInv, JobsSeen
<1>3. jobNew' = [job EXCEPT ![t.job] = Booked(t)]
  <2>1. jobNew' = [jobNew EXCEPT ![t.job] =
                     [jobNew[t.job] EXCEPT !.moved = IF t.from # t.to THEN t.to ELSE @]]
    BY <1>t, <1>1 DEF Emit, TypeOK
  <2>2. jobNew[t.job] = Written(t)
    BY <1>t, <1>1, <1>2 DEF TypeOK
  <2>3. [jobNew[t.job] EXCEPT !.moved = IF t.from # t.to THEN t.to ELSE @] = Booked(t)
    BY <2>2 DEF Booked
  <2> HIDE DEF t
  <2> QED
    BY <1>t, <1>1, <1>2, <2>1, <2>3 DEF TypeOK
<1>5. tx'[c] = [t EXCEPT !.pc = "commit"]
  BY <1>t DEF Goto, TypeOK, Emit
<1>6. /\ tx'[c].pc = "commit"
      /\ tx'[c].op = t.op /\ tx'[c].job = t.job /\ tx'[c].from = t.from /\ tx'[c].to = t.to
      /\ tx'[c].driver = t.driver /\ tx'[c].shift = t.shift /\ tx'[c].prev = t.prev
  BY <1>t, <1>5 DEF Requests
<1>7. Booked(tx[c])' = Booked(t)
  BY <1>1, <1>6 DEF Written, Booked
<1> HIDE DEF t
<1>8. (jobNew = JobsSeen(tx[c]))'
  BY <1>1, <1>3, <1>6, <1>7 DEF JobsSeen
<1>9. Fresh(tx[c])'
  BY <1>1, <1>6 DEF Fresh, SerialInv, t
<1>10. Booking'
  BY <1>1 DEF Booking, SerialInv
<1> QED
  BY <1>8, <1>9, <1>10, SerialStep

\* What a COMMIT makes of the jobs table: nothing, or the one move of its request.
LEMMA SerialCommit ==
  ASSUME OneConnection, SerialInv, NEW c \in Conns, Commit(c)
  PROVE  \/ job' = job
         \/ /\ tx[c].op \in JobOps /\ tx[c].job \in Jobs /\ Booked(tx[c]) \in JobRows
            /\ job' = [job EXCEPT ![tx[c].job] = Booked(tx[c])]
            /\ Booked(tx[c]).status = tx[c].to /\ Booked(tx[c]).moved = tx[c].to
<1> DEFINE t == tx[c]
<1>t. TypeInv /\ TypeOK /\ t \in Requests /\ WellFormed(t) /\ FeedInv
  BY DEF SerialInv, FeedInv, TypeInv, TypeOK
<1>1. job' = JobsSeen(t) /\ t.pc = "commit"
  BY <1>t, SerialEnd DEF SerialInv, Commit
<1>2. CASE t.op \notin JobOps
  BY <1>1, <1>2 DEF JobsSeen
<1>3. CASE t.op \in JobOps
  <2>1. job' = [job EXCEPT ![t.job] = Booked(t)]
    BY <1>1, <1>3 DEF JobsSeen
  <2>2. t.job \in Jobs /\ Fresh(t)
    BY <1>t, <1>3 DEF WellFormed, SerialInv
  <2>3. Booked(t).status = t.to /\ Booked(t) \in JobRows
    BY <1>t, <1>3, WrittenRow
  <2>4. Booked(t).moved = t.to
    <3>1. Booked(t).moved = IF t.from # t.to THEN t.to ELSE job[t.job].moved
      BY <1>t, <1>3, WrittenRow
    <3> QED
      BY <1>3, <2>2, <3>1 DEF Fresh, SerialInv, Booking
  <2> QED
    BY <1>3, <2>1, <2>2, <2>3, <2>4
<1> QED
  BY <1>2, <1>3

LEMMA SerialInvInductive ==
  ASSUME OneConnection
  PROVE  SerialInv /\ [Next]_vars => SerialInv'
<1> SUFFICES ASSUME SerialInv, [Next]_vars
             PROVE  SerialInv'
  OBVIOUS
<1>t. FeedInv /\ FeedInv' /\ TypeInv /\ TypeOK
  BY FeedInvInductive DEF SerialInv, FeedInv, TypeInv
<1>w. \A c \in Conns : tx[c] \in Requests /\ WellFormed(tx[c])
  BY <1>t DEF TypeInv, TypeOK
<1>i. Idle.op \notin JobOps
  BY DEF Idle, JobOps
<1>1. ASSUME NEW c \in Conns, Request(c)
      PROVE  SerialInv'
  BY <1>t, <1>1, SerialRequest
<1>2. ASSUME NEW c \in Conns, LookupShift(c)
      PROVE  SerialInv'
  <2>1. job' = job /\ jobNew' = jobNew /\ jobNew = job
    BY <1>2 DEF LookupShift, At, Unchanged, jobVars, SerialInv, JobsSeen
  <2>2. tx'[c] = Idle \/ \E s : tx'[c] = [tx[c] EXCEPT !.shift = s, !.pc = "job"]
    BY <1>t, <1>2 DEF LookupShift, TypeOK
  <2>3. Fresh(tx[c])'
    <3>1. CASE tx'[c] = Idle
      BY <1>i, <3>1 DEF Fresh
    <3>2. ASSUME NEW s, tx'[c] = [tx[c] EXCEPT !.shift = s, !.pc = "job"]
          PROVE  Fresh(tx[c])'
      <4>1. /\ tx'[c].op = "assign" /\ tx[c].op = "assign" /\ tx'[c].job = tx[c].job
            /\ tx'[c].from = tx[c].from /\ tx'[c].to = tx[c].to /\ tx'[c].prev = tx[c].prev
        BY <1>w, <1>2, <3>2 DEF Requests, LookupShift, At
      <4> QED
        BY <2>1, <4>1 DEF Fresh, SerialInv
    <3> QED
      BY <2>2, <3>1, <3>2
  <2>4. tx'[c].pc \notin PastUpdate
    <3>1. Idle.pc \notin PastUpdate /\ "job" \notin PastUpdate
      BY DEF Idle, PastUpdate
    <3>2. \A s : [tx[c] EXCEPT !.shift = s, !.pc = "job"].pc = "job"
      BY <1>w DEF Requests
    <3> QED
      BY <2>2, <3>1, <3>2
  <2>5. (jobNew = JobsSeen(tx[c]))'
    BY <2>1, <2>4 DEF JobsSeen, PastUpdate
  <2>6. Booking'
    BY <2>1 DEF Booking, SerialInv
  <2> QED
    BY <1>t, <2>3, <2>5, <2>6, SerialStep
<1>3. ASSUME NEW c \in Conns, AssignJob(c) \/ UnassignJob(c) \/ MoveJob(c)
      PROVE  SerialInv'
  BY <1>t, <1>3, SerialUpdate
<1>4. ASSUME NEW c \in Conns,
             \/ ClearPrev(c) \/ FreePrev(c) \/ TakeShift(c) \/ FreeShift(c) \/ MirrorShift(c)
             \/ EndShift(c) \/ ReportStatus(c)
      PROVE  SerialInv'
  <2>1. UNCHANGED jobVars
    BY <1>4 DEF ClearPrev, FreePrev, TakeShift, FreeShift, MirrorShift, EndShift, ReportStatus,
                WriteShift, NoOpenShift, Unchanged
  <2>2. CASE EndShift(c) \/ ReportStatus(c)
    <3>1. tx[c].op \notin JobOps /\ Goto(c, "commit") /\ "commit" \in Steps
      BY <2>2 DEF EndShift, ReportStatus, At, JobOps, Steps
    <3> QED
      BY <1>t, <2>1, <3>1, SerialGoto
  <2>3. CASE ClearPrev(c) \/ FreePrev(c) \/ TakeShift(c) \/ FreeShift(c) \/ MirrorShift(c)
    <3>1. tx[c].pc \in {"prev", "shift"} /\ \E pc \in {"shift", "emit"} : Goto(c, pc)
      BY <2>3 DEF ClearPrev, FreePrev, TakeShift, FreeShift, MirrorShift, At
    <3> QED
      BY <1>t, <2>1, <3>1, SerialGoto DEF Steps
  <2> QED
    BY <1>4, <2>2, <2>3
<1>5. ASSUME NEW c \in Conns, Rollback(c)
      PROVE  SerialInv'
  <2>1. jobNew' = job' /\ tx'[c] = Idle /\ job' = job
    BY <1>t, <1>5, SerialEnd
  <2> QED
    BY <1>t, <1>i, <2>1, SerialStep DEF Fresh, JobsSeen, Booking, SerialInv
<1>6. ASSUME NEW c \in Conns, InsertShift(c)
      PROVE  SerialInv'
  <2>1. CASE Rollback(c)
    BY <1>5, <2>1
  <2>2. CASE Goto(c, "commit") /\ UNCHANGED jobVars
    <3>1. tx[c].op \notin JobOps /\ "commit" \in Steps
      BY <1>6 DEF InsertShift, At, JobOps, Steps
    <3> QED
      BY <1>t, <2>2, <3>1, SerialGoto
  <2> QED
    BY <1>6, <2>1, <2>2 DEF InsertShift, WriteShift
<1>7. ASSUME NEW c \in Conns, Emit(c)
      PROVE  SerialInv'
  BY <1>t, <1>7, SerialEmit
<1>8. ASSUME NEW c \in Conns, Commit(c)
      PROVE  SerialInv'
  <2>1. jobNew' = job' /\ tx'[c] = Idle
    BY <1>t, <1>8, SerialEnd
  <2>2. Booking'
    <3>1. CASE job' = job
      BY <3>1 DEF Booking, SerialInv
    <3>2. CASE /\ tx[c].job \in Jobs /\ job' = [job EXCEPT ![tx[c].job] = Booked(tx[c])]
               /\ Booked(tx[c]).status = tx[c].to /\ Booked(tx[c]).moved = tx[c].to
      BY <1>t, <3>2 DEF Booking, SerialInv, TypeOK
    <3> QED
      BY <1>8, <3>1, <3>2, SerialCommit
  <2> QED
    BY <1>t, <1>i, <2>1, <2>2, SerialStep DEF Fresh, JobsSeen
<1>9. CASE UNCHANGED vars
  <2>0. job' = job /\ jobNew' = jobNew /\ tx' = tx
    BY <1>9 DEF vars, jobVars
  <2>1. \A c \in Conns : Fresh(tx[c])' /\ (jobNew = JobsSeen(tx[c]))'
    <3> TAKE c \in Conns
    <3>1. Fresh(tx[c])'
      BY <2>0 DEF SerialInv, Fresh
    <3>2. Written(tx[c])' = Written(tx[c])
      BY <2>0 DEF Written
    <3>3. JobsSeen(tx[c])' = JobsSeen(tx[c])
      BY <2>0, <3>2 DEF JobsSeen, Booked
    <3> QED
      BY <2>0, <3>1, <3>3 DEF SerialInv
  <2> QED
    BY <1>t, <1>9, <2>1 DEF vars, jobVars, SerialInv, Booking
<1> QED
  BY <1>1, <1>2, <1>3, <1>4, <1>5, <1>6, <1>7, <1>8, <1>9
  DEF Next, Statement, DeadlockVictim, Abort

LEMMA SerialInvInit == Init => SerialInv
BY FeedInvInit DEF Init, SerialInv, Fresh, JobsSeen, Booking, Idle, NewJob, JobOps

\* One request at a time, the jobs table runs the job state machine: no sequence of
\* requests and failures takes a job to a status its own does not allow.
THEOREM ImplementsLifecycleHolds ==
  ASSUME OneConnection
  PROVE  Spec => ImplementsLifecycle
<1> DEFINE statuses == [j \in Jobs |-> job[j].status]
<1>1. Init => Lifecycle!Init
  BY DEF Init, Lifecycle!Init, NewJob
<1>2. SerialInv /\ [Next]_vars => [Lifecycle!Next]_statuses
  <2> SUFFICES ASSUME SerialInv, [Next]_vars
               PROVE  Lifecycle!Next \/ statuses' = statuses
    OBVIOUS
  <2>t. TypeOK /\ TypeInv
    BY DEF SerialInv, FeedInv, TypeInv
  <2>1. job' = job \/ \E c \in Conns : Commit(c)
    <3>1. ASSUME NEW c \in Conns, Statement(c) \/ Rollback(c)
          PROVE  job' = job \/ Commit(c)
      BY <2>t, <3>1, StatementKinds
      DEF Unchanged, jobVars, UpdatesJob, UpdatesShift, AddsShift, WriteJob, WriteShift, Emit,
          Rollback
    <3>2. ASSUME NEW c \in Conns, Request(c)
          PROVE  job' = job
      BY <3>2 DEF Request, BeginAssign, BeginUnassign, BeginTransition, BeginStartShift,
                  BeginEndShift, BeginShiftStatus, Unchanged, jobVars
    <3> QED
      BY <3>1, <3>2 DEF Next, DeadlockVictim, Abort, vars, jobVars
  <2>2. ASSUME NEW c \in Conns, Commit(c), job' # job
        PROVE  Lifecycle!Next \/ statuses' = statuses
    <3> DEFINE j == tx[c].job
               to == tx[c].to
    <3>1. /\ tx[c].op \in JobOps /\ j \in Jobs
          /\ job' = [job EXCEPT ![j] = Booked(tx[c])] /\ Booked(tx[c]).status = to
          /\ Booked(tx[c]) \in JobRows
      BY <2>2, SerialCommit
    <3>2. statuses' = [statuses EXCEPT ![j] = to]
      BY <2>t, <3>1 DEF TypeOK
    <3>3. to \in JobStatuses
      BY <3>1 DEF JobRows
    <3>4. to = job[j].status \/ canTransition(job[j].status, to)
      BY <3>1 DEF SerialInv, Fresh
    <3>5. CASE to = job[j].status
      BY <3>1, <3>2, <3>5
    <3>6. CASE canTransition(job[j].status, to)
      <4>1. Lifecycle!canTransition(statuses[j], to)
        BY <3>1, <3>6 DEF Lifecycle!canTransition, canTransition,
             Lifecycle!TRANSITION_MAP, TRANSITION_MAP
      <4>2. j \in Jobs /\ to \in Lifecycle!JobStatuses
        BY <3>1, <3>3 DEF Lifecycle!JobStatuses, JobStatuses
      <4> HIDE DEF j, to
      <4> QED
        BY <3>2, <4>1, <4>2 DEF Lifecycle!Next, Lifecycle!Move
    <3> QED
      BY <3>4, <3>5, <3>6
  <2> QED
    BY <2>1, <2>2
<1>3. Spec => []SerialInv
  BY SerialInvInit, SerialInvInductive, PTL DEF Spec
<1> QED
  BY <1>1, <1>2, <1>3, PTL DEF Spec, ImplementsLifecycle, Lifecycle!Spec

\* A job that is worked has a driver, one in the queue has neither driver nor shift.
Crewed(jobs) ==
  \A j \in Jobs :
    /\ jobs[j].status \in InFlight => jobs[j].driver # NoDriver
    /\ jobs[j].status = "new" => jobs[j].driver = NoDriver /\ jobs[j].shift = NoShift

\* An open shift is pinned by a job of its own.
Pinned(jobs, shifts) ==
  \A s \in Shifts :
    shifts[s].cur # NoJob =>
      /\ jobs[shifts[s].cur].shift = s /\ jobs[shifts[s].cur].status \in InFlight
      /\ Open(shifts[s])

\* The request has not written a shift yet, or has done all it owes the shifts.
Untouched(t) == \/ t.pc \in {"idle", "lookup", "job", "prev", "insert"}
                \/ t.pc = "shift" /\ t.op # "assign"

ShiftsSeen(t) ==
  /\ IF Untouched(t) THEN shiftNew = shift ELSE Pinned(jobNew, shiftNew)
  /\ t.op = "assign" /\ t.pc # "lookup" => Open(shift[t.shift]) /\ Open(shiftNew[t.shift])
  /\ t.op = "endShift" /\ t.pc = "shift" => shift[t.shift].cur = NoJob

PinsInv ==
  /\ SerialInv /\ ShiftInv /\ HandsInv /\ Crewed(job) /\ Pinned(job, shift)
  /\ \A c \in Conns : ShiftsSeen(tx[c])

-----------------------------------------------------------------------------
(***************************************************************************)
(* The shifts of the sequential program, when callers leave the shift to   *)
(* assign, and the queue to assign and unassign.                           *)
(***************************************************************************)
AppsCalls == BoardShifts \subseteq {NoShift} /\ Targets \cap {"new", "dispatched"} = {}

\* A driver has one open shift, and a job that pins a shift pins its driver's.
LEMMA OneShiftOfDriver ==
  ASSUME ShiftInv, NEW d, NEW r \in OpenShiftsOf(d), NEW s \in OpenShiftsOf(d)
  PROVE  r = s
BY DEF ShiftInv, Exclusive, Clash, OpenShiftsOf

LEMMA PinIsDrivers ==
  ASSUME PinsInv, NEW s \in Shifts, shift[s].cur # NoJob
  PROVE  /\ shift[s].cur \in Jobs /\ job[shift[s].cur].shift = s
         /\ job[shift[s].cur].driver # NoDriver
         /\ s \in OpenShiftsOf(job[shift[s].cur].driver)
<1>1. shift[s].cur \in Jobs
  BY DEF PinsInv, ShiftInv, TypeInv, TypeOK, ShiftRows
<1>2. /\ job[shift[s].cur].shift = s /\ job[shift[s].cur].status \in InFlight
      /\ Open(shift[s])
  BY DEF PinsInv, Pinned
<1>3. job[shift[s].cur].driver # NoDriver
  BY <1>1, <1>2 DEF PinsInv, Crewed
<1> QED
  BY <1>1, <1>2, <1>3 DEF PinsInv, HandsInv, Hands, Placed, OpenShiftsOf

\* A request rewrites its job's row and some shifts: the pins that are left are right when
\* those of that job are.
LEMMA Repinned ==
  ASSUME PinsInv, NEW c \in Conns, tx[c].job \in Jobs,
         jobNew' = [job EXCEPT ![tx[c].job] = Written(tx[c])],
         \A s \in Shifts : shiftNew'[s].cur # NoJob =>
           /\ shiftNew'[s].cur = shift[s].cur /\ (Open(shift[s]) => Open(shiftNew'[s]))
           /\ shiftNew'[s].cur = tx[c].job =>
                Written(tx[c]).shift = s /\ Written(tx[c]).status \in InFlight
  PROVE  Pinned(jobNew', shiftNew')
<1> SUFFICES ASSUME NEW s \in Shifts, shiftNew'[s].cur # NoJob
             PROVE  /\ jobNew'[shiftNew'[s].cur].shift = s
                    /\ jobNew'[shiftNew'[s].cur].status \in InFlight
                    /\ Open(shiftNew'[s])
  BY DEF Pinned
<1>1. shiftNew'[s].cur \in Jobs /\ shiftNew'[s].cur = shift[s].cur
  BY PinIsDrivers
<1>2. /\ job[shiftNew'[s].cur].shift = s /\ job[shiftNew'[s].cur].status \in InFlight
      /\ Open(shift[s])
  BY <1>1 DEF PinsInv, Pinned
<1>3. job \in [Jobs -> JobRows]
  BY DEF PinsInv, ShiftInv, TypeInv, TypeOK
<1> QED
  BY <1>1, <1>2, <1>3

\* With one connection, the end of its transaction makes the two versions of a shift equal.
LEMMA SerialShiftEnd ==
  ASSUME OneConnection, ShiftInv, NEW c \in Conns, Commit(c) \/ Rollback(c)
  PROVE  /\ shiftNew' = shift'
         /\ Commit(c) => shift' = shiftNew
         /\ Rollback(c) => shift' = shift
<1> USE DEF ShiftInv, TypeInv, TypeOK, Release
<1>1. \A s \in Shifts : shiftLock[s] # c => shiftNew[s] = shift[s]
  BY DEF OneConnection, Versions
<1>2. Commit(c) => shift' = shiftNew /\ shiftNew' = shift'
  BY <1>1 DEF Commit
<1>3. Rollback(c) => shift' = shift /\ shiftNew' = shift'
  BY <1>1 DEF Rollback
<1> QED
  BY <1>2, <1>3

\* The row a COMMIT adds to the table is crewed.
LEMMA CrewedStays ==
  ASSUME OneConnection, AppsCalls, PinsInv, NEW c \in Conns, Commit(c)
  PROVE  Crewed(job')
<1> DEFINE t == tx[c]
           row == Booked(t)
<1>t. SerialInv /\ TypeOK /\ t \in Requests /\ WellFormed(t)
  BY DEF PinsInv, ShiftInv, TypeInv, TypeOK
<1>1. CASE job' = job
  BY <1>1 DEF PinsInv
<1>2. CASE t.op \in JobOps /\ t.job \in Jobs /\ job' = [job EXCEPT ![t.job] = row]
  <2>1. /\ row.status = t.to
        /\ t.op = "assign" => row.driver = t.driver /\ row.shift = t.shift
        /\ t.op = "unassign" => row.driver = NoDriver /\ row.shift = NoShift
        /\ t.op = "transition" => row.driver = job[t.job].driver
    BY <1>t, <1>2, WrittenRow
  <2>2. /\ row.status \in InFlight => row.driver # NoDriver
        /\ row.status = "new" => row.driver = NoDriver /\ row.shift = NoShift
    <3>1. CASE t.op = "assign"
      BY <1>t, <2>1, <3>1, NullsAreDistinct DEF WellFormed
    <3>2. CASE t.op = "unassign"
      BY <1>t, <2>1, <3>2 DEF WellFormed, InFlight
    <3>3. CASE t.op = "transition"
      <4>1. /\ t.to \notin {"new", "dispatched"}
            /\ t.to = job[t.job].status \/ canTransition(job[t.job].status, t.to)
        BY <1>t, <3>3 DEF SerialInv, Fresh, AppsCalls, JobOps
      <4>2. job[t.job].status \in JobStatuses
        BY <1>t, <1>2 DEF TypeOK, JobRows
      <4>3. t.to \in InFlight => job[t.job].status \in InFlight
        BY <4>1, <4>2 DEF InFlight, canTransition, TRANSITION_MAP, JobStatuses
      <4> QED
        BY <1>2, <2>1, <3>3, <4>1, <4>3 DEF PinsInv, Crewed
    <3> QED
      BY <1>2, <3>1, <3>2, <3>3 DEF JobOps
  <2> HIDE DEF row
  <2> QED
    BY <1>t, <1>2, <2>2 DEF PinsInv, Crewed, TypeOK
<1> QED
  BY <1>t, <1>1, <1>2, SerialCommit

\* What a request that is past its UPDATE has made of the jobs table.
LEMMA SeenPastUpdate ==
  ASSUME PinsInv, NEW c \in Conns, tx[c].op \in JobOps, tx[c].pc \in {"prev", "shift", "emit"}
  PROVE  /\ tx[c].job \in Jobs
         /\ jobNew = [job EXCEPT ![tx[c].job] = Written(tx[c])]
BY DEF PinsInv, SerialInv, JobsSeen, ShiftInv, TypeInv, WellFormed

\* The UPDATE of the job: whatever it does not leave to a later statement is done.
LEMMA UpdatePins ==
  ASSUME AppsCalls, PinsInv, NEW c \in Conns, AssignJob(c) \/ UnassignJob(c) \/ MoveJob(c)
  PROVE  ShiftsSeen(tx[c])'
<1> DEFINE t == tx[c]
           row == Written(t)
<1>t. TypeOK /\ t \in Requests /\ WellFormed(t) /\ SerialInv
  BY DEF PinsInv, ShiftInv, TypeInv, TypeOK
<1>1. t.op \in JobOps /\ t.job \in Jobs /\ t.pc = "job" /\ jobNew' = [job EXCEPT ![t.job] = row]
  BY <1>t, UpdateWrites
<1>2. shift' = shift /\ shiftNew' = shiftNew /\ shiftNew = shift
  BY <1>1 DEF AssignJob, UnassignJob, MoveJob, WriteJob, shiftVars, PinsInv, ShiftsSeen, Untouched
<1>3. PICK pc \in {"prev", "shift", "emit"} : Goto(c, pc)
  BY DEF AssignJob, UnassignJob, MoveJob
<1>4. tx'[c] = [t EXCEPT !.pc = pc]
  BY <1>t, <1>3 DEF Goto, TypeOK
<1>5. tx'[c].pc = pc /\ tx'[c].op = t.op /\ tx'[c].shift = t.shift
  BY <1>t, <1>4 DEF Requests
<1>6. t.op = "assign" => Open(shift[t.shift])
  BY <1>1 DEF PinsInv, ShiftsSeen
<1>7. ASSUME \A s \in Shifts : shift[s].cur = t.job => row.shift = s /\ row.status \in InFlight
      PROVE  Pinned(jobNew', shiftNew')
  <2>1. \A s \in Shifts : shiftNew'[s].cur # NoJob =>
          /\ shiftNew'[s].cur = shift[s].cur /\ (Open(shift[s]) => Open(shiftNew'[s]))
          /\ shiftNew'[s].cur = t.job => row.shift = s /\ row.status \in InFlight
    BY <1>2, <1>7
  <2> QED
    BY <1>1, <2>1, Repinned
<1>8. row.status = t.to /\ (t.op = "assign" => row.shift = t.shift)
      /\ (t.op = "transition" => row.shift = job[t.job].shift)
  BY <1>t, <1>1, WrittenRow
<1>9. \A s \in Shifts : shift[s].cur = t.job =>
        job[t.job].shift = s /\ job[t.job].driver # NoDriver /\ s \in OpenShiftsOf(job[t.job].driver)
  BY <1>1, PinIsDrivers, NullsAreDistinct
<1> HIDE DEF row
<1>10. CASE AssignJob(c)
  <2>1. t.op = "assign" /\ pc = IF t.prev \notin {NoDriver, t.driver} THEN "prev" ELSE "shift"
    BY <1>t, <1>3, <1>4, <1>10 DEF AssignJob, At, Goto, TypeOK, Requests
  <2>2. CASE t.prev \notin {NoDriver, t.driver}
    BY <1>2, <1>5, <1>6, <2>1, <2>2 DEF ShiftsSeen, Untouched
  <2>3. CASE t.prev \in {NoDriver, t.driver}
    <3>1. t.prev = job[t.job].driver /\ t.to = "dispatched"
      BY <1>t, <2>1 DEF SerialInv, Fresh, JobOps, WellFormed
    <3>2. t.shift \in Shifts /\ t.shift \in OpenShiftsOf(t.driver)
      BY <1>t, <1>1, <1>6, <2>1 DEF WellFormed, PinsInv, HandsInv, Hands, Chosen, OpenShiftsOf
    <3>3. \A s \in Shifts : shift[s].cur = t.job => s = t.shift
      BY <1>9, <2>3, <3>1, <3>2, OneShiftOfDriver DEF PinsInv
    <3>4. Pinned(jobNew', shiftNew')
      BY <1>7, <1>8, <2>1, <3>1, <3>3 DEF InFlight
    <3> QED
      BY <1>2, <1>5, <1>6, <2>1, <2>3, <3>4 DEF ShiftsSeen, Untouched
  <2> QED
    BY <2>2, <2>3
<1>11. CASE UnassignJob(c)
  <2>1. t.op = "unassign" /\ pc = IF t.prev # NoDriver THEN "prev" ELSE "emit"
    BY <1>t, <1>3, <1>4, <1>11 DEF UnassignJob, At, Goto, TypeOK, Requests
  <2>2. CASE t.prev # NoDriver
    BY <1>2, <1>5, <2>1, <2>2 DEF ShiftsSeen, Untouched
  <2>3. CASE t.prev = NoDriver
    <3>1. t.prev = job[t.job].driver
      BY <1>t, <2>1 DEF SerialInv, Fresh, JobOps
    <3>2. Pinned(jobNew', shiftNew')
      BY <1>7, <1>9, <2>3, <3>1
    <3> QED
      BY <1>5, <2>1, <2>3, <3>2 DEF ShiftsSeen, Untouched
  <2> QED
    BY <2>2, <2>3
<1>12. CASE MoveJob(c)
  <2>1. /\ t.op = "transition"
        /\ pc = IF t.shift # NoShift /\ t.to \in TERMINAL_STATUSES \cup DOMAIN MirroredStatus
                THEN "shift" ELSE "emit"
    BY <1>t, <1>3, <1>4, <1>12 DEF MoveJob, At, Goto, TypeOK, Requests
  <2>2. CASE pc = "shift"
    BY <1>2, <1>5, <2>1, <2>2 DEF ShiftsSeen, Untouched
  <2>3. CASE pc # "shift"
    <3>1. t.shift = job[t.job].shift /\ t.to \in JobStatuses \ {"new", "dispatched"}
      BY <1>t, <2>1, InputsAreLegal DEF SerialInv, Fresh, JobOps, AppsCalls
    <3>2. t.shift = NoShift
      BY <2>1, <2>3, <3>1 DEF JobStatuses, TERMINAL_STATUSES, MirroredStatus
    <3>3. Pinned(jobNew', shiftNew')
      BY <1>7, <1>9, <3>1, <3>2, NullsAreDistinct
    <3> QED
      BY <1>3, <1>5, <2>1, <2>3, <3>3 DEF ShiftsSeen, Untouched
  <2> QED
    BY <2>2, <2>3
<1> QED
  BY <1>10, <1>11, <1>12

\* The shifts a reassign, an unassign or a finished job leaves lose the pin of the job.
LEMMA FreePins ==
  ASSUME PinsInv, NEW c \in Conns, tx[c].op \in JobOps, tx[c].pc \in {"prev", "shift"},
         Untouched(tx[c]), job' = job, jobNew' = jobNew, shift' = shift,
         \A s \in Shifts : shiftNew'[s].cur # NoJob =>
           /\ shiftNew'[s].cur = shift[s].cur /\ (Open(shift[s]) => Open(shiftNew'[s]))
           /\ shiftNew'[s].cur = tx[c].job =>
                Written(tx[c]).shift = s /\ Written(tx[c]).status \in InFlight
  PROVE  Pinned(jobNew', shiftNew')
<1>1. tx[c].job \in Jobs /\ jobNew' = [job EXCEPT ![tx[c].job] = Written(tx[c])]
  BY SeenPastUpdate
<1> QED
  BY <1>1, Repinned

\* Where a statement takes its request.
LEMMA GoneTo ==
  ASSUME TypeOK, NEW c \in Conns, NEW pc \in Steps, Goto(c, pc)
  PROVE  tx'[c].pc = pc /\ tx'[c].op = tx[c].op /\ tx'[c].shift = tx[c].shift
<1>1. tx'[c] = [tx[c] EXCEPT !.pc = pc] /\ tx[c] \in Requests
  BY DEF TypeOK, Goto
<1> QED
  BY <1>1 DEF Requests

\* Between two COMMITs nothing in the tables moves.
LEMMA PinsStep ==
  ASSUME OneConnection, PinsInv, SerialInv', ShiftInv', HandsInv', NEW c \in Conns,
         job' = job /\ shift' = shift, ShiftsSeen(tx[c])'
  PROVE  PinsInv'
<1>1. \A d \in Conns : ShiftsSeen(tx[d])'
  BY DEF OneConnection
<1>2. Crewed(job') /\ Pinned(job', shift')
  BY DEF PinsInv
<1> QED
  BY <1>1, <1>2 DEF PinsInv

\* A request begins with the shifts as they are.
LEMMA RequestSees ==
  ASSUME AppsCalls, PinsInv, NEW c \in Conns, Request(c)
  PROVE  ShiftsSeen(tx[c])' /\ job' = job /\ shift' = shift
<1>t. TypeOK
  BY DEF PinsInv, ShiftInv, TypeInv
<1>1. Unchanged /\ tx[c].pc = "idle"
  BY DEF Request, BeginAssign, BeginUnassign, BeginTransition, BeginStartShift,
         BeginEndShift, BeginShiftStatus, Begin
<1>2. shiftNew = shift /\ shiftNew' = shift /\ shift' = shift /\ job' = job
  BY <1>1 DEF Unchanged, jobVars, shiftVars, PinsInv, ShiftsSeen, Untouched
<1>3. /\ Untouched(tx'[c])
      /\ tx'[c].op = "assign" => tx'[c].pc = "lookup"
      /\ tx'[c].op = "endShift" => shift[tx'[c].shift].cur = NoJob
  <2> DEFINE r == tx'[c]
  <2>1. CASE \E j \in Jobs, d \in Drivers, s \in BoardShifts : BeginAssign(c, j, d, s)
    <3>1. r.op = "assign" /\ r.pc = "lookup"
      BY <1>t, <2>1 DEF BeginAssign, Begin, Idle, TypeOK, AppsCalls
    <3> QED
      BY <3>1 DEF Untouched
  <2>2. CASE \E j \in Jobs : BeginUnassign(c, j)
    <3>1. r.op = "unassign" /\ r.pc = "job"
      BY <1>t, <2>2 DEF BeginUnassign, Begin, Idle, TypeOK
    <3> QED
      BY <3>1 DEF Untouched
  <2>3. CASE \E j \in Jobs, to \in Targets : BeginTransition(c, j, to)
    <3>1. r.op = "transition" /\ r.pc = "job"
      BY <1>t, <2>3 DEF BeginTransition, Begin, Idle, TypeOK
    <3> QED
      BY <3>1 DEF Untouched
  <2>4. CASE \E d \in Drivers, k \in Trucks \cup {NoTruck} : BeginStartShift(c, d, k)
    <3>1. r.op = "startShift" /\ r.pc = "insert"
      BY <1>t, <2>4 DEF BeginStartShift, Begin, Idle, TypeOK
    <3> QED
      BY <3>1 DEF Untouched
  <2>5. CASE \E s \in Shifts : BeginEndShift(c, s)
    <3>1. r.op = "endShift" /\ r.pc = "shift" /\ shift[r.shift].cur = NoJob
      BY <1>t, <2>5 DEF BeginEndShift, Begin, Idle, TypeOK
    <3> QED
      BY <3>1 DEF Untouched
  <2>6. CASE \E s \in Shifts, status \in Reported : BeginShiftStatus(c, s, status)
    <3>1. r.op = "shiftStatus" /\ r.pc = "shift"
      BY <1>t, <2>6 DEF BeginShiftStatus, Begin, Idle, TypeOK
    <3> QED
      BY <3>1 DEF Untouched
  <2> QED
    BY <2>1, <2>2, <2>3, <2>4, <2>5, <2>6 DEF Request
<1> QED
  BY <1>2, <1>3 DEF ShiftsSeen

\* A statement after which the request owes the shifts nothing, but for its own.
LEMMA ShiftsDone ==
  ASSUME PinsInv, NEW c \in Conns, NEW pc \in {"shift", "emit", "commit"}, Goto(c, pc),
         tx[c].pc # "lookup", tx[c].op = "endShift" => pc = "commit",
         pc = "shift" => tx[c].op = "assign",
         shift' = shift, Pinned(jobNew', shiftNew'),
         tx[c].op = "assign" => \A s \in Shifts : Open(shiftNew[s]) => Open(shiftNew'[s])
  PROVE  ShiftsSeen(tx[c])'
<1>t. TypeOK /\ tx[c] \in Requests /\ WellFormed(tx[c]) /\ pc \in Steps
  BY DEF PinsInv, ShiftInv, TypeInv, TypeOK, Steps
<1>1. tx'[c].pc = pc /\ tx'[c].op = tx[c].op /\ tx'[c].shift = tx[c].shift
  BY <1>t, GoneTo
<1>2. tx[c].op = "assign" =>
        Open(shift[tx[c].shift]) /\ Open(shiftNew[tx[c].shift]) /\ tx[c].shift \in Shifts
  BY <1>t DEF PinsInv, ShiftsSeen, WellFormed
<1> QED
  BY <1>1, <1>2 DEF ShiftsSeen, Untouched

\* The shift of the previous driver is the one the job pinned.
LEMMA PrevPins ==
  ASSUME PinsInv, NEW c \in Conns, ClearPrev(c) \/ FreePrev(c)
  PROVE  ShiftsSeen(tx[c])'
<1> DEFINE t == tx[c]
<1>t. TypeOK /\ t \in Requests /\ WellFormed(t) /\ SerialInv
  BY DEF PinsInv, ShiftInv, TypeInv, TypeOK
<1>0. /\ t.op \in {"assign", "unassign"} /\ t.pc = "prev"
      /\ job' = job /\ jobNew' = jobNew /\ shift' = shift
  BY DEF ClearPrev, FreePrev, At, WriteShift, NoOpenShift, Unchanged, jobVars, shiftVars
<1>1. t.op \in JobOps /\ Untouched(t) /\ shiftNew = shift
  BY <1>0 DEF JobOps, Untouched, PinsInv, ShiftsSeen
<1>2. t.job \in Jobs /\ t.prev = job[t.job].driver
  BY <1>t, <1>0, <1>1 DEF WellFormed, SerialInv, Fresh
<1>3. \A s \in Shifts : shift[s].cur = t.job => s \in OpenShiftsOf(t.prev)
  BY <1>2, PinIsDrivers, NullsAreDistinct
<1>4. \/ NoOpenShift(t.prev)
      \/ \E r \in OpenShiftsOf(t.prev) :
           \/ shiftNew' = [shiftNew EXCEPT ![r] = [shiftNew[r] EXCEPT !.cur = NoJob]]
           \/ shiftNew' = [shiftNew EXCEPT ![r] = [shiftNew[r] EXCEPT !.cur = NoJob,
                                                                     !.status = "available"]]
  BY DEF ClearPrev, FreePrev, WriteShift
<1>5. \A s \in Shifts :
        /\ shiftNew'[s].cur # NoJob => shiftNew'[s].cur = shift[s].cur /\ shiftNew'[s].cur # t.job
        /\ Open(shift[s]) => Open(shiftNew'[s])
  <2>1. CASE NoOpenShift(t.prev)
    BY <1>1, <1>2, <1>3, <2>1 DEF NoOpenShift, Unchanged, shiftVars
  <2>2. ASSUME NEW r \in OpenShiftsOf(t.prev),
               \/ shiftNew' = [shiftNew EXCEPT ![r] = [shiftNew[r] EXCEPT !.cur = NoJob]]
               \/ shiftNew' = [shiftNew EXCEPT ![r] = [shiftNew[r] EXCEPT !.cur = NoJob,
                                                                         !.status = "available"]]
        PROVE  \A s \in Shifts :
                 /\ shiftNew'[s].cur # NoJob =>
                      shiftNew'[s].cur = shift[s].cur /\ shiftNew'[s].cur # t.job
                 /\ Open(shift[s]) => Open(shiftNew'[s])
    <3>1. \A s \in Shifts : shift[s].cur = t.job => s = r
      BY <1>3, OneShiftOfDriver DEF PinsInv
    <3>2. r \in Shifts /\ shift[r] \in ShiftRows
      BY <1>t DEF OpenShiftsOf, TypeOK
    <3>3. shiftNew'[r].cur = NoJob /\ (Open(shift[r]) => Open(shiftNew'[r]))
      <4>1. \/ shiftNew'[r] = [shift[r] EXCEPT !.cur = NoJob]
            \/ shiftNew'[r] = [shift[r] EXCEPT !.cur = NoJob, !.status = "available"]
        BY <1>t, <1>1, <2>2, <3>2 DEF TypeOK
      <4> QED
        BY <3>2, <4>1 DEF ShiftRows, Open, Exists
    <3>4. \A s \in Shifts \ {r} : shiftNew'[s] = shift[s]
      BY <1>t, <1>1, <2>2, <3>2 DEF TypeOK
    <3> QED
      BY <3>1, <3>3, <3>4
  <2> QED
    BY <1>4, <2>1, <2>2
<1>6. Pinned(jobNew', shiftNew')
  BY <1>0, <1>1, <1>5, FreePins
<1>7. \E pc \in {"shift", "emit"} : Goto(c, pc) /\ (pc = "shift" => t.op = "assign")
  BY DEF ClearPrev, FreePrev, At
<1> QED
  BY <1>0, <1>1, <1>5, <1>6, <1>7, ShiftsDone

\* assign takes its shift.
LEMMA TakePins ==
  ASSUME PinsInv, NEW c \in Conns, TakeShift(c)
  PROVE  ShiftsSeen(tx[c])'
<1> DEFINE t == tx[c]
<1>t. TypeOK /\ t \in Requests /\ WellFormed(t)
  BY DEF PinsInv, ShiftInv, TypeInv, TypeOK
<1>1. /\ t.op = "assign" /\ t.pc = "shift" /\ Goto(c, "emit")
      /\ jobNew' = jobNew /\ shift' = shift
      /\ shiftNew' = [shiftNew EXCEPT ![t.shift] = [shiftNew[t.shift] EXCEPT !.cur = t.job,
                                                                            !.status = "en_route"]]
  BY DEF TakeShift, At, WriteShift, jobVars
<1>2. t.op \in JobOps /\ t.job \in Jobs /\ t.shift \in Shifts /\ t.to = "dispatched"
  BY <1>t, <1>1 DEF WellFormed, JobOps
<1>3. Pinned(jobNew, shiftNew) /\ Open(shiftNew[t.shift])
  BY <1>1 DEF PinsInv, ShiftsSeen, Untouched
<1>4. jobNew[t.job].shift = t.shift /\ jobNew[t.job].status = "dispatched"
  <2>1. jobNew[t.job] = Written(t)
    BY <1>t, <1>1, <1>2, SeenPastUpdate DEF TypeOK
  <2>2. Written(t).shift = t.shift /\ Written(t).status = t.to
    BY <1>t, <1>1, <1>2, WrittenRow
  <2> QED
    BY <1>2, <2>1, <2>2
<1>5. shiftNew'[t.shift].cur = t.job /\ (Open(shiftNew[t.shift]) => Open(shiftNew'[t.shift]))
  BY <1>t, <1>1, <1>2 DEF TypeOK, ShiftRows, Open, Exists
<1>6. \A s \in Shifts \ {t.shift} : shiftNew'[s] = shiftNew[s]
  BY <1>t, <1>1, <1>2 DEF TypeOK
<1> HIDE DEF t
<1>7. Pinned(jobNew', shiftNew')
  <2> SUFFICES ASSUME NEW s \in Shifts, shiftNew'[s].cur # NoJob
               PROVE  /\ jobNew[shiftNew'[s].cur].shift = s
                      /\ jobNew[shiftNew'[s].cur].status \in InFlight
                      /\ Open(shiftNew'[s])
    BY <1>1 DEF Pinned
  <2>1. CASE s = t.shift
    BY <1>3, <1>4, <1>5, <2>1 DEF InFlight
  <2>2. CASE s # t.shift
    <3>1. shiftNew'[s] = shiftNew[s]
      BY <1>6, <2>2
    <3> QED
      BY <1>3, <3>1 DEF Pinned
  <2> QED
    BY <2>1, <2>2
<1> QED
  BY <1>1, <1>5, <1>6, <1>7, ShiftsDone DEF t

\* transition frees or moves the shift of its job.
LEMMA MovePins ==
  ASSUME PinsInv, NEW c \in Conns, FreeShift(c) \/ MirrorShift(c)
  PROVE  ShiftsSeen(tx[c])'
<1> DEFINE t == tx[c]
<1>t. TypeOK /\ t \in Requests /\ WellFormed(t) /\ SerialInv
  BY DEF PinsInv, ShiftInv, TypeInv, TypeOK
<1>0. /\ t.op = "transition" /\ t.pc = "shift" /\ Goto(c, "emit")
      /\ job' = job /\ jobNew' = jobNew /\ shift' = shift
  BY DEF FreeShift, MirrorShift, At, WriteShift, jobVars
<1>1. t.op \in JobOps /\ Untouched(t) /\ shiftNew = shift
  BY <1>0 DEF JobOps, Untouched, PinsInv, ShiftsSeen
<1>2. t.job \in Jobs /\ t.shift = job[t.job].shift /\ t.shift \in Shifts
  BY <1>t, <1>0, <1>1 DEF WellFormed, SerialInv, Fresh
<1>3. Written(t).shift = t.shift /\ Written(t).status = t.to
  BY <1>t, <1>0, <1>1, <1>2, WrittenRow
<1>4. \A s \in Shifts : shift[s].cur = t.job => s = t.shift
  BY <1>2, PinIsDrivers, NullsAreDistinct
<1>5. \A s \in Shifts \ {t.shift} : shiftNew'[s] = shift[s]
  BY <1>t, <1>1, <1>2 DEF FreeShift, MirrorShift, WriteShift, TypeOK
<1>6. Pinned(jobNew', shiftNew')
  <2>1. CASE FreeShift(c)
    <3>1. shiftNew'[t.shift].cur = NoJob
      BY <1>t, <1>1, <1>2, <2>1 DEF FreeShift, WriteShift, TypeOK, ShiftRows
    <3> QED
      BY <1>0, <1>1, <1>2, <1>4, <1>5, <3>1, FreePins
  <2>2. CASE MirrorShift(c)
    <3>1. t.to \in InFlight
      BY <2>2 DEF MirrorShift, MirroredStatus, InFlight
    <3>2. shiftNew'[t.shift].cur = shift[t.shift].cur
          /\ (Open(shift[t.shift]) => Open(shiftNew'[t.shift]))
      BY <1>t, <1>1, <1>2, <2>2, SMTT(30) DEF MirrorShift, WriteShift, TypeOK, ShiftRows, Open, Exists
    <3> QED
      BY <1>0, <1>1, <1>2, <1>3, <1>4, <1>5, <3>1, <3>2, FreePins, SMTT(30)
  <2> QED
    BY <2>1, <2>2
<1> QED
  BY <1>0, <1>6, ShiftsDone

\* The statements of the shift operations: none is about a shift with a job but the status.
LEMMA ShiftOpPins ==
  ASSUME PinsInv, NEW c \in Conns,
         EndShift(c) \/ ReportStatus(c) \/ InsertShift(c), ~Rollback(c)
  PROVE  ShiftsSeen(tx[c])' /\ job' = job /\ shift' = shift
<1> DEFINE t == tx[c]
<1>t. TypeOK /\ t \in Requests /\ WellFormed(t) /\ SerialInv
  BY DEF PinsInv, ShiftInv, TypeInv, TypeOK
<1>0. /\ t.op \in {"endShift", "shiftStatus", "startShift"} /\ Goto(c, "commit")
      /\ t.pc = IF t.op = "startShift" THEN "insert" ELSE "shift"
      /\ job' = job /\ jobNew' = jobNew /\ shift' = shift
  BY DEF EndShift, ReportStatus, InsertShift, At, WriteShift, jobVars
<1>1. Untouched(t) /\ shiftNew = shift /\ jobNew = job
  BY <1>0 DEF JobOps, Untouched, PinsInv, ShiftsSeen, SerialInv, JobsSeen
<1>2. PICK s \in Shifts :
        /\ \A r \in Shifts \ {s} : shiftNew'[r] = shift[r]
        /\ \/ shiftNew'[s].cur = NoJob
           \/ shiftNew'[s].cur = shift[s].cur /\ (Open(shift[s]) => Open(shiftNew'[s]))
  <2>1. CASE EndShift(c)
    <3>1. t.shift \in Shifts /\ shift[t.shift].cur = NoJob
      BY <1>t, <2>1 DEF EndShift, At, WellFormed, PinsInv, ShiftsSeen
    <3> QED
      BY <1>t, <1>1, <2>1, <3>1 DEF EndShift, WriteShift, TypeOK, ShiftRows
  <2>2. CASE ReportStatus(c)
    <3>1. t.shift \in Shifts
      BY <1>t, <2>2 DEF ReportStatus, At, WellFormed
    <3> QED
      BY <1>t, <1>1, <2>2, <3>1 DEF ReportStatus, WriteShift, TypeOK, ShiftRows, Open, Exists
  <2>3. CASE InsertShift(c)
    <3>1. PICK s \in Shifts :
            shiftNew' = [shiftNew EXCEPT ![s] = [NoRow EXCEPT !.driver = t.driver,
                                                              !.truck = t.truck]]
      BY <2>3 DEF InsertShift, WriteShift
    <3> QED
      BY <1>t, <1>1, <3>1 DEF TypeOK, NoRow
  <2> QED
    BY <2>1, <2>2, <2>3
<1>3. Pinned(jobNew', shiftNew')
  BY <1>0, <1>1, <1>2 DEF PinsInv, Pinned
<1> QED
  BY <1>0, <1>3, ShiftsDone

\* The history row and the event leave status and shift of the job alone.
LEMMA EmitPins ==
  ASSUME PinsInv, NEW c \in Conns, Emit(c)
  PROVE  ShiftsSeen(tx[c])' /\ job' = job /\ shift' = shift
<1> DEFINE t == tx[c]
<1>t. TypeOK /\ t \in Requests /\ WellFormed(t)
  BY DEF PinsInv, ShiftInv, TypeInv, TypeOK
<1>1. /\ t.pc = "emit" /\ Goto(c, "commit") /\ job' = job /\ shift' = shift /\ shiftNew' = shiftNew
      /\ jobNew' = [jobNew EXCEPT ![t.job].moved = IF t.from # t.to THEN t.to ELSE @]
  BY DEF Emit, shiftVars
<1>2. Pinned(jobNew, shiftNew)
  BY <1>1 DEF PinsInv, ShiftsSeen, Untouched
<1>3. \A j \in Jobs : jobNew'[j].shift = jobNew[j].shift /\ jobNew'[j].status = jobNew[j].status
  BY <1>t, <1>1 DEF TypeOK, JobRows
<1>4. \A s \in Shifts : shiftNew[s].cur \in Jobs \cup {NoJob}
  BY <1>t DEF TypeOK, ShiftRows
<1>5. Pinned(jobNew', shiftNew')
  BY <1>1, <1>2, <1>3, <1>4 DEF Pinned
<1> QED
  BY <1>1, <1>5, ShiftsDone

LEMMA PinsInvInductive ==
  ASSUME OneConnection, AppsCalls
  PROVE  PinsInv /\ [Next]_vars => PinsInv'
<1> SUFFICES ASSUME PinsInv, [Next]_vars
             PROVE  PinsInv'
  OBVIOUS
<1>t. TypeOK /\ ShiftInv /\ SerialInv
  BY DEF PinsInv, ShiftInv, TypeInv
<1>i. SerialInv' /\ ShiftInv' /\ HandsInv'
  BY SerialInvInductive, ShiftInvInductive, HandsInvInductive DEF PinsInv, AppsCalls
<1>0. Untouched(Idle) /\ Idle.op = "none"
  BY DEF Idle, Untouched
<1>1. ASSUME NEW c \in Conns, Request(c)
      PROVE  PinsInv'
  BY <1>i, <1>1, RequestSees, PinsStep
<1>2. ASSUME NEW c \in Conns, LookupShift(c)
      PROVE  PinsInv'
  <2>1. shiftNew' = shift /\ shift' = shift /\ job' = job
    BY <1>2 DEF LookupShift, At, Unchanged, jobVars, shiftVars, PinsInv, ShiftsSeen, Untouched
  <2>2. \/ tx'[c] = Idle
        \/ \E s \in Shifts : Open(shift[s]) /\ tx'[c] = [tx[c] EXCEPT !.shift = s, !.pc = "job"]
    BY <1>t, <1>2 DEF LookupShift, TypeOK, OpenShiftsOf
  <2>3. tx[c] \in Requests /\ tx[c].op = "assign"
    BY <1>t, <1>2 DEF TypeOK, LookupShift, At
  <2>4. ShiftsSeen(tx[c])'
    <3>1. CASE tx'[c] = Idle
      BY <1>0, <2>1, <3>1 DEF ShiftsSeen, Untouched
    <3>2. ASSUME NEW s \in Shifts, Open(shift[s]),
                 tx'[c] = [tx[c] EXCEPT !.shift = s, !.pc = "job"]
          PROVE  ShiftsSeen(tx[c])'
      <4>1. tx'[c].pc = "job" /\ tx'[c].shift = s
        BY <2>3, <3>2 DEF Requests
      <4> QED
        BY <2>1, <3>2, <4>1 DEF ShiftsSeen, Untouched
    <3> QED
      BY <2>2, <3>1, <3>2
  <2> QED
    BY <1>i, <2>1, <2>4, PinsStep
<1>3. ASSUME NEW c \in Conns, AssignJob(c) \/ UnassignJob(c) \/ MoveJob(c)
      PROVE  PinsInv'
  <2>1. job' = job /\ shift' = shift
    BY <1>3 DEF AssignJob, UnassignJob, MoveJob, WriteJob, shiftVars
  <2> QED
    BY <1>i, <1>3, <2>1, UpdatePins, PinsStep
<1>4. ASSUME NEW c \in Conns,
             ClearPrev(c) \/ FreePrev(c) \/ TakeShift(c) \/ FreeShift(c) \/ MirrorShift(c)
      PROVE  PinsInv'
  <2>1. job' = job /\ shift' = shift
    BY <1>4 DEF ClearPrev, FreePrev, TakeShift, FreeShift, MirrorShift, WriteShift, NoOpenShift,
                Unchanged, jobVars, shiftVars
  <2>2. ShiftsSeen(tx[c])'
    BY <1>4, PrevPins, TakePins, MovePins
  <2> QED
    BY <1>i, <2>1, <2>2, PinsStep
<1>5. ASSUME NEW c \in Conns, Rollback(c)
      PROVE  PinsInv'
  <2>1. job' = job /\ tx'[c] = Idle /\ shift' = shift /\ shiftNew' = shift'
    BY <1>t, <1>5, SerialEnd, SerialShiftEnd DEF SerialInv
  <2>2. ShiftsSeen(tx[c])'
    BY <1>0, <2>1 DEF ShiftsSeen, Untouched
  <2> QED
    BY <1>i, <2>1, <2>2, PinsStep
<1>6. ASSUME NEW c \in Conns, EndShift(c) \/ ReportStatus(c) \/ InsertShift(c)
      PROVE  PinsInv'
  <2>1. CASE Rollback(c)
    BY <1>5, <2>1
  <2>2. CASE ~Rollback(c)
    BY <1>i, <1>6, <2>2, ShiftOpPins, PinsStep
  <2> QED
    BY <2>1, <2>2
<1>7. ASSUME NEW c \in Conns, Emit(c)
      PROVE  PinsInv'
  BY <1>i, <1>7, EmitPins, PinsStep
<1>8. ASSUME NEW c \in Conns, Commit(c)
      PROVE  PinsInv'
  <2>1. job' = jobNew /\ tx'[c] = Idle /\ shift' = shiftNew /\ shiftNew' = shift'
    BY <1>t, <1>8, SerialEnd, SerialShiftEnd DEF SerialInv
  <2>2. ShiftsSeen(tx[c])'
    BY <1>0, <2>1 DEF ShiftsSeen, Untouched
  <2>3. \A d \in Conns : ShiftsSeen(tx[d])'
    BY <2>2 DEF OneConnection
  <2>4. Pinned(jobNew, shiftNew)
    BY <1>8 DEF Commit, PinsInv, ShiftsSeen, Untouched
  <2>5. Pinned(job', shift') /\ Crewed(job')
    BY <1>8, <2>1, <2>4, CrewedStays
  <2> QED
    BY <1>i, <2>3, <2>5 DEF PinsInv
<1>9. CASE UNCHANGED vars
  <2>1. \A c \in Conns : ShiftsSeen(tx[c])'
    BY <1>9 DEF vars, jobVars, shiftVars, PinsInv, ShiftsSeen
  <2>2. Crewed(job') /\ Pinned(job', shift')
    BY <1>9 DEF vars, jobVars, shiftVars, PinsInv
  <2> QED
    BY <1>i, <2>1, <2>2 DEF PinsInv
<1> QED
  BY <1>1, <1>2, <1>3, <1>4, <1>5, <1>6, <1>7, <1>8, <1>9
  DEF Next, Statement, DeadlockVictim, Abort

LEMMA PinsInvInit == Init => PinsInv
<1>1. Init => SerialInv /\ ShiftInv /\ HandsInv
  BY SerialInvInit, ShiftInvInit, HandsInvInit
<1>2. Init => Crewed(job) /\ Pinned(job, shift) /\ \A c \in Conns : ShiftsSeen(tx[c])
  BY DEF Init, Crewed, Pinned, ShiftsSeen, Untouched, Idle, NewJob, NoRow, InFlight
<1> QED
  BY <1>1, <1>2 DEF PinsInv

LEMMA PinsInvHolds ==
  ASSUME OneConnection, AppsCalls
  PROVE  Spec => []PinsInv
BY PinsInvInit, PinsInvInductive, PTL DEF Spec

\* One request at a time, whatever the requests and wherever one fails, status, history,
\* driver and shift of a job agree: each handler writes all the columns its guard allows.
THEOREM JobRowsAgreeHolds ==
  ASSUME OneConnection, AppsCalls
  PROVE  Spec => []JobRowsAgree
<1>1. PinsInv => JobRowsAgree
  BY DEF PinsInv, SerialInv, Booking, Crewed, JobRowsAgree
<1> QED
  BY <1>1, PinsInvHolds, PTL

\* One request at a time, a driver's shift is pinned by a job of that shift still to be done:
\* reassign, unassign and the end of a job each clear the pin they leave behind.
THEOREM ShiftPinnedByOwnJobHolds ==
  ASSUME OneConnection, AppsCalls
  PROVE  Spec => []ShiftPinnedByOwnJob
<1>1. PinsInv => ShiftPinnedByOwnJob
  BY DEF PinsInv, Pinned, ShiftPinnedByOwnJob
<1> QED
  BY <1>1, PinsInvHolds, PTL
=============================================================================
