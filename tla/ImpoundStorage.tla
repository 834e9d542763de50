--------------------------- MODULE ImpoundStorage ---------------------------
(***************************************************************************)
(* Impounded vehicles and what their storage costs:                        *)
(* apps/api/src/modules/impound/impound.service.ts and the daily sweep of  *)
(* impound-fee-accrual.cron.ts with impound-fees.logic.ts.                 *)
(*                                                                         *)
(* Clerks take vehicles in, edit, hold, release and close them; every API  *)
(* instance runs the sweep, which bills each stored vehicle for the days   *)
(* not billed yet.  A step is one statement.  Time is counted in days.     *)
(***************************************************************************)
EXTENDS RowLocks, Integers, FiniteSetsExt

CONSTANTS
  Clerks, Sweepers,    \* who is served on which connection
  Steady,              \* the sweepers that keep coming round, for liveness
  Records,             \* ids of the impound records
  Holds,               \* ids of the holds put on them
  DailyFees,           \* daily_fee_cents
  Dispositions,        \* what clerks close records as
  LastDay,             \* bound: the days that pass
  LIEN_ELIGIBLE_AFTER_DAYS, MAX_BACKFILL_DAYS,
  NoRecord

ASSUME ImpoundConstants ==
  /\ Clerks \cup Sweepers = Conns /\ Steady \subseteq Sweepers /\ NoRecord \notin Records
  /\ DailyFees \subseteq Nat /\ LastDay \in Nat \ {0}
  /\ Dispositions \subseteq {"transferred", "disposed"}
  /\ LIEN_ELIGIBLE_AFTER_DAYS \in Nat /\ MAX_BACKFILL_DAYS \in Nat \ {0}

Days == 1..LastDay

VARIABLES
  rec,       \* impound_records
  storage,   \* the daily_storage rows of impound_fees: their amounts, 0 for none
  hold,      \* impound_holds: the record each is on
  released,  \* impound_releases
  today,
  todo,      \* per sweeper: the records its tick has still to visit
  tx         \* per connection: the request and how far it is

tables == <<rec, storage, released>>
storageVars == <<tables, hold, today, todo, tx>>

-----------------------------------------------------------------------------
\* No code writes the status 'pending_release'.
Statuses == {"stored", "released", "transferred", "disposed"}
ACCRUING_STATUSES == {"stored"}

\* through: last_accrued_on, 0 for never.
ImpoundRows == [status : Statuses \cup {"none"}, started : Nat, fee : Nat, accrued : Nat,
         through : Nat, lien : BOOLEAN]
NotTakenIn == [status |-> "none", started |-> 0, fee |-> 0, accrued |-> 0,
               through |-> 0, lien |-> FALSE]

Ops == {"none", "intake", "update", "close", "release", "accrue"}
Steps == {"idle", "holds", "insert", "days", "write", "commit"}

\* What a request read of the record, and what its UPDATE will set.
Requests == [op : Ops, pc : Steps, record : Records \cup {NoRecord}, read : ImpoundRows,
             to : Statuses, fee : Nat, now : Nat, inserted : Nat]
Idle == [op |-> "none", pc |-> "idle", record |-> NoRecord, read |-> NotTakenIn,
         to |-> "stored", fee |-> 0, now |-> 0, inserted |-> 0]

StorageTypeOK ==
  /\ rec \in Tables(Records, ImpoundRows) /\ storage \in Tables(Records \X Days, Nat)
  /\ released \in Tables(Records, BOOLEAN)
  /\ hold \in [Holds -> Records \cup {NoRecord}]
  /\ today \in Days /\ todo \in [Sweepers -> SUBSET Records]
  /\ tx \in [Conns -> Requests]
  /\ \A r \in Records : rec.row[r].through <= today

StorageInit ==
  /\ rec = Filled(Records, NotTakenIn) /\ storage = Filled(Records \X Days, 0)
  /\ released = Filled(Records, FALSE) /\ hold = [h \in Holds |-> NoRecord]
  /\ today = 1 /\ todo = [c \in Sweepers |-> {}] /\ tx = [c \in Conns |-> Idle]

-----------------------------------------------------------------------------
\* impound-fees.logic.ts.
FirstDayOwed(record) == IF record.through > 0 THEN record.through + 1 ELSE record.started

\* Mutant: only the day of the run.
planToday(record, now) ==
  {d \in {now} : record.status \in ACCRUING_STATUSES /\ record.fee > 0 /\ d >= FirstDayOwed(record)}

\* Mutant: one day too many.
planAhead(record, now) ==
  {d \in FirstDayOwed(record)..(now + 1) \cap Days :
     record.status \in ACCRUING_STATUSES /\ record.fee > 0}

planDailyAccrual(record, now) ==
  {d \in FirstDayOwed(record)..now :
     /\ record.status \in ACCRUING_STATUSES /\ record.fee > 0
     /\ d < FirstDayOwed(record) + MAX_BACKFILL_DAYS}

computeLienEligibility(record, now) == now - record.started >= LIEN_ELIGIBLE_AFTER_DAYS

-----------------------------------------------------------------------------
\* Transactions.
Serving(c, pc) == tx[c].pc = pc
Goto(c, pc) == tx' = [tx EXCEPT ![c].pc = pc]

Begin(c, request) ==
  /\ Serving(c, "idle")
  /\ tx' = [tx EXCEPT ![c] = request]
  /\ UNCHANGED <<tables, hold, today>>

\* The sweep goes on to its next record, whatever became of this one.
End(c) ==
  /\ tx' = [tx EXCEPT ![c] = Idle]
  /\ todo' = IF c \in Sweepers THEN [todo EXCEPT ![c] = @ \ {tx[c].record}] ELSE todo
  /\ UNCHANGED <<hold, today>>

Commit(c) ==
  /\ Serving(c, "commit") /\ End(c)
  /\ rec' = Committed(rec, c) /\ storage' = Committed(storage, c)
  /\ released' = Committed(released, c)

Rollback(c) ==
  /\ End(c)
  /\ rec' = RolledBack(rec, c) /\ storage' = RolledBack(storage, c)
  /\ released' = RolledBack(released, c)

\* A statement or the COMMIT fails, or the process of a sweep stops.  One that is cut off
\* while it waits for a lock is one cut off as it gets it.
Waits(c) ==
  LET r == tx[c].record IN
  \/ Serving(c, "write") /\ ~Free(rec, c, r)
  \/ Serving(c, "days") /\ \E d \in Days : ~Free(storage, c, <<r, d>>)
  \/ Serving(c, "insert") /\ ~Free(released, c, r)

Abort(c) == ~Serving(c, "idle") /\ ~Waits(c) /\ Rollback(c)

Crash(c) ==
  /\ ~Serving(c, "idle") /\ ~Waits(c)
  /\ todo' = [todo EXCEPT ![c] = {}] /\ tx' = [tx EXCEPT ![c] = Idle]
  /\ rec' = RolledBack(rec, c) /\ storage' = RolledBack(storage, c)
  /\ released' = RolledBack(released, c) /\ UNCHANGED <<hold, today>>

-----------------------------------------------------------------------------
\* The sweep: list the records, then one transaction each.
tick(c) ==
  LET candidates == {r \in Records : rec.row[r].status \in ACCRUING_STATUSES} IN
  /\ Serving(c, "idle") /\ todo[c] = {} /\ candidates # {}
  /\ todo' = [todo EXCEPT ![c] = candidates]
  /\ UNCHANGED <<tables, hold, today, tx>>

accrueOne(c, r) ==
  /\ r \in todo[c]
  /\ Begin(c, [Idle EXCEPT !.op = "accrue", !.pc = "days", !.record = r,
                 !.read = rec.row[r], !.now = today])
  /\ UNCHANGED todo

\* INSERT ... ON CONFLICT DO NOTHING: waits for a transaction that is inserting the same
\* day, then leaves out the days it finds.
\* Mutant: the days planned are counted, not the days inserted.
InsertDaysPlanned(c) ==
  LET t == tx[c]
      planned == {t.record} \X planDailyAccrual(t.read, t.now)
      fresh == {k \in planned : storage.row[k] = 0}
      flags == computeLienEligibility(t.read, t.now) /\ ~t.read.lien
  IN
  /\ Serving(c, "days") /\ \A k \in planned : Free(storage, c, k)
  /\ storage' = [storage EXCEPT
       !.new  = [k \in DOMAIN @ |-> IF k \in fresh THEN t.read.fee ELSE @[k]],
       !.lock = [k \in DOMAIN @ |-> IF k \in fresh THEN c ELSE @[k]]]
  /\ tx' = [tx EXCEPT ![c].inserted = Cardinality(planned),
                      ![c].pc = IF planned # {} \/ flags THEN "write" ELSE "commit"]
  /\ UNCHANGED <<rec, released, hold, today, todo>>

InsertDays(c) ==
  LET t == tx[c]
      planned == {t.record} \X planDailyAccrual(t.read, t.now)
      fresh == {k \in planned : storage.row[k] = 0}
      flags == computeLienEligibility(t.read, t.now) /\ ~t.read.lien
  IN
  /\ Serving(c, "days") /\ \A k \in planned : Free(storage, c, k)
  /\ storage' = [storage EXCEPT
       !.new  = [k \in DOMAIN @ |-> IF k \in fresh THEN t.read.fee ELSE @[k]],
       !.lock = [k \in DOMAIN @ |-> IF k \in fresh THEN c ELSE @[k]]]
  /\ tx' = [tx EXCEPT ![c].inserted = Cardinality(fresh),
                      ![c].pc = IF fresh # {} \/ flags THEN "write" ELSE "commit"]
  /\ UNCHANGED <<rec, released, hold, today, todo>>

\* The totals are what was read and what was inserted.
WriteAccrual(c) ==
  LET t == tx[c]
      r == t.record
      record == Seen(rec, c, r)
  IN
  /\ Serving(c, "write") /\ t.op = "accrue" /\ Free(rec, c, r)
  /\ rec' = Written(rec, c, r,
       [record EXCEPT
         !.accrued = IF t.inserted > 0 THEN t.read.accrued + t.inserted * t.read.fee ELSE @,
         !.through = IF t.inserted > 0 THEN Max(planDailyAccrual(t.read, t.now)) ELSE @,
         !.lien    = @ \/ computeLienEligibility(t.read, t.now)])
  /\ Goto(c, "commit") /\ UNCHANGED <<storage, released, hold, today, todo>>

-----------------------------------------------------------------------------
\* Clerks.
NewRecord(r) == rec.row[r] = NotTakenIn /\ \A c \in Conns : tx[c].record # r

\* The storage clock may start on any day the request names.
intakeRecord(c, r, day, fee) ==
  /\ NewRecord(r)
  /\ Begin(c, [Idle EXCEPT !.op = "intake", !.pc = "write", !.record = r, !.fee = fee,
                 !.now = day])
  /\ UNCHANGED todo

\* Only the daily fee is followed of what an edit may change.
updateRecord(c, r, fee) ==
  /\ rec.row[r].status = "stored"
  /\ Begin(c, [Idle EXCEPT !.op = "update", !.pc = "write", !.record = r, !.fee = fee])
  /\ UNCHANGED todo

closeRecord(c, r, disposition) ==
  /\ rec.row[r].status = "stored"
  /\ Begin(c, [Idle EXCEPT !.op = "close", !.pc = "write", !.record = r, !.to = disposition])
  /\ UNCHANGED todo

\* The gate: stored, no active hold.  Documents are looked at, not stored.
releaseRecord(c, r) ==
  /\ rec.row[r].status # "none"
  /\ Begin(c, [Idle EXCEPT !.op = "release", !.pc = "holds", !.record = r,
                 !.read = rec.row[r], !.to = "released"])
  /\ UNCHANGED todo

evaluateReleaseGate(c) ==
  LET t == tx[c] IN
  /\ Serving(c, "holds")
  /\ \/ /\ t.read.status = "stored" /\ \A h \in Holds : hold[h] # t.record
        /\ Goto(c, "insert") /\ UNCHANGED <<tables, hold, today, todo>>
     \/ /\ t.read.status # "stored" \/ \E h \in Holds : hold[h] = t.record
        /\ Rollback(c)

\* One live release per record: the partial unique index.
InsertRelease(c) ==
  LET r == tx[c].record IN
  /\ Serving(c, "insert") /\ Free(released, c, r)
  /\ \/ /\ ~released.row[r]
        /\ released' = Written(released, c, r, TRUE)
        /\ Goto(c, "write") /\ UNCHANGED <<rec, storage, hold, today, todo>>
     \/ released.row[r] /\ Rollback(c)

\* UPDATE ... WHERE id of the columns the request sets.
WriteRecord(c) ==
  LET t == tx[c]
      record == Seen(rec, c, t.record)
  IN
  /\ Serving(c, "write") /\ t.op # "accrue" /\ Free(rec, c, t.record)
  /\ rec' = Written(rec, c, t.record,
       CASE t.op = "intake" -> [NotTakenIn EXCEPT !.status = "stored", !.started = t.now,
                                  !.fee = t.fee]
         [] t.op = "update" -> [record EXCEPT !.fee = t.fee]
         [] OTHER           -> [record EXCEPT !.status = t.to])
  /\ Goto(c, "commit") /\ UNCHANGED <<storage, released, hold, today, todo>>

\* Holds: an INSERT or an UPDATE each, whatever the record's status.
addHold(r, h) ==
  /\ hold[h] = NoRecord /\ rec.row[r].status # "none"
  /\ hold' = [hold EXCEPT ![h] = r] /\ UNCHANGED <<tables, today, todo, tx>>

releaseHold(h) ==
  /\ hold[h] # NoRecord
  /\ hold' = [hold EXCEPT ![h] = NoRecord] /\ UNCHANGED <<tables, today, todo, tx>>

-----------------------------------------------------------------------------
\* A day has time for the sweeps that began in it.
DayPasses ==
  /\ today < LastDay /\ \A c \in Sweepers : todo[c] = {}
  /\ today' = today + 1 /\ UNCHANGED <<tables, hold, todo, tx>>

ClerkRequest(c) ==
  \E r \in Records :
    \/ \E fee \in DailyFees :
         updateRecord(c, r, fee) \/ \E day \in Days : intakeRecord(c, r, day, fee)
    \/ \E d \in Dispositions : closeRecord(c, r, d)
    \/ releaseRecord(c, r)

Sweep(c) == tick(c) \/ \E r \in Records : accrueOne(c, r)

Statement(c) ==
  \/ evaluateReleaseGate(c) \/ InsertRelease(c) \/ WriteRecord(c)
  \/ InsertDays(c) \/ WriteAccrual(c) \/ Commit(c)

StorageNext ==
  \/ \E c \in Clerks : ClerkRequest(c)
  \/ \E c \in Sweepers : Sweep(c) \/ Crash(c)
  \/ \E c \in Conns : Statement(c) \/ Abort(c)
  \/ \E h \in Holds : releaseHold(h) \/ \E r \in Records : addHold(r, h)
  \/ DayPasses

StorageSpec == StorageInit /\ [][StorageNext]_storageVars

\* Transactions end, and a sweep that waits for a record gets it in its turn.  The cron job
\* of a steady instance comes round and its transactions do not fail every time; of the
\* other instances nothing of the kind is assumed.
Fairness ==
  /\ \A c \in Conns : WF_storageVars(Statement(c))
  /\ \A c \in Sweepers : SF_storageVars(WriteAccrual(c))
  /\ \A c \in Steady :
       WF_storageVars(Sweep(c)) /\ SF_storageVars(InsertDays(c)) /\ SF_storageVars(Commit(c))

FairSpec == StorageSpec /\ Fairness

-----------------------------------------------------------------------------
(***************************************************************************)
(* Properties of the committed tables.                                     *)
(***************************************************************************)
DaysBilled(r) == {d \in Days : storage.row[<<r, d>>] > 0}

\* A vehicle is charged what its storage rows say, for every day from its arrival to
\* last_accrued_on and once each, however the sweeps of several instances, fee changes,
\* failures and crashes interleave.
AccruedMatchesRows ==
  \A r \in Records :
    LET record == rec.row[r]
        amount(d) == storage.row[<<r, d>>]
    IN /\ record.accrued = MapThenSumSet(amount, Days)
       /\ DaysBilled(r) = IF record.through = 0 THEN {} ELSE record.started..record.through

\* A vehicle stored at a fee is billed for all its days in the end, also those whose sweep
\* crashed, failed or never ran, unless it leaves or the fee is dropped first.
Owing(r) ==
  /\ rec.row[r].status = "stored" /\ rec.row[r].fee > 0
  /\ (rec.row[r].started..today) \ DaysBilled(r) # {}
EveryDayBilled == \A r \in Records : Owing(r) ~> ~Owing(r)
=============================================================================
