--------------------------- MODULE OfflineReplay ----------------------------
(***************************************************************************)
(* What a driver does in the truck app while the network comes and goes:   *)
(* the phone's outbox (apps/driver-android, DriverSyncEngine and the       *)
(* repositories that fall back on it) and its replay by the API            *)
(* (driver-experience/driver-offline-sync.service.ts).                     *)
(*                                                                         *)
(* An action, an inspection or the acknowledgment of a briefing, is first  *)
(* a call of its own; when that call fails the action is queued and sent   *)
(* in batches, each with the uuid that the API's ledger of replays is keyed*)
(* by.  A request is a row of requests, its statements are steps; it goes  *)
(* on when the phone has stopped listening, and it may die anywhere.       *)
(* Payloads, and the kinds that the API never applies, are left out.       *)
(***************************************************************************)
EXTENDS Naturals, FiniteSets

CONSTANTS
  Actions,       \* what the driver does, numbered in the order of its timestamps
  Inspections,   \* the actions that are submit_pretrip; acknowledge_briefing the others
  MaxDrains,     \* drains of the outbox at once: the sync worker's, the screen button's
  Requests,      \* slots for requests that the API is serving
  BatchSize,     \* BATCH_SIZE
  MaxFaults,     \* bound on answers lost and requests that die
  MaxFailures,   \* bound on actions that the API fails to apply
  NoAction

ASSUME ReplayConstants ==
  /\ Actions \subseteq Nat /\ Inspections \subseteq Actions /\ BatchSize \in Nat \ {0}
  /\ Requests \subseteq Nat /\ IsFiniteSet(Requests) /\ MaxDrains \in Nat
  /\ MaxFaults \in Nat /\ MaxFailures \in Nat /\ NoAction \notin Actions

VARIABLES
  outbox,     \* the phone's row of an action; "posting": its own call is out
  request,    \* the requests at the API, and whether the phone awaits the answer
  ledger,     \* driver_offline_actions: the status of an action's row
  done,       \* rows that an action has left in the tables
  unguarded,  \* deliveries of an inspection that its row in the ledger could not stop
  faults, failures

vars == <<outbox, request, ledger, done, unguarded, faults, failures>>

-----------------------------------------------------------------------------
Settled == {"applied", "failed", "skipped"}
LedgerStatuses == {"none", "pending"} \cup Settled
OutboxStatuses == {"none", "posting", "posted", "pending", "applied", "skipped", "gone"}

\* An action's own call, served and answered.
Own == {"direct", "posted", "refused"}
\* A batch, the statements on the action it is at, the answer, the rows it leaves behind.
Statements == {"record", "check", "apply", "settle"}
Phases == {"free"} \cup Own \cup Statements \cup {"answer", "dead", "prune"}
RequestRows == [phase : Phases, awaited : BOOLEAN, todo : SUBSET Actions,
                item : Actions \cup {NoAction}, outcome : Settled,
                result : [Actions -> Settled \cup {"none"}]]

NoResult == [a \in Actions |-> "none"]
Free == [phase |-> "free", awaited |-> FALSE, todo |-> {}, item |-> NoAction,
         outcome |-> "failed", result |-> NoResult]

TypeOK ==
  /\ outbox \in [Actions -> OutboxStatuses]
  /\ request \in [Requests -> RequestRows] /\ ledger \in [Actions -> LedgerStatuses]
  /\ done \in [Actions -> Nat] /\ unguarded \in [Actions -> Nat]
  /\ faults \in Nat /\ failures \in Nat

Init ==
  /\ outbox = [a \in Actions |-> "none"]
  /\ request = [r \in Requests |-> Free] /\ ledger = [a \in Actions |-> "none"]
  /\ done = [a \in Actions |-> 0] /\ unguarded = [a \in Actions |-> 0]
  /\ faults = 0 /\ failures = 0

-----------------------------------------------------------------------------
At(r, phase) == request[r].phase = phase
Goto(r, phase) == request' = [request EXCEPT ![r].phase = phase]
Release(r) == request' = [request EXCEPT ![r] = Free]
Ignore(r) == request' = [request EXCEPT ![r].awaited = FALSE]

\* Requests do not differ but by their slot: the first one that is free.
Slot(r) == At(r, "free") /\ \A q \in Requests : At(q, "free") => r <= q

\* An answer that the phone does not await is the end of the request.
Ends(r, q) == request' = [request EXCEPT ![r] = IF q.awaited THEN q ELSE Free]

\* INSERT ... ON CONFLICT DO NOTHING of the acknowledgment of the day; an inspection is
\* a new row.
Effect(a) == done' = [done EXCEPT ![a] = IF a \in Inspections THEN @ + 1 ELSE 1]

Unguarded(S) ==
  unguarded' = [a \in Actions |-> IF a \in S \cap Inspections THEN unguarded[a] + 1 ELSE unguarded[a]]

-----------------------------------------------------------------------------
\* PretripRepository.submit, BriefingRepository.acknowledge: the call of its own.
submit(a, r) ==
  /\ outbox[a] = "none" /\ \A b \in Actions : b < a => outbox[b] # "none"
  /\ Slot(r)
  /\ outbox' = [outbox EXCEPT ![a] = "posting"]
  /\ request' = [request EXCEPT ![r] = [Free EXCEPT !.phase = "direct", !.item = a,
                                                    !.awaited = TRUE]]
  /\ UNCHANGED <<ledger, done, unguarded, faults, failures>>

ServeDirect(r) ==
  /\ At(r, "direct")
  /\ \/ Effect(request[r].item) /\ Ends(r, [request[r] EXCEPT !.phase = "posted"])
     \/ Ends(r, [request[r] EXCEPT !.phase = "refused"]) /\ UNCHANGED done
  /\ UNCHANGED <<outbox, ledger, unguarded, faults, failures>>

\* The answer; an error of any kind queues the action.
ReceiveDirect(r) ==
  /\ request[r].phase \in {"posted", "refused"}
  /\ outbox' = [outbox EXCEPT ![request[r].item] = IF At(r, "posted") THEN "posted" ELSE "pending"]
  /\ Release(r)
  /\ UNCHANGED <<ledger, done, unguarded, faults, failures>>

\* The phone's timeout.  The call may still be served, or has been.
GiveUpDirect(r) ==
  LET a == request[r].item IN
  /\ request[r].phase \in {"direct", "posted"} /\ request[r].awaited
  /\ faults < MaxFaults /\ faults' = faults + 1
  /\ outbox' = [outbox EXCEPT ![a] = "pending"]
  /\ Unguarded({a})
  /\ IF At(r, "posted") THEN Release(r) ELSE Ignore(r)
  /\ UNCHANGED <<ledger, done, failures>>

-----------------------------------------------------------------------------
\* drain, one turn of its loop: the oldest BATCH_SIZE pending rows are sent.
Pending == {a \in Actions : outbox[a] = "pending"}
Oldest(a, S) == a \in S /\ \A b \in S : a <= b
Batch(B) ==
  /\ B \subseteq Pending /\ B # {} /\ Cardinality(B) <= BatchSize
  /\ \A b \in Pending \ B : Cardinality(B) = BatchSize /\ \A a \in B : a < b

Sent(r) == request[r].todo \cup {a \in Actions : request[r].result[a] # "none"}
Draining == {r \in Requests : request[r].awaited /\ request[r].phase \notin Own}

\* A request is at the action, or comes to it, and no row stops this one.
Beside(a) ==
  /\ ledger[a] \notin Settled
  /\ \E r \in Requests : request[r].phase \in Statements /\ a \in request[r].todo

StartDrain(r) ==
  /\ Cardinality(Draining) < MaxDrains /\ Slot(r)
  /\ \E B \in SUBSET Pending, a \in Actions :
       /\ Batch(B) /\ Oldest(a, B)
       /\ request' = [request EXCEPT ![r] = [Free EXCEPT !.phase = "record", !.awaited = TRUE,
                                               !.todo = B, !.item = a]]
       /\ Unguarded({b \in B : Beside(b)})
  /\ UNCHANGED <<outbox, ledger, done, faults, failures>>

-----------------------------------------------------------------------------
\* replayOne, on the actions of the batch in their order.
Advance(r, status) ==
  LET a == request[r].item
      rest == request[r].todo \ {a}
      q == [request[r] EXCEPT !.result[a] = status, !.todo = rest, !.outcome = "failed"]
  IN \/ rest = {} /\ Ends(r, [q EXCEPT !.phase = "answer"])
     \/ \E b \in rest :
          /\ Oldest(b, rest)
          /\ request' = [request EXCEPT ![r] = [q EXCEPT !.phase = "record", !.item = b]]

\* INSERT ... ON CONFLICT DO NOTHING.
\* Mutant: a row that is there is answer enough.
RecordOnce(r) ==
  LET a == request[r].item IN
  /\ At(r, "record")
  /\ IF ledger[a] = "none" THEN Goto(r, "check") /\ ledger' = [ledger EXCEPT ![a] = "pending"]
     ELSE Advance(r, IF ledger[a] \in Settled THEN ledger[a] ELSE "failed") /\ UNCHANGED ledger
  /\ UNCHANGED <<outbox, done, unguarded, faults, failures>>

Record(r) ==
  LET a == request[r].item IN
  /\ At(r, "record") /\ Goto(r, "check")
  /\ ledger' = [ledger EXCEPT ![a] = IF @ = "none" THEN "pending" ELSE @]
  /\ UNCHANGED <<outbox, done, unguarded, faults, failures>>

\* Mutant: a settled action is applied again.
CheckNothing(r) ==
  /\ At(r, "check") /\ Goto(r, "apply")
  /\ UNCHANGED <<outbox, ledger, done, unguarded, faults, failures>>

Check(r) ==
  LET a == request[r].item IN
  /\ At(r, "check")
  /\ IF ledger[a] \in Settled THEN Advance(r, ledger[a]) ELSE Goto(r, "apply")
  /\ UNCHANGED <<outbox, ledger, done, unguarded, faults, failures>>

\* An error is "failed", or "skipped" when its text looks like a conflict: that of a
\* statement that fails quotes the statement, ON CONFLICT included.
Outcome(r, outcome) ==
  request' = [request EXCEPT ![r].phase = "settle", ![r].outcome = outcome]

\* Mutant: the catch leaves the outcome at applied.
ApplySwallowed(r) ==
  /\ At(r, "apply") /\ Outcome(r, "applied")
  /\ \/ Effect(request[r].item) /\ UNCHANGED failures
     \/ failures < MaxFailures /\ failures' = failures + 1 /\ UNCHANGED done
  /\ UNCHANGED <<outbox, ledger, unguarded, faults>>

Apply(r) ==
  /\ At(r, "apply")
  /\ \/ Effect(request[r].item) /\ Outcome(r, "applied") /\ UNCHANGED failures
     \/ /\ failures < MaxFailures /\ failures' = failures + 1
        /\ \E outcome \in {"failed", "skipped"} : Outcome(r, outcome)
        /\ UNCHANGED done
  /\ UNCHANGED <<outbox, ledger, unguarded, faults>>

Settle(r) ==
  /\ At(r, "settle")
  /\ ledger' = [ledger EXCEPT ![request[r].item] = request[r].outcome]
  /\ Advance(r, request[r].outcome)
  /\ UNCHANGED <<outbox, done, unguarded, faults, failures>>

\* A statement on the ledger fails and the batch with it, or the process stops.
Die(r) ==
  /\ request[r].phase \in {"direct"} \cup Statements
  /\ faults < MaxFaults /\ faults' = faults + 1
  /\ Ends(r, [request[r] EXCEPT !.phase = IF @ = "direct" THEN "refused" ELSE "dead"])
  /\ Unguarded(IF At(r, "settle") /\ request[r].outcome = "applied" THEN {request[r].item} ELSE {})
  /\ UNCHANGED <<outbox, ledger, done, failures>>

-----------------------------------------------------------------------------
\* drain, the answer, or what takes its place.  A row that another drain has deleted
\* stays so, one that it has only marked is pending again when this one failed.
Mark(status) ==
  outbox' = [a \in Actions |-> IF outbox[a] = "gone" \/ status[a] = "none" THEN outbox[a]
                               ELSE IF status[a] = "failed" THEN "pending" ELSE status[a]]
AllFailed(r) == [a \in Actions |-> IF a \in Sent(r) THEN "failed" ELSE "none"]

Receive(r) ==
  /\ At(r, "answer") /\ Mark(request[r].result)
  /\ request' = [request EXCEPT ![r] = [Free EXCEPT !.phase = "prune", !.awaited = TRUE]]
  /\ UNCHANGED <<ledger, done, unguarded, faults, failures>>

\* pruneResolved: the marked rows are deleted, those that another drain marked too.
Prune(r) ==
  /\ At(r, "prune") /\ Release(r)
  /\ outbox' = [a \in Actions |-> IF outbox[a] \in {"applied", "skipped"} THEN "gone" ELSE outbox[a]]
  /\ UNCHANGED <<ledger, done, unguarded, faults, failures>>

\* The request came to an error.
HungUp(r) ==
  /\ At(r, "dead") /\ Mark(AllFailed(r)) /\ Release(r)
  /\ UNCHANGED <<ledger, done, unguarded, faults, failures>>

\* The phone's timeout, or the network goes: the API does not notice.
GiveUp(r) ==
  /\ r \in Draining /\ request[r].phase \in Statements \cup {"answer"}
  /\ faults < MaxFaults /\ faults' = faults + 1
  /\ Mark(AllFailed(r)) /\ IF At(r, "answer") THEN Release(r) ELSE Ignore(r)
  /\ UNCHANGED <<ledger, done, unguarded, failures>>

-----------------------------------------------------------------------------
Serve(r) == ServeDirect(r) \/ Record(r) \/ Check(r) \/ Apply(r) \/ Settle(r)
Listen(r) == ReceiveDirect(r) \/ Receive(r) \/ Prune(r) \/ HungUp(r)

Next ==
  \E r \in Requests :
    \/ \E a \in Actions : submit(a, r)
    \/ StartDrain(r) \/ Serve(r) \/ Listen(r)
    \/ GiveUpDirect(r) \/ GiveUp(r) \/ Die(r)

Spec == Init /\ [][Next]_vars

\* The API serves what it was sent and the phone hears of it; the phone drains again
\* and again (the network comes back, the app starts, the work manager retries).
Fairness ==
  /\ \A r \in Requests : WF_vars(Serve(r)) /\ WF_vars(Listen(r))
  /\ WF_vars(\E r \in Requests : StartDrain(r))

FairSpec == Spec /\ Fairness

-----------------------------------------------------------------------------
\* What the ledger, or the phone, takes for applied is in the tables: whatever dies,
\* is lost or runs twice (replayOne, DriverSyncEngine.drain).
AppliedTookEffect ==
  \A a \in Actions :
    ledger[a] = "applied" \/ outbox[a] \in {"applied", "posted"} => done[a] > 0

\* An inspection is entered twice only when its ledger row could not stop it: the
\* phone gave up on its own call, a request died between the two statements, or
\* another was at it before either was settled.  A retry alone enters nothing.
RetriesEnterOnce == \A a \in Inspections : done[a] <= 1 + unguarded[a]

\* As long as fewer than BATCH_SIZE actions fail, every queued one comes to an end:
\* it leaves the phone, or the ledger says that it failed.
EveryActionSettles ==
  \A a \in Actions :
    outbox[a] = "pending" ~> outbox[a] = "gone" \/ ledger[a] = "failed"
=============================================================================
