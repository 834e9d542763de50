----------------------- MODULE OfflineReplayProofs -------------------------
(* Theorems about OfflineReplay, for any actions, slots for requests, batch *)
(* size and number of faults.                                               *)
EXTENDS OfflineReplay, FiniteSetTheorems, TLAPS

-----------------------------------------------------------------------------
\* What a request knows of an action that took effect: the statement that will settle
\* its row, the results of its answer, the answer to a call of its own.
RowInv(q, d) ==
  /\ q.phase \in Own \cup Statements => q.item \in Actions
  /\ q.phase = "settle" /\ q.outcome = "applied" => d[q.item] > 0
  /\ q.phase = "posted" => d[q.item] > 0
  /\ \A a \in Actions : q.result[a] = "applied" => d[a] > 0

ReplayInv == TypeOK /\ AppliedTookEffect /\ \A r \in Requests : RowInv(request[r], done)

-----------------------------------------------------------------------------
LEMMA InitInv == Init => ReplayInv
BY ReplayConstants
   DEF Init, ReplayInv, TypeOK, AppliedTookEffect, RowInv, Free, NoResult, RequestRows, Phases,
       Own, Statements, Settled, LedgerStatuses, OutboxStatuses

-----------------------------------------------------------------------------
\* Nothing takes an effect back.
Kept == done' \in [Actions -> Nat] /\ \A a \in Actions : done[a] > 0 => done'[a] > 0

LEMMA EffectKeeps ==
  ASSUME done \in [Actions -> Nat], NEW a \in Actions, Effect(a)
  PROVE  Kept /\ done'[a] > 0
BY DEF Effect, Kept

LEMMA UnguardedType ==
  ASSUME unguarded \in [Actions -> Nat], NEW S, Unguarded(S)
  PROVE  unguarded' \in [Actions -> Nat]
BY DEF Unguarded

LEMMA FreeRow == Free \in RequestRows /\ \A d : RowInv(Free, d)
BY DEF Free, NoResult, RequestRows, RowInv, Phases, Own, Statements, Settled

\* A request goes on.
LEMMA RowStep ==
  ASSUME ReplayInv, Kept, NEW r \in Requests, NEW k \in RequestRows, RowInv(k, done'),
         request' = [request EXCEPT ![r] = k]
  PROVE  /\ request' \in [Requests -> RequestRows]
         /\ \A q \in Requests : RowInv(request'[q], done')
<1>1. request \in [Requests -> RequestRows]
  BY DEF ReplayInv, TypeOK
<1>2. request' \in [Requests -> RequestRows]
  BY <1>1
<1>3. ASSUME NEW q \in Requests
      PROVE  RowInv(request'[q], done')
  <2>1. CASE q = r
    BY <2>1, <1>1
  <2>2. CASE q # r
    <3>1. request'[q] = request[q] /\ request[q] \in RequestRows
      BY <2>2, <1>1
    <3>2. RowInv(request[q], done)
      BY DEF ReplayInv
    <3>3. QED
      BY <3>1, <3>2 DEF RowInv, Kept, Own, Statements
  <2>3. QED
    BY <2>1, <2>2
<1>4. QED
  BY <1>2, <1>3

\* The end of a request whose answer the phone may not await.
LEMMA EndsStep ==
  ASSUME ReplayInv, Kept, NEW r \in Requests, NEW k \in RequestRows, RowInv(k, done'), Ends(r, k)
  PROVE  /\ request' \in [Requests -> RequestRows]
         /\ \A q \in Requests : RowInv(request'[q], done')
<1>1. CASE k.awaited
  <2>1. request' = [request EXCEPT ![r] = k]
    BY <1>1 DEF Ends
  <2>2. QED
    BY <2>1, RowStep
<1>2. CASE ~k.awaited
  <2>1. request' = [request EXCEPT ![r] = Free]
    BY <1>2 DEF Ends
  <2>2. QED
    BY <2>1, FreeRow, RowStep
<1>3. QED
  BY <1>1, <1>2

LEMMA ReleaseStep ==
  ASSUME ReplayInv, Kept, NEW r \in Requests, Release(r)
  PROVE  /\ request' \in [Requests -> RequestRows]
         /\ \A q \in Requests : RowInv(request'[q], done')
BY FreeRow, RowStep DEF Release

\* A request at its own call or at a statement, with another phase.
LEMMA GotoStep ==
  ASSUME ReplayInv, Kept, NEW r \in Requests, NEW p \in Phases,
         request[r].phase \in Own \cup Statements,
         p = "posted" => done'[request[r].item] > 0,
         p = "settle" => FALSE
  PROVE  /\ [request[r] EXCEPT !.phase = p] \in RequestRows
         /\ RowInv([request[r] EXCEPT !.phase = p], done')
<1>1. request[r] \in RequestRows /\ RowInv(request[r], done)
  BY DEF ReplayInv, TypeOK
<1>2. QED
  BY <1>1 DEF RowInv, RequestRows, Kept, Own, Statements

LEMMA IgnoreStep ==
  ASSUME ReplayInv, Kept, NEW r \in Requests, Ignore(r)
  PROVE  /\ request' \in [Requests -> RequestRows]
         /\ \A q \in Requests : RowInv(request'[q], done')
<1> DEFINE k == [request[r] EXCEPT !.awaited = FALSE]
<1>1. request[r] \in RequestRows /\ RowInv(request[r], done)
  BY DEF ReplayInv, TypeOK
<1>2. k \in RequestRows /\ RowInv(k, done')
  BY <1>1 DEF RowInv, RequestRows, Kept, Own, Statements
<1>3. request' = [request EXCEPT ![r] = k]
  BY DEF Ignore
<1>4. QED
  BY <1>2, <1>3, RowStep

\* The action it was at has a result, true when it says applied.
LEMMA AdvanceStep ==
  ASSUME ReplayInv, Kept, NEW r \in Requests, NEW s \in Settled, Advance(r, s),
         request[r].item \in Actions, s = "applied" => done'[request[r].item] > 0
  PROVE  /\ request' \in [Requests -> RequestRows]
         /\ \A q \in Requests : RowInv(request'[q], done')
<1> DEFINE a == request[r].item
           rest == request[r].todo \ {a}
           q == [request[r] EXCEPT !.result[a] = s, !.todo = rest, !.outcome = "failed"]
<1>1. request[r] \in RequestRows /\ RowInv(request[r], done)
  BY DEF ReplayInv, TypeOK
<1>2. /\ q \in RequestRows /\ q.outcome = "failed" /\ rest \in SUBSET Actions
      /\ \A b \in Actions : q.result[b] = "applied" => done'[b] > 0
  BY <1>1 DEF RequestRows, RowInv, Kept, Settled
<1>3. CASE rest = {} /\ Ends(r, [q EXCEPT !.phase = "answer"])
  <2> DEFINE k == [q EXCEPT !.phase = "answer"]
  <2>1. k \in RequestRows /\ RowInv(k, done')
    BY <1>2 DEF RequestRows, RowInv, Phases, Own, Statements
  <2>2. QED
    BY <2>1, <1>3, EndsStep
<1>4. ASSUME NEW b \in rest, request' = [request EXCEPT ![r] = [q EXCEPT !.phase = "record", !.item = b]]
      PROVE  /\ request' \in [Requests -> RequestRows]
             /\ \A p \in Requests : RowInv(request'[p], done')
  <2> DEFINE k == [q EXCEPT !.phase = "record", !.item = b]
  <2>1. k \in RequestRows /\ RowInv(k, done')
    BY <1>2 DEF RequestRows, RowInv, Phases, Own, Statements
  <2>2. QED
    BY <2>1, <1>4, RowStep
<1>5. QED
  BY <1>3, <1>4 DEF Advance

\* What the phone and the ledger take for applied, when they change.
LEMMA TablesStep ==
  ASSUME ReplayInv, Kept,
         \A a \in Actions :
           \/ outbox'[a] = outbox[a]
           \/ outbox'[a] \in {"applied", "posted"} => done'[a] > 0,
         \A a \in Actions : ledger'[a] = ledger[a] \/ (ledger'[a] = "applied" => done'[a] > 0)
  PROVE  AppliedTookEffect'
BY DEF ReplayInv, AppliedTookEffect, Kept

LEMMA MarkStep ==
  ASSUME ReplayInv, Kept, NEW s \in [Actions -> Settled \cup {"none"}], Mark(s),
         \A a \in Actions : s[a] = "applied" => done[a] > 0
  PROVE  /\ outbox' \in [Actions -> OutboxStatuses]
         /\ \A a \in Actions : \/ outbox'[a] = outbox[a]
                               \/ outbox'[a] \in {"applied", "posted"} => done'[a] > 0
BY DEF Mark, ReplayInv, TypeOK, OutboxStatuses, Settled, Kept

LEMMA AllFailedMarks ==
  ASSUME NEW r \in Requests
  PROVE  /\ AllFailed(r) \in [Actions -> Settled \cup {"none"}]
         /\ \A a \in Actions : AllFailed(r)[a] # "applied"
BY DEF AllFailed, Settled

-----------------------------------------------------------------------------
LEMMA NextInv == ReplayInv /\ [Next]_vars => ReplayInv'
<1> SUFFICES ASSUME ReplayInv, [Next]_vars
             PROVE  ReplayInv'
  OBVIOUS
<1> USE ReplayConstants
<1> DEFINE RequestsKeep == /\ request' \in [Requests -> RequestRows]
                           /\ \A q \in Requests : RowInv(request'[q], done')
           RestKeep == /\ unguarded' \in [Actions -> Nat]
                       /\ faults' \in Nat /\ failures' \in Nat
<1>1. /\ TypeOK /\ AppliedTookEffect
      /\ \A r \in Requests : request[r] \in RequestRows /\ RowInv(request[r], done)
  BY DEF ReplayInv, TypeOK
<1>2. ASSUME done' = done
      PROVE  Kept
  BY <1>1, <1>2 DEF TypeOK, Kept
<1>3. ASSUME NEW r \in Requests, NEW a \in Actions, submit(a, r)
      PROVE  ReplayInv'
  <2>1. Kept
    BY <1>2, <1>3 DEF submit
  <2> DEFINE k == [Free EXCEPT !.phase = "direct", !.item = a, !.awaited = TRUE]
  <2>2. k \in RequestRows /\ RowInv(k, done')
    BY DEF Free, NoResult, RequestRows, RowInv, Phases, Own, Statements, Settled
  <2>3. RequestsKeep
    BY <2>1, <2>2, <1>3, RowStep DEF submit
  <2>4. outbox' \in [Actions -> OutboxStatuses] /\ ledger' = ledger
    BY <1>1, <1>3 DEF submit, TypeOK, OutboxStatuses
  <2>5. AppliedTookEffect'
    BY <1>1, <1>3, <2>1, TablesStep DEF submit, TypeOK
  <2>6. QED
    BY <1>1, <1>3, <2>1, <2>3, <2>4, <2>5 DEF submit, ReplayInv, TypeOK, Kept
<1>4. ASSUME NEW r \in Requests, StartDrain(r)
      PROVE  ReplayInv'
  <2>1. Kept
    BY <1>2, <1>4 DEF StartDrain
  <2>2. PICK B \in SUBSET Pending, a \in Actions :
          /\ Batch(B) /\ Oldest(a, B)
          /\ request' = [request EXCEPT ![r] = [Free EXCEPT !.phase = "record",
                                                  !.awaited = TRUE, !.todo = B, !.item = a]]
          /\ Unguarded({b \in B : Beside(b)})
    BY <1>4 DEF StartDrain
  <2> DEFINE k == [Free EXCEPT !.phase = "record", !.awaited = TRUE, !.todo = B, !.item = a]
  <2>3. k \in RequestRows /\ RowInv(k, done')
    BY DEF Free, NoResult, RequestRows, RowInv, Phases, Own, Statements, Settled, Pending
  <2>4. RequestsKeep
    BY <2>1, <2>2, <2>3, RowStep
  <2>5. unguarded' \in [Actions -> Nat]
    BY <2>2, <1>1, UnguardedType DEF TypeOK
  <2>6. outbox' = outbox /\ ledger' = ledger /\ faults' = faults /\ failures' = failures
    BY <1>4 DEF StartDrain
  <2>7. AppliedTookEffect'
    BY <2>1, <2>6, TablesStep
  <2>8. QED
    BY <1>1, <2>1, <2>4, <2>5, <2>6, <2>7 DEF ReplayInv, TypeOK, Kept
<1>5. ASSUME NEW r \in Requests, ServeDirect(r)
      PROVE  ReplayInv'
  <2>1. request[r].phase \in Own \cup Statements /\ request[r].item \in Actions
    BY <1>1, <1>5 DEF ServeDirect, At, RowInv, Own, Statements
  <2>2. Kept /\ RequestsKeep
    <3>1. CASE Effect(request[r].item) /\ Ends(r, [request[r] EXCEPT !.phase = "posted"])
      <4>1. Kept /\ done'[request[r].item] > 0
        BY <3>1, <2>1, <1>1, EffectKeeps DEF TypeOK
      <4>2. /\ [request[r] EXCEPT !.phase = "posted"] \in RequestRows
            /\ RowInv([request[r] EXCEPT !.phase = "posted"], done')
        BY <4>1, <2>1, GotoStep DEF Phases, Own
      <4>3. QED
        BY <4>1, <4>2, <3>1, EndsStep
    <3>2. CASE Ends(r, [request[r] EXCEPT !.phase = "refused"]) /\ UNCHANGED done
      <4>1. Kept
        BY <3>2, <1>2
      <4>2. /\ [request[r] EXCEPT !.phase = "refused"] \in RequestRows
            /\ RowInv([request[r] EXCEPT !.phase = "refused"], done')
        BY <4>1, <2>1, GotoStep DEF Phases, Own
      <4>3. QED
        BY <4>1, <4>2, <3>2, EndsStep
    <3>3. QED
      BY <3>1, <3>2, <1>5 DEF ServeDirect
  <2>3. AppliedTookEffect'
    BY <1>5, <2>2, TablesStep DEF ServeDirect
  <2>4. QED
    BY <1>1, <1>5, <2>2, <2>3 DEF ServeDirect, ReplayInv, TypeOK, Kept
<1>6. ASSUME NEW r \in Requests, ReceiveDirect(r)
      PROVE  ReplayInv'
  <2>1. Kept
    BY <1>2, <1>6 DEF ReceiveDirect
  <2>2. /\ request[r].item \in Actions
        /\ At(r, "posted") => done[request[r].item] > 0
    BY <1>1, <1>6 DEF ReceiveDirect, At, RowInv, Own
  <2>3. RequestsKeep
    BY <2>1, <1>6, ReleaseStep DEF ReceiveDirect
  <2>4. outbox' \in [Actions -> OutboxStatuses]
    BY <1>1, <1>6 DEF ReceiveDirect, TypeOK, OutboxStatuses
  <2>5. AppliedTookEffect'
    BY <1>1, <1>6, <2>1, <2>2, TablesStep DEF ReceiveDirect, TypeOK, Kept
  <2>6. QED
    BY <1>1, <1>6, <2>1, <2>3, <2>4, <2>5 DEF ReceiveDirect, ReplayInv, TypeOK, Kept
<1>7. ASSUME NEW r \in Requests, GiveUpDirect(r)
      PROVE  ReplayInv'
  <2>1. Kept
    BY <1>2, <1>7 DEF GiveUpDirect
  <2>2. RequestsKeep
    BY <2>1, <1>7, ReleaseStep, IgnoreStep DEF GiveUpDirect
  <2>3. /\ outbox' \in [Actions -> OutboxStatuses]
        /\ \A a \in Actions : outbox'[a] = outbox[a] \/ outbox'[a] = "pending"
    BY <1>1, <1>7 DEF GiveUpDirect, TypeOK, OutboxStatuses
  <2>4. unguarded' \in [Actions -> Nat]
    BY <1>1, <1>7, UnguardedType DEF GiveUpDirect, TypeOK
  <2>5. AppliedTookEffect'
    BY <1>7, <2>1, <2>3, TablesStep DEF GiveUpDirect
  <2>6. faults' \in Nat /\ failures' = failures /\ ledger' = ledger
    BY <1>1, <1>7 DEF GiveUpDirect, TypeOK
  <2>7. QED
    BY <1>1, <2>1, <2>2, <2>3, <2>4, <2>5, <2>6 DEF ReplayInv, TypeOK, Kept
<1>8. ASSUME NEW r \in Requests, Record(r)
      PROVE  ReplayInv'
  <2>1. Kept /\ request[r].phase \in Own \cup Statements
    BY <1>2, <1>8 DEF Record, At, Statements
  <2> DEFINE k == [request[r] EXCEPT !.phase = "check"]
  <2>2. k \in RequestRows /\ RowInv(k, done')
    BY <2>1, GotoStep DEF Phases, Statements
  <2>3. RequestsKeep
    BY <2>1, <2>2, <1>8, RowStep DEF Record, Goto
  <2>4. /\ ledger' \in [Actions -> LedgerStatuses]
        /\ \A a \in Actions : ledger'[a] = ledger[a] \/ ledger'[a] = "pending"
    BY <1>1, <1>8 DEF Record, TypeOK, LedgerStatuses
  <2>5. AppliedTookEffect'
    BY <1>8, <2>1, <2>4, TablesStep DEF Record
  <2>6. QED
    BY <1>1, <1>8, <2>1, <2>3, <2>4, <2>5 DEF Record, ReplayInv, TypeOK, Kept
<1>9. ASSUME NEW r \in Requests, Check(r)
      PROVE  ReplayInv'
  <2>1. /\ Kept /\ request[r].phase \in Own \cup Statements
        /\ request[r].item \in Actions
    BY <1>1, <1>2, <1>9 DEF Check, At, Statements, RowInv
  <2>2. RequestsKeep
    <3>1. CASE ledger[request[r].item] \in Settled
      <4>1. ledger[request[r].item] = "applied" => done'[request[r].item] > 0
        BY <1>1, <2>1 DEF AppliedTookEffect, Kept
      <4>2. Advance(r, ledger[request[r].item])
        BY <3>1, <1>9 DEF Check
      <4>3. QED
        BY <3>1, <2>1, <4>1, <4>2, AdvanceStep
    <3>2. CASE ledger[request[r].item] \notin Settled
      <4> DEFINE k == [request[r] EXCEPT !.phase = "apply"]
      <4>1. k \in RequestRows /\ RowInv(k, done')
        BY <2>1, GotoStep DEF Phases, Statements
      <4>2. QED
        BY <3>2, <2>1, <4>1, <1>9, RowStep DEF Check, Goto
    <3>3. QED
      BY <3>1, <3>2
  <2>3. outbox' = outbox /\ ledger' = ledger /\ UNCHANGED <<unguarded, faults, failures>>
    BY <1>9 DEF Check
  <2>4. AppliedTookEffect'
    BY <2>1, <2>3, TablesStep
  <2>5. QED
    BY <1>1, <2>1, <2>2, <2>3, <2>4 DEF ReplayInv, TypeOK, Kept
<1>10. ASSUME NEW r \in Requests, Apply(r)
       PROVE  ReplayInv'
  <2>1. request[r].phase \in Own \cup Statements /\ request[r].item \in Actions
    BY <1>1, <1>10 DEF Apply, At, Statements, RowInv
  <2>2. ASSUME NEW o \in Settled, Outcome(r, o), Kept, o = "applied" => done'[request[r].item] > 0
        PROVE  RequestsKeep
    <3> DEFINE k == [request[r] EXCEPT !.phase = "settle", !.outcome = o]
    <3>1. k \in RequestRows /\ RowInv(k, done')
      BY <1>1, <2>1, <2>2, ZenonT(30) DEF RequestRows, RowInv, Kept, Phases, Own, Statements
    <3>2. request' = [request EXCEPT ![r] = k]
      BY <1>1, <2>2 DEF Outcome
    <3>3. QED
      BY <3>1, <3>2, <2>2, RowStep
  <2>3. Kept /\ RequestsKeep /\ failures' \in Nat
    <3>1. CASE Effect(request[r].item) /\ Outcome(r, "applied") /\ UNCHANGED failures
      <4>1. Kept /\ done'[request[r].item] > 0
        BY <3>1, <2>1, <1>1, EffectKeeps DEF TypeOK
      <4>2. QED
        BY <4>1, <3>1, <2>2, <1>1 DEF Settled, TypeOK
    <3>2. CASE /\ failures' = failures + 1 /\ UNCHANGED done
               /\ \E outcome \in {"failed", "skipped"} : Outcome(r, outcome)
      <4>1. Kept
        BY <3>2, <1>2
      <4>2. QED
        BY <4>1, <3>2, <2>2, <1>1 DEF Settled, TypeOK
    <3>3. QED
      BY <3>1, <3>2, <1>10 DEF Apply
  <2>4. outbox' = outbox /\ ledger' = ledger /\ UNCHANGED <<unguarded, faults>>
    BY <1>10 DEF Apply
  <2>5. AppliedTookEffect'
    BY <2>3, <2>4, TablesStep
  <2>6. QED
    BY <1>1, <2>3, <2>4, <2>5 DEF ReplayInv, TypeOK, Kept
<1>11. ASSUME NEW r \in Requests, Settle(r)
       PROVE  ReplayInv'
  <2>1. /\ Kept /\ request[r].item \in Actions /\ request[r].outcome \in Settled
        /\ request[r].outcome = "applied" => done'[request[r].item] > 0
    BY <1>1, <1>2, <1>11 DEF Settle, At, Statements, RowInv, RequestRows
  <2>2. RequestsKeep
    BY <2>1, <1>11, AdvanceStep DEF Settle
  <2>3. /\ ledger' \in [Actions -> LedgerStatuses]
        /\ \A a \in Actions : ledger'[a] = ledger[a] \/ (ledger'[a] = "applied" => done'[a] > 0)
    BY <1>1, <1>11, <2>1 DEF Settle, TypeOK, LedgerStatuses
  <2>4. AppliedTookEffect'
    BY <1>11, <2>1, <2>3, TablesStep DEF Settle
  <2>5. QED
    BY <1>1, <1>11, <2>1, <2>2, <2>3, <2>4 DEF Settle, ReplayInv, TypeOK, Kept
<1>12. ASSUME NEW r \in Requests, Die(r)
       PROVE  ReplayInv'
  <2>1. Kept /\ request[r].phase \in Own \cup Statements
    BY <1>2, <1>12 DEF Die, Own, Statements
  <2> DEFINE p == IF request[r].phase = "direct" THEN "refused" ELSE "dead"
             k == [request[r] EXCEPT !.phase = p]
  <2>2. k \in RequestRows /\ RowInv(k, done')
    BY <2>1, GotoStep DEF Phases, Own
  <2>3. Ends(r, k)
    BY <1>1, <1>12 DEF Die, RequestRows
  <2>4. RequestsKeep
    BY <2>1, <2>2, <2>3, EndsStep
  <2>5. unguarded' \in [Actions -> Nat] /\ faults' \in Nat
    BY <1>1, <1>12, UnguardedType DEF Die, TypeOK
  <2>6. outbox' = outbox /\ ledger' = ledger /\ failures' = failures
    BY <1>12 DEF Die
  <2>7. AppliedTookEffect'
    BY <2>1, <2>6, TablesStep
  <2>8. QED
    BY <1>1, <2>1, <2>4, <2>5, <2>6, <2>7 DEF ReplayInv, TypeOK, Kept
<1>13. ASSUME NEW r \in Requests, Receive(r)
       PROVE  ReplayInv'
  <2>1. Kept
    BY <1>2, <1>13 DEF Receive
  <2> DEFINE k == [Free EXCEPT !.phase = "prune", !.awaited = TRUE]
  <2>2. k \in RequestRows /\ RowInv(k, done')
    BY DEF Free, NoResult, RequestRows, RowInv, Phases, Own, Statements, Settled
  <2>3. RequestsKeep
    BY <2>1, <2>2, <1>13, RowStep DEF Receive
  <2>4. /\ request[r].result \in [Actions -> Settled \cup {"none"}]
        /\ \A a \in Actions : request[r].result[a] = "applied" => done[a] > 0
    BY <1>1 DEF RequestRows, RowInv
  <2>5. /\ outbox' \in [Actions -> OutboxStatuses]
        /\ \A a \in Actions : \/ outbox'[a] = outbox[a]
                              \/ outbox'[a] \in {"applied", "posted"} => done'[a] > 0
    BY <2>1, <2>4, <1>13, MarkStep DEF Receive
  <2>6. AppliedTookEffect'
    BY <1>13, <2>1, <2>5, TablesStep DEF Receive
  <2>7. QED
    BY <1>1, <1>13, <2>1, <2>3, <2>5, <2>6 DEF Receive, ReplayInv, TypeOK, Kept
<1>14. ASSUME NEW r \in Requests, Prune(r)
       PROVE  ReplayInv'
  <2>1. Kept
    BY <1>2, <1>14 DEF Prune
  <2>2. RequestsKeep
    BY <2>1, <1>14, ReleaseStep DEF Prune
  <2>3. /\ outbox' \in [Actions -> OutboxStatuses]
        /\ \A a \in Actions : outbox'[a] = outbox[a] \/ outbox'[a] = "gone"
    BY <1>1, <1>14 DEF Prune, TypeOK, OutboxStatuses
  <2>4. AppliedTookEffect'
    BY <1>14, <2>1, <2>3, TablesStep DEF Prune
  <2>5. QED
    BY <1>1, <1>14, <2>1, <2>2, <2>3, <2>4 DEF Prune, ReplayInv, TypeOK, Kept
<1>15. ASSUME NEW r \in Requests, HungUp(r) \/ GiveUp(r)
       PROVE  ReplayInv'
  <2>1. Kept
    BY <1>2, <1>15 DEF HungUp, GiveUp
  <2>2. RequestsKeep
    BY <2>1, <1>15, ReleaseStep, IgnoreStep DEF HungUp, GiveUp
  <2>3. Mark(AllFailed(r)) /\ ledger' = ledger /\ UNCHANGED <<unguarded, failures>>
    BY <1>15 DEF HungUp, GiveUp
  <2>4. /\ outbox' \in [Actions -> OutboxStatuses]
        /\ \A a \in Actions : \/ outbox'[a] = outbox[a]
                              \/ outbox'[a] \in {"applied", "posted"} => done'[a] > 0
    BY <2>1, <2>3, AllFailedMarks, MarkStep
  <2>5. faults' \in Nat
    BY <1>1, <1>15 DEF HungUp, GiveUp, TypeOK
  <2>6. AppliedTookEffect'
    BY <2>1, <2>3, <2>4, TablesStep
  <2>7. QED
    BY <1>1, <2>1, <2>2, <2>3, <2>4, <2>5, <2>6 DEF ReplayInv, TypeOK, Kept
<1>16. CASE UNCHANGED vars
  BY <1>16, <1>1 DEF vars, ReplayInv, TypeOK, AppliedTookEffect
<1>17. QED
  BY <1>3, <1>4, <1>5, <1>6, <1>7, <1>8, <1>9, <1>10, <1>11, <1>12, <1>13, <1>14, <1>15, <1>16
     DEF Next, Serve, Listen

-----------------------------------------------------------------------------
LEMMA SpecInv == Spec => []ReplayInv
<1>1. QED
  BY InitInv, NextInv, PTL DEF Spec

\* The variables hold what the phone's outbox, the ledger of replays and the tables
\* can hold.
THEOREM TypeCorrect == Spec => []TypeOK
<1>1. ReplayInv => TypeOK
  BY DEF ReplayInv
<1>2. QED
  BY <1>1, SpecInv, PTL

\* replayOne and drain, whatever dies, is lost or runs twice: an action that the ledger,
\* or the phone, takes for applied has left its rows in the tables.
THEOREM AppliedTookEffectHolds == Spec => []AppliedTookEffect
<1>1. ReplayInv => AppliedTookEffect
  BY DEF ReplayInv
<1>2. QED
  BY <1>1, SpecInv, PTL

-----------------------------------------------------------------------------
(***************************************************************************)
(* Retries enter once.  What may still enter an inspection is counted: the *)
(* requests that will, unless they die, and the phone, when it may send    *)
(* the action to an API at which neither a row nor a request would stop    *)
(* it.  A step that adds to the count is one that "unguarded" counts.      *)
(***************************************************************************)
Busy(k, a) == k.phase \in Statements /\ a \in k.todo

\* A request, of row k, will enter a, whose status in the ledger is l.
WillEnter(k, l, a) ==
  \/ k.phase \in {"direct", "refused"} /\ k.item = a
  \/ /\ Busy(k, a)
     /\ \/ k.phase = "apply" /\ k.item = a
        \/ l \notin Settled /\ ~(k.phase = "settle" /\ k.item = a /\ k.outcome = "applied")

Entering(a) == {r \in Requests : WillEnter(request[r], ledger[a], a)}

Waits(a) ==
  /\ outbox[a] \notin {"posting", "posted"} /\ ledger[a] \notin Settled
  /\ \A r \in Requests : ~Busy(request[r], a)

One(b) == IF b THEN 1 ELSE 0
Bounded(a) == done[a] + Cardinality(Entering(a)) + One(Waits(a)) <= 1 + unguarded[a]

\* What a call of its own and a batch are.
Shaped(k) ==
  /\ k.phase \in Own => k.todo = {} /\ k.result = NoResult
  /\ k.phase \in {"posted", "refused"} => k.awaited
  /\ k.phase \in Statements => k.item \in k.todo

Asks(k) == k.phase \in Own /\ k.awaited
Carries(k, a) == a \in k.todo \/ k.result[a] # "none"

\* The phone has left an action in the outbox before a batch or the ledger had it.
Queued(a) == outbox[a] \notin {"none", "posting", "posted"}
PhoneInv ==
  /\ \A r \in Requests : Asks(request[r]) => outbox[request[r].item] = "posting"
  /\ \A r, q \in Requests :
       Asks(request[r]) /\ Asks(request[q]) /\ request[r].item = request[q].item => r = q
  /\ \A a \in Actions : ledger[a] # "none" => Queued(a)
  /\ \A r \in Requests, a \in Actions : Carries(request[r], a) => Queued(a)

OnceInv ==
  /\ ReplayInv /\ (\A r \in Requests : Shaped(request[r])) /\ PhoneInv
  /\ \A a \in Inspections : Bounded(a)

-----------------------------------------------------------------------------
LEMMA CountMember ==
  ASSUME NEW S \in SUBSET Requests, NEW r \in Requests
  PROVE  /\ Cardinality(S) \in Nat /\ Cardinality(S \ {r}) \in Nat
         /\ Cardinality(S) = Cardinality(S \ {r}) + One(r \in S)
<1>1. IsFiniteSet(S) /\ IsFiniteSet(S \ {r})
  BY ReplayConstants, FS_Subset, FS_RemoveElement
<1>2. /\ Cardinality(S) \in Nat /\ Cardinality(S \ {r}) \in Nat
      /\ Cardinality(S \ {r}) = IF r \in S THEN Cardinality(S) - 1 ELSE Cardinality(S)
  BY <1>1, FS_CardinalityType, FS_RemoveElement
<1> QED
  BY <1>2 DEF One

LEMMA Typed ==
  ASSUME OnceInv
  PROVE  /\ \A a \in Actions : done[a] \in Nat /\ unguarded[a] \in Nat
         /\ \A r \in Requests : request[r] \in RequestRows
         /\ DOMAIN request = Requests /\ Inspections \subseteq Actions
BY ReplayConstants DEF OnceInv, ReplayInv, TypeOK

\* One request's row changes.
LEMMA CountStep ==
  ASSUME OnceInv, ReplayInv', NEW a \in Inspections, NEW r \in Requests,
         \A q \in Requests \ {r} :
           WillEnter(request'[q], ledger'[a], a) => WillEnter(request[q], ledger[a], a),
         done'[a] + One(WillEnter(request'[r], ledger'[a], a)) + One(Waits(a)') + unguarded[a]
           <= done[a] + One(WillEnter(request[r], ledger[a], a)) + One(Waits(a)) + unguarded'[a]
  PROVE  Bounded(a)'
<1> DEFINE E == {q \in Requests : WillEnter(request[q], ledger[a], a)}
           F == {q \in Requests : WillEnter(request'[q], ledger'[a], a)}
<1>1. E \in SUBSET Requests /\ F \in SUBSET Requests /\ F \ {r} \subseteq E \ {r}
  OBVIOUS
<1>2. (r \in E <=> WillEnter(request[r], ledger[a], a))
      /\ (r \in F <=> WillEnter(request'[r], ledger'[a], a))
  OBVIOUS
<1>3. done[a] + Cardinality(E) + One(Waits(a)) <= 1 + unguarded[a]
  BY DEF OnceInv, Bounded, Entering
<1>4. Bounded(a)' <=> done'[a] + Cardinality(F) + One(Waits(a)') <= 1 + unguarded'[a]
  BY DEF Bounded, Entering
<1> HIDE DEF E, F
<1>5. Cardinality(F \ {r}) <= Cardinality(E \ {r})
  <2>1. IsFiniteSet(E \ {r})
    BY <1>1, ReplayConstants, FS_Subset, FS_RemoveElement
  <2> QED
    BY <1>1, <2>1, FS_Subset
<1>6. /\ Cardinality(E) = Cardinality(E \ {r}) + One(WillEnter(request[r], ledger[a], a))
      /\ Cardinality(F) = Cardinality(F \ {r}) + One(WillEnter(request'[r], ledger'[a], a))
      /\ Cardinality(E \ {r}) \in Nat /\ Cardinality(F \ {r}) \in Nat
  BY <1>1, <1>2, CountMember DEF One
<1>7. /\ done[a] \in Nat /\ unguarded[a] \in Nat /\ done'[a] \in Nat /\ unguarded'[a] \in Nat
      /\ \A b : One(b) \in Nat
  BY ReplayConstants DEF OnceInv, ReplayInv, TypeOK, One
<1> DEFINE w == One(WillEnter(request[r], ledger[a], a))
           v == One(WillEnter(request'[r], ledger'[a], a))
           m == One(Waits(a))
           n == One(Waits(a)')
<1>8. w \in Nat /\ v \in Nat /\ m \in Nat /\ n \in Nat
  BY <1>7
<1> HIDE DEF w, v, m, n
<1> QED
  BY <1>3, <1>4, <1>5, <1>6, <1>7, <1>8 DEF w, v, m, n

\* What the step of request r, whose row becomes k, adds to the count of an inspection.
Adds(r, k, a) ==
  done'[a] + One(WillEnter(k, ledger'[a], a))
    + One(ledger'[a] \notin Settled /\ Busy(request[r], a) /\ ~Busy(k, a)) + unguarded[a]
  <= done[a] + One(WillEnter(request[r], ledger[a], a)) + unguarded'[a]

LEMMA AddsStep ==
  ASSUME OnceInv, ReplayInv', NEW r \in Requests, NEW k, request' = [request EXCEPT ![r] = k],
         NEW a \in Inspections,
         outbox[a] \in {"posting", "posted"} => outbox'[a] \in {"posting", "posted"},
         ledger[a] \in Settled => ledger'[a] \in Settled, Adds(r, k, a)
  PROVE  Bounded(a)'
<1>1. request'[r] = k /\ \A q \in Requests \ {r} : request'[q] = request[q]
  BY Typed
<1>2. ASSUME NEW q \in Requests \ {r}, WillEnter(request'[q], ledger'[a], a)
      PROVE  WillEnter(request[q], ledger[a], a)
  BY <1>1, <1>2 DEF WillEnter
<1> DEFINE freed == ledger'[a] \notin Settled /\ Busy(request[r], a) /\ ~Busy(k, a)
<1>3. Waits(a)' => Waits(a) \/ freed
  BY <1>1 DEF Waits
<1>4. /\ done[a] \in Nat /\ unguarded[a] \in Nat /\ done'[a] \in Nat /\ unguarded'[a] \in Nat
      /\ \A b : One(b) \in Nat
  BY ReplayConstants DEF OnceInv, ReplayInv, TypeOK, One
<1>5. One(Waits(a)') <= One(Waits(a)) + One(freed)
  <2> HIDE DEF freed
  <2> QED
    BY <1>3 DEF One
<1> DEFINE w == One(WillEnter(request[r], ledger[a], a))
           v == One(WillEnter(request'[r], ledger'[a], a))
           m == One(Waits(a))
           n == One(Waits(a)')
           f == One(freed)
<1>6. w \in Nat /\ v \in Nat /\ m \in Nat /\ n \in Nat /\ f \in Nat
  BY <1>4
<1>7. done'[a] + v + f + unguarded[a] <= done[a] + w + unguarded'[a] /\ n <= m + f
  BY <1>1, <1>5 DEF Adds
<1>8. done'[a] + v + n + unguarded[a] <= done[a] + w + m + unguarded'[a]
  <2> HIDE DEF w, v, m, n, f
  <2> QED
    BY <1>4, <1>6, <1>7
<1> QED
  BY <1>2, <1>8, CountStep

-----------------------------------------------------------------------------
\* The phone's side, when a request goes on and the phone leaves what it waits for.
OutboxKept == \A a \in Actions : IF Queued(a) THEN Queued(a)' ELSE outbox'[a] = outbox[a]

LedgerKept(r) ==
  \A a \in Actions :
    /\ ledger'[a] # "none" => ledger[a] # "none" \/ Carries(request[r], a)
    /\ ledger[a] \in Settled => ledger'[a] \in Settled

Continues(r, k) ==
  /\ Asks(k) => Asks(request[r]) /\ k.item = request[r].item
  /\ \A a \in Actions : Carries(k, a) => Carries(request[r], a)

LEMMA PhoneStep ==
  ASSUME OnceInv, NEW r \in Requests, NEW k, request' = [request EXCEPT ![r] = k],
         Continues(r, k), OutboxKept, LedgerKept(r)
  PROVE  PhoneInv'
<1>1. request'[r] = k /\ \A q \in Requests \ {r} : request'[q] = request[q]
  BY Typed
<1>2. PhoneInv /\ \A q \in Requests : Asks(request[q]) => request[q].item \in Actions
  BY DEF OnceInv, ReplayInv, RowInv, Asks
<1>3. \A q \in Requests :
        Asks(request'[q]) => Asks(request[q]) /\ request'[q].item = request[q].item
  BY <1>1 DEF Continues
<1>4. \A q \in Requests : Asks(request'[q]) => outbox'[request'[q].item] = "posting"
  BY <1>2, <1>3 DEF PhoneInv, OutboxKept, Queued
<1>5. \A q, p \in Requests :
        Asks(request'[q]) /\ Asks(request'[p]) /\ request'[q].item = request'[p].item => q = p
  BY <1>2, <1>3 DEF PhoneInv
<1>6. \A a \in Actions : ledger'[a] # "none" => Queued(a)'
  BY <1>2 DEF PhoneInv, LedgerKept, OutboxKept
<1>7. \A q \in Requests, a \in Actions : Carries(request'[q], a) => Queued(a)'
  BY <1>1, <1>2 DEF PhoneInv, Continues, OutboxKept
<1> QED
  BY <1>4, <1>5, <1>6, <1>7 DEF PhoneInv

LEMMA ShapedStep ==
  ASSUME OnceInv, NEW r \in Requests, NEW k, Shaped(k), request' = [request EXCEPT ![r] = k]
  PROVE  \A q \in Requests : Shaped(request'[q])
BY Typed DEF OnceInv

\* A request goes on.
LEMMA GoesOnce ==
  ASSUME OnceInv, ReplayInv', NEW r \in Requests, NEW k, request' = [request EXCEPT ![r] = k],
         Shaped(k), Continues(r, k), OutboxKept, LedgerKept(r),
         \A a \in Inspections : Adds(r, k, a)
  PROVE  OnceInv'
<1>1. PhoneInv' /\ \A q \in Requests : Shaped(request'[q])
  BY PhoneStep, ShapedStep
<1>2. ASSUME NEW a \in Inspections
      PROVE  Bounded(a)'
  <2>1. a \in Actions
    BY Typed
  <2>2. outbox[a] \in {"posting", "posted"} => outbox'[a] \in {"posting", "posted"}
    BY <2>1 DEF OutboxKept, Queued
  <2>3. ledger[a] \in Settled => ledger'[a] \in Settled
    BY <2>1 DEF LedgerKept
  <2> QED
    BY <2>2, <2>3, AddsStep
<1> QED
  BY <1>1, <1>2 DEF OnceInv

\* It ends where it would wait for the phone, should the phone not listen.
LEMMA FreeFacts ==
  /\ Shaped(Free) /\ ~Asks(Free) /\ (\A a \in Actions : ~Carries(Free, a))
  /\ \A a, l : ~WillEnter(Free, l, a) /\ ~Busy(Free, a)
BY DEF Shaped, Asks, Carries, WillEnter, Busy, Free, NoResult, Own, Statements

LEMMA EndsOnce ==
  ASSUME OnceInv, ReplayInv', NEW r \in Requests, NEW k, Ends(r, k), k.phase \notin Statements,
         k.awaited => Shaped(k), Continues(r, k), OutboxKept, LedgerKept(r),
         \A a \in Inspections : Adds(r, k, a)
  PROVE  OnceInv'
<1>1. CASE k.awaited
  <2>1. request' = [request EXCEPT ![r] = k]
    BY <1>1 DEF Ends
  <2> QED
    BY <1>1, <2>1, GoesOnce
<1>2. CASE ~k.awaited
  <2>1. request' = [request EXCEPT ![r] = Free]
    BY <1>2 DEF Ends
  <2>2. Continues(r, Free)
    BY FreeFacts DEF Continues
  <2>3. ASSUME NEW a \in Inspections
        PROVE  Adds(r, Free, a)
    <3>1. Adds(r, k, a) /\ ~Busy(k, a) /\ ~Busy(Free, a) /\ ~WillEnter(Free, ledger'[a], a)
      BY FreeFacts DEF Busy
    <3>2. /\ done[a] \in Nat /\ unguarded[a] \in Nat
          /\ done'[a] \in Nat /\ unguarded'[a] \in Nat
      BY ReplayConstants DEF OnceInv, ReplayInv, TypeOK
    <3> QED
      BY <3>1, <3>2 DEF Adds, One
  <2> QED
    BY <2>1, <2>2, <2>3, FreeFacts, GoesOnce
<1> QED
  BY <1>1, <1>2

LEMMA ReleaseOnce ==
  ASSUME OnceInv, ReplayInv', NEW r \in Requests, Release(r), OutboxKept, UNCHANGED ledger,
         request[r].phase \notin Statements, UNCHANGED <<done, unguarded>>
  PROVE  OnceInv'
<1>1. request' = [request EXCEPT ![r] = Free] /\ Continues(r, Free) /\ LedgerKept(r)
  BY FreeFacts DEF Release, Continues, LedgerKept
<1>2. ASSUME NEW a \in Inspections
      PROVE  Adds(r, Free, a)
  <2>1. ~Busy(request[r], a) /\ ~WillEnter(Free, ledger'[a], a)
    BY FreeFacts DEF Busy
  <2>2. done[a] \in Nat /\ unguarded[a] \in Nat
    BY Typed
  <2> QED
    BY <2>1, <2>2 DEF Adds, One
<1> QED
  BY <1>1, <1>2, FreeFacts, GoesOnce


-----------------------------------------------------------------------------
LEMMA InitOnce == Init => OnceInv
<1> SUFFICES ASSUME Init
             PROVE  OnceInv
  OBVIOUS
<1>1. ReplayInv
  BY InitInv
<1>2. \A r \in Requests : request[r] = Free
  BY DEF Init
<1>3. \A r \in Requests : Shaped(request[r])
  BY <1>2, FreeFacts
<1>4. PhoneInv
  BY <1>2, FreeFacts DEF PhoneInv, Init
<1>5. ASSUME NEW a \in Inspections
      PROVE  Bounded(a)
  <2>1. Entering(a) = {}
    BY <1>2, FreeFacts DEF Entering
  <2>2. Cardinality(Entering(a)) = 0
    BY <2>1, FS_EmptySet
  <2>3. done[a] = 0 /\ unguarded[a] = 0
    BY ReplayConstants DEF Init
  <2> QED
    BY <2>2, <2>3 DEF Bounded, One
<1> QED
  BY <1>1, <1>3, <1>4, <1>5 DEF OnceInv

\* A step that adds nothing to the count.
LEMMA Calm ==
  ASSUME OnceInv, NEW r \in Requests, NEW k, NEW a \in Inspections,
         done'[a] = done[a], unguarded'[a] = unguarded[a],
         WillEnter(k, ledger'[a], a) => WillEnter(request[r], ledger[a], a),
         ledger'[a] \in Settled \/ (Busy(request[r], a) => Busy(k, a))
  PROVE  Adds(r, k, a)
<1>1. done[a] \in Nat /\ unguarded[a] \in Nat
  BY Typed
<1> QED
  BY <1>1 DEF Adds, One

\* A statement on an action that leaves it in the batch.
LEMMA StayOnce ==
  ASSUME OnceInv, ReplayInv', NEW r \in Requests, NEW k, request' = [request EXCEPT ![r] = k],
         request[r].phase \in Statements, k.phase \in Statements, k.item = request[r].item,
         k.todo = request[r].todo, k.result = request[r].result,
         UNCHANGED outbox, LedgerKept(r), \A a \in Inspections : Adds(r, k, a)
  PROVE  OnceInv'
<1>1. Shaped(request[r])
  BY DEF OnceInv
<1>2. Shaped(k)
  BY <1>1 DEF Shaped, Own, Statements
<1>3. Continues(r, k)
  BY DEF Continues, Asks, Carries, Own, Statements
<1>4. OutboxKept
  BY DEF OutboxKept, Queued
<1> QED
  BY <1>2, <1>3, <1>4, GoesOnce

LEMMA RecordOnceInv ==
  ASSUME OnceInv, ReplayInv', NEW r \in Requests, Record(r)
  PROVE  OnceInv'
<1> DEFINE k == [request[r] EXCEPT !.phase = "check"]
           b == request[r].item
<1>1. request[r] \in RequestRows /\ Shaped(request[r]) /\ ReplayInv
  BY Typed DEF OnceInv
<1>2. request[r].phase = "record" /\ b \in request[r].todo /\ b \in Actions
  BY <1>1 DEF Record, At, Shaped, Statements, RequestRows
<1>3. /\ k.phase = "check" /\ k.item = b /\ k.todo = request[r].todo
      /\ k.result = request[r].result /\ k.outcome = request[r].outcome
      /\ request' = [request EXCEPT ![r] = k]
  BY <1>1 DEF Record, Goto, RequestRows
<1>4. \A a \in Actions : /\ a # b => ledger'[a] = ledger[a]
                         /\ ledger'[b] = IF ledger[b] = "none" THEN "pending" ELSE ledger[b]
  BY <1>1, <1>2 DEF Record, ReplayInv, TypeOK
<1>5. LedgerKept(r)
  BY <1>2, <1>4 DEF LedgerKept, Carries, Settled
<1>6. ASSUME NEW a \in Inspections
      PROVE  Adds(r, k, a)
  <2>1. a \in Actions /\ done'[a] = done[a] /\ unguarded'[a] = unguarded[a]
    BY Typed DEF Record
  <2>2. ledger'[a] \in Settled <=> ledger[a] \in Settled
    BY <2>1, <1>2, <1>4 DEF Settled
  <2> HIDE DEF k, b
  <2>3. WillEnter(k, ledger'[a], a) => WillEnter(request[r], ledger[a], a)
    BY <1>2, <1>3, <2>2 DEF WillEnter, Busy, Statements
  <2>4. Busy(request[r], a) => Busy(k, a)
    BY <1>3 DEF Busy, Statements
  <2> QED
    BY <2>1, <2>3, <2>4, Calm
<1> QED
  BY <1>2, <1>3, <1>5, <1>6, StayOnce DEF Record, Statements

\* The action a request was at has a result and leaves the batch.
LEMMA AdvanceOnce ==
  ASSUME OnceInv, ReplayInv', NEW r \in Requests, NEW s \in Settled, Advance(r, s),
         request[r].phase \in {"check", "settle"}, UNCHANGED <<outbox, done, unguarded>>,
         ledger' = [ledger EXCEPT ![request[r].item] = s]
  PROVE  OnceInv'
<1> DEFINE b == request[r].item
           rest == request[r].todo \ {b}
           q == [request[r] EXCEPT !.result[b] = s, !.todo = rest, !.outcome = "failed"]
<1>1. request[r] \in RequestRows /\ Shaped(request[r]) /\ ReplayInv
  BY Typed DEF OnceInv
<1>2. b \in request[r].todo /\ b \in Actions
  BY <1>1 DEF Shaped, Statements, RequestRows
<1>3. /\ b \in Actions => ledger'[b] = s
      /\ \A a \in Actions : a # b => ledger'[a] = ledger[a]
  BY <1>1 DEF ReplayInv, TypeOK
<1>4. LedgerKept(r) /\ OutboxKept
  BY <1>2, <1>3 DEF LedgerKept, Carries, OutboxKept, Queued
<1>5. ASSUME NEW k, k.todo = rest, k.result = q.result, k.phase \notin Own
      PROVE  Continues(r, k)
  <2>1. \A a \in Actions : a # b => k.result[a] = request[r].result[a]
    BY <1>1, <1>5 DEF RequestRows
  <2> QED
    BY <1>2, <1>5, <2>1 DEF Continues, Asks, Carries
<1>6. ASSUME NEW k, k.todo = rest, k.phase = "record" \/ (k.phase = "answer" /\ rest = {}),
             NEW a \in Inspections
      PROVE  Adds(r, k, a)
  <2>1. a \in Actions /\ done'[a] = done[a] /\ unguarded'[a] = unguarded[a]
    BY Typed
  <2>2. WillEnter(k, ledger'[a], a) => WillEnter(request[r], ledger[a], a)
    BY <2>1, <1>3, <1>6 DEF WillEnter, Busy, Statements
  <2>3. ledger'[a] \in Settled \/ (Busy(request[r], a) => Busy(k, a))
    BY <2>1, <1>2, <1>3, <1>6 DEF Busy, Statements
  <2> QED
    BY <2>1, <2>2, <2>3, Calm
<1>7. CASE rest = {} /\ Ends(r, [q EXCEPT !.phase = "answer"])
  <2> DEFINE k == [q EXCEPT !.phase = "answer"]
  <2>1. k.phase = "answer" /\ k.todo = rest /\ k.result = q.result
    BY <1>1 DEF RequestRows
  <2>2. Ends(r, k) /\ rest = {}
    BY <1>7
  <2> HIDE DEF k, q, rest
  <2>3. Shaped(k) /\ k.phase \notin Statements /\ k.phase \notin Own
    BY <2>1 DEF Shaped, Own, Statements
  <2> QED
    BY <1>4, <1>5, <1>6, <2>1, <2>2, <2>3, EndsOnce
<1>8. ASSUME NEW c \in rest,
             request' = [request EXCEPT ![r] = [q EXCEPT !.phase = "record", !.item = c]]
      PROVE  OnceInv'
  <2> DEFINE k == [q EXCEPT !.phase = "record", !.item = c]
  <2>1. k.phase = "record" /\ k.todo = rest /\ k.result = q.result /\ k.item = c
    BY <1>1 DEF RequestRows
  <2>2. request' = [request EXCEPT ![r] = k] /\ c \in rest
    BY <1>8
  <2> HIDE DEF k, q, rest
  <2>3. Shaped(k) /\ k.phase \notin Own
    BY <2>1, <2>2 DEF Shaped, Own, Statements
  <2> QED
    BY <1>4, <1>5, <1>6, <2>1, <2>2, <2>3, GoesOnce
<1> QED
  BY <1>7, <1>8 DEF Advance

LEMMA CheckOnce ==
  ASSUME OnceInv, ReplayInv', NEW r \in Requests, Check(r)
  PROVE  OnceInv'
<1> DEFINE b == request[r].item
<1>1. request[r] \in RequestRows /\ Shaped(request[r]) /\ ReplayInv
  BY Typed DEF OnceInv
<1>2. request[r].phase = "check" /\ b \in request[r].todo /\ b \in Actions
  BY <1>1 DEF Check, At, Shaped, Statements, RequestRows
<1>3. CASE ledger[b] \in Settled
  <2>1. Advance(r, ledger[b]) /\ ledger' = [ledger EXCEPT ![b] = ledger[b]]
    BY <1>1, <1>3 DEF Check, ReplayInv, TypeOK
  <2> QED
    BY <1>2, <1>3, <2>1, AdvanceOnce DEF Check
<1>4. CASE ledger[b] \notin Settled
  <2> DEFINE k == [request[r] EXCEPT !.phase = "apply"]
  <2>1. /\ k.phase = "apply" /\ k.item = b /\ k.todo = request[r].todo
        /\ k.result = request[r].result
        /\ request' = [request EXCEPT ![r] = k]
    BY <1>1, <1>4 DEF Check, Goto, RequestRows
  <2>2. LedgerKept(r)
    BY DEF Check, LedgerKept
  <2>3. ASSUME NEW a \in Inspections
        PROVE  Adds(r, k, a)
    <3>1. done'[a] = done[a] /\ unguarded'[a] = unguarded[a] /\ ledger'[a] = ledger[a]
      BY DEF Check
    <3> HIDE DEF k
    <3>2. WillEnter(k, ledger'[a], a) => WillEnter(request[r], ledger[a], a)
      BY <1>2, <1>4, <2>1, <3>1 DEF WillEnter, Busy, Statements
    <3>3. Busy(request[r], a) => Busy(k, a)
      BY <2>1 DEF Busy, Statements
    <3> QED
      BY <3>1, <3>2, <3>3, Calm
  <2> QED
    BY <1>2, <2>1, <2>2, <2>3, StayOnce DEF Check, Statements
<1> QED
  BY <1>3, <1>4

LEMMA ApplyOnce ==
  ASSUME OnceInv, ReplayInv', NEW r \in Requests, Apply(r)
  PROVE  OnceInv'
<1> DEFINE b == request[r].item
<1>1. request[r] \in RequestRows /\ Shaped(request[r]) /\ ReplayInv
  BY Typed DEF OnceInv
<1>2. request[r].phase = "apply" /\ b \in request[r].todo /\ b \in Actions
  BY <1>1 DEF Apply, At, Shaped, Statements, RequestRows
<1>3. LedgerKept(r)
  BY DEF Apply, LedgerKept
<1>4. PICK o : /\ Outcome(r, o)
               /\ \/ Effect(b) /\ o = "applied"
                  \/ UNCHANGED done /\ o # "applied"
  BY DEF Apply
<1> DEFINE k == [request[r] EXCEPT !.phase = "settle", !.outcome = o]
<1>5. /\ k.phase = "settle" /\ k.item = b /\ k.todo = request[r].todo
      /\ k.result = request[r].result /\ k.outcome = o
      /\ request' = [request EXCEPT ![r] = k]
  BY <1>1, <1>4 DEF Outcome, RequestRows
<1>6. ASSUME NEW a \in Inspections
      PROVE  Adds(r, k, a)
  <2>1. a \in Actions /\ unguarded'[a] = unguarded[a] /\ ledger'[a] = ledger[a]
    BY Typed DEF Apply
  <2> HIDE DEF k
  <2>2. Busy(request[r], a) => Busy(k, a)
    BY <1>5 DEF Busy, Statements
  <2>3. CASE a = b /\ o = "applied"
    <3>1. WillEnter(request[r], ledger[a], a) /\ ~WillEnter(k, ledger'[a], a)
      BY <1>2, <1>5, <2>3 DEF WillEnter, Busy, Statements
    <3>2. done[a] \in Nat /\ unguarded[a] \in Nat /\ done'[a] = done[a] + 1
      BY <1>1, <1>4, <2>1, <2>3 DEF Effect, ReplayInv, TypeOK
    <3> QED
      BY <2>1, <2>2, <3>1, <3>2 DEF Adds, One
  <2>4. CASE ~(a = b /\ o = "applied")
    <3>1. done'[a] = done[a]
      BY <1>1, <1>4, <2>1, <2>4 DEF Effect, ReplayInv, TypeOK
    <3>2. WillEnter(k, ledger'[a], a) => WillEnter(request[r], ledger[a], a)
      BY <1>2, <1>5, <2>1, <2>4 DEF WillEnter, Busy, Statements
    <3> QED
      BY <2>1, <2>2, <3>1, <3>2, Calm
  <2> QED
    BY <2>3, <2>4
<1> QED
  BY <1>2, <1>3, <1>5, <1>6, StayOnce DEF Apply, Statements

LEMMA SettleOnce ==
  ASSUME OnceInv, ReplayInv', NEW r \in Requests, Settle(r)
  PROVE  OnceInv'
<1>1. request[r].outcome \in Settled
  BY Typed DEF RequestRows
<1> QED
  BY <1>1, AdvanceOnce DEF Settle, At

\* The API has served, or loses, a request.
LEMMA ServeDirectOnce ==
  ASSUME OnceInv, ReplayInv', NEW r \in Requests, ServeDirect(r)
  PROVE  OnceInv'
<1> DEFINE b == request[r].item
<1>1. request[r] \in RequestRows /\ Shaped(request[r]) /\ ReplayInv
  BY Typed DEF OnceInv
<1>2. request[r].phase = "direct"
  BY DEF ServeDirect, At
<1>3. LedgerKept(r) /\ OutboxKept
  BY DEF ServeDirect, LedgerKept, OutboxKept, Queued
<1>4. PICK p \in {"posted", "refused"} :
        /\ Ends(r, [request[r] EXCEPT !.phase = p])
        /\ IF p = "posted" THEN Effect(b) ELSE UNCHANGED done
  BY DEF ServeDirect
<1> DEFINE k == [request[r] EXCEPT !.phase = p]
<1>5. /\ k.phase = p /\ k.item = b /\ k.todo = request[r].todo
      /\ k.result = request[r].result /\ k.awaited = request[r].awaited
      /\ Ends(r, k)
  BY <1>1, <1>4 DEF RequestRows
<1> HIDE DEF k
<1>6. k.phase \notin Statements /\ (k.awaited => Shaped(k))
  BY <1>1, <1>2, <1>5 DEF Shaped, Own, Statements
<1>7. Continues(r, k)
  BY <1>2, <1>5 DEF Continues, Asks, Carries, Own
<1>8. ASSUME NEW a \in Inspections
      PROVE  Adds(r, k, a)
  <2>1. a \in Actions /\ unguarded'[a] = unguarded[a] /\ ledger'[a] = ledger[a]
    BY Typed DEF ServeDirect
  <2>2. ~Busy(request[r], a)
    BY <1>2 DEF Busy, Statements
  <2>3. CASE a = b /\ p = "posted"
    <3>1. WillEnter(request[r], ledger[a], a) /\ ~WillEnter(k, ledger'[a], a)
      BY <1>2, <1>5, <2>3 DEF WillEnter, Busy, Statements
    <3>2. done[a] \in Nat /\ unguarded[a] \in Nat /\ done'[a] = done[a] + 1
      BY <1>1, <1>4, <2>1, <2>3 DEF Effect, ReplayInv, TypeOK
    <3> QED
      BY <2>1, <2>2, <3>1, <3>2 DEF Adds, One
  <2>4. CASE ~(a = b /\ p = "posted")
    <3>1. done'[a] = done[a]
      BY <1>1, <1>4, <2>1, <2>4 DEF Effect, ReplayInv, TypeOK
    <3>2. WillEnter(k, ledger'[a], a) => WillEnter(request[r], ledger[a], a)
      BY <1>2, <1>5, <1>6, <2>1, <2>4 DEF WillEnter, Busy
    <3> QED
      BY <2>1, <2>2, <3>1, <3>2, Calm
  <2> QED
    BY <2>3, <2>4
<1> QED
  BY <1>3, <1>5, <1>6, <1>7, <1>8, EndsOnce

LEMMA DieOnce ==
  ASSUME OnceInv, ReplayInv', NEW r \in Requests, Die(r)
  PROVE  OnceInv'
<1> DEFINE b == request[r].item
           p == IF request[r].phase = "direct" THEN "refused" ELSE "dead"
           k == [request[r] EXCEPT !.phase = p]
           S == IF request[r].phase = "settle" /\ request[r].outcome = "applied" THEN {b} ELSE {}
<1>1. request[r] \in RequestRows /\ Shaped(request[r]) /\ ReplayInv
  BY Typed DEF OnceInv
<1>2. request[r].phase \in {"direct"} \cup Statements /\ Unguarded(S)
  BY DEF Die, At
<1>3. LedgerKept(r) /\ OutboxKept
  BY DEF Die, LedgerKept, OutboxKept, Queued
<1>4. /\ k.phase = p /\ k.item = b /\ k.todo = request[r].todo
      /\ k.result = request[r].result /\ k.awaited = request[r].awaited
      /\ Ends(r, k)
  BY <1>1 DEF RequestRows, Die
<1> HIDE DEF k
<1>5. k.phase \notin Statements /\ (k.awaited => Shaped(k))
  BY <1>1, <1>2, <1>4 DEF Shaped, Own, Statements
<1>6. Continues(r, k)
  BY <1>2, <1>4 DEF Continues, Asks, Carries, Own, Statements
<1>7. ASSUME NEW a \in Inspections
      PROVE  Adds(r, k, a)
  <2>1. /\ a \in Actions /\ done'[a] = done[a] /\ ledger'[a] = ledger[a]
        /\ done[a] \in Nat /\ unguarded[a] \in Nat
    BY Typed DEF Die
  <2>2. unguarded'[a] = IF a \in S THEN unguarded[a] + 1 ELSE unguarded[a]
    BY <1>2, <2>1 DEF Unguarded
  <2>3. CASE request[r].phase = "direct"
    <3>1. WillEnter(k, ledger'[a], a) => WillEnter(request[r], ledger[a], a)
      BY <1>4, <1>5, <2>3 DEF WillEnter, Busy
    <3>2. a \notin S /\ ~Busy(request[r], a)
      BY <2>3 DEF Busy, Statements
    <3> QED
      BY <2>1, <2>2, <3>1, <3>2, Calm
  <2>4. CASE request[r].phase \in Statements
    <3>1. ~WillEnter(k, ledger'[a], a)
      BY <1>4, <1>5, <2>4 DEF WillEnter, Busy, Statements
    <3>2. ledger'[a] \notin Settled /\ Busy(request[r], a) /\ a \notin S
            => WillEnter(request[r], ledger[a], a)
      BY <2>1, <2>4 DEF WillEnter
    <3> QED
      BY <2>1, <2>2, <3>1, <3>2 DEF Adds, One
  <2> QED
    BY <1>2, <2>3, <2>4
<1> QED
  BY <1>3, <1>4, <1>5, <1>6, <1>7, EndsOnce

-----------------------------------------------------------------------------
\* The phone marks what it sent, and that was queued.
LEMMA MarkKeeps ==
  ASSUME OnceInv, NEW r \in Requests, NEW status \in [Actions -> Settled \cup {"none"}], Mark(status),
         \A a \in Actions : status[a] # "none" => Carries(request[r], a)
  PROVE  OutboxKept
<1>1. ASSUME NEW a \in Actions
      PROVE  IF Queued(a) THEN Queued(a)' ELSE outbox'[a] = outbox[a]
  <2>1. CASE outbox[a] = "gone" \/ status[a] = "none"
    BY <2>1 DEF Mark, Queued
  <2>2. CASE outbox[a] # "gone" /\ status[a] # "none"
    <3>1. Queued(a)
      BY <2>2 DEF OnceInv, PhoneInv
    <3>2. outbox'[a] = IF status[a] = "failed" THEN "pending" ELSE status[a]
      BY <2>2 DEF Mark
    <3>3. status[a] \notin {"none", "posting", "posted"}
      BY <2>2 DEF Settled
    <3> QED
      BY <3>1, <3>2, <3>3 DEF Queued
  <2> QED
    BY <2>1, <2>2
<1> QED
  BY <1>1 DEF OutboxKept

LEMMA ReceiveOnce ==
  ASSUME OnceInv, ReplayInv', NEW r \in Requests, Receive(r)
  PROVE  OnceInv'
<1> DEFINE k == [Free EXCEPT !.phase = "prune", !.awaited = TRUE]
<1>1. request[r] \in RequestRows /\ request[r].phase = "answer"
  BY Typed DEF Receive, At
<1>2. request' = [request EXCEPT ![r] = k] /\ LedgerKept(r)
  BY DEF Receive, LedgerKept
<1>3. OutboxKept
  BY <1>1, MarkKeeps DEF Receive, Carries, RequestRows
<1>4. k.phase = "prune" /\ k.todo = {} /\ \A a \in Actions : k.result[a] = "none"
  BY DEF Free, NoResult
<1> HIDE DEF k
<1>5. Shaped(k) /\ Continues(r, k)
  BY <1>4 DEF Shaped, Continues, Asks, Carries, Own, Statements
<1>6. ASSUME NEW a \in Inspections
      PROVE  Adds(r, k, a)
  <2>1. ~Busy(request[r], a) /\ ~WillEnter(k, ledger'[a], a)
    BY <1>1, <1>4 DEF Busy, WillEnter, Statements
  <2> QED
    BY <2>1, Calm DEF Receive
<1> QED
  BY <1>2, <1>3, <1>5, <1>6, GoesOnce

LEMMA PruneOnce ==
  ASSUME OnceInv, ReplayInv', NEW r \in Requests, Prune(r)
  PROVE  OnceInv'
<1>1. OutboxKept
  BY DEF Prune, OutboxKept, Queued
<1> QED
  BY <1>1, ReleaseOnce DEF Prune, At, Statements

LEMMA AllFailedKeeps ==
  ASSUME OnceInv, NEW r \in Requests, Mark(AllFailed(r))
  PROVE  OutboxKept
<1>1. \A a \in Actions : AllFailed(r)[a] # "none" => Carries(request[r], a)
  BY DEF AllFailed, Sent, Carries
<1> QED
  BY <1>1, AllFailedMarks, MarkKeeps

LEMMA HungUpOnce ==
  ASSUME OnceInv, ReplayInv', NEW r \in Requests, HungUp(r)
  PROVE  OnceInv'
BY AllFailedKeeps, ReleaseOnce DEF HungUp, At, Statements

LEMMA GiveUpOnce ==
  ASSUME OnceInv, ReplayInv', NEW r \in Requests, GiveUp(r)
  PROVE  OnceInv'
<1>1. OutboxKept /\ UNCHANGED <<ledger, done, unguarded>>
  BY AllFailedKeeps DEF GiveUp
<1>2. CASE request[r].phase = "answer"
  BY <1>1, <1>2, ReleaseOnce DEF GiveUp, At, Statements
<1>3. CASE request[r].phase \in Statements
  <2> DEFINE k == [request[r] EXCEPT !.awaited = FALSE]
  <2>1. request[r] \in RequestRows /\ Shaped(request[r])
    BY Typed DEF OnceInv
  <2>2. request' = [request EXCEPT ![r] = k]
    BY <1>3 DEF GiveUp, At, Ignore, Statements
  <2>3. /\ k.phase = request[r].phase /\ k.item = request[r].item /\ ~k.awaited
        /\ k.todo = request[r].todo /\ k.result = request[r].result
        /\ k.outcome = request[r].outcome
    BY <2>1 DEF RequestRows
  <2> HIDE DEF k
  <2>4. Shaped(k) /\ Continues(r, k) /\ LedgerKept(r)
    BY <1>1, <1>3, <2>1, <2>3
       DEF Shaped, Continues, LedgerKept, Asks, Carries, Own, Statements
  <2>5. ASSUME NEW a \in Inspections
        PROVE  Adds(r, k, a)
    <3>1. WillEnter(k, ledger'[a], a) => WillEnter(request[r], ledger[a], a)
      BY <1>1, <2>3 DEF WillEnter, Busy
    <3>2. Busy(request[r], a) => Busy(k, a)
      BY <2>3 DEF Busy
    <3> QED
      BY <1>1, <3>1, <3>2, Calm
  <2> QED
    BY <1>1, <2>2, <2>4, <2>5, GoesOnce
<1> QED
  BY <1>2, <1>3 DEF GiveUp

-----------------------------------------------------------------------------
\* The phone has the answer to a call of its own, or gives it up.
LEMMA HeardOnce ==
  ASSUME OnceInv, ReplayInv', NEW r \in Requests, NEW k, NEW x,
         request' = [request EXCEPT ![r] = k],
         outbox' = [outbox EXCEPT ![request[r].item] = x], x \in {"posted", "pending"},
         UNCHANGED <<ledger, done>>, Asks(request[r]), ~Asks(k), Shaped(k),
         k.phase \notin Statements, \A a \in Actions : ~Carries(k, a),
         \A a \in Inspections :
           /\ WillEnter(k, ledger[a], a) => WillEnter(request[r], ledger[a], a)
           /\ unguarded'[a] =
                IF a = request[r].item /\ request[r].phase # "refused" /\ x # "posted"
                THEN unguarded[a] + 1 ELSE unguarded[a],
         request[r].phase = "refused" => k.phase \notin Own
  PROVE  OnceInv'
<1> DEFINE b == request[r].item
<1>1. /\ request'[r] = k /\ \A q \in Requests \ {r} : request'[q] = request[q]
      /\ request[r].phase \in Own /\ b \in Actions /\ outbox[b] = "posting" /\ PhoneInv
      /\ outbox \in [Actions -> OutboxStatuses]
  BY Typed DEF OnceInv, ReplayInv, RowInv, TypeOK, Asks, PhoneInv
<1>2. outbox'[b] = x /\ \A a \in Actions : a # b => outbox'[a] = outbox[a]
  BY <1>1
<1>3. \A q \in Requests : Shaped(request'[q])
  BY ShapedStep
<1>4. PhoneInv'
  <2>1. \A q \in Requests : Asks(request'[q]) => q # r /\ Asks(request[q]) /\ request'[q] = request[q]
    BY <1>1
  <2>2. \A q \in Requests : Asks(request'[q]) => request'[q].item # b
    BY <1>1, <2>1 DEF PhoneInv
  <2>3. \A q \in Requests : Asks(request'[q]) => outbox'[request'[q].item] = "posting"
    <3>1. \A q \in Requests : Asks(request[q]) => request[q].item \in Actions
      BY DEF OnceInv, ReplayInv, RowInv, Asks
    <3> QED
      BY <1>1, <1>2, <2>1, <2>2, <3>1 DEF PhoneInv
  <2>4. \A q, p \in Requests :
          Asks(request'[q]) /\ Asks(request'[p]) /\ request'[q].item = request'[p].item => q = p
    BY <1>1, <2>1 DEF PhoneInv
  <2>5. \A a \in Actions : Queued(a) => Queued(a)'
    BY <1>1, <1>2 DEF Queued
  <2>6. \A a \in Actions : ledger'[a] # "none" => Queued(a)'
    BY <1>1, <2>5 DEF PhoneInv
  <2>7. \A q \in Requests, a \in Actions : Carries(request'[q], a) => Queued(a)'
    BY <1>1, <2>5 DEF PhoneInv
  <2> QED
    BY <2>3, <2>4, <2>6, <2>7 DEF PhoneInv
<1>5. ASSUME NEW a \in Inspections
      PROVE  Bounded(a)'
  <2>1. /\ a \in Actions /\ done'[a] = done[a] /\ ledger'[a] = ledger[a]
        /\ done[a] \in Nat /\ unguarded[a] \in Nat
    BY Typed
  <2>2. ASSUME NEW q \in Requests \ {r}, WillEnter(request'[q], ledger'[a], a)
        PROVE  WillEnter(request[q], ledger[a], a)
    BY <1>1, <2>1, <2>2
  <2>3. WillEnter(k, ledger'[a], a) => WillEnter(request[r], ledger[a], a)
    BY <2>1
  <2>4. \A q \in Requests : Busy(request'[q], a) <=> Busy(request[q], a)
    BY <1>1 DEF Busy, Own, Statements
  <2>5. done'[a] + One(WillEnter(request'[r], ledger'[a], a)) + One(Waits(a)') + unguarded[a]
          <= done[a] + One(WillEnter(request[r], ledger[a], a)) + One(Waits(a)) + unguarded'[a]
    <3>1. CASE a # b
      <4>1. Waits(a)' <=> Waits(a)
        BY <1>2, <2>1, <2>4, <3>1 DEF Waits
      <4>2. unguarded'[a] = unguarded[a]
        BY <3>1
      <4> QED
        BY <1>1, <2>1, <2>3, <4>1, <4>2 DEF One
    <3>2. CASE a = b /\ x = "posted"
      <4>1. ~Waits(a)' /\ unguarded'[a] = unguarded[a]
        BY <1>2, <3>2 DEF Waits
      <4> QED
        BY <1>1, <2>1, <2>3, <4>1 DEF One
    <3>3. CASE a = b /\ x # "posted" /\ request[r].phase # "refused"
      <4>1. unguarded'[a] = unguarded[a] + 1
        BY <3>3
      <4> QED
        BY <1>1, <2>1, <2>3, <4>1 DEF One
    <3>4. CASE a = b /\ request[r].phase = "refused"
      <4>1. WillEnter(request[r], ledger[a], a) /\ ~WillEnter(k, ledger'[a], a)
        BY <3>4 DEF WillEnter, Busy, Own
      <4>2. unguarded'[a] = unguarded[a]
        BY <3>4
      <4> QED
        BY <1>1, <2>1, <4>1, <4>2 DEF One
    <3> QED
      BY <3>1, <3>2, <3>3, <3>4
  <2> QED
    BY <2>2, <2>5, CountStep
<1> QED
  BY <1>3, <1>4, <1>5 DEF OnceInv

LEMMA ReceiveDirectOnce ==
  ASSUME OnceInv, ReplayInv', NEW r \in Requests, ReceiveDirect(r)
  PROVE  OnceInv'
<1> DEFINE x == IF request[r].phase = "posted" THEN "posted" ELSE "pending"
<1>1. Shaped(request[r]) /\ request[r].phase \in {"posted", "refused"}
  BY DEF OnceInv, ReceiveDirect
<1>2. Asks(request[r]) /\ (request[r].phase = "refused" <=> x = "pending")
  BY <1>1 DEF Asks, Shaped, Own
<1>3. /\ request' = [request EXCEPT ![r] = Free] /\ Free.phase \notin Own \cup Statements
      /\ outbox' = [outbox EXCEPT ![request[r].item] = x]
      /\ UNCHANGED <<ledger, done, unguarded>>
  BY DEF ReceiveDirect, Release, At, Free, Own, Statements
<1> QED
  BY <1>2, <1>3, FreeFacts, HeardOnce

LEMMA GiveUpDirectOnce ==
  ASSUME OnceInv, ReplayInv', NEW r \in Requests, GiveUpDirect(r)
  PROVE  OnceInv'
<1> DEFINE b == request[r].item
<1>1. /\ request[r] \in RequestRows /\ Shaped(request[r]) /\ Asks(request[r])
      /\ request[r].phase \in {"direct", "posted"}
  BY Typed DEF OnceInv, GiveUpDirect, Asks, Own
<1>2. /\ outbox' = [outbox EXCEPT ![b] = "pending"] /\ UNCHANGED <<ledger, done>>
      /\ \A a \in Inspections :
           unguarded'[a] = IF a = b THEN unguarded[a] + 1 ELSE unguarded[a]
  BY Typed DEF GiveUpDirect, Unguarded
<1> DEFINE x == "pending"
<1>3. /\ outbox' = [outbox EXCEPT ![b] = x] /\ x \in {"posted", "pending"}
      /\ \A a \in Inspections :
           unguarded'[a] = IF a = b /\ request[r].phase # "refused" /\ x # "posted"
                           THEN unguarded[a] + 1 ELSE unguarded[a]
  BY <1>1, <1>2
<1> HIDE DEF x
<1>4. CASE request[r].phase = "posted"
  <2>1. request' = [request EXCEPT ![r] = Free] /\ Free.phase \notin Own \cup Statements
    BY <1>4 DEF GiveUpDirect, At, Release, Free, Own, Statements
  <2> QED
    BY <1>1, <1>2, <1>3, <1>4, <2>1, FreeFacts, HeardOnce
<1>5. CASE request[r].phase = "direct"
  <2> DEFINE k == [request[r] EXCEPT !.awaited = FALSE]
  <2>1. request' = [request EXCEPT ![r] = k]
    BY <1>5 DEF GiveUpDirect, At, Ignore
  <2>2. /\ k.phase = "direct" /\ k.item = b /\ ~k.awaited
        /\ k.todo = request[r].todo /\ k.result = request[r].result
    BY <1>1, <1>5 DEF RequestRows
  <2> HIDE DEF k
  <2>3. ~Asks(k) /\ Shaped(k) /\ k.phase \notin Statements
    BY <1>1, <2>2 DEF Asks, Shaped, Own, Statements
  <2>4. \A a \in Actions : ~Carries(k, a)
    BY <1>1, <2>2 DEF Shaped, Carries, Own, NoResult
  <2>5. \A a : WillEnter(k, ledger[a], a) => WillEnter(request[r], ledger[a], a)
    BY <1>5, <2>2 DEF WillEnter, Busy, Statements
  <2> QED
    BY <1>1, <1>2, <1>3, <1>5, <2>1, <2>3, <2>4, <2>5, HeardOnce
<1> QED
  BY <1>1, <1>4, <1>5

\* The phone sends an action, first on its own.
LEMMA SubmitOnce ==
  ASSUME OnceInv, ReplayInv', NEW r \in Requests, NEW b \in Actions, submit(b, r)
  PROVE  OnceInv'
<1> DEFINE k == [Free EXCEPT !.phase = "direct", !.item = b, !.awaited = TRUE]
<1>1. /\ request' = [request EXCEPT ![r] = k]
      /\ outbox' = [outbox EXCEPT ![b] = "posting"] /\ outbox[b] = "none"
      /\ UNCHANGED <<ledger, done, unguarded>> /\ request[r].phase = "free"
  BY DEF submit, Slot, At
<1>2. k.phase = "direct" /\ k.item = b /\ k.awaited /\ k.todo = {} /\ k.result = NoResult
  BY DEF Free
<1> HIDE DEF k
<1>3. /\ request'[r] = k /\ \A q \in Requests \ {r} : request'[q] = request[q]
      /\ PhoneInv /\ outbox \in [Actions -> OutboxStatuses]
      /\ \A q \in Requests : Asks(request[q]) => request[q].item \in Actions
  BY <1>1, Typed DEF OnceInv, ReplayInv, RowInv, TypeOK, Asks
<1>4. outbox'[b] = "posting" /\ \A a \in Actions : a # b => outbox'[a] = outbox[a]
  BY <1>1, <1>3
<1>5. Shaped(k) /\ Asks(k) /\ \A a \in Actions : ~Carries(k, a)
  BY <1>2 DEF Shaped, Asks, Carries, Own, Statements, NoResult
<1>6. \A q \in Requests : Shaped(request'[q])
  BY <1>1, <1>5, ShapedStep
<1>7. \A q \in Requests : Asks(request[q]) => request[q].item # b
  BY <1>1, <1>3 DEF PhoneInv
<1>8. ledger[b] = "none" /\ \A q \in Requests : ~Carries(request[q], b)
  BY <1>1, <1>3 DEF PhoneInv, Queued
<1>9. PhoneInv'
  <2>1. \A q \in Requests : Asks(request'[q]) => outbox'[request'[q].item] = "posting"
    BY <1>2, <1>3, <1>4, <1>7 DEF PhoneInv
  <2>2. \A q, p \in Requests :
          Asks(request'[q]) /\ Asks(request'[p]) /\ request'[q].item = request'[p].item => q = p
    BY <1>2, <1>3, <1>7 DEF PhoneInv
  <2>3. \A a \in Actions : Queued(a) => Queued(a)'
    BY <1>1, <1>4 DEF Queued
  <2>4. \A a \in Actions : ledger'[a] # "none" => Queued(a)'
    BY <1>1, <1>3, <2>3 DEF PhoneInv
  <2>5. \A q \in Requests, a \in Actions : Carries(request'[q], a) => Queued(a)'
    BY <1>3, <1>5, <2>3 DEF PhoneInv
  <2> QED
    BY <2>1, <2>2, <2>4, <2>5 DEF PhoneInv
<1>10. ASSUME NEW a \in Inspections
       PROVE  Bounded(a)'
  <2>1. /\ a \in Actions /\ done'[a] = done[a] /\ ledger'[a] = ledger[a]
        /\ done[a] \in Nat /\ unguarded[a] \in Nat /\ unguarded'[a] = unguarded[a]
    BY <1>1, Typed
  <2>2. ASSUME NEW q \in Requests \ {r}, WillEnter(request'[q], ledger'[a], a)
        PROVE  WillEnter(request[q], ledger[a], a)
    BY <1>3, <2>1, <2>2
  <2>3. ~WillEnter(request[r], ledger[a], a) /\ ~Busy(request[r], a) /\ ~Busy(k, a)
    BY <1>1, <1>2 DEF WillEnter, Busy, Statements
  <2>4. CASE a = b
    <3>1. Waits(a) /\ ~Waits(a)'
      BY <1>1, <1>4, <1>8, <2>4 DEF Waits, Busy, Carries, Settled
    <3> QED
      BY <1>3, <2>1, <2>2, <2>3, <3>1, CountStep DEF One
  <2>5. CASE a # b
    <3>1. Waits(a)' <=> Waits(a)
      BY <1>3, <1>4, <2>1, <2>3, <2>5 DEF Waits
    <3>2. ~WillEnter(k, ledger'[a], a)
      BY <1>2, <2>3, <2>5 DEF WillEnter
    <3> QED
      BY <1>3, <2>1, <2>2, <2>3, <3>1, <3>2, CountStep DEF One
  <2> QED
    BY <2>4, <2>5
<1> QED
  BY <1>6, <1>9, <1>10 DEF OnceInv

\* A batch is sent: beside another request, or instead of the phone that waited.
LEMMA StartDrainOnce ==
  ASSUME OnceInv, ReplayInv', NEW r \in Requests, StartDrain(r)
  PROVE  OnceInv'
<1>1. PICK B \in SUBSET Pending, c \in Actions :
        /\ Oldest(c, B)
        /\ request' = [request EXCEPT ![r] = [Free EXCEPT !.phase = "record",
                                                !.awaited = TRUE, !.todo = B, !.item = c]]
        /\ Unguarded({b \in B : Beside(b)})
  BY DEF StartDrain
<1> DEFINE k == [Free EXCEPT !.phase = "record", !.awaited = TRUE, !.todo = B, !.item = c]
<1>2. /\ request' = [request EXCEPT ![r] = k] /\ request[r].phase = "free"
      /\ UNCHANGED <<outbox, ledger, done>>
  BY <1>1 DEF StartDrain, Slot, At
<1>3. k.phase = "record" /\ k.item = c /\ k.todo = B /\ k.result = NoResult /\ c \in B
  BY <1>1 DEF Free, Oldest
<1> HIDE DEF k
<1>4. /\ request'[r] = k /\ \A q \in Requests \ {r} : request'[q] = request[q]
      /\ PhoneInv
  BY <1>2, Typed DEF OnceInv
<1>5. \A q \in Requests : Shaped(request'[q])
  <2>1. Shaped(k)
    BY <1>3 DEF Shaped, Own
  <2> QED
    BY <1>2, <2>1, ShapedStep
<1>6. PhoneInv'
  <2>1. ~Asks(k) /\ \A a \in Actions : Carries(k, a) => Queued(a)
    BY <1>3 DEF Asks, Carries, Queued, Own, NoResult, Pending
  <2>2. \A a \in Actions : Queued(a)' <=> Queued(a)
    BY <1>2 DEF Queued
  <2> QED
    BY <1>2, <1>4, <2>1, <2>2 DEF PhoneInv
<1>7. ASSUME NEW a \in Inspections
      PROVE  Bounded(a)'
  <2>1. /\ a \in Actions /\ done'[a] = done[a] /\ ledger'[a] = ledger[a]
        /\ done[a] \in Nat /\ unguarded[a] \in Nat /\ outbox'[a] = outbox[a]
        /\ unguarded'[a] = IF a \in B /\ Beside(a) THEN unguarded[a] + 1 ELSE unguarded[a]
    BY <1>1, <1>2, Typed DEF Unguarded
  <2>2. ASSUME NEW q \in Requests \ {r}, WillEnter(request'[q], ledger'[a], a)
        PROVE  WillEnter(request[q], ledger[a], a)
    BY <1>4, <2>1, <2>2
  <2>3. ~WillEnter(request[r], ledger[a], a) /\ ~Busy(request[r], a)
    BY <1>2 DEF WillEnter, Busy, Statements
  <2>4. Waits(a)' => Waits(a) /\ ~Busy(k, a)
    BY <1>4, <2>1, <2>3 DEF Waits
  <2>5. WillEnter(k, ledger'[a], a) => a \in B /\ Busy(k, a) /\ ledger[a] \notin Settled
    BY <1>3, <2>1 DEF WillEnter, Busy, Statements
  <2>6. CASE ~WillEnter(k, ledger'[a], a)
    BY <1>4, <2>1, <2>2, <2>3, <2>4, <2>6, CountStep DEF One
  <2>7. CASE WillEnter(k, ledger'[a], a) /\ Beside(a)
    <3>1. unguarded'[a] = unguarded[a] + 1 /\ ~Waits(a)'
      BY <2>1, <2>4, <2>5, <2>7
    <3> QED
      BY <1>4, <2>1, <2>2, <2>3, <2>7, <3>1, CountStep DEF One
  <2>8. CASE WillEnter(k, ledger'[a], a) /\ ~Beside(a)
    <3>1. unguarded'[a] = unguarded[a] /\ ~Waits(a)'
      BY <2>1, <2>4, <2>5, <2>8
    <3>2. Waits(a)
      BY <2>5, <2>8 DEF Waits, Beside, Busy, Pending
    <3> QED
      BY <1>4, <2>1, <2>2, <2>3, <2>8, <3>1, <3>2, CountStep DEF One
  <2> QED
    BY <2>6, <2>7, <2>8
<1> QED
  BY <1>5, <1>6, <1>7 DEF OnceInv

-----------------------------------------------------------------------------
LEMMA NextOnce == OnceInv /\ [Next]_vars => OnceInv'
<1> SUFFICES ASSUME OnceInv, [Next]_vars
             PROVE  OnceInv'
  OBVIOUS
<1>1. ReplayInv'
  BY NextInv DEF OnceInv
<1>2. ASSUME NEW r \in Requests, NEW a \in Actions, submit(a, r)
      PROVE  OnceInv'
  BY <1>1, <1>2, SubmitOnce
<1>3. ASSUME NEW r \in Requests, StartDrain(r)
      PROVE  OnceInv'
  BY <1>1, <1>3, StartDrainOnce
<1>4. ASSUME NEW r \in Requests, Serve(r)
      PROVE  OnceInv'
  BY <1>1, <1>4, ServeDirectOnce, RecordOnceInv, CheckOnce, ApplyOnce, SettleOnce DEF Serve
<1>5. ASSUME NEW r \in Requests, Listen(r)
      PROVE  OnceInv'
  BY <1>1, <1>5, ReceiveDirectOnce, ReceiveOnce, PruneOnce, HungUpOnce DEF Listen
<1>6. ASSUME NEW r \in Requests, GiveUpDirect(r) \/ GiveUp(r) \/ Die(r)
      PROVE  OnceInv'
  BY <1>1, <1>6, GiveUpDirectOnce, GiveUpOnce, DieOnce
<1>7. CASE UNCHANGED vars
  <2>1. \A a \in Inspections : Bounded(a)'
    BY <1>7 DEF OnceInv, Bounded, Entering, Waits, vars
  <2>2. PhoneInv' /\ \A q \in Requests : Shaped(request'[q])
    BY <1>7 DEF OnceInv, PhoneInv, Queued, vars
  <2> QED
    BY <1>1, <2>1, <2>2 DEF OnceInv
<1> QED
  BY <1>2, <1>3, <1>4, <1>5, <1>6, <1>7 DEF Next

LEMMA OnceRetries == OnceInv => RetriesEnterOnce
<1> SUFFICES ASSUME OnceInv, NEW a \in Inspections
             PROVE  done[a] <= 1 + unguarded[a]
  BY DEF RetriesEnterOnce
<1>1. done[a] \in Nat /\ unguarded[a] \in Nat
  BY Typed
<1>2. Cardinality(Entering(a)) \in Nat
  <2>1. Entering(a) \subseteq Requests
    BY DEF Entering
  <2> QED
    BY <2>1, ReplayConstants, FS_Subset, FS_CardinalityType
<1>3. Bounded(a)
  BY DEF OnceInv
<1> QED
  BY <1>1, <1>2, <1>3 DEF Bounded, One

\* replayOne and drain: a retry enters no inspection again.  It is in the tables at most
\* once, and once more for each delivery that its row in the ledger could not stop: the
\* phone gave up on the call of its own, a request died between the row of the inspection
\* and the row of the ledger, or another request was at it when the batch was sent.
THEOREM RetriesEnterOnceHolds == Spec => []RetriesEnterOnce
<1>1. QED
  BY InitOnce, NextOnce, OnceRetries, PTL DEF Spec
=============================================================================
