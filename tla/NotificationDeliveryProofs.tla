---------------------- MODULE NotificationDeliveryProofs ---------------------
(***************************************************************************)
(* Notifications for any number of calls, keys, channels, workers and      *)
(* callbacks, and any number of faults.                                    *)
(***************************************************************************)
EXTENDS NotificationDelivery, TLAPS

\* How far a call is, and what it has by then.
CallInv ==
  \A r \in Requests :
    /\ Exists(r) => request[r].pc \in {"stamp", "answered", "failed"}
    /\ request[r].pc = "stamp" => Exists(r) /\ request[r].of \in Deliveries
    /\ request[r].pc \in {"stamp", "answered"} =>
         request[r].answer \in Requests /\ Exists(request[r].answer)

\* Only notifications that are in the table are worked on.
KnownInv ==
  /\ \A c \in Conns : work[c].pc # "idle" => On(c) \in Deliveries /\ Exists(NoteOf(c))
  /\ \A c \in Conns : work[c].pc = "settle" => work[c].to # "none"
  /\ \A d \in Deliveries : copies[d] > 0 \/ letters[d] > 0 => Exists(d[1])
  /\ \A n \in Requests, c \in Conns : note.lock[n] = c => Exists(n) /\ note.new[n] # "none"

TypeInv == TypeOK /\ CallInv /\ KnownInv

\* A notification stays in the table; only the COMMIT of its dispatch brings it there.
Grows == \A n \in Requests : note.row[n] # "none" => note'.row[n] # "none"
Keeps == \A n \in Requests : note'.row[n] # "none" <=> note.row[n] # "none"

-----------------------------------------------------------------------------
\* Tables under the operators of RowLocks.
LEMMA WrittenFacts ==
  ASSUME NEW Ids, NEW Rows, NEW t \in Tables(Ids, Rows), NEW c \in Conns, NEW x \in Ids,
         NEW r \in Rows
  PROVE  LET u == Written(t, c, x, r) IN
         /\ u \in Tables(Ids, Rows) /\ u.row = t.row
         /\ \A y \in Ids : /\ u.new[y] = IF y = x THEN r ELSE t.new[y]
                          /\ u.lock[y] = IF y = x THEN c ELSE t.lock[y]
BY DEF Written, Tables

LEMMA CommittedFacts ==
  ASSUME NEW Ids, NEW Rows, NEW t \in Tables(Ids, Rows), NEW c \in Conns
  PROVE  LET u == Committed(t, c) IN
         /\ u \in Tables(Ids, Rows) /\ u.new = t.new
         /\ \A y \in Ids : /\ u.row[y] = IF t.lock[y] = c THEN t.new[y] ELSE t.row[y]
                          /\ u.lock[y] = IF t.lock[y] = c THEN NoConn ELSE t.lock[y]
BY DEF Committed, Released, Tables

LEMMA RolledBackFacts ==
  ASSUME NEW Ids, NEW Rows, NEW t \in Tables(Ids, Rows), NEW c \in Conns
  PROVE  LET u == RolledBack(t, c) IN
         /\ u \in Tables(Ids, Rows) /\ u.row = t.row
         /\ \A y \in Ids : /\ u.new[y] = IF t.lock[y] = c THEN t.row[y] ELSE t.new[y]
                          /\ u.lock[y] = IF t.lock[y] = c THEN NoConn ELSE t.lock[y]
BY DEF RolledBack, Released, Tables

\* A delivery names its notification.
LEMMA Parent == \A d \in Deliveries : d[1] \in Requests /\ d[2] \in Channels
BY DEF Deliveries

LEMMA InitType == Init => TypeInv
<1> SUFFICES ASSUME Init PROVE TypeInv
  OBVIOUS
<1>1. NotCalled \in RequestRows /\ NotCalled.pc = "idle"
  BY DEF NotCalled, RequestRows, RequestSteps
<1>2. NoJob \in Jobs /\ Idle \in Works /\ Idle.pc = "idle"
  BY DEF NoJob, Jobs, Idle, Works, Steps, Results, NoteStatuses
<1>3. note \in Tables(Requests, NoteStatuses) /\ delivery \in Tables(Deliveries, Statuses)
  BY DEF Init, Filled, Tables, NoteStatuses, Statuses
<1>4. \A n \in Requests : note.row[n] = "none" /\ note.lock[n] = NoConn
  BY DEF Init, Filled
<1>5. TypeOK
  BY <1>1, <1>2, <1>3 DEF Init, TypeOK
<1>6. CallInv
  BY <1>1, <1>4 DEF Init, CallInv, Exists
<1>7. KnownInv
  BY <1>2, <1>4, NoConnIsNone DEF Init, KnownInv
<1> QED
  BY <1>5, <1>6, <1>7 DEF TypeInv

-----------------------------------------------------------------------------
\* Calls of dispatch.  Until the COMMIT only the call itself moves.
LEMMA CallMoves ==
  ASSUME TypeInv, NEW r \in Requests, NEW q \in RequestRows,
         request' = [request EXCEPT ![r] = q], UNCHANGED <<note, delivery, stamped, tracked>>,
         unsent' \subseteq Deliveries, ~Exists(r) \/ q.pc \in {"answered", "failed"}, q.pc # "stamp",
         q.pc = "answered" => q.answer \in Requests /\ Exists(q.answer)
  PROVE  TypeInv' /\ Keeps
<1>1. TypeOK'
  BY DEF TypeInv, TypeOK, tracked
<1>2. CallInv'
  BY DEF TypeInv, TypeOK, CallInv, Exists
<1>3. KnownInv'
  BY DEF TypeInv, KnownInv, tracked, Exists, On, NoteOf
<1> QED
  BY <1>1, <1>2, <1>3 DEF TypeInv, Keeps

LEMMA CallType ==
  ASSUME TypeInv, NEW r \in Requests,
         \/ \E key \in Keys \cup {NoKey} : BeginDispatch(r, key)
         \/ \E d \in Deliveries : retry(r, d)
         \/ InsertNotification(r) \/ WriteDeliveries(r) \/ AbortDispatch(r)
  PROVE  TypeInv' /\ Keeps
<1> USE DEF Serving, Turn
<1>1. request \in [Requests -> RequestRows] /\ unsent \subseteq Deliveries
  BY DEF TypeInv, TypeOK
<1>2. NotCalled \in RequestRows
  BY DEF NotCalled, RequestRows, RequestSteps
<1>3. request[r].pc \in {"idle", "insert", "compile", "commit"} => ~Exists(r)
  BY DEF TypeInv, CallInv
<1>4. ASSUME NEW key \in Keys \cup {NoKey}, BeginDispatch(r, key) PROVE TypeInv' /\ Keeps
  <2> DEFINE found == {n \in Requests : Exists(n) /\ request[n].key = key}
             begun == [NotCalled EXCEPT !.pc = "insert", !.key = key]
             known == [NotCalled EXCEPT !.pc = "answered", !.key = key,
                                        !.answer = CHOOSE n \in found : TRUE]
  <2>1. CASE key = NoKey \/ found = {}
    <3>1. begun \in RequestRows /\ begun.pc = "insert"
      BY <1>2 DEF RequestRows, RequestSteps
    <3>2. request' = [request EXCEPT ![r] = begun]
      BY <1>4, <2>1 DEF BeginDispatch
    <3> HIDE DEF begun
    <3> QED
      BY <1>1, <1>3, <1>4, <3>1, <3>2, CallMoves DEF BeginDispatch
  <2>2. CASE ~(key = NoKey \/ found = {})
    <3>1. (CHOOSE n \in found : TRUE) \in found
      BY <2>2
    <3>2. known \in RequestRows /\ known.pc = "answered" /\ known.answer \in found
      BY <1>2, <3>1 DEF RequestRows, RequestSteps
    <3>3. request' = [request EXCEPT ![r] = known]
      BY <1>4, <2>2 DEF BeginDispatch
    <3>4. known.answer \in Requests /\ Exists(known.answer)
      BY <3>2
    <3> HIDE DEF known
    <3> QED
      BY <1>1, <1>4, <3>2, <3>3, <3>4, CallMoves DEF BeginDispatch
  <2> QED
    BY <2>1, <2>2
<1>5. ASSUME NEW d \in Deliveries, retry(r, d) PROVE TypeInv' /\ Keeps
  <2> DEFINE again == [NotCalled EXCEPT !.pc = "insert", !.of = d]
  <2>1. again \in RequestRows /\ again.pc = "insert"
    BY <1>2 DEF RequestRows, RequestSteps
  <2>2. request' = [request EXCEPT ![r] = again]
    BY <1>5 DEF retry
  <2> HIDE DEF again
  <2> QED
    BY <1>1, <1>3, <1>5, <2>1, <2>2, CallMoves DEF retry
<1>6. ASSUME NEW pc \in {"failed", "compile"}, request' = [request EXCEPT ![r].pc = pc],
             UNCHANGED <<note, delivery, stamped, unsent, tracked>>, ~Exists(r) \/ pc = "failed"
      PROVE  TypeInv' /\ Keeps
  <2> DEFINE q == [request[r] EXCEPT !.pc = pc]
  <2>1. q \in RequestRows /\ q.pc = pc /\ request' = [request EXCEPT ![r] = q]
    BY <1>1, <1>6 DEF RequestRows, RequestSteps
  <2> HIDE DEF q
  <2> QED
    BY <1>1, <1>6, <2>1, CallMoves
<1>7. CASE InsertNotification(r)
  <2>1. PICK pc \in {"failed", "compile"} : request' = [request EXCEPT ![r].pc = pc]
    BY <1>7 DEF InsertNotification
  <2> QED
    BY <1>3, <1>6, <1>7, <2>1 DEF InsertNotification
<1>8. CASE AbortDispatch(r)
  BY <1>6, <1>8 DEF AbortDispatch
<1>9. CASE WriteDeliveries(r)
  <2>1. PICK rows \in [Channels -> {"none", "queued", "suppressed"}] :
          /\ request' = [request EXCEPT ![r].pc = "commit", ![r].as = rows]
          /\ unsent' = unsent \cup {x \in Deliveries : x[1] = r /\ rows[x[2]] = "queued"}
    BY <1>9 DEF WriteDeliveries
  <2> DEFINE q == [request[r] EXCEPT !.pc = "commit", !.as = rows]
  <2>2. q \in RequestRows /\ q.pc = "commit" /\ request' = [request EXCEPT ![r] = q]
    BY <1>1, <2>1 DEF RequestRows, RequestSteps
  <2>3. unsent' \subseteq Deliveries
    BY <1>1, <2>1
  <2> HIDE DEF q
  <2> QED
    BY <1>3, <1>9, <2>2, <2>3, CallMoves DEF WriteDeliveries
<1> QED
  BY <1>4, <1>5, <1>7, <1>8, <1>9

LEMMA CommitDispatchType ==
  ASSUME TypeInv, NEW r \in Requests, CommitDispatch(r)
  PROVE  /\ TypeInv' /\ Grows
         /\ note'.row[r] \in {"dispatched", "cancelled"}
         /\ \A n \in Requests \ {r} : note'.row[n] = note.row[n]
         /\ note'.lock = note.lock /\ note'.new = note.new
<1> USE DEF Serving
<1>1. /\ request \in [Requests -> RequestRows] /\ note \in Tables(Requests, NoteStatuses)
      /\ delivery \in Tables(Deliveries, Statuses)
  BY DEF TypeInv, TypeOK
<1>2. /\ note' \in Tables(Requests, NoteStatuses) /\ note'.lock = note.lock /\ note'.new = note.new
      /\ note'.row[r] \in {"dispatched", "cancelled"}
      /\ \A n \in Requests \ {r} : note'.row[n] = note.row[n]
  BY <1>1 DEF CommitDispatch, Tables, NoteStatuses
<1>3. Grows
  BY <1>2 DEF Grows
<1>4. delivery' \in Tables(Deliveries, Statuses)
  <2>1. request[r].as \in [Channels -> Statuses]
    BY <1>1 DEF RequestRows, Statuses, Settled
  <2>2. [x \in Deliveries |-> IF x[1] = r THEN request[r].as[x[2]] ELSE delivery.row[x]]
          \in [Deliveries -> Statuses]
    BY <1>1, <2>1, Parent DEF Tables
  <2> QED
    BY <1>1, <2>2 DEF CommitDispatch, Tables
<1> DEFINE q == [request[r] EXCEPT !.answer = r,
              !.pc = IF request[r].of = NoDelivery THEN "answered" ELSE "stamp"]
<1>5. /\ q \in RequestRows /\ request' = [request EXCEPT ![r] = q] /\ q.answer = r
      /\ q.pc \in {"answered", "stamp"} /\ (q.pc = "stamp" => q.of \in Deliveries)
  BY <1>1 DEF RequestRows, RequestSteps, CommitDispatch
<1> HIDE DEF q
<1> UNCHANGED <<stamped, unsent, tracked>>
  BY DEF CommitDispatch
<1>6. TypeOK'
  BY <1>1, <1>2, <1>4, <1>5 DEF TypeInv, TypeOK, tracked
<1>7. CallInv'
  BY <1>1, <1>2, <1>3, <1>5 DEF TypeInv, CallInv, Exists, Grows
<1>8. KnownInv'
  BY <1>2, <1>3, Parent DEF TypeInv, KnownInv, CommitDispatch, tracked, Exists, Grows, On, NoteOf
<1> QED
  BY <1>2, <1>3, <1>6, <1>7, <1>8 DEF TypeInv

LEMMA StampType ==
  ASSUME TypeInv, NEW r \in Requests, Stamp(r)
  PROVE  TypeInv' /\ Keeps
<1> USE DEF Serving, Turn, Stamp
<1> DEFINE q == [request[r] EXCEPT !.pc = "answered"]
<1>1. /\ request \in [Requests -> RequestRows]
      /\ request[r].of \in Deliveries /\ Exists(r)
      /\ request[r].answer \in Requests /\ Exists(request[r].answer)
  BY DEF TypeInv, TypeOK, CallInv
<1>2. q \in RequestRows /\ request' = [request EXCEPT ![r] = q] /\ q.pc = "answered"
      /\ q.answer = request[r].answer
  BY <1>1 DEF RequestRows, RequestSteps
<1> HIDE DEF q
<1>3. TypeOK'
  BY <1>1, <1>2 DEF TypeInv, TypeOK, tracked
<1>4. CallInv'
  BY <1>1, <1>2 DEF TypeInv, CallInv, Exists
<1>5. KnownInv'
  BY DEF TypeInv, KnownInv, tracked, Exists, On, NoteOf
<1> QED
  BY <1>3, <1>4, <1>5 DEF TypeInv, Keeps

LEMMA EnqueueType ==
  ASSUME TypeInv, NEW d \in Deliveries, Enqueue(d)
  PROVE  TypeInv' /\ Keeps
<1>1. job' \in [Deliveries -> Jobs] /\ unsent' \subseteq Deliveries /\ missed' \subseteq Deliveries
  BY DEF TypeInv, TypeOK, Enqueue, Jobs
<1>2. TypeOK'
  BY <1>1 DEF TypeInv, TypeOK, Enqueue
<1>3. CallInv' /\ KnownInv'
  BY DEF TypeInv, CallInv, KnownInv, Enqueue, Exists, On, NoteOf
<1> QED
  BY <1>2, <1>3 DEF TypeInv, Keeps, Enqueue

-----------------------------------------------------------------------------
\* Workers and callbacks.  What they have to keep of a step is what these lemmas ask for.
LEMMA WorkMoves ==
  ASSUME TypeInv, NEW c \in Conns, NEW q \in Works, work' = [work EXCEPT ![c] = q],
         q.pc # "idle" => q.on \in Deliveries /\ Exists(q.on[1]), q.pc = "settle" => q.to # "none",
         UNCHANGED calls,
         note' \in Tables(Requests, NoteStatuses), delivery' \in Tables(Deliveries, Statuses),
         Keeps,
         \A n \in Requests, e \in Conns : note'.lock[n] = e => Exists(n) /\ note'.new[n] # "none",
         letters' \in [Deliveries -> Nat], job' \in [Deliveries -> Jobs],
         copies' \in [Deliveries -> Nat], faults' \in [Deliveries -> Nat],
         missed' \subseteq Deliveries,
         \A d \in Deliveries : copies'[d] > 0 \/ letters'[d] > 0 => Exists(d[1])
  PROVE  TypeInv' /\ Keeps
<1>1. work' \in [Conns -> Works] /\ \A e \in Conns : work'[e] = IF e = c THEN q ELSE work[e]
  BY DEF TypeInv, TypeOK
<1>2. TypeOK'
  BY <1>1 DEF TypeInv, TypeOK, calls
<1>3. CallInv'
  BY DEF TypeInv, TypeOK, CallInv, calls, Keeps, Exists, RequestRows
<1>4. KnownInv'
  <2>1. \A e \in Conns : work'[e].pc # "idle" =>
          work'[e].on \in Deliveries /\ note'.row[work'[e].on[1]] # "none"
    BY <1>1, Parent DEF TypeInv, KnownInv, Exists, Keeps, On, NoteOf
  <2>2. \A e \in Conns : work'[e].pc = "settle" => work'[e].to # "none"
    BY <1>1 DEF TypeInv, KnownInv
  <2> QED
    BY <2>1, <2>2, Parent DEF KnownInv, Exists, Keeps, On, NoteOf
<1> QED
  BY <1>2, <1>3, <1>4 DEF TypeInv

\* Nothing but the work of one connection, and its delivery, moves.
LEMMA WorkOnly ==
  ASSUME TypeInv, NEW c \in Conns, NEW q \in Works, work' = [work EXCEPT ![c] = q],
         q.pc # "idle" => q.on \in Deliveries /\ Exists(q.on[1]), q.pc = "settle" => q.to # "none",
         delivery' \in Tables(Deliveries, Statuses), job' \in [Deliveries -> Jobs],
         missed' \subseteq Deliveries, UNCHANGED <<calls, note, letters, copies, faults>>
  PROVE  TypeInv' /\ Keeps
BY WorkMoves DEF TypeInv, TypeOK, KnownInv, Keeps, Exists

LEMMA Facts ==
  ASSUME TypeInv
  PROVE  /\ work \in [Conns -> Works] /\ job \in [Deliveries -> Jobs]
         /\ note \in Tables(Requests, NoteStatuses) /\ delivery \in Tables(Deliveries, Statuses)
         /\ copies \in [Deliveries -> Nat] /\ faults \in [Deliveries -> Nat]
         /\ letters \in [Deliveries -> Nat] /\ missed \subseteq Deliveries
         /\ \A c \in Conns : work[c].pc # "idle" => work[c].on \in Deliveries /\ Exists(work[c].on[1])
         /\ \A d \in Deliveries : d[1] \in Requests
         /\ Workers \subseteq Conns /\ Callbacks \subseteq Conns
         /\ Idle \in Works /\ Idle.pc = "idle"
BY Parent, NotificationConstants DEF TypeInv, TypeOK, KnownInv, On, NoteOf, Idle, Works, Steps, Results, NoteStatuses

LEMMA TakeType ==
  ASSUME TypeInv, NEW w \in Workers, NEW d \in Deliveries, Take(w, d)
  PROVE  TypeInv' /\ Keeps
<1> USE DEF At
<1>1. job' \in [Deliveries -> Jobs] /\ missed' \subseteq Deliveries
  <2>1. PICK state \in {"active", "done"} : job' = [job EXCEPT ![d].state = state]
    BY DEF Take
  <2>2. job \in [Deliveries -> Jobs] /\ missed' \in {missed, missed \cup {d}}
    BY Facts DEF Take
  <2>3. [job[d] EXCEPT !.state = state] \in Jobs
    BY <2>1, <2>2 DEF Jobs
  <2> QED
    BY <2>1, <2>2, <2>3, Facts
<1>2. UNCHANGED <<calls, note, delivery, letters, copies, faults>> /\ delivery' \in Tables(Deliveries, Statuses)
  BY Facts DEF Take
<1>3. CASE Exists(d[1])
  <2> DEFINE q == [Idle EXCEPT !.pc = "send", !.on = d]
  <2>1. q \in Works /\ q.pc = "send" /\ q.on = d
    BY Facts DEF Works, Steps
  <2>2. work' = [work EXCEPT ![w] = q]
    BY <1>3 DEF Take
  <2> HIDE DEF q
  <2> QED
    BY <1>1, <1>2, <1>3, <2>1, <2>2, WorkOnly, Facts
<1>4. CASE ~Exists(d[1])
  <2>1. work' = [work EXCEPT ![w] = work[w]] /\ work[w] \in Works
    BY <1>4, Facts DEF Take
  <2>2. work[w].pc = "idle"
    BY DEF Take
  <2> QED
    BY <1>1, <1>2, <2>1, <2>2, WorkOnly, Facts
<1> QED
  BY <1>3, <1>4

LEMMA SendType ==
  ASSUME TypeInv, NEW w \in Workers, Send(w)
  PROVE  TypeInv' /\ Keeps
<1> USE DEF At, On
<1>1. PICK result \in Results : Answered(w, result)
  BY DEF Send, Results
<1> DEFINE q == [work[w] EXCEPT !.pc = "record", !.result = result]
<1>2. work[w].pc # "idle"
  BY DEF Send
<1>3. work' = [work EXCEPT ![w] = q] /\ q \in Works /\ q.pc = "record" /\ q.on = work[w].on
  BY <1>1, Facts DEF Answered, Works, Steps
<1> HIDE DEF q
<1>4. /\ copies' \in [Deliveries -> Nat] /\ faults' \in [Deliveries -> Nat]
      /\ \A d \in Deliveries : copies'[d] > copies[d] => d = work[w].on
  BY <1>2, Facts DEF Send, Fault
<1>5. UNCHANGED <<calls, note, delivery, letters, job, missed>>
  BY DEF Send
<1>6. \A d \in Deliveries : copies'[d] > 0 \/ letters'[d] > 0 => Exists(d[1])
  BY <1>2, <1>4, <1>5, Facts DEF TypeInv, KnownInv
<1>7. Keeps
  BY <1>5 DEF Keeps, Exists
<1>8. \A n \in Requests, e \in Conns : note'.lock[n] = e => Exists(n) /\ note'.new[n] # "none"
  BY <1>5 DEF TypeInv, KnownInv
<1> QED
  BY <1>2, <1>3, <1>4, <1>5, <1>6, <1>7, <1>8, WorkMoves, Facts

\* A step to another statement.
LEMMA Goes ==
  ASSUME TypeInv, NEW c \in Conns, NEW pc \in Steps, Goto(c, pc), work[c].pc # "idle"
  PROVE  \E q \in Works :
           /\ work' = [work EXCEPT ![c] = q] /\ q.pc = pc /\ q.on = work[c].on /\ q.to = work[c].to
           /\ q.result = work[c].result /\ q.on \in Deliveries /\ Exists(q.on[1])
<1> DEFINE q == [work[c] EXCEPT !.pc = pc]
<1>1. q \in Works /\ q.pc = pc /\ q.on = work[c].on /\ q.to = work[c].to /\ q.result = work[c].result
  BY Facts DEF Works
<1>2. work' = [work EXCEPT ![c] = q]
  BY DEF Goto
<1> HIDE DEF q
<1> QED
  BY <1>1, <1>2, Facts

LEMMA NextStatusType == \A w \in Workers : NextStatus(w) \in Statuses \ {"none", "queued"}
BY DEF NextStatus, Statuses, Settled

LEMMA RollupType == \A statuses : Rollup(statuses) \in {"partially_failed", "delivered", "failed"}
BY DEF Rollup

LEMMA RecordType ==
  ASSUME TypeInv, NEW w \in Workers, Record(w)
  PROVE  TypeInv' /\ Keeps
<1>1. Goto(w, "read") /\ work[w].pc = "record" /\ "read" \in Steps
  BY DEF Record, At, Steps
<1>2. PICK q \in Works : /\ work' = [work EXCEPT ![w] = q] /\ q.pc = "read"
                         /\ q.on \in Deliveries /\ Exists(q.on[1])
  BY <1>1, Goes, Facts
<1>3. delivery' = Written(delivery, w, work[w].on, NextStatus(w))
      /\ UNCHANGED <<calls, note, letters, job, copies, faults, missed>>
  BY DEF Record, On
<1>4. delivery' \in Tables(Deliveries, Statuses)
  BY <1>1, <1>3, WrittenFacts, NextStatusType, Facts
<1> QED
  BY <1>2, <1>3, <1>4, WorkOnly, Facts

LEMMA SettleOnType ==
  ASSUME TypeInv, NEW c \in Conns, NEW statuses, SettleOn(c, statuses), work[c].pc # "idle",
         UNCHANGED <<calls, note, delivery, letters, job, copies, faults, missed>>
  PROVE  TypeInv' /\ Keeps
<1>1. CASE "queued" \notin statuses
  <2> DEFINE q == [work[c] EXCEPT !.pc = "settle", !.to = Rollup(statuses)]
  <2>1. q \in Works /\ q.pc = "settle" /\ q.on = work[c].on /\ q.to # "none"
    BY Facts, RollupType DEF Works, Steps, NoteStatuses
  <2>2. work' = [work EXCEPT ![c] = q]
    BY <1>1 DEF SettleOn
  <2> HIDE DEF q
  <2> QED
    BY <2>1, <2>2, WorkOnly, Facts
<1>2. CASE "queued" \in statuses
  <2>1. Goto(c, "commit") /\ "commit" \in Steps
    BY <1>2 DEF SettleOn, Goto, Steps
  <2>2. PICK q \in Works : /\ work' = [work EXCEPT ![c] = q] /\ q.pc = "commit"
                           /\ q.on \in Deliveries /\ Exists(q.on[1])
    BY <2>1, Goes
  <2> QED
    BY <2>2, WorkOnly, Facts
<1> QED
  BY <1>1, <1>2

LEMMA SettleNotificationType ==
  ASSUME TypeInv, NEW w \in Workers, SettleNotification(w)
  PROVE  TypeInv' /\ Keeps
<1> DEFINE n0 == work[w].on[1]
<1>1. Goto(w, "commit") /\ work[w].pc = "settle" /\ "commit" \in Steps /\ work[w].to # "none"
  BY Facts DEF SettleNotification, At, Steps, TypeInv, KnownInv
<1>2. PICK q \in Works : /\ work' = [work EXCEPT ![w] = q] /\ q.pc = "commit"
                         /\ q.on \in Deliveries /\ Exists(q.on[1])
  BY <1>1, Goes, Facts
<1>3. note' = Written(note, w, n0, work[w].to) /\ Free(note, w, n0)
      /\ UNCHANGED <<calls, delivery, letters, job, copies, faults, missed>>
  BY DEF SettleNotification, On, NoteOf
<1>4. n0 \in Requests /\ Exists(n0) /\ work[w].to \in NoteStatuses
  BY <1>1, Facts DEF Works
<1>5. /\ note' \in Tables(Requests, NoteStatuses) /\ note'.row = note.row
      /\ \A y \in Requests : /\ note'.new[y] = IF y = n0 THEN work[w].to ELSE note.new[y]
                             /\ note'.lock[y] = IF y = n0 THEN w ELSE note.lock[y]
  BY <1>3, <1>4, WrittenFacts, Facts
<1>6. Keeps
      /\ \A n \in Requests, e \in Conns : note'.lock[n] = e => Exists(n) /\ note'.new[n] # "none"
  BY <1>1, <1>4, <1>5 DEF Keeps, Exists, TypeInv, KnownInv
<1>7. \A d \in Deliveries : copies'[d] > 0 \/ letters'[d] > 0 => Exists(d[1])
  BY <1>3 DEF TypeInv, KnownInv
<1> QED
  BY <1>2, <1>3, <1>5, <1>6, <1>7, WorkMoves, Facts

\* The end of a transaction leaves no notification without its row.
LEMMA EndsNote ==
  ASSUME TypeInv, NEW c \in Conns, note' \in {Committed(note, c), RolledBack(note, c)}
  PROVE  /\ note' \in Tables(Requests, NoteStatuses) /\ Keeps
         /\ \A n \in Requests, e \in Conns : note'.lock[n] = e => Exists(n) /\ note'.new[n] # "none"
<1>1. CASE note' = Committed(note, c)
  <2>1. /\ note' \in Tables(Requests, NoteStatuses) /\ note'.new = note.new
        /\ \A y \in Requests :
             /\ note'.row[y] = IF note.lock[y] = c THEN note.new[y] ELSE note.row[y]
             /\ note'.lock[y] = IF note.lock[y] = c THEN NoConn ELSE note.lock[y]
    BY <1>1, CommittedFacts, Facts
  <2> QED
    BY <2>1, NoConnIsNone DEF TypeInv, KnownInv, Keeps, Exists
<1>2. CASE note' = RolledBack(note, c)
  <2>1. /\ note' \in Tables(Requests, NoteStatuses) /\ note'.row = note.row
        /\ \A y \in Requests :
             /\ note'.new[y] = IF note.lock[y] = c THEN note.row[y] ELSE note.new[y]
             /\ note'.lock[y] = IF note.lock[y] = c THEN NoConn ELSE note.lock[y]
    BY <1>2, RolledBackFacts, Facts
  <2> QED
    BY <2>1, NoConnIsNone DEF TypeInv, KnownInv, Keeps, Exists
<1> QED
  BY <1>1, <1>2

LEMMA CommitResultType ==
  ASSUME TypeInv, NEW w \in Workers, CommitResult(w)
  PROVE  TypeInv' /\ Keeps
<1>1. Goto(w, "ack") /\ work[w].pc = "commit" /\ "ack" \in Steps
  BY DEF CommitResult, At, Steps
<1>2. PICK q \in Works : /\ work' = [work EXCEPT ![w] = q] /\ q.pc = "ack"
                         /\ q.on \in Deliveries /\ Exists(q.on[1]) /\ q.on = work[w].on
  BY <1>1, Goes, Facts
<1>3. note' = Committed(note, w) /\ delivery' = Committed(delivery, w)
      /\ UNCHANGED <<calls, job, copies, faults, missed>>
  BY DEF CommitResult
<1>4. delivery' \in Tables(Deliveries, Statuses)
  BY <1>3, CommittedFacts, Facts
<1>5. letters' \in [Deliveries -> Nat]
      /\ \A d \in Deliveries : letters'[d] > letters[d] => d = work[w].on
  <2>1. letters \in [Deliveries -> Nat] /\ work[w].on \in Deliveries
    BY <1>2, Facts
  <2> QED
    BY <2>1 DEF CommitResult, On
<1>6. \A d \in Deliveries : copies'[d] > 0 \/ letters'[d] > 0 => Exists(d[1])
  BY <1>2, <1>3, <1>5, Facts DEF TypeInv, KnownInv
<1> QED
  BY <1>2, <1>3, <1>4, <1>5, <1>6, EndsNote, WorkMoves, Facts

LEMMA AcknowledgeType ==
  ASSUME TypeInv, NEW w \in Workers, Acknowledge(w)
  PROVE  TypeInv' /\ Keeps
<1>1. job' \in [Deliveries -> Jobs]
  BY Facts DEF Acknowledge, Attempted, Jobs
<1> QED
  BY <1>1, WorkOnly, Facts DEF Acknowledge

LEMMA DropType ==
  ASSUME TypeInv, NEW w \in Workers, work[w].pc # "idle", Drop(w), job' \in [Deliveries -> Jobs]
  PROVE  TypeInv' /\ Keeps
<1>1. /\ note' = RolledBack(note, w) /\ delivery' = RolledBack(delivery, w)
      /\ work' = [work EXCEPT ![w] = Idle] /\ UNCHANGED <<calls, letters, copies, missed>>
  BY DEF Drop
<1>2. delivery' \in Tables(Deliveries, Statuses)
  BY <1>1, RolledBackFacts, Facts
<1>3. faults' \in [Deliveries -> Nat]
  <2>1. faults \in [Deliveries -> Nat] /\ work[w].on \in Deliveries
    BY Facts
  <2> QED
    BY <2>1 DEF Drop, Fault, On
<1>4. \A d \in Deliveries : copies'[d] > 0 \/ letters'[d] > 0 => Exists(d[1])
  BY <1>1 DEF TypeInv, KnownInv
<1> QED
  BY <1>1, <1>2, <1>3, <1>4, EndsNote, WorkMoves, Facts

LEMMA ThrowsType ==
  ASSUME TypeInv, NEW w \in Workers, HandleThrows(w) \/ Stop(w)
  PROVE  TypeInv' /\ Keeps
<1>1. job' \in [Deliveries -> Jobs]
  BY Facts DEF HandleThrows, Stop, Attempted, Jobs
<1> QED
  BY <1>1, DropType DEF HandleThrows, Stop, At

LEMMA ReportType ==
  ASSUME TypeInv, NEW c \in Callbacks, NEW d \in Deliveries,
         NEW status \in {"sent", "delivered", "bounced", "failed"}, Report(c, d, status)
  PROVE  TypeInv' /\ Keeps
<1> DEFINE q == [Idle EXCEPT !.pc = "read", !.on = d, !.result = status]
<1>1. q \in Works /\ q.pc = "read" /\ q.on = d
  BY Facts DEF Works, Steps, Results
<1>2. work' = [work EXCEPT ![c] = q] /\ delivery' = Written(delivery, c, d, status)
      /\ UNCHANGED <<calls, note, letters, job, copies, faults, missed>>
  BY DEF Report
<1> HIDE DEF q
<1>3. Exists(d[1])
  BY DEF Report, TypeInv, KnownInv
<1>4. delivery' \in Tables(Deliveries, Statuses)
  <2>1. status \in Statuses
    BY DEF Statuses, Settled
  <2> QED
    BY <1>2, <2>1, WrittenFacts, Facts
<1> QED
  BY <1>1, <1>2, <1>3, <1>4, WorkOnly, Facts

LEMMA SettleApartNote ==
  ASSUME TypeInv, NEW c \in Conns, NEW n0 \in Requests, Exists(n0), NEW to \in NoteStatuses \ {"none"},
         Free(note, c, n0), note' = Committed(Written(note, c, n0, to), c)
  PROVE  /\ note' \in Tables(Requests, NoteStatuses) /\ Keeps /\ note'.row[n0] = to
         /\ \A n \in Requests, e \in Conns : note'.lock[n] = e => Exists(n) /\ note'.new[n] # "none"
<1> DEFINE t == Written(note, c, n0, to)
<1>1. /\ t \in Tables(Requests, NoteStatuses) /\ t.row = note.row
      /\ \A y \in Requests : /\ t.new[y] = IF y = n0 THEN to ELSE note.new[y]
                             /\ t.lock[y] = IF y = n0 THEN c ELSE note.lock[y]
  BY WrittenFacts, Facts
<1> HIDE DEF t
<1>2. note' = Committed(t, c)
  BY DEF t
<1>3. /\ note' \in Tables(Requests, NoteStatuses) /\ note'.new = t.new
      /\ \A y \in Requests : /\ note'.row[y] = IF t.lock[y] = c THEN t.new[y] ELSE t.row[y]
                             /\ note'.lock[y] = IF t.lock[y] = c THEN NoConn ELSE t.lock[y]
  BY <1>1, <1>2, CommittedFacts
<1> QED
  BY <1>1, <1>3, NoConnIsNone DEF TypeInv, KnownInv, Keeps, Exists

LEMMA SettleApartType ==
  ASSUME TypeInv, NEW c \in Callbacks, SettleApart(c)
  PROVE  TypeInv' /\ Keeps
<1>1. Goto(c, "commit") /\ work[c].pc = "settle" /\ "commit" \in Steps /\ work[c].to # "none"
  BY Facts DEF SettleApart, At, Steps, TypeInv, KnownInv
<1>2. PICK q \in Works : /\ work' = [work EXCEPT ![c] = q] /\ q.pc = "commit"
                         /\ q.on \in Deliveries /\ Exists(q.on[1])
  BY <1>1, Goes, Facts
<1>3. /\ note' = Committed(Written(note, c, work[c].on[1], work[c].to), c)
      /\ Free(note, c, work[c].on[1])
      /\ UNCHANGED <<calls, delivery, letters, job, copies, faults, missed>>
  BY DEF SettleApart, On, NoteOf
<1>4. work[c].on[1] \in Requests /\ Exists(work[c].on[1]) /\ work[c].to \in NoteStatuses
  BY <1>1, Facts DEF Works
<1>5. \A d \in Deliveries : copies'[d] > 0 \/ letters'[d] > 0 => Exists(d[1])
  BY <1>3 DEF TypeInv, KnownInv
<1> DEFINE n0 == work[c].on[1]
           to == work[c].to
<1>6. to \in NoteStatuses \ {"none"} /\ n0 \in Requests /\ Exists(n0) /\ Free(note, c, n0)
      /\ note' = Committed(Written(note, c, n0, to), c)
  BY <1>1, <1>3, <1>4
<1> HIDE DEF n0, to
<1>7. /\ note' \in Tables(Requests, NoteStatuses) /\ Keeps
      /\ \A n \in Requests, e \in Conns : note'.lock[n] = e => Exists(n) /\ note'.new[n] # "none"
  BY <1>6, SettleApartNote, Facts
<1> QED
  BY <1>1, <1>2, <1>3, <1>5, <1>7, WorkMoves, Facts

LEMMA EndReportType ==
  ASSUME TypeInv, NEW c \in Callbacks, EndReport(c)
  PROVE  TypeInv' /\ Keeps
<1> DEFINE q == [Idle EXCEPT !.pc = "done", !.on = work[c].on]
<1>1. work[c].pc # "idle"
  BY DEF EndReport, At
<1>2. q \in Works /\ q.pc = "done" /\ q.on = work[c].on
  BY <1>1, Facts DEF Works, Steps
<1>3. work' = [work EXCEPT ![c] = q] /\ UNCHANGED <<calls, note, letters, job, copies, faults, missed>>
  BY DEF EndReport, On
<1> HIDE DEF q
<1>4. delivery' \in Tables(Deliveries, Statuses)
  BY CommittedFacts, RolledBackFacts, Facts DEF EndReport
<1> QED
  BY <1>1, <1>2, <1>3, <1>4, WorkOnly, Facts

-----------------------------------------------------------------------------
LEMMA ReadsType ==
  ASSUME TypeInv, NEW c \in Conns, ReadDeliveries(c) \/ ReadCommitted(c)
  PROVE  TypeInv' /\ Keeps
BY SettleOnType DEF ReadDeliveries, ReadCommitted, At

\* Steps other than those of dispatch.
Elsewhere ==
  \/ \E d \in Deliveries : Enqueue(d)
  \/ \E w \in Workers : Handle(w) \/ HandleThrows(w) \/ Stop(w)
  \/ \E c \in Callbacks : Callback(c)
  \/ UNCHANGED vars

LEMMA ElsewhereType ==
  ASSUME TypeInv, Elsewhere
  PROVE  TypeInv' /\ Keeps /\ UNCHANGED <<request, stamped>>
<1>1. ASSUME NEW w \in Workers, Handle(w) PROVE TypeInv' /\ Keeps /\ UNCHANGED <<request, stamped>>
  <2>1. TypeInv' /\ Keeps
    BY <1>1, Facts, TakeType, SendType, RecordType, ReadsType, SettleNotificationType,
       CommitResultType, AcknowledgeType DEF Handle
  <2> QED
    BY <1>1, <2>1 DEF Handle, Take, Send, Record, ReadDeliveries, SettleNotification, CommitResult,
       Acknowledge, calls
<1>2. ASSUME NEW w \in Workers, HandleThrows(w) \/ Stop(w)
      PROVE  TypeInv' /\ Keeps /\ UNCHANGED <<request, stamped>>
  BY <1>2, ThrowsType DEF HandleThrows, Stop, Drop, calls
<1>3. ASSUME NEW c \in Callbacks, Callback(c)
      PROVE  TypeInv' /\ Keeps /\ UNCHANGED <<request, stamped>>
  <2>1. TypeInv' /\ Keeps
    BY <1>3, Facts, ReportType, ReadsType, SettleApartType, EndReportType DEF Callback
  <2> QED
    BY <1>3, <2>1 DEF Callback, Report, ReadCommitted, SettleApart, EndReport, calls
<1>4. ASSUME NEW d \in Deliveries, Enqueue(d)
      PROVE  TypeInv' /\ Keeps /\ UNCHANGED <<request, stamped>>
  BY <1>4, EnqueueType DEF Enqueue
<1>5. CASE UNCHANGED vars
  BY <1>5 DEF vars, TypeInv, TypeOK, CallInv, KnownInv, Exists, On, NoteOf, Keeps
<1> QED
  BY <1>1, <1>2, <1>3, <1>4, <1>5 DEF Elsewhere

LEMMA Steppers == [Next]_vars => Elsewhere \/ \E r \in Requests : Dispatch(r)
BY DEF Next, Elsewhere

LEMMA StepType == TypeInv /\ [Next]_vars => TypeInv' /\ Grows
<1> SUFFICES ASSUME TypeInv, [Next]_vars PROVE TypeInv' /\ Grows
  OBVIOUS
<1>1. Keeps => Grows
  BY DEF Keeps, Grows
<1>2. ASSUME NEW r \in Requests, Dispatch(r) PROVE TypeInv' /\ Grows
  BY <1>1, <1>2, CallType, CommitDispatchType, StampType DEF Dispatch
<1> QED
  BY <1>1, <1>2, ElsewhereType, Steppers

\* Every variable of dispatch, the workers and the callbacks has its type.
THEOREM TypeCorrect == Spec => []TypeOK
<1>1. TypeInv => TypeOK
  BY DEF TypeInv
<1>2. TypeInv /\ [Next]_vars => TypeInv'
  BY StepType
<1> QED
  BY <1>1, <1>2, InitType, PTL DEF Spec

-----------------------------------------------------------------------------
(***************************************************************************)
(* One notification per key.  A call that may insert or has inserted owns  *)
(* its key: the unique index lets no second one own it.                    *)
(***************************************************************************)
Owns(r) == request[r].pc \in {"compile", "commit"} \/ Exists(r)

OneOwner == \A r, s \in Requests : Same(r, s) /\ Owns(r) /\ Owns(s) => r = s

AnswerHasKey ==
  \A r \in Requests :
    request[r].pc \in {"stamp", "answered"} => request[request[r].answer].key = request[r].key

AnswerInv == TypeInv /\ OneOwner /\ AnswerHasKey

LEMMA CallKeeps ==
  ASSUME AnswerInv, NEW r \in Requests, NEW q \in RequestRows, TypeInv',
         request' = [request EXCEPT ![r] = q],
         request[r].pc # "idle" => q.key = request[r].key,
         \A n \in Requests \ {r} : Exists(n)' <=> Exists(n),
         Exists(r)' => Exists(r) \/ request[r].pc = "commit",
         q.pc \in {"compile", "commit"} =>
           /\ request[r].pc # "idle"
           /\ Owns(r) \/ \A n \in Requests \ {r} : Same(r, n) => ~Owns(n),
         q.pc \in {"stamp", "answered"} =>
           q.answer = r \/ (q.answer \in Requests \ {r} /\ request[q.answer].key = q.key)
  PROVE  AnswerInv'
<1>1. /\ request'[r] = q /\ \A s \in Requests \ {r} : request'[s] = request[s]
      /\ request[r].pc = "idle" => ~Exists(r)
  BY DEF AnswerInv, TypeInv, TypeOK, CallInv
<1>2. ASSUME NEW s \in Requests \ {r}, request'[s].key = q.key, q.key # NoKey, Owns(r)', Owns(s)'
      PROVE  FALSE
  <2>1. Owns(s)
    BY <1>1, <1>2 DEF Owns
  <2>2. request[r].pc # "idle" /\ q.key = request[r].key
    BY <1>1, <1>2 DEF Owns
  <2>3. Same(r, s) /\ Same(s, r)
    BY <1>1, <1>2, <2>2 DEF Same
  <2>4. Owns(r)
    BY <1>1, <1>2, <2>1, <2>3 DEF Owns
  <2> QED
    BY <2>1, <2>3, <2>4 DEF AnswerInv, OneOwner
<1>3. ASSUME NEW s \in Requests \ {r}, NEW t \in Requests \ {r}, Same(s, t)', Owns(s)', Owns(t)'
      PROVE  s = t
  BY <1>1, <1>3 DEF AnswerInv, OneOwner, Owns, Same
<1>4. OneOwner'
  BY <1>1, <1>2, <1>3 DEF OneOwner, Same
<1>5. AnswerHasKey'
  <2> SUFFICES ASSUME NEW s \in Requests, request'[s].pc \in {"stamp", "answered"}
               PROVE  request'[request'[s].answer].key = request'[s].key
    BY DEF AnswerHasKey
  <2>1. CASE s = r
    BY <1>1, <2>1
  <2>2. CASE s # r
    <3> DEFINE a == request[s].answer
    <3>1. a \in Requests /\ Exists(a) /\ request[a].key = request[s].key /\ request'[s] = request[s]
      BY <1>1, <2>2 DEF AnswerInv, AnswerHasKey, TypeInv, CallInv
    <3>2. CASE a = r
      BY <1>1, <3>1, <3>2
    <3>3. CASE a # r
      BY <1>1, <3>1, <3>3
    <3> QED
      BY <3>2, <3>3
  <2> QED
    BY <2>1, <2>2
<1> QED
  BY <1>4, <1>5 DEF AnswerInv

\* The same, for a call that only goes to another statement.
LEMMA CallGoes ==
  ASSUME AnswerInv, NEW r \in Requests, NEW pc \in {"compile", "answered", "failed"}, Turn(r, pc),
         request[r].pc # "idle", TypeInv', Keeps,
         pc = "compile" => \A n \in Requests \ {r} : Same(r, n) => ~Owns(n),
         pc = "answered" => request[r].pc = "stamp"
  PROVE  AnswerInv'
<1> DEFINE q == [request[r] EXCEPT !.pc = pc]
<1>1. /\ q \in RequestRows /\ q.pc = pc /\ q.key = request[r].key /\ q.answer = request[r].answer
      /\ request' = [request EXCEPT ![r] = q]
  BY DEF AnswerInv, TypeInv, TypeOK, RequestRows, RequestSteps, Turn
<1> HIDE DEF q
<1>2. pc = "answered" => q.answer \in Requests /\ request[q.answer].key = q.key
  BY <1>1 DEF AnswerInv, TypeInv, CallInv, AnswerHasKey
<1>3. \A n \in Requests : Exists(n)' <=> Exists(n)
  BY DEF Keeps, Exists
<1> QED
  BY <1>1, <1>2, <1>3, CallKeeps

LEMMA CallAnswers ==
  ASSUME AnswerInv, NEW r \in Requests, Dispatch(r)
  PROVE  AnswerInv'
<1> USE DEF Serving
<1>1. request \in [Requests -> RequestRows] /\ NotCalled \in RequestRows /\ TypeInv
  BY DEF AnswerInv, TypeInv, TypeOK, NotCalled, RequestRows, RequestSteps
<1>2. ASSUME NEW key \in Keys \cup {NoKey}, BeginDispatch(r, key) PROVE AnswerInv'
  <2> DEFINE found == {n \in Requests : Exists(n) /\ request[n].key = key}
             begun == [NotCalled EXCEPT !.pc = "insert", !.key = key]
             known == [NotCalled EXCEPT !.pc = "answered", !.key = key,
                                        !.answer = CHOOSE n \in found : TRUE]
  <2>1. TypeInv' /\ Keeps
    BY <1>1, <1>2, CallType
  <2>2. \A n \in Requests : Exists(n)' <=> Exists(n)
    BY <2>1 DEF Keeps, Exists
  <2>3. request[r].pc = "idle" /\ ~Exists(r)
    BY <1>1, <1>2 DEF BeginDispatch, TypeInv, CallInv
  <2>4. CASE key = NoKey \/ found = {}
    <3>1. begun \in RequestRows /\ begun.pc = "insert"
      BY <1>1 DEF RequestRows, RequestSteps
    <3>2. request' = [request EXCEPT ![r] = begun]
      BY <1>2, <2>4 DEF BeginDispatch
    <3> HIDE DEF begun
    <3> QED
      BY <2>1, <2>2, <2>3, <3>1, <3>2, CallKeeps
  <2>5. CASE ~(key = NoKey \/ found = {})
    <3>1. (CHOOSE n \in found : TRUE) \in found
      BY <2>5
    <3>2. known \in RequestRows /\ known.pc = "answered" /\ known.answer \in found /\ known.key = key
      BY <1>1, <3>1 DEF RequestRows, RequestSteps
    <3>3. request' = [request EXCEPT ![r] = known]
      BY <1>2, <2>5 DEF BeginDispatch
    <3>4. known.answer \in Requests \ {r} /\ request[known.answer].key = known.key
      BY <2>3, <3>2
    <3> HIDE DEF known
    <3> QED
      BY <2>1, <2>2, <2>3, <3>2, <3>3, <3>4, CallKeeps
  <2> QED
    BY <2>4, <2>5
<1>3. ASSUME NEW d \in Deliveries, retry(r, d) PROVE AnswerInv'
  <2> DEFINE again == [NotCalled EXCEPT !.pc = "insert", !.of = d]
  <2>1. again \in RequestRows /\ again.pc = "insert"
    BY <1>1 DEF RequestRows, RequestSteps
  <2>2. request' = [request EXCEPT ![r] = again] /\ request[r].pc = "idle"
    BY <1>3 DEF retry
  <2>3. TypeInv' /\ \A n \in Requests : Exists(n)' <=> Exists(n)
    BY <1>1, <1>3, CallType DEF Keeps, Exists
  <2> HIDE DEF again
  <2> QED
    BY <2>1, <2>2, <2>3, CallKeeps
<1>4. CASE InsertNotification(r)
  <2> DEFINE others == {n \in Requests \ {r} : Same(r, n)}
             pc == IF \E n \in others : Exists(n) THEN "failed" ELSE "compile"
  <2>1. /\ Turn(r, pc) /\ request[r].pc = "insert"
        /\ \A n \in others : request[n].pc \notin {"compile", "commit"}
    BY <1>4 DEF InsertNotification
  <2>2. pc = "compile" => \A n \in Requests \ {r} : Same(r, n) => ~Owns(n)
    BY <2>1 DEF Owns
  <2>3. TypeInv' /\ Keeps
    BY <1>1, <1>4, CallType
  <2>4. pc \in {"compile", "failed"}
    OBVIOUS
  <2> HIDE DEF pc
  <2> QED
    BY <2>1, <2>2, <2>3, <2>4, CallGoes
<1>5. CASE AbortDispatch(r)
  <2>1. TypeInv' /\ Keeps
    BY <1>1, <1>5, CallType
  <2> QED
    BY <1>5, <2>1, CallGoes DEF AbortDispatch
<1>6. CASE Stamp(r)
  <2>1. TypeInv' /\ Keeps
    BY <1>1, <1>6, StampType
  <2> QED
    BY <1>6, <2>1, CallGoes DEF Stamp
<1>7. CASE WriteDeliveries(r)
  <2>1. PICK rows \in [Channels -> {"none", "queued", "suppressed"}] :
          request' = [request EXCEPT ![r].pc = "commit", ![r].as = rows]
    BY <1>7 DEF WriteDeliveries
  <2> DEFINE q == [request[r] EXCEPT !.pc = "commit", !.as = rows]
  <2>2. q \in RequestRows /\ q.pc = "commit" /\ request' = [request EXCEPT ![r] = q]
        /\ q.key = request[r].key
    BY <1>1, <2>1 DEF RequestRows, RequestSteps
  <2>3. TypeInv' /\ \A n \in Requests : Exists(n)' <=> Exists(n)
    BY <1>1, <1>7, CallType DEF Keeps, Exists
  <2>4. request[r].pc = "compile" /\ Owns(r)
    BY <1>7 DEF WriteDeliveries, Owns
  <2> HIDE DEF q
  <2> QED
    BY <2>2, <2>3, <2>4, CallKeeps
<1>8. CASE CommitDispatch(r)
  <2> DEFINE q == [request[r] EXCEPT !.answer = r,
                !.pc = IF request[r].of = NoDelivery THEN "answered" ELSE "stamp"]
  <2>1. /\ q \in RequestRows /\ q.pc \in {"answered", "stamp"} /\ q.answer = r
        /\ request' = [request EXCEPT ![r] = q] /\ q.key = request[r].key
    BY <1>1, <1>8 DEF RequestRows, RequestSteps, CommitDispatch
  <2>2. TypeInv' /\ \A n \in Requests \ {r} : Exists(n)' <=> Exists(n)
    BY <1>1, <1>8, CommitDispatchType DEF Exists
  <2>3. request[r].pc = "commit"
    BY <1>8 DEF CommitDispatch
  <2> HIDE DEF q
  <2> QED
    BY <2>1, <2>2, <2>3, CallKeeps
<1> QED
  BY <1>2, <1>3, <1>4, <1>5, <1>6, <1>7, <1>8 DEF Dispatch

LEMMA StepAnswers == AnswerInv /\ [Next]_vars => AnswerInv'
<1> SUFFICES ASSUME AnswerInv, [Next]_vars PROVE AnswerInv'
  OBVIOUS
<1>1. CASE Elsewhere
  <2>1. TypeInv' /\ Keeps /\ request' = request
    BY <1>1, ElsewhereType DEF AnswerInv
  <2> QED
    BY <2>1 DEF AnswerInv, OneOwner, AnswerHasKey, Owns, Same, Exists, Keeps
<1> QED
  BY <1>1, CallAnswers, Steppers

\* Whatever the calls under one key do at the same time, all that are answered are
\* answered with one notification, and it is in the table (dispatch, with the unique index
\* on the idempotency key).
THEOREM AnswersAgreeCorrect == Spec => []AnswersAgree
<1>1. Init => AnswerInv
  <2> SUFFICES ASSUME Init PROVE AnswerInv
    OBVIOUS
  <2>1. \A r \in Requests : request[r].pc = "idle" /\ ~Exists(r)
    BY DEF Init, NotCalled, Filled, Exists
  <2> QED
    BY <2>1, InitType DEF AnswerInv, OneOwner, AnswerHasKey, Owns
<1>2. AnswerInv => AnswersAgree
  BY DEF AnswerInv, TypeInv, CallInv, OneOwner, AnswerHasKey, AnswersAgree, Owns, Same, Serving
<1> QED
  BY <1>1, <1>2, StepAnswers, PTL DEF Spec

-----------------------------------------------------------------------------
(***************************************************************************)
(* A dead letter is stamped by the call that has sent it again.            *)
(***************************************************************************)
ResentInv == TypeInv /\ StampedWasResent

LEMMA StepResent == ResentInv /\ [Next]_vars => ResentInv'
<1> SUFFICES ASSUME ResentInv, [Next]_vars PROVE ResentInv'
  OBVIOUS
<1> USE DEF ResentInv
<1>1. TypeInv' /\ Grows
  BY StepType
<1>2. CASE Elsewhere
  BY <1>1, <1>2, ElsewhereType DEF StampedWasResent, Grows, Exists
<1>3. ASSUME NEW r \in Requests, Dispatch(r) PROVE StampedWasResent'
  <2>1. \A s \in Requests : Exists(s) => Exists(s)' /\ request'[s].of = request[s].of
    <3>1. request \in [Requests -> RequestRows] /\ (request[r].pc = "idle" => ~Exists(r))
      BY DEF TypeInv, TypeOK, CallInv
    <3>2. \A s \in Requests : Exists(s) => request'[s].of = request[s].of
      <4>1. CASE \E key \in Keys \cup {NoKey} : BeginDispatch(r, key)
        BY <3>1, <4>1 DEF BeginDispatch, Serving
      <4>2. CASE \E d \in Deliveries : retry(r, d)
        BY <3>1, <4>2 DEF retry, Serving
      <4>3. CASE InsertNotification(r) \/ Stamp(r) \/ AbortDispatch(r)
        BY <3>1, <4>3 DEF InsertNotification, Stamp, AbortDispatch, Turn, RequestRows
      <4>4. CASE WriteDeliveries(r)
        BY <3>1, <4>4 DEF WriteDeliveries, RequestRows
      <4>5. CASE CommitDispatch(r)
        BY <3>1, <4>5 DEF CommitDispatch, RequestRows
      <4> QED
        BY <1>3, <4>1, <4>2, <4>3, <4>4, <4>5 DEF Dispatch
    <3> QED
      BY <1>1, <3>2 DEF Grows, Exists
  <2>2. \A d \in stamped' : d \in stamped \/ (request[r].of = d /\ Exists(r))
    BY <1>3 DEF Dispatch, BeginDispatch, retry, InsertNotification, WriteDeliveries,
       CommitDispatch, Stamp, AbortDispatch, Serving, TypeInv, CallInv
  <2> QED
    BY <2>1, <2>2 DEF StampedWasResent
<1> QED
  BY <1>1, <1>2, <1>3, Steppers

\* A dead letter is marked as retried only when a notification for it is in the table
\* (DeadLettersService.retry dispatches first).
THEOREM StampedWasResentCorrect == Spec => []StampedWasResent
<1>1. Init => ResentInv
  BY InitType DEF Init, ResentInv, StampedWasResent
<1>2. ResentInv => StampedWasResent
  BY DEF ResentInv
<1> QED
  BY <1>1, <1>2, StepResent, PTL DEF Spec

-----------------------------------------------------------------------------
(***************************************************************************)
(* Copies.  A job is added once, and one worker has it; a copy goes out    *)
(* when it starts, so a job that may start again has had a fault for every *)
(* copy there is.                                                          *)
(***************************************************************************)
Unsure(w) == work[w].pc = "send" \/ work[w].result # "sent"

Paid(d) == copies[d] <= faults[d]

AddedOnce ==
  \A d \in Deliveries :
    /\ request[d[1]].pc \in {"idle", "insert", "compile"} => d \notin unsent /\ job[d].state = "none"
    /\ d \in unsent => job[d].state = "none"

OneWorker ==
  \A w \in Workers : work[w].pc # "idle" =>
    /\ job[work[w].on].state = "active"
    /\ \A v \in Workers : work[v].pc # "idle" /\ work[v].on = work[w].on => v = w

CopiesPaid ==
  /\ \A d \in Deliveries : copies[d] <= 1 + faults[d]
  /\ \A d \in Deliveries : job[d].state \in {"none", "waiting"} => Paid(d)
  /\ \A w \in Workers : work[w].pc # "idle" /\ Unsure(w) => Paid(work[w].on)

SpareInv == TypeInv /\ AddedOnce /\ OneWorker /\ CopiesPaid

LEMMA InitSpare == Init => SpareInv
<1> SUFFICES ASSUME Init PROVE SpareInv
  OBVIOUS
<1>1. TypeInv
  BY InitType
<1>2. AddedOnce /\ OneWorker
  BY NotificationConstants DEF Init, AddedOnce, OneWorker, NoJob, Idle
<1>3. CopiesPaid
  BY NotificationConstants DEF Init, CopiesPaid, Paid, Idle
<1> QED
  BY <1>1, <1>2, <1>3 DEF SpareInv

\* A call adds jobs when it has compiled, for deliveries of its own.
LEMMA CallSpare ==
  ASSUME SpareInv, NEW r \in Requests, Dispatch(r), TypeInv'
  PROVE  SpareInv'
<1> USE DEF Serving
<1>1. UNCHANGED tracked
  BY DEF Dispatch, BeginDispatch, retry, InsertNotification, WriteDeliveries, CommitDispatch,
     Stamp, AbortDispatch
<1>2. request \in [Requests -> RequestRows]
  BY DEF SpareInv, TypeInv, TypeOK
<1>3. CASE WriteDeliveries(r)
  <2>1. PICK rows \in [Channels -> {"none", "queued", "suppressed"}] :
          /\ request' = [request EXCEPT ![r].pc = "commit", ![r].as = rows]
          /\ unsent' = unsent \cup {x \in Deliveries : x[1] = r /\ rows[x[2]] = "queued"}
    BY <1>3 DEF WriteDeliveries
  <2>2. request'[r].pc = "commit" /\ \A s \in Requests \ {r} : request'[s] = request[s]
    BY <1>2, <2>1 DEF RequestRows
  <2>3. \A d \in Deliveries : d[1] = r => job[d].state = "none"
    BY <1>3 DEF WriteDeliveries, SpareInv, AddedOnce
  <2>4. AddedOnce'
    BY <1>1, <2>1, <2>2, <2>3, Parent DEF SpareInv, AddedOnce, tracked
  <2> QED
    BY <1>1, <2>4 DEF SpareInv, OneWorker, CopiesPaid, Paid, Unsure, tracked
<1>4. CASE ~WriteDeliveries(r)
  <2>1. unsent' = unsent
    BY <1>4 DEF Dispatch, BeginDispatch, retry, InsertNotification, CommitDispatch, Stamp,
       AbortDispatch
  <2>2. \A s \in Requests : request'[s].pc \in {"idle", "insert", "compile"} =>
          request[s].pc \in {"idle", "insert", "compile"}
    <3>1. CASE \E key \in Keys \cup {NoKey} : BeginDispatch(r, key)
      BY <1>2, <3>1 DEF BeginDispatch
    <3>2. CASE \E d \in Deliveries : retry(r, d)
      BY <1>2, <3>2 DEF retry
    <3>3. CASE InsertNotification(r) \/ Stamp(r) \/ AbortDispatch(r)
      BY <1>2, <3>3 DEF InsertNotification, Stamp, AbortDispatch, Turn, RequestRows
    <3>4. CASE CommitDispatch(r)
      BY <1>2, <3>4 DEF CommitDispatch, RequestRows
    <3> QED
      BY <1>4, <3>1, <3>2, <3>3, <3>4 DEF Dispatch
  <2>3. AddedOnce'
    BY <1>1, <2>1, <2>2, Parent DEF SpareInv, AddedOnce, tracked
  <2> QED
    BY <1>1, <2>3 DEF SpareInv, OneWorker, CopiesPaid, Paid, Unsure, tracked
<1> QED
  BY <1>3, <1>4

LEMMA EnqueueSpare ==
  ASSUME SpareInv, NEW d \in Deliveries, Enqueue(d), TypeInv'
  PROVE  SpareInv'
<1>1. job[d].state = "none" /\ Paid(d) /\ request[d[1]].pc \notin {"idle", "insert", "compile"}
  BY DEF Enqueue, SpareInv, AddedOnce, CopiesPaid
<1>2. /\ \A e \in Deliveries \ {d} : job'[e] = job[e]
      /\ job'[d].state \in {"none", "waiting"} /\ unsent' = unsent \ {d}
      /\ UNCHANGED <<request, work, copies, faults>>
  BY <1>1, Facts DEF Enqueue, SpareInv, Jobs
<1>3. \A w \in Workers : work[w].pc # "idle" => work[w].on \in Deliveries \ {d}
  BY <1>1, Facts DEF SpareInv, OneWorker
<1>4. AddedOnce'
  BY <1>1, <1>2 DEF SpareInv, AddedOnce
<1>5. OneWorker'
  BY <1>2, <1>3 DEF SpareInv, OneWorker
<1>6. CopiesPaid'
  BY <1>1, <1>2 DEF SpareInv, CopiesPaid, Paid, Unsure
<1> QED
  BY <1>4, <1>5, <1>6 DEF SpareInv

\* A worker that goes on with its job.
LEMMA GoesOnSpare ==
  ASSUME SpareInv, NEW w \in Workers, NEW q \in Works, work' = [work EXCEPT ![w] = q], TypeInv',
         q.on = work[w].on, work[w].pc # "idle", UNCHANGED <<calls, job>>,
         \A d \in Deliveries \ {work[w].on} : copies'[d] = copies[d] /\ faults'[d] = faults[d],
         copies'[q.on] <= 1 + faults'[q.on],
         q.pc = "send" \/ q.result # "sent" => copies'[q.on] <= faults'[q.on]
  PROVE  SpareInv'
<1>1. /\ work'[w] = q /\ \A v \in Workers \ {w} : work'[v] = work[v]
      /\ \A v \in Workers : work[v].pc # "idle" => work[v].on \in Deliveries
      /\ \A v \in Workers \ {w} : work[v].pc # "idle" => work[v].on # work[w].on
      /\ job[work[w].on].state = "active"
  BY Facts DEF SpareInv, OneWorker
<1>2. AddedOnce'
  BY DEF SpareInv, AddedOnce, calls
<1>3. OneWorker'
  BY <1>1 DEF SpareInv, OneWorker
<1>4. CopiesPaid'
  BY <1>1 DEF SpareInv, CopiesPaid, Paid, Unsure
<1> QED
  BY <1>2, <1>3, <1>4 DEF SpareInv

LEMMA SendSpare ==
  ASSUME SpareInv, NEW w \in Workers, Send(w), TypeInv'
  PROVE  SpareInv'
<1> USE DEF At, On
<1>1. PICK result \in Results : Answered(w, result)
  BY DEF Send, Results
<1> DEFINE q == [work[w] EXCEPT !.pc = "record", !.result = result]
           d == work[w].on
<1>2. work[w].pc = "send" /\ d \in Deliveries /\ Paid(d)
  BY Facts DEF Send, SpareInv, CopiesPaid, Unsure
<1>3. /\ work' = [work EXCEPT ![w] = q] /\ q \in Works /\ q.pc = "record" /\ q.on = d
      /\ q.result = result /\ work'[w] = q
  BY <1>1, Facts DEF Answered, Works, Steps, SpareInv
<1>4. copies \in [Deliveries -> Nat] /\ faults \in [Deliveries -> Nat] /\ TypeInv
  BY Facts DEF SpareInv
<1>5. /\ \A e \in Deliveries \ {d} : copies'[e] = copies[e] /\ faults'[e] = faults[e]
      /\ copies'[d] <= 1 + faults'[d] /\ (result # "sent" => copies'[d] <= faults'[d])
  <2>1. CASE Answered(w, "sent") /\ copies' = [copies EXCEPT ![d] = @ + 1] /\ UNCHANGED faults
    <3>1. work'[w].result = "sent"
      <4> DEFINE p == [work[w] EXCEPT !.pc = "record", !.result = "sent"]
      <4>1. work[w] \in Works /\ w \in Conns /\ work \in [Conns -> Works]
        BY <1>4, Facts
      <4>2. work' = [work EXCEPT ![w] = p] /\ p.result = "sent"
        BY <2>1, <4>1 DEF Answered, Works
      <4> HIDE DEF p
      <4> QED
        BY <4>1, <4>2
    <3> QED
      <4>1. result = "sent"
        BY <1>3, <3>1
      <4>2. copies[d] <= faults[d]
        BY <1>2 DEF Paid
      <4> HIDE DEF d
      <4> QED
        BY <1>2, <1>4, <2>1, <4>1, <4>2
  <2>2. CASE copies' = [copies EXCEPT ![d] = @ + 1] /\ Fault(d)
    BY <1>2, <1>4, <2>2 DEF Paid, Fault
  <2>3. CASE UNCHANGED <<copies, faults>>
    BY <1>2, <1>4, <2>3 DEF Paid
  <2> QED
    BY <2>1, <2>2, <2>3 DEF Send
<1>6. UNCHANGED <<calls, job>>
  BY DEF Send
<1> HIDE DEF q
<1> QED
  BY <1>2, <1>3, <1>5, <1>6, GoesOnSpare

LEMMA RestSpare ==
  ASSUME SpareInv, NEW w \in Workers, TypeInv',
         Record(w) \/ ReadDeliveries(w) \/ SettleNotification(w) \/ CommitResult(w)
  PROVE  SpareInv'
<1>1. /\ UNCHANGED <<calls, job, copies, faults>> /\ work[w].pc \in {"record", "read", "settle", "commit"}
  BY DEF Record, ReadDeliveries, SettleNotification, CommitResult, At
<1>2. work[w] \in Works /\ work \in [Conns -> Works] /\ work' \in [Conns -> Works] /\ w \in Conns
  BY Facts DEF SpareInv, TypeInv, TypeOK
<1>3. PICK q : /\ q \in Works /\ work' = [work EXCEPT ![w] = q] /\ q.on = work[w].on
               /\ q.pc # "send" /\ q.result = work[w].result
  <2>1. CASE \E pc \in {"read", "commit", "ack"} : Goto(w, pc)
    <3>1. PICK pc \in {"read", "commit", "ack"} : Goto(w, pc)
      BY <2>1
    <3>2. pc \in Steps /\ TypeInv /\ w \in Conns /\ work[w].pc # "idle"
      BY <1>1, <1>2 DEF Steps, SpareInv
    <3> QED
      BY <3>1, <3>2, Goes
  <2>2. CASE \E to \in NoteStatuses : work' = [work EXCEPT ![w].pc = "settle", ![w].to = to]
    <3>1. PICK to \in NoteStatuses : work' = [work EXCEPT ![w].pc = "settle", ![w].to = to]
      BY <2>2
    <3> DEFINE q == [work[w] EXCEPT !.pc = "settle", !.to = to]
    <3>2. /\ q \in Works /\ q.on = work[w].on /\ q.pc # "send" /\ q.result = work[w].result
          /\ work' = [work EXCEPT ![w] = q]
      BY <1>2, <3>1 DEF Works, Steps
    <3> QED
      BY <3>2
  <2>3. ReadDeliveries(w) =>
          \/ Goto(w, "commit")
          \/ \E to \in NoteStatuses : work' = [work EXCEPT ![w].pc = "settle", ![w].to = to]
    <3> DEFINE statuses == {Seen(delivery, w, d) : d \in RowsOf(NoteOf(w))} \ {"none"}
    <3>1. Rollup(statuses) \in NoteStatuses
      BY RollupType DEF NoteStatuses
    <3> QED
      BY <3>1 DEF ReadDeliveries, SettleOn, Goto
  <2> QED
    BY <2>1, <2>2, <2>3 DEF Record, SettleNotification, CommitResult
<1>4. /\ work[w].on \in Deliveries /\ copies[work[w].on] <= 1 + faults[work[w].on]
      /\ work[w].result # "sent" => Paid(work[w].on)
  BY <1>1, Facts DEF SpareInv, CopiesPaid, Unsure
<1> QED
  BY <1>1, <1>3, <1>4, GoesOnSpare DEF Paid

\* A worker that has done with its job, or lost it.
LEMMA LeavesSpare ==
  ASSUME SpareInv, NEW w \in Workers, work[w].pc # "idle", work' = [work EXCEPT ![w] = Idle],
         TypeInv', UNCHANGED <<calls, copies>>,
         \A d \in Deliveries \ {work[w].on} : job'[d] = job[d] /\ faults'[d] = faults[d],
         job'[work[w].on].state \in {"waiting", "done", "failed"},
         copies[work[w].on] <= 1 + faults'[work[w].on],
         job'[work[w].on].state = "waiting" => copies[work[w].on] <= faults'[work[w].on]
  PROVE  SpareInv'
<1>1. /\ work'[w].pc = "idle" /\ \A v \in Workers \ {w} : work'[v] = work[v]
      /\ \A v \in Workers : work[v].pc # "idle" => work[v].on \in Deliveries
      /\ \A v \in Workers \ {w} : work[v].pc # "idle" => work[v].on # work[w].on
      /\ job[work[w].on].state = "active"
  BY Facts DEF SpareInv, OneWorker
<1>2. AddedOnce'
  BY <1>1 DEF SpareInv, AddedOnce, calls
<1>3. OneWorker'
  BY <1>1 DEF SpareInv, OneWorker
<1>4. CopiesPaid'
  BY <1>1 DEF SpareInv, CopiesPaid, Paid, Unsure
<1> QED
  BY <1>2, <1>3, <1>4 DEF SpareInv

LEMMA EndsSpare ==
  ASSUME SpareInv, NEW w \in Workers, TypeInv', Acknowledge(w) \/ HandleThrows(w) \/ Stop(w)
  PROVE  SpareInv'
<1> DEFINE d == work[w].on
<1>1. /\ work[w].pc # "idle" /\ work' = [work EXCEPT ![w] = Idle] /\ UNCHANGED <<calls, copies>>
  BY DEF Acknowledge, HandleThrows, Stop, Drop, At
<1>2. /\ d \in Deliveries /\ copies[d] <= 1 + faults[d] /\ (Unsure(w) => Paid(d))
      /\ job \in [Deliveries -> Jobs] /\ copies \in [Deliveries -> Nat]
      /\ faults \in [Deliveries -> Nat]
  BY <1>1, Facts DEF SpareInv, CopiesPaid
<1>3. /\ \A e \in Deliveries \ {d} : job'[e] = job[e]
      /\ job'[d].state \in {"waiting", "done", "failed"}
  BY <1>2, SMTT(30) DEF Acknowledge, HandleThrows, Stop, Attempted, On, Jobs
<1>4. CASE Acknowledge(w)
  <2>1. UNCHANGED faults /\ (job'[d].state = "waiting" => work[w].result = "failed")
    BY <1>2, <1>4 DEF Acknowledge, ShouldRetry, On, Jobs
  <2> QED
    BY <1>1, <1>2, <1>3, <2>1, LeavesSpare DEF Paid, Unsure
<1>5. CASE HandleThrows(w) \/ Stop(w)
  <2>1. faults' = [faults EXCEPT ![d] = @ + 1]
    BY <1>5 DEF HandleThrows, Stop, Drop, Fault, On
  <2>2. /\ \A e \in Deliveries \ {d} : faults'[e] = faults[e]
        /\ copies[d] <= faults'[d] /\ copies[d] <= 1 + faults'[d]
    BY <1>2, <2>1
  <2> QED
    BY <1>1, <1>2, <1>3, <2>2, LeavesSpare
<1> QED
  BY <1>4, <1>5

LEMMA TakeSpare ==
  ASSUME SpareInv, NEW w \in Workers, NEW d \in Deliveries, Take(w, d), TypeInv'
  PROVE  SpareInv'
<1> USE DEF At
<1>1. /\ work[w].pc = "idle" /\ job[d].state = "waiting" /\ Paid(d)
      /\ UNCHANGED <<calls, copies, faults>>
  BY DEF Take, SpareInv, CopiesPaid
<1>2. /\ \A e \in Deliveries \ {d} : job'[e] = job[e]
      /\ job'[d].state = IF Exists(d[1]) THEN "active" ELSE "done"
      /\ \A v \in Workers \ {w} : work'[v] = work[v]
      /\ IF Exists(d[1]) THEN work'[w].pc = "send" /\ work'[w].on = d ELSE work' = work
  <2>1. job \in [Deliveries -> Jobs] /\ work \in [Conns -> Works] /\ w \in Conns /\ Idle \in Works
        /\ Workers \subseteq Conns
    BY Facts DEF SpareInv
  <2>2. CASE Exists(d[1])
    <3> DEFINE q == [Idle EXCEPT !.pc = "send", !.on = d]
    <3>1. q.pc = "send" /\ q.on = d
      BY <2>1 DEF Works
    <3>2. work' = [work EXCEPT ![w] = q] /\ job' = [job EXCEPT ![d].state = "active"]
      BY <2>2 DEF Take
    <3> HIDE DEF q
    <3> QED
      BY <2>1, <2>2, <3>1, <3>2 DEF Jobs
  <2>3. CASE ~Exists(d[1])
    BY <2>1, <2>3 DEF Take, Jobs
  <2> QED
    BY <2>2, <2>3
<1>3. \A v \in Workers : work[v].pc # "idle" => work[v].on \in Deliveries \ {d}
  BY <1>1, Facts DEF SpareInv, OneWorker
<1>4. AddedOnce'
  BY <1>1, <1>2 DEF SpareInv, AddedOnce, calls
<1>5. OneWorker'
  BY <1>1, <1>2, <1>3 DEF SpareInv, OneWorker
<1>6. CopiesPaid'
  BY <1>1, <1>2, <1>3 DEF SpareInv, CopiesPaid, Paid, Unsure
<1> QED
  BY <1>4, <1>5, <1>6 DEF SpareInv

LEMMA CallbackSpare ==
  ASSUME SpareInv, NEW c \in Callbacks, Callback(c), TypeInv'
  PROVE  SpareInv'
<1>1. UNCHANGED <<calls, job, copies, faults>>
  BY DEF Callback, Report, ReadCommitted, SettleApart, EndReport
<1>2. \A w \in Workers : work'[w] = work[w]
  <2>1. \A w \in Workers : w # c /\ w \in Conns
    BY NotificationConstants
  <2>2. work \in [Conns -> Works]
    BY Facts DEF SpareInv
  <2>3. CASE \E d \in Deliveries, status \in {"sent", "delivered", "bounced", "failed"} :
               Report(c, d, status)
    BY <2>1, <2>2, <2>3 DEF Report
  <2>4. CASE ReadCommitted(c)
    <3> DEFINE statuses == {delivery.row[d] : d \in RowsOf(NoteOf(c))} \ {"none"}
    <3>1. SettleOn(c, statuses)
      BY <2>4 DEF ReadCommitted
    <3> HIDE DEF statuses
    <3> QED
      BY <2>1, <2>2, <3>1 DEF SettleOn
  <2>5. CASE SettleApart(c)
    BY <2>1, <2>2, <2>5 DEF SettleApart, Goto
  <2>6. CASE EndReport(c)
    BY <2>1, <2>2, <2>6 DEF EndReport
  <2> QED
    BY <2>3, <2>4, <2>5, <2>6 DEF Callback
<1> QED
  BY <1>1, <1>2 DEF SpareInv, AddedOnce, OneWorker, CopiesPaid, Paid, Unsure, calls

LEMMA StepSpare == SpareInv /\ [Next]_vars => SpareInv'
<1> SUFFICES ASSUME SpareInv, [Next]_vars PROVE SpareInv'
  OBVIOUS
<1>1. TypeInv'
  BY StepType DEF SpareInv
<1>2. CASE UNCHANGED vars
  BY <1>1, <1>2 DEF vars, SpareInv, AddedOnce, OneWorker, CopiesPaid, Paid, Unsure
<1>3. ASSUME NEW w \in Workers, Handle(w) PROVE SpareInv'
  BY <1>1, <1>3, TakeSpare, SendSpare, RestSpare, EndsSpare DEF Handle
<1> QED
  BY <1>1, <1>2, <1>3, CallSpare, EnqueueSpare, EndsSpare, CallbackSpare DEF Next

\* However the retries of BullMQ, the stops of workers and lost answers fall together, a
\* recipient gets at most one copy more than there were faults (recordChannelResult,
\* jobs added once under the id of the delivery).
THEOREM NoSpareCopiesCorrect == Spec => []NoSpareCopies
<1>1. SpareInv => NoSpareCopies
  BY DEF SpareInv, CopiesPaid, NoSpareCopies
<1> QED
  BY <1>1, InitSpare, StepSpare, PTL DEF Spec

-----------------------------------------------------------------------------
(***************************************************************************)
(* Closed notifications.  Who is about to close one has seen a result of   *)
(* each of its deliveries, and no delivery loses its result: what a worker *)
(* wrote itself is committed with the notification, and a callback closes  *)
(* it by what is committed.                                                *)
(***************************************************************************)
Resolved(c, n) == \A d \in Deliveries : d[1] = n => Seen(delivery, c, d) # "queued"
RowsResolved(n) == \A d \in Deliveries : d[1] = n => delivery.row[d] # "queued"

Sound(c) ==
  /\ work[c].pc = "settle" =>
       IF c \in Workers THEN Resolved(c, NoteOf(c)) ELSE RowsResolved(NoteOf(c))
  /\ \A n \in Requests : note.lock[n] = c => c \in Workers /\ Resolved(c, n)
  /\ \A d \in Deliveries : delivery.lock[d] = c => delivery.new[d] # "queued"

NoneWaiting ==
  \A d \in Deliveries :
    note.row[d[1]] \in {"partially_failed", "failed", "delivered"} => delivery.row[d] # "queued"

ClosedInv == TypeInv /\ NoneWaiting /\ \A c \in Conns : Sound(c)

\* What a step leaves of the others, and of the results.
Undisturbed(e) ==
  /\ work'[e] = work[e] /\ \A n \in Requests : note'.lock[n] = e => note.lock[n] = e
  /\ \A d \in Deliveries : /\ delivery'.lock[d] = e <=> delivery.lock[d] = e
                           /\ delivery.lock[d] = e => delivery'.new[d] = delivery.new[d]

NeverBack ==
  \A d \in Deliveries :
    Exists(d[1]) /\ delivery.row[d] # "queued" => delivery'.row[d] # "queued"

LEMMA OthersSound ==
  ASSUME TypeInv, NEW e \in Conns, Sound(e), Undisturbed(e), NeverBack
  PROVE  Sound(e)'
<1>1. ASSUME NEW n \in Requests, Exists(n), Resolved(e, n) PROVE Resolved(e, n)'
  BY <1>1 DEF Resolved, Seen, Undisturbed, NeverBack
<1>2. ASSUME NEW n \in Requests, Exists(n), RowsResolved(n) PROVE RowsResolved(n)'
  BY <1>2 DEF RowsResolved, NeverBack
<1>3. work[e].pc = "settle" => NoteOf(e) \in Requests /\ Exists(NoteOf(e)) /\ NoteOf(e)' = NoteOf(e)
  BY Parent DEF TypeInv, KnownInv, NoteOf, On, Undisturbed
<1>4. \A n \in Requests : note.lock[n] = e => Exists(n)
  BY DEF TypeInv, KnownInv
<1>5. work'[e].pc = "settle" =>
        IF e \in Workers THEN Resolved(e, NoteOf(e))' ELSE RowsResolved(NoteOf(e))'
  BY <1>1, <1>2, <1>3 DEF Sound, Undisturbed, Resolved, RowsResolved
<1>6. \A n \in Requests : note'.lock[n] = e => e \in Workers /\ Resolved(e, n)'
  BY <1>1, <1>4 DEF Sound, Undisturbed
<1>7. \A d \in Deliveries : delivery'.lock[d] = e => delivery'.new[d] # "queued"
  BY DEF Sound, Undisturbed
<1> QED
  BY <1>5, <1>6, <1>7 DEF Sound

LEMMA ClosedKept ==
  ASSUME TypeInv, NoneWaiting, note'.row = note.row, NeverBack
  PROVE  NoneWaiting'
BY Parent DEF NoneWaiting, NeverBack, Exists

\* A step of one connection that closes nothing.
LEMMA ClosesNothing ==
  ASSUME ClosedInv, TypeInv', NEW c \in Conns, note'.row = note.row, NeverBack,
         \A e \in Conns \ {c} : Undisturbed(e), Sound(c)'
  PROVE  ClosedInv'
BY OthersSound, ClosedKept DEF ClosedInv

LEMMA Unwritten ==
  ASSUME UNCHANGED <<note, delivery>>
  PROVE  NeverBack /\ note'.row = note.row /\ \A e \in Conns : work'[e] = work[e] => Undisturbed(e)
BY DEF NeverBack, Undisturbed

LEMMA CallClosed ==
  ASSUME ClosedInv, TypeInv', NEW r \in Requests, Dispatch(r)
  PROVE  ClosedInv'
<1>1. UNCHANGED work
  BY DEF Dispatch, BeginDispatch, retry, InsertNotification, WriteDeliveries, CommitDispatch,
     Stamp, AbortDispatch, tracked
<1>2. CASE CommitDispatch(r)
  <2>1. ~Exists(r)
    BY <1>2 DEF CommitDispatch, Serving, ClosedInv, TypeInv, CallInv
  <2>2. /\ note'.row[r] \in {"dispatched", "cancelled"} /\ note'.lock = note.lock
        /\ \A n \in Requests \ {r} : note'.row[n] = note.row[n]
    BY <1>2, CommitDispatchType DEF ClosedInv
  <2>3. /\ \A d \in Deliveries : d[1] # r => delivery'.row[d] = delivery.row[d]
        /\ delivery'.lock = delivery.lock /\ delivery'.new = delivery.new
    BY <1>2, Facts DEF CommitDispatch, ClosedInv, Tables
  <2>4. NeverBack
    BY <2>1, <2>3 DEF NeverBack
  <2>5. \A e \in Conns : Undisturbed(e)
    BY <1>1, <2>2, <2>3 DEF Undisturbed
  <2>6. NoneWaiting'
    BY <2>2, <2>3, Parent DEF ClosedInv, NoneWaiting
  <2> QED
    BY <2>4, <2>5, <2>6, OthersSound DEF ClosedInv
<1>3. CASE ~CommitDispatch(r)
  <2>1. UNCHANGED <<note, delivery>>
    BY <1>3 DEF Dispatch, BeginDispatch, retry, InsertNotification, WriteDeliveries, Stamp,
       AbortDispatch
  <2> QED
    BY <1>1, <2>1, Unwritten, OthersSound, ClosedKept DEF ClosedInv
<1> QED
  BY <1>2, <1>3

\* A result is written: by the worker that has it, or by a callback.
LEMMA WrittenClosed ==
  ASSUME ClosedInv, TypeInv', NEW c \in Conns, NEW d \in Deliveries, NEW s \in Statuses \ {"queued"},
         Free(delivery, c, d), delivery' = Written(delivery, c, d, s), UNCHANGED note,
         \A e \in Conns \ {c} : work'[e] = work[e], work'[c].pc # "settle"
  PROVE  ClosedInv'
<1>1. /\ delivery'.row = delivery.row
      /\ \A x \in Deliveries : /\ delivery'.new[x] = IF x = d THEN s ELSE delivery.new[x]
                               /\ delivery'.lock[x] = IF x = d THEN c ELSE delivery.lock[x]
  BY WrittenFacts, Facts DEF ClosedInv
<1>2. NeverBack
  BY <1>1 DEF NeverBack
<1>3. \A e \in Conns \ {c} : Undisturbed(e)
  BY <1>1, NoConnIsNone DEF Undisturbed, Free
<1>4. Sound(c)
  BY DEF ClosedInv
<1>5. \A n \in Requests : note'.lock[n] = c => c \in Workers /\ Resolved(c, n)'
  BY <1>1, <1>4 DEF Sound, Resolved, Seen
<1>6. Sound(c)'
  BY <1>1, <1>4, <1>5 DEF Sound
<1> QED
  BY <1>2, <1>3, <1>6, ClosesNothing

LEMMA RecordClosed ==
  ASSUME ClosedInv, TypeInv', NEW w \in Workers, Record(w)
  PROVE  ClosedInv'
<1>1. PICK q \in Works : work' = [work EXCEPT ![w] = q] /\ q.pc = "read"
  <2>1. Goto(w, "read") /\ work[w].pc # "idle" /\ "read" \in Steps
    BY DEF Record, At, Steps
  <2> QED
    BY <2>1, Goes, Facts DEF ClosedInv
<1>2. /\ work[w].on \in Deliveries /\ NextStatus(w) \in Statuses \ {"queued"} /\ w \in Conns
      /\ Free(delivery, w, work[w].on) /\ UNCHANGED note
      /\ delivery' = Written(delivery, w, work[w].on, NextStatus(w))
  BY Facts, NextStatusType DEF Record, On, At, ClosedInv
<1>3. work'[w].pc # "settle" /\ \A e \in Conns \ {w} : work'[e] = work[e]
  BY <1>1, <1>2, Facts DEF ClosedInv
<1> QED
  BY <1>2, <1>3, WrittenClosed

LEMMA ReportClosed ==
  ASSUME ClosedInv, TypeInv', NEW c \in Callbacks, NEW d \in Deliveries,
         NEW status \in {"sent", "delivered", "bounced", "failed"}, Report(c, d, status)
  PROVE  ClosedInv'
<1>1. /\ status \in Statuses \ {"queued"} /\ c \in Conns /\ Free(delivery, c, d) /\ UNCHANGED note
      /\ delivery' = Written(delivery, c, d, status)
  BY Facts DEF Report, Statuses, Settled, ClosedInv
<1>2. work'[c].pc # "settle" /\ \A e \in Conns \ {c} : work'[e] = work[e]
  <2> DEFINE q == [Idle EXCEPT !.pc = "read", !.on = d, !.result = status]
  <2>1. work' = [work EXCEPT ![c] = q] /\ q.pc = "read" /\ work \in [Conns -> Works]
    BY Facts DEF Report, ClosedInv, Works
  <2> HIDE DEF q
  <2> QED
    BY <1>1, <2>1
<1> QED
  BY <1>1, <1>2, WrittenClosed

\* Steps that write nothing, and reads: what was seen is what is found.
LEMMA ReadClosed ==
  ASSUME ClosedInv, TypeInv', NEW c \in Conns, UNCHANGED <<note, delivery>>,
         \A e \in Conns \ {c} : work'[e] = work[e],
         work'[c].pc = "settle" =>
           IF c \in Workers THEN Resolved(c, NoteOf(c)') ELSE RowsResolved(NoteOf(c)')
  PROVE  ClosedInv'
<1>1. Sound(c)'
  BY DEF ClosedInv, Sound, Resolved, RowsResolved, Seen
<1> QED
  BY <1>1, Unwritten, ClosesNothing

LEMMA SettleOnClosed ==
  ASSUME ClosedInv, TypeInv', NEW c \in Conns, NEW statuses, SettleOn(c, statuses),
         UNCHANGED <<note, delivery>>,
         "queued" \notin statuses =>
           IF c \in Workers THEN Resolved(c, NoteOf(c)) ELSE RowsResolved(NoteOf(c))
  PROVE  ClosedInv'
<1>1. work \in [Conns -> Works]
  BY Facts DEF ClosedInv
<1>2. CASE "queued" \notin statuses
  <2>1. (\A e \in Conns \ {c} : work'[e] = work[e]) /\ NoteOf(c)' = NoteOf(c)
    BY <1>1, <1>2 DEF SettleOn, NoteOf, On, Works
  <2> QED
    BY <1>2, <2>1, ReadClosed
<1>3. CASE "queued" \in statuses
  <2>1. (\A e \in Conns \ {c} : work'[e] = work[e]) /\ work'[c].pc = "commit"
    BY <1>1, <1>3 DEF SettleOn, Works
  <2> QED
    BY <2>1, ReadClosed
<1> QED
  BY <1>2, <1>3

LEMMA ReadsClosed ==
  ASSUME ClosedInv, TypeInv', NEW c \in Conns,
         (c \in Workers /\ ReadDeliveries(c)) \/ (c \in Callbacks /\ ReadCommitted(c))
  PROVE  ClosedInv'
<1>1. CASE c \in Workers /\ ReadDeliveries(c)
  <2> DEFINE statuses == {Seen(delivery, c, d) : d \in RowsOf(NoteOf(c))} \ {"none"}
  <2>1. "queued" \notin statuses => Resolved(c, NoteOf(c))
    BY DEF Resolved, RowsOf
  <2>2. SettleOn(c, statuses) /\ UNCHANGED <<note, delivery>>
    BY <1>1 DEF ReadDeliveries
  <2> HIDE DEF statuses
  <2> QED
    BY <1>1, <2>1, <2>2, SettleOnClosed
<1>2. CASE c \in Callbacks /\ ReadCommitted(c)
  <2> DEFINE statuses == {delivery.row[d] : d \in RowsOf(NoteOf(c))} \ {"none"}
  <2>1. "queued" \notin statuses => RowsResolved(NoteOf(c))
    BY DEF RowsResolved, RowsOf
  <2>2. SettleOn(c, statuses) /\ UNCHANGED <<note, delivery>> /\ c \notin Workers
    BY <1>2, NotificationConstants DEF ReadCommitted
  <2> HIDE DEF statuses
  <2> QED
    BY <2>1, <2>2, SettleOnClosed
<1> QED
  BY <1>1, <1>2

LEMMA SettleNotificationClosed ==
  ASSUME ClosedInv, TypeInv', NEW w \in Workers, SettleNotification(w)
  PROVE  ClosedInv'
<1> DEFINE n0 == NoteOf(w)
<1>1. /\ work[w].pc = "settle" /\ Goto(w, "commit") /\ Free(note, w, n0) /\ UNCHANGED delivery
      /\ note' = Written(note, w, n0, work[w].to) /\ w \in Conns
  BY Facts DEF SettleNotification, At, ClosedInv
<1>2. /\ n0 \in Requests /\ work[w].to \in NoteStatuses
      /\ note \in Tables(Requests, NoteStatuses) /\ work \in [Conns -> Works]
  BY <1>1, Facts DEF ClosedInv, NoteOf, On, Works
<1>3. /\ note'.row = note.row
      /\ \A n \in Requests : note'.lock[n] = IF n = n0 THEN w ELSE note.lock[n]
  BY <1>1, <1>2, WrittenFacts
<1>4. work'[w].pc = "commit" /\ \A e \in Conns \ {w} : work'[e] = work[e]
  BY <1>1, <1>2 DEF Goto, Works
<1>5. Resolved(w, n0) /\ Sound(w)
  BY <1>1 DEF ClosedInv, Sound
<1> HIDE DEF n0
<1>6. NeverBack /\ \A e \in Conns \ {w} : Undisturbed(e)
  BY <1>1, <1>3, <1>4, NoConnIsNone DEF NeverBack, Undisturbed
<1>7. Sound(w)'
  BY <1>1, <1>3, <1>4, <1>5 DEF Sound, Resolved
<1> QED
  BY <1>1, <1>3, <1>6, <1>7, ClosesNothing

\* The end of a transaction.
LEMMA EndDelivery ==
  ASSUME ClosedInv, NEW c \in Conns, delivery' \in {Committed(delivery, c), RolledBack(delivery, c)},
         \A n \in Requests : note'.lock[n] # c /\ \A e \in Conns : note'.lock[n] = e => note.lock[n] = e,
         \A e \in Conns \ {c} : work'[e] = work[e], work'[c].pc # "settle"
  PROVE  /\ NeverBack /\ Sound(c)' /\ \A e \in Conns \ {c} : Undisturbed(e)
         /\ delivery' = Committed(delivery, c) =>
              \A d \in Deliveries : delivery'.row[d] = Seen(delivery, c, d)
<1>1. CASE delivery' = Committed(delivery, c)
  <2>1. /\ delivery'.new = delivery.new
        /\ \A d \in Deliveries :
             /\ delivery'.row[d] = IF delivery.lock[d] = c THEN delivery.new[d] ELSE delivery.row[d]
             /\ delivery'.lock[d] = IF delivery.lock[d] = c THEN NoConn ELSE delivery.lock[d]
    BY <1>1, CommittedFacts, Facts DEF ClosedInv
  <2>2. NeverBack
    BY <2>1 DEF NeverBack, ClosedInv, Sound
  <2>3. \A e \in Conns \ {c} : Undisturbed(e)
    BY <2>1, NoConnIsNone DEF Undisturbed
  <2>4. Sound(c)'
    BY <2>1, NoConnIsNone DEF Sound
  <2> QED
    BY <2>1, <2>2, <2>3, <2>4 DEF Seen
<1>2. CASE delivery' = RolledBack(delivery, c) /\ delivery' # Committed(delivery, c)
  <2>1. /\ delivery'.row = delivery.row
        /\ \A d \in Deliveries :
             /\ delivery'.new[d] = IF delivery.lock[d] = c THEN delivery.row[d] ELSE delivery.new[d]
             /\ delivery'.lock[d] = IF delivery.lock[d] = c THEN NoConn ELSE delivery.lock[d]
    BY <1>2, RolledBackFacts, Facts DEF ClosedInv
  <2>2. NeverBack
    BY <2>1 DEF NeverBack
  <2>3. \A e \in Conns \ {c} : Undisturbed(e)
    BY <2>1, NoConnIsNone DEF Undisturbed
  <2>4. Sound(c)'
    BY <2>1, NoConnIsNone DEF Sound
  <2> QED
    BY <1>2, <2>2, <2>3, <2>4
<1> QED
  BY <1>1, <1>2

LEMMA CommitResultClosed ==
  ASSUME ClosedInv, TypeInv', NEW w \in Workers, CommitResult(w)
  PROVE  ClosedInv'
<1>1. /\ note' = Committed(note, w) /\ delivery' = Committed(delivery, w) /\ Goto(w, "ack")
      /\ w \in Conns /\ work \in [Conns -> Works]
  BY Facts DEF CommitResult, ClosedInv
<1>2. \A n \in Requests :
        /\ note'.row[n] = IF note.lock[n] = w THEN note.new[n] ELSE note.row[n]
        /\ note'.lock[n] = IF note.lock[n] = w THEN NoConn ELSE note.lock[n]
  BY <1>1, CommittedFacts, Facts DEF ClosedInv
<1>3. work'[w].pc # "settle" /\ \A e \in Conns \ {w} : work'[e] = work[e]
  BY <1>1 DEF Goto, Works
<1>4. /\ NeverBack /\ Sound(w)' /\ \A e \in Conns \ {w} : Undisturbed(e)
      /\ \A d \in Deliveries : delivery'.row[d] = Seen(delivery, w, d)
  <2>1. \A n \in Requests : /\ note'.lock[n] # w
                            /\ \A e \in Conns : note'.lock[n] = e => note.lock[n] = e
    BY <1>1, <1>2, NoConnIsNone
  <2> QED
    BY <1>1, <1>3, <2>1, EndDelivery
<1>5. NoneWaiting'
  <2> SUFFICES ASSUME NEW d \in Deliveries,
                      note'.row[d[1]] \in {"partially_failed", "failed", "delivered"}
               PROVE  delivery'.row[d] # "queued"
    BY DEF NoneWaiting
  <2>1. CASE note.lock[d[1]] = w
    BY <1>1, <1>4, <2>1, Parent DEF ClosedInv, Sound, Resolved
  <2>2. CASE note.lock[d[1]] # w
    BY <1>2, <1>4, <2>2, Parent DEF ClosedInv, NoneWaiting, NeverBack, Exists
  <2> QED
    BY <2>1, <2>2
<1> QED
  BY <1>4, <1>5, OthersSound DEF ClosedInv

LEMMA DropClosed ==
  ASSUME ClosedInv, TypeInv', NEW w \in Workers, HandleThrows(w) \/ Stop(w)
  PROVE  ClosedInv'
<1>1. /\ note' = RolledBack(note, w) /\ delivery' = RolledBack(delivery, w)
      /\ work' = [work EXCEPT ![w] = Idle] /\ w \in Conns /\ work \in [Conns -> Works]
      /\ Idle.pc = "idle"
  BY Facts DEF HandleThrows, Stop, Drop, ClosedInv
<1>2. /\ note'.row = note.row
      /\ \A n \in Requests : note'.lock[n] = IF note.lock[n] = w THEN NoConn ELSE note.lock[n]
  BY <1>1, RolledBackFacts, Facts DEF ClosedInv
<1>3. work'[w].pc # "settle" /\ \A e \in Conns \ {w} : work'[e] = work[e]
  BY <1>1
<1>4. \A n \in Requests : /\ note'.lock[n] # w
                          /\ \A e \in Conns : note'.lock[n] = e => note.lock[n] = e
  BY <1>1, <1>2, NoConnIsNone
<1> QED
  BY <1>1, <1>2, <1>3, <1>4, EndDelivery, ClosesNothing

LEMMA SettleApartClosed ==
  ASSUME ClosedInv, TypeInv', NEW c \in Callbacks, SettleApart(c)
  PROVE  ClosedInv'
<1> DEFINE n0 == NoteOf(c)
           t == Written(note, c, n0, work[c].to)
<1>1. /\ work[c].pc = "settle" /\ Goto(c, "commit") /\ Free(note, c, n0) /\ UNCHANGED delivery
      /\ note' = Committed(t, c) /\ c \in Conns /\ c \notin Workers
  BY Facts, NotificationConstants DEF SettleApart, At, ClosedInv
<1>2. /\ n0 \in Requests /\ work[c].to \in NoteStatuses
      /\ note \in Tables(Requests, NoteStatuses) /\ work \in [Conns -> Works]
  BY <1>1, Facts DEF ClosedInv, NoteOf, On, Works
<1>3. /\ t \in Tables(Requests, NoteStatuses) /\ t.row = note.row
      /\ \A n \in Requests : t.lock[n] = IF n = n0 THEN c ELSE note.lock[n]
  BY <1>1, <1>2, WrittenFacts
<1>4. RowsResolved(n0) /\ Sound(c)
  BY <1>1 DEF ClosedInv, Sound
<1> HIDE DEF t, n0
<1>5. \A n \in Requests : note.lock[n] # c
  BY <1>1, <1>4 DEF Sound
<1>6. \A n \in Requests :
        /\ note'.row[n] = IF t.lock[n] = c THEN t.new[n] ELSE note.row[n]
        /\ note'.lock[n] = IF t.lock[n] = c THEN NoConn ELSE t.lock[n]
  BY <1>1, <1>3, CommittedFacts
<1>7. work'[c].pc = "commit" /\ \A e \in Conns \ {c} : work'[e] = work[e]
  BY <1>1, <1>2 DEF Goto, Works
<1>8. NeverBack /\ \A e \in Conns \ {c} : Undisturbed(e)
  BY <1>1, <1>3, <1>6, <1>7, NoConnIsNone DEF NeverBack, Undisturbed
<1>9. Sound(c)'
  BY <1>1, <1>3, <1>4, <1>5, <1>6, <1>7, NoConnIsNone DEF Sound
<1>10. NoneWaiting'
  BY <1>1, <1>3, <1>4, <1>5, <1>6, Parent DEF ClosedInv, NoneWaiting, RowsResolved
<1> QED
  BY <1>8, <1>9, <1>10, OthersSound DEF ClosedInv

LEMMA EndReportClosed ==
  ASSUME ClosedInv, TypeInv', NEW c \in Callbacks, EndReport(c)
  PROVE  ClosedInv'
<1>1. /\ delivery' \in {Committed(delivery, c), RolledBack(delivery, c)} /\ UNCHANGED note
      /\ c \in Conns /\ c \notin Workers
  BY Facts, NotificationConstants DEF EndReport, ClosedInv
<1>2. work'[c].pc # "settle" /\ \A e \in Conns \ {c} : work'[e] = work[e]
  <2> DEFINE q == [Idle EXCEPT !.pc = "done", !.on = work[c].on]
  <2>1. work' = [work EXCEPT ![c] = q] /\ q.pc = "done" /\ work \in [Conns -> Works]
    BY Facts DEF EndReport, On, ClosedInv, Works
  <2> HIDE DEF q
  <2> QED
    BY <1>1, <2>1
<1>3. \A n \in Requests : note'.lock[n] # c
  BY <1>1 DEF ClosedInv, Sound
<1>4. NeverBack /\ Sound(c)' /\ \A e \in Conns \ {c} : Undisturbed(e)
  BY <1>1, <1>2, <1>3, EndDelivery
<1> QED
  BY <1>1, <1>4, ClosesNothing

LEMMA QuietClosed ==
  ASSUME ClosedInv, TypeInv', NEW w \in Workers,
         (\E d \in Deliveries : Take(w, d)) \/ Send(w) \/ Acknowledge(w)
  PROVE  ClosedInv'
<1>1. work \in [Conns -> Works] /\ Idle \in Works /\ Idle.pc = "idle" /\ w \in Conns
  BY Facts DEF ClosedInv
<1>2. UNCHANGED <<note, delivery>>
  BY DEF Take, Send, Acknowledge
<1>3. work'[w].pc # "settle" /\ \A e \in Conns \ {w} : work'[e] = work[e]
  <2>1. CASE \E d \in Deliveries : Take(w, d)
    BY <1>1, <2>1, ZenonT(30) DEF Take, At, Works
  <2>2. CASE Send(w)
    <3>1. PICK result \in Results : Answered(w, result)
      BY <2>2 DEF Send, Results
    <3> QED
      BY <1>1, <3>1 DEF Answered, Works
  <2>3. CASE Acknowledge(w)
    BY <1>1, <2>3 DEF Acknowledge
  <2> QED
    BY <2>1, <2>2, <2>3
<1> QED
  BY <1>1, <1>2, <1>3, ReadClosed

LEMMA StepClosed == ClosedInv /\ [Next]_vars => ClosedInv'
<1> SUFFICES ASSUME ClosedInv, [Next]_vars PROVE ClosedInv'
  OBVIOUS
<1>1. TypeInv' /\ Workers \subseteq Conns /\ Callbacks \subseteq Conns
  BY StepType, Facts DEF ClosedInv
<1>2. CASE UNCHANGED vars \/ \E d \in Deliveries : Enqueue(d)
  <2>1. UNCHANGED <<note, delivery, work>>
    BY <1>2 DEF vars, Enqueue
  <2> QED
    BY <1>1, <2>1, Unwritten, OthersSound, ClosedKept DEF ClosedInv
<1>3. ASSUME NEW w \in Workers, Handle(w) PROVE ClosedInv'
  BY <1>1, <1>3, QuietClosed, RecordClosed, ReadsClosed, SettleNotificationClosed,
     CommitResultClosed DEF Handle
<1>4. ASSUME NEW c \in Callbacks, Callback(c) PROVE ClosedInv'
  BY <1>1, <1>4, ReportClosed, ReadsClosed, SettleApartClosed, EndReportClosed DEF Callback
<1> QED
  BY <1>1, <1>2, <1>3, <1>4, CallClosed, DropClosed DEF Next

LEMMA InitClosed == Init => ClosedInv
<1> SUFFICES ASSUME Init PROVE ClosedInv
  OBVIOUS
<1>1. /\ \A c \in Conns : work[c].pc = "idle"
      /\ \A n \in Requests : note.row[n] = "none" /\ note.lock[n] = NoConn
      /\ \A d \in Deliveries : delivery.lock[d] = NoConn
  BY DEF Init, Idle, Filled
<1> QED
  BY <1>1, InitType, NoConnIsNone, Parent DEF ClosedInv, NoneWaiting, Sound

-----------------------------------------------------------------------------
(***************************************************************************)
(* What a closed notification says.  A delivery that is said to be sent    *)
(* has a copy that its provider accepted, before the row says so, before   *)
(* the notification does, and ever after; and one that was to be sent is   *)
(* never taken for one that was not.                                       *)
(***************************************************************************)
Honest(d, s) ==
  /\ s \in {"sent", "delivered"} => Accepted(d)
  /\ ToBeSent(d) => s \notin {"none", "suppressed"}

Earned(n, s) ==
  /\ s = "delivered" => \A d \in RowsOf(n) : ToBeSent(d) => Accepted(d)
  /\ s = "partially_failed" => \E d \in RowsOf(n) : Accepted(d)

\* What the row of a delivery, and that of a notification, may say.
HonestStatuses == [d \in Deliveries |-> {s \in Statuses : Exists(d[1]) => Honest(d, s)}]
EarnedStatuses == [n \in Requests |-> {s \in NoteStatuses : Exists(n) => Earned(n, s)}]

\* The rows of a table, and the uncommitted ones.
Fit(Ids, t, may) ==
  \A x \in Ids : t.row[x] \in may[x] /\ (t.lock[x] \in Conns => t.new[x] \in may[x])

Grounded(c) ==
  /\ At(c, "record") /\ work[c].result = "sent" => Accepted(On(c))
  /\ At(c, "settle") => Earned(NoteOf(c), work[c].to)

LockedExist == \A d \in Deliveries, c \in Conns : delivery.lock[d] = c => Exists(d[1])

EarnedInv ==
  /\ ClosedInv /\ LockedExist /\ \A c \in Conns : Grounded(c)
  /\ Fit(Deliveries, delivery, HonestStatuses) /\ Fit(Requests, note, EarnedStatuses)

LEMMA FitEnds ==
  ASSUME NEW Ids, NEW Rows, NEW t \in Tables(Ids, Rows), NEW may, Fit(Ids, t, may), NEW c \in Conns,
         NEW u \in {Committed(t, c), RolledBack(t, c)}
  PROVE  Fit(Ids, u, may)
<1>1. CASE u = Committed(t, c)
  <2>1. \A x \in Ids : /\ u.new[x] = t.new[x]
                       /\ u.row[x] = IF t.lock[x] = c THEN t.new[x] ELSE t.row[x]
                       /\ u.lock[x] = IF t.lock[x] = c THEN NoConn ELSE t.lock[x]
    BY <1>1, CommittedFacts
  <2> QED
    BY <2>1, NoConnIsNone DEF Fit
<1>2. CASE u = RolledBack(t, c)
  <2>1. \A x \in Ids : /\ u.row[x] = t.row[x]
                       /\ u.new[x] = IF t.lock[x] = c THEN t.row[x] ELSE t.new[x]
                       /\ u.lock[x] = IF t.lock[x] = c THEN NoConn ELSE t.lock[x]
    BY <1>2, RolledBackFacts
  <2> QED
    BY <2>1, NoConnIsNone DEF Fit
<1> QED
  BY <1>1, <1>2

LEMMA FitWritten ==
  ASSUME NEW Ids, NEW Rows, NEW t \in Tables(Ids, Rows), NEW may, Fit(Ids, t, may), NEW c \in Conns,
         NEW x \in Ids, NEW r \in Rows, r \in may[x]
  PROVE  Fit(Ids, Written(t, c, x, r), may)
BY WrittenFacts DEF Fit

\* A copy that was accepted stays so, and what was to be sent is settled with the COMMIT.
Steady ==
  /\ \A d \in Deliveries : copies[d] > 0 => copies'[d] > 0
  /\ \A d \in Deliveries : Exists(d[1]) => (ToBeSent(d)' <=> ToBeSent(d))

LEMMA SteadyFacts ==
  ASSUME TypeInv, Steady
  PROVE  /\ \A d \in Deliveries, s \in Statuses : Exists(d[1]) /\ Honest(d, s) => Honest(d, s)'
         /\ \A n \in Requests, s \in NoteStatuses : Exists(n) /\ Earned(n, s) => Earned(n, s)'
<1>1. ASSUME NEW d \in Deliveries, NEW s \in Statuses, Exists(d[1]), Honest(d, s)
      PROVE  Honest(d, s)'
  BY <1>1 DEF Steady, Honest, Accepted
<1>2. ASSUME NEW n \in Requests, NEW s \in NoteStatuses, Exists(n), Earned(n, s)
      PROVE  Earned(n, s)'
  BY <1>2 DEF Steady, Earned, Accepted, RowsOf
<1> QED
  BY <1>1, <1>2

LEMMA OthersGrounded ==
  ASSUME EarnedInv, Steady, NEW e \in Conns, work'[e] = work[e]
  PROVE  Grounded(e)'
<1>1. TypeInv /\ Grounded(e)
  BY DEF EarnedInv, ClosedInv
<1>2. /\ work[e].pc # "idle" => On(e) \in Deliveries /\ Exists(NoteOf(e)) /\ NoteOf(e) \in Requests
      /\ work[e].to \in NoteStatuses
  BY <1>1, Facts, Parent DEF On, NoteOf, Works
<1>3. At(e, "record")' /\ work'[e].result = "sent" => Accepted(On(e))'
  BY <1>1, <1>2 DEF Grounded, At, On, Accepted, Steady
<1>4. ASSUME At(e, "settle")' PROVE Earned(NoteOf(e), work[e].to)'
  <2>1. Earned(NoteOf(e), work[e].to) /\ Exists(NoteOf(e)) /\ NoteOf(e) \in Requests
    BY <1>1, <1>2, <1>4 DEF Grounded, At
  <2>2. PICK n \in Requests, s \in NoteStatuses : n = NoteOf(e) /\ s = work[e].to
    BY <1>2, <2>1
  <2>3. Earned(n, s)'
    BY <1>1, <2>1, <2>2, SteadyFacts
  <2>4. NoteOf(e)' = n /\ work'[e].to = s
    BY <2>2 DEF NoteOf, On
  <2> QED
    BY <2>3, <2>4 DEF Earned
<1> QED
  BY <1>3, <1>4 DEF Grounded

\* A step by which those that move are grounded.
LEMMA KeepsEarned ==
  ASSUME EarnedInv, ClosedInv', Keeps, Steady,
         \A e \in Conns : work'[e] = work[e] \/ Grounded(e)',
         Fit(Deliveries, delivery', HonestStatuses), Fit(Requests, note', EarnedStatuses),
         \A d \in Deliveries, e \in Conns : delivery'.lock[d] = e => Exists(d[1])
  PROVE  EarnedInv'
<1>1. TypeInv
  BY DEF EarnedInv, ClosedInv
<1>2. \A d \in Deliveries : HonestStatuses[d] \subseteq HonestStatuses'[d]
  BY <1>1, SteadyFacts, Parent DEF HonestStatuses, Keeps, Exists
<1>3. \A n \in Requests : EarnedStatuses[n] \subseteq EarnedStatuses'[n]
  BY <1>1, SteadyFacts DEF EarnedStatuses, Keeps, Exists
<1>4. Fit(Deliveries, delivery, HonestStatuses)' /\ Fit(Requests, note, EarnedStatuses)'
  BY <1>2, <1>3 DEF Fit
<1>5. LockedExist'
  BY Parent DEF LockedExist, Keeps, Exists
<1> QED
  BY <1>4, <1>5, OthersGrounded DEF EarnedInv

LEMMA CallSteady ==
  ASSUME TypeInv, NEW r \in Requests, Dispatch(r)
  PROVE  Steady /\ UNCHANGED <<work, copies>>
<1>1. UNCHANGED <<work, copies>>
  BY DEF Dispatch, BeginDispatch, retry, InsertNotification, WriteDeliveries, CommitDispatch,
     Stamp, AbortDispatch, tracked
<1>2. request \in [Requests -> RequestRows]
  BY DEF TypeInv, TypeOK
<1>3. \A n \in Requests \ {r} : request'[n] = request[n]
  BY <1>2 DEF Dispatch, BeginDispatch, retry, InsertNotification, WriteDeliveries, CommitDispatch,
     Stamp, AbortDispatch, Turn
<1>4. ASSUME Exists(r) PROVE request'[r].as = request[r].as
  <2>1. request[r].pc \in {"stamp", "answered", "failed"}
    BY <1>4 DEF TypeInv, CallInv
  <2>2. Stamp(r) \/ AbortDispatch(r)
    BY <2>1 DEF Dispatch, BeginDispatch, retry, InsertNotification, WriteDeliveries, CommitDispatch,
       Serving
  <2>3. PICK pc \in RequestSteps : Turn(r, pc)
    BY <2>2 DEF Stamp, AbortDispatch, RequestSteps
  <2> QED
    BY <1>2, <2>3 DEF Turn, RequestRows
<1>5. \A d \in Deliveries : Exists(d[1]) => (ToBeSent(d)' <=> ToBeSent(d))
  BY <1>3, <1>4, Parent DEF ToBeSent
<1> QED
  BY <1>1, <1>5 DEF Steady

LEMMA ElsewhereSteady ==
  ASSUME TypeInv, Elsewhere
  PROVE  Keeps /\ Steady
<1>1. Keeps /\ UNCHANGED request
  BY ElsewhereType
<1>2. \A d \in Deliveries : copies[d] > 0 => copies'[d] > 0
  <2>1. ASSUME NEW w \in Workers, Send(w) PROVE \A d \in Deliveries : copies[d] > 0 => copies'[d] > 0
    BY <2>1, Facts DEF Send
  <2>2. CASE UNCHANGED copies
    BY <2>2
  <2>3. UNCHANGED copies \/ \E w \in Workers : Send(w)
    BY DEF Elsewhere, Enqueue, Handle, Take, Record, ReadDeliveries, SettleNotification,
       CommitResult, Acknowledge, HandleThrows, Stop, Drop, Callback, Report, ReadCommitted,
       SettleApart, EndReport, vars
  <2> QED
    BY <2>1, <2>2, <2>3
<1> QED
  BY <1>1, <1>2 DEF Steady, ToBeSent

\* What a result or a row is taken from.
LEMMA EarnedFacts ==
  ASSUME EarnedInv
  PROVE  /\ TypeInv /\ \A c \in Conns : Grounded(c)
         /\ \A d \in Deliveries : Exists(d[1]) => Honest(d, delivery.row[d])
         /\ \A d \in Deliveries, c \in Conns : delivery.lock[d] = c =>
              Exists(d[1]) /\ Honest(d, delivery.new[d])
         /\ \A n \in Requests : Exists(n) => Earned(n, note.row[n])
         /\ \A n \in Requests, c \in Conns : note.lock[n] = c => Earned(n, note.new[n])
<1>1. TypeInv
  BY DEF EarnedInv, ClosedInv
<1>2. \A n \in Requests, c \in Conns : note.lock[n] = c => Exists(n)
  BY <1>1 DEF TypeInv, KnownInv
<1> QED
  BY <1>1, <1>2 DEF EarnedInv, LockedExist, Fit, HonestStatuses, EarnedStatuses

\* The COMMIT of dispatch: as the rows were written, so they are.
LEMMA CallEarned ==
  ASSUME EarnedInv, ClosedInv', NEW r \in Requests, Dispatch(r)
  PROVE  EarnedInv'
<1>1. TypeInv /\ Steady /\ UNCHANGED <<work, copies>>
  BY CallSteady DEF EarnedInv, ClosedInv
<1>2. \A e \in Conns : Grounded(e)'
  BY <1>1, OthersGrounded
<1>3. CASE CommitDispatch(r)
  <2>1. ~Exists(r) /\ request[r].as \in [Channels -> {"none", "queued", "suppressed"}]
    BY <1>1, <1>3 DEF CommitDispatch, Serving, TypeInv, CallInv, TypeOK, RequestRows
  <2>2. /\ note'.row[r] \in {"dispatched", "cancelled"} /\ note'.lock = note.lock /\ note'.new = note.new
        /\ \A n \in Requests \ {r} : note'.row[n] = note.row[n]
    BY <1>1, <1>3, CommitDispatchType
  <2>3. /\ \A d \in Deliveries : delivery'.row[d] = IF d[1] = r THEN request[r].as[d[2]] ELSE delivery.row[d]
        /\ delivery'.lock = delivery.lock /\ delivery'.new = delivery.new
    BY <1>1, <1>3, Facts DEF CommitDispatch, Tables
  <2>4. request'[r].as = request[r].as
    BY <1>1, <1>3 DEF CommitDispatch, TypeInv, TypeOK, RequestRows
  <2>5. \A d \in Deliveries, c \in Conns : delivery.lock[d] = c => Exists(d[1]) /\ d[1] # r
    BY <2>1 DEF EarnedInv, LockedExist
  <2>6. \A n \in Requests, c \in Conns : note.lock[n] = c => Exists(n) /\ n # r
    BY <1>1, <2>1 DEF TypeInv, KnownInv
  <2>7. delivery' \in Tables(Deliveries, Statuses) /\ note' \in Tables(Requests, NoteStatuses)
    BY Facts DEF ClosedInv, TypeInv, TypeOK
  <2>8. \A n \in Requests \ {r} : Exists(n)' <=> Exists(n)
    BY <2>2 DEF Exists
  <2>9. Fit(Deliveries, delivery, HonestStatuses)'
    <3> SUFFICES ASSUME NEW d \in Deliveries
                 PROVE  /\ Exists(d[1])' => Honest(d, delivery.row[d])'
                        /\ delivery'.lock[d] \in Conns => Honest(d, delivery.new[d])'
      BY <2>7 DEF Fit, HonestStatuses, Tables
    <3>1. CASE d[1] = r
      BY <2>1, <2>3, <2>4, <2>5, <3>1, Parent DEF Honest, ToBeSent, Accepted
    <3>2. CASE d[1] # r
      <4>1. /\ Exists(d[1]) => Honest(d, delivery.row[d])
            /\ delivery.lock[d] \in Conns => Exists(d[1]) /\ Honest(d, delivery.new[d])
        BY EarnedFacts
      <4>2. delivery.row[d] \in Statuses /\ delivery.new[d] \in Statuses
        BY <1>1, Facts DEF Tables
      <4>3. delivery'.row[d] = delivery.row[d]
        BY <2>3, <3>2
      <4>4. Exists(d[1])' <=> Exists(d[1])
        BY <2>8, <3>2, Parent
      <4> QED
        BY <1>1, <2>3, <4>1, <4>2, <4>3, <4>4 DEF Honest, Steady, Accepted
    <3> QED
      BY <3>1, <3>2
  <2>10. Fit(Requests, note, EarnedStatuses)'
    <3> SUFFICES ASSUME NEW n \in Requests
                 PROVE  /\ Exists(n)' => Earned(n, note.row[n])'
                        /\ note'.lock[n] \in Conns => Earned(n, note.new[n])'
      BY <2>7 DEF Fit, EarnedStatuses, Tables
    <3>1. CASE n = r
      BY <2>2, <2>6, <3>1 DEF Earned
    <3>2. CASE n # r
      <4>1. /\ Exists(n) => Earned(n, note.row[n])
            /\ note.lock[n] \in Conns => Exists(n) /\ Earned(n, note.new[n])
        BY <2>6, EarnedFacts
      <4> QED
        BY <1>1, <2>2, <2>8, <3>2, <4>1 DEF Earned, Steady, Accepted, RowsOf
    <3> QED
      BY <3>1, <3>2
  <2>11. LockedExist'
    BY <2>3, <2>5, <2>8, Parent DEF LockedExist
  <2> QED
    BY <1>2, <2>9, <2>10, <2>11 DEF EarnedInv
<1>4. CASE ~CommitDispatch(r)
  <2>1. UNCHANGED <<note, delivery>>
    BY <1>4 DEF Dispatch, BeginDispatch, retry, InsertNotification, WriteDeliveries, Stamp,
       AbortDispatch
  <2>2. Keeps
    BY <2>1 DEF Keeps
  <2>3. \A d \in Deliveries : HonestStatuses[d] \subseteq HonestStatuses'[d]
    BY <1>1, <2>2, SteadyFacts, Parent DEF HonestStatuses, Keeps, Exists
  <2>4. \A n \in Requests : EarnedStatuses[n] \subseteq EarnedStatuses'[n]
    BY <1>1, <2>2, SteadyFacts DEF EarnedStatuses, Keeps, Exists
  <2>5. Fit(Deliveries, delivery, HonestStatuses)' /\ Fit(Requests, note, EarnedStatuses)'
    BY <2>1, <2>3, <2>4 DEF EarnedInv, Fit
  <2> QED
    BY <1>2, <2>1, <2>5 DEF EarnedInv, LockedExist, Exists
<1> QED
  BY <1>3, <1>4

LEMMA StillEarned ==
  ASSUME EarnedInv, ClosedInv', Keeps, Steady, UNCHANGED <<note, delivery>>,
         \A e \in Conns : work'[e] = work[e] \/ Grounded(e)'
  PROVE  EarnedInv'
<1>1. /\ Fit(Deliveries, delivery', HonestStatuses) /\ Fit(Requests, note', EarnedStatuses)
      /\ \A d \in Deliveries, e \in Conns : delivery'.lock[d] = e => Exists(d[1])
  BY DEF EarnedInv, Fit, LockedExist
<1> QED
  BY <1>1, KeepsEarned

\* The provider accepts it before the worker has the result.
LEMMA SendEarned ==
  ASSUME EarnedInv, ClosedInv', Keeps, Steady, NEW w \in Workers, Send(w)
  PROVE  EarnedInv'
<1>1. /\ work \in [Conns -> Works] /\ w \in Conns /\ copies \in [Deliveries -> Nat]
      /\ work[w].on \in Deliveries /\ UNCHANGED <<note, delivery>>
  BY EarnedFacts, Facts DEF Send, At
<1>2. PICK result \in Results :
        Answered(w, result) /\ (result = "sent" => copies' = [copies EXCEPT ![On(w)] = @ + 1])
  BY DEF Send, Results
<1> DEFINE q == [work[w] EXCEPT !.pc = "record", !.result = result]
<1>3. work' = [work EXCEPT ![w] = q] /\ q.pc = "record" /\ q.on = work[w].on /\ q.result = result
  BY <1>1, <1>2 DEF Answered, Works
<1> HIDE DEF q
<1>4. work'[w] = q /\ \A e \in Conns \ {w} : work'[e] = work[e]
  BY <1>1, <1>3
<1>5. result = "sent" => copies'[work[w].on] > 0
  BY <1>1, <1>2 DEF On
<1>6. Grounded(w)'
  BY <1>3, <1>4, <1>5 DEF Grounded, At, On, Accepted
<1> QED
  BY <1>1, <1>4, <1>6, StillEarned

LEMMA WrittenEarned ==
  ASSUME EarnedInv, ClosedInv', Keeps, Steady, NEW c \in Conns, NEW d \in Deliveries, Exists(d[1]),
         NEW s \in Statuses, Honest(d, s), delivery' = Written(delivery, c, d, s), UNCHANGED note,
         \A e \in Conns \ {c} : work'[e] = work[e], work'[c].pc = "read"
  PROVE  EarnedInv'
<1>1. delivery \in Tables(Deliveries, Statuses) /\ s \in HonestStatuses[d]
  BY EarnedFacts, Facts DEF HonestStatuses
<1>2. Fit(Deliveries, delivery', HonestStatuses) /\ Fit(Requests, note', EarnedStatuses)
  BY <1>1, FitWritten DEF EarnedInv
<1>3. \A x \in Deliveries, e \in Conns : delivery'.lock[x] = e => Exists(x[1])
  BY <1>1, WrittenFacts DEF EarnedInv, LockedExist
<1>4. Grounded(c)'
  BY DEF Grounded, At
<1> QED
  BY <1>2, <1>3, <1>4, KeepsEarned

LEMMA RecordEarned ==
  ASSUME EarnedInv, ClosedInv', Keeps, Steady, NEW w \in Workers, Record(w)
  PROVE  EarnedInv'
<1>1. PICK q \in Works : work' = [work EXCEPT ![w] = q] /\ q.pc = "read"
  <2>1. Goto(w, "read") /\ work[w].pc # "idle" /\ "read" \in Steps
    BY DEF Record, At, Steps
  <2> QED
    BY <2>1, Goes, Facts, EarnedFacts
<1>2. /\ work[w].on \in Deliveries /\ NextStatus(w) \in Statuses \ {"none", "queued"} /\ w \in Conns
      /\ Exists(work[w].on[1]) /\ UNCHANGED note
      /\ delivery' = Written(delivery, w, work[w].on, NextStatus(w))
  BY Facts, EarnedFacts, NextStatusType DEF Record, On, At
<1>3. work'[w].pc = "read" /\ \A e \in Conns \ {w} : work'[e] = work[e]
  BY <1>1, <1>2, Facts, EarnedFacts
<1>4. Honest(work[w].on, NextStatus(w))
  <2>1. work[w].result = "sent" => Accepted(work[w].on)
    BY <1>2, EarnedFacts DEF Record, Grounded, On
  <2>2. NextStatus(w) # "delivered" /\ NextStatus(w) # "none" /\ NextStatus(w) # "suppressed"
        /\ (NextStatus(w) = "sent" => work[w].result = "sent")
    BY DEF NextStatus
  <2> QED
    BY <2>1, <2>2 DEF Honest
<1> QED
  BY <1>2, <1>3, <1>4, WrittenEarned

LEMMA ReportEarned ==
  ASSUME EarnedInv, ClosedInv', Keeps, Steady, NEW c \in Callbacks, NEW d \in Deliveries,
         NEW status \in {"sent", "delivered", "bounced", "failed"}, Report(c, d, status)
  PROVE  EarnedInv'
<1>1. /\ status \in Statuses /\ c \in Conns /\ UNCHANGED note /\ copies[d] > 0
      /\ delivery' = Written(delivery, c, d, status)
  BY Facts, EarnedFacts DEF Report, Statuses, Settled
<1>2. work'[c].pc = "read" /\ \A e \in Conns \ {c} : work'[e] = work[e]
  <2> DEFINE q == [Idle EXCEPT !.pc = "read", !.on = d, !.result = status]
  <2>1. work' = [work EXCEPT ![c] = q] /\ q.pc = "read" /\ work \in [Conns -> Works]
    BY Facts, EarnedFacts DEF Report, Works
  <2> HIDE DEF q
  <2> QED
    BY <1>1, <2>1
<1>3. Exists(d[1]) /\ Honest(d, status)
  BY <1>1, EarnedFacts DEF TypeInv, KnownInv, Honest, Accepted
<1> QED
  BY <1>1, <1>2, <1>3, WrittenEarned

\* What is rolled up of honest rows is earned.
LEMMA RollupEarned ==
  ASSUME NEW n \in Requests, NEW row \in [Deliveries -> Statuses],
         \A d \in RowsOf(n) : Honest(d, row[d]),
         "queued" \notin {row[d] : d \in RowsOf(n)} \ {"none"}
  PROVE  Earned(n, Rollup({row[d] : d \in RowsOf(n)} \ {"none"}))
<1> DEFINE statuses == {row[d] : d \in RowsOf(n)} \ {"none"}
<1>1. \A d \in RowsOf(n) : d \in Deliveries
  BY DEF RowsOf
<1>2. ASSUME NEW d \in RowsOf(n), ToBeSent(d), Rollup(statuses) = "delivered" PROVE Accepted(d)
  <2>1. row[d] \notin {"none", "suppressed"} /\ row[d] \in Statuses
    BY <1>1, <1>2 DEF Honest
  <2>2. row[d] \in statuses
    BY <2>1
  <2>3. statuses \cap {"failed", "bounced", "dead_lettered"} = {}
    BY <1>2 DEF Rollup
  <2>4. row[d] \in {"sent", "delivered"}
    BY <2>1, <2>2, <2>3 DEF Statuses, Settled
  <2> QED
    BY <2>4 DEF Honest
<1>3. ASSUME Rollup(statuses) = "partially_failed" PROVE \E d \in RowsOf(n) : Accepted(d)
  <2>1. statuses \cap {"sent", "delivered"} # {}
    BY <1>3 DEF Rollup
  <2>2. PICK d \in RowsOf(n) : row[d] \in {"sent", "delivered"}
    BY <2>1
  <2> QED
    BY <2>2 DEF Honest
<1> QED
  BY <1>2, <1>3 DEF Earned

LEMMA SettleOnEarned ==
  ASSUME EarnedInv, ClosedInv', Keeps, Steady, NEW c \in Conns, NEW statuses, SettleOn(c, statuses),
         UNCHANGED <<note, delivery>>, work[c].pc # "idle",
         "queued" \notin statuses => Earned(NoteOf(c), Rollup(statuses))
  PROVE  EarnedInv'
<1>1. work \in [Conns -> Works]
  BY Facts, EarnedFacts
<1>2. CASE "queued" \notin statuses
  <2> DEFINE q == [work[c] EXCEPT !.pc = "settle", !.to = Rollup(statuses)]
  <2>1. work' = [work EXCEPT ![c] = q] /\ q.pc = "settle" /\ q.on = work[c].on /\ q.to = Rollup(statuses)
    BY <1>1, <1>2 DEF SettleOn, Works
  <2> HIDE DEF q
  <2>2. work'[c] = q /\ \A e \in Conns \ {c} : work'[e] = work[e]
    BY <1>1, <2>1
  <2>3. NoteOf(c) \in Requests /\ Exists(NoteOf(c)) /\ Rollup(statuses) \in NoteStatuses
    BY Facts, EarnedFacts, RollupType DEF NoteOf, On, NoteStatuses
  <2>4. PICK n \in Requests, s \in NoteStatuses : n = NoteOf(c) /\ s = Rollup(statuses)
    BY <2>3
  <2>5. Earned(n, s)'
    BY <1>2, <2>3, <2>4, SteadyFacts, EarnedFacts
  <2>6. NoteOf(c)' = n /\ work'[c].to = s
    BY <2>1, <2>2, <2>4 DEF NoteOf, On
  <2>7. Grounded(c)'
    BY <2>1, <2>2, <2>5, <2>6 DEF Grounded, Earned, At
  <2> QED
    BY <2>2, <2>7, StillEarned
<1>3. CASE "queued" \in statuses
  <2>1. (\A e \in Conns \ {c} : work'[e] = work[e]) /\ work'[c].pc = "commit"
    BY <1>1, <1>3 DEF SettleOn, Works
  <2>2. Grounded(c)'
    BY <2>1 DEF Grounded, At
  <2> QED
    BY <2>1, <2>2, StillEarned
<1> QED
  BY <1>2, <1>3

LEMMA ReadsEarned ==
  ASSUME EarnedInv, ClosedInv', Keeps, Steady, NEW c \in Conns, ReadDeliveries(c) \/ ReadCommitted(c)
  PROVE  EarnedInv'
<1>1. /\ work[c].pc # "idle" /\ UNCHANGED <<note, delivery>>
      /\ delivery \in Tables(Deliveries, Statuses)
  BY Facts, EarnedFacts DEF ReadDeliveries, ReadCommitted, At
<1>2. \A d \in RowsOf(NoteOf(c)) :
        /\ d \in Deliveries /\ Honest(d, delivery.row[d]) /\ Honest(d, Seen(delivery, c, d))
  <2> SUFFICES ASSUME NEW d \in Deliveries, d[1] = NoteOf(c)
               PROVE  Honest(d, delivery.row[d]) /\ Honest(d, Seen(delivery, c, d))
    BY DEF RowsOf
  <2>1. Exists(d[1])
    BY <1>1, Facts, EarnedFacts DEF NoteOf, On
  <2>2. Honest(d, delivery.row[d]) /\ (delivery.lock[d] = c => Honest(d, delivery.new[d]))
    BY <2>1, EarnedFacts
  <2> QED
    BY <2>2 DEF Seen
<1>3. CASE ReadDeliveries(c)
  <2> DEFINE row == [d \in Deliveries |-> Seen(delivery, c, d)]
             statuses == {Seen(delivery, c, d) : d \in RowsOf(NoteOf(c))} \ {"none"}
  <2>1. statuses = {row[d] : d \in RowsOf(NoteOf(c))} \ {"none"}
    BY <1>2
  <2>2. row \in [Deliveries -> Statuses] /\ \A d \in RowsOf(NoteOf(c)) : Honest(d, row[d])
    BY <1>1, <1>2 DEF Seen, Tables
  <2>3. SettleOn(c, statuses)
    BY <1>3 DEF ReadDeliveries
  <2>4. NoteOf(c) \in Requests
    BY <1>1, Facts, EarnedFacts DEF NoteOf, On
  <2> HIDE DEF row
  <2>5. "queued" \notin statuses => Earned(NoteOf(c), Rollup(statuses))
    BY <2>1, <2>2, <2>4, RollupEarned
  <2> HIDE DEF statuses
  <2> QED
    BY <1>1, <2>3, <2>5, SettleOnEarned
<1>4. CASE ReadCommitted(c)
  <2> DEFINE statuses == {delivery.row[d] : d \in RowsOf(NoteOf(c))} \ {"none"}
  <2>1. SettleOn(c, statuses)
    BY <1>4 DEF ReadCommitted
  <2>2. NoteOf(c) \in Requests /\ delivery.row \in [Deliveries -> Statuses]
    BY <1>1, Facts, EarnedFacts DEF NoteOf, On, Tables
  <2>3. "queued" \notin statuses => Earned(NoteOf(c), Rollup(statuses))
    BY <1>2, <2>2, RollupEarned
  <2> HIDE DEF statuses
  <2> QED
    BY <1>1, <2>1, <2>3, SettleOnEarned
<1> QED
  BY <1>3, <1>4

\* What was rolled up is what the notification says.
LEMMA SettledEarned ==
  ASSUME EarnedInv, NEW c \in Conns, At(c, "settle")
  PROVE  /\ NoteOf(c) \in Requests /\ work[c].to \in EarnedStatuses[NoteOf(c)]
         /\ work[c].to \in NoteStatuses
         /\ Fit(Requests, Written(note, c, NoteOf(c), work[c].to), EarnedStatuses)
         /\ Written(note, c, NoteOf(c), work[c].to) \in Tables(Requests, NoteStatuses)
<1>1. NoteOf(c) \in Requests /\ work[c].to \in NoteStatuses /\ Earned(NoteOf(c), work[c].to)
  BY Facts, EarnedFacts DEF NoteOf, On, At, Works, Grounded
<1>2. work[c].to \in EarnedStatuses[NoteOf(c)] /\ note \in Tables(Requests, NoteStatuses)
  BY <1>1, Facts, EarnedFacts DEF EarnedStatuses
<1> QED
  BY <1>1, <1>2, FitWritten, WrittenFacts DEF EarnedInv

LEMMA SettlesEarned ==
  ASSUME EarnedInv, ClosedInv', Keeps, Steady, NEW c \in Conns, SettleNotification(c) \/ SettleApart(c)
  PROVE  EarnedInv'
<1> DEFINE t == Written(note, c, NoteOf(c), work[c].to)
<1>1. /\ At(c, "settle") /\ Goto(c, "commit") /\ UNCHANGED delivery
      /\ note' \in {t, Committed(t, c)} /\ work \in [Conns -> Works]
  BY Facts, EarnedFacts DEF SettleNotification, SettleApart
<1>2. t \in Tables(Requests, NoteStatuses) /\ Fit(Requests, t, EarnedStatuses)
  BY <1>1, SettledEarned
<1> HIDE DEF t
<1>3. Fit(Requests, note', EarnedStatuses)
  BY <1>1, <1>2, FitEnds
<1>4. work'[c].pc = "commit" /\ \A e \in Conns \ {c} : work'[e] = work[e]
  BY <1>1 DEF Goto, Works
<1>5. Grounded(c)'
  BY <1>4 DEF Grounded, At
<1> QED
  BY <1>1, <1>3, <1>4, <1>5, KeepsEarned DEF EarnedInv, LockedExist

\* The end of a transaction.
LEMMA EndsEarned ==
  ASSUME EarnedInv, ClosedInv', Keeps, Steady, NEW c \in Conns,
         delivery' \in {Committed(delivery, c), RolledBack(delivery, c)},
         note' \in {note, Committed(note, c), RolledBack(note, c)},
         \A e \in Conns \ {c} : work'[e] = work[e], work'[c].pc \in {"idle", "ack", "done"}
  PROVE  EarnedInv'
<1>1. delivery \in Tables(Deliveries, Statuses) /\ note \in Tables(Requests, NoteStatuses)
  BY Facts, EarnedFacts
<1>2. Fit(Deliveries, delivery', HonestStatuses) /\ Fit(Requests, note', EarnedStatuses)
  BY <1>1, FitEnds DEF EarnedInv
<1>3. \A d \in Deliveries, e \in Conns : delivery'.lock[d] = e => Exists(d[1])
  <2>1. \A d \in Deliveries :
          delivery'.lock[d] = IF delivery.lock[d] = c THEN NoConn ELSE delivery.lock[d]
    <3>1. CASE delivery' = Committed(delivery, c)
      BY <1>1, <3>1, CommittedFacts
    <3>2. CASE delivery' = RolledBack(delivery, c)
      BY <1>1, <3>2, RolledBackFacts
    <3> QED
      BY <3>1, <3>2
  <2> QED
    BY <2>1, NoConnIsNone DEF EarnedInv, LockedExist
<1>4. Grounded(c)'
  BY DEF Grounded, At
<1> QED
  BY <1>2, <1>3, <1>4, KeepsEarned

LEMMA TransactionEarned ==
  ASSUME EarnedInv, ClosedInv', Keeps, Steady, NEW c \in Conns,
         CommitResult(c) \/ HandleThrows(c) \/ Stop(c) \/ EndReport(c)
  PROVE  EarnedInv'
<1>1. work \in [Conns -> Works] /\ Idle.pc = "idle" /\ [Idle EXCEPT !.pc = "done", !.on = On(c)].pc = "done"
  BY Facts, EarnedFacts DEF Idle
<1>2. /\ delivery' \in {Committed(delivery, c), RolledBack(delivery, c)}
      /\ note' \in {note, Committed(note, c), RolledBack(note, c)}
  BY DEF CommitResult, HandleThrows, Stop, Drop, EndReport
<1>3. Goto(c, "ack") \/ \E q : work' = [work EXCEPT ![c] = q] /\ q.pc \in {"idle", "done"}
  BY <1>1 DEF CommitResult, HandleThrows, Stop, Drop, EndReport
<1>4. work'[c].pc \in {"idle", "ack", "done"} /\ \A e \in Conns \ {c} : work'[e] = work[e]
  BY <1>1, <1>3 DEF Goto, Works
<1> QED
  BY <1>2, <1>4, EndsEarned

LEMMA QuietEarned ==
  ASSUME EarnedInv, ClosedInv', Keeps, Steady, NEW w \in Workers,
         (\E d \in Deliveries : Take(w, d)) \/ Acknowledge(w)
  PROVE  EarnedInv'
<1>1. work \in [Conns -> Works] /\ Idle.pc = "idle" /\ w \in Conns /\ UNCHANGED <<note, delivery>>
  BY Facts, EarnedFacts DEF Idle, Take, Acknowledge
<1>2. work'[w].pc \in {"idle", "send"} /\ \A e \in Conns \ {w} : work'[e] = work[e]
  <2>1. CASE \E d \in Deliveries : Take(w, d)
    <3>1. \/ UNCHANGED work /\ work[w].pc = "idle"
          \/ \E d \in Deliveries : work' = [work EXCEPT ![w] = [Idle EXCEPT !.pc = "send", !.on = d]]
      BY <2>1 DEF Take, At
    <3>2. \A d \in Deliveries : [Idle EXCEPT !.pc = "send", !.on = d].pc = "send"
      BY DEF Idle
    <3> QED
      BY <1>1, <3>1, <3>2
  <2>2. CASE Acknowledge(w)
    BY <1>1, <2>2 DEF Acknowledge
  <2> QED
    BY <2>1, <2>2
<1>3. Grounded(w)'
  BY <1>2 DEF Grounded, At
<1> QED
  BY <1>1, <1>2, <1>3, StillEarned

LEMMA StepEarned == EarnedInv /\ [Next]_vars => EarnedInv'
<1> SUFFICES ASSUME EarnedInv, [Next]_vars PROVE EarnedInv'
  OBVIOUS
<1>1. ClosedInv' /\ TypeInv /\ Workers \subseteq Conns /\ Callbacks \subseteq Conns
  BY StepClosed, Facts DEF EarnedInv, ClosedInv
<1>2. ASSUME NEW r \in Requests, Dispatch(r) PROVE EarnedInv'
  BY <1>1, <1>2, CallEarned
<1>3. CASE Elsewhere
  <2>1. Keeps /\ Steady
    BY <1>1, <1>3, ElsewhereSteady
  <2>2. CASE UNCHANGED vars \/ \E d \in Deliveries : Enqueue(d)
    <3>1. UNCHANGED <<note, delivery, work>>
      BY <2>2 DEF vars, Enqueue
    <3> QED
      BY <1>1, <2>1, <3>1, StillEarned
  <2>3. ASSUME NEW w \in Workers, Handle(w) \/ HandleThrows(w) \/ Stop(w) PROVE EarnedInv'
    BY <1>1, <2>1, <2>3, QuietEarned, SendEarned, RecordEarned, ReadsEarned, SettlesEarned,
       TransactionEarned DEF Handle
  <2>4. ASSUME NEW c \in Callbacks, Callback(c) PROVE EarnedInv'
    BY <1>1, <2>1, <2>4, ReportEarned, ReadsEarned, SettlesEarned, TransactionEarned DEF Callback
  <2> QED
    BY <1>3, <2>2, <2>3, <2>4 DEF Elsewhere
<1> QED
  BY <1>2, <1>3, Steppers

\* However workers and callbacks interleave, a notification is closed only when every delivery
\* of it has been tried, 'delivered' only when each was accepted, 'partially_failed' only when
\* one was (maybeSettleParent, of the service and of the tracking).
THEOREM ClosedIsEarnedCorrect == Spec => []ClosedIsEarned
<1>1. Init => EarnedInv
  <2> SUFFICES ASSUME Init PROVE EarnedInv
    OBVIOUS
  <2>1. /\ \A c \in Conns : work[c].pc = "idle"
        /\ \A n \in Requests : note.row[n] = "none" /\ note.lock[n] = NoConn
        /\ \A d \in Deliveries : delivery.row[d] = "none" /\ delivery.lock[d] = NoConn
    BY DEF Init, Idle, Filled
  <2>2. /\ \A d \in Deliveries : "none" \in HonestStatuses[d]
        /\ \A n \in Requests : "none" \in EarnedStatuses[n]
    BY <2>1, Parent DEF HonestStatuses, EarnedStatuses, Exists, Statuses, NoteStatuses
  <2> QED
    BY <2>1, <2>2, InitClosed, NoConnIsNone DEF EarnedInv, LockedExist, Grounded, At, Fit
<1>2. EarnedInv => ClosedIsEarned
  <2> SUFFICES ASSUME EarnedInv, NEW n \in Requests
               PROVE  /\ note.row[n] \in {"partially_failed", "failed", "delivered"} =>
                           \A d \in RowsOf(n) : delivery.row[d] # "queued"
                      /\ note.row[n] # "none" => Earned(n, note.row[n])
    BY DEF ClosedIsEarned, Earned
  <2> QED
    BY EarnedFacts DEF EarnedInv, ClosedInv, NoneWaiting, RowsOf, Exists
<1> QED
  BY <1>1, <1>2, StepEarned, PTL DEF Spec

-----------------------------------------------------------------------------
(***************************************************************************)
(* Dead letters and forgotten deliveries.  A connection holds the row of   *)
(* the delivery it works on, with the status it will commit; a worker that *)
(* has committed leaves that status, and the dead letter when it is one,   *)
(* until it acknowledges its job.                                          *)
(***************************************************************************)
InRecord(c) == work[c].pc \in {"read", "settle", "commit"}
Unlettered(d) == letters[d] <= faults[d]

Holds(c) ==
  /\ work[c].pc = "idle" => On(c) = NoDelivery
  /\ \A d \in Deliveries : delivery.lock[d] = c =>
       /\ InRecord(c) /\ On(c) = d
       /\ c \in Callbacks => delivery.new[d] \in {"sent", "delivered", "bounced", "failed"}

Keeping(w) ==
  /\ InRecord(w) => delivery.lock[On(w)] = w /\ delivery.new[On(w)] = NextStatus(w)
  /\ InRecord(w) \/ work[w].pc \in {"record", "ack"} =>
       work[w].result \in {"sent", "failed", "permanent"}
  /\ work[w].pc # "idle" /\ (work[w].pc = "ack" => NextStatus(w) # "dead_lettered") =>
       Unlettered(On(w))
  /\ work[w].pc = "ack" => delivery.row[On(w)] = NextStatus(w) \/ Reported(On(w))

Lettered(d) ==
  /\ delivery.row[d] = "dead_lettered" => letters[d] > 0
  /\ letters[d] <= 1 + faults[d]
  /\ letters[d] > 0 => copies[d] = 0 \/ faults[d] > 0
  /\ job[d].state \in {"none", "waiting"} => Unlettered(d)

Kept(d) == \/ job[d].state \in {"waiting", "active"} \/ d \in unsent \cup missed
           \/ faults[d] > 0 \/ Reported(d)

Awaited(d) ==
  \/ delivery.row[d] \in {"queued", "failed"}
  \/ request[d[1]].pc = "commit" /\ request[d[1]].as[d[2]] = "queued"

TrackInv ==
  /\ SpareInv
  /\ \A c \in Conns : Holds(c)
  /\ \A w \in Workers : Keeping(w)
  /\ \A d \in Deliveries : Lettered(d) /\ (Awaited(d) => Kept(d))

\* What a worker will record of its attempt is settled until it lets its job go.
LEMMA SameNext ==
  ASSUME NEW w \in Workers, work'[w].result = work[w].result, work'[w].on = work[w].on,
         job'[work[w].on].made = job[work[w].on].made
  PROVE  NextStatus(w)' = NextStatus(w)
BY DEF NextStatus, LastAttempt, On

LEMMA NextIs ==
  ASSUME NEW w \in Workers
  PROVE  /\ NextStatus(w) = "dead_lettered" => work[w].result # "sent"
         /\ ShouldRetry(w) => NextStatus(w) = "failed"
         /\ work[w].result \in {"sent", "failed", "permanent"} /\ ~ShouldRetry(w) =>
              NextStatus(w) \in {"sent", "dead_lettered"}
BY DEF NextStatus, ShouldRetry

\* Of a connection that does nothing.  Its row may have been written by a callback, or its
\* notification brought into the table.
LEMMA StillHolds ==
  ASSUME NEW e \in Conns, Holds(e), work'[e] = work[e],
         \A d \in Deliveries :
           delivery'.lock[d] = e => delivery.lock[d] = e /\ delivery'.new[d] = delivery.new[d]
  PROVE  Holds(e)'
BY DEF Holds, InRecord, On

LEMMA StillKeeping ==
  ASSUME NEW e \in Workers, Keeping(e), work'[e] = work[e],
         work[e].pc # "idle" => On(e) \in Deliveries,
         \A d \in Deliveries :
           delivery.lock[d] = e => delivery'.lock[d] = e /\ delivery'.new[d] = delivery.new[d],
         work[e].pc # "idle" =>
           /\ job'[On(e)].made = job[On(e)].made
           /\ letters'[On(e)] = letters[On(e)] /\ faults'[On(e)] = faults[On(e)]
           /\ delivery'.row[On(e)] = delivery.row[On(e)] \/ Reported(On(e))',
         \A d \in Deliveries : Reported(d) => Reported(d)'
  PROVE  Keeping(e)'
<1>1. CASE work[e].pc = "idle"
  BY <1>1 DEF Keeping, InRecord
<1>2. CASE work[e].pc # "idle"
  <2>1. NextStatus(e)' = NextStatus(e) /\ On(e)' = On(e) /\ On(e) \in Deliveries
    BY <1>2, SameNext DEF On
  <2>2. InRecord(e)' = InRecord(e) /\ Unlettered(On(e))' = Unlettered(On(e))
    BY <1>2, <2>1 DEF InRecord, Unlettered
  <2> QED
    BY <1>2, <2>1, <2>2 DEF Keeping
<1> QED
  BY <1>1, <1>2

\* Of a delivery nothing happens to.
LEMMA StillKept ==
  ASSUME NEW d \in Deliveries, Lettered(d), Awaited(d) => Kept(d),
         delivery'.row[d] = delivery.row[d], job'[d] = job[d], letters'[d] = letters[d],
         copies'[d] = copies[d], faults'[d] = faults[d],
         request'[d[1]].pc = "commit" /\ request'[d[1]].as[d[2]] = "queued" => Awaited(d),
         d \in unsent \cup missed => d \in (unsent \cup missed)',
         Reported(d) => Reported(d)'
  PROVE  Lettered(d)' /\ (Awaited(d) => Kept(d))'
<1>1. Lettered(d)'
  BY DEF Lettered, Unlettered
<1>2. Awaited(d)' => Awaited(d)
  BY DEF Awaited
<1>3. Kept(d) => Kept(d)'
  BY DEF Kept
<1> QED
  BY <1>1, <1>2, <1>3

\* Callbacks do not leave their delivery.
LEMMA StaysReported ==
  ASSUME \A c \in Callbacks : Reported(On(c)) => On(c)' = On(c)
  PROVE  \A d : Reported(d) => Reported(d)'
BY DEF Reported

\* A step of at most one connection, on one delivery.
LEMMA StepOn ==
  ASSUME TrackInv, SpareInv', NEW M \in SUBSET Conns, NEW x \in Deliveries,
         \A e \in Conns \ M : work'[e] = work[e],
         \A e \in Conns \ M, d \in Deliveries :
           /\ delivery'.lock[d] = e <=> delivery.lock[d] = e
           /\ delivery.lock[d] = e => delivery'.new[d] = delivery.new[d],
         \A d \in Deliveries \ {x} :
           /\ delivery'.row[d] = delivery.row[d] /\ job'[d] = job[d]
           /\ letters'[d] = letters[d] /\ copies'[d] = copies[d] /\ faults'[d] = faults[d]
           /\ d \in unsent \cup missed => d \in (unsent \cup missed)',
         \A e \in Workers \ M : work[e].pc # "idle" /\ On(e) = x =>
           /\ job'[x].made = job[x].made /\ letters'[x] = letters[x] /\ faults'[x] = faults[x]
           /\ delivery'.row[x] = delivery.row[x] \/ Reported(x)',
         request' = request, \A d \in Deliveries : Reported(d) => Reported(d)',
         \A c \in M : Holds(c)' /\ (c \in Workers => Keeping(c)'),
         Lettered(x)' /\ (Awaited(x) => Kept(x))'
  PROVE  TrackInv'
<1>1. TypeInv /\ Workers \subseteq Conns
  BY Facts DEF TrackInv, SpareInv
<1>2. \A e \in Conns : Holds(e)'
  BY StillHolds DEF TrackInv
<1>3. ASSUME NEW e \in Workers \ M
      PROVE  Keeping(e)'
  <2>1. work[e].pc # "idle" => On(e) \in Deliveries
    BY <1>1, Facts DEF On
  <2>2. work[e].pc # "idle" =>
          /\ job'[On(e)].made = job[On(e)].made
          /\ letters'[On(e)] = letters[On(e)] /\ faults'[On(e)] = faults[On(e)]
          /\ delivery'.row[On(e)] = delivery.row[On(e)] \/ Reported(On(e))'
    <3>1. CASE On(e) = x
      <4>1. On(e)' = x
        BY <1>1, <3>1 DEF On
      <4>2. Reported(On(e))' = Reported(x)'
        BY <4>1 DEF Reported
      <4> QED
        BY <3>1, <4>2
    <3>2. CASE On(e) # x
      BY <2>1, <3>2
    <3> QED
      BY <3>1, <3>2
  <2> QED
    BY <1>1, <2>1, <2>2, StillKeeping DEF TrackInv
<1>4. \A d \in Deliveries \ {x} : Lettered(d)' /\ (Awaited(d) => Kept(d))'
  <2> TAKE d \in Deliveries \ {x}
  <2>1. request'[d[1]].pc = "commit" /\ request'[d[1]].as[d[2]] = "queued" => Awaited(d)
    BY DEF Awaited
  <2> QED
    BY <2>1, StillKept DEF TrackInv
<1> QED
  BY <1>2, <1>3, <1>4 DEF TrackInv

-----------------------------------------------------------------------------
\* The steps of dispatch.
LEMMA CallTracks ==
  ASSUME TrackInv, SpareInv', NEW r \in Requests, Dispatch(r)
  PROVE  TrackInv'
<1> USE DEF Serving
<1>t. TypeInv /\ request \in [Requests -> RequestRows] /\ Workers \subseteq Conns
      /\ delivery \in Tables(Deliveries, Statuses)
  BY Facts DEF TrackInv, SpareInv, TypeInv, TypeOK
<1>1. UNCHANGED tracked
  BY DEF Dispatch, BeginDispatch, retry, InsertNotification, WriteDeliveries, CommitDispatch,
         Stamp, AbortDispatch
<1>2. /\ work' = work /\ job' = job /\ letters' = letters /\ copies' = copies
      /\ faults' = faults /\ missed' = missed
  BY <1>1 DEF tracked
<1>3. \A d : Reported(d)' = Reported(d)
  BY <1>2 DEF Reported, On
<1>4. unsent \subseteq unsent'
  BY DEF Dispatch, BeginDispatch, retry, InsertNotification, WriteDeliveries, CommitDispatch,
         Stamp, AbortDispatch
<1>5. /\ delivery'.lock = delivery.lock /\ delivery'.new = delivery.new
      /\ \A d \in Deliveries :
           \/ delivery'.row[d] = delivery.row[d]
           \/ /\ CommitDispatch(r) /\ d[1] = r
              /\ delivery'.row[d] = request[r].as[d[2]]
  <2>1. CASE CommitDispatch(r)
    BY <1>t, <2>1 DEF CommitDispatch, Tables
  <2>2. CASE ~CommitDispatch(r)
    <3>1. delivery' = delivery
      BY <2>2 DEF Dispatch, BeginDispatch, retry, InsertNotification, WriteDeliveries, Stamp,
                  AbortDispatch
    <3> QED
      BY <3>1
  <2> QED
    BY <2>1, <2>2
<1>6. CommitDispatch(r) => request[r].pc = "commit" /\ ~Exists(r)
  BY <1>t DEF CommitDispatch, TypeInv, CallInv
<1>7. \A e \in Conns : Holds(e)'
  BY <1>2, <1>5, StillHolds DEF TrackInv
<1>8. ASSUME NEW e \in Workers
      PROVE  Keeping(e)'
  <2>1. work[e].pc # "idle" => On(e) \in Deliveries /\ Exists(On(e)[1])
    BY <1>t, Facts DEF On
  <2>2. work[e].pc # "idle" => delivery'.row[On(e)] = delivery.row[On(e)]
    BY <1>5, <1>6, <2>1
  <2> QED
    BY <1>t, <1>2, <1>3, <1>5, <2>1, <2>2, StillKeeping DEF TrackInv
<1>9. ASSUME NEW d \in Deliveries
      PROVE  Awaited(d)' => Kept(d)'
  <2>0. Kept(d) => Kept(d)'
    BY <1>2, <1>3, <1>4 DEF Kept
  <2>1. CASE ~WriteDeliveries(r)
    <3>1. request'[d[1]].pc = "commit" /\ request'[d[1]].as[d[2]] = "queued" =>
            request[d[1]].pc = "commit" /\ request[d[1]].as[d[2]] = "queued"
      <4>0. d[1] \in Requests
        BY Parent
      <4>1. CASE \E key \in Keys \cup {NoKey} : BeginDispatch(r, key)
        BY <1>t, <4>0, <4>1 DEF BeginDispatch, NotCalled
      <4>2. CASE \E x \in Deliveries : retry(r, x)
        BY <1>t, <4>0, <4>2 DEF retry, NotCalled
      <4>3. CASE InsertNotification(r) \/ Stamp(r) \/ AbortDispatch(r)
        BY <1>t, <4>0, <4>3 DEF InsertNotification, Stamp, AbortDispatch, Turn, RequestRows
      <4>4. CASE CommitDispatch(r)
        BY <1>t, <4>0, <4>4 DEF CommitDispatch, RequestRows
      <4> QED
        BY <2>1, <4>1, <4>2, <4>3, <4>4 DEF Dispatch
    <3>2. Awaited(d)' => Awaited(d)
      <4>1. CASE delivery'.row[d] = delivery.row[d]
        BY <3>1, <4>1 DEF Awaited
      <4>2. CASE CommitDispatch(r) /\ d[1] = r /\ delivery'.row[d] = request[r].as[d[2]]
        <5>1. request[r].as[d[2]] \in {"none", "queued", "suppressed"}
          BY <1>t, Parent DEF RequestRows
        <5> QED
          BY <1>6, <3>1, <4>2, <5>1 DEF Awaited
      <4> QED
        BY <1>5, <4>1, <4>2
    <3> QED
      BY <2>0, <3>2 DEF TrackInv
  <2>2. CASE WriteDeliveries(r)
    <3>1. PICK rows \in [Channels -> {"none", "queued", "suppressed"}] :
            /\ request' = [request EXCEPT ![r].pc = "commit", ![r].as = rows]
            /\ unsent' = unsent \cup {x \in Deliveries : x[1] = r /\ rows[x[2]] = "queued"}
      BY <2>2 DEF WriteDeliveries
    <3>2. request'[r].as = rows /\ \A s \in Requests \ {r} : request'[s] = request[s]
      BY <1>t, <3>1 DEF RequestRows
    <3>3. delivery' = delivery
      BY <2>2 DEF WriteDeliveries
    <3>4. CASE d[1] = r /\ rows[d[2]] = "queued"
      BY <3>1, <3>4 DEF Kept
    <3>5. CASE ~(d[1] = r /\ rows[d[2]] = "queued")
      <4>1. Awaited(d)' => Awaited(d)
        BY <3>2, <3>3, <3>5, Parent DEF Awaited
      <4> QED
        BY <2>0, <4>1 DEF TrackInv
    <3> QED
      BY <3>4, <3>5
  <2> QED
    BY <2>1, <2>2
<1>10. ASSUME NEW d \in Deliveries
       PROVE  Lettered(d)'
  <2>1. delivery'.row[d] = "dead_lettered" => delivery.row[d] = "dead_lettered"
    <3>1. CASE delivery'.row[d] = delivery.row[d]
      BY <3>1
    <3>2. CASE d[1] = r /\ delivery'.row[d] = request[r].as[d[2]]
      <4>1. request[r].as[d[2]] # "dead_lettered"
        BY <1>t, Parent DEF RequestRows
      <4> QED
        BY <3>2, <4>1
    <3> QED
      BY <1>5, <3>1, <3>2
  <2> QED
    BY <1>2, <2>1 DEF TrackInv, Lettered, Unlettered
<1> QED
  BY <1>7, <1>8, <1>9, <1>10 DEF TrackInv

LEMMA EnqueueTracks ==
  ASSUME TrackInv, SpareInv', NEW d \in Deliveries, Enqueue(d)
  PROVE  TrackInv'
<1>t. TypeInv /\ SpareInv
  BY DEF TrackInv, SpareInv
<1>1. job[d].state = "none"
  BY <1>t DEF Enqueue, SpareInv, AddedOnce
<1>2. /\ request' = request /\ work' = work /\ delivery' = delivery /\ letters' = letters
      /\ copies' = copies /\ faults' = faults /\ unsent' = unsent \ {d} /\ missed \subseteq missed'
      /\ \A x \in Deliveries \ {d} : job'[x] = job[x]
      /\ job'[d].state \in {"none", "waiting"} /\ (d \in missed' \/ job'[d].state = "waiting")
  BY <1>t, <1>1, Facts DEF Enqueue, Jobs
<1>3. \A x \in Deliveries : Reported(x) => Reported(x)'
  BY <1>2 DEF Reported, On
<1>4. \A e \in Workers : work[e].pc # "idle" => On(e) # d
  BY <1>t, <1>1 DEF SpareInv, OneWorker, On
<1>5. Kept(d)'
  BY <1>2 DEF Kept
<1>6. Lettered(d)'
  BY <1>1, <1>2 DEF TrackInv, Lettered, Unlettered
<1>7. {} \in SUBSET Conns
  OBVIOUS
<1> QED
  BY <1>2, <1>3, <1>4, <1>5, <1>6, <1>7, StepOn

LEMMA StutterTracks ==
  ASSUME TrackInv, SpareInv', UNCHANGED vars
  PROVE  TrackInv'
<1>1. /\ request' = request /\ delivery' = delivery /\ letters' = letters /\ unsent' = unsent
      /\ job' = job /\ work' = work /\ copies' = copies /\ faults' = faults /\ missed' = missed
  BY DEF vars
<1>2. \A d : Reported(d)' = Reported(d)
  BY <1>1 DEF Reported, On
<1>3. \A e \in Conns : Holds(e)'
  BY <1>1, StillHolds DEF TrackInv
<1>4. ASSUME NEW e \in Workers
      PROVE  Keeping(e)'
  <2>1. NextStatus(e)' = NextStatus(e)
    BY <1>1, SameNext
  <2> QED
    BY <1>1, <1>2, <2>1 DEF TrackInv, Keeping, InRecord, Unlettered, On, Reported
<1>5. ASSUME NEW d \in Deliveries
      PROVE  Lettered(d)' /\ (Awaited(d) => Kept(d))'
  <2>1. request'[d[1]].pc = "commit" /\ request'[d[1]].as[d[2]] = "queued" => Awaited(d)
    BY <1>1 DEF Awaited
  <2> QED
    BY <1>1, <1>2, <2>1, StillKept DEF TrackInv
<1> QED
  BY <1>3, <1>4, <1>5 DEF TrackInv

-----------------------------------------------------------------------------
\* The steps of a worker.
LEMMA Working ==
  ASSUME TrackInv, NEW w \in Workers, work[w].pc # "idle"
  PROVE  /\ On(w) \in Deliveries /\ job[On(w)].state = "active" /\ w \in Conns
         /\ \A e \in Workers \ {w} : work[e].pc # "idle" => On(e) # On(w)
         /\ Holds(w) /\ Keeping(w) /\ Lettered(On(w))
         /\ job[On(w)] \in Jobs /\ work[w] \in Works
BY Facts DEF TrackInv, SpareInv, OneWorker, On

\* A worker moves, and only what belongs to its delivery with it.
LEMMA WorkerSteps ==
  ASSUME TrackInv, SpareInv', NEW w \in Workers, NEW x \in Deliveries,
         work[w].pc # "idle", On(w) = x, UNCHANGED calls, missed \subseteq missed',
         \A e \in Conns \ {w} : work'[e] = work[e],
         \A e \in Conns \ {w}, d \in Deliveries :
           /\ delivery'.lock[d] = e <=> delivery.lock[d] = e
           /\ delivery.lock[d] = e => delivery'.new[d] = delivery.new[d],
         \A d \in Deliveries \ {x} :
           /\ delivery'.row[d] = delivery.row[d] /\ job'[d] = job[d]
           /\ letters'[d] = letters[d] /\ copies'[d] = copies[d] /\ faults'[d] = faults[d],
         Holds(w)', Keeping(w)', Lettered(x)', Awaited(x)' => Kept(x)'
  PROVE  TrackInv'
<1>1. w \in Conns /\ Callbacks \subseteq Conns \ {w}
  BY NotificationConstants
<1>2. \A d \in Deliveries : Reported(d) => Reported(d)'
  BY <1>1 DEF Reported, On
<1>3. \A e \in Workers \ {w} : work[e].pc # "idle" => On(e) # x
  BY Working
<1>4. {w} \in SUBSET Conns
  BY <1>1
<1>5. request' = request /\ unsent' = unsent
  BY DEF calls
<1> QED
  BY <1>2, <1>3, <1>4, <1>5, StepOn

\* What a worker has of its delivery once its row is committed, or before it is written.
LEMMA NoLock ==
  ASSUME NEW w \in Workers, \A d \in Deliveries : delivery'.lock[d] # w, work'[w].pc # "idle"
  PROVE  Holds(w)'
BY DEF Holds

\* To the call of the provider and back.
LEMMA SendTracks ==
  ASSUME TrackInv, SpareInv', NEW w \in Workers, Send(w)
  PROVE  TrackInv'
<1>0. PICK x \in Deliveries : x = On(w)
  BY Working DEF Send, At
<1>1. /\ x = On(w) /\ job[x].state = "active" /\ w \in Conns /\ work[w].pc = "send"
      /\ Holds(w) /\ Keeping(w) /\ Lettered(x)
  BY <1>0, Working DEF Send, At
<1>2. PICK result \in {"sent", "failed", "permanent"} : Answered(w, result)
  BY DEF Send
<1>3. /\ work'[w].pc = "record" /\ work'[w].result = result /\ work'[w].on = x
      /\ \A e \in Conns \ {w} : work'[e] = work[e]
  BY <1>1, <1>2, Facts DEF Answered, On, Works, TrackInv, SpareInv
<1>4. /\ UNCHANGED <<delivery, letters, job, missed>> /\ UNCHANGED calls
      /\ \A d \in Deliveries \ {x} : copies'[d] = copies[d] /\ faults'[d] = faults[d]
      /\ faults'[x] \in {faults[x], faults[x] + 1}
      /\ copies \in [Deliveries -> Nat] /\ faults \in [Deliveries -> Nat] /\ letters \in [Deliveries -> Nat]
  BY <1>1, Facts DEF Send, Fault, TrackInv, SpareInv
<1>5. Unlettered(x) /\ (letters[x] > 0 => faults[x] > 0)
  BY <1>1, <1>4 DEF Keeping, Unlettered
<1>6. Holds(w)'
  <2>1. \A d \in Deliveries : delivery.lock[d] # w
    BY <1>1 DEF Holds, InRecord
  <2> QED
    BY <1>3, <1>4, <2>1, NoLock
<1>7. Keeping(w)'
  <2>1. letters[x] <= faults'[x]
    BY <1>1, <1>4, <1>5 DEF Unlettered
  <2>2. On(w)' = x
    BY <1>1, <1>3 DEF On
  <2> QED
    BY <1>3, <1>4, <2>1, <2>2 DEF Keeping, InRecord, Unlettered
<1>8. Lettered(x)'
  <2>1. /\ letters[x] <= faults'[x] /\ letters[x] <= 1 + faults'[x]
        /\ letters[x] > 0 => faults'[x] > 0
    BY <1>1, <1>4, <1>5 DEF Unlettered
  <2> QED
    BY <1>1, <1>4, <2>1 DEF Lettered
<1>9. Kept(x)'
  BY <1>1, <1>4 DEF Kept
<1> QED
  BY <1>1, <1>3, <1>4, <1>6, <1>7, <1>8, <1>9, WorkerSteps

LEMMA RecordTracks ==
  ASSUME TrackInv, SpareInv', NEW w \in Workers, Record(w)
  PROVE  TrackInv'
<1>0. PICK x \in Deliveries : x = On(w)
  BY Working DEF Record, At
<1>1. /\ x = On(w) /\ job[x].state = "active" /\ w \in Conns /\ work[w].pc = "record"
      /\ Holds(w) /\ Keeping(w) /\ Lettered(x)
  BY <1>0, Working DEF Record, At
<1>2. /\ work'[w].pc = "read" /\ work'[w].result = work[w].result /\ work'[w].on = work[w].on
      /\ \A e \in Conns \ {w} : work'[e] = work[e]
  BY <1>1, Facts DEF Record, Goto, Works, TrackInv, SpareInv
<1>3. UNCHANGED <<letters, job, copies, faults, missed>> /\ UNCHANGED calls
  BY DEF Record
<1>4. /\ delivery'.row = delivery.row /\ delivery.lock[x] \in {NoConn, w}
      /\ \A d \in Deliveries : /\ delivery'.new[d] = IF d = x THEN NextStatus(w) ELSE delivery.new[d]
                               /\ delivery'.lock[d] = IF d = x THEN w ELSE delivery.lock[d]
  BY <1>1, WrittenFacts, NextStatusType, Facts DEF Record, Free, TrackInv, SpareInv
<1>5. NextStatus(w)' = NextStatus(w)
  BY <1>2, <1>3, SameNext
<1>6. On(w)' = x
  BY <1>1, <1>2 DEF On
<1>7. \A d \in Deliveries : delivery.lock[d] # w
  BY <1>1 DEF Holds, InRecord
<1>8. Holds(w)'
  <2>1. w \notin Callbacks
    BY NotificationConstants
  <2>2. InRecord(w)' /\ work'[w].pc # "idle"
    BY <1>2 DEF InRecord
  <2>3. \A d \in Deliveries : delivery'.lock[d] = w => d = x
    BY <1>4, <1>7
  <2> QED
    BY <1>6, <2>1, <2>2, <2>3 DEF Holds
<1>9. Keeping(w)'
  <2>1. Unlettered(x)
    BY <1>1 DEF Keeping
  <2>2. delivery'.lock[x] = w /\ delivery'.new[x] = NextStatus(w)
    BY <1>1, <1>4
  <2>3. work[w].result \in {"sent", "failed", "permanent"}
    BY <1>1 DEF Keeping
  <2> QED
    BY <1>2, <1>3, <1>5, <1>6, <2>1, <2>2, <2>3 DEF Keeping, Unlettered
<1>10. Lettered(x)' /\ Kept(x)'
  BY <1>1, <1>3, <1>4 DEF Lettered, Unlettered, Kept
<1> QED
  BY <1>1, <1>2, <1>3, <1>4, <1>8, <1>9, <1>10, NoConnIsNone, WorkerSteps

\* Reads, and the notification: the deliveries stay as they are.
LEMMA SettlesTracks ==
  ASSUME TrackInv, SpareInv', NEW c \in Conns, InRecord(c), InRecord(c)',
         work'[c].result = work[c].result, work'[c].on = work[c].on,
         \A e \in Conns \ {c} : work'[e] = work[e],
         UNCHANGED <<calls, delivery, letters, job, copies, faults, missed>>
  PROVE  TrackInv'
<1>1. /\ request' = request /\ delivery' = delivery /\ letters' = letters /\ unsent' = unsent
      /\ job' = job /\ copies' = copies /\ faults' = faults /\ missed' = missed
      /\ \A e \in Conns : On(e)' = On(e)
  BY DEF calls, On
<1>2. \A d \in Deliveries : Reported(d) => Reported(d)'
  BY <1>1, NotificationConstants DEF Reported
<1>3. On(c) \in Deliveries
  BY Facts DEF TrackInv, SpareInv, On, InRecord
<1>4. Holds(c)'
  BY <1>1 DEF TrackInv, Holds, InRecord
<1>5. c \in Workers => Keeping(c)'
  <2> SUFFICES ASSUME c \in Workers PROVE Keeping(c)'
    OBVIOUS
  <2>1. NextStatus(c)' = NextStatus(c)
    BY <1>1, SameNext
  <2> QED
    BY <1>1, <2>1 DEF TrackInv, Keeping, InRecord, Unlettered
<1>6. {c} \in SUBSET Conns
  OBVIOUS
<1>7. Lettered(On(c)) /\ (Awaited(On(c)) => Kept(On(c)))
  BY <1>3 DEF TrackInv
<1> QED
  <2>1. PICK y \in Deliveries : y = On(c)
    BY <1>3
  <2>2. Lettered(y)' /\ (Awaited(y) => Kept(y))'
    BY <1>1, <1>2, <1>7, <2>1 DEF Lettered, Unlettered, Awaited, Kept
  <2> QED
    BY <1>1, <1>2, <1>4, <1>5, <1>6, <2>2, StepOn

LEMMA CommitResultTracks ==
  ASSUME TrackInv, SpareInv', NEW w \in Workers, CommitResult(w)
  PROVE  TrackInv'
<1>0. PICK x \in Deliveries : x = On(w)
  BY Working DEF CommitResult, At
<1>1. /\ x = On(w) /\ job[x].state = "active" /\ w \in Conns /\ work[w].pc = "commit"
      /\ Holds(w) /\ Keeping(w) /\ Lettered(x)
  BY <1>0, Working DEF CommitResult, At
<1>2. /\ work'[w].pc = "ack" /\ work'[w].result = work[w].result /\ work'[w].on = work[w].on
      /\ \A e \in Conns \ {w} : work'[e] = work[e]
  BY <1>1, Facts DEF CommitResult, Goto, Works, TrackInv, SpareInv
<1>3. UNCHANGED <<job, copies, faults, missed>> /\ UNCHANGED calls
  BY DEF CommitResult
<1>4. /\ delivery.lock[x] = w /\ delivery.new[x] = NextStatus(w)
      /\ work[w].result \in {"sent", "failed", "permanent"} /\ letters[x] <= faults[x]
      /\ \A d \in Deliveries : delivery.lock[d] = w => d = x
  BY <1>1 DEF Keeping, Holds, InRecord, Unlettered
<1>5. /\ delivery'.new = delivery.new
      /\ \A d \in Deliveries :
           /\ delivery'.row[d] = IF delivery.lock[d] = w THEN delivery.new[d] ELSE delivery.row[d]
           /\ delivery'.lock[d] = IF delivery.lock[d] = w THEN NoConn ELSE delivery.lock[d]
  BY <1>1, CommittedFacts, Facts DEF CommitResult, TrackInv, SpareInv
<1>6. /\ letters'[x] = IF NextStatus(w) = "dead_lettered" THEN letters[x] + 1 ELSE letters[x]
      /\ \A d \in Deliveries \ {x} : letters'[d] = letters[d]
      /\ letters[x] \in Nat /\ copies[x] \in Nat /\ faults[x] \in Nat
  BY <1>1, Facts DEF CommitResult, TrackInv, SpareInv
<1>7. NextStatus(w)' = NextStatus(w) /\ On(w)' = x
  BY <1>1, <1>2, <1>3, SameNext DEF On
<1>8. NextStatus(w) = "dead_lettered" => copies[x] = 0 \/ faults[x] > 0
  <2>1. NextStatus(w) = "dead_lettered" => copies[x] <= faults[x]
    BY <1>1, NextIs DEF TrackInv, SpareInv, CopiesPaid, Unsure, Paid, On
  <2> QED
    BY <1>6, <2>1
<1>9. Holds(w)'
  BY <1>1, <1>2, <1>5, NoConnIsNone, NoLock
<1>10. Keeping(w)'
  BY <1>2, <1>3, <1>4, <1>5, <1>6, <1>7 DEF Keeping, InRecord, Unlettered
<1>11. Lettered(x)'
  <2>1. /\ delivery'.row[x] = "dead_lettered" => letters'[x] > 0
        /\ letters'[x] <= 1 + faults[x]
    BY <1>4, <1>5, <1>6
  <2>2. letters'[x] > 0 => copies[x] = 0 \/ faults[x] > 0
    BY <1>1, <1>6, <1>8 DEF Lettered
  <2> QED
    BY <1>1, <1>3, <2>1, <2>2 DEF Lettered
<1>12. Kept(x)'
  BY <1>1, <1>3 DEF Kept
<1>13. /\ \A e \in Conns \ {w}, d \in Deliveries :
            /\ delivery'.lock[d] = e <=> delivery.lock[d] = e
            /\ delivery.lock[d] = e => delivery'.new[d] = delivery.new[d]
       /\ \A d \in Deliveries \ {x} : delivery'.row[d] = delivery.row[d]
  BY <1>4, <1>5, NoConnIsNone
<1> QED
  BY <1>1, <1>2, <1>3, <1>6, <1>9, <1>10, <1>11, <1>12, <1>13, WorkerSteps

LEMMA AcknowledgeTracks ==
  ASSUME TrackInv, SpareInv', NEW w \in Workers, Acknowledge(w)
  PROVE  TrackInv'
<1>0. PICK x \in Deliveries : x = On(w)
  BY Working DEF Acknowledge, At
<1>1. /\ x = On(w) /\ job[x] \in Jobs /\ w \in Conns /\ work[w].pc = "ack"
      /\ Holds(w) /\ Keeping(w) /\ Lettered(x)
  BY <1>0, Working DEF Acknowledge, At
<1>2. /\ work'[w] = Idle /\ \A e \in Conns \ {w} : work'[e] = work[e]
  BY <1>1, Facts DEF Acknowledge, TrackInv, SpareInv
<1>3. UNCHANGED <<delivery, letters, copies, faults, missed>> /\ UNCHANGED calls
  BY DEF Acknowledge
<1>4. /\ \A d \in Deliveries \ {x} : job'[d] = job[d]
      /\ job'[x].state = IF ShouldRetry(w) THEN "waiting" ELSE "done"
  <2>1. job \in [Deliveries -> Jobs] /\ MaxAttempts \in Nat /\ job[x].made \in Nat
    BY <1>1, Facts, NotificationConstants DEF TrackInv, SpareInv, Jobs
  <2> QED
    BY <1>1, <2>1 DEF Acknowledge, Attempted, ShouldRetry, LastAttempt, Jobs
<1>5. Idle.pc = "idle" /\ Idle.on = NoDelivery
  BY DEF Idle
<1>6. \A d \in Deliveries : delivery.lock[d] # w
  BY <1>1 DEF Holds, InRecord
<1>7. Holds(w)' /\ Keeping(w)'
  BY <1>2, <1>3, <1>5, <1>6 DEF Holds, Keeping, InRecord, On
<1>8. ShouldRetry(w) => letters[x] <= faults[x]
  BY <1>1, NextIs DEF Keeping, Unlettered
<1>9. Lettered(x)'
  BY <1>1, <1>3, <1>4, <1>8 DEF Lettered, Unlettered
<1>10. Awaited(x)' => Kept(x)'
  <2>1. CASE ShouldRetry(w)
    BY <1>4, <2>1 DEF Kept
  <2>2. CASE ~ShouldRetry(w)
    <3>1. NextStatus(w) \in {"sent", "dead_lettered"}
      BY <1>1, <2>2, NextIs DEF Keeping
    <3>2. request[x[1]].pc # "commit"
      BY <1>1, Facts, Parent DEF TrackInv, SpareInv, TypeInv, CallInv, On
    <3>3. Awaited(x)' => Reported(x)
      BY <1>1, <1>3, <3>1, <3>2 DEF Awaited, Keeping, calls
    <3>4. Reported(x) => Reported(x)'
      BY <1>2, NotificationConstants DEF Reported, On
    <3> QED
      BY <3>3, <3>4 DEF Kept
  <2> QED
    BY <2>1, <2>2
<1> QED
  BY <1>1, <1>2, <1>3, <1>4, <1>7, <1>9, <1>10, WorkerSteps

LEMMA DropTracks ==
  ASSUME TrackInv, SpareInv', NEW w \in Workers, HandleThrows(w) \/ Stop(w)
  PROVE  TrackInv'
<1>0. PICK x \in Deliveries : x = On(w)
  BY Working DEF HandleThrows, Stop, At
<1>1. /\ x = On(w) /\ job[x] \in Jobs /\ w \in Conns /\ work[w].pc # "idle"
      /\ Holds(w) /\ Keeping(w) /\ Lettered(x)
  BY <1>0, Working DEF HandleThrows, Stop, At
<1>2. /\ work'[w] = Idle /\ \A e \in Conns \ {w} : work'[e] = work[e]
  BY <1>1, Facts DEF HandleThrows, Stop, Drop, TrackInv, SpareInv
<1>3. UNCHANGED <<letters, copies, missed>> /\ UNCHANGED calls
  BY DEF HandleThrows, Stop, Drop
<1>4. \A d \in Deliveries \ {x} : job'[d] = job[d]
  BY <1>1, Facts DEF HandleThrows, Stop, Attempted, TrackInv, SpareInv
<1>5. /\ \A d \in Deliveries \ {x} : faults'[d] = faults[d]
      /\ faults'[x] = faults[x] + 1 /\ faults[x] \in Nat /\ letters[x] \in Nat
  BY <1>1, Facts DEF HandleThrows, Stop, Drop, Fault, TrackInv, SpareInv
<1>6. /\ delivery'.row = delivery.row
      /\ \A d \in Deliveries :
           /\ delivery'.new[d] = IF delivery.lock[d] = w THEN delivery.row[d] ELSE delivery.new[d]
           /\ delivery'.lock[d] = IF delivery.lock[d] = w THEN NoConn ELSE delivery.lock[d]
  BY <1>1, RolledBackFacts, Facts DEF HandleThrows, Stop, Drop, TrackInv, SpareInv
<1>7. Idle.pc = "idle" /\ Idle.on = NoDelivery
  BY DEF Idle
<1>8. Holds(w)' /\ Keeping(w)'
  BY <1>1, <1>2, <1>6, <1>7, NoConnIsNone DEF Holds, Keeping, InRecord, On
<1>9. letters[x] <= faults'[x] /\ letters[x] <= 1 + faults'[x] /\ faults'[x] > 0
  BY <1>1, <1>5 DEF Lettered
<1>10. Lettered(x)' /\ Kept(x)'
  BY <1>1, <1>3, <1>6, <1>9 DEF Lettered, Unlettered, Kept
<1>11. \A e \in Conns \ {w}, d \in Deliveries :
         /\ delivery'.lock[d] = e <=> delivery.lock[d] = e
         /\ delivery.lock[d] = e => delivery'.new[d] = delivery.new[d]
  BY <1>6, NoConnIsNone
<1> QED
  BY <1>1, <1>2, <1>3, <1>4, <1>5, <1>6, <1>8, <1>10, <1>11, WorkerSteps

LEMMA TakeTracks ==
  ASSUME TrackInv, SpareInv', NEW w \in Workers, NEW d \in Deliveries, Take(w, d)
  PROVE  TrackInv'
<1>1. /\ work[w].pc = "idle" /\ job[d].state = "waiting" /\ job[d] \in Jobs /\ w \in Conns
      /\ Holds(w) /\ Lettered(d) /\ letters[d] <= faults[d]
  BY Facts DEF Take, At, TrackInv, SpareInv, Lettered, Unlettered
<1>2. /\ request' = request /\ unsent' = unsent /\ delivery' = delivery /\ letters' = letters
      /\ copies' = copies /\ faults' = faults /\ missed \subseteq missed'
      /\ \A x \in Deliveries \ {d} : job'[x] = job[x]
  BY Facts DEF Take, calls, TrackInv, SpareInv
<1>3. \A e \in Workers : work[e].pc # "idle" => On(e) # d
  BY <1>1 DEF TrackInv, SpareInv, OneWorker, On
<1>4. \A e \in Conns \ {w} : work'[e] = work[e]
  BY <1>1, Facts DEF Take, TrackInv, SpareInv
<1>5. \A x \in Deliveries : Reported(x) => Reported(x)'
  BY <1>4, NotificationConstants DEF Reported, On
<1>6. \A x \in Deliveries : delivery.lock[x] # w
  BY <1>1 DEF Holds, InRecord
<1>7. CASE Exists(d[1])
  <2>1. /\ work'[w].pc = "send" /\ work'[w].on = d /\ job'[d].state = "active"
    <3> DEFINE q == [Idle EXCEPT !.pc = "send", !.on = d]
    <3>1. q.pc = "send" /\ q.on = d
      BY Facts DEF Works, TrackInv, SpareInv
    <3>2. work' = [work EXCEPT ![w] = q] /\ job' = [job EXCEPT ![d].state = "active"]
      BY <1>7 DEF Take
    <3> HIDE DEF q
    <3> QED
      BY <1>1, <3>1, <3>2, Facts DEF Jobs, TrackInv, SpareInv
  <2>2. Holds(w)' /\ Keeping(w)'
    BY <1>1, <1>2, <1>6, <2>1 DEF Holds, Keeping, InRecord, Unlettered, On
  <2>3. Lettered(d)' /\ Kept(d)'
    BY <1>1, <1>2, <2>1 DEF Lettered, Unlettered, Kept
  <2>4. {w} \in SUBSET Conns
    BY <1>1
  <2> QED
    BY <1>2, <1>3, <1>4, <1>5, <2>2, <2>3, <2>4, StepOn
<1>8. CASE ~Exists(d[1])
  <2>1. work' = work /\ d \in missed' /\ job'[d].state = "done"
    BY <1>1, <1>8, Facts DEF Take, Jobs, TrackInv, SpareInv
  <2>2. Lettered(d)' /\ Kept(d)'
    BY <1>1, <1>2, <2>1 DEF Lettered, Unlettered, Kept
  <2>3. {} \in SUBSET Conns
    OBVIOUS
  <2> QED
    BY <1>2, <1>3, <1>5, <2>1, <2>2, <2>3, StepOn
<1> QED
  BY <1>7, <1>8

-----------------------------------------------------------------------------
\* The steps of a callback.
LEMMA ReportTracks ==
  ASSUME TrackInv, SpareInv', NEW c \in Callbacks, NEW d \in Deliveries,
         NEW status \in {"sent", "delivered", "bounced", "failed"}, Report(c, d, status)
  PROVE  TrackInv'
<1>1. /\ work[c].pc = "idle" /\ c \in Conns /\ c \notin Workers /\ Holds(c) /\ Lettered(d)
      /\ delivery.lock[d] \in {NoConn, c}
  BY NotificationConstants DEF Report, At, Free, TrackInv
<1>2. /\ work'[c].pc = "read" /\ work'[c].on = d /\ \A e \in Conns \ {c} : work'[e] = work[e]
  <2> DEFINE q == [Idle EXCEPT !.pc = "read", !.on = d, !.result = status]
  <2>1. q.pc = "read" /\ q.on = d /\ work' = [work EXCEPT ![c] = q]
    BY Facts DEF Report, Works, TrackInv, SpareInv
  <2> HIDE DEF q
  <2> QED
    BY <1>1, <2>1, Facts DEF TrackInv, SpareInv
<1>3. /\ request' = request /\ unsent' = unsent /\ letters' = letters /\ job' = job
      /\ copies' = copies /\ faults' = faults /\ missed' = missed
  BY DEF Report, calls
<1>4. /\ delivery'.row = delivery.row
      /\ \A x \in Deliveries : /\ delivery'.new[x] = IF x = d THEN status ELSE delivery.new[x]
                               /\ delivery'.lock[x] = IF x = d THEN c ELSE delivery.lock[x]
  <2>1. status \in Statuses
    BY DEF Statuses, Settled
  <2> QED
    BY <1>1, <2>1, WrittenFacts, Facts DEF Report, TrackInv, SpareInv
<1>5. On(c) = NoDelivery /\ \A x \in Deliveries : delivery.lock[x] # c
  BY <1>1 DEF Holds, InRecord
<1>6. \A x \in Deliveries : Reported(x) => Reported(x)'
  BY <1>2, <1>5, NotificationConstants DEF Reported, On
<1>7. Holds(c)'
  BY <1>2, <1>4, <1>5 DEF Holds, InRecord, On
<1>8. Lettered(d)' /\ (Awaited(d)' => Kept(d)')
  BY <1>1, <1>3, <1>4, <1>6 DEF TrackInv, Lettered, Unlettered, Awaited, Kept
<1>9. {c} \in SUBSET Conns
  BY <1>1
<1>10. \A e \in Conns \ {c}, x \in Deliveries :
         /\ delivery'.lock[x] = e <=> delivery.lock[x] = e
         /\ delivery.lock[x] = e => delivery'.new[x] = delivery.new[x]
  BY <1>1, <1>4, NoConnIsNone
<1> QED
  BY <1>1, <1>2, <1>3, <1>4, <1>6, <1>7, <1>8, <1>9, <1>10, StepOn, ZenonT(30)

LEMMA EndReportTracks ==
  ASSUME TrackInv, SpareInv', NEW c \in Callbacks, EndReport(c)
  PROVE  TrackInv'
<1>1. /\ InRecord(c) /\ c \in Conns /\ c \notin Workers /\ Holds(c) /\ On(c) \in Deliveries
      /\ delivery \in Tables(Deliveries, Statuses)
  BY NotificationConstants, Facts DEF EndReport, At, TrackInv, SpareInv, InRecord, On
<1>2. PICK x \in Deliveries : x = On(c)
  BY <1>1
<1>3. /\ work'[c].pc = "done" /\ work'[c].on = x /\ \A e \in Conns \ {c} : work'[e] = work[e]
  <2> DEFINE q == [Idle EXCEPT !.pc = "done", !.on = On(c)]
  <2>1. q.pc = "done" /\ q.on = On(c) /\ work' = [work EXCEPT ![c] = q]
    BY Facts DEF EndReport, Works, TrackInv, SpareInv
  <2> HIDE DEF q
  <2> QED
    BY <1>1, <1>2, <2>1, Facts DEF TrackInv, SpareInv
<1>4. /\ request' = request /\ unsent' = unsent /\ letters' = letters /\ job' = job
      /\ copies' = copies /\ faults' = faults /\ missed' = missed
  BY DEF EndReport, calls
<1>5. \A d \in Deliveries : delivery.lock[d] = c => d = x /\ delivery.new[d] # "dead_lettered"
  BY <1>1, <1>2 DEF Holds
<1>6. \A d \in Deliveries :
        /\ delivery'.row[d] # delivery.row[d] => d = x /\ delivery'.row[d] # "dead_lettered"
        /\ delivery'.lock[d] = IF delivery.lock[d] = c THEN NoConn ELSE delivery.lock[d]
        /\ delivery.lock[d] # c => delivery'.new[d] = delivery.new[d]
  <2>1. CASE delivery' = Committed(delivery, c)
    BY <1>1, <1>5, <2>1, CommittedFacts
  <2>2. CASE delivery' = RolledBack(delivery, c)
    BY <1>1, <1>5, <2>2, RolledBackFacts
  <2> QED
    BY <2>1, <2>2 DEF EndReport
<1>7. \A d \in Deliveries : Reported(d) => Reported(d)'
  BY <1>1, <1>2, <1>3, NotificationConstants DEF Reported, On
<1>8. Reported(x)'
  BY <1>3 DEF Reported, On
<1>9. Holds(c)'
  BY <1>1, <1>3, <1>6, NoConnIsNone DEF Holds
<1>10. Lettered(x)' /\ Kept(x)'
  BY <1>4, <1>6, <1>8 DEF TrackInv, Lettered, Unlettered, Kept
<1>11. {c} \in SUBSET Conns
  BY <1>1
<1>12. \A e \in Conns \ {c}, d \in Deliveries :
         /\ delivery'.lock[d] = e <=> delivery.lock[d] = e
         /\ delivery.lock[d] = e => delivery'.new[d] = delivery.new[d]
  BY <1>6, NoConnIsNone
<1> QED
  BY <1>1, <1>3, <1>4, <1>6, <1>7, <1>8, <1>9, <1>10, <1>11, <1>12, StepOn, ZenonT(30)

\* What is read of the deliveries, and the notification.
LEMMA RollupsTrack ==
  ASSUME TrackInv, SpareInv', NEW c \in Conns,
         \/ ReadDeliveries(c) \/ SettleNotification(c) \/ ReadCommitted(c) \/ SettleApart(c)
  PROVE  TrackInv'
<1>1. /\ UNCHANGED <<calls, delivery, letters, job, copies, faults, missed>>
      /\ InRecord(c) /\ work \in [Conns -> Works]
  BY Facts DEF ReadDeliveries, SettleNotification, ReadCommitted, SettleApart, At, InRecord,
               TrackInv, SpareInv
<1>2. /\ InRecord(c)' /\ work'[c].result = work[c].result /\ work'[c].on = work[c].on
      /\ \A e \in Conns \ {c} : work'[e] = work[e]
  <2>1. CASE ReadDeliveries(c)
    <3> DEFINE statuses == {Seen(delivery, c, d) : d \in RowsOf(NoteOf(c))} \ {"none"}
    <3>1. SettleOn(c, statuses)
      BY <2>1 DEF ReadDeliveries
    <3> HIDE DEF statuses
    <3> QED
      BY <1>1, <3>1 DEF SettleOn, InRecord, Works
  <2>2. CASE ReadCommitted(c)
    <3> DEFINE statuses == {delivery.row[d] : d \in RowsOf(NoteOf(c))} \ {"none"}
    <3>1. SettleOn(c, statuses)
      BY <2>2 DEF ReadCommitted
    <3> HIDE DEF statuses
    <3> QED
      BY <1>1, <3>1 DEF SettleOn, InRecord, Works
  <2>3. CASE SettleNotification(c) \/ SettleApart(c)
    BY <1>1, <2>3 DEF SettleNotification, SettleApart, Goto, InRecord, Works
  <2> QED
    BY <2>1, <2>2, <2>3
<1> QED
  BY <1>1, <1>2, SettlesTracks

LEMMA InitTrack == Init => TrackInv
<1> SUFFICES ASSUME Init PROVE TrackInv
  OBVIOUS
<1>1. /\ \A c \in Conns : work[c] = Idle
      /\ \A d \in Deliveries : /\ delivery.row[d] = "none" /\ delivery.lock[d] = NoConn
                               /\ letters[d] = 0 /\ copies[d] = 0 /\ faults[d] = 0
      /\ \A r \in Requests : request[r].pc = "idle"
  BY DEF Init, Filled, NotCalled
<1>2. \A c \in Conns : Holds(c)
  <2>0. Idle.on = NoDelivery
    BY DEF Idle
  <2>1. \A c \in Conns : work[c].on = NoDelivery
    BY <1>1, <2>0
  <2>2. \A c \in Conns, d \in Deliveries : delivery.lock[d] # c
    BY <1>1, NoConnIsNone
  <2> QED
    BY <2>1, <2>2 DEF Holds, On
<1>3. \A w \in Workers : Keeping(w)
  BY <1>1, NotificationConstants DEF Keeping, InRecord, Idle
<1>4. \A d \in Deliveries : Lettered(d) /\ (Awaited(d) => Kept(d))
  BY <1>1, Parent DEF Lettered, Unlettered, Awaited
<1> QED
  BY <1>2, <1>3, <1>4, InitSpare DEF TrackInv

LEMMA StepTrack == TrackInv /\ [Next]_vars => TrackInv'
<1> SUFFICES ASSUME TrackInv, [Next]_vars PROVE TrackInv'
  OBVIOUS
<1>1. SpareInv'
  BY StepSpare DEF TrackInv
<1>2. CASE UNCHANGED vars
  BY <1>1, <1>2, StutterTracks
<1>3. CASE \E r \in Requests : Dispatch(r)
  BY <1>1, <1>3, CallTracks
<1>4. CASE \E d \in Deliveries : Enqueue(d)
  BY <1>1, <1>4, EnqueueTracks
<1>5. CASE \E w \in Workers : Handle(w)
  BY <1>1, <1>5, NotificationConstants, TakeTracks, SendTracks, RecordTracks, RollupsTrack,
     CommitResultTracks, AcknowledgeTracks DEF Handle
<1>6. CASE \E w \in Workers : HandleThrows(w) \/ Stop(w)
  BY <1>1, <1>6, DropTracks
<1>7. CASE \E c \in Callbacks : Callback(c)
  BY <1>1, <1>7, NotificationConstants, ReportTracks, RollupsTrack, EndReportTracks DEF Callback
<1> QED
  BY <1>2, <1>3, <1>4, <1>5, <1>6, <1>7 DEF Next

\* A dead letter was not delivered, unless something failed on the way, and there is one for
\* every delivery given up: a result is taken for a final failure by
\* recordChannelResult only when the provider has refused that copy or lost its answer.
THEOREM DeadLettersUndeliveredCorrect == Spec => []DeadLettersUndelivered
<1>1. TrackInv => DeadLettersUndelivered
  BY DEF TrackInv, Lettered, DeadLettersUndelivered
<1> QED
  BY <1>1, InitTrack, StepTrack, PTL DEF Spec

\* What still needs an attempt has a job, whatever the workers, the callbacks and BullMQ's
\* recovery do, unless one of the accidents the property names happened to that delivery.
THEOREM NothingForgottenCorrect == Spec => []NothingForgotten
<1>1. TrackInv => NothingForgotten
  BY DEF TrackInv, Awaited, Kept, NothingForgotten
<1> QED
  BY <1>1, InitTrack, StepTrack, PTL DEF Spec
=============================================================================
