------------------------------ MODULE RowLocks ------------------------------
(* PostgreSQL at READ COMMITTED, as the services use it: a table is the     *)
(* committed rows, the uncommitted versions and the row locks.  Only the    *)
(* holder of a row's lock sees its uncommitted version.                     *)

CONSTANTS Conns, NoConn

ASSUME NoConnIsNone == NoConn \notin Conns

Tables(Ids, Rows) ==
  [row : [Ids -> Rows], new : [Ids -> Rows], lock : [Ids -> Conns \cup {NoConn}]]

Filled(Ids, r) ==
  [row |-> [x \in Ids |-> r], new |-> [x \in Ids |-> r], lock |-> [x \in Ids |-> NoConn]]

\* What a statement of c reads.
Seen(t, c, x) == IF t.lock[x] = c THEN t.new[x] ELSE t.row[x]

\* A write waits for the row's lock and keeps it until the end of the transaction.
Free(t, c, x) == t.lock[x] \in {NoConn, c}

Written(t, c, x, r) == [t EXCEPT !.new = [@ EXCEPT ![x] = r], !.lock = [@ EXCEPT ![x] = c]]

Released(t, c) == [x \in DOMAIN t.lock |-> IF t.lock[x] = c THEN NoConn ELSE t.lock[x]]

Committed(t, c) ==
  [row  |-> [x \in DOMAIN t.row |-> IF t.lock[x] = c THEN t.new[x] ELSE t.row[x]],
   new  |-> t.new,
   lock |-> Released(t, c)]

RolledBack(t, c) ==
  [row  |-> t.row,
   new  |-> [x \in DOMAIN t.new |-> IF t.lock[x] = c THEN t.row[x] ELSE t.new[x]],
   lock |-> Released(t, c)]
=============================================================================
