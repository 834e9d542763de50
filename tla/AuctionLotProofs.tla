--------------------------- MODULE AuctionLotProofs --------------------------
(***************************************************************************)
(* Auctions for any number of lots, bids, bidders and sweeps.  A bid that  *)
(* waits for the lot's row is judged by what it finds then: so the bids on *)
(* a lot increase in the order of their commits.  With one member of staff *)
(* a lot is sold to the highest bid and its end is never brought forward.  *)
(***************************************************************************)
EXTENDS AuctionLot, TLAPS

\* Who is served, and what a request at a statement has.
StaffOps == {"create", "update", "publish", "withdraw", "award"}

WellFormed(t) ==
  /\ t.pc = "idle" <=> t.op = "none"
  /\ IF t.pc = "idle" THEN t.lot = NoLot ELSE t.lot \in Lots
  /\ t.op \in {"bid", "award"} => t.bid \in Bids
  /\ t.pc \in {"clear", "flag"} => t.op = "award"
  /\ t.pc = "write" => t.op \in StaffOps
  /\ t.pc \in {"lock", "judge"} => t.op \in {"bid", "close"}

TypeInv == TypeOK /\ \A c \in Conns : WellFormed(tx[c])

\* A bid id belongs to one request, until its row is committed.
OwnBids ==
  \A c \in Conns :
    /\ tx[c].op = "bid" =>
         /\ bid.row[tx[c].bid].lot = NoLot
         /\ \A d \in Conns : tx[d].op = "bid" /\ tx[d].bid = tx[c].bid => d = c
    /\ tx[c].op = "award" => bid.row[tx[c].bid].lot # NoLot

HoldsLot(c) == lot.lock[tx[c].lot] = c

\* Who has judged a lot holds it.
Judging == \A c \in Conns : tx[c].pc = "judge" => HoldsLot(c)

\* A bid that is not committed is its request's, which holds a live lot and has seen every
\* bid on it; the others that are locked keep their lot and their amount.
Tops(b, l) == \A a \in BidsOn(l) : bid.new[b].amount > bid.row[a].amount

Uncommitted(b, c) ==
  IF bid.row[b].lot = NoLot
  THEN /\ tx[c].op = "bid" /\ tx[c].pc = "commit" /\ tx[c].bid = b
       /\ bid.new[b].lot = tx[c].lot /\ HoldsLot(c)
       /\ lot.row[tx[c].lot].status = "live" /\ Tops(b, tx[c].lot)
  ELSE bid.new[b].lot = bid.row[b].lot /\ bid.new[b].amount = bid.row[b].amount

BidsInv ==
  /\ TypeInv /\ OwnBids /\ Judging
  /\ \A b \in Bids, c \in Conns : bid.lock[b] = c => Uncommitted(b, c)

\* With one member of staff: what a request has read of the status is still so.
Unchanged(c) ==
  LET status == lot.row[tx[c].lot].status IN
  /\ tx[c].op \in StaffOps => c \in Staff
  /\ tx[c].op = "withdraw" => tx[c].set.status = "withdrawn"
  /\ tx[c].op = "create" => status = "none"
  /\ tx[c].op \in {"update", "publish"} => status = "draft"
  /\ tx[c].op = "award" => status = "ended"

\* What may become of a live lot: bids extend it, a close sells it to the highest of them.
Sale(l, new) ==
  /\ new.status = "live" => new.end >= lot.row[l].end
  /\ new.status = "sold" =>
       /\ new.winning \in BidsOn(l)
       /\ \A b \in BidsOn(l) : bid.row[b].amount <= bid.row[new.winning].amount
  /\ new.status \in {"sold", "ended"} =>
       (new.status = "ended" <=> \A b \in BidsOn(l) : bid.row[b].amount < lot.row[l].reserve)

\* The bids increase, so one of them is above all others.
HasTop(l) ==
  BidsOn(l) # {} =>
    \E b \in BidsOn(l) : \A a \in BidsOn(l) \ {b} : bid.row[b].amount > bid.row[a].amount

Locked(l, c) ==
  /\ tx[c].lot = l
  /\ lot.row[l].status = "live" => Sale(l, lot.new[l])
  /\ tx[c].op \in {"bid", "close"} /\ tx[c].pc = "commit" => lot.row[l].status = "live"

SaleInv ==
  /\ BidsInv
  /\ \A c \in Conns : Unchanged(c)
  /\ \A l \in Lots : HasTop(l)
  /\ \A l \in Lots, c \in Conns : lot.lock[l] = c => Locked(l, c)

OneMemberOfStaff == \A s, t \in Staff : s = t

-----------------------------------------------------------------------------
\* Tables under the operators of RowLocks.
LEMMA WrittenFacts ==
  ASSUME NEW Ids, NEW Rows, NEW t \in Tables(Ids, Rows), NEW c \in Conns, NEW x \in Ids,
         NEW r \in Rows, NEW u, u = Written(t, c, x, r)
  PROVE  /\ u \in Tables(Ids, Rows) /\ u.row = t.row
         /\ \A y \in Ids : /\ u.new[y] = IF y = x THEN r ELSE t.new[y]
                          /\ u.lock[y] = IF y = x THEN c ELSE t.lock[y]
BY DEF Written, Tables

LEMMA CommittedFacts ==
  ASSUME NEW Ids, NEW Rows, NEW t \in Tables(Ids, Rows), NEW c \in Conns, NEW u,
         u = Committed(t, c)
  PROVE  /\ u \in Tables(Ids, Rows) /\ u.new = t.new
         /\ \A y \in Ids : /\ u.row[y] = IF t.lock[y] = c THEN t.new[y] ELSE t.row[y]
                          /\ u.lock[y] = IF t.lock[y] = c THEN NoConn ELSE t.lock[y]
BY DEF Committed, Released, Tables

LEMMA RolledBackFacts ==
  ASSUME NEW Ids, NEW Rows, NEW t \in Tables(Ids, Rows), NEW c \in Conns, NEW u,
         u = RolledBack(t, c)
  PROVE  /\ u \in Tables(Ids, Rows) /\ u.row = t.row
         /\ \A y \in Ids : /\ u.new[y] = IF t.lock[y] = c THEN t.row[y] ELSE t.new[y]
                          /\ u.lock[y] = IF t.lock[y] = c THEN NoConn ELSE t.lock[y]
BY DEF RolledBack, Released, Tables

\* Steps of one connection.
Others(c) == \A d \in Conns \ {c} : tx'[d] = tx[d]

LEMMA Moves ==
  ASSUME TypeInv, NEW c \in Conns, NEW q \in Requests, WellFormed(q), tx' = [tx EXCEPT ![c] = q]
  PROVE  /\ tx' \in [Conns -> Requests] /\ \A d \in Conns : WellFormed(tx'[d])
         /\ tx'[c] = q /\ Others(c)
BY DEF TypeInv, TypeOK, Others

LEMMA GoesTo ==
  ASSUME TypeInv, NEW c \in Conns, NEW pc \in Steps, tx' = [tx EXCEPT ![c].pc = pc],
         tx[c].pc # "idle", pc = "commit" \/ WellFormed([tx[c] EXCEPT !.pc = pc])
  PROVE  /\ tx' \in [Conns -> Requests] /\ \A d \in Conns : WellFormed(tx'[d]) /\ Others(c)
         /\ tx'[c].pc = pc /\ tx'[c].op = tx[c].op /\ tx'[c].lot = tx[c].lot
         /\ tx'[c].bid = tx[c].bid
<1> DEFINE q == [tx[c] EXCEPT !.pc = pc]
<1>1. /\ q \in Requests /\ q.pc = pc /\ q.op = tx[c].op /\ q.lot = tx[c].lot /\ q.bid = tx[c].bid
  BY DEF TypeInv, TypeOK, Requests
<1>2. tx' = [tx EXCEPT ![c] = q]
  OBVIOUS
<1>3. WellFormed(q)
  <2>1. CASE pc = "commit"
    <3>1. WellFormed(tx[c])
      BY DEF TypeInv
    <3> QED
      BY <1>1, <2>1, <3>1 DEF WellFormed
  <2> QED
    BY <2>1
<1> HIDE DEF q
<1> QED
  BY <1>1, <1>2, <1>3, Moves

LEMMA IdleFacts == Idle \in Requests /\ WellFormed(Idle) /\ Idle.pc = "idle" /\ Idle.op = "none"
                   /\ Idle.lot = NoLot
BY DEF Idle, Requests, WellFormed, Ops, Steps, StaffOps, NotListed, LotRows, LotStatuses

LEMMA SweptType ==
  ASSUME TypeInv, NEW c \in Conns
  PROVE  Swept(c) \in [Sweepers -> SUBSET Lots]
BY DEF Swept, TypeInv, TypeOK

LEMMA InitType == Init => TypeInv
<1> SUFFICES ASSUME Init PROVE TypeInv
  OBVIOUS
<1>1. NotListed \in LotRows /\ NotPlaced \in BidRows
  BY DEF NotListed, LotRows, LotStatuses, NotPlaced, BidRows
<1>2. lot \in Tables(Lots, LotRows) /\ bid \in Tables(Bids, BidRows)
  BY <1>1 DEF Init, Filled, Tables
<1> QED
  BY <1>2, IdleFacts DEF Init, TypeInv, TypeOK

-----------------------------------------------------------------------------
\* Requests that begin: one record, and nothing else.
LEMMA BeginType ==
  ASSUME TypeInv, NEW c \in Conns, NEW q \in Requests, WellFormed(q), Begin(c, q)
  PROVE  TypeInv' /\ tx'[c] = q /\ Others(c) /\ UNCHANGED <<tables, clock, due>>
<1>1. tx' = [tx EXCEPT ![c] = q] /\ UNCHANGED <<tables, clock, due>>
  BY DEF Begin
<1> QED
  BY <1>1, Moves DEF TypeInv, TypeOK, tables

\* ROLLBACK.
LEMMA RollbackType ==
  ASSUME TypeInv, NEW c \in Conns, Rollback(c)
  PROVE  TypeInv' /\ tx'[c] = Idle /\ Others(c)
<1>1. lot' \in Tables(Lots, LotRows) /\ bid' \in Tables(Bids, BidRows)
  BY RolledBackFacts DEF TypeInv, TypeOK, Rollback
<1>2. /\ tx' \in [Conns -> Requests] /\ \A d \in Conns : WellFormed(tx'[d])
      /\ tx'[c] = Idle /\ Others(c)
  BY IdleFacts, Moves DEF Rollback
<1> QED
  BY <1>1, <1>2, SweptType DEF Rollback, TypeInv, TypeOK

LEMMA CommitType ==
  ASSUME TypeInv, NEW c \in Conns, Commit(c)
  PROVE  TypeInv' /\ tx'[c] = Idle /\ Others(c)
<1>1. lot' \in Tables(Lots, LotRows) /\ bid' \in Tables(Bids, BidRows)
  BY CommittedFacts DEF TypeInv, TypeOK, Commit
<1>2. /\ tx' \in [Conns -> Requests] /\ \A d \in Conns : WellFormed(tx'[d])
      /\ tx'[c] = Idle /\ Others(c)
  BY IdleFacts, Moves DEF Commit
<1> QED
  BY <1>1, <1>2, SweptType DEF Commit, TypeInv, TypeOK

\* A statement that writes tables and goes on: only rows of the tables' kind.
LEMMA GoesOnType ==
  ASSUME TypeInv, NEW c \in Conns, NEW pc \in Steps, Goto(c, pc),
         tx[c].pc # "idle", pc = "commit" \/ WellFormed([tx[c] EXCEPT !.pc = pc]),
         lot' \in Tables(Lots, LotRows), bid' \in Tables(Bids, BidRows),
         UNCHANGED <<clock, due>>
  PROVE  TypeInv'
BY GoesTo DEF Goto, TypeInv, TypeOK

LEMMA RequestTypes ==
  ASSUME TypeInv, NEW c \in Conns, tx[c].pc # "idle"
  PROVE  /\ tx[c] \in Requests /\ WellFormed(tx[c]) /\ tx[c].lot \in Lots
         /\ tx[c].now \in Nat /\ tx[c].amount \in Nat /\ tx[c].set \in LotRows
         /\ lot.row[tx[c].lot] \in LotRows
BY DEF TypeInv, TypeOK, WellFormed, Requests, Tables

LEMMA FlaggedType ==
  ASSUME NEW r \in BidRows, NEW x \in BOOLEAN
  PROVE  LET f == [r EXCEPT !.isWinning = x] IN
         f \in BidRows /\ f.lot = r.lot /\ f.amount = r.amount
BY DEF BidRows

LEMMA LockLotType == ASSUME TypeInv, NEW c \in Conns, LockLot(c) PROVE TypeInv'
<1>1. /\ tx[c].pc = "lock" /\ Goto(c, "judge") /\ UNCHANGED <<bid, clock, due>>
      /\ lot' = Written(lot, c, tx[c].lot, lot.row[tx[c].lot])
  BY DEF LockLot
<1>2. lot' \in Tables(Lots, LotRows)
  BY <1>1, RequestTypes, WrittenFacts DEF TypeInv, TypeOK
<1>3. WellFormed([tx[c] EXCEPT !.pc = "judge"])
  BY <1>1, RequestTypes DEF WellFormed, Requests
<1> QED
  BY <1>1, <1>2, <1>3, GoesOnType DEF TypeInv, TypeOK, Steps

LEMMA ExtensionType ==
  ASSUME NEW end \in Nat, NEW now \in Nat
  PROVE  /\ computeAntiSnipeExtension(end, now) \in Nat
         /\ computeAntiSnipeExtension(end, now) >= end
BY AuctionConstants DEF computeAntiSnipeExtension

LEMMA JudgeBidType == ASSUME TypeInv, NEW c \in Conns, JudgeBid(c) PROVE TypeInv'
<1> DEFINE t == tx[c]
           placed == [lot |-> t.lot, amount |-> t.amount, placedAt |-> t.now,
                      isWinning |-> FALSE]
           extended == [lot.row[t.lot] EXCEPT !.end = computeAntiSnipeExtension(@, t.now)]
<1>1. t.pc = "judge" /\ t.op = "bid"
  BY DEF JudgeBid, Serving
<1>2. CASE Rollback(c)
  BY <1>2, RollbackType
<1>3. CASE /\ bid' = Written(bid, c, t.bid, placed)
           /\ lot' = Written(lot, c, t.lot, extended)
           /\ Goto(c, "commit") /\ UNCHANGED <<clock, due>>
  <2>1. t.bid \in Bids /\ placed \in BidRows /\ extended \in LotRows
    BY <1>1, RequestTypes, ExtensionType DEF BidRows, LotRows, WellFormed
  <2>2. lot' \in Tables(Lots, LotRows) /\ bid' \in Tables(Bids, BidRows)
    <3> HIDE DEF placed, extended
    <3> QED
      BY <1>1, <1>3, <2>1, RequestTypes, WrittenFacts DEF TypeInv, TypeOK
  <2> QED
    BY <1>1, <1>3, <2>2, GoesOnType DEF Steps
<1> QED
  BY <1>2, <1>3 DEF JudgeBid

LEMMA JudgeCloseType == ASSUME TypeInv, NEW c \in Conns, JudgeClose(c) PROVE TypeInv'
<1> DEFINE l == tx[c].lot
           ended == [lot.row[l] EXCEPT !.status = "ended", !.winning = NoBid]
           sold(b) == [lot.row[l] EXCEPT !.status = "sold", !.winning = b]
           flagged(b) == [bid.row[b] EXCEPT !.isWinning = TRUE]
<1>1. tx[c].pc = "judge" /\ tx[c].op = "close"
  BY DEF JudgeClose, Serving
<1>2. CASE Rollback(c)
  BY <1>2, RollbackType
<1>3. CASE /\ lot' = Written(lot, c, l, ended)
           /\ Goto(c, "commit") /\ UNCHANGED <<bid, clock, due>>
  <2>1. ended \in LotRows
    BY <1>1, RequestTypes DEF LotRows, LotStatuses
  <2>2. lot' \in Tables(Lots, LotRows)
    <3> HIDE DEF ended
    <3> QED
      BY <1>1, <1>3, <2>1, RequestTypes, WrittenFacts DEF TypeInv, TypeOK
  <2> QED
    BY <1>1, <1>3, <2>2, GoesOnType DEF TypeInv, TypeOK, Steps
<1>4. CASE /\ \E b \in Bids : /\ lot' = Written(lot, c, l, sold(b))
                              /\ bid' = Written(bid, c, b, flagged(b))
           /\ Goto(c, "commit") /\ UNCHANGED <<clock, due>>
  <2>1. PICK b \in Bids : /\ lot' = Written(lot, c, l, sold(b))
                          /\ bid' = Written(bid, c, b, flagged(b))
    BY <1>4
  <2>2. sold(b) \in LotRows /\ flagged(b) \in BidRows
    <3>1. sold(b) \in LotRows
      BY <1>1, RequestTypes DEF LotRows, LotStatuses
    <3>2. bid.row[b] \in BidRows
      BY DEF TypeInv, TypeOK, Tables
    <3> QED
      BY <3>1, <3>2, FlaggedType
  <2>3. lot' \in Tables(Lots, LotRows) /\ bid' \in Tables(Bids, BidRows)
    <3> HIDE DEF sold, flagged
    <3> QED
      BY <1>1, <2>1, <2>2, RequestTypes, WrittenFacts DEF TypeInv, TypeOK
  <2> QED
    BY <1>1, <1>4, <2>3, GoesOnType DEF Steps
<1> QED
  BY <1>2, <1>3, <1>4 DEF JudgeClose, evaluateClose, TopBids, BidsOn

LEMMA WriteLotType == ASSUME TypeInv, NEW c \in Conns, WriteLot(c) PROVE TypeInv'
<1> DEFINE t == tx[c]
           patched(row) == [f \in DOMAIN row |-> IF f \in Columns[t.op] THEN t.set[f] ELSE row[f]]
<1>1. /\ t.pc = "write" /\ lot' = Written(lot, c, t.lot, patched(lot.row[t.lot]))
      /\ Goto(c, "commit") /\ UNCHANGED <<bid, clock, due>>
  BY DEF WriteLot
<1>2. ASSUME NEW row \in LotRows PROVE patched(row) \in LotRows
  BY <1>1, <1>2, RequestTypes DEF LotRows
<1>3. patched(lot.row[t.lot]) \in LotRows
  <2> HIDE DEF patched
  <2> QED
    BY <1>1, <1>2, RequestTypes
<1>4. lot' \in Tables(Lots, LotRows)
  <2> HIDE DEF patched
  <2> QED
    BY <1>1, <1>3, RequestTypes, WrittenFacts DEF TypeInv, TypeOK
<1> QED
  BY <1>1, <1>4, GoesOnType DEF TypeInv, TypeOK, Steps

LEMMA ClearWinningType == ASSUME TypeInv, NEW c \in Conns, ClearWinning(c) PROVE TypeInv'
<1>1. tx[c].pc = "clear" /\ Goto(c, "flag") /\ UNCHANGED <<lot, clock, due>>
  BY DEF ClearWinning
<1>2. bid' \in Tables(Bids, BidRows)
  <2> DEFINE flagged == {b \in BidsOn(tx[c].lot) : bid.row[b].isWinning}
             new == [b \in Bids |-> IF b \in flagged THEN [bid.row[b] EXCEPT !.isWinning = FALSE]
                                                     ELSE bid.new[b]]
             lock == [b \in Bids |-> IF b \in flagged THEN c ELSE bid.lock[b]]
  <2>1. new \in [Bids -> BidRows] /\ lock \in [Bids -> Conns \cup {NoConn}]
    BY ZenonT(30) DEF TypeInv, TypeOK, Tables, BidRows
  <2>2. bid' = [bid EXCEPT !.new = new, !.lock = lock]
    BY DEF ClearWinning
  <2> HIDE DEF new, lock
  <2> QED
    BY <2>1, <2>2 DEF TypeInv, TypeOK, Tables
<1>3. WellFormed([tx[c] EXCEPT !.pc = "flag"])
  BY <1>1, RequestTypes DEF WellFormed, Requests
<1> QED
  BY <1>1, <1>2, <1>3, GoesOnType DEF TypeInv, TypeOK, Steps

LEMMA FlagWinningType == ASSUME TypeInv, NEW c \in Conns, FlagWinning(c) PROVE TypeInv'
<1> DEFINE b == tx[c].bid
           flagged == [Seen(bid, c, b) EXCEPT !.isWinning = TRUE]
<1>1. /\ tx[c].pc = "flag" /\ bid' = Written(bid, c, b, flagged)
      /\ Goto(c, "write") /\ UNCHANGED <<lot, clock, due>>
  BY DEF FlagWinning
<1>2. b \in Bids /\ tx[c].op = "award"
  BY <1>1, RequestTypes DEF WellFormed
<1>3. flagged \in BidRows
  <2>1. Seen(bid, c, b) \in BidRows
    BY <1>2 DEF Seen, TypeInv, TypeOK, Tables
  <2> QED
    BY <2>1, FlaggedType
<1>4. bid' \in Tables(Bids, BidRows)
  <2> HIDE DEF flagged
  <2> QED
    BY <1>1, <1>2, <1>3, WrittenFacts DEF TypeInv, TypeOK
<1>5. WellFormed([tx[c] EXCEPT !.pc = "write"])
  BY <1>1, <1>2, RequestTypes DEF WellFormed, Requests, StaffOps
<1> QED
  BY <1>1, <1>4, <1>5, GoesOnType DEF TypeInv, TypeOK, Steps

-----------------------------------------------------------------------------
\* What is so of every request that begins, by the checks of its handler.
Admitted(c, q) ==
  /\ q \in Requests /\ WellFormed(q) /\ q.pc \in {"lock", "write", "clear"}
  /\ q.op = "bid" => bid.row[q.bid].lot = NoLot /\ \A d \in Conns : tx[d].bid # q.bid
  /\ q.op \in StaffOps => c \in Staff
  /\ q.op = "withdraw" => q.set.status = "withdrawn"
  /\ q.op = "create" => lot.row[q.lot].status = "none"
  /\ q.op \in {"update", "publish"} => lot.row[q.lot].status = "draft"
  /\ q.op = "award" => lot.row[q.lot].status = "ended" /\ bid.row[q.bid].lot # NoLot

Begins(c) == \E q \in Requests : Admitted(c, q) /\ Begin(c, q)

LEMMA BiddingBegins ==
  ASSUME TypeInv, NEW c \in Conns, Bidding(c) PROVE Begins(c)
<1>1. PICK l \in Lots, b \in Bids, a \in Prices : placeBid(c, l, b, a)
  BY DEF Bidding
<1> DEFINE q == [Idle EXCEPT !.op = "bid", !.pc = "lock", !.lot = l, !.bid = b,
                   !.amount = a, !.now = clock]
<1>2. Begin(c, q) /\ NewBid(b)
  BY <1>1 DEF placeBid
<1>3. q \in Requests /\ q.op = "bid" /\ q.pc = "lock" /\ q.lot = l /\ q.bid = b
  BY IdleFacts, AuctionConstants DEF Idle, Requests, Ops, Steps, TypeInv, TypeOK
<1> HIDE DEF q
<1>4. bid.row[b].lot = NoLot /\ \A d \in Conns : tx[d].bid # b
  BY <1>2 DEF NewBid, NotPlaced
<1>5. Admitted(c, q)
  BY <1>3, <1>4 DEF Admitted, WellFormed, StaffOps
<1> QED
  BY <1>2, <1>3, <1>5 DEF Begins

LEMMA CloseBegins ==
  ASSUME TypeInv, NEW c \in Conns, NEW l \in Lots,
         Begin(c, [Idle EXCEPT !.op = "close", !.pc = "lock", !.lot = l])
  PROVE  Begins(c)
<1> DEFINE q == [Idle EXCEPT !.op = "close", !.pc = "lock", !.lot = l]
<1>1. q \in Requests /\ q.op = "close" /\ q.pc = "lock" /\ q.lot = l
  BY IdleFacts DEF Idle, Requests, Ops, Steps
<1> HIDE DEF q
<1>2. Admitted(c, q)
  BY <1>1 DEF Admitted, WellFormed, StaffOps
<1>3. Begin(c, q)
  BY DEF q
<1> QED
  BY <1>1, <1>2, <1>3 DEF Begins

LEMMA EditBegins ==
  ASSUME TypeInv, NEW c \in Staff, c \in Conns, NEW l \in Lots,
         NEW op \in {"create", "update", "publish", "withdraw"}, NEW row \in LotRows,
         op = "create" => lot.row[l].status = "none",
         op \in {"update", "publish"} => lot.row[l].status = "draft",
         op = "withdraw" => row.status = "withdrawn",
         Edit(c, op, l, row)
  PROVE  Begins(c)
<1> DEFINE q == [Idle EXCEPT !.op = op, !.pc = "write", !.lot = l, !.set = row]
<1>1. q \in Requests /\ q.op = op /\ q.pc = "write" /\ q.lot = l /\ q.set = row
  BY IdleFacts DEF Idle, Requests, Ops, Steps
<1>2. Begin(c, q)
  BY DEF Edit
<1> HIDE DEF q
<1>3. Admitted(c, q)
  BY <1>1 DEF Admitted, WellFormed, StaffOps
<1> QED
  BY <1>1, <1>2, <1>3 DEF Begins

LEMMA AwardBegins ==
  ASSUME TypeInv, NEW c \in Staff, c \in Conns, NEW l \in Lots, NEW b \in Bids,
         awardWinner(c, l, b)
  PROVE  Begins(c)
<1> DEFINE row == [NotListed EXCEPT !.status = "sold", !.winning = b]
           q == [Idle EXCEPT !.op = "award", !.pc = "clear", !.lot = l, !.bid = b, !.set = row]
<1>1. row \in LotRows
  BY DEF NotListed, LotRows, LotStatuses
<1>2. q \in Requests /\ q.op = "award" /\ q.pc = "clear" /\ q.lot = l /\ q.bid = b
  <2> HIDE DEF row
  <2> QED
    BY <1>1, IdleFacts DEF Idle, Requests, Ops, Steps
<1>3. Begin(c, q) /\ lot.row[l].status = "ended" /\ bid.row[b].lot = l
  BY DEF awardWinner, BidsOn
<1> HIDE DEF q
<1>4. l # NoLot
  BY AuctionConstants
<1>5. Admitted(c, q)
  BY <1>2, <1>3, <1>4 DEF Admitted, WellFormed, StaffOps
<1> QED
  BY <1>2, <1>3, <1>5 DEF Begins

LEMMA StaffBegins ==
  ASSUME TypeInv, NEW c \in Staff, StaffRequest(c) PROVE Begins(c)
<1>0. c \in Conns
  BY AuctionConstants
<1>1. PICK l \in Lots :
        \/ \E p \in Prices, r \in Prices \cup {0} :
             createListing(c, l, p, r) \/ updateListing(c, l, p, r)
        \/ \E start, end \in Hours : publishListing(c, l, start, end)
        \/ withdrawListing(c, l) \/ endListing(c, l)
        \/ \E b \in Bids : awardWinner(c, l, b)
  BY DEF StaffRequest
<1>2. ASSUME NEW p \in Prices, NEW r \in Prices \cup {0}, createListing(c, l, p, r)
      PROVE  Begins(c)
  <2> DEFINE row == [NotListed EXCEPT !.status = "draft", !.startingBid = p, !.reserve = r]
  <2>1. Edit(c, "create", l, row) /\ lot.row[l].status = "none"
    BY <1>2 DEF createListing, NewLot, NotListed
  <2>2. p \in Nat /\ r \in Nat
    BY <1>2, AuctionConstants
  <2>3. row \in LotRows
    BY <2>2 DEF NotListed, LotRows, LotStatuses
  <2> HIDE DEF row
  <2> QED
    BY <1>0, <2>1, <2>3, EditBegins
<1>3. ASSUME NEW p \in Prices, NEW r \in Prices \cup {0}, updateListing(c, l, p, r)
      PROVE  Begins(c)
  <2> DEFINE kept == IF r = 0 THEN lot.row[l].reserve ELSE r
             row == [NotListed EXCEPT !.startingBid = p, !.reserve = kept]
  <2>1. Edit(c, "update", l, row) /\ lot.row[l].status = "draft"
    BY <1>3 DEF updateListing
  <2>2. kept \in Nat
    BY <1>3, AuctionConstants DEF TypeInv, TypeOK, Tables, LotRows
  <2> HIDE DEF kept
  <2>3. row \in LotRows
    BY <1>3, <2>2, AuctionConstants DEF NotListed, LotRows, LotStatuses
  <2> HIDE DEF row
  <2> QED
    BY <1>0, <2>1, <2>3, EditBegins
<1>4. ASSUME NEW start \in Hours, NEW end \in Hours, publishListing(c, l, start, end)
      PROVE  Begins(c)
  <2> DEFINE row == [NotListed EXCEPT !.status = "live", !.start = start, !.end = end]
  <2>1. Edit(c, "publish", l, row) /\ lot.row[l].status = "draft"
    BY <1>4 DEF publishListing
  <2>2. row \in LotRows
    BY <1>4, AuctionConstants DEF NotListed, LotRows, LotStatuses
  <2> HIDE DEF row
  <2> QED
    BY <1>0, <2>1, <2>2, EditBegins
<1>5. ASSUME withdrawListing(c, l) PROVE Begins(c)
  <2> DEFINE row == [NotListed EXCEPT !.status = "withdrawn"]
  <2>1. Edit(c, "withdraw", l, row)
    BY <1>5 DEF withdrawListing
  <2>2. row \in LotRows /\ row.status = "withdrawn"
    BY DEF NotListed, LotRows, LotStatuses
  <2> HIDE DEF row
  <2> QED
    BY <1>0, <2>1, <2>2, EditBegins
<1>6. ASSUME endListing(c, l) PROVE Begins(c)
  BY <1>0, <1>6, CloseBegins DEF endListing
<1>7. ASSUME NEW b \in Bids, awardWinner(c, l, b) PROVE Begins(c)
  BY <1>0, <1>7, AwardBegins
<1> QED
  BY <1>1, <1>2, <1>3, <1>4, <1>5, <1>6, <1>7

LEMMA CloseDueBegins ==
  ASSUME TypeInv, NEW c \in Conns, NEW l \in Lots, CloseDue(c, l) PROVE Begins(c)
BY CloseBegins DEF CloseDue

\* The steps of a connection.
Step(c) ==
  \/ Begins(c)
  \/ Commit(c)
  \/ Abort(c)
  \/ LockLot(c)
  \/ JudgeBid(c)
  \/ JudgeClose(c)
  \/ WriteLot(c)
  \/ ClearWinning(c)
  \/ FlagWinning(c)

LEMMA NextCases ==
  ASSUME TypeInv, [Next]_vars
  PROVE  \/ UNCHANGED <<tables, tx>> /\ (TimePasses \/ UNCHANGED vars \/ \E c \in Sweepers : tick(c))
         \/ \E c \in Conns : Step(c)
<1>1. Bidders \subseteq Conns /\ Staff \subseteq Conns /\ Sweepers \subseteq Conns
  BY AuctionConstants
<1>2. ASSUME NEW c \in Bidders, Bidding(c) PROVE \E d \in Conns : Step(d)
  BY <1>1, <1>2, BiddingBegins DEF Step
<1>3. ASSUME NEW c \in Staff, StaffRequest(c) PROVE \E d \in Conns : Step(d)
  BY <1>1, <1>3, StaffBegins DEF Step
<1>4. ASSUME NEW c \in Sweepers, Sweep(c)
      PROVE  tick(c) \/ \E d \in Conns : Step(d)
  BY <1>1, <1>4, CloseDueBegins DEF Step, Sweep
<1>5. ASSUME NEW c \in Conns, Statement(c) \/ Abort(c) PROVE Step(c)
  BY <1>5 DEF Statement, Step
<1>6. ASSUME NEW c \in Sweepers, tick(c) PROVE UNCHANGED <<tables, tx>>
  BY <1>6 DEF tick, tables
<1>7. TimePasses \/ UNCHANGED vars => UNCHANGED <<tables, tx>>
  BY DEF TimePasses, vars, tables
<1> QED
  BY <1>2, <1>3, <1>4, <1>5, <1>6, <1>7 DEF Next

LEMMA NextType == TypeInv /\ [Next]_vars => TypeInv'
<1> SUFFICES ASSUME TypeInv, [Next]_vars PROVE TypeInv'
  OBVIOUS
<1>1. CASE TimePasses
  BY <1>1 DEF TimePasses, TypeInv, TypeOK, tables
<1>2. CASE UNCHANGED vars
  BY <1>2 DEF vars, TypeInv, TypeOK, tables
<1>3. ASSUME NEW c \in Sweepers, tick(c) PROVE TypeInv'
  <2>1. UNCHANGED <<tables, clock, tx>> /\ due' = [due EXCEPT ![c] = {l \in Lots : Due(l)}]
    BY <1>3 DEF tick
  <2>2. due' \in [Sweepers -> SUBSET Lots]
    BY <2>1 DEF TypeInv, TypeOK
  <2> QED
    BY <2>1, <2>2 DEF TypeInv, TypeOK, tables
<1>4. ASSUME NEW c \in Conns, Step(c) PROVE TypeInv'
  <2>1. CASE Begins(c)
    BY <2>1, BeginType DEF Begins, Admitted
  <2> QED
    BY <1>4, <2>1, CommitType, RollbackType, LockLotType, JudgeBidType, JudgeCloseType,
       WriteLotType, ClearWinningType, FlagWinningType DEF Step, Abort
<1> QED
  BY <1>1, <1>2, <1>3, <1>4, NextCases

\* Every table row, request and sweep stays of its kind, whatever the numbers of lots,
\* bids and connections.
THEOREM TypeCorrect == Spec => []TypeOK
<1>1. TypeInv => TypeOK
  BY DEF TypeInv
<1> QED
  BY InitType, NextType, <1>1, PTL DEF Spec

-----------------------------------------------------------------------------
\* A connection goes on with its transaction: the lot and the bids it locks are its own.
LEMMA BidsGoOn ==
  ASSUME BidsInv, TypeInv', NEW c \in Conns, NEW pc \in Steps, Goto(c, pc),
         tx[c].pc \notin {"idle", "commit"},
         lot'.row = lot.row, bid'.row = bid.row,
         \A l \in Lots : \/ lot'.lock[l] = lot.lock[l]
                         \/ l = tx[c].lot /\ lot'.lock[l] = c /\ lot.lock[l] \in {NoConn, c},
         \A b \in Bids : \/ bid'.lock[b] = bid.lock[b] /\ bid'.new[b] = bid.new[b]
                         \/ bid'.lock[b] = c /\ Uncommitted(b, c)',
         pc = "judge" => lot'.lock[tx[c].lot] = c
  PROVE  BidsInv'
<1>1. /\ tx' = [tx EXCEPT ![c].pc = pc] /\ tx \in [Conns -> Requests]
      /\ \A d \in Conns : tx[d].pc # "idle" => tx[d].lot \in Lots
  BY DEF Goto, BidsInv, TypeInv, TypeOK, WellFormed
<1>2. \A d \in Conns :
        /\ tx'[d].op = tx[d].op /\ tx'[d].lot = tx[d].lot /\ tx'[d].bid = tx[d].bid
        /\ tx'[d].pc = IF d = c THEN pc ELSE tx[d].pc
  BY <1>1 DEF Requests
<1>3. ASSUME NEW d \in Conns, HoldsLot(d), tx[d].pc # "idle" PROVE HoldsLot(d)'
  BY <1>1, <1>2, <1>3, NoConnIsNone DEF HoldsLot
<1>4. OwnBids'
  BY <1>2 DEF BidsInv, OwnBids
<1>5. Judging'
  <2> SUFFICES ASSUME NEW d \in Conns, tx'[d].pc = "judge" PROVE HoldsLot(d)'
    BY DEF Judging
  <2>1. CASE d = c
    BY <1>2, <2>1 DEF HoldsLot
  <2>2. CASE d # c
    BY <1>2, <1>3, <2>2 DEF BidsInv, Judging
  <2> QED
    BY <2>1, <2>2
<1>6. ASSUME NEW b \in Bids, NEW d \in Conns, bid'.lock[b] = d PROVE Uncommitted(b, d)'
  <2>1. CASE bid'.lock[b] = c /\ Uncommitted(b, c)'
    BY <1>6, <2>1
  <2>2. CASE bid'.lock[b] = bid.lock[b] /\ bid'.new[b] = bid.new[b]
    <3>1. Uncommitted(b, d)
      BY <1>6, <2>2 DEF BidsInv
    <3>2. CASE bid.row[b].lot = NoLot
      <4>1. d # c /\ tx[d].pc = "commit"
        BY <3>1, <3>2 DEF Uncommitted
      <4>2. Tops(b, tx[d].lot) => Tops(b, tx[d].lot)'
        BY <1>2, <2>2 DEF Tops, BidsOn
      <4> QED
        BY <1>2, <1>3, <2>2, <3>1, <3>2, <4>1, <4>2 DEF Uncommitted
    <3>3. CASE bid.row[b].lot # NoLot
      BY <2>2, <3>1, <3>3 DEF Uncommitted
    <3> QED
      BY <3>2, <3>3
  <2> QED
    BY <2>1, <2>2
<1> QED
  BY <1>4, <1>5, <1>6 DEF BidsInv

LEMMA BeginBids ==
  ASSUME BidsInv, NEW c \in Conns, Begins(c) PROVE BidsInv'
<1>1. PICK q \in Requests : Admitted(c, q) /\ Begin(c, q)
  BY DEF Begins
<1>2. WellFormed(q) /\ q.pc \in {"lock", "write", "clear"}
  BY <1>1 DEF Admitted
<1>3. TypeInv' /\ tx'[c] = q /\ Others(c) /\ lot' = lot /\ bid' = bid
  BY <1>1, <1>2, BeginType DEF BidsInv, tables
<1>4. tx[c].pc = "idle"
  BY <1>1 DEF Begin
<1>5. OwnBids'
  <2>1. q.op = "bid" => bid.row[q.bid].lot = NoLot /\ \A d \in Conns : tx[d].bid # q.bid
    BY <1>1 DEF Admitted
  <2>2. q.op = "award" => bid.row[q.bid].lot # NoLot
    BY <1>1 DEF Admitted
  <2>3. ASSUME NEW d \in Conns
        PROVE  /\ tx'[d].op = "bid" => bid'.row[tx'[d].bid].lot = NoLot
               /\ tx'[d].op = "award" => bid'.row[tx'[d].bid].lot # NoLot
    BY <1>3, <2>1, <2>2 DEF Others, BidsInv, OwnBids
  <2>4. ASSUME NEW d \in Conns, NEW e \in Conns, tx'[d].op = "bid", tx'[e].op = "bid",
               tx'[e].bid = tx'[d].bid
        PROVE  e = d
    BY <1>3, <2>1, <2>4 DEF Others, BidsInv, OwnBids
  <2> QED
    BY <2>3, <2>4 DEF OwnBids
<1>6. Judging'
  BY <1>2, <1>3 DEF Others, BidsInv, Judging, HoldsLot
<1>7. ASSUME NEW b \in Bids, NEW d \in Conns, bid'.lock[b] = d PROVE Uncommitted(b, d)'
  <2>1. Uncommitted(b, d)
    BY <1>3, <1>7 DEF BidsInv
  <2>2. CASE bid.row[b].lot = NoLot
    <3>1. d # c
      BY <1>4, <2>1, <2>2 DEF Uncommitted
    <3> QED
      BY <1>3, <2>1, <2>2, <3>1 DEF Others, Uncommitted, HoldsLot, Tops, BidsOn
  <2>3. CASE bid.row[b].lot # NoLot
    BY <1>3, <2>1, <2>3 DEF Uncommitted
  <2> QED
    BY <2>2, <2>3
<1> QED
  BY <1>3, <1>5, <1>6, <1>7 DEF BidsInv

LEMMA RollbackBids ==
  ASSUME BidsInv, NEW c \in Conns, Rollback(c) PROVE BidsInv'
<1>1. TypeInv' /\ tx'[c] = Idle /\ Others(c)
  BY RollbackType DEF BidsInv
<1>2. lot' = RolledBack(lot, c) /\ bid' = RolledBack(bid, c)
  BY DEF Rollback
<1>3. /\ lot \in Tables(Lots, LotRows) /\ bid \in Tables(Bids, BidRows)
      /\ \A d \in Conns : tx[d].pc # "idle" => tx[d].lot \in Lots
  BY DEF BidsInv, TypeInv, TypeOK, WellFormed
<1>4. /\ lot'.row = lot.row
      /\ \A l \in Lots : lot'.lock[l] = IF lot.lock[l] = c THEN NoConn ELSE lot.lock[l]
  BY <1>2, <1>3, RolledBackFacts
<1>5. /\ bid'.row = bid.row
      /\ \A b \in Bids : /\ bid'.lock[b] = IF bid.lock[b] = c THEN NoConn ELSE bid.lock[b]
                         /\ bid'.new[b] = IF bid.lock[b] = c THEN bid.row[b] ELSE bid.new[b]
  BY <1>2, <1>3, RolledBackFacts
<1>6. ASSUME NEW d \in Conns, HoldsLot(d), d # c, tx[d].pc # "idle" PROVE HoldsLot(d)'
  BY <1>1, <1>3, <1>4, <1>6 DEF HoldsLot, Others
<1>7. OwnBids'
  BY <1>1, <1>5, IdleFacts DEF Others, BidsInv, OwnBids
<1>8. Judging'
  <2> SUFFICES ASSUME NEW d \in Conns, tx'[d].pc = "judge" PROVE HoldsLot(d)'
    BY DEF Judging
  <2>1. d # c
    BY <1>1, IdleFacts
  <2> QED
    BY <1>1, <1>6, <2>1 DEF Others, BidsInv, Judging
<1>9. ASSUME NEW b \in Bids, NEW d \in Conns, bid'.lock[b] = d PROVE Uncommitted(b, d)'
  <2>1. d # c /\ bid.lock[b] = d /\ bid'.new[b] = bid.new[b] /\ tx'[d] = tx[d]
    BY <1>1, <1>5, <1>9, NoConnIsNone DEF Others
  <2>2. Uncommitted(b, d)
    BY <2>1 DEF BidsInv
  <2>3. HoldsLot(d) /\ tx[d].pc = "commit" => HoldsLot(d)'
    BY <1>6, <2>1
  <2>4. Tops(b, tx[d].lot) => Tops(b, tx[d].lot)'
    BY <1>5, <2>1 DEF Tops, BidsOn
  <2> QED
    BY <1>4, <1>5, <2>1, <2>2, <2>3, <2>4 DEF Uncommitted
<1> QED
  BY <1>1, <1>7, <1>8, <1>9 DEF BidsInv

\* COMMIT: a new bid comes in above all that its request saw, and no other request of the
\* lot is past the lock.
LEMMA CommitFacts ==
  ASSUME BidsInv, NEW c \in Conns, Commit(c)
  PROVE  /\ TypeInv' /\ tx'[c] = Idle /\ Others(c) /\ tx[c].pc = "commit" /\ bid'.new = bid.new
         /\ \A l \in Lots :
              /\ lot'.row[l] = IF lot.lock[l] = c THEN lot.new[l] ELSE lot.row[l]
              /\ lot'.lock[l] = IF lot.lock[l] = c THEN NoConn ELSE lot.lock[l]
         /\ \A b \in Bids :
              /\ bid'.row[b] = IF bid.lock[b] = c THEN bid.new[b] ELSE bid.row[b]
              /\ bid'.lock[b] = IF bid.lock[b] = c THEN NoConn ELSE bid.lock[b]
<1>1. TypeInv' /\ tx'[c] = Idle /\ Others(c)
  BY CommitType DEF BidsInv
<1>2. /\ lot' = Committed(lot, c) /\ bid' = Committed(bid, c) /\ tx[c].pc = "commit"
      /\ lot \in Tables(Lots, LotRows) /\ bid \in Tables(Bids, BidRows)
  BY DEF Commit, BidsInv, TypeInv, TypeOK
<1> QED
  BY <1>1, <1>2, CommittedFacts

LEMMA CommitBids ==
  ASSUME BidsInv, NEW c \in Conns, Commit(c) PROVE BidsInv'
<1>1. TypeInv' /\ tx'[c] = Idle /\ Others(c) /\ bid'.new = bid.new
  BY CommitFacts
<1>2. \A b \in Bids : /\ bid'.row[b] = IF bid.lock[b] = c THEN bid.new[b] ELSE bid.row[b]
                      /\ bid'.lock[b] = IF bid.lock[b] = c THEN NoConn ELSE bid.lock[b]
  BY CommitFacts
<1>3. \A l \in Lots : /\ lot.lock[l] # c => lot'.row[l] = lot.row[l]
                      /\ lot.lock[l] # c => lot'.lock[l] = lot.lock[l]
  BY CommitFacts
<1>4. \A d \in Conns : /\ tx[d].pc # "idle" => tx[d].lot \in Lots
                       /\ tx[d].op \in {"bid", "award"} => tx[d].bid \in Bids
                       /\ tx[d].pc = "idle" <=> tx[d].op = "none"
  BY DEF BidsInv, TypeInv, WellFormed
<1>5. ASSUME NEW d \in Conns, HoldsLot(d), d # c, tx[d].pc # "idle"
      PROVE  HoldsLot(d)' /\ lot'.row[tx[d].lot] = lot.row[tx[d].lot]
  BY <1>1, <1>3, <1>4, <1>5 DEF HoldsLot, Others
<1>6. ASSUME NEW b \in Bids, bid.row[b].lot # NoLot
      PROVE  bid'.row[b].lot = bid.row[b].lot /\ bid'.row[b].amount = bid.row[b].amount
  BY <1>2, <1>6 DEF BidsInv, Uncommitted
<1>7. OwnBids'
  <2>1. ASSUME NEW d \in Conns, tx'[d].op = "bid" PROVE bid'.row[tx'[d].bid].lot = NoLot
    <3>1. d # c /\ tx'[d] = tx[d] /\ tx[d].bid \in Bids
      BY <1>1, <1>4, <2>1, IdleFacts DEF Others
    <3>2. bid.row[tx[d].bid].lot = NoLot
      BY <2>1, <3>1 DEF BidsInv, OwnBids
    <3>3. bid.lock[tx[d].bid] # c
      <4> SUFFICES ASSUME bid.lock[tx[d].bid] = c PROVE FALSE
        OBVIOUS
      <4>1. tx[c].op = "bid" /\ tx[c].bid = tx[d].bid
        BY <3>1, <3>2 DEF BidsInv, Uncommitted
      <4> QED
        BY <2>1, <3>1, <4>1 DEF BidsInv, OwnBids
    <3> QED
      BY <1>2, <3>1, <3>2, <3>3
  <2>2. ASSUME NEW d \in Conns, tx'[d].op = "award" PROVE bid'.row[tx'[d].bid].lot # NoLot
    <3>1. d # c /\ tx'[d] = tx[d] /\ tx[d].bid \in Bids
      BY <1>1, <1>4, <2>2, IdleFacts DEF Others
    <3> QED
      BY <1>6, <2>2, <3>1 DEF BidsInv, OwnBids
  <2>3. ASSUME NEW d \in Conns, NEW e \in Conns, tx'[d].op = "bid", tx'[e].op = "bid",
               tx'[e].bid = tx'[d].bid
        PROVE  e = d
    BY <1>1, <2>3, IdleFacts DEF Others, BidsInv, OwnBids
  <2> QED
    BY <2>1, <2>2, <2>3 DEF OwnBids
<1>8. Judging'
  <2> SUFFICES ASSUME NEW d \in Conns, tx'[d].pc = "judge" PROVE HoldsLot(d)'
    BY DEF Judging
  <2>1. d # c
    BY <1>1, IdleFacts
  <2> QED
    BY <1>1, <1>5, <2>1 DEF Others, BidsInv, Judging
<1>9. ASSUME NEW b \in Bids, NEW d \in Conns, bid'.lock[b] = d PROVE Uncommitted(b, d)'
  <2>1. d # c /\ bid.lock[b] = d /\ bid'.row[b] = bid.row[b] /\ tx'[d] = tx[d]
    BY <1>1, <1>2, <1>9, NoConnIsNone DEF Others
  <2>2. Uncommitted(b, d)
    BY <2>1 DEF BidsInv
  <2>3. CASE bid.row[b].lot # NoLot
    BY <1>1, <2>1, <2>2, <2>3 DEF Uncommitted
  <2>4. CASE bid.row[b].lot = NoLot
    <3> DEFINE l == tx[d].lot
    <3>1. /\ tx[d].op = "bid" /\ tx[d].pc = "commit" /\ tx[d].bid = b /\ bid.new[b].lot = l
          /\ HoldsLot(d) /\ lot.row[l].status = "live" /\ Tops(b, l)
      BY <2>2, <2>4 DEF Uncommitted
    <3>2. HoldsLot(d)' /\ lot'.row[l] = lot.row[l]
      BY <1>5, <2>1, <3>1
    <3>3. ASSUME NEW a \in Bids, bid'.row[a].lot = l
          PROVE  bid.row[a].lot = l /\ bid'.row[a].amount = bid.row[a].amount
      <4>1. CASE bid.row[a].lot # NoLot
        BY <1>6, <3>3, <4>1
      <4>2. CASE bid.row[a].lot = NoLot
        <5>1. l # NoLot
          BY <1>4, <3>1, AuctionConstants
        <5>2. bid.lock[a] = c /\ bid.new[a].lot = l
          BY <1>2, <3>3, <4>2, <5>1
        <5>3. HoldsLot(c) /\ tx[c].lot = l
          BY <4>2, <5>2 DEF BidsInv, Uncommitted
        <5> QED
          BY <2>1, <3>1, <5>3 DEF HoldsLot
      <4> QED
        BY <4>1, <4>2
    <3>4. Tops(b, tx[d].lot)'
      BY <1>1, <2>1, <3>1, <3>3 DEF Tops, BidsOn
    <3> QED
      BY <1>1, <2>1, <2>4, <3>1, <3>2, <3>4 DEF Uncommitted
  <2> QED
    BY <2>3, <2>4
<1> QED
  BY <1>1, <1>7, <1>8, <1>9 DEF BidsInv

-----------------------------------------------------------------------------
\* The statements, by what they write.
LEMMA LockLotBids == ASSUME BidsInv, NEW c \in Conns, LockLot(c) PROVE BidsInv'
<1>1. /\ tx[c].pc = "lock" /\ Goto(c, "judge") /\ bid' = bid /\ Free(lot, c, tx[c].lot)
      /\ lot' = Written(lot, c, tx[c].lot, lot.row[tx[c].lot])
  BY DEF LockLot
<1>2. tx[c].lot \in Lots /\ lot.row[tx[c].lot] \in LotRows /\ lot \in Tables(Lots, LotRows)
  BY <1>1, RequestTypes DEF BidsInv, TypeInv, TypeOK
<1>3. /\ lot'.row = lot.row
      /\ \A l \in Lots : lot'.lock[l] = IF l = tx[c].lot THEN c ELSE lot.lock[l]
  BY <1>1, <1>2, WrittenFacts
<1>4. TypeInv' /\ lot.lock[tx[c].lot] \in {NoConn, c}
  BY <1>1, LockLotType DEF BidsInv, Free
<1> QED
  BY <1>1, <1>2, <1>3, <1>4, BidsGoOn DEF Steps

LEMMA JudgeBidBids == ASSUME BidsInv, NEW c \in Conns, JudgeBid(c) PROVE BidsInv'
<1> DEFINE t == tx[c]
           placed == [lot |-> t.lot, amount |-> t.amount, placedAt |-> t.now,
                      isWinning |-> FALSE]
           extended == [lot.row[t.lot] EXCEPT !.end = computeAntiSnipeExtension(@, t.now)]
<1>1. t.pc = "judge" /\ t.op = "bid" /\ TypeInv'
  BY JudgeBidType DEF JudgeBid, Serving, BidsInv
<1>2. CASE Rollback(c)
  BY <1>2, RollbackBids
<1>3. CASE /\ validateBid(lot.row[t.lot], t.lot, t.amount, t.now)
           /\ bid' = Written(bid, c, t.bid, placed)
           /\ lot' = Written(lot, c, t.lot, extended)
           /\ Goto(c, "commit")
  <2>1. /\ t.bid \in Bids /\ placed \in BidRows /\ extended \in LotRows /\ t.lot \in Lots
        /\ lot \in Tables(Lots, LotRows) /\ bid \in Tables(Bids, BidRows)
    BY <1>1, RequestTypes, ExtensionType
    DEF BidRows, LotRows, WellFormed, BidsInv, TypeInv, TypeOK
  <2>2. placed.lot = t.lot /\ placed.amount = t.amount
    OBVIOUS
  <2> HIDE DEF placed, extended
  <2>3. /\ lot'.row = lot.row
        /\ \A l \in Lots : lot'.lock[l] = IF l = t.lot THEN c ELSE lot.lock[l]
    BY <1>3, <2>1, WrittenFacts
  <2>4. /\ bid'.row = bid.row
        /\ \A b \in Bids : /\ bid'.new[b] = IF b = t.bid THEN placed ELSE bid.new[b]
                           /\ bid'.lock[b] = IF b = t.bid THEN c ELSE bid.lock[b]
    BY <1>3, <2>1, WrittenFacts
  <2>5. /\ tx'[c].pc = "commit" /\ tx'[c].op = "bid" /\ tx'[c].lot = t.lot
        /\ tx'[c].bid = t.bid
    BY <1>1, <1>3, GoesTo DEF Goto, Steps, BidsInv
  <2>6. Uncommitted(t.bid, c)'
    <3>1. bid.row[t.bid].lot = NoLot /\ HoldsLot(c)
      BY <1>1 DEF BidsInv, OwnBids, Judging
    <3>2. lot.row[t.lot].status = "live" /\ \A a \in BidsOn(t.lot) : t.amount > bid.row[a].amount
      BY <1>3 DEF validateBid
    <3>3. Tops(t.bid, t.lot)'
      BY <2>1, <2>2, <2>4, <2>5, <3>2 DEF Tops, BidsOn
    <3> QED
      BY <2>1, <2>2, <2>3, <2>4, <2>5, <3>1, <3>2, <3>3 DEF Uncommitted, HoldsLot
  <2>7. lot.lock[t.lot] = c
    BY <1>1 DEF BidsInv, Judging, HoldsLot
  <2>8. ASSUME NEW b \in Bids
        PROVE  \/ bid'.lock[b] = bid.lock[b] /\ bid'.new[b] = bid.new[b]
               \/ bid'.lock[b] = c /\ Uncommitted(b, c)'
    <3>1. CASE b = t.bid
      <4>1. Uncommitted(b, c)'
        BY <2>5, <2>6, <3>1 DEF Uncommitted, Tops
      <4> QED
        BY <2>4, <3>1, <4>1
    <3>2. CASE b # t.bid
      BY <2>4, <3>2
    <3> QED
      BY <3>1, <3>2
  <2> QED
    BY <1>1, <1>3, <2>1, <2>3, <2>4, <2>7, <2>8, BidsGoOn DEF Steps
<1> QED
  BY <1>2, <1>3 DEF JudgeBid

\* A bid that is in keeps its lot and its amount when it is flagged or unflagged.
LEMMA FlaggedBid ==
  ASSUME NEW b \in Bids, NEW c \in Conns, bid' \in Tables(Bids, BidRows),
         bid'.row = bid.row, bid.row[b].lot # NoLot,
         bid'.new[b].lot = bid.row[b].lot, bid'.new[b].amount = bid.row[b].amount
  PROVE  Uncommitted(b, c)'
BY DEF Uncommitted

LEMMA JudgeCloseBids == ASSUME BidsInv, NEW c \in Conns, JudgeClose(c) PROVE BidsInv'
<1> DEFINE l == tx[c].lot
           ended == [lot.row[l] EXCEPT !.status = "ended", !.winning = NoBid]
           sold(b) == [lot.row[l] EXCEPT !.status = "sold", !.winning = b]
           flagged(b) == [bid.row[b] EXCEPT !.isWinning = TRUE]
<1>1. tx[c].pc = "judge" /\ tx[c].op = "close" /\ TypeInv'
  BY JudgeCloseType DEF JudgeClose, Serving, BidsInv
<1>2. /\ l \in Lots /\ lot.row[l] \in LotRows /\ lot.lock[l] = c
      /\ lot \in Tables(Lots, LotRows) /\ bid \in Tables(Bids, BidRows)
      /\ bid' \in Tables(Bids, BidRows)
  BY <1>1, RequestTypes DEF BidsInv, TypeInv, TypeOK, Judging, HoldsLot
<1>3. CASE Rollback(c)
  BY <1>3, RollbackBids
<1>4. CASE lot' = Written(lot, c, l, ended) /\ Goto(c, "commit") /\ UNCHANGED bid
  <2>1. ended \in LotRows
    BY <1>2 DEF LotRows, LotStatuses
  <2> HIDE DEF ended
  <2>2. /\ lot'.row = lot.row
        /\ \A k \in Lots : lot'.lock[k] = IF k = l THEN c ELSE lot.lock[k]
    BY <1>2, <1>4, <2>1, WrittenFacts
  <2> QED
    BY <1>1, <1>2, <1>4, <2>2, BidsGoOn DEF Steps
<1>5. CASE /\ \E b \in TopBids(l) : /\ lot' = Written(lot, c, l, sold(b))
                                    /\ bid' = Written(bid, c, b, flagged(b))
           /\ Goto(c, "commit")
  <2>1. PICK b \in TopBids(l) : /\ lot' = Written(lot, c, l, sold(b))
                                /\ bid' = Written(bid, c, b, flagged(b))
    BY <1>5
  <2>2. b \in Bids /\ bid.row[b].lot = l /\ l # NoLot
    BY <1>2, AuctionConstants DEF TopBids, BidsOn
  <2>3. sold(b) \in LotRows
    BY <1>2, <2>2 DEF LotRows, LotStatuses
  <2>4. bid.row[b] \in BidRows
    BY <1>2, <2>2 DEF Tables
  <2>5. /\ flagged(b) \in BidRows /\ flagged(b).lot = bid.row[b].lot
        /\ flagged(b).amount = bid.row[b].amount
    BY <2>4, FlaggedType
  <2> HIDE DEF sold, flagged
  <2>6. /\ lot'.row = lot.row
        /\ \A k \in Lots : lot'.lock[k] = IF k = l THEN c ELSE lot.lock[k]
    BY <1>2, <2>1, <2>2, <2>3, WrittenFacts
  <2>7. /\ bid'.row = bid.row
        /\ \A a \in Bids : /\ bid'.new[a] = IF a = b THEN flagged(b) ELSE bid.new[a]
                           /\ bid'.lock[a] = IF a = b THEN c ELSE bid.lock[a]
    BY <1>2, <2>1, <2>2, <2>5, WrittenFacts
  <2>8. Uncommitted(b, c)'
    BY <1>2, <2>2, <2>5, <2>7, FlaggedBid
  <2> QED
    BY <1>1, <1>2, <1>5, <2>6, <2>7, <2>8, BidsGoOn DEF Steps
<1> QED
  BY <1>3, <1>4, <1>5 DEF JudgeClose, evaluateClose

LEMMA WriteLotBids == ASSUME BidsInv, NEW c \in Conns, WriteLot(c) PROVE BidsInv'
<1> DEFINE t == tx[c]
           row == lot.row[t.lot]
           patched == [f \in DOMAIN row |-> IF f \in Columns[t.op] THEN t.set[f] ELSE row[f]]
<1>1. /\ t.pc = "write" /\ Free(lot, c, t.lot) /\ lot' = Written(lot, c, t.lot, patched)
      /\ Goto(c, "commit") /\ bid' = bid /\ TypeInv'
  BY WriteLotType DEF WriteLot, BidsInv
<1>2. t.lot \in Lots /\ lot.lock[t.lot] \in {NoConn, c} /\ lot \in Tables(Lots, LotRows)
  BY <1>1, RequestTypes DEF BidsInv, TypeInv, TypeOK, Free
<1> HIDE DEF patched
<1>3. /\ lot'.row = lot.row
      /\ \A k \in Lots : lot'.lock[k] = IF k = t.lot THEN c ELSE lot.lock[k]
  BY <1>1, <1>2 DEF Written, Tables
<1> QED
  BY <1>1, <1>2, <1>3, BidsGoOn DEF Steps

LEMMA ClearWinningBids == ASSUME BidsInv, NEW c \in Conns, ClearWinning(c) PROVE BidsInv'
<1> DEFINE flagged == {b \in BidsOn(tx[c].lot) : bid.row[b].isWinning}
<1>1. tx[c].pc = "clear" /\ Goto(c, "flag") /\ lot' = lot /\ TypeInv'
  BY ClearWinningType DEF ClearWinning, BidsInv
<1>2. /\ tx[c].lot \in Lots /\ tx[c].lot # NoLot
      /\ bid \in Tables(Bids, BidRows) /\ bid' \in Tables(Bids, BidRows)
  BY <1>1, RequestTypes, AuctionConstants DEF BidsInv, TypeInv, TypeOK
<1>3. /\ bid'.row = bid.row
      /\ \A b \in Bids :
           /\ bid'.new[b] = IF b \in flagged THEN [bid.row[b] EXCEPT !.isWinning = FALSE]
                                             ELSE bid.new[b]
           /\ bid'.lock[b] = IF b \in flagged THEN c ELSE bid.lock[b]
  BY <1>2 DEF ClearWinning, Tables
<1>4. ASSUME NEW b \in flagged PROVE Uncommitted(b, c)'
  <2>1. b \in Bids /\ bid.row[b] \in BidRows /\ bid.row[b].lot # NoLot
    BY <1>2 DEF BidsOn, Tables
  <2>2. bid'.new[b].lot = bid.row[b].lot /\ bid'.new[b].amount = bid.row[b].amount
    BY <1>3, <2>1, FlaggedType
  <2> QED
    BY <1>2, <1>3, <2>1, <2>2, FlaggedBid
<1>5. ASSUME NEW b \in Bids
      PROVE  \/ bid'.lock[b] = bid.lock[b] /\ bid'.new[b] = bid.new[b]
             \/ bid'.lock[b] = c /\ Uncommitted(b, c)'
  BY <1>3, <1>4
<1> QED
  BY <1>1, <1>2, <1>3, <1>5, BidsGoOn DEF Steps

LEMMA FlagWinningBids == ASSUME BidsInv, NEW c \in Conns, FlagWinning(c) PROVE BidsInv'
<1> DEFINE b == tx[c].bid
           flagged == [Seen(bid, c, b) EXCEPT !.isWinning = TRUE]
<1>1. /\ tx[c].pc = "flag" /\ bid' = Written(bid, c, b, flagged)
      /\ Goto(c, "write") /\ lot' = lot /\ TypeInv'
  BY FlagWinningType DEF FlagWinning, BidsInv
<1>2. /\ tx[c].op = "award" /\ b \in Bids
      /\ bid \in Tables(Bids, BidRows) /\ bid' \in Tables(Bids, BidRows)
  BY <1>1, RequestTypes DEF WellFormed, BidsInv, TypeInv, TypeOK
<1>3. bid.row[b].lot # NoLot
  BY <1>2 DEF BidsInv, OwnBids
<1>4. /\ Seen(bid, c, b) \in BidRows /\ Seen(bid, c, b).lot = bid.row[b].lot
      /\ Seen(bid, c, b).amount = bid.row[b].amount
  <2>1. bid.new[b] \in BidRows /\ bid.row[b] \in BidRows
    BY <1>2 DEF Tables
  <2>2. bid.lock[b] = c => bid.new[b].lot = bid.row[b].lot /\ bid.new[b].amount = bid.row[b].amount
    BY <1>2, <1>3 DEF BidsInv, Uncommitted
  <2> QED
    BY <2>1, <2>2 DEF Seen
<1>5. /\ flagged \in BidRows /\ flagged.lot = bid.row[b].lot
      /\ flagged.amount = bid.row[b].amount
  BY <1>4, FlaggedType
<1> HIDE DEF flagged
<1>6. /\ bid'.row = bid.row
      /\ \A a \in Bids : /\ bid'.new[a] = IF a = b THEN flagged ELSE bid.new[a]
                         /\ bid'.lock[a] = IF a = b THEN c ELSE bid.lock[a]
  BY <1>1, <1>2, <1>5, WrittenFacts
<1>7. ASSUME NEW a \in Bids
      PROVE  \/ bid'.lock[a] = bid.lock[a] /\ bid'.new[a] = bid.new[a]
             \/ bid'.lock[a] = c /\ Uncommitted(a, c)'
  <2>1. a = b => Uncommitted(a, c)'
    BY <1>2, <1>3, <1>5, <1>6, FlaggedBid
  <2> QED
    BY <1>6, <2>1
<1> QED
  BY <1>1, <1>6, <1>7, BidsGoOn DEF Steps

LEMMA NextBids == BidsInv /\ [Next]_vars => BidsInv'
<1> SUFFICES ASSUME BidsInv, [Next]_vars PROVE BidsInv'
  OBVIOUS
<1>1. TypeInv /\ TypeInv'
  BY NextType DEF BidsInv
<1>2. CASE UNCHANGED <<tables, tx>>
  BY <1>1, <1>2 DEF BidsInv, OwnBids, Judging, HoldsLot, Uncommitted, Tops, BidsOn, tables
<1>3. ASSUME NEW c \in Conns, Step(c) PROVE BidsInv'
  BY <1>3, BeginBids, CommitBids, RollbackBids, LockLotBids, JudgeBidBids, JudgeCloseBids,
     WriteLotBids, ClearWinningBids, FlagWinningBids DEF Step, Abort
<1> QED
  BY <1>1, <1>2, <1>3, NextCases

LEMMA InitBids == Init => BidsInv
<1> SUFFICES ASSUME Init PROVE BidsInv
  OBVIOUS
<1>1. TypeInv
  BY InitType
<1>2. \A c \in Conns : tx[c].op = "none" /\ tx[c].pc = "idle"
  BY IdleFacts DEF Init
<1>3. \A b \in Bids : bid.lock[b] = NoConn
  BY DEF Init, Filled
<1> QED
  BY <1>1, <1>2, <1>3, NoConnIsNone DEF BidsInv, OwnBids, Judging

\* The committed bids change in no step but a COMMIT.
LEMMA OnlyCommits ==
  ASSUME BidsInv, [Next]_vars
  PROVE  (lot'.row = lot.row /\ bid'.row = bid.row) \/ \E c \in Conns : Commit(c)
<1>1. CASE UNCHANGED <<tables, tx>>
  BY <1>1 DEF tables
<1>2. ASSUME NEW c \in Conns, Step(c), ~Commit(c)
      PROVE  lot'.row = lot.row /\ bid'.row = bid.row
  <2>1. lot \in Tables(Lots, LotRows) /\ bid \in Tables(Bids, BidRows)
    BY DEF BidsInv, TypeInv, TypeOK
  <2>2. CASE Rollback(c)
    BY <2>1, <2>2, RolledBackFacts DEF Rollback
  <2>3. CASE Begins(c)
    BY <2>3 DEF Begins, Begin, tables
  <2>4. CASE ~Rollback(c) /\ \/ LockLot(c) \/ JudgeBid(c) \/ JudgeClose(c)
                             \/ WriteLot(c) \/ ClearWinning(c) \/ FlagWinning(c)
    BY <2>1, <2>4
    DEF Written, Tables, LockLot, WriteLot, JudgeBid, JudgeClose, ClearWinning, FlagWinning
  <2> QED
    BY <1>2, <2>2, <2>3, <2>4 DEF Step, Abort
<1> QED
  BY <1>1, <1>2, NextCases DEF BidsInv

LEMMA CommitIncreases ==
  ASSUME BidsInv, NEW c \in Conns, Commit(c), NEW b \in Bids,
         bid.row[b].lot = NoLot, bid'.row[b].lot # NoLot
  PROVE  /\ lot.row[bid'.row[b].lot].status = "live"
         /\ \A a \in BidsOn(bid'.row[b].lot) : bid'.row[b].amount > bid.row[a].amount
<1>1. bid.lock[b] = c /\ bid'.row[b] = bid.new[b]
  BY CommitFacts
<1>2. /\ bid.new[b].lot = tx[c].lot /\ lot.row[tx[c].lot].status = "live"
      /\ Tops(b, tx[c].lot)
  BY <1>1 DEF BidsInv, Uncommitted
<1> QED
  BY <1>1, <1>2 DEF Tops

\* Two bidders racing at the top cannot both win, however many lots, bids, bidders, sweeps
\* and members of staff there are: a bid comes in only above all that are in.
THEOREM BidsIncreaseHolds == Spec => BidsIncrease
<1> DEFINE Increase ==
      \A b \in Bids :
        bid.row[b].lot = NoLot /\ bid'.row[b].lot # NoLot =>
          /\ lot.row[bid'.row[b].lot].status = "live"
          /\ \A a \in BidsOn(bid'.row[b].lot) : bid'.row[b].amount > bid.row[a].amount
<1>1. BidsInv /\ [Next]_vars => Increase
  <2> SUFFICES ASSUME BidsInv, [Next]_vars, NEW b \in Bids,
                      bid.row[b].lot = NoLot, bid'.row[b].lot # NoLot
               PROVE  /\ lot.row[bid'.row[b].lot].status = "live"
                      /\ \A a \in BidsOn(bid'.row[b].lot) : bid'.row[b].amount > bid.row[a].amount
    OBVIOUS
  <2>1. PICK c \in Conns : Commit(c)
    BY OnlyCommits
  <2> QED
    BY <2>1, CommitIncreases
<1> QED
  BY InitBids, NextBids, <1>1, PTL DEF Spec, BidsIncrease

-----------------------------------------------------------------------------
\* The same for sales, with one member of staff.
LEMMA SaleGoesOn ==
  ASSUME SaleInv, BidsInv', NEW c \in Conns, NEW pc \in Steps, Goto(c, pc),
         tx[c].pc \notin {"idle", "commit"},
         lot'.row = lot.row, bid'.row = bid.row,
         \A l \in Lots : \/ lot'.lock[l] = lot.lock[l] /\ lot'.new[l] = lot.new[l]
                         \/ /\ l = tx[c].lot /\ lot'.lock[l] = c
                            /\ lot.row[l].status = "live" => Sale(l, lot'.new[l]),
         pc = "commit" /\ tx[c].op \in {"bid", "close"} =>
           lot.row[tx[c].lot].status = "live"
  PROVE  SaleInv'
<1>1. tx' = [tx EXCEPT ![c].pc = pc] /\ tx \in [Conns -> Requests]
  BY DEF Goto, SaleInv, BidsInv, TypeInv, TypeOK
<1>2. \A d \in Conns :
        /\ tx'[d].op = tx[d].op /\ tx'[d].lot = tx[d].lot /\ tx'[d].set = tx[d].set
        /\ tx'[d].pc = IF d = c THEN pc ELSE tx[d].pc
  BY <1>1 DEF Requests
<1>3. \A d \in Conns : Unchanged(d)'
  BY <1>2 DEF SaleInv, Unchanged
<1>4. \A l \in Lots : HasTop(l)'
  BY DEF SaleInv, HasTop, BidsOn
<1>5. ASSUME NEW l \in Lots, NEW d \in Conns, lot'.lock[l] = d PROVE Locked(l, d)'
  <2>2. Sale(l, lot'.new[l]) => Sale(l, lot.new[l])'
    BY DEF Sale, BidsOn
  <2>3. CASE /\ l = tx[c].lot /\ lot'.lock[l] = c
             /\ lot.row[l].status = "live" => Sale(l, lot'.new[l])
    <3>1. d = c
      BY <1>5, <2>3
    <3> QED
      BY <1>2, <2>2, <2>3, <3>1 DEF Locked
  <2>4. CASE lot'.lock[l] = lot.lock[l] /\ lot'.new[l] = lot.new[l]
    <3>1. Locked(l, d)
      BY <1>5, <2>4 DEF SaleInv
    <3> QED
      BY <1>2, <2>2, <2>4, <3>1 DEF Locked
  <2> QED
    BY <2>3, <2>4
<1> QED
  BY <1>3, <1>4, <1>5 DEF SaleInv

LEMMA BeginSale ==
  ASSUME SaleInv, NEW c \in Conns, Begins(c) PROVE SaleInv'
<1>1. PICK q \in Requests : Admitted(c, q) /\ Begin(c, q)
  BY DEF Begins
<1>2. WellFormed(q)
  BY <1>1 DEF Admitted
<1>3. BidsInv' /\ tx'[c] = q /\ Others(c) /\ lot' = lot /\ bid' = bid /\ tx[c].pc = "idle"
  BY <1>1, <1>2, BeginType, BeginBids DEF SaleInv, BidsInv, tables, Begin
<1>4. \A d \in Conns : Unchanged(d)'
  BY <1>1, <1>3 DEF Others, SaleInv, Unchanged, Admitted
<1>5. \A l \in Lots : HasTop(l)'
  BY <1>3 DEF SaleInv, HasTop, BidsOn
<1>6. ASSUME NEW l \in Lots, NEW d \in Conns, lot'.lock[l] = d PROVE Locked(l, d)'
  <2>1. Locked(l, d)
    BY <1>3, <1>6 DEF SaleInv
  <2>2. d # c
    <3>1. SUFFICES ASSUME d = c PROVE FALSE
      OBVIOUS
    <3> QED
      BY <1>3, <2>1, <3>1, AuctionConstants DEF Locked, SaleInv, BidsInv, TypeInv, WellFormed
  <2> QED
    BY <1>3, <2>1, <2>2 DEF Others, Locked, Sale, BidsOn
<1> QED
  BY <1>3, <1>4, <1>5, <1>6 DEF SaleInv

LEMMA RollbackSale ==
  ASSUME SaleInv, NEW c \in Conns, Rollback(c) PROVE SaleInv'
<1>1. BidsInv' /\ tx'[c] = Idle /\ Others(c)
  BY RollbackType, RollbackBids DEF SaleInv, BidsInv
<1>2. /\ lot' = RolledBack(lot, c) /\ bid' = RolledBack(bid, c)
      /\ lot \in Tables(Lots, LotRows) /\ bid \in Tables(Bids, BidRows)
  BY DEF Rollback, SaleInv, BidsInv, TypeInv, TypeOK
<1>3. /\ lot'.row = lot.row
      /\ \A l \in Lots : /\ lot'.lock[l] = IF lot.lock[l] = c THEN NoConn ELSE lot.lock[l]
                         /\ lot'.new[l] = IF lot.lock[l] = c THEN lot.row[l] ELSE lot.new[l]
  BY <1>2, RolledBackFacts
<1>4. bid'.row = bid.row
  BY <1>2, RolledBackFacts
<1>5. \A d \in Conns : Unchanged(d)'
  BY <1>1, <1>3, IdleFacts DEF Others, SaleInv, Unchanged, StaffOps
<1>6. \A l \in Lots : HasTop(l)'
  BY <1>4 DEF SaleInv, HasTop, BidsOn
<1>7. ASSUME NEW l \in Lots, NEW d \in Conns, lot'.lock[l] = d PROVE Locked(l, d)'
  <2>1. d # c /\ lot.lock[l] = d /\ lot'.new[l] = lot.new[l] /\ tx'[d] = tx[d]
    BY <1>1, <1>3, <1>7, NoConnIsNone DEF Others
  <2>2. Locked(l, d)
    BY <2>1 DEF SaleInv
  <2> QED
    BY <1>3, <1>4, <2>1, <2>2 DEF Locked, Sale, BidsOn
<1> QED
  BY <1>1, <1>5, <1>6, <1>7 DEF SaleInv

\* A bid comes in on top of the bids of its lot, which no other connection has locked.
LEMMA CommitOnTop ==
  ASSUME BidsInv, NEW c \in Conns, Commit(c), NEW l \in Lots
  PROVE  /\ lot.lock[l] # c => BidsOn(l)' = BidsOn(l)
         /\ \A b \in BidsOn(l) : b \in BidsOn(l)' /\ bid'.row[b].amount = bid.row[b].amount
         /\ \A b \in BidsOn(l)' \ BidsOn(l) :
              /\ \A a \in BidsOn(l) : bid'.row[b].amount > bid.row[a].amount
              /\ BidsOn(l)' = BidsOn(l) \cup {b}
<1>1. l # NoLot
  BY AuctionConstants
<1>2. \A b \in Bids : bid'.row[b] = IF bid.lock[b] = c THEN bid.new[b] ELSE bid.row[b]
  BY CommitFacts
<1>3. ASSUME NEW b \in Bids, bid.row[b].lot # NoLot
      PROVE  bid'.row[b].lot = bid.row[b].lot /\ bid'.row[b].amount = bid.row[b].amount
  BY <1>2, <1>3 DEF BidsInv, Uncommitted
<1>4. ASSUME NEW b \in Bids, bid.row[b].lot = NoLot, bid'.row[b].lot = l
      PROVE  /\ tx[c].op = "bid" /\ tx[c].bid = b /\ lot.lock[l] = c
             /\ \A a \in BidsOn(l) : bid'.row[b].amount > bid.row[a].amount
  <2>1. bid.lock[b] = c /\ bid'.row[b] = bid.new[b]
    BY <1>1, <1>2, <1>4
  <2>2. Uncommitted(b, c)
    BY <2>1 DEF BidsInv
  <2> QED
    BY <1>4, <2>1, <2>2 DEF Uncommitted, Tops, HoldsLot
<1>5. \A b \in BidsOn(l) : b \in BidsOn(l)' /\ bid'.row[b].amount = bid.row[b].amount
  BY <1>1, <1>3 DEF BidsOn
<1>6. ASSUME NEW b \in BidsOn(l)' \ BidsOn(l)
      PROVE  b \in Bids /\ bid.row[b].lot = NoLot /\ bid'.row[b].lot = l
  BY <1>3, <1>6 DEF BidsOn
<1>7. \A b, a \in BidsOn(l)' \ BidsOn(l) : a = b
  BY <1>4, <1>6
<1>8. lot.lock[l] # c => BidsOn(l)' \ BidsOn(l) = {}
  BY <1>4, <1>6
<1> QED
  BY <1>4, <1>5, <1>6, <1>7, <1>8

LEMMA CommitSale ==
  ASSUME SaleInv, OneMemberOfStaff, NEW c \in Conns, Commit(c) PROVE SaleInv'
<1>1. BidsInv /\ BidsInv'
  BY CommitBids DEF SaleInv
<1>2. tx'[c] = Idle /\ Others(c) /\ tx[c].pc = "commit"
  BY <1>1, CommitFacts
<1>3. \A l \in Lots : /\ lot'.row[l] = IF lot.lock[l] = c THEN lot.new[l] ELSE lot.row[l]
                      /\ lot'.lock[l] = IF lot.lock[l] = c THEN NoConn ELSE lot.lock[l]
  BY <1>1, CommitFacts
<1>4. lot'.new = lot.new
  BY CommittedFacts DEF Commit, SaleInv, BidsInv, TypeInv, TypeOK
<1>5. ASSUME NEW l \in Lots PROVE HasTop(l)'
  <2>1. CASE BidsOn(l)' \ BidsOn(l) = {}
    <3>1. BidsOn(l)' = BidsOn(l)
      BY <1>1, <2>1, CommitOnTop
    <3>2. \A b \in BidsOn(l) : bid'.row[b].amount = bid.row[b].amount
      BY <1>1, CommitOnTop
    <3> QED
      BY <3>1, <3>2 DEF SaleInv, HasTop
  <2>2. CASE BidsOn(l)' \ BidsOn(l) # {}
    <3>1. PICK b \in BidsOn(l)' \ BidsOn(l) : TRUE
      BY <2>2
    <3>2. /\ \A a \in BidsOn(l) : bid'.row[b].amount > bid'.row[a].amount
          /\ BidsOn(l)' = BidsOn(l) \cup {b}
      BY <1>1, <3>1, CommitOnTop
    <3> QED
      BY <3>1, <3>2 DEF HasTop
  <2> QED
    BY <2>1, <2>2
<1>6. ASSUME NEW d \in Conns PROVE Unchanged(d)'
  <2>1. CASE d = c
    BY <1>2, <2>1, IdleFacts DEF Unchanged, StaffOps
  <2>2. CASE tx'[d].op \notin StaffOps
    BY <2>2 DEF Unchanged, StaffOps
  <2>3. CASE d # c /\ tx'[d].op \in StaffOps
    <3>1. tx'[d] = tx[d] /\ Unchanged(d) /\ Unchanged(c)
      BY <1>2, <2>3 DEF Others, SaleInv
    <3>2. tx[c].op \in {"bid", "close"}
      <4>1. tx[c].op \notin StaffOps
        BY <2>3, <3>1 DEF Unchanged, OneMemberOfStaff
      <4>2. tx[c] \in Requests /\ tx[c].op # "none"
        BY <1>1, <1>2 DEF BidsInv, TypeInv, TypeOK, WellFormed
      <4> QED
        BY <4>1, <4>2 DEF Requests, Ops, StaffOps
    <3>3. tx[d].lot \in Lots
      BY <1>1, <2>3, <3>1 DEF BidsInv, TypeInv, WellFormed, StaffOps
    <3>4. CASE lot.lock[tx[d].lot] = c
      <4>1. lot.row[tx[d].lot].status = "live"
        BY <1>2, <3>2, <3>3, <3>4 DEF SaleInv, Locked
      <4> QED
        BY <3>1, <4>1 DEF Unchanged
    <3>5. CASE lot.lock[tx[d].lot] # c
      BY <1>3, <3>1, <3>3, <3>5 DEF Unchanged
    <3> QED
      BY <3>4, <3>5
  <2> QED
    BY <2>1, <2>2, <2>3
<1>7. ASSUME NEW l \in Lots, NEW d \in Conns, lot'.lock[l] = d PROVE Locked(l, d)'
  <2>1. d # c /\ lot.lock[l] = d /\ lot'.row[l] = lot.row[l] /\ tx'[d] = tx[d]
    BY <1>2, <1>3, <1>7, NoConnIsNone DEF Others
  <2>2. Locked(l, d)
    BY <2>1 DEF SaleInv
  <2>3. BidsOn(l)' = BidsOn(l) /\ \A b \in BidsOn(l) : bid'.row[b].amount = bid.row[b].amount
    BY <1>1, <2>1, CommitOnTop
  <2>4. Sale(l, lot.new[l]) => Sale(l, lot.new[l])'
    BY <1>4, <2>1, <2>3 DEF Sale
  <2> QED
    BY <2>1, <2>2, <2>4 DEF Locked
<1> QED
  BY <1>1, <1>5, <1>6, <1>7 DEF SaleInv

LEMMA LockLotSale == ASSUME SaleInv, NEW c \in Conns, LockLot(c) PROVE SaleInv'
<1> DEFINE l == tx[c].lot
<1>1. /\ tx[c].pc = "lock" /\ Goto(c, "judge") /\ bid' = bid
      /\ lot' = Written(lot, c, l, lot.row[l])
  BY DEF LockLot
<1>2. l \in Lots /\ lot.row[l] \in LotRows /\ lot \in Tables(Lots, LotRows) /\ BidsInv'
  BY <1>1, RequestTypes, LockLotBids DEF SaleInv, BidsInv, TypeInv, TypeOK
<1>3. /\ lot'.row = lot.row
      /\ \A k \in Lots : /\ lot'.new[k] = IF k = l THEN lot.row[l] ELSE lot.new[k]
                         /\ lot'.lock[k] = IF k = l THEN c ELSE lot.lock[k]
  BY <1>1, <1>2, WrittenFacts
<1>4. lot.row[l].status = "live" => Sale(l, lot.row[l])
  BY <1>2 DEF Sale, LotRows
<1> QED
  BY <1>1, <1>2, <1>3, <1>4, SaleGoesOn DEF Steps

LEMMA JudgeBidSale == ASSUME SaleInv, NEW c \in Conns, JudgeBid(c) PROVE SaleInv'
<1> DEFINE t == tx[c]
           placed == [lot |-> t.lot, amount |-> t.amount, placedAt |-> t.now,
                      isWinning |-> FALSE]
           extended == [lot.row[t.lot] EXCEPT !.end = computeAntiSnipeExtension(@, t.now)]
<1>1. t.pc = "judge" /\ t.op = "bid" /\ BidsInv'
  BY JudgeBidBids DEF JudgeBid, Serving, SaleInv
<1>2. CASE Rollback(c)
  BY <1>2, RollbackSale
<1>3. CASE /\ validateBid(lot.row[t.lot], t.lot, t.amount, t.now)
           /\ bid' = Written(bid, c, t.bid, placed)
           /\ lot' = Written(lot, c, t.lot, extended)
           /\ Goto(c, "commit")
  <2>1. /\ t.bid \in Bids /\ placed \in BidRows /\ t.lot \in Lots
        /\ lot.row[t.lot] \in LotRows /\ t.now \in Nat
        /\ lot \in Tables(Lots, LotRows) /\ bid \in Tables(Bids, BidRows)
    BY <1>1, RequestTypes DEF BidRows, WellFormed, SaleInv, BidsInv, TypeInv, TypeOK
  <2>2. lot.row[t.lot].status = "live"
    BY <1>3 DEF validateBid
  <2>3. extended \in LotRows /\ extended.status = "live" /\ extended.end >= lot.row[t.lot].end
    BY <2>1, <2>2, ExtensionType DEF LotRows
  <2> HIDE DEF placed, extended
  <2>4. /\ lot'.row = lot.row
        /\ \A k \in Lots : /\ lot'.new[k] = IF k = t.lot THEN extended ELSE lot.new[k]
                           /\ lot'.lock[k] = IF k = t.lot THEN c ELSE lot.lock[k]
    BY <1>3, <2>1, <2>3, WrittenFacts
  <2>5. bid'.row = bid.row
    BY <1>3, <2>1, WrittenFacts
  <2>6. Sale(t.lot, extended)
    BY <2>3 DEF Sale
  <2> QED
    BY <1>1, <1>3, <2>1, <2>2, <2>4, <2>5, <2>6, SaleGoesOn DEF Steps
<1> QED
  BY <1>2, <1>3 DEF JudgeBid

\* A close finds the highest bid, if there are bids at all.
LEMMA HighestBid ==
  ASSUME SaleInv, NEW l \in Lots
  PROVE  /\ BidsOn(l) # {} => TopBids(l) # {}
         /\ \A b \in TopBids(l) :
              b \in BidsOn(l) /\ \A a \in BidsOn(l) : bid.row[a].amount <= bid.row[b].amount
<1>1. \A b \in Bids : bid.row[b].amount \in Nat /\ bid.row[b].placedAt \in Nat
  BY DEF SaleInv, BidsInv, TypeInv, TypeOK, Tables, BidRows
<1>2. ASSUME NEW b \in BidsOn(l),
             \A a \in BidsOn(l) \ {b} : bid.row[b].amount > bid.row[a].amount
      PROVE  b \in TopBids(l)
  <2> SUFFICES ASSUME NEW a \in BidsOn(l) PROVE Beats(b, a)
    BY <1>2 DEF TopBids
  <2>1. b \in Bids /\ a \in Bids
    BY DEF BidsOn
  <2> QED
    BY <1>1, <1>2, <2>1 DEF Beats
<1>3. HasTop(l)
  BY DEF SaleInv
<1>4. ASSUME NEW b \in TopBids(l), NEW a \in BidsOn(l)
      PROVE  b \in BidsOn(l) /\ bid.row[a].amount <= bid.row[b].amount
  <2>1. b \in Bids /\ a \in Bids /\ b \in BidsOn(l) /\ Beats(b, a)
    BY DEF BidsOn, TopBids
  <2> QED
    BY <1>1, <2>1 DEF Beats
<1> QED
  BY <1>2, <1>3, <1>4 DEF HasTop, TopBids

LEMMA JudgeCloseSale == ASSUME SaleInv, NEW c \in Conns, JudgeClose(c) PROVE SaleInv'
<1> DEFINE l == tx[c].lot
           row == lot.row[l]
           ended == [row EXCEPT !.status = "ended", !.winning = NoBid]
           sold(b) == [row EXCEPT !.status = "sold", !.winning = b]
           flagged(b) == [bid.row[b] EXCEPT !.isWinning = TRUE]
<1>1. tx[c].pc = "judge" /\ tx[c].op = "close" /\ BidsInv'
  BY JudgeCloseBids DEF JudgeClose, Serving, SaleInv
<1>2. /\ l \in Lots /\ row \in LotRows
      /\ lot \in Tables(Lots, LotRows) /\ bid \in Tables(Bids, BidRows)
  BY <1>1, RequestTypes DEF SaleInv, BidsInv, TypeInv, TypeOK
<1>3. \A b \in Bids : bid.row[b] \in BidRows /\ bid.row[b].amount \in Nat
  BY <1>2 DEF Tables, BidRows
<1>4. CASE Rollback(c)
  BY <1>4, RollbackSale
<1>5. CASE /\ row.status = "live" /\ evaluateClose(l, row.reserve) = {}
           /\ lot' = Written(lot, c, l, ended) /\ Goto(c, "commit") /\ UNCHANGED bid
  <2>1. ended \in LotRows /\ ended.status = "ended"
    BY <1>2 DEF LotRows, LotStatuses
  <2>2. ASSUME NEW b \in BidsOn(l) PROVE bid.row[b].amount < row.reserve
    <3>1. PICK t \in TopBids(l) : TRUE
      BY <1>2, <2>2, HighestBid
    <3>2. t \in BidsOn(l) /\ bid.row[b].amount <= bid.row[t].amount
      BY <1>2, <3>1, HighestBid
    <3>3. ~(bid.row[t].amount >= row.reserve)
      BY <1>5, <3>1 DEF evaluateClose
    <3>4. b \in Bids /\ t \in Bids /\ row.reserve \in Nat
      BY <1>2, <3>2 DEF BidsOn, LotRows
    <3> HIDE DEF row
    <3> QED
      BY <1>3, <3>2, <3>3, <3>4
  <2> HIDE DEF ended
  <2>3. Sale(l, ended)
    BY <2>1, <2>2 DEF Sale
  <2>4. /\ lot'.row = lot.row
        /\ \A k \in Lots : /\ lot'.new[k] = IF k = l THEN ended ELSE lot.new[k]
                           /\ lot'.lock[k] = IF k = l THEN c ELSE lot.lock[k]
    BY <1>2, <1>5, <2>1, WrittenFacts
  <2> QED
    BY <1>1, <1>2, <1>5, <2>3, <2>4, SaleGoesOn DEF Steps
<1>6. CASE /\ row.status = "live"
           /\ \E b \in evaluateClose(l, row.reserve) :
                /\ lot' = Written(lot, c, l, sold(b))
                /\ bid' = Written(bid, c, b, flagged(b))
           /\ Goto(c, "commit")
  <2>1. PICK b \in evaluateClose(l, row.reserve) : /\ lot' = Written(lot, c, l, sold(b))
                                                   /\ bid' = Written(bid, c, b, flagged(b))
    BY <1>6
  <2>2. b \in TopBids(l) /\ b \in BidsOn(l) /\ b \in Bids /\ bid.row[b].amount >= row.reserve
    BY DEF evaluateClose, TopBids, BidsOn
  <2>3. sold(b) \in LotRows /\ sold(b).status = "sold" /\ sold(b).winning = b
    BY <1>2, <2>2 DEF LotRows, LotStatuses
  <2>4. flagged(b) \in BidRows
    BY <1>3, <2>2, FlaggedType
  <2> HIDE DEF sold, flagged
  <2>5. Sale(l, sold(b))
    <3>1. \A a \in BidsOn(l) : bid.row[a].amount <= bid.row[b].amount
      BY <1>2, <2>2, HighestBid
    <3>2. row.reserve \in Nat /\ bid.row[b].amount \in Nat
      BY <1>2, <1>3, <2>2 DEF LotRows
    <3>3. ~(bid.row[b].amount < lot.row[l].reserve)
      BY <2>2, <3>2
    <3> QED
      BY <2>2, <2>3, <3>1, <3>3 DEF Sale
  <2>6. /\ lot'.row = lot.row
        /\ \A k \in Lots : /\ lot'.new[k] = IF k = l THEN sold(b) ELSE lot.new[k]
                           /\ lot'.lock[k] = IF k = l THEN c ELSE lot.lock[k]
    BY <1>2, <2>1, <2>3, WrittenFacts
  <2>7. bid'.row = bid.row
    BY <1>2, <2>1, <2>2, <2>4, WrittenFacts
  <2> QED
    BY <1>1, <1>2, <1>6, <2>5, <2>6, <2>7, SaleGoesOn DEF Steps
<1> QED
  BY <1>4, <1>5, <1>6 DEF JudgeClose

\* Of the staff requests, only a withdrawal finds the lot live.
LEMMA WriteLotSale == ASSUME SaleInv, NEW c \in Conns, WriteLot(c) PROVE SaleInv'
<1> DEFINE t == tx[c]
           row == lot.row[t.lot]
           patched == [f \in DOMAIN row |-> IF f \in Columns[t.op] THEN t.set[f] ELSE row[f]]
<1>1. /\ t.pc = "write" /\ lot' = Written(lot, c, t.lot, patched)
      /\ Goto(c, "commit") /\ bid' = bid /\ BidsInv'
  BY WriteLotBids DEF WriteLot, SaleInv
<1>2. /\ t.lot \in Lots /\ row \in LotRows /\ t.op \in StaffOps
      /\ lot \in Tables(Lots, LotRows)
  BY <1>1, RequestTypes DEF SaleInv, BidsInv, TypeInv, TypeOK, WellFormed
<1>3. row.status = "live" => Sale(t.lot, patched)
  <2> SUFFICES ASSUME row.status = "live" PROVE Sale(t.lot, patched)
    OBVIOUS
  <2>1. t.op = "withdraw" /\ t.set.status = "withdrawn"
    BY <1>2 DEF SaleInv, Unchanged, StaffOps
  <2>2. patched.status = "withdrawn"
    BY <1>2, <2>1 DEF Columns, LotRows
  <2> HIDE DEF patched
  <2> QED
    BY <2>2 DEF Sale
<1> HIDE DEF patched
<1>4. /\ lot'.row = lot.row
      /\ \A k \in Lots : /\ lot'.new[k] = IF k = t.lot THEN patched ELSE lot.new[k]
                         /\ lot'.lock[k] = IF k = t.lot THEN c ELSE lot.lock[k]
  BY <1>1, <1>2 DEF Written, Tables
<1>5. t.op \notin {"bid", "close"}
  BY <1>2 DEF StaffOps
<1> QED
  BY <1>1, <1>2, <1>3, <1>4, <1>5, SaleGoesOn DEF Steps

LEMMA WinningSale ==
  ASSUME SaleInv, NEW c \in Conns, ClearWinning(c) \/ FlagWinning(c) PROVE SaleInv'
<1>1. /\ tx[c].pc \in {"clear", "flag"} /\ lot' = lot /\ bid'.row = bid.row
      /\ BidsInv' /\ \E pc \in {"flag", "write"} : Goto(c, pc)
  BY ClearWinningBids, FlagWinningBids
  DEF SaleInv, BidsInv, TypeInv, TypeOK, Tables, ClearWinning, FlagWinning, Written
<1> QED
  BY <1>1, SaleGoesOn DEF Steps

LEMMA NextSale == SaleInv /\ OneMemberOfStaff /\ [Next]_vars => SaleInv'
<1> SUFFICES ASSUME SaleInv, OneMemberOfStaff, [Next]_vars PROVE SaleInv'
  OBVIOUS
<1>1. TypeInv /\ BidsInv'
  BY NextBids DEF SaleInv, BidsInv
<1>2. CASE UNCHANGED <<tables, tx>>
  BY <1>1, <1>2 DEF SaleInv, Unchanged, HasTop, Locked, Sale, BidsOn, tables
<1>3. ASSUME NEW c \in Conns, Step(c) PROVE SaleInv'
  BY <1>3, BeginSale, CommitSale, RollbackSale, LockLotSale, JudgeBidSale, JudgeCloseSale,
     WriteLotSale, WinningSale DEF Step, Abort
<1> QED
  BY <1>1, <1>2, <1>3, NextCases

LEMMA InitSale == Init => SaleInv
<1> SUFFICES ASSUME Init PROVE SaleInv
  OBVIOUS
<1>1. BidsInv /\ \A c \in Conns : tx[c].op = "none"
  BY InitBids, IdleFacts DEF Init
<1>2. /\ \A l \in Lots : lot.lock[l] = NoConn
      /\ \A b \in Bids : bid.row[b].lot = NoLot
  BY DEF Init, Filled, NotPlaced
<1>3. \A l \in Lots : BidsOn(l) = {}
  BY <1>2, AuctionConstants DEF BidsOn
<1> QED
  BY <1>1, <1>2, <1>3, NoConnIsNone DEF SaleInv, Unchanged, StaffOps, HasTop

\* What the COMMIT of whoever has a live lot locked makes of it.
LEMMA LiveLotCommitted ==
  ASSUME SaleInv, NEW c \in Conns, Commit(c), NEW l \in Lots, lot.row[l].status = "live"
  PROVE  lot'.row[l] = lot.row[l] \/ Sale(l, lot'.row[l])
<1>1. lot'.row[l] = IF lot.lock[l] = c THEN lot.new[l] ELSE lot.row[l]
  BY CommitFacts DEF SaleInv
<1> QED
  BY <1>1 DEF SaleInv, Locked

LEMMA LiveLot ==
  ASSUME SaleInv, [Next]_vars, NEW l \in Lots, lot.row[l].status = "live"
  PROVE  lot'.row[l] = lot.row[l] \/ Sale(l, lot'.row[l])
BY OnlyCommits, LiveLotCommitted DEF SaleInv

\* With one member of staff, whatever the number of bidders, sweeps, lots and bids: a close
\* sells to the highest bid that is in, and leaves the lot unsold only for the reserve.
THEOREM SoldToHighestHolds == ASSUME OneMemberOfStaff PROVE Spec => SoldToHighest
<1> DEFINE Sold ==
      \A l \in Lots :
        lot.row[l].status = "live" =>
          /\ lot'.row[l].status = "sold" =>
               /\ lot'.row[l].winning \in BidsOn(l)
               /\ \A b \in BidsOn(l) :
                    bid.row[b].amount <= bid.row[lot'.row[l].winning].amount
          /\ lot'.row[l].status \in {"sold", "ended"} =>
               (lot'.row[l].status = "ended"
                  <=> \A b \in BidsOn(l) : bid.row[b].amount < lot.row[l].reserve)
<1>1. SaleInv /\ [Next]_vars => Sold
  BY LiveLot DEF Sale
<1>2. SaleInv /\ [Next]_vars => SaleInv'
  BY NextSale
<1> QED
  BY InitSale, <1>1, <1>2, PTL DEF Spec, SoldToHighest

\* With one member of staff, the end that bidders were shown is never brought forward.
THEOREM EndOnlyExtendsHolds == ASSUME OneMemberOfStaff PROVE Spec => EndOnlyExtends
<1> DEFINE Extends ==
      \A l \in Lots :
        lot.row[l].status = "live" /\ lot'.row[l].status = "live" =>
          lot'.row[l].end >= lot.row[l].end
<1>1. SaleInv /\ [Next]_vars => Extends
  <2>1. SaleInv => \A l \in Lots : lot.row[l].end \in Nat
    BY DEF SaleInv, BidsInv, TypeInv, TypeOK, Tables, LotRows
  <2> QED
    BY <2>1, LiveLot DEF Sale
<1>2. SaleInv /\ [Next]_vars => SaleInv'
  BY NextSale
<1> QED
  BY InitSale, <1>1, <1>2, PTL DEF Spec, EndOnlyExtends
=============================================================================
