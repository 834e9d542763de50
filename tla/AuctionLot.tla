----------------------------- MODULE AuctionLot -----------------------------
(***************************************************************************)
(* The remarketing auctions of apps/api/src/modules/auction: lots that     *)
(* staff list, publish, withdraw, end and award, bids under the lot's row  *)
(* lock with the anti-snipe extension, and the sweep that closes what is   *)
(* due.                                                                    *)
(*                                                                         *)
(* A step is one statement, or the statements of a transaction that run    *)
(* while it holds the lot's lock.  Photos, notifications and a bidder's    *)
(* standing are left out.  Time is counted in anti-snipe windows.          *)
(***************************************************************************)
EXTENDS RowLocks, Integers

CONSTANTS
  Bidders, Staff, Sweepers,   \* who is served on which connection
  Lots, Bids,                 \* ids of the rows the requests insert
  Prices,                     \* starting bids, reserves and bids, in cents
  Hours,                      \* the times lots are published for
  LastBid,                    \* bound: the time of the last bid
  Extension,                  \* what a bid in the last window adds to it
  NoLot, NoBid

ASSUME AuctionConstants ==
  /\ Bidders \cup Staff \cup Sweepers = Conns
  /\ NoLot \notin Lots /\ NoBid \notin Bids
  /\ Prices \subseteq Nat /\ Hours \subseteq Nat
  /\ LastBid \in Nat /\ Extension \in Nat \ {0, 1}

VARIABLES
  lot, bid,   \* the tables
  clock,
  due,        \* per sweeper: the lots its tick has still to close
  tx          \* per connection: the request and how far it is

tables == <<lot, bid>>
vars == <<tables, clock, due, tx>>

-----------------------------------------------------------------------------
\* 'draft' and on: auction-listings.ts; 'none' is no row yet.
LotStatuses == {"draft", "live", "ended", "sold", "withdrawn"}

\* A reserve of 0 is none: any bid wins.
LotRows == [status : LotStatuses \cup {"none"}, start : Nat, end : Nat,
            startingBid : Nat, reserve : Nat, winning : Bids \cup {NoBid}]
NotListed == [status |-> "none", start |-> 0, end |-> 0, startingBid |-> 0,
              reserve |-> 0, winning |-> NoBid]

BidRows == [lot : Lots \cup {NoLot}, amount : Nat, placedAt : Nat, isWinning : BOOLEAN]
NotPlaced == [lot |-> NoLot, amount |-> 0, placedAt |-> 0, isWinning |-> FALSE]

Ops == {"none", "bid", "close", "create", "update", "publish", "withdraw", "award"}
Steps == {"idle", "lock", "judge", "clear", "flag", "write", "commit"}

\* set holds what a staff request writes, in the columns its UPDATE names.
Columns ==
  [create   |-> DOMAIN NotListed,
   update   |-> {"startingBid", "reserve"},
   publish  |-> {"status", "start", "end"},
   withdraw |-> {"status"},
   award    |-> {"status", "winning"}]

Requests == [op : Ops, pc : Steps, lot : Lots \cup {NoLot}, bid : Bids \cup {NoBid},
             amount : Nat, now : Nat, set : LotRows]
Idle == [op |-> "none", pc |-> "idle", lot |-> NoLot, bid |-> NoBid, amount |-> 0,
         now |-> 0, set |-> NotListed]

TypeOK ==
  /\ lot \in Tables(Lots, LotRows) /\ bid \in Tables(Bids, BidRows)
  /\ clock \in Nat /\ due \in [Sweepers -> SUBSET Lots] /\ tx \in [Conns -> Requests]

Init ==
  /\ lot = Filled(Lots, NotListed) /\ bid = Filled(Bids, NotPlaced)
  /\ clock = 0 /\ due = [c \in Sweepers |-> {}] /\ tx = [c \in Conns |-> Idle]

-----------------------------------------------------------------------------
\* auction-bid.logic.ts.
BidsOn(l) == {b \in Bids : bid.row[b].lot = l}

validateBid(row, l, amount, now) ==
  /\ row.status = "live" /\ row.start <= now /\ now <= row.end
  /\ amount >= row.startingBid /\ \A b \in BidsOn(l) : amount > bid.row[b].amount

\* Mutant: every bid in time moves the end.
extendAlways(end, now) == IF end >= now THEN now + Extension ELSE end

computeAntiSnipeExtension(end, now) ==
  IF end - now \in {0, 1} THEN now + Extension ELSE end

\* The highest bid that meets the reserve, if any; of equal bids the earliest.
Beats(a, b) ==
  \/ bid.row[a].amount > bid.row[b].amount
  \/ bid.row[a].amount = bid.row[b].amount /\ bid.row[a].placedAt <= bid.row[b].placedAt

TopBids(l) == {b \in BidsOn(l) : \A a \in BidsOn(l) : Beats(b, a)}

\* Mutant: the reserve is not looked at.
WinnersUnreserved(l, reserve) == TopBids(l)

evaluateClose(l, reserve) == {b \in TopBids(l) : bid.row[b].amount >= reserve}

-----------------------------------------------------------------------------
\* Transactions.
Serving(c, op, pc) == tx[c].op = op /\ tx[c].pc = pc
Goto(c, pc) == tx' = [tx EXCEPT ![c].pc = pc]

Begin(c, request) ==
  /\ tx[c].pc = "idle"
  /\ tx' = [tx EXCEPT ![c] = request]
  /\ UNCHANGED <<tables, clock, due>>

\* The sweep goes on to its next lot, whatever became of this one.
Swept(c) == IF c \in Sweepers THEN [due EXCEPT ![c] = @ \ {tx[c].lot}] ELSE due

Commit(c) ==
  /\ tx[c].pc = "commit"
  /\ lot' = Committed(lot, c) /\ bid' = Committed(bid, c)
  /\ tx' = [tx EXCEPT ![c] = Idle] /\ due' = Swept(c) /\ UNCHANGED clock

\* The service throws, a statement or the COMMIT fails, or the process stops.
Rollback(c) ==
  /\ lot' = RolledBack(lot, c) /\ bid' = RolledBack(bid, c)
  /\ tx' = [tx EXCEPT ![c] = Idle] /\ due' = Swept(c) /\ UNCHANGED clock

\* A request cut off while it waits for the lot is one cut off as it gets it.
Abort(c) == tx[c].pc \notin {"idle", "lock"} /\ Rollback(c)

\* SELECT ... FOR UPDATE.
\* Mutant: a plain SELECT.
LockLotUnlocked(c) ==
  /\ tx[c].pc = "lock" /\ Goto(c, "judge") /\ UNCHANGED <<tables, clock, due>>

LockLot(c) ==
  LET l == tx[c].lot IN
  /\ tx[c].pc = "lock" /\ Free(lot, c, l)
  /\ lot' = Written(lot, c, l, lot.row[l])
  /\ Goto(c, "judge") /\ UNCHANGED <<bid, clock, due>>

-----------------------------------------------------------------------------
\* placeBid: the time is taken before the transaction begins.
NewBid(b) == bid.row[b] = NotPlaced /\ \A c \in Conns : tx[c].bid # b

placeBid(c, l, b, amount) ==
  /\ clock <= LastBid /\ NewBid(b) /\ lot.row[l].status # "none"
  /\ Begin(c, [Idle EXCEPT !.op = "bid", !.pc = "lock", !.lot = l, !.bid = b,
                 !.amount = amount, !.now = clock])

JudgeBid(c) ==
  LET t == tx[c]
      row == lot.row[t.lot]
      placed == [lot |-> t.lot, amount |-> t.amount, placedAt |-> t.now, isWinning |-> FALSE]
  IN
  /\ Serving(c, "bid", "judge")
  /\ \/ /\ validateBid(row, t.lot, t.amount, t.now)
        /\ bid' = Written(bid, c, t.bid, placed)
        /\ lot' = Written(lot, c, t.lot,
                          [row EXCEPT !.end = computeAntiSnipeExtension(@, t.now)])
        /\ Goto(c, "commit") /\ UNCHANGED <<clock, due>>
     \/ ~validateBid(row, t.lot, t.amount, t.now) /\ Rollback(c)

-----------------------------------------------------------------------------
\* closeLiveListing, for staff and for the sweep.
endListing(c, l) ==
  /\ lot.row[l].status # "none"
  /\ Begin(c, [Idle EXCEPT !.op = "close", !.pc = "lock", !.lot = l])

JudgeClose(c) ==
  LET l == tx[c].lot
      row == lot.row[l]
      winners == evaluateClose(l, row.reserve)
  IN
  /\ Serving(c, "close", "judge")
  /\ \/ row.status # "live" /\ Rollback(c)
     \/ /\ row.status = "live" /\ winners = {}
        /\ lot' = Written(lot, c, l, [row EXCEPT !.status = "ended", !.winning = NoBid])
        /\ Goto(c, "commit") /\ UNCHANGED <<bid, clock, due>>
     \/ /\ row.status = "live"
        /\ \E b \in winners :
             /\ Free(bid, c, b)
             /\ lot' = Written(lot, c, l, [row EXCEPT !.status = "sold", !.winning = b])
             /\ bid' = Written(bid, c, b, [bid.row[b] EXCEPT !.isWinning = TRUE])
        /\ Goto(c, "commit") /\ UNCHANGED <<clock, due>>

\* The tick lists what is due, then closes one lot after the other.
\* Mutant: lots nobody bid on are not found.
DueWithBids(l) == lot.row[l].status = "live" /\ lot.row[l].end <= clock /\ BidsOn(l) # {}

Due(l) == lot.row[l].status = "live" /\ lot.row[l].end <= clock

tick(c) ==
  /\ tx[c].pc = "idle" /\ due[c] = {} /\ \E l \in Lots : Due(l)
  /\ due' = [due EXCEPT ![c] = {l \in Lots : Due(l)}]
  /\ UNCHANGED <<tables, clock, tx>>

CloseDue(c, l) ==
  /\ l \in due[c]
  /\ Begin(c, [Idle EXCEPT !.op = "close", !.pc = "lock", !.lot = l])

-----------------------------------------------------------------------------
\* Staff requests: a plain SELECT of the lot and its checks, then UPDATE WHERE id of the
\* columns the request sets.  Two that overlap overwrite each other; the properties
\* below are about one member of staff at a time.
Edit(c, op, l, row) ==
  Begin(c, [Idle EXCEPT !.op = op, !.pc = "write", !.lot = l, !.set = row])

NewLot(l) == lot.row[l] = NotListed /\ \A c \in Conns : tx[c].lot # l

createListing(c, l, startingBid, reserve) ==
  /\ NewLot(l) /\ (reserve = 0 \/ reserve >= startingBid)
  /\ Edit(c, "create", l, [NotListed EXCEPT !.status = "draft", !.startingBid = startingBid,
                             !.reserve = reserve])

\* A request that names no reserve (0) keeps the old one.
updateListing(c, l, startingBid, reserve) ==
  LET effectiveReserve == IF reserve = 0 THEN lot.row[l].reserve ELSE reserve IN
  /\ lot.row[l].status = "draft"
  /\ effectiveReserve = 0 \/ effectiveReserve >= startingBid
  /\ Edit(c, "update", l, [NotListed EXCEPT !.startingBid = startingBid,
                             !.reserve = effectiveReserve])

publishListing(c, l, start, end) ==
  /\ lot.row[l].status = "draft" /\ end > start
  /\ Edit(c, "publish", l, [NotListed EXCEPT !.status = "live", !.start = start, !.end = end])

withdrawListing(c, l) ==
  /\ lot.row[l].status \in {"draft", "live"}
  /\ Edit(c, "withdraw", l, [NotListed EXCEPT !.status = "withdrawn"])

WriteLot(c) ==
  LET t == tx[c]
      patched(row) == [f \in DOMAIN row |-> IF f \in Columns[t.op] THEN t.set[f] ELSE row[f]]
  IN
  /\ tx[c].pc = "write" /\ Free(lot, c, t.lot)
  /\ lot' = Written(lot, c, t.lot, patched(lot.row[t.lot]))
  /\ Goto(c, "commit") /\ UNCHANGED <<bid, clock, due>>

\* awardWinner: an ended lot goes to a bid of the staff's choice.
awardWinner(c, l, b) ==
  /\ lot.row[l].status = "ended" /\ b \in BidsOn(l)
  /\ Begin(c, [Idle EXCEPT !.op = "award", !.pc = "clear", !.lot = l, !.bid = b,
                 !.set = [NotListed EXCEPT !.status = "sold", !.winning = b]])

ClearWinning(c) ==
  LET flagged == {b \in BidsOn(tx[c].lot) : bid.row[b].isWinning} IN
  /\ tx[c].pc = "clear" /\ \A b \in flagged : Free(bid, c, b)
  /\ bid' = [bid EXCEPT
       !.new  = [b \in Bids |-> IF b \in flagged THEN [bid.row[b] EXCEPT !.isWinning = FALSE]
                                                 ELSE @[b]],
       !.lock = [b \in Bids |-> IF b \in flagged THEN c ELSE @[b]]]
  /\ Goto(c, "flag") /\ UNCHANGED <<lot, clock, due>>

FlagWinning(c) ==
  LET b == tx[c].bid IN
  /\ tx[c].pc = "flag" /\ Free(bid, c, b)
  /\ bid' = Written(bid, c, b, [Seen(bid, c, b) EXCEPT !.isWinning = TRUE])
  /\ Goto(c, "write") /\ UNCHANGED <<lot, clock, due>>

-----------------------------------------------------------------------------
\* Time passes until every lot is due (Horizon); no bid comes in after LastBid.
Horizon == LastBid + Extension

TimePasses == clock < Horizon /\ clock' = clock + 1 /\ UNCHANGED <<tables, due, tx>>

Bidding(c) == \E l \in Lots, b \in Bids, a \in Prices : placeBid(c, l, b, a)

StaffRequest(c) ==
  \E l \in Lots :
    \/ \E p \in Prices, r \in Prices \cup {0} :
         createListing(c, l, p, r) \/ updateListing(c, l, p, r)
    \/ \E start, end \in Hours : publishListing(c, l, start, end)
    \/ withdrawListing(c, l) \/ endListing(c, l)
    \/ \E b \in Bids : awardWinner(c, l, b)

Sweep(c) == tick(c) \/ \E l \in Lots : CloseDue(c, l)

Statement(c) ==
  \/ LockLot(c) \/ JudgeBid(c) \/ JudgeClose(c)
  \/ WriteLot(c) \/ ClearWinning(c) \/ FlagWinning(c) \/ Commit(c)

Next ==
  \/ \E c \in Bidders : Bidding(c)
  \/ \E c \in Staff : StaffRequest(c)
  \/ \E c \in Sweepers : Sweep(c)
  \/ \E c \in Conns : Statement(c) \/ Abort(c)
  \/ TimePasses

Spec == Init /\ [][Next]_vars

\* Time passes, the cron job comes round, transactions end; the sweep gets its turn at the
\* lock, and its transactions do not fail every time.
Fairness ==
  /\ WF_vars(TimePasses)
  /\ \A c \in Conns : WF_vars(Statement(c))
  /\ \A c \in Sweepers :
       WF_vars(Sweep(c)) /\ SF_vars(LockLot(c)) /\ SF_vars(JudgeClose(c)) /\ SF_vars(Commit(c))

FairSpec == Spec /\ Fairness

-----------------------------------------------------------------------------
(***************************************************************************)
(* Properties of the committed tables.                                     *)
(***************************************************************************)
\* Two bidders racing at the top cannot both win: in the order in which they commit, the
\* bids on a lot strictly increase, and none comes in unless the lot is live.
BidsIncrease ==
  [][\A b \in Bids :
       bid.row[b].lot = NoLot /\ bid'.row[b].lot # NoLot =>
         /\ lot.row[bid'.row[b].lot].status = "live"
         /\ \A a \in BidsOn(bid'.row[b].lot) : bid'.row[b].amount > bid.row[a].amount]_vars

\* A close, by staff or by the sweep, sells to the highest bid committed by then, and
\* leaves the lot unsold only if no bid meets the reserve.
SoldToHighest ==
  [][\A l \in Lots :
       lot.row[l].status = "live" =>
         /\ lot'.row[l].status = "sold" =>
              /\ lot'.row[l].winning \in BidsOn(l)
              /\ \A b \in BidsOn(l) :
                   bid.row[b].amount <= bid.row[lot'.row[l].winning].amount
         /\ lot'.row[l].status \in {"sold", "ended"} =>
              (lot'.row[l].status = "ended"
                 <=> \A b \in BidsOn(l) : bid.row[b].amount < lot.row[l].reserve)]_vars

\* The end that bidders were shown is never brought forward: bids only extend a live
\* lot, even those that took their time before others they waited for.
EndOnlyExtends ==
  [][\A l \in Lots :
       lot.row[l].status = "live" /\ lot'.row[l].status = "live" =>
         lot'.row[l].end >= lot.row[l].end]_vars

\* No lot stays live for ever: extensions come to an end, and the sweep closes what is due
\* although its transactions may fail and bids come in between.
EveryLotCloses == \A l \in Lots : lot.row[l].status = "live" ~> lot.row[l].status # "live"
=============================================================================
