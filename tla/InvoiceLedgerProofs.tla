------------------------- MODULE InvoiceLedgerProofs ------------------------
(***************************************************************************)
(* For any number of connections: types, and invoice numbers are unique.   *)
(* For one connection: the totals are the sums of the items, paid means    *)
(* settled, numbers have no gaps, what is issued is frozen.                *)
(*                                                                         *)
(* Numbers: a connection with a number in flight holds the row of the      *)
(* sequence, and its number is one more than any committed one.  What an   *)
(* uncommitted invoice row may carry is nothing, the committed number, or  *)
(* the number its issuer has in flight.                                    *)
(***************************************************************************)
EXTENDS InvoiceLedger, FiniteSetTheorems, WellFoundedInduction, TLAPS

\* The shape of the rows, as far as numbers go: the sums of money in them, and what
\* requests say of lines and payments, are left untyped.
InvoiceRow(r) ==
  r \in [status : {r.status}, job : {r.job}, total : {r.total}, paid : {r.paid},
         number : Nat]

RequestRow(r) ==
  r \in [op : {r.op}, pc : {r.pc}, inv : {r.inv}, job : {r.job}, item : {r.item},
         amount : {r.amount}, as : {r.as}, was : {r.was}, total : {r.total},
         paid : {r.paid}, to : {r.to}, number : Nat]

InvShape ==
  /\ inv \in [row : {inv.row}, new : {inv.new}, lock : [Invoices -> Conns \cup {NoConn}]]
  /\ inv.row = [i \in Invoices |-> inv.row[i]] /\ inv.new = [i \in Invoices |-> inv.new[i]]
  /\ \A i \in Invoices : InvoiceRow(inv.row[i]) /\ InvoiceRow(inv.new[i])

SeqShape == seq \in Tables(Sequences, Nat)

TxShape == tx = [c \in Conns |-> tx[c]] /\ \A c \in Conns : RequestRow(tx[c])

Shape == InvShape /\ SeqShape /\ TxShape

\* A connection that has allocated a number and not committed yet.
HasNumber(c) == tx[c].op = "issue" /\ tx[c].pc \in {"status", "commit"}

IssueSteps ==
  \A c \in Conns : tx[c].op = "issue" => tx[c].pc \in {"number", "status", "commit"}

NumberInFlight ==
  /\ \A c \in Conns : HasNumber(c) =>
       seq.lock["INV"] = c /\ tx[c].number = seq.row["INV"] + 1
  /\ seq.lock["INV"] # NoConn => seq.new["INV"] = seq.row["INV"] + 1

Uncommitted ==
  \A i \in Invoices : \A c \in Conns : inv.lock[i] = c =>
    \/ inv.new[i].number \in {0, inv.row[i].number}
    \/ /\ tx[c].op = "issue" /\ tx[c].pc = "commit" /\ tx[c].inv = i
       /\ inv.new[i].number = tx[c].number

Issued == \A i \in Invoices : inv.row[i].number <= seq.row["INV"]

IInv == Shape /\ IssueSteps /\ NumberInFlight /\ Uncommitted /\ Issued /\ NumbersUnique

-----------------------------------------------------------------------------
\* The invoice numbers of the initial state are placeholders.
LEMMA InitIInv == Init => IInv
<1> SUFFICES ASSUME Init PROVE IInv
  OBVIOUS
<1>1. InvShape
  BY DEF Init, InvShape, InvoiceRow, Filled, NotInserted
<1>2. SeqShape
  BY DEF Init, SeqShape, Filled, Tables
<1>3. TxShape
  BY DEF Init, TxShape, RequestRow, Idle
<1>4. IssueSteps /\ NumberInFlight
  BY NoConnIsNone DEF Init, IssueSteps, NumberInFlight, HasNumber, Idle, Filled, Sequences
<1>5. Uncommitted
  BY NoConnIsNone DEF Init, Uncommitted, Filled, NotInserted
<1>6. Issued /\ NumbersUnique
  BY DEF Init, Issued, NumbersUnique, Filled, NotInserted, Sequences
<1> QED
  BY <1>1, <1>2, <1>3, <1>4, <1>5, <1>6 DEF IInv, Shape

\* A statement that writes no invoice and takes no invoice number.
LEMMA QuietStep ==
  ASSUME IInv, NEW c \in Conns, NEW q, RequestRow(q), tx' = [tx EXCEPT ![c] = q],
         tx[c].pc # "commit", q.op = "issue" => q.pc = "number",
         UNCHANGED inv, SeqShape',
         seq'.row["INV"] = seq.row["INV"], seq'.new["INV"] = seq.new["INV"],
         seq'.lock["INV"] = seq.lock["INV"]
  PROVE  IInv'
<1> USE DEF IInv, Shape
<1>1. InvShape'
  BY DEF InvShape
<1>2. TxShape' /\ \A d \in Conns : tx'[d] = IF d = c THEN q ELSE tx[d]
  BY DEF TxShape
<1>3. IssueSteps' /\ NumberInFlight'
  BY <1>2 DEF IssueSteps, NumberInFlight, HasNumber
<1>4. Uncommitted'
  BY <1>2 DEF Uncommitted
<1>5. Issued' /\ NumbersUnique'
  BY DEF Issued, NumbersUnique
<1> QED
  BY <1>1, <1>2, <1>3, <1>4, <1>5

\* What Written does to the invoices, whether the row exists or not.
LEMMA WrittenInvoice ==
  ASSUME InvShape, NEW c \in Conns, NEW i, NEW r, i \in Invoices => InvoiceRow(r),
         inv' = Written(inv, c, i, r)
  PROVE  /\ InvShape' /\ inv'.row = inv.row
         /\ \A k \in Invoices :
              /\ inv'.new[k] = IF k = i THEN r ELSE inv.new[k]
              /\ inv'.lock[k] = IF k = i THEN c ELSE inv.lock[k]
<1>1. /\ inv'.row = inv.row
      /\ inv'.new = [inv.new EXCEPT ![i] = r]
      /\ inv'.lock = [inv.lock EXCEPT ![i] = c]
      /\ inv' \in [row : {inv'.row}, new : {inv'.new}, lock : {inv'.lock}]
  BY DEF InvShape, Written
<1>2. inv'.lock \in [Invoices -> Conns \cup {NoConn}]
  BY <1>1 DEF InvShape
<1>3. inv'.new = [k \in Invoices |-> inv'.new[k]]
  BY <1>1 DEF InvShape
<1>4. \A k \in Invoices :
        /\ inv'.new[k] = IF k = i THEN r ELSE inv.new[k]
        /\ inv'.lock[k] = IF k = i THEN c ELSE inv.lock[k]
  BY <1>1 DEF InvShape
<1>5. \A k \in Invoices : InvoiceRow(inv'.row[k]) /\ InvoiceRow(inv'.new[k])
  BY <1>1, <1>4 DEF InvShape
<1> QED
  BY <1>1, <1>2, <1>3, <1>4, <1>5 DEF InvShape

\* A statement that writes an invoice row: its number is a placeholder, the committed
\* one, or the one in flight.
LEMMA WriteStep ==
  ASSUME IInv, NEW c \in Conns, NEW q, RequestRow(q), tx' = [tx EXCEPT ![c] = q],
         tx[c].pc # "commit",
         q.op = "issue" => /\ HasNumber(c) /\ q.number = tx[c].number
                           /\ q.pc = "commit",
         NEW i, NEW r, i \in Invoices => InvoiceRow(r),
         inv' = Written(inv, c, i, r), UNCHANGED seq,
         i \in Invoices =>
           \/ r.number \in {0, inv.row[i].number}
           \/ /\ q.op = "issue" /\ q.inv = i
              /\ r.number = q.number
  PROVE  IInv'
<1> USE DEF IInv, Shape
<1>1. /\ InvShape' /\ inv'.row = inv.row
      /\ \A k \in Invoices :
           /\ inv'.new[k] = IF k = i THEN r ELSE inv.new[k]
           /\ inv'.lock[k] = IF k = i THEN c ELSE inv.lock[k]
  BY WrittenInvoice
<1>2. TxShape' /\ \A d \in Conns : tx'[d] = IF d = c THEN q ELSE tx[d]
  BY DEF TxShape
<1>3. SeqShape'
  BY DEF SeqShape
<1>4. IssueSteps' /\ NumberInFlight'
  BY <1>2 DEF IssueSteps, NumberInFlight, HasNumber
<1>5. Uncommitted'
  BY <1>1, <1>2 DEF Uncommitted
<1>6. Issued' /\ NumbersUnique'
  BY <1>1 DEF Issued, NumbersUnique
<1> QED
  BY <1>1, <1>2, <1>3, <1>4, <1>5, <1>6

\* The upsert on the sequence: nobody else has a number in flight.
LEMMA AllocateStep ==
  ASSUME IInv, NEW c \in Conns, allocateInvoiceNumber(c)
  PROVE  IInv'
<1> USE DEF IInv, Shape
<1> DEFINE q == [tx[c] EXCEPT !.number = seq.row["INV"] + 1, !.pc = "status"]
<1>1. tx' = [tx EXCEPT ![c] = q] /\ UNCHANGED inv /\ tx[c].pc = "number"
  BY DEF allocateInvoiceNumber, Serving, TxShape, RequestRow
<1>2. /\ seq.lock["INV"] \in {NoConn, c} /\ seq.row["INV"] \in Nat
      /\ SeqShape' /\ seq'.row = seq.row
      /\ seq'.new["INV"] = seq.row["INV"] + 1 /\ seq'.lock["INV"] = c
  <2>1. /\ seq \in Tables(Sequences, Nat) /\ "INV" \in Sequences
        /\ seq.row \in [Sequences -> Nat] /\ seq.row["INV"] + 1 \in Nat
    BY DEF SeqShape, Tables, Sequences
  <2>2. /\ seq' = Written(seq, c, "INV", seq.row["INV"] + 1)
        /\ seq.lock["INV"] \in {NoConn, c}
    BY DEF allocateInvoiceNumber, NextNumber, Free
  <2>3. /\ seq'.row = seq.row
        /\ seq'.new = [seq.new EXCEPT !["INV"] = seq.row["INV"] + 1]
        /\ seq'.lock = [seq.lock EXCEPT !["INV"] = c]
        /\ seq' \in [row : {seq'.row}, new : {seq'.new}, lock : {seq'.lock}]
    BY <2>1, <2>2 DEF Written, Tables
  <2>4. seq'.new \in [Sequences -> Nat] /\ seq'.lock \in [Sequences -> Conns \cup {NoConn}]
    BY <2>1, <2>3 DEF Tables
  <2> QED
    BY <2>1, <2>2, <2>3, <2>4 DEF SeqShape, Tables
<1>3. RequestRow(q) /\ q.pc = "status" /\ q.number = seq.row["INV"] + 1
  <2> DEFINE n == seq.row["INV"] + 1
  <2>1. RequestRow(tx[c]) /\ n \in Nat
    BY <1>2 DEF TxShape
  <2>2. ASSUME NEW m \in Nat, NEW t, RequestRow(t), NEW u, u = [t EXCEPT !.number = m, !.pc = "status"]
        PROVE  RequestRow(u) /\ u.pc = "status" /\ u.number = m
    BY <2>2 DEF RequestRow
  <2> HIDE DEF n
  <2>3. q = [tx[c] EXCEPT !.number = n, !.pc = "status"]
    BY DEF n
  <2>4. RequestRow(q) /\ q.pc = "status" /\ q.number = n
    BY <2>1, <2>2, <2>3
  <2> QED
    BY <2>4 DEF n
<1>4. TxShape' /\ \A d \in Conns : tx'[d] = IF d = c THEN q ELSE tx[d]
  <2>1. \A d \in Conns : tx'[d] = IF d = c THEN q ELSE tx[d]
    BY <1>1 DEF TxShape
  <2>2. tx' = [d \in Conns |-> tx'[d]]
    BY <1>1 DEF TxShape
  <2> QED
    BY <2>1, <2>2, <1>3 DEF TxShape
<1>5. InvShape'
  BY <1>1 DEF InvShape
<1>6. \A d \in Conns : HasNumber(d) => d = c
  BY <1>2, NoConnIsNone DEF NumberInFlight
<1>7. \A d \in Conns : d # c => ~HasNumber(d)'
  BY <1>4, <1>6 DEF HasNumber
<1>8. IssueSteps' /\ NumberInFlight'
  <2>1. IssueSteps'
    BY <1>3, <1>4 DEF IssueSteps
  <2>2. NumberInFlight'
    BY <1>2, <1>3, <1>4, <1>7 DEF NumberInFlight
  <2> QED
    BY <2>1, <2>2
<1>9. Uncommitted'
  BY <1>1, <1>4 DEF Uncommitted
<1>10. Issued' /\ NumbersUnique'
  BY <1>1, <1>2 DEF Issued, NumbersUnique
<1> QED
  BY <1>2, <1>4, <1>5, <1>8, <1>9, <1>10

\* COMMIT: what the connection wrote becomes visible, the sequence together with the
\* number taken from it.
LEMMA CommitStep ==
  ASSUME IInv, NEW c \in Conns, Commit(c)
  PROVE  IInv'
<1> USE DEF IInv, Shape
<1>1. tx' = [tx EXCEPT ![c] = Idle] /\ RequestRow(Idle)
  BY DEF Commit, End, RequestRow, Idle
<1>2. TxShape' /\ \A d \in Conns : tx'[d] = IF d = c THEN Idle ELSE tx[d]
  BY <1>1 DEF TxShape
<1>3. \A d \in Conns : HasNumber(d)' => d # c /\ HasNumber(d) /\ tx'[d] = tx[d]
  BY <1>2 DEF HasNumber, Idle
<1>4. /\ SeqShape' /\ seq'.new = seq.new
      /\ seq'.row["INV"] = IF seq.lock["INV"] = c THEN seq.new["INV"] ELSE seq.row["INV"]
      /\ seq'.lock["INV"] = IF seq.lock["INV"] = c THEN NoConn ELSE seq.lock["INV"]
      /\ seq.row["INV"] \in Nat /\ seq.new["INV"] \in Nat
  BY DEF Commit, Committed, Released, SeqShape, Tables, Sequences
<1>5. /\ inv'.new = inv.new
      /\ inv'.row = [i \in Invoices |-> IF inv.lock[i] = c THEN inv.new[i] ELSE inv.row[i]]
      /\ inv'.lock = [i \in Invoices |-> IF inv.lock[i] = c THEN NoConn ELSE inv.lock[i]]
      /\ inv' \in [row : {inv'.row}, new : {inv'.new}, lock : {inv'.lock}]
  <2>1. DOMAIN inv.row = Invoices /\ DOMAIN inv.lock = Invoices
    BY DEF InvShape
  <2> QED
    BY <2>1 DEF Commit, Committed, Released
<1>6. InvShape'
  BY <1>5 DEF InvShape
<1>7. IssueSteps' /\ NumberInFlight'
  BY <1>2, <1>3, <1>4, NoConnIsNone DEF IssueSteps, NumberInFlight, Idle
<1>8. Uncommitted'
  BY <1>2, <1>5, NoConnIsNone DEF Uncommitted
<1>9. \A i \in Invoices : inv.row[i].number \in Nat /\ inv.new[i].number \in Nat
  BY DEF InvShape, InvoiceRow
<1>10. \A i \in Invoices :
         \/ inv'.row[i].number \in {0, inv.row[i].number}
         \/ /\ tx[c].inv = i /\ HasNumber(c)
            /\ inv'.row[i].number = seq.row["INV"] + 1
  BY <1>5 DEF Uncommitted, NumberInFlight, HasNumber
<1>11. HasNumber(c) => seq'.row["INV"] = seq.row["INV"] + 1
  BY <1>4, NoConnIsNone DEF NumberInFlight
<1>12. seq'.row["INV"] >= seq.row["INV"]
  BY <1>4, NoConnIsNone DEF NumberInFlight
<1>13. Issued'
  BY <1>4, <1>9, <1>10, <1>11, <1>12 DEF Issued
<1>14. NumbersUnique'
  BY <1>4, <1>9, <1>10 DEF Issued, NumbersUnique
<1> QED
  BY <1>2, <1>4, <1>6, <1>7, <1>8, <1>13, <1>14

\* ROLLBACK: the sequence keeps its committed value.
LEMMA AbortStep ==
  ASSUME IInv, NEW c \in Conns, Abort(c)
  PROVE  IInv'
<1> USE DEF IInv, Shape
<1>1. tx' = [tx EXCEPT ![c] = Idle] /\ RequestRow(Idle)
  BY DEF Abort, End, RequestRow, Idle
<1>2. TxShape' /\ \A d \in Conns : tx'[d] = IF d = c THEN Idle ELSE tx[d]
  BY <1>1 DEF TxShape
<1>3. \A d \in Conns : HasNumber(d)' => d # c /\ HasNumber(d) /\ tx'[d] = tx[d]
  BY <1>2 DEF HasNumber, Idle
<1>4. /\ SeqShape' /\ seq'.row = seq.row
      /\ seq'.new["INV"] = IF seq.lock["INV"] = c THEN seq.row["INV"] ELSE seq.new["INV"]
      /\ seq'.lock["INV"] = IF seq.lock["INV"] = c THEN NoConn ELSE seq.lock["INV"]
  BY DEF Abort, RolledBack, Released, SeqShape, Tables, Sequences
<1>5. /\ inv'.row = inv.row
      /\ inv'.new = [i \in Invoices |-> IF inv.lock[i] = c THEN inv.row[i] ELSE inv.new[i]]
      /\ inv'.lock = [i \in Invoices |-> IF inv.lock[i] = c THEN NoConn ELSE inv.lock[i]]
      /\ inv' \in [row : {inv'.row}, new : {inv'.new}, lock : {inv'.lock}]
  <2>1. DOMAIN inv.new = Invoices /\ DOMAIN inv.lock = Invoices
    BY DEF InvShape
  <2> QED
    BY <2>1 DEF Abort, RolledBack, Released
<1>6. InvShape'
  BY <1>5 DEF InvShape
<1>7. IssueSteps' /\ NumberInFlight'
  BY <1>2, <1>3, <1>4, NoConnIsNone DEF IssueSteps, NumberInFlight, Idle
<1>8. Uncommitted'
  BY <1>2, <1>5, NoConnIsNone DEF Uncommitted
<1>9. Issued' /\ NumbersUnique'
  BY <1>4, <1>5 DEF Issued, NumbersUnique
<1> QED
  BY <1>2, <1>4, <1>6, <1>7, <1>8, <1>9

\* The sweep leaves numbers and locks alone.
LEMMA SweepStep ==
  ASSUME IInv, markOverdueSweep
  PROVE  IInv'
<1> USE DEF IInv, Shape
<1> DEFINE swept(r, i) == IF i \in Sweepable THEN [r EXCEPT !.status = "overdue"] ELSE r
<1>1. /\ inv'.row = [i \in Invoices |-> swept(inv.row[i], i)]
      /\ inv'.new = [i \in Invoices |-> swept(inv.new[i], i)]
      /\ inv'.lock = inv.lock
      /\ inv' \in [row : {inv'.row}, new : {inv'.new}, lock : {inv'.lock}]
      /\ UNCHANGED <<seq, tx>>
  BY DEF markOverdueSweep, InvShape
<1>2. \A i \in Invoices :
        /\ InvoiceRow(inv'.row[i]) /\ inv'.row[i].number = inv.row[i].number
        /\ InvoiceRow(inv'.new[i]) /\ inv'.new[i].number = inv.new[i].number
  BY <1>1 DEF InvShape, InvoiceRow
<1>3. InvShape'
  BY <1>1, <1>2 DEF InvShape
<1>4. SeqShape' /\ TxShape' /\ IssueSteps' /\ NumberInFlight'
  BY <1>1 DEF SeqShape, TxShape, IssueSteps, NumberInFlight, HasNumber
<1>5. Uncommitted'
  BY <1>1, <1>2 DEF Uncommitted
<1>6. Issued' /\ NumbersUnique'
  BY <1>1, <1>2 DEF Issued, NumbersUnique
<1> QED
  BY <1>3, <1>4, <1>5, <1>6

\* What a request starts as.
LEMMA BeginStep ==
  ASSUME IInv, NEW c \in Conns, NEW q, RequestRow(q), Begin(c, q),
         q.op = "issue" => q.pc = "number"
  PROVE  IInv'
<1>1. tx' = [tx EXCEPT ![c] = q] /\ tx[c].pc = "idle" /\ UNCHANGED <<inv, seq>>
  BY DEF Begin, Serving, tables
<1>2. SeqShape'
  BY <1>1 DEF IInv, Shape, SeqShape
<1> QED
  BY <1>1, <1>2, QuietStep

LEMMA RequestStep ==
  ASSUME IInv, NEW c \in Conns, Request(c)
  PROVE  IInv'
<1> USE BeginStep DEF Idle, RequestRow
<1>1. ASSUME NEW i \in Invoices, createManual(c, i) PROVE IInv'
  BY <1>1 DEF createManual
<1>2. ASSUME NEW i \in Invoices, markSent(c, i) PROVE IInv'
  BY <1>2 DEF markSent
<1>3. ASSUME NEW i \in Invoices, voidInvoice(c, i) PROVE IInv'
  BY <1>3 DEF voidInvoice
<1>4. ASSUME NEW i \in Invoices, NEW status \in {"issued", "sent"}, issue(c, i, status)
      PROVE  IInv'
  BY <1>4 DEF issue
<1>5. ASSUME NEW i \in Invoices, NEW l \in Lines, NEW a \in Amounts, addLineItem(c, i, l, a)
      PROVE  IInv'
  BY <1>5 DEF addLineItem
<1>6. ASSUME NEW i \in Invoices, NEW l \in Lines, NEW a \in Amounts, NEW j \in Jobs,
             generateFromJob(c, j, i, l, a)
      PROVE  IInv'
  BY <1>6 DEF generateFromJob
<1>7. ASSUME NEW l \in Lines, NEW a \in Amounts \cup {0}, updateLineItem(c, l, a)
      PROVE  IInv'
  BY <1>7 DEF updateLineItem
<1>8. ASSUME NEW i \in Invoices, NEW p \in Payments, NEW a \in Amounts,
             createCreditMemo(c, i, p, a)
      PROVE  IInv'
  BY <1>8 DEF createCreditMemo
<1>9. ASSUME NEW i \in Invoices, NEW p \in Payments, NEW a \in Amounts,
             NEW status \in RecordedAs, recordPayment(c, i, p, a, status)
      PROVE  IInv'
  BY <1>9 DEF recordPayment
<1>10. ASSUME NEW p \in Payments, voidPayment(c, p) PROVE IInv'
  BY <1>10 DEF voidPayment
<1>11. ASSUME NEW i \in Invoices, updateReview(c, i) PROVE IInv'
  <2> PICK pc \in {"header", "edits"} :
        Begin(c, [Idle EXCEPT !.op = "review", !.pc = pc, !.inv = i])
    BY <1>11 DEF updateReview
  <2> QED
    OBVIOUS
<1> QED
  BY <1>1, <1>2, <1>3, <1>4, <1>5, <1>6, <1>7, <1>8, <1>9, <1>10, <1>11 DEF Request

\* A statement that moves on in the request and touches neither invoices nor the
\* invoice numbers.
LEMMA MoveOn ==
  ASSUME IInv, NEW c \in Conns, NEW q, RequestRow(q), tx' = [tx EXCEPT ![c] = q],
         tx[c].pc # "commit", q.op # "issue", UNCHANGED <<inv, seq>>
  PROVE  IInv'
<1>1. SeqShape'
  BY DEF IInv, Shape, SeqShape
<1> QED
  BY <1>1, QuietStep

\* A request between its first SELECT and its COMMIT.
LEMMA Requesting ==
  ASSUME IInv, NEW c \in Conns
  PROVE  RequestRow(tx[c])
BY DEF IInv, Shape, TxShape

\* The three reads of recomputeTotals.
LEMMA ReadStep ==
  ASSUME IInv, NEW c \in Conns, ReadInvoice(c) \/ ReadLines(c) \/ ReadPayments(c)
  PROVE  IInv'
<1>1. RequestRow(tx[c]) /\ (tx[c].op = "issue" => tx[c].pc \in {"number", "status", "commit"})
  BY Requesting DEF IInv, IssueSteps
<1>2. CASE ReadInvoice(c)
  <2> DEFINE q == [tx[c] EXCEPT !.was = Seen(inv, c, tx[c].inv).status, !.pc = "lines"]
  <2>1. tx' = [tx EXCEPT ![c] = q] /\ tx[c].pc = "invoice" /\ UNCHANGED <<inv, seq>>
    BY <1>2 DEF ReadInvoice, Serving, tables
  <2>2. RequestRow(q) /\ q.op = tx[c].op
    BY <1>1 DEF RequestRow
  <2> QED
    BY <1>1, <2>1, <2>2, MoveOn
<1>3. CASE ReadLines(c)
  <2>1. PICK sum : /\ tx' = [tx EXCEPT ![c].total = sum, ![c].pc = "payments"]
                   /\ tx[c].pc = "lines" /\ UNCHANGED <<inv, seq>>
    BY <1>3, Zenon DEF ReadLines, Serving, tables
  <2> DEFINE q == [tx[c] EXCEPT !.total = sum, !.pc = "payments"]
  <2>2. tx' = [tx EXCEPT ![c] = q]
    BY <2>1
  <2>3. RequestRow(q) /\ q.op = tx[c].op
    BY <1>1 DEF RequestRow
  <2> QED
    BY <1>1, <2>1, <2>2, <2>3, MoveOn
<1>4. CASE ReadPayments(c)
  <2>1. PICK sum, to : /\ tx' = [tx EXCEPT ![c].paid = sum, ![c].pc = "totals", ![c].to = to]
                       /\ tx[c].pc = "payments" /\ UNCHANGED <<inv, seq>>
    BY <1>4, Zenon DEF ReadPayments, Serving, tables
  <2> DEFINE q == [tx[c] EXCEPT !.paid = sum, !.pc = "totals", !.to = to]
  <2>2. tx' = [tx EXCEPT ![c] = q]
    BY <2>1
  <2>3. RequestRow(q) /\ q.op = tx[c].op
    BY <1>1 DEF RequestRow
  <2> QED
    BY <1>1, <2>1, <2>2, <2>3, MoveOn
<1> QED
  BY <1>2, <1>3, <1>4

\* A memo number comes from a row of its own.
LEMMA MemoStep ==
  ASSUME IInv, NEW c \in Conns, allocateMemoNumber(c)
  PROVE  IInv'
<1> DEFINE q == [tx[c] EXCEPT !.pc = "item"]
<1>1. RequestRow(tx[c]) /\ (tx[c].op = "issue" => tx[c].pc \in {"number", "status", "commit"})
  BY Requesting DEF IInv, IssueSteps
<1>2. tx' = [tx EXCEPT ![c] = q] /\ tx[c].pc = "memo" /\ UNCHANGED inv
  BY DEF allocateMemoNumber, Goto, Serving
<1>3. RequestRow(q) /\ q.op = tx[c].op
  BY <1>1 DEF RequestRow
<1>4. /\ seq \in Tables(Sequences, Nat) /\ "CM" \in Sequences /\ "INV" \in Sequences
      /\ seq.row \in [Sequences -> Nat] /\ seq.row["CM"] + 1 \in Nat
  BY DEF IInv, Shape, SeqShape, Tables, Sequences
<1>5. seq' = Written(seq, c, "CM", seq.row["CM"] + 1)
  BY DEF allocateMemoNumber, NextNumber
<1>6. /\ seq'.row = seq.row
      /\ seq'.new = [seq.new EXCEPT !["CM"] = seq.row["CM"] + 1]
      /\ seq'.lock = [seq.lock EXCEPT !["CM"] = c]
      /\ seq' \in [row : {seq'.row}, new : {seq'.new}, lock : {seq'.lock}]
  BY <1>4, <1>5 DEF Written, Tables
<1>7. /\ SeqShape' /\ seq'.row["INV"] = seq.row["INV"] /\ seq'.new["INV"] = seq.new["INV"]
      /\ seq'.lock["INV"] = seq.lock["INV"]
  BY <1>4, <1>6 DEF SeqShape, Tables
<1> QED
  BY <1>1, <1>2, <1>3, <1>7, QuietStep

\* What InvShape says of the row a statement reads.
LEMMA SeenInvoice ==
  ASSUME InvShape, NEW c \in Conns, NEW i \in Invoices
  PROVE  InvoiceRow(Seen(inv, c, i)) /\ InvoiceRow(inv.row[i])
BY DEF InvShape, Seen

\* A new invoice has a placeholder for a number.
LEMMA InsertInvoiceStep ==
  ASSUME IInv, NEW c \in Conns, InsertInvoice(c)
  PROVE  IInv'
<1> DEFINE pc == IF tx[c].item = NoItem THEN "invoice" ELSE "item"
           q == [tx[c] EXCEPT !.pc = pc]
           r == [NotInserted EXCEPT !.status = "draft", !.job = tx[c].job]
<1>1. RequestRow(tx[c]) /\ (tx[c].op = "issue" => tx[c].pc \in {"number", "status", "commit"})
  BY Requesting DEF IInv, IssueSteps
<1>2. /\ tx' = [tx EXCEPT ![c] = q] /\ tx[c].pc = "insert" /\ UNCHANGED seq
      /\ inv' = Written(inv, c, tx[c].inv, r)
  BY DEF InsertInvoice, Goto, Serving
<1>3. RequestRow(q) /\ q.op = tx[c].op
  BY <1>1 DEF RequestRow
<1>4. InvoiceRow(r) /\ r.number = 0
  BY DEF InvoiceRow, NotInserted
<1> QED
  BY <1>1, <1>2, <1>3, <1>4, WriteStep
\* recomputeTotals writes back the number it finds.
LEMMA WriteTotalsStep ==
  ASSUME IInv, NEW c \in Conns, WriteTotals(c)
  PROVE  IInv'
<1> DEFINE t == tx[c]
           q == [tx[c] EXCEPT !.pc = "commit"]
           seen == Seen(inv, c, t.inv)
           r == [seen EXCEPT !.total = t.total, !.paid = t.paid, !.status = t.to]
<1>1. RequestRow(tx[c]) /\ (tx[c].op = "issue" => tx[c].pc \in {"number", "status", "commit"})
  BY Requesting DEF IInv, IssueSteps
<1>2. /\ tx' = [tx EXCEPT ![c] = q] /\ tx[c].pc = "totals" /\ UNCHANGED seq
      /\ inv' = Written(inv, c, t.inv, r)
  BY DEF WriteTotals, Goto, Serving
<1>3. RequestRow(q) /\ q.op = tx[c].op
  BY <1>1 DEF RequestRow
<1>4. t.inv \in Invoices => InvoiceRow(r) /\ r.number = seen.number
  <2>1. t.inv \in Invoices => InvoiceRow(seen)
    BY SeenInvoice DEF IInv, Shape
  <2> HIDE DEF seen
  <2> QED
    BY <2>1 DEF InvoiceRow
<1>5. t.inv \in Invoices => seen.number \in {0, inv.row[t.inv].number}
  BY <1>2 DEF IInv, Uncommitted, Seen
<1> QED
  <2> HIDE DEF q, r, t
  <2> QED
    BY <1>1, <1>2, <1>3, <1>4, <1>5, WriteStep DEF t

\* issue writes the number it has allocated; markSent and voidInvoice write none.
LEMMA WriteStatusStep ==
  ASSUME IInv, NEW c \in Conns, WriteStatus(c)
  PROVE  IInv'
<1> DEFINE t == tx[c]
           q == [tx[c] EXCEPT !.pc = "commit"]
           row == inv.row[t.inv]
           number == IF t.op = "issue" THEN t.number ELSE row.number
           r == [row EXCEPT !.status = t.to, !.number = number]
<1>1. RequestRow(tx[c])
  BY Requesting
<1>2. /\ tx' = [tx EXCEPT ![c] = q] /\ tx[c].pc = "status" /\ UNCHANGED seq
      /\ inv' = Written(inv, c, t.inv, r)
  BY DEF WriteStatus, Goto, Serving
<1>3. RequestRow(q) /\ q.op = t.op /\ q.number = t.number /\ q.inv = t.inv /\ q.pc = "commit"
  BY <1>1 DEF RequestRow
<1>4. t.inv \in Invoices => InvoiceRow(r) /\ r.number = number
  <2>1. t.inv \in Invoices => InvoiceRow(row)
    BY SeenInvoice DEF IInv, Shape
  <2>2. t.number \in Nat
    BY <1>1 DEF RequestRow
  <2> HIDE DEF t, row
  <2> QED
    BY <2>1, <2>2 DEF InvoiceRow
<1>5. t.op = "issue" => HasNumber(c)
  BY <1>2 DEF HasNumber
<1> QED
  <2> HIDE DEF q, r
  <2> QED
    BY <1>1, <1>2, <1>3, <1>4, <1>5, WriteStep
\* A line or a payment is written: nothing of the invoice is, yet.
LEMMA ItemStep ==
  ASSUME IInv, NEW c \in Conns,
         InsertLine(c) \/ ChangeLine(c) \/ InsertPayment(c) \/ RefundPayment(c)
  PROVE  IInv'
<1>1. RequestRow(tx[c]) /\ (tx[c].op = "issue" => tx[c].pc \in {"number", "status", "commit"})
  BY Requesting DEF IInv, IssueSteps
<1>2. PICK pc : /\ tx' = [tx EXCEPT ![c].pc = pc]
                /\ tx[c].pc = "item" /\ UNCHANGED <<inv, seq>>
  BY DEF InsertLine, ChangeLine, InsertPayment, RefundPayment, Goto, Serving
<1> DEFINE q == [tx[c] EXCEPT !.pc = pc]
<1>3. RequestRow(q) /\ q.op = tx[c].op
  BY <1>1 DEF RequestRow
<1> QED
  BY <1>1, <1>2, <1>3, MoveOn

\* The notes of a review leave the number of the invoice as it is.
LEMMA WriteHeaderStep ==
  ASSUME IInv, NEW c \in Conns, WriteHeader(c)
  PROVE  IInv'
<1> DEFINE i == tx[c].inv
<1>1. RequestRow(tx[c]) /\ (tx[c].op = "issue" => tx[c].pc \in {"number", "status", "commit"})
  BY Requesting DEF IInv, IssueSteps
<1>2. PICK pc : /\ tx' = [tx EXCEPT ![c].pc = pc] /\ tx[c].pc = "header" /\ UNCHANGED seq
                /\ inv' = Written(inv, c, i, inv.row[i])
  BY DEF WriteHeader, Goto, Serving
<1> DEFINE q == [tx[c] EXCEPT !.pc = pc]
<1>3. RequestRow(q) /\ q.op = tx[c].op
  BY <1>1 DEF RequestRow
<1>4. i \in Invoices => InvoiceRow(inv.row[i])
  BY SeenInvoice DEF IInv, Shape
<1> QED
  <2> HIDE DEF q, i
  <2> QED
    BY <1>1, <1>2, <1>3, <1>4, WriteStep DEF q

LEMMA NextEditStep ==
  ASSUME IInv, NEW c \in Conns, NextEdit(c)
  PROVE  IInv'
<1>1. RequestRow(tx[c]) /\ (tx[c].op = "issue" => tx[c].pc \in {"number", "status", "commit"})
  BY Requesting DEF IInv, IssueSteps
<1>2. PICK l, a : /\ tx' = [tx EXCEPT ![c].item = l, ![c].amount = a, ![c].pc = "item"]
                  /\ tx[c].pc = "edits" /\ UNCHANGED <<inv, seq>>
  BY Zenon DEF NextEdit, Serving, tables
<1> DEFINE q == [tx[c] EXCEPT !.item = l, !.amount = a, !.pc = "item"]
<1>3. tx' = [tx EXCEPT ![c] = q]
  BY <1>2
<1>4. RequestRow(q) /\ q.op = tx[c].op
  BY <1>1 DEF RequestRow
<1> QED
  BY <1>1, <1>2, <1>3, <1>4, MoveOn

\* Nothing the invariant speaks of changes.
LEMMA Stutter ==
  ASSUME IInv, UNCHANGED <<inv, seq, tx>>
  PROVE  IInv'
BY DEF IInv, Shape, InvShape, SeqShape, TxShape, IssueSteps, NumberInFlight, HasNumber,
       Uncommitted, Issued, NumbersUnique

LEMMA StatementStep ==
  ASSUME IInv, NEW c \in Conns, Statement(c)
  PROVE  IInv'
BY InsertInvoiceStep, ItemStep, WriteHeaderStep, NextEditStep, MemoStep, AllocateStep,
   ReadStep, WriteTotalsStep, WriteStatusStep, CommitStep DEF Statement

\* No step of the ledger, of any connection or of the clock, breaks the invariant.
LEMMA NextIInv == IInv /\ [Next]_vars => IInv'
<1> SUFFICES ASSUME IInv, [Next]_vars PROVE IInv'
  OBVIOUS
<1>1. ASSUME NEW c \in Conns, Request(c) \/ Statement(c) \/ Abort(c) PROVE IInv'
  BY <1>1, RequestStep, StatementStep, AbortStep
<1>2. ASSUME NEW i \in Invoices, FallDue(i) PROVE IInv'
  BY <1>2, Stutter DEF FallDue, tables
<1>3. CASE markOverdueSweep
  BY <1>3, SweepStep
<1>4. CASE UNCHANGED vars
  BY <1>4, Stutter DEF vars, tables
<1> QED
  BY <1>1, <1>2, <1>3, <1>4 DEF Next

-----------------------------------------------------------------------------
\* However many requests issue invoices at once, fail or are interrupted, no two
\* invoices get the same number (allocateInvoiceNumber, issue).
THEOREM NumbersUniqueHolds == Spec => []NumbersUnique
<1>1. Init => IInv
  BY InitIInv
<1>2. IInv /\ [Next]_vars => IInv'
  BY NextIInv
<1>3. IInv => NumbersUnique
  BY DEF IInv
<1> QED
  BY <1>1, <1>2, <1>3, PTL DEF Spec

\* No number is handed out beyond the sequence's committed value: what the next issue
\* takes is above every number in use.
THEOREM IssuedHolds == Spec => []Issued
<1>1. IInv => Issued
  BY DEF IInv
<1> QED
  BY <1>1, InitIInv, NextIInv, PTL DEF Spec

-----------------------------------------------------------------------------
(***************************************************************************)
(* Sums.  MapThenSumSet folds over a function that is defined by recursion *)
(* on the subsets of the set.  For a finite set that function exists, is   *)
(* the only one, and its values are naturals: by the well-foundedness of   *)
(* the subsets.                                                            *)
(***************************************************************************)
First(s) == CHOOSE x \in s : TRUE

Adds(g, f, T) ==
  /\ g = [s \in SUBSET T |-> g[s]]
  /\ \A s \in SUBSET T : g[s] = IF s = {} THEN 0 ELSE f[First(s)] + g[s \ {First(s)}]

LEMMA FirstOf ==
  ASSUME NEW s, s # {}
  PROVE  First(s) \in s /\ s \ {First(s)} \subseteq s /\ s \ {First(s)} # s
BY DEF First

\* What is true of no least subset is true of none.
LEMMA LeastSubset ==
  ASSUME NEW S, IsFiniteSet(S), NEW B \in SUBSET (SUBSET S), B # {}
  PROVE  \E s \in B : \A t \in B : t \subseteq s => t = s
<1>1. B \subseteq FiniteSubsetsOf(S)
  BY FS_Subset DEF FiniteSubsetsOf
<1>2. \E s \in B : \A t \in B : ~(<<t, s>> \in StrictSubsetOrdering(S))
  BY <1>1, FS_StrictSubsetOrderingWellFounded, WFMin
<1>3. \A s, t \in B : t \subseteq s /\ t # s => <<t, s>> \in StrictSubsetOrdering(S)
  BY DEF StrictSubsetOrdering
<1> QED
  BY <1>2, <1>3

LEMMA AddsOnce ==
  ASSUME NEW S, IsFiniteSet(S), NEW T \in SUBSET S, NEW U \in SUBSET S,
         NEW f, NEW g, Adds(g, f, T), NEW e, NEW h, Adds(h, e, U),
         NEW V \in SUBSET T, V \subseteq U, \A x \in V : f[x] = e[x]
  PROVE  g[V] = h[V]
<1> DEFINE B == {s \in SUBSET V : g[s] # h[s]}
<1>1. SUFFICES ASSUME B # {} PROVE FALSE
  OBVIOUS
<1>2. PICK s \in B : \A t \in B : t \subseteq s => t = s
  <2>1. B \in SUBSET (SUBSET S)
    OBVIOUS
  <2> HIDE DEF B
  <2> QED
    BY <1>1, <2>1, LeastSubset
<1>3. CASE s = {}
  BY <1>3 DEF Adds
<1>4. CASE s # {}
  <2>1. First(s) \in V /\ s \ {First(s)} \in SUBSET V /\ s \ {First(s)} \notin B
    BY <1>2, <1>4, FirstOf
  <2>2. g[s \ {First(s)}] = h[s \ {First(s)}] /\ f[First(s)] = e[First(s)]
    BY <2>1
  <2>3. /\ g[s] = f[First(s)] + g[s \ {First(s)}]
        /\ h[s] = e[First(s)] + h[s \ {First(s)}]
    BY <1>4 DEF Adds
  <2> QED
    BY <2>2, <2>3
<1> QED
  BY <1>3, <1>4

LEMMA AddsTo ==
  ASSUME NEW S, IsFiniteSet(S), NEW f, \A x \in S : f[x] \in Nat
  PROVE  \E g : Adds(g, f, S) /\ g \in [SUBSET S -> Nat]
<1> DEFINE Good(T, g) == Adds(g, f, T) /\ g \in [SUBSET T -> Nat]
           B == {T \in SUBSET S : ~\E g : Good(T, g)}
<1>1. SUFFICES ASSUME B # {} PROVE FALSE
  OBVIOUS
<1>2. PICK T \in B : \A U \in B : U \subseteq T => U = T
  <2>1. B \in SUBSET (SUBSET S)
    OBVIOUS
  <2> HIDE DEF B
  <2> QED
    BY <1>1, <2>1, LeastSubset
<1> DEFINE G(U) == CHOOSE g : Good(U, g)
           At(s) == G(s)[s]
<1>3. \A U \in SUBSET T : U # T => Good(U, G(U))
  BY <1>2
<1>4. ASSUME NEW U \in SUBSET T, U # T, NEW s \in SUBSET U
      PROVE  At(s) = G(U)[s] /\ At(s) \in Nat
  <2>1. Good(U, G(U)) /\ Good(s, G(s)) /\ T \in SUBSET S
    BY <1>3, <1>4
  <2> HIDE DEF G
  <2>2. At(s) = G(U)[s]
    BY <1>4, <2>1, AddsOnce
  <2> QED
    BY <2>1, <2>2
<1> DEFINE top == IF T = {} THEN 0 ELSE f[First(T)] + At(T \ {First(T)})
           g == [s \in SUBSET T |-> IF s = T THEN top ELSE At(s)]
<1>5. T # {} => First(T) \in T /\ T \ {First(T)} \in SUBSET T /\ T \ {First(T)} # T
  BY FirstOf
<1> HIDE DEF At
<1>6. top \in Nat
  <2>1. CASE T # {}
    <3>1. At(T \ {First(T)}) \in Nat
      BY <1>4, <1>5, <2>1
    <3>2. f[First(T)] \in Nat
      BY <1>2, <1>5, <2>1
    <3> QED
      BY <2>1, <3>1, <3>2
  <2> QED
    BY <2>1
<1>7. g \in [SUBSET T -> Nat]
  BY <1>4, <1>6
<1>8. ASSUME NEW s \in SUBSET T
      PROVE  g[s] = IF s = {} THEN 0 ELSE f[First(s)] + g[s \ {First(s)}]
  <2>1. CASE s = T
    BY <1>5, <2>1
  <2>2. CASE s # T
    <3>1. s # {} => s \ {First(s)} \in SUBSET s /\ s \ {First(s)} # T
      BY <2>2, FirstOf
    <3>2. Adds(G(s), f, s)
      BY <1>3, <2>2
    <3> HIDE DEF G
    <3>3. G(s)[s] = IF s = {} THEN 0 ELSE f[First(s)] + G(s)[s \ {First(s)}]
      BY <3>2 DEF Adds
    <3>4. At(s) = G(s)[s] /\ (s # {} => At(s \ {First(s)}) = G(s)[s \ {First(s)}])
      BY <1>4, <2>2, <3>1
    <3> QED
      BY <2>2, <3>1, <3>3, <3>4
  <2> QED
    BY <2>1, <2>2
<1>9. Good(T, g)
  <2> HIDE DEF top, G
  <2>1. g = [s \in SUBSET T |-> g[s]]
    OBVIOUS
  <2> QED
    BY <1>7, <1>8, <2>1 DEF Adds
<1> HIDE DEF Good, g
<1> QED
  BY <1>2, <1>9

Sum(f, S) == (CHOOSE g : Adds(g, f, S))[S]

LEMMA SumIs ==
  ASSUME NEW S, IsFiniteSet(S), NEW f, \A x \in S : f[x] \in Nat
  PROVE  /\ Sum(f, S) \in Nat
         /\ \A h : Adds(h, f, S) => h[S] = Sum(f, S)
<1> DEFINE k == CHOOSE g : Adds(g, f, S)
<1>1. PICK g : Adds(g, f, S) /\ g \in [SUBSET S -> Nat]
  BY AddsTo
<1>2. Adds(k, f, S)
  BY <1>1
<1> HIDE DEF k
<1>3. \A h : Adds(h, f, S) => h[S] = g[S]
  BY <1>1, AddsOnce
<1> QED
  BY <1>1, <1>2, <1>3 DEF Sum, k

\* Sums of the same amounts over the same rows.
LEMMA SameSum ==
  ASSUME NEW S, IsFiniteSet(S), NEW f, \A x \in S : f[x] \in Nat,
         NEW e, \A x \in S : e[x] = f[x]
  PROVE  Sum(e, S) = Sum(f, S)
<1>1. PICK g : Adds(g, f, S)
  BY AddsTo
<1>2. PICK h : Adds(h, e, S)
  BY AddsTo
<1>3. g[S] = h[S]
  BY <1>1, <1>2, AddsOnce
<1> QED
  BY <1>1, <1>2, <1>3, SumIs

\* What a read of a connection and what the properties sum.
LEMMA SeenSum ==
  ASSUME NEW t, NEW c, NEW S, IsFiniteSet(S), \A x \in S : Seen(t, c, x).amount \in Nat
  PROVE  LET amount(x) == Seen(t, c, x).amount
         IN  MapThenSumSet(amount, S) = Sum([x \in S |-> Seen(t, c, x).amount], S)
<1> DEFINE f == [x \in S |-> Seen(t, c, x).amount]
           Rec(h) == h = [s \in SUBSET S |->
                       IF s = {} THEN 0
                       ELSE Seen(t, c, CHOOSE x \in s : TRUE).amount + h[s \ {CHOOSE x \in s : TRUE}]]
           iter == CHOOSE h : Rec(h)
           amount(x) == Seen(t, c, x).amount
<1>1. PICK g : Adds(g, f, S)
  BY AddsTo
<1>2. \A h : Adds(h, f, S) <=> Rec(h)
  <2> TAKE h
  <2>1. \A s \in SUBSET S : s # {} => f[First(s)] = Seen(t, c, CHOOSE x \in s : TRUE).amount
    BY FirstOf DEF First
  <2> HIDE DEF f
  <2> QED
    BY <2>1 DEF Adds, First
<1>3. Adds(iter, f, S)
  <2> HIDE DEF f, Rec
  <2> QED
    BY <1>1, <1>2, Zenon
<1>4. MapThenSumSet(amount, S) = iter[S]
  BY DEF MapThenSumSet, MapThenFoldSet
<1> QED
  BY <1>3, <1>4, SumIs

\* What the properties sum.
LEMMA RowSum ==
  ASSUME NEW rows, NEW S, IsFiniteSet(S), \A x \in S : rows[x].amount \in Nat
  PROVE  LET amount(x) == rows[x].amount
         IN  MapThenSumSet(amount, S) = Sum([x \in S |-> rows[x].amount], S)
<1> DEFINE f == [x \in S |-> rows[x].amount]
           Rec(h) == h = [s \in SUBSET S |->
                       IF s = {} THEN 0
                       ELSE rows[CHOOSE x \in s : TRUE].amount + h[s \ {CHOOSE x \in s : TRUE}]]
           iter == CHOOSE h : Rec(h)
           amount(x) == rows[x].amount
<1>1. PICK g : Adds(g, f, S)
  BY AddsTo
<1>2. \A h : Adds(h, f, S) <=> Rec(h)
  <2> TAKE h
  <2>1. \A s \in SUBSET S : s # {} => f[First(s)] = rows[CHOOSE x \in s : TRUE].amount
    BY FirstOf DEF First
  <2> HIDE DEF f
  <2> QED
    BY <2>1 DEF Adds, First
<1>3. Adds(iter, f, S)
  <2> HIDE DEF f, Rec
  <2> QED
    BY <1>1, <1>2, Zenon
<1>4. MapThenSumSet(amount, S) = iter[S]
  BY DEF MapThenSumSet, MapThenFoldSet
<1> QED
  BY <1>3, <1>4, SumIs

-----------------------------------------------------------------------------
(***************************************************************************)
(* Types, for any number of connections: a request is on an invoice that   *)
(* is in the table or that it inserts itself, and what it writes is of the *)
(* table it writes to.                                                     *)
(***************************************************************************)
Exists(i) == i \in Invoices /\ inv.row[i].status # "none"

Placed ==
  /\ \A i \in Invoices : inv.lock[i] # NoConn => inv.new[i].status # "none"
  /\ \A l \in Lines : /\ line.row[l].amount > 0 => line.row[l].invoice \in Invoices
                      /\ line.new[l].amount > 0 => line.new[l].invoice \in Invoices
  /\ \A p \in Payments : /\ pay.row[p].status # "none" => Exists(pay.row[p].invoice)
                         /\ pay.new[p].status # "none" => Exists(pay.new[p].invoice)
                         /\ pay.lock[p] # NoConn => pay.new[p].status # "none"

\* A request: what it is on, and what it has.
OnInvoice(c) ==
  LET t == tx[c] IN
  /\ t.inv \in Invoices
  /\ t.op # "create" => Exists(t.inv)
  /\ t.op = "create" => t.pc = "insert" \/ inv.lock[t.inv] = c
  /\ t.pc = "insert" => t.op = "create"
  /\ t.pc \in {"header", "edits"} => t.op = "review"

HasItem(c) ==
  LET t == tx[c] IN
  t.pc \in {"memo", "item"} \/ (t.pc = "insert" /\ t.item # NoItem) =>
    \/ t.op \in {"create", "addLine"} /\ t.item \in Lines /\ t.amount \in Amounts
    \/ t.op \in {"updateLine", "review"} /\ t.item \in Lines /\ t.amount \in Amounts \cup {0}
    \/ t.op = "pay" /\ t.item \in Payments /\ t.amount \in Amounts
    \/ t.op = "voidPayment" /\ t.item \in Payments /\ pay.row[t.item].status # "none"

Creating(c) == tx[c].pc # "idle" /\ tx[c].op = "create"

TypedInv ==
  /\ TypeOK /\ Placed
  /\ \A c \in Conns : tx[c].pc # "idle" => OnInvoice(c) /\ HasItem(c)
  /\ \A c, d \in Conns : Creating(c) /\ Creating(d) /\ tx[c].inv = tx[d].inv => c = d

LEMMA TableWritten ==
  ASSUME NEW Ids, NEW Rows, NEW t \in Tables(Ids, Rows), NEW c \in Conns, NEW x \in Ids,
         NEW r \in Rows
  PROVE  LET u == Written(t, c, x, r) IN
         /\ u \in Tables(Ids, Rows) /\ u.row = t.row
         /\ \A y \in Ids : /\ u.new[y] = IF y = x THEN r ELSE t.new[y]
                          /\ u.lock[y] = IF y = x THEN c ELSE t.lock[y]
BY DEF Written, Tables

LEMMA TableCommitted ==
  ASSUME NEW Ids, NEW Rows, NEW t \in Tables(Ids, Rows), NEW c \in Conns
  PROVE  LET u == Committed(t, c) IN
         /\ u \in Tables(Ids, Rows) /\ u.new = t.new
         /\ \A y \in Ids : /\ u.row[y] = IF t.lock[y] = c THEN t.new[y] ELSE t.row[y]
                          /\ u.lock[y] = IF t.lock[y] = c THEN NoConn ELSE t.lock[y]
BY DEF Committed, Released, Tables

LEMMA TableRolledBack ==
  ASSUME NEW Ids, NEW Rows, NEW t \in Tables(Ids, Rows), NEW c \in Conns
  PROVE  LET u == RolledBack(t, c) IN
         /\ u \in Tables(Ids, Rows) /\ u.row = t.row
         /\ \A y \in Ids : /\ u.new[y] = IF t.lock[y] = c THEN t.row[y] ELSE t.new[y]
                          /\ u.lock[y] = IF t.lock[y] = c THEN NoConn ELSE t.lock[y]
BY DEF RolledBack, Released, Tables

LEMMA TypedFacts ==
  ASSUME TypedInv
  PROVE  /\ inv \in Tables(Invoices, InvoiceRows) /\ line \in Tables(Lines, LineRows)
         /\ pay \in Tables(Payments, PaymentRows) /\ seq \in Tables(Sequences, Nat)
         /\ due \subseteq Invoices /\ tx \in [Conns -> Requests]
         /\ Placed
         /\ \A c \in Conns : tx[c] \in Requests /\ (tx[c].pc # "idle" => OnInvoice(c) /\ HasItem(c))
         /\ \A i \in Invoices : /\ inv.row[i] \in InvoiceRows /\ inv.new[i] \in InvoiceRows
                                /\ inv.lock[i] \in Conns \cup {NoConn}
         /\ \A l \in Lines : /\ line.row[l] \in LineRows /\ line.new[l] \in LineRows
                             /\ line.lock[l] \in Conns \cup {NoConn}
         /\ \A p \in Payments : /\ pay.row[p] \in PaymentRows /\ pay.new[p] \in PaymentRows
                                /\ pay.lock[p] \in Conns \cup {NoConn}
BY DEF TypedInv, TypeOK, Tables

LEMMA IdleRequest == Idle \in Requests /\ Idle.pc = "idle"
BY DEF Idle, Requests, Ops, Steps, InvoiceStatuses

LEMMA InitTyped == Init => TypedInv
<1> SUFFICES ASSUME Init PROVE TypedInv
  OBVIOUS
<1>1. TypeOK
  BY IdleRequest DEF Init, TypeOK, Filled, Tables, NotInserted, InvoiceRows, InvoiceStatuses,
                     NoLine, LineRows, NoPayment, PaymentRows, Sequences
<1>2. \A c \in Conns : tx[c].pc = "idle"
  BY IdleRequest DEF Init
<1>3. Placed
  BY DEF Init, Placed, Filled, NoLine, NoPayment
<1> QED
  BY <1>1, <1>2, <1>3 DEF TypedInv, Creating

\* A step of one connection: what it has to leave to the others, and to see to itself.
LEMMA TypedStep ==
  ASSUME TypedInv, NEW c \in Conns, NEW q \in Requests, tx' = [tx EXCEPT ![c] = q],
         inv' \in Tables(Invoices, InvoiceRows), line' \in Tables(Lines, LineRows),
         pay' \in Tables(Payments, PaymentRows), seq' \in Tables(Sequences, Nat),
         due' \subseteq Invoices, Placed',
         \A i \in Invoices : inv.row[i].status # "none" => inv'.row[i].status # "none",
         \A p \in Payments : pay.row[p].status # "none" => pay'.row[p].status # "none",
         \A d \in Conns \ {c} :
           Creating(d) /\ inv.lock[tx[d].inv] = d => inv'.lock[tx[d].inv] = d,
         q.pc # "idle" => OnInvoice(c)' /\ HasItem(c)',
         q.pc # "idle" /\ q.op = "create" =>
           \/ Creating(c) /\ q.inv = tx[c].inv
           \/ \A d \in Conns : tx[d].inv # q.inv
  PROVE  TypedInv'
<1>1. tx \in [Conns -> Requests] /\ tx'[c] = q /\ \A d \in Conns \ {c} : tx'[d] = tx[d]
  BY TypedFacts
<1>2. TypeOK'
  BY <1>1 DEF TypeOK
<1>3. ASSUME NEW d \in Conns, tx'[d].pc # "idle"
      PROVE  OnInvoice(d)' /\ HasItem(d)'
  <2>1. CASE d = c
    BY <1>1, <1>3, <2>1
  <2>2. CASE d # c
    <3>1. tx'[d] = tx[d] /\ OnInvoice(d) /\ HasItem(d)
      BY <1>1, <1>3, <2>2, TypedFacts
    <3>2. OnInvoice(d)'
      BY <1>3, <2>2, <3>1 DEF OnInvoice, Exists, Creating
    <3>3. HasItem(d)'
      BY <3>1 DEF HasItem
    <3> QED
      BY <3>2, <3>3
  <2> QED
    BY <2>1, <2>2
<1>4. ASSUME NEW d \in Conns, NEW e \in Conns, Creating(d)', Creating(e)', tx'[d].inv = tx'[e].inv
      PROVE  d = e
  BY <1>1, <1>4 DEF TypedInv, Creating
<1> QED
  BY <1>2, <1>3, <1>4 DEF TypedInv

\* A request begins.
ItemFits(q) ==
  \/ q.op \in {"create", "addLine"} /\ q.item \in Lines /\ q.amount \in Amounts
  \/ q.op \in {"updateLine", "review"} /\ q.item \in Lines /\ q.amount \in Amounts \cup {0}
  \/ q.op = "pay" /\ q.item \in Payments /\ q.amount \in Amounts
  \/ q.op = "voidPayment" /\ q.item \in Payments /\ pay.row[q.item].status # "none"

Begins(q) ==
  /\ q \in Requests /\ q.pc # "idle" /\ q.inv \in Invoices
  /\ q.op = "create" => NewInvoice(q.inv)
  /\ q.op = "create" <=> q.pc = "insert"
  /\ q.pc \in {"header", "edits"} => q.op = "review"
  /\ q.op # "create" => inv.row[q.inv].status # "none"
  /\ q.pc \in {"memo", "item"} \/ (q.pc = "insert" /\ q.item # NoItem) => ItemFits(q)

LEMMA BeginTyped ==
  ASSUME TypedInv, NEW c \in Conns, NEW q, Begins(q), Begin(c, q)
  PROVE  TypedInv'
<1>1. /\ tx' = [tx EXCEPT ![c] = q] /\ inv' = inv /\ line' = line /\ pay' = pay /\ seq' = seq
      /\ due' = due /\ tx'[c] = q
  BY TypedFacts DEF Begin, tables
<1>2. OnInvoice(c)'
  BY <1>1 DEF OnInvoice, Exists, Begins
<1>3. HasItem(c)'
  BY <1>1 DEF HasItem, Begins, ItemFits
<1>4. Placed'
  BY <1>1, TypedFacts DEF Placed, Exists
<1>5. q.op = "create" => \A d \in Conns : tx[d].inv # q.inv
  BY DEF Begins, NewInvoice
<1> QED
  BY <1>1, <1>2, <1>3, <1>4, <1>5, TypedFacts, TypedStep DEF Begins

\* The requests that are begun.
LEMMA RequestBegins ==
  ASSUME TypedInv, NEW c \in Conns, Request(c)
  PROVE  \E q : Begins(q) /\ Begin(c, q)
<1> DEFINE Goal == \E q : Begins(q) /\ Begin(c, q)
<1> USE IdleRequest DEF Begins, Requests, Ops, Steps, InvoiceStatuses
<1>0. Amounts \subseteq Nat /\ Lines \subseteq Items /\ Payments \subseteq Items /\ Lines \cap Payments = {}
      /\ NoItem \notin Lines /\ NoItem \notin Payments
      /\ \A a \in Amounts : a \in Nat
  BY LedgerConstants DEF Items
<1>1. ASSUME NEW i \in Invoices, createManual(c, i) PROVE Goal
  <2> DEFINE q == [Idle EXCEPT !.op = "create", !.pc = "insert", !.inv = i]
  <2>1. Begins(q)
    BY <1>1 DEF createManual, Idle
  <2> QED
    BY <1>1, <2>1 DEF createManual
<1>2. ASSUME NEW i \in Invoices, markSent(c, i) PROVE Goal
  <2> DEFINE q == [Idle EXCEPT !.op = "status", !.pc = "status", !.inv = i, !.to = "sent"]
  <2>1. Begins(q)
    BY <1>2 DEF markSent, Idle
  <2> QED
    BY <1>2, <2>1 DEF markSent
<1>3. ASSUME NEW i \in Invoices, voidInvoice(c, i) PROVE Goal
  <2> DEFINE q == [Idle EXCEPT !.op = "status", !.pc = "status", !.inv = i, !.to = "void"]
  <2>1. Begins(q)
    BY <1>3 DEF voidInvoice, Idle
  <2> QED
    BY <1>3, <2>1 DEF voidInvoice
<1>4. ASSUME NEW i \in Invoices, NEW status \in {"issued", "sent"}, issue(c, i, status)
      PROVE  Goal
  <2> DEFINE q == [Idle EXCEPT !.op = "issue", !.pc = "number", !.inv = i, !.to = status]
  <2>1. Begins(q)
    BY <1>4 DEF issue, Idle
  <2> QED
    BY <1>4, <2>1 DEF issue
<1>5. ASSUME NEW i \in Invoices, NEW l \in Lines, NEW a \in Amounts, addLineItem(c, i, l, a)
      PROVE  Goal
  <2> DEFINE q == [Idle EXCEPT !.op = "addLine", !.pc = "item", !.inv = i, !.item = l, !.amount = a]
  <2>1. Begins(q)
    BY <1>0, <1>5 DEF addLineItem, requireDraft, Idle, ItemFits
  <2> QED
    BY <1>5, <2>1 DEF addLineItem
<1>6. ASSUME NEW i \in Invoices, NEW l \in Lines, NEW a \in Amounts, NEW j \in Jobs,
             generateFromJob(c, j, i, l, a)
      PROVE  Goal
  <2> DEFINE q == [Idle EXCEPT !.op = "create", !.pc = "insert", !.inv = i, !.job = j,
                               !.item = l, !.amount = a]
  <2>1. Begins(q)
    BY <1>0, <1>6 DEF generateFromJob, Idle, ItemFits
  <2> QED
    BY <1>6, <2>1 DEF generateFromJob
<1>7. ASSUME NEW l \in Lines, NEW a \in Amounts \cup {0}, updateLineItem(c, l, a)
      PROVE  Goal
  <2> DEFINE i == line.row[l].invoice
             q == [Idle EXCEPT !.op = "updateLine", !.pc = "item", !.inv = i, !.item = l, !.amount = a]
  <2>1. i \in Invoices /\ inv.row[i].status = "draft" /\ a \in Nat
    BY <1>0, <1>7, TypedFacts DEF updateLineItem, requireDraft, Placed
  <2>2. Begin(c, q)
    BY <1>7 DEF updateLineItem
  <2> HIDE DEF i
  <2>3. Begins(q)
    BY <1>0, <2>1 DEF Idle, ItemFits
  <2> HIDE DEF q, Begins, Requests, Ops, Steps, InvoiceStatuses
  <2> QED
    BY <2>2, <2>3
<1>8. ASSUME NEW i \in Invoices, NEW p \in Payments, NEW a \in Amounts,
             createCreditMemo(c, i, p, a)
      PROVE  Goal
  <2> DEFINE q == [Idle EXCEPT !.op = "pay", !.pc = "memo", !.inv = i, !.item = p, !.amount = a]
  <2>1. Begins(q)
    BY <1>0, <1>8 DEF createCreditMemo, Idle, ItemFits
  <2> QED
    BY <1>8, <2>1 DEF createCreditMemo
<1>9. ASSUME NEW i \in Invoices, NEW p \in Payments, NEW a \in Amounts,
             NEW status \in RecordedAs, recordPayment(c, i, p, a, status)
      PROVE  Goal
  <2> DEFINE q == [Idle EXCEPT !.op = "pay", !.pc = "item", !.inv = i, !.item = p,
                               !.amount = a, !.as = status]
  <2>0. status \in {"pending", "cleared"}
    BY LedgerConstants
  <2>1. Begins(q)
    BY <1>0, <1>9, <2>0 DEF recordPayment, Idle, ItemFits
  <2> QED
    BY <1>9, <2>1 DEF recordPayment
<1>10. ASSUME NEW p \in Payments, voidPayment(c, p) PROVE Goal
  <2> DEFINE i == pay.row[p].invoice
             q == [Idle EXCEPT !.op = "voidPayment", !.pc = "item", !.item = p, !.inv = i]
  <2>1. i \in Invoices /\ inv.row[i].status # "none" /\ pay.row[p].status # "none"
    BY <1>10, TypedFacts DEF voidPayment, Placed, Exists
  <2>2. Begin(c, q)
    BY <1>10 DEF voidPayment
  <2> HIDE DEF i
  <2>3. Begins(q)
    BY <1>0, <2>1 DEF Idle, ItemFits
  <2> HIDE DEF q, Begins, Requests, Ops, Steps, InvoiceStatuses
  <2> QED
    BY <2>2, <2>3
<1>11. ASSUME NEW i \in Invoices, updateReview(c, i) PROVE Goal
  <2>1. PICK pc \in {"header", "edits"} :
          Begin(c, [Idle EXCEPT !.op = "review", !.pc = pc, !.inv = i])
    BY <1>11 DEF updateReview
  <2> DEFINE q == [Idle EXCEPT !.op = "review", !.pc = pc, !.inv = i]
  <2>2. Begins(q)
    BY <1>11 DEF updateReview, requireDraft, Idle
  <2> QED
    BY <2>1, <2>2
<1> QED
  BY <1>1, <1>2, <1>3, <1>4, <1>5, <1>6, <1>7, <1>8, <1>9, <1>10, <1>11 DEF Request

\* A statement: the request stays what it is, and goes on.
LEMMA StatementTyped ==
  ASSUME TypedInv, NEW c \in Conns, tx[c].pc # "idle", NEW q \in Requests,
         tx' = [tx EXCEPT ![c] = q],
         q.op = tx[c].op, q.inv = tx[c].inv, q.item = tx[c].item, q.amount = tx[c].amount,
         q.pc \notin {"idle", "insert", "memo"},
         q.pc = "item" => tx[c].pc = "memo" \/ (tx[c].pc = "insert" /\ tx[c].item # NoItem),
         q.pc \in {"header", "edits"} => q.op = "review",
         inv' \in Tables(Invoices, InvoiceRows), line' \in Tables(Lines, LineRows),
         pay' \in Tables(Payments, PaymentRows), seq' \in Tables(Sequences, Nat),
         inv'.row = inv.row, pay'.row = pay.row, due' = due, Placed',
         \A i \in Invoices : inv'.lock[i] # inv.lock[i] =>
           i = tx[c].inv /\ (inv.lock[i] \in {NoConn, c} \/ q.op = "create"),
         q.op = "create" => inv'.lock[q.inv] = c
  PROVE  TypedInv'
<1>1. tx'[c] = q /\ OnInvoice(c) /\ HasItem(c)
  BY TypedFacts
<1>2. OnInvoice(c)'
  BY <1>1 DEF OnInvoice, Exists
<1>3. HasItem(c)'
  BY <1>1 DEF HasItem
<1>4. \A d \in Conns \ {c} :
        Creating(d) /\ inv.lock[tx[d].inv] = d => inv'.lock[tx[d].inv] = d
  <2> SUFFICES ASSUME NEW d \in Conns \ {c}, Creating(d), inv.lock[tx[d].inv] = d,
                      inv'.lock[tx[d].inv] # d
               PROVE  FALSE
    OBVIOUS
  <2>1. tx[d].inv \in Invoices
    BY TypedFacts DEF OnInvoice, Creating
  <2>2. tx[d].inv = tx[c].inv
    BY <2>1
  <2>3. tx[c].op = "create"
    BY <2>1, NoConnIsNone
  <2> QED
    BY <2>2, <2>3 DEF TypedInv, Creating
<1> QED
  BY <1>1, <1>2, <1>3, <1>4, TypedFacts, TypedStep DEF Creating

\* It moves on and writes nothing, or the number sequences only.
LEMMA MoveTyped ==
  ASSUME TypedInv, NEW c \in Conns, tx[c].pc \notin {"idle", "insert"}, NEW q \in Requests,
         tx' = [tx EXCEPT ![c] = q],
         q.op = tx[c].op, q.inv = tx[c].inv, q.item = tx[c].item, q.amount = tx[c].amount,
         q.pc \notin {"idle", "insert", "memo", "header", "edits"},
         q.pc = "item" => tx[c].pc = "memo",
         seq' \in Tables(Sequences, Nat), inv' = inv, line' = line, pay' = pay, due' = due
  PROVE  TypedInv'
<1>1. Placed'
  BY TypedFacts DEF Placed, Exists
<1>2. q.op = "create" => inv'.lock[q.inv] = c
  BY TypedFacts DEF OnInvoice
<1> QED
  BY <1>1, <1>2, TypedFacts, StatementTyped

LEMMA SeenRows ==
  ASSUME TypedInv, NEW c \in Conns
  PROVE  /\ \A i \in Invoices : Seen(inv, c, i) \in InvoiceRows
         /\ \A l \in Lines : Seen(line, c, l) \in LineRows
         /\ \A p \in Payments : Seen(pay, c, p) \in PaymentRows
         /\ tx[c].pc \notin {"idle", "insert"} => Seen(inv, c, tx[c].inv).status # "none"
<1>1. tx[c].pc \notin {"idle", "insert"} => Seen(inv, c, tx[c].inv).status # "none"
  BY TypedFacts, NoConnIsNone DEF OnInvoice, Exists, Placed, Seen
<1> QED
  BY <1>1, TypedFacts DEF Seen

\* What the reads of recomputeTotals sum.
LEMMA SeenAmounts ==
  ASSUME TypedInv, NEW c \in Conns, NEW i
  PROVE  /\ IsFiniteSet(LinesOf(c, i)) /\ IsFiniteSet(PaymentsOf(c, i))
         /\ \A l \in LinesOf(c, i) : Seen(line, c, l).amount \in Nat
         /\ \A p \in PaymentsOf(c, i) : Seen(pay, c, p).amount \in Nat
<1>1. Amounts \cup {0} \subseteq Nat
  BY LedgerConstants
<1>2. LinesOf(c, i) \subseteq Lines /\ PaymentsOf(c, i) \subseteq Payments
  BY DEF LinesOf, PaymentsOf
<1>3. \A l \in Lines : Seen(line, c, l).amount \in Nat
  BY <1>1, SeenRows DEF LineRows
<1>4. \A p \in Payments : Seen(pay, c, p).amount \in Nat
  BY <1>1, SeenRows DEF PaymentRows
<1> QED
  BY <1>2, <1>3, <1>4, FS_Subset, LedgerConstants

LEMMA OwedIs ==
  ASSUME TypedInv, NEW c \in Conns, NEW i
  PROVE  LET amount(x) == Seen(line, c, x).amount
             owed == MapThenSumSet(amount, LinesOf(c, i))
         IN  owed \in Nat /\ owed = Sum([x \in LinesOf(c, i) |-> Seen(line, c, x).amount], LinesOf(c, i))
<1> DEFINE S == LinesOf(c, i)
           amount(x) == Seen(line, c, x).amount
           f == [x \in S |-> Seen(line, c, x).amount]
<1>1. IsFiniteSet(S) /\ \A x \in S : Seen(line, c, x).amount \in Nat
  BY SeenAmounts
<1> HIDE DEF S
<1>2. \A x \in S : f[x] \in Nat
  BY <1>1
<1>3. MapThenSumSet(amount, S) = Sum(f, S)
  BY <1>1, SeenSum
<1> HIDE DEF f
<1>4. Sum(f, S) \in Nat
  BY <1>1, <1>2, SumIs
<1> QED
  BY <1>3, <1>4 DEF S, f

LEMMA ReceivedIs ==
  ASSUME TypedInv, NEW c \in Conns, NEW i
  PROVE  LET amount(x) == Seen(pay, c, x).amount
             paid == MapThenSumSet(amount, PaymentsOf(c, i))
         IN  paid \in Nat /\ paid = Sum([x \in PaymentsOf(c, i) |-> Seen(pay, c, x).amount], PaymentsOf(c, i))
<1> DEFINE S == PaymentsOf(c, i)
           amount(x) == Seen(pay, c, x).amount
           f == [x \in S |-> Seen(pay, c, x).amount]
<1>1. IsFiniteSet(S) /\ \A x \in S : Seen(pay, c, x).amount \in Nat
  BY SeenAmounts
<1> HIDE DEF S
<1>2. \A x \in S : f[x] \in Nat
  BY <1>1
<1>3. MapThenSumSet(amount, S) = Sum(f, S)
  BY <1>1, SeenSum
<1> HIDE DEF f
<1>4. Sum(f, S) \in Nat
  BY <1>1, <1>2, SumIs
<1> QED
  BY <1>3, <1>4 DEF S, f

LEMMA StatusTyped ==
  ASSUME NEW was \in InvoiceStatuses, NEW total, NEW paid, NEW isOverdue
  PROVE  statusAfterPayment(was, total, paid, isOverdue) \in InvoiceStatuses
BY DEF statusAfterPayment, InvoiceStatuses

LEMMA ReadsTyped ==
  ASSUME TypedInv, NEW c \in Conns, ReadInvoice(c) \/ ReadLines(c) \/ ReadPayments(c)
  PROVE  TypedInv'
<1>0. tx[c] \in Requests /\ tx[c].pc \in {"invoice", "lines", "payments"}
  BY TypedFacts DEF ReadInvoice, ReadLines, ReadPayments, Serving
<1>1. PICK q \in Requests :
        /\ tx' = [tx EXCEPT ![c] = q] /\ q.op = tx[c].op /\ q.inv = tx[c].inv
        /\ q.item = tx[c].item /\ q.amount = tx[c].amount
        /\ q.pc \in {"lines", "payments", "totals"}
  <2>1. CASE ReadInvoice(c)
    <3> DEFINE was == Seen(inv, c, tx[c].inv).status
               q == [tx[c] EXCEPT !.was = was, !.pc = "lines"]
    <3>1. was \in InvoiceStatuses
      BY <1>0, SeenRows, TypedFacts DEF InvoiceRows, OnInvoice
    <3>2. tx' = [tx EXCEPT ![c] = q]
      BY <2>1, TypedFacts DEF ReadInvoice
    <3> HIDE DEF was
    <3>3. q \in Requests
      BY <1>0, <3>1 DEF Requests, Steps
    <3>4. q.op = tx[c].op /\ q.inv = tx[c].inv /\ q.item = tx[c].item
          /\ q.amount = tx[c].amount /\ q.pc = "lines"
      BY <1>0 DEF Requests
    <3> QED
      BY <3>2, <3>3, <3>4
  <2>2. CASE ReadLines(c)
    <3> DEFINE amount(x) == Seen(line, c, x).amount
               owed == MapThenSumSet(amount, LinesOf(c, tx[c].inv))
               q == [tx[c] EXCEPT !.total = owed, !.pc = "payments"]
    <3>1. owed \in Nat
      BY OwedIs
    <3>2. tx' = [tx EXCEPT ![c].total = owed, ![c].pc = "payments"]
      BY <2>2 DEF ReadLines
    <3> HIDE DEF owed
    <3>3. tx' = [tx EXCEPT ![c] = q]
      BY <3>2, TypedFacts
    <3>4. q \in Requests
      BY <1>0, <3>1 DEF Requests, Steps
    <3>5. q.op = tx[c].op /\ q.inv = tx[c].inv /\ q.item = tx[c].item
          /\ q.amount = tx[c].amount /\ q.pc = "payments"
      BY <1>0 DEF Requests
    <3> QED
      BY <3>3, <3>4, <3>5
  <2>3. CASE ReadPayments(c)
    <3> DEFINE amount(x) == Seen(pay, c, x).amount
               paid == MapThenSumSet(amount, PaymentsOf(c, tx[c].inv))
               od == tx[c].inv \in due /\ tx[c].was # "draft" /\ tx[c].total > paid
               to == statusAfterPayment(tx[c].was, tx[c].total, paid, od)
               q == [tx[c] EXCEPT !.paid = paid, !.pc = "totals", !.to = to]
    <3>1. paid \in Nat
      BY ReceivedIs
    <3>2. tx' = [tx EXCEPT ![c].paid = paid, ![c].pc = "totals", ![c].to = to]
      BY <2>3 DEF ReadPayments
    <3>3. to \in InvoiceStatuses
      BY <1>0, StatusTyped DEF Requests
    <3> HIDE DEF paid, to
    <3>4. tx' = [tx EXCEPT ![c] = q]
      BY <3>2, TypedFacts
    <3>5. q \in Requests
      BY <1>0, <3>1, <3>3 DEF Requests, Steps
    <3>6. q.op = tx[c].op /\ q.inv = tx[c].inv /\ q.item = tx[c].item
          /\ q.amount = tx[c].amount /\ q.pc = "totals"
      BY <1>0 DEF Requests
    <3> QED
      BY <3>4, <3>5, <3>6
  <2> QED
    BY <2>1, <2>2, <2>3
<1>2. inv' = inv /\ line' = line /\ pay' = pay /\ seq' = seq /\ due' = due
  BY DEF ReadInvoice, ReadLines, ReadPayments, tables
<1> QED
  BY <1>0, <1>1, <1>2, TypedFacts, MoveTyped

\* Goto.
LEMMA GoesOn ==
  ASSUME TypedInv, NEW c \in Conns, NEW pc \in Steps \ {"idle", "insert", "memo"}, Goto(c, pc)
  PROVE  \E q \in Requests :
           /\ tx' = [tx EXCEPT ![c] = q] /\ q.op = tx[c].op /\ q.inv = tx[c].inv
           /\ q.item = tx[c].item /\ q.amount = tx[c].amount /\ q.pc = pc
           /\ q.to = tx[c].to /\ q.was = tx[c].was /\ q.number = tx[c].number
<1> DEFINE q == [tx[c] EXCEPT !.pc = pc]
<1>1. tx[c] \in Requests
  BY TypedFacts
<1>2. q \in Requests /\ q.op = tx[c].op /\ q.inv = tx[c].inv /\ q.item = tx[c].item
      /\ q.amount = tx[c].amount /\ q.pc = pc /\ q.to = tx[c].to /\ q.was = tx[c].was
      /\ q.number = tx[c].number
  BY <1>1 DEF Requests
<1>3. tx' = [tx EXCEPT ![c] = q]
  BY DEF Goto
<1> QED
  BY <1>2, <1>3

LEMMA InsertInvoiceTyped ==
  ASSUME TypedInv, NEW c \in Conns, InsertInvoice(c)
  PROVE  TypedInv'
<1> DEFINE pc == IF tx[c].item = NoItem THEN "invoice" ELSE "item"
           r == [NotInserted EXCEPT !.status = "draft", !.job = tx[c].job]
           i == tx[c].inv
<1>1. /\ tx[c].pc = "insert" /\ tx[c].op = "create" /\ i \in Invoices /\ tx[c] \in Requests
  BY TypedFacts DEF InsertInvoice, Serving, OnInvoice
<1>2. PICK q \in Requests :
        /\ tx' = [tx EXCEPT ![c] = q] /\ q.op = tx[c].op /\ q.inv = tx[c].inv
        /\ q.item = tx[c].item /\ q.amount = tx[c].amount /\ q.pc = pc
  <2>1. pc \in Steps \ {"idle", "insert", "memo"} /\ Goto(c, pc)
    BY DEF InsertInvoice, Steps
  <2> QED
    BY <2>1, GoesOn
<1>3. r \in InvoiceRows /\ r.status = "draft"
  BY <1>1 DEF Requests, NotInserted, InvoiceRows, InvoiceStatuses
<1>4. inv' = Written(inv, c, i, r) /\ line' = line /\ pay' = pay /\ seq' = seq /\ due' = due
  BY DEF InsertInvoice
<1> HIDE DEF r, pc
<1>5. /\ inv' \in Tables(Invoices, InvoiceRows) /\ inv'.row = inv.row
      /\ \A k \in Invoices : /\ inv'.new[k] = IF k = i THEN r ELSE inv.new[k]
                             /\ inv'.lock[k] = IF k = i THEN c ELSE inv.lock[k]
  BY <1>1, <1>3, <1>4, TypedFacts, TableWritten
<1>6. Placed'
  BY <1>3, <1>4, <1>5, TypedFacts, SMTT(30) DEF Placed, Exists
<1> HIDE DEF i
<1>7. inv'.lock[tx[c].inv] = c
  BY <1>1, <1>5 DEF i
<1>8. \A k \in Invoices : inv'.lock[k] # inv.lock[k] => k = tx[c].inv /\ q.op = "create"
  BY <1>1, <1>2, <1>5 DEF i
<1>9. /\ pc \notin {"idle", "insert", "memo", "header", "edits"}
      /\ pc = "item" => tx[c].pc = "insert" /\ tx[c].item # NoItem
  BY <1>1 DEF pc
<1>10. tx[c].pc # "idle" /\ inv'.row = inv.row /\ pay'.row = pay.row
  BY <1>1, <1>4, <1>5
<1>11. /\ inv' \in Tables(Invoices, InvoiceRows) /\ line' \in Tables(Lines, LineRows)
       /\ pay' \in Tables(Payments, PaymentRows) /\ seq' \in Tables(Sequences, Nat)
  BY <1>4, <1>5, TypedFacts
<1> QED
  BY <1>2, <1>4, <1>6, <1>7, <1>8, <1>9, <1>10, <1>11, StatementTyped

\* Line items and payments.
LEMMA LineTyped ==
  ASSUME TypedInv, NEW c \in Conns, InsertLine(c) \/ ChangeLine(c)
  PROVE  TypedInv'
<1>1. /\ tx[c].pc = "item" /\ tx[c].inv \in Invoices /\ tx[c].item \in Lines
      /\ tx[c].amount \in Amounts \cup {0} /\ OnInvoice(c)
  BY TypedFacts DEF InsertLine, ChangeLine, Serving, OnInvoice, HasItem
<1>2. PICK q \in Requests :
        /\ tx' = [tx EXCEPT ![c] = q] /\ q.op = tx[c].op /\ q.inv = tx[c].inv
        /\ q.item = tx[c].item /\ q.amount = tx[c].amount
        /\ q.pc = "invoice" \/ (q.pc = "edits" /\ q.op = "review")
  <2>1. PICK pc \in Steps \ {"idle", "insert", "memo"} :
          /\ Goto(c, pc)
          /\ pc = "invoice" \/ (pc = "edits" /\ tx[c].op = "review")
    BY DEF InsertLine, ChangeLine, Steps
  <2> QED
    BY <2>1, GoesOn
<1>3. /\ line' \in {line, Written(line, c, tx[c].item, Line(c))}
      /\ inv' = inv /\ pay' = pay /\ seq' = seq /\ due' = due
  BY DEF InsertLine, ChangeLine
<1>4. Line(c) \in LineRows /\ Line(c).invoice \in Invoices
  BY <1>1 DEF Line, LineRows
<1>5. /\ line' \in Tables(Lines, LineRows) /\ line'.row = line.row
      /\ \A l \in Lines : line'.new[l] \in {Line(c), line.new[l]}
  BY <1>1, <1>3, <1>4, TypedFacts, TableWritten
<1>6. Placed'
  BY <1>3, <1>4, <1>5, TypedFacts DEF Placed, Exists
<1>7. q.op = "create" => inv'.lock[q.inv] = c
  BY <1>1, <1>2, <1>3 DEF OnInvoice
<1> QED
  BY <1>1, <1>2, <1>3, <1>5, <1>6, <1>7, TypedFacts, StatementTyped

LEMMA PaymentTyped ==
  ASSUME TypedInv, NEW c \in Conns, InsertPayment(c) \/ RefundPayment(c)
  PROVE  TypedInv'
<1> DEFINE p == tx[c].item
<1>1. /\ tx[c].pc = "item" /\ Exists(tx[c].inv) /\ p \in Payments /\ tx[c].inv \in Invoices
      /\ tx[c].op \in {"pay", "voidPayment"} /\ tx[c] \in Requests
  BY TypedFacts DEF InsertPayment, RefundPayment, Serving, OnInvoice, HasItem, Exists
<1>2. PICK q \in Requests :
        /\ tx' = [tx EXCEPT ![c] = q] /\ q.op = tx[c].op /\ q.inv = tx[c].inv
        /\ q.item = tx[c].item /\ q.amount = tx[c].amount /\ q.pc = "invoice"
  <2>1. "invoice" \in Steps \ {"idle", "insert", "memo"} /\ Goto(c, "invoice")
    BY DEF InsertPayment, RefundPayment, Steps
  <2> QED
    BY <2>1, GoesOn
<1>3. PICK r \in PaymentRows :
        /\ pay' = Written(pay, c, p, r) /\ r.status # "none" /\ Exists(r.invoice)
  <2>1. CASE InsertPayment(c)
    <3> DEFINE r == [invoice |-> tx[c].inv, amount |-> tx[c].amount, status |-> tx[c].as]
    <3>1. tx[c].amount \in Amounts /\ tx[c].as \in {"pending", "cleared"}
      BY <1>1, <2>1, TypedFacts, LedgerConstants DEF HasItem, InsertPayment, Requests
    <3>2. r \in PaymentRows /\ r.status # "none" /\ Exists(r.invoice)
      BY <1>1, <3>1 DEF PaymentRows
    <3> QED
      BY <2>1, <3>2 DEF InsertPayment
  <2>2. CASE RefundPayment(c)
    <3> DEFINE r == [pay.row[p] EXCEPT !.status = "refunded"]
    <3>1. pay.row[p] \in PaymentRows /\ Exists(pay.row[p].invoice)
      BY <1>1, <2>2, TypedFacts, LedgerConstants DEF HasItem, RefundPayment, Placed
    <3>2. r \in PaymentRows /\ r.status # "none" /\ r.invoice = pay.row[p].invoice
      BY <3>1 DEF PaymentRows
    <3> QED
      BY <2>2, <3>1, <3>2 DEF RefundPayment
  <2> QED
    BY <2>1, <2>2
<1>4. inv' = inv /\ line' = line /\ seq' = seq /\ due' = due
  BY DEF InsertPayment, RefundPayment
<1>5. /\ pay' \in Tables(Payments, PaymentRows) /\ pay'.row = pay.row
      /\ \A y \in Payments : /\ pay'.new[y] = IF y = p THEN r ELSE pay.new[y]
                             /\ pay'.lock[y] = IF y = p THEN c ELSE pay.lock[y]
  BY <1>1, <1>3, TypedFacts, TableWritten
<1> HIDE DEF p
<1>6. Placed'
  BY <1>3, <1>4, <1>5, TypedFacts, SMTT(30) DEF Placed, Exists
<1> QED
  BY <1>1, <1>2, <1>4, <1>5, <1>6, TypedFacts, StatementTyped

\* The row of the invoice.
LEMMA WriteTyped ==
  ASSUME TypedInv, NEW c \in Conns, WriteTotals(c) \/ WriteStatus(c) \/ WriteHeader(c)
  PROVE  TypedInv'
<1> DEFINE i == tx[c].inv
<1>1. /\ tx[c].pc \in {"totals", "status", "header"} /\ OnInvoice(c) /\ i \in Invoices
      /\ tx[c] \in Requests /\ inv.lock[i] \in {NoConn, c}
  BY TypedFacts DEF WriteTotals, WriteStatus, WriteHeader, Serving, OnInvoice, Free
<1>2. PICK q \in Requests :
        /\ tx' = [tx EXCEPT ![c] = q] /\ q.op = tx[c].op /\ q.inv = tx[c].inv
        /\ q.item = tx[c].item /\ q.amount = tx[c].amount
        /\ q.pc = "commit" \/ (q.pc = "edits" /\ q.op = "review")
  <2>1. PICK pc \in Steps \ {"idle", "insert", "memo"} :
          /\ Goto(c, pc)
          /\ pc = "commit" \/ (pc = "edits" /\ tx[c].op = "review")
    BY <1>1 DEF WriteTotals, WriteStatus, WriteHeader, Serving, OnInvoice, Steps
  <2> QED
    BY <2>1, GoesOn
<1>3. PICK r \in InvoiceRows : inv' = Written(inv, c, i, r) /\ r.status # "none"
  <2>1. CASE WriteTotals(c)
    <3> DEFINE s == Seen(inv, c, i)
               r == [s EXCEPT !.total = tx[c].total, !.paid = tx[c].paid, !.status = tx[c].to]
    <3>1. s \in InvoiceRows
      BY <1>1, SeenRows
    <3>2. inv' = Written(inv, c, i, r)
      BY <2>1 DEF WriteTotals
    <3> HIDE DEF s
    <3>3. r \in InvoiceRows /\ r.status # "none"
      BY <1>1, <3>1 DEF InvoiceRows, Requests, InvoiceStatuses
    <3> HIDE DEF r
    <3> QED
      BY <3>2, <3>3
  <2>2. CASE WriteStatus(c)
    <3> DEFINE s == inv.row[i]
               n == IF tx[c].op = "issue" THEN tx[c].number ELSE s.number
               r == [s EXCEPT !.status = tx[c].to, !.number = n]
    <3>1. s \in InvoiceRows
      BY <1>1, TypedFacts
    <3>2. inv' = Written(inv, c, i, r)
      BY <2>2 DEF WriteStatus
    <3> HIDE DEF s
    <3>3. r \in InvoiceRows /\ r.status # "none"
      BY <1>1, <3>1 DEF InvoiceRows, Requests, InvoiceStatuses
    <3> HIDE DEF r
    <3> QED
      BY <3>2, <3>3
  <2>3. CASE WriteHeader(c)
    BY <1>1, <2>3, TypedFacts DEF WriteHeader, Serving, OnInvoice, Exists
  <2> QED
    BY <2>1, <2>2, <2>3
<1>4. line' = line /\ pay' = pay /\ seq' = seq /\ due' = due
  BY DEF WriteTotals, WriteStatus, WriteHeader
<1>5. /\ inv' \in Tables(Invoices, InvoiceRows) /\ inv'.row = inv.row
      /\ \A k \in Invoices : /\ inv'.new[k] = IF k = i THEN r ELSE inv.new[k]
                             /\ inv'.lock[k] = IF k = i THEN c ELSE inv.lock[k]
  BY <1>1, <1>3, TypedFacts, TableWritten
<1>6. Placed'
  BY <1>3, <1>4, <1>5, TypedFacts, SMTT(30) DEF Placed, Exists
<1> HIDE DEF i
<1>7. inv'.lock[tx[c].inv] = c
  BY <1>1, <1>5 DEF i
<1>8. \A k \in Invoices : inv'.lock[k] # inv.lock[k] => k = tx[c].inv /\ inv.lock[k] \in {NoConn, c}
  BY <1>1, <1>5 DEF i
<1> QED
  BY <1>1, <1>2, <1>4, <1>5, <1>6, <1>7, <1>8, TypedFacts, StatementTyped

\* The next line of a review.
LEMMA EditTyped ==
  ASSUME TypedInv, NEW c \in Conns, NextEdit(c)
  PROVE  TypedInv'
<1>1. PICK l \in Lines, a \in Amounts :
        tx' = [tx EXCEPT ![c].item = l, ![c].amount = a, ![c].pc = "item"]
  BY DEF NextEdit, LinesOf
<1> DEFINE q == [tx[c] EXCEPT !.item = l, !.amount = a, !.pc = "item"]
<1>2. /\ tx[c] \in Requests /\ OnInvoice(c) /\ tx[c].op = "review"
      /\ inv' = inv /\ line' = line /\ pay' = pay /\ seq' = seq /\ due' = due
  BY TypedFacts DEF NextEdit, Serving, OnInvoice, tables
<1>3. l \in Items /\ a \in Nat
  BY LedgerConstants DEF Items
<1>4. /\ tx' = [tx EXCEPT ![c] = q] /\ tx'[c] = q
      /\ q \in Requests /\ q.op = "review" /\ q.inv = tx[c].inv
      /\ q.item = l /\ q.amount = a /\ q.pc = "item"
  BY <1>1, <1>2, <1>3, TypedFacts DEF Requests, Steps
<1> HIDE DEF q
<1>5. OnInvoice(c)' /\ HasItem(c)'
  BY <1>2, <1>4 DEF OnInvoice, HasItem, Exists
<1>6. Placed'
  BY <1>2, TypedFacts DEF Placed, Exists
<1> QED
  BY <1>2, <1>4, <1>5, <1>6, TypedFacts, TypedStep

\* Numbers.
LEMMA NumberTyped ==
  ASSUME TypedInv, NEW c \in Conns, allocateMemoNumber(c) \/ allocateInvoiceNumber(c)
  PROVE  TypedInv'
<1>1. PICK s \in Sequences, n \in Nat : seq' = Written(seq, c, s, n)
  <2>1. \A s \in Sequences : seq.row[s] + 1 \in Nat
    BY TypedFacts DEF Tables
  <2> QED
    BY <2>1 DEF allocateMemoNumber, allocateInvoiceNumber, NextNumber, Sequences
<1>2. seq' \in Tables(Sequences, Nat)
  BY <1>1, TypedFacts, TableWritten
<1>3. inv' = inv /\ line' = line /\ pay' = pay /\ due' = due
  BY DEF allocateMemoNumber, allocateInvoiceNumber
<1>4. CASE allocateMemoNumber(c)
  <2>1. "item" \in Steps \ {"idle", "insert", "memo"} /\ Goto(c, "item") /\ tx[c].pc = "memo"
    BY <1>4 DEF allocateMemoNumber, Serving, Steps
  <2>2. PICK q \in Requests :
          /\ tx' = [tx EXCEPT ![c] = q] /\ q.op = tx[c].op /\ q.inv = tx[c].inv
          /\ q.item = tx[c].item /\ q.amount = tx[c].amount /\ q.pc = "item"
    BY <2>1, GoesOn
  <2> QED
    BY <1>2, <1>3, <2>1, <2>2, MoveTyped
<1>5. CASE allocateInvoiceNumber(c)
  <2> DEFINE m == seq.row["INV"] + 1
             q == [tx[c] EXCEPT !.number = m, !.pc = "status"]
  <2>1. m \in Nat /\ tx[c] \in Requests /\ tx[c].pc = "number"
    BY <1>5, TypedFacts DEF Tables, Sequences, allocateInvoiceNumber, Serving
  <2>2. tx' = [tx EXCEPT ![c] = q]
    BY <1>5, TypedFacts DEF allocateInvoiceNumber
  <2> HIDE DEF m
  <2>3. q \in Requests /\ q.op = tx[c].op /\ q.inv = tx[c].inv /\ q.item = tx[c].item
        /\ q.amount = tx[c].amount /\ q.pc = "status"
    BY <2>1 DEF Requests, Steps
  <2> QED
    BY <1>2, <1>3, <2>1, <2>2, <2>3, MoveTyped
<1> QED
  BY <1>4, <1>5

\* The end of a transaction.
LEMMA EndTyped ==
  ASSUME TypedInv, NEW c \in Conns, Commit(c) \/ Abort(c)
  PROVE  TypedInv'
<1>1. tx' = [tx EXCEPT ![c] = Idle] /\ due' = due
  BY DEF Commit, Abort, End
<1>2. /\ inv' \in Tables(Invoices, InvoiceRows) /\ line' \in Tables(Lines, LineRows)
      /\ pay' \in Tables(Payments, PaymentRows) /\ seq' \in Tables(Sequences, Nat)
  BY TypedFacts, TableCommitted, TableRolledBack DEF Commit, Abort
<1>3. /\ \A i \in Invoices :
           /\ inv'.lock[i] = IF inv.lock[i] = c THEN NoConn ELSE inv.lock[i]
           /\ inv'.row[i] \in {inv.row[i], inv.new[i]}
           /\ inv'.row[i] # inv.row[i] => inv.lock[i] = c
           /\ inv'.lock[i] # NoConn => inv'.new[i] = inv.new[i]
      /\ \A l \in Lines : /\ line'.row[l] \in {line.row[l], line.new[l]}
                          /\ line'.new[l] \in {line.row[l], line.new[l]}
      /\ \A p \in Payments :
           /\ pay'.row[p] \in {pay.row[p], pay.new[p]} /\ pay'.new[p] \in {pay.row[p], pay.new[p]}
           /\ pay'.row[p] # pay.row[p] => pay.lock[p] = c
           /\ pay'.lock[p] = IF pay.lock[p] = c THEN NoConn ELSE pay.lock[p]
           /\ pay'.lock[p] # NoConn => pay'.new[p] = pay.new[p]
  <2>1. CASE Commit(c)
    BY <2>1, TypedFacts, TableCommitted DEF Commit
  <2>2. CASE Abort(c)
    BY <2>2, TypedFacts, TableRolledBack DEF Abort
  <2> QED
    BY <2>1, <2>2
<1>4. \A i \in Invoices : inv.row[i].status # "none" => inv'.row[i].status # "none"
  BY <1>3, TypedFacts, NoConnIsNone DEF Placed
<1>5. \A p \in Payments : pay.row[p].status # "none" => pay'.row[p].status # "none"
  BY <1>3, TypedFacts, NoConnIsNone DEF Placed
<1>6. Placed'
  <2>2. \A i \in Invoices : inv'.lock[i] # NoConn => inv'.new[i].status # "none"
    BY <1>3, TypedFacts DEF Placed
  <2>3. \A l \in Lines : /\ line'.row[l].amount > 0 => line'.row[l].invoice \in Invoices
                         /\ line'.new[l].amount > 0 => line'.new[l].invoice \in Invoices
    BY <1>3, TypedFacts DEF Placed
  <2>4. \A p \in Payments : /\ pay'.row[p].status # "none" => Exists(pay'.row[p].invoice)
                            /\ pay'.new[p].status # "none" => Exists(pay'.new[p].invoice)
                            /\ pay'.lock[p] # NoConn => pay'.new[p].status # "none"
    BY <1>3, TypedFacts DEF Placed
  <2>5. \A p \in Payments :
          /\ pay'.row[p].status # "none" =>
               /\ pay'.row[p].invoice \in Invoices
               /\ inv'.row[pay'.row[p].invoice].status # "none"
          /\ pay'.new[p].status # "none" =>
               /\ pay'.new[p].invoice \in Invoices
               /\ inv'.row[pay'.new[p].invoice].status # "none"
    BY <1>4, <2>4 DEF Exists
  <2> QED
    BY <2>2, <2>3, <2>4, <2>5 DEF Placed, Exists
<1>7. \A d \in Conns \ {c} : Creating(d) /\ inv.lock[tx[d].inv] = d => inv'.lock[tx[d].inv] = d
  BY <1>3, TypedFacts DEF Creating, OnInvoice
<1> QED
  BY <1>1, <1>2, <1>4, <1>5, <1>6, <1>7, IdleRequest, TypedFacts, TypedStep

\* The sweep and the clock.
LEMMA TimeTyped ==
  ASSUME TypedInv, markOverdueSweep \/ UNCHANGED vars \/ \E i \in Invoices : FallDue(i)
  PROVE  TypedInv'
<1>1. /\ line' = line /\ pay' = pay /\ seq' = seq /\ tx' = tx /\ due' \subseteq Invoices
      /\ inv' \in Tables(Invoices, InvoiceRows) /\ inv'.lock = inv.lock
      /\ \A i \in Invoices : /\ inv'.row[i].status = "none" <=> inv.row[i].status = "none"
                             /\ inv'.new[i].status = "none" => inv.new[i].status = "none"
  <2>1. CASE markOverdueSweep
    <3> DEFINE swept(r, i) == IF i \in Sweepable THEN [r EXCEPT !.status = "overdue"] ELSE r
    <3>1. /\ inv'.row = [i \in Invoices |-> swept(inv.row[i], i)]
          /\ inv'.new = [i \in Invoices |-> swept(inv.new[i], i)]
          /\ inv'.lock = inv.lock
          /\ inv' \in [row : {inv'.row}, new : {inv'.new}, lock : {inv'.lock}]
      BY <2>1, TypedFacts DEF markOverdueSweep, Tables
    <3>2. \A i \in Invoices, r \in InvoiceRows :
            /\ swept(r, i) \in InvoiceRows
            /\ i \notin Sweepable => swept(r, i) = r
            /\ i \in Sweepable => swept(r, i).status = "overdue"
      BY DEF InvoiceRows, InvoiceStatuses
    <3>3. \A i \in Sweepable : inv.row[i].status # "none"
      BY DEF Sweepable
    <3> HIDE DEF swept
    <3>4. inv' \in Tables(Invoices, InvoiceRows)
      BY <3>1, <3>2, TypedFacts DEF Tables
    <3>5. \A i \in Invoices : /\ inv'.row[i].status = "none" <=> inv.row[i].status = "none"
                              /\ inv'.new[i].status = "none" => inv.new[i].status = "none"
      BY <3>1, <3>2, <3>3, TypedFacts
    <3> QED
      BY <2>1, <3>1, <3>4, <3>5, TypedFacts DEF markOverdueSweep
  <2>2. CASE UNCHANGED vars \/ \E i \in Invoices : FallDue(i)
    BY <2>2, TypedFacts DEF vars, tables, FallDue
  <2> QED
    BY <2>1, <2>2
<1>2. \A x : Exists(x)' <=> Exists(x)
  BY <1>1 DEF Exists
<1>3. Placed'
  BY <1>1, <1>2, TypedFacts DEF Placed, Exists
<1>4. \A c \in Conns : (OnInvoice(c) => OnInvoice(c)') /\ (HasItem(c) => HasItem(c)')
  BY <1>1, <1>2 DEF OnInvoice, HasItem, Exists
<1>5. TypeOK'
  BY <1>1, TypedFacts DEF TypeOK
<1> QED
  BY <1>1, <1>3, <1>4, <1>5 DEF TypedInv, Creating

LEMMA StepTyped == TypedInv /\ [Next]_vars => TypedInv'
<1> SUFFICES ASSUME TypedInv, [Next]_vars PROVE TypedInv'
  OBVIOUS
<1>1. ASSUME NEW c \in Conns, Request(c) PROVE TypedInv'
  BY <1>1, RequestBegins, BeginTyped
<1>2. ASSUME NEW c \in Conns, Statement(c) PROVE TypedInv'
  BY <1>2, InsertInvoiceTyped, LineTyped, EditTyped, PaymentTyped, NumberTyped, ReadsTyped,
     WriteTyped, EndTyped DEF Statement
<1> QED
  BY <1>1, <1>2, EndTyped, TimeTyped DEF Next

\* The tables keep their types whatever the connections do, and what the reads of
\* recomputeTotals sum are sums of naturals.
THEOREM TypeCorrect == Spec => []TypeOK
<1>1. TypedInv => TypeOK
  BY DEF TypedInv
<1> QED
  BY <1>1, InitTyped, StepTyped, PTL DEF Spec

-----------------------------------------------------------------------------
(***************************************************************************)
(* One connection: the requests one after the other, with their failures,  *)
(* while invoices fall due and the sweep goes over them.                   *)
(***************************************************************************)
OneConnection == \A c, d \in Conns : c = d

\* What an invoice's lines and its cleared payments come to in a table.
LinesIn(rows, i) == {l \in Lines : rows[l].invoice = i}
ClearedIn(rows, i) == {p \in Payments : rows[p].invoice = i /\ rows[p].status = "cleared"}
SumOf(rows, S) == Sum([x \in S |-> rows[x].amount], S)
Charges(rows, i) == SumOf(rows, LinesIn(rows, i))
Receipts(rows, i) == SumOf(rows, ClearedIn(rows, i))

\* The table a connection sees.
LinesSeen(c) == [l \in Lines |-> Seen(line, c, l)]
PaymentsSeen(c) == [p \in Payments |-> Seen(pay, c, p)]

Settled(r) == r.total > 0 /\ r.paid >= r.total
Marked(r) ==
  /\ r.status # "refunded"
  /\ r.status \notin {"none", "draft", "void"} => (r.status = "paid" <=> Settled(r))

Early == {"none", "draft"}

\* The committed rows.
Books ==
  /\ NumbersGapless
  /\ \A i \in Invoices : /\ inv.row[i].total = Charges(line.row, i)
                         /\ inv.row[i].paid = Receipts(pay.row, i)
                         /\ Marked(inv.row[i])
                         /\ inv.row[i].status \in Early => inv.row[i].number = 0
  /\ \A p \in Payments : pay.row[p].status # "none" =>
       inv.row[pay.row[p].invoice].status \notin Early

\* What a request has locked.
LineOps == {"create", "addLine", "updateLine", "review"}
PaymentOps == {"pay", "voidPayment"}
StatusOps == {"issue", "status"}

Held(c) ==
  LET t == tx[c] IN
  /\ \A i \in Invoices : inv.lock[i] = c => t.pc # "idle" /\ i = t.inv
  /\ \A l \in Lines : line.lock[l] = c =>
       /\ t.pc \notin {"idle", "header"} /\ t.op \in LineOps /\ line.new[l].invoice = t.inv
       /\ IF t.op = "review" THEN line.row[l].invoice = t.inv ELSE l = t.item
  /\ \A p \in Payments : pay.lock[p] = c =>
       t.pc # "idle" /\ t.op \in PaymentOps /\ p = t.item /\ pay.new[p].invoice = t.inv
  /\ seq.lock["INV"] = c => t.op = "issue" /\ t.pc \in {"status", "commit"}

\* The rows it was begun on are as they were, but for the sweep.
Suits(q) ==
  LET r == inv.row[q.inv] IN
  /\ q.op = "create" => r.status = "none" /\ (q.item # NoItem => line.row[q.item] = NoLine)
  /\ q.op = "addLine" => r.status = "draft" /\ line.row[q.item] = NoLine
  /\ q.op = "updateLine" => r.status = "draft" /\ line.row[q.item].invoice = q.inv
  /\ q.op = "review" => r.status = "draft"
  /\ q.op = "review" /\ q.pc = "item" => line.row[q.item].invoice = q.inv
  /\ q.pc \in {"header", "edits"} => q.op = "review"
  /\ q.pc = "memo" => q.op = "pay"
  /\ q.op = "pay" => r.status \notin Early /\ pay.row[q.item] = NoPayment
  /\ q.op = "voidPayment" => r.status \notin Early /\ pay.row[q.item].invoice = q.inv
  /\ q.op = "issue" => r.status = "draft" /\ q.to \in {"issued", "sent"}
  /\ q.op = "status" => r.status # "none" /\ q.to \in {"sent", "void"}
  /\ q.op = "status" /\ q.to = "sent" => r.status \notin Early \cup {"void"}
  /\ q.op \in StatusOps /\ q.to # "void" => ~Settled(r)
  /\ q.op \in StatusOps => q.pc \in {"number", "status", "commit"}
  /\ q.pc = "number" => q.op = "issue"
  /\ q.pc = "status" => q.op \in StatusOps
  /\ q.op # "none"

\* What recomputeTotals has read.
Recomputed(c) ==
  LET t == tx[c] IN
  /\ t.pc \in {"lines", "payments", "totals"} =>
       /\ t.was # "refunded"
       /\ t.was = "draft" <=> Seen(inv, c, t.inv).status = "draft"
       /\ t.was = "void" <=> Seen(inv, c, t.inv).status = "void"
  /\ t.pc \in {"payments", "totals"} => t.total = Charges(LinesSeen(c), t.inv)
  /\ t.pc = "totals" =>
       /\ t.paid = Receipts(PaymentsSeen(c), t.inv)
       /\ t.to = "draft" => t.was = "draft"
       /\ t.was = "void" => t.to = "void"
       /\ t.to # "refunded"
       /\ t.to \notin {"draft", "void"} =>
            (t.to = "paid" <=> t.total > 0 /\ t.paid >= t.total)

\* The row it will commit.
Rewritten(c) ==
  LET t == tx[c] IN
  \A i \in Invoices : inv.lock[i] = c =>
    LET n == inv.new[i]
        r == inv.row[i]
    IN
    /\ Marked(n) /\ (n.status \in Early => r.status \in Early)
    /\ r.status = "void" => n.status = "void"
    /\ IF t.op = "issue" THEN n.number = t.number /\ t.pc = "commit" ELSE n.number = r.number
    /\ t.op \in StatusOps => n.total = r.total /\ n.paid = r.paid /\ n.status = t.to

Closing(c) ==
  LET t == tx[c] IN
  t.pc = "commit" =>
    /\ inv.lock[t.inv] = c
    /\ t.op \notin StatusOps =>
         /\ inv.new[t.inv].total = Charges(LinesSeen(c), t.inv)
         /\ inv.new[t.inv].paid = Receipts(PaymentsSeen(c), t.inv)

Numbered(c) ==
  tx[c].op = "issue" /\ tx[c].pc \in {"status", "commit"} =>
    /\ seq.lock["INV"] = c /\ seq.new["INV"] = seq.row["INV"] + 1
    /\ tx[c].number = seq.row["INV"] + 1

UnderWay(c) == Suits(tx[c]) /\ Recomputed(c) /\ Rewritten(c) /\ Closing(c) /\ Numbered(c)

SerialInv ==
  /\ TypedInv /\ Books
  /\ \A c \in Conns : Held(c) /\ (tx[c].pc # "idle" => UnderWay(c))

\* The sums of a table change with its rows only.
LEMMA SameCharges ==
  ASSUME NEW rows, NEW new, NEW i,
         \A l \in Lines : new[l] = rows[l] \/ (rows[l].invoice # i /\ new[l].invoice # i)
  PROVE  Charges(new, i) = Charges(rows, i)
<1> DEFINE S == LinesIn(rows, i)
<1>1. LinesIn(new, i) = S /\ \A l \in S : new[l] = rows[l]
  BY DEF LinesIn
<1> HIDE DEF S
<1>2. [x \in S |-> new[x].amount] = [x \in S |-> rows[x].amount]
  BY <1>1
<1> QED
  BY <1>1, <1>2 DEF Charges, SumOf, S

LEMMA SameReceipts ==
  ASSUME NEW rows, NEW new, NEW i,
         \A p \in Payments : new[p] = rows[p] \/ (rows[p].invoice # i /\ new[p].invoice # i)
  PROVE  Receipts(new, i) = Receipts(rows, i)
<1> DEFINE S == ClearedIn(rows, i)
<1>1. ClearedIn(new, i) = S /\ \A p \in S : new[p] = rows[p]
  BY DEF ClearedIn
<1> HIDE DEF S
<1>2. [x \in S |-> new[x].amount] = [x \in S |-> rows[x].amount]
  BY <1>1
<1> QED
  BY <1>1, <1>2 DEF Receipts, SumOf, S

LEMMA EmptySum == ASSUME NEW rows PROVE SumOf(rows, {}) = 0
<1> DEFINE f == [x \in {} |-> rows[x].amount]
<1>1. IsFiniteSet({})
  BY FS_EmptySet
<1>2. PICK g : Adds(g, f, {})
  BY <1>1, AddsTo
<1>3. Sum(f, {}) = g[{}]
  BY <1>1, <1>2, SumIs
<1> QED
  BY <1>2, <1>3 DEF SumOf, Adds

LEMMA NoRows ==
  ASSUME NEW rows, NEW i
  PROVE  /\ (\A l \in Lines : rows[l].invoice # i) => Charges(rows, i) = 0
         /\ (\A p \in Payments : rows[p].invoice = i => rows[p].status # "cleared") =>
              Receipts(rows, i) = 0
<1>1. (\A l \in Lines : rows[l].invoice # i) => LinesIn(rows, i) = {}
  BY DEF LinesIn
<1>2. (\A p \in Payments : rows[p].invoice = i => rows[p].status # "cleared") =>
        ClearedIn(rows, i) = {}
  BY DEF ClearedIn
<1> QED
  BY <1>1, <1>2, EmptySum DEF Charges, Receipts

\* The books state TotalsMatch, and a read is a sum of what the connection sees.
LEMMA AmountsNat ==
  /\ \A r \in LineRows : r.amount \in Nat
  /\ \A r \in PaymentRows : r.amount \in Nat
<1>1. Amounts \cup {0} \subseteq Nat
  BY LedgerConstants
<1> QED
  BY <1>1 DEF LineRows, PaymentRows

LEMMA BooksMatch == SerialInv => TotalsMatch
<1> SUFFICES ASSUME SerialInv, NEW i \in Invoices
             PROVE  LET owed(l) == line.row[l].amount
                        received(p) == pay.row[p].amount
                    IN
                    /\ inv.row[i].total = MapThenSumSet(owed, {l \in Lines : line.row[l].invoice = i})
                    /\ inv.row[i].paid = MapThenSumSet(received,
                         {p \in Payments : pay.row[p].invoice = i /\ pay.row[p].status = "cleared"})
  BY DEF TotalsMatch
<1> DEFINE owed(l) == line.row[l].amount
           received(p) == pay.row[p].amount
           L == {l \in Lines : line.row[l].invoice = i}
           P == {p \in Payments : pay.row[p].invoice = i /\ pay.row[p].status = "cleared"}
<1>1. TypedInv
  BY DEF SerialInv
<1>2. /\ IsFiniteSet(L) /\ IsFiniteSet(P)
      /\ \A x \in L : line.row[x].amount \in Nat
      /\ \A x \in P : pay.row[x].amount \in Nat
  BY <1>1, TypedFacts, AmountsNat, FS_Subset, LedgerConstants
<1>3. /\ inv.row[i].total = Charges(line.row, i) /\ inv.row[i].paid = Receipts(pay.row, i)
      /\ L = LinesIn(line.row, i) /\ P = ClearedIn(pay.row, i)
  BY DEF SerialInv, Books, LinesIn, ClearedIn
<1> HIDE DEF L, P
<1>4. MapThenSumSet(owed, L) = Sum([x \in L |-> line.row[x].amount], L)
  BY <1>2, RowSum
<1>5. MapThenSumSet(received, P) = Sum([x \in P |-> pay.row[x].amount], P)
  BY <1>2, RowSum
<1>6. inv.row[i].total = MapThenSumSet(owed, L)
  BY <1>3, <1>4 DEF Charges, SumOf
<1>7. inv.row[i].paid = MapThenSumSet(received, P)
  BY <1>3, <1>5 DEF Receipts, SumOf
<1> QED
  BY <1>6, <1>7 DEF L, P

LEMMA ReadsSum ==
  ASSUME TypedInv, NEW c \in Conns, NEW i
  PROVE  LET owed(x) == Seen(line, c, x).amount
             received(x) == Seen(pay, c, x).amount
         IN
         /\ MapThenSumSet(owed, LinesOf(c, i)) = Charges(LinesSeen(c), i)
         /\ MapThenSumSet(received, PaymentsOf(c, i)) = Receipts(PaymentsSeen(c), i)
<1> DEFINE owed(x) == Seen(line, c, x).amount
           received(x) == Seen(pay, c, x).amount
           L == LinesOf(c, i)
           P == PaymentsOf(c, i)
<1>1. /\ L = LinesIn(LinesSeen(c), i) /\ P = ClearedIn(PaymentsSeen(c), i)
      /\ L \subseteq Lines /\ P \subseteq Payments
  BY DEF LinesOf, PaymentsOf, LinesIn, ClearedIn, LinesSeen, PaymentsSeen
<1>2. /\ MapThenSumSet(owed, L) = Sum([x \in L |-> Seen(line, c, x).amount], L)
      /\ MapThenSumSet(received, P) = Sum([x \in P |-> Seen(pay, c, x).amount], P)
  BY OwedIs, ReceivedIs
<1> HIDE DEF L, P, owed, received
<1>3. /\ [x \in L |-> Seen(line, c, x).amount] = [x \in L |-> LinesSeen(c)[x].amount]
      /\ [x \in P |-> Seen(pay, c, x).amount] = [x \in P |-> PaymentsSeen(c)[x].amount]
  BY <1>1 DEF LinesSeen, PaymentsSeen
<1>4. MapThenSumSet(owed, L) = Charges(LinesSeen(c), i)
  BY <1>1, <1>2, <1>3 DEF Charges, SumOf
<1>5. MapThenSumSet(received, P) = Receipts(PaymentsSeen(c), i)
  BY <1>1, <1>2, <1>3 DEF Receipts, SumOf
<1> QED
  BY <1>4, <1>5 DEF L, P, owed, received

LEMMA SerialFacts ==
  ASSUME SerialInv, OneConnection, NEW c \in Conns
  PROVE  /\ TypedInv /\ Books /\ Held(c) /\ (tx[c].pc # "idle" => UnderWay(c))
         /\ \A d \in Conns : d = c
         /\ c # NoConn
         /\ \A i \in Invoices : inv.lock[i] # c => inv.lock[i] = NoConn
         /\ \A l \in Lines : line.lock[l] # c => line.lock[l] = NoConn
         /\ \A p \in Payments : pay.lock[p] # c => pay.lock[p] = NoConn
<1>1. TypedInv /\ \A d \in Conns : d = c
  BY DEF SerialInv, OneConnection
<1> QED
  BY <1>1, TypedFacts, NoConnIsNone DEF SerialInv

\* A step that commits nothing.
LEMMA SerialStep ==
  ASSUME SerialInv, OneConnection, NEW c \in Conns, TypedInv',
         inv'.row = inv.row, line'.row = line.row, pay'.row = pay.row, seq'.row = seq.row,
         Held(c)', tx'[c].pc # "idle" => UnderWay(c)'
  PROVE  SerialInv'
<1>1. Books'
  BY DEF SerialInv, Books, NumbersGapless
<1>2. \A d \in Conns : d = c
  BY SerialFacts
<1> QED
  BY <1>1, <1>2 DEF SerialInv

\* A request begins.
LEMMA BeginSerial ==
  ASSUME SerialInv, OneConnection, NEW c \in Conns, TypedInv',
         NEW q, Suits(q),
         q.pc \in {"insert", "header", "edits", "memo", "item", "number", "status"},
         q.op = "issue" => q.pc = "number", Begin(c, q)
  PROVE  SerialInv'
<1>1. /\ tx'[c] = q /\ inv' = inv /\ line' = line /\ pay' = pay /\ seq' = seq
      /\ tx[c].pc = "idle"
  BY SerialFacts, TypedFacts DEF Begin, tables, Serving
<1>2. /\ \A i \in Invoices : inv.lock[i] # c
      /\ \A l \in Lines : line.lock[l] # c
      /\ \A p \in Payments : pay.lock[p] # c
      /\ seq.lock["INV"] # c
  BY <1>1, SerialFacts DEF Held
<1>3. Held(c)'
  BY <1>1, <1>2 DEF Held
<1>4. Suits(tx[c])'
  BY <1>1 DEF Suits
<1>5. (Recomputed(c) /\ Rewritten(c) /\ Closing(c) /\ Numbered(c))'
  BY <1>1, <1>2 DEF Recomputed, Rewritten, Closing, Numbered
<1> QED
  BY <1>1, <1>3, <1>4, <1>5, SerialStep DEF UnderWay

LEMMA RequestSuits ==
  ASSUME SerialInv, OneConnection, NEW c \in Conns, Request(c)
  PROVE  \E q : /\ Suits(q) /\ Begin(c, q)
                /\ q.pc \in {"insert", "header", "edits", "memo", "item", "number", "status"}
                /\ q.op = "issue" => q.pc = "number"
<1> DEFINE Fits(q) == /\ Suits(q) /\ Begin(c, q)
                      /\ q.pc \in {"insert", "header", "edits", "memo", "item", "number", "status"}
                      /\ q.op = "issue" => q.pc = "number"
           Goal == \E q : Fits(q)
<1> USE DEF Early, StatusOps
<1>0. /\ TypedInv /\ Books
      /\ \A r \in InvoiceRows : r.total \in Nat /\ r.paid \in Nat
      /\ \A i \in Invoices : inv.row[i].total \in Nat /\ inv.row[i].paid \in Nat
  BY SerialFacts, TypedFacts DEF InvoiceRows
<1>1. ASSUME NEW i \in Invoices, createManual(c, i) PROVE Goal
  <2> DEFINE q == [Idle EXCEPT !.op = "create", !.pc = "insert", !.inv = i]
  <2>1. Fits(q)
    BY <1>1 DEF createManual, NewInvoice, Suits, Idle
  <2> QED
    BY <2>1
<1>2. ASSUME NEW i \in Invoices, markSent(c, i) PROVE Goal
  <2> DEFINE q == [Idle EXCEPT !.op = "status", !.pc = "status", !.inv = i, !.to = "sent"]
  <2>0. ~Settled(inv.row[i])
    BY <1>0, <1>2 DEF markSent, Books, Marked
  <2>1. Fits(q)
    BY <1>2, <2>0 DEF markSent, Suits, Idle
  <2> QED
    BY <2>1
<1>3. ASSUME NEW i \in Invoices, voidInvoice(c, i) PROVE Goal
  <2> DEFINE q == [Idle EXCEPT !.op = "status", !.pc = "status", !.inv = i, !.to = "void"]
  <2>1. Fits(q)
    BY <1>3 DEF voidInvoice, Suits, Idle
  <2> QED
    BY <2>1
<1>4. ASSUME NEW i \in Invoices, NEW status \in {"issued", "sent"}, issue(c, i, status)
      PROVE  Goal
  <2> DEFINE q == [Idle EXCEPT !.op = "issue", !.pc = "number", !.inv = i, !.to = status]
  <2>0. \A p \in Payments : pay.row[p].invoice = i => pay.row[p].status = "none"
    BY <1>0, <1>4 DEF issue, Books
  <2>1. inv.row[i].paid = 0
    BY <1>0, <2>0, NoRows DEF Books
  <2>2. ~Settled(inv.row[i])
    BY <1>0, <2>1 DEF Settled
  <2>3. Fits(q)
    BY <1>4, <2>2 DEF issue, Suits, Idle
  <2> QED
    BY <2>3
<1>5. ASSUME NEW i \in Invoices, NEW l \in Lines, NEW a \in Amounts, addLineItem(c, i, l, a)
      PROVE  Goal
  <2> DEFINE q == [Idle EXCEPT !.op = "addLine", !.pc = "item", !.inv = i, !.item = l, !.amount = a]
  <2>1. Fits(q)
    BY <1>5 DEF addLineItem, requireDraft, NewLine, Suits, Idle
  <2> QED
    BY <2>1
<1>6. ASSUME NEW i \in Invoices, NEW l \in Lines, NEW a \in Amounts, NEW j \in Jobs,
             generateFromJob(c, j, i, l, a)
      PROVE  Goal
  <2> DEFINE q == [Idle EXCEPT !.op = "create", !.pc = "insert", !.inv = i, !.job = j,
                               !.item = l, !.amount = a]
  <2>1. Fits(q)
    BY <1>6 DEF generateFromJob, NewInvoice, NewLine, Suits, Idle
  <2> QED
    BY <2>1
<1>7. ASSUME NEW l \in Lines, NEW a \in Amounts \cup {0}, updateLineItem(c, l, a)
      PROVE  Goal
  <2> DEFINE i == line.row[l].invoice
             q == [Idle EXCEPT !.op = "updateLine", !.pc = "item", !.inv = i, !.item = l, !.amount = a]
  <2>1. Begin(c, q) /\ inv.row[i].status = "draft"
    BY <1>7 DEF updateLineItem, requireDraft
  <2>2. i = line.row[l].invoice
    OBVIOUS
  <2> HIDE DEF i
  <2>3. Fits(q)
    BY <2>1, <2>2 DEF Suits, Idle
  <2> QED
    BY <2>3
<1>8. ASSUME NEW i \in Invoices, NEW p \in Payments, NEW a \in Amounts,
             createCreditMemo(c, i, p, a)
      PROVE  Goal
  <2> DEFINE q == [Idle EXCEPT !.op = "pay", !.pc = "memo", !.inv = i, !.item = p, !.amount = a]
  <2>1. Fits(q)
    BY <1>8 DEF createCreditMemo, NewPayment, Suits, Idle
  <2> QED
    BY <2>1
<1>9. ASSUME NEW i \in Invoices, NEW p \in Payments, NEW a \in Amounts,
             NEW status \in RecordedAs, recordPayment(c, i, p, a, status)
      PROVE  Goal
  <2> DEFINE q == [Idle EXCEPT !.op = "pay", !.pc = "item", !.inv = i, !.item = p,
                               !.amount = a, !.as = status]
  <2>1. Fits(q)
    BY <1>9 DEF recordPayment, NewPayment, Suits, Idle
  <2> QED
    BY <2>1
<1>10. ASSUME NEW p \in Payments, voidPayment(c, p) PROVE Goal
  <2> DEFINE i == pay.row[p].invoice
             q == [Idle EXCEPT !.op = "voidPayment", !.pc = "item", !.item = p, !.inv = i]
  <2>1. Begin(c, q) /\ inv.row[i].status \notin Early /\ i = pay.row[p].invoice
    BY <1>0, <1>10 DEF voidPayment, Books
  <2> HIDE DEF i
  <2>2. Fits(q)
    BY <2>1 DEF Suits, Idle
  <2> QED
    BY <2>2
<1>11. ASSUME NEW i \in Invoices, updateReview(c, i) PROVE Goal
  <2>1. PICK pc \in {"header", "edits"} :
          Begin(c, [Idle EXCEPT !.op = "review", !.pc = pc, !.inv = i])
    BY <1>11 DEF updateReview
  <2> DEFINE q == [Idle EXCEPT !.op = "review", !.pc = pc, !.inv = i]
  <2>2. Fits(q)
    BY <1>11, <2>1 DEF updateReview, requireDraft, Suits, Idle
  <2> QED
    BY <2>2
<1> QED
  BY <1>1, <1>2, <1>3, <1>4, <1>5, <1>6, <1>7, <1>8, <1>9, <1>10, <1>11 DEF Request

\* A line, a payment or an invoice is written, or a memo takes its number.
LEMMA ItemStepSerial ==
  ASSUME SerialInv, OneConnection, NEW c \in Conns, TypedInv',
         tx[c].pc \in {"insert", "memo", "item"}, NEW pc \in {"item", "invoice", "edits"},
         Goto(c, pc), tx[c].op = "review" => tx[c].pc = "item" /\ pc # "item",
         pc = "edits" => tx[c].op = "review",
         inv'.row = inv.row, line'.row = line.row, pay'.row = pay.row,
         seq'.row = seq.row, seq'.lock["INV"] = seq.lock["INV"],
         \A l \in Lines : line'.lock[l] = c =>
           \/ line.lock[l] = c /\ line'.new[l] = line.new[l]
           \/ tx[c].op \in LineOps /\ l = tx[c].item /\ line'.new[l].invoice = tx[c].inv,
         \A p \in Payments : pay'.lock[p] = c =>
           \/ pay.lock[p] = c /\ pay'.new[p] = pay.new[p]
           \/ tx[c].op \in PaymentOps /\ p = tx[c].item /\ pay'.new[p].invoice = tx[c].inv,
         \A i \in Invoices : inv'.lock[i] = c =>
           \/ inv.lock[i] = c /\ inv'.new[i] = inv.new[i]
           \/ /\ i = tx[c].inv /\ tx[c].op = "create"
              /\ inv'.new[i] = [NotInserted EXCEPT !.status = "draft", !.job = tx[c].job]
  PROVE  SerialInv'
<1> DEFINE q == [tx[c] EXCEPT !.pc = pc]
<1>1. /\ tx[c] \in Requests /\ Held(c) /\ Suits(tx[c]) /\ Rewritten(c)
  BY SerialFacts, TypedFacts DEF UnderWay
<1>2. /\ tx'[c] = q /\ q.op = tx[c].op /\ q.inv = tx[c].inv /\ q.item = tx[c].item
      /\ q.pc = pc /\ q.to = tx[c].to /\ q.number = tx[c].number
  BY <1>1, SerialFacts, TypedFacts DEF Goto, Requests
<1> HIDE DEF q
<1>3. tx[c].op \notin StatusOps
  BY <1>1 DEF Suits
<1>4. Held(c)'
  <2>1. tx[c].op = "review" => line.row[tx[c].item].invoice = tx[c].inv
    BY <1>1 DEF Suits
  <2>2. \A l \in Lines : line.lock[l] = c =>
          /\ tx[c].op \in LineOps /\ line.new[l].invoice = tx[c].inv
          /\ IF tx[c].op = "review" THEN line.row[l].invoice = tx[c].inv ELSE l = tx[c].item
    BY <1>1 DEF Held
  <2>3. \A l \in Lines : line'.lock[l] = c =>
          /\ tx[c].op \in LineOps /\ line'.new[l].invoice = tx[c].inv
          /\ IF tx[c].op = "review" THEN line.row[l].invoice = tx[c].inv ELSE l = tx[c].item
    BY <2>1, <2>2
  <2> QED
    BY <1>1, <1>2, <1>3, <2>3 DEF Held, StatusOps
<1>5. Suits(tx[c])'
  BY <1>1, <1>2, <1>3 DEF Suits
<1>6. Rewritten(c)'
  <2> SUFFICES ASSUME NEW i \in Invoices, inv'.lock[i] = c
               PROVE  LET n == inv'.new[i]
                          r == inv.row[i]
                      IN  /\ Marked(n) /\ (n.status \in Early => r.status \in Early)
                          /\ r.status = "void" => n.status = "void"
                          /\ n.number = r.number
    BY <1>2, <1>3 DEF Rewritten, StatusOps, Marked, Settled
  <2>1. CASE inv.lock[i] = c /\ inv'.new[i] = inv.new[i]
    BY <1>3, <2>1, <1>1 DEF Rewritten, StatusOps
  <2>2. CASE /\ i = tx[c].inv /\ tx[c].op = "create"
             /\ inv'.new[i] = [NotInserted EXCEPT !.status = "draft", !.job = tx[c].job]
    <3>1. inv.row[i].status = "none" /\ inv.row[i].number = 0
      BY <1>1, <2>2, SerialFacts, SMTT(30) DEF Suits, Books, Early
    <3> QED
      BY <2>2, <3>1 DEF Marked, Early, NotInserted
  <2> QED
    BY <2>1, <2>2
<1>7. (Recomputed(c) /\ Closing(c) /\ Numbered(c))'
  BY <1>2, <1>3 DEF Recomputed, Closing, Numbered, StatusOps
<1> QED
  BY <1>2, <1>4, <1>5, <1>6, <1>7, SerialStep DEF UnderWay

LEMMA WrittenRow ==
  ASSUME NEW Ids, NEW Rows, NEW t \in Tables(Ids, Rows), NEW c \in Conns, NEW x, NEW r
  PROVE  LET u == Written(t, c, x, r) IN
         /\ u.row = t.row
         /\ \A y \in Ids : /\ u.new[y] = IF y = x THEN r ELSE t.new[y]
                          /\ u.lock[y] = IF y = x THEN c ELSE t.lock[y]
BY DEF Written, Tables

LEMMA ItemSerial ==
  ASSUME SerialInv, OneConnection, NEW c \in Conns, TypedInv',
         \/ InsertInvoice(c) \/ InsertLine(c) \/ ChangeLine(c) \/ InsertPayment(c)
         \/ RefundPayment(c) \/ allocateMemoNumber(c)
  PROVE  SerialInv'
<1>0. TypedInv /\ (tx[c].pc # "idle" => Suits(tx[c]))
  BY SerialFacts DEF UnderWay
<1>1. CASE InsertInvoice(c)
  <2> DEFINE pc == IF tx[c].item = NoItem THEN "invoice" ELSE "item"
             r == [NotInserted EXCEPT !.status = "draft", !.job = tx[c].job]
  <2>1. /\ tx[c].pc = "insert" /\ Goto(c, pc) /\ inv' = Written(inv, c, tx[c].inv, r)
        /\ line' = line /\ pay' = pay /\ seq' = seq /\ tx[c].op = "create"
    BY <1>0, <1>1, TypedFacts DEF InsertInvoice, Serving, OnInvoice
  <2>2. pc \in {"item", "invoice"}
    OBVIOUS
  <2> HIDE DEF pc, r
  <2>3. /\ inv'.row = inv.row
        /\ \A i \in Invoices : inv'.lock[i] = c =>
             \/ inv.lock[i] = c /\ inv'.new[i] = inv.new[i]
             \/ i = tx[c].inv /\ inv'.new[i] = r
    BY <1>0, <2>1, TypedFacts, WrittenRow
  <2> QED
    BY <2>1, <2>2, <2>3, ItemStepSerial DEF r
<1>2. CASE InsertLine(c) \/ ChangeLine(c)
  <2>0. PICK pc \in {"invoice", "edits"} : Goto(c, pc) /\ (pc = "edits" => tx[c].op = "review")
    BY <1>2 DEF InsertLine, ChangeLine
  <2>1. /\ tx[c].pc = "item" /\ tx[c].op \in LineOps
        /\ line' \in {line, Written(line, c, tx[c].item, Line(c))}
        /\ inv' = inv /\ pay' = pay /\ seq' = seq
    BY <1>2 DEF InsertLine, ChangeLine, Serving, LineOps
  <2>2. /\ line'.row = line.row /\ Line(c).invoice = tx[c].inv
        /\ \A l \in Lines : line'.lock[l] = c =>
             \/ line.lock[l] = c /\ line'.new[l] = line.new[l]
             \/ l = tx[c].item /\ line'.new[l] = Line(c)
    BY <1>0, <2>1, TypedFacts, WrittenRow DEF Line
  <2> QED
    BY <2>0, <2>1, <2>2, ItemStepSerial
<1>3. CASE InsertPayment(c) \/ RefundPayment(c)
  <2>1. /\ tx[c].pc = "item" /\ Goto(c, "invoice") /\ tx[c].op \in PaymentOps
        /\ inv' = inv /\ line' = line /\ seq' = seq
    BY <1>3 DEF InsertPayment, RefundPayment, Serving, PaymentOps
  <2>2. PICK r : pay' = Written(pay, c, tx[c].item, r) /\ r.invoice = tx[c].inv
    <3>1. CASE InsertPayment(c)
      BY <3>1 DEF InsertPayment
    <3>2. CASE RefundPayment(c)
      <4> DEFINE r == [pay.row[tx[c].item] EXCEPT !.status = "refunded"]
      <4>1. /\ pay' = Written(pay, c, tx[c].item, r) /\ tx[c].op = "voidPayment"
            /\ tx[c].item \in Payments
        BY <1>0, <2>1, <3>2, TypedFacts, LedgerConstants DEF RefundPayment, HasItem
      <4>2. pay.row[tx[c].item].invoice = tx[c].inv /\ pay.row[tx[c].item] \in PaymentRows
        BY <1>0, <2>1, <4>1, TypedFacts DEF Suits
      <4>3. r.invoice = tx[c].inv
        BY <4>2 DEF PaymentRows
      <4> HIDE DEF r
      <4> QED
        BY <4>1, <4>3
    <3> QED
      BY <1>3, <3>1, <3>2
  <2>3. /\ pay'.row = pay.row
        /\ \A p \in Payments : pay'.lock[p] = c =>
             \/ pay.lock[p] = c /\ pay'.new[p] = pay.new[p]
             \/ p = tx[c].item /\ pay'.new[p] = r
    BY <1>0, <2>2, TypedFacts, WrittenRow
  <2> QED
    BY <2>1, <2>2, <2>3, ItemStepSerial, ZenonT(30)
<1>4. CASE allocateMemoNumber(c)
  <2>1. /\ tx[c].pc = "memo" /\ Goto(c, "item") /\ seq' = Written(seq, c, "CM", seq.row["CM"] + 1)
        /\ inv' = inv /\ line' = line /\ pay' = pay
    BY <1>4 DEF allocateMemoNumber, NextNumber, Serving
  <2>2. seq'.row = seq.row /\ seq'.lock["INV"] = seq.lock["INV"]
    BY <1>0, <2>1, TypedFacts, WrittenRow DEF Sequences
  <2>3. tx[c].op = "pay"
    BY <1>0, <2>1 DEF Suits
  <2> QED
    BY <2>1, <2>2, <2>3, ItemStepSerial
<1> QED
  BY <1>1, <1>2, <1>3, <1>4

\* A review touches the invoice, and names its next line.
LEMMA HeaderSerial ==
  ASSUME SerialInv, OneConnection, NEW c \in Conns, TypedInv', WriteHeader(c)
  PROVE  SerialInv'
<1> DEFINE i == tx[c].inv
<1>1. /\ tx[c] \in Requests /\ tx[c].pc = "header" /\ i \in Invoices
      /\ Held(c) /\ Suits(tx[c]) /\ Rewritten(c) /\ Books
  BY SerialFacts, TypedFacts DEF UnderWay, WriteHeader, Serving, OnInvoice
<1>2. PICK pc \in {"edits", "commit"} : Goto(c, pc)
  BY DEF WriteHeader
<1>3. /\ tx'[c].op = tx[c].op /\ tx'[c].inv = i /\ tx'[c].item = tx[c].item
      /\ tx'[c].pc = pc /\ tx[c].op = "review"
  BY <1>1, <1>2, SerialFacts, TypedFacts DEF Goto, Requests, Suits
<1>4. /\ inv'.row = inv.row /\ line' = line /\ pay' = pay /\ seq' = seq
      /\ \A k \in Invoices : /\ inv'.new[k] = IF k = i THEN inv.row[i] ELSE inv.new[k]
                             /\ inv'.lock[k] = IF k = i THEN c ELSE inv.lock[k]
  BY SerialFacts, TypedFacts, WrittenRow DEF WriteHeader
<1>5. Held(c)'
  BY <1>1, <1>3, <1>4 DEF Held
<1>6. Suits(tx[c])'
  BY <1>1, <1>2, <1>3, <1>4 DEF Suits, StatusOps
<1>7. Rewritten(c)'
  <2>1. \A k \in Invoices : inv'.lock[k] = c => k = i
    BY <1>1, <1>4 DEF Held
  <2>2. Marked(inv.row[i])
    BY <1>1 DEF Books
  <2> QED
    BY <1>1, <1>3, <1>4, <2>1, <2>2 DEF Rewritten, StatusOps, Marked, Settled
<1>8. Closing(c)'
  <2>1. /\ inv.row[i].total = Charges(line.row, i) /\ inv.row[i].paid = Receipts(pay.row, i)
    BY <1>1 DEF Books
  <2>2. \A l \in Lines : LinesSeen(c)[l] = line.row[l]
    BY <1>1 DEF Held, LinesSeen, Seen
  <2>3. \A p \in Payments : PaymentsSeen(c)[p] = pay.row[p]
    BY <1>1, <1>3 DEF Held, PaymentsSeen, Seen, PaymentOps
  <2>4. Charges(LinesSeen(c), i) = Charges(line.row, i)
    BY <2>2, SameCharges
  <2>5. Receipts(PaymentsSeen(c), i) = Receipts(pay.row, i)
    BY <2>3, SameReceipts
  <2>6. LinesSeen(c)' = LinesSeen(c) /\ PaymentsSeen(c)' = PaymentsSeen(c)
    BY <1>4 DEF LinesSeen, PaymentsSeen
  <2> QED
    BY <1>1, <1>3, <1>4, <2>1, <2>4, <2>5, <2>6 DEF Closing
<1>9. (Recomputed(c) /\ Numbered(c))'
  BY <1>2, <1>3 DEF Recomputed, Numbered
<1> QED
  BY <1>3, <1>4, <1>5, <1>6, <1>7, <1>8, <1>9, SerialStep DEF UnderWay

LEMMA EditSerial ==
  ASSUME SerialInv, OneConnection, NEW c \in Conns, TypedInv', NextEdit(c)
  PROVE  SerialInv'
<1> DEFINE i == tx[c].inv
<1>1. /\ tx[c] \in Requests /\ tx[c].pc = "edits" /\ Held(c) /\ Suits(tx[c]) /\ Rewritten(c)
      /\ inv' = inv /\ line' = line /\ pay' = pay /\ seq' = seq
  BY SerialFacts, TypedFacts DEF UnderWay, NextEdit, Serving, tables
<1>2. PICK l \in Lines, a \in Amounts :
        /\ tx' = [tx EXCEPT ![c].item = l, ![c].amount = a, ![c].pc = "item"]
        /\ Seen(line, c, l).invoice = i
  BY DEF NextEdit, LinesOf
<1>3. /\ tx'[c].op = "review" /\ tx'[c].inv = i /\ tx'[c].item = l /\ tx'[c].pc = "item"
      /\ tx[c].op = "review"
  BY <1>1, <1>2, SerialFacts, TypedFacts DEF Requests, Suits
<1>4. line.row[l].invoice = i
  <2>1. line.lock[l] = c => line.row[l].invoice = i
    BY <1>1, <1>3 DEF Held
  <2> QED
    BY <1>2, <2>1 DEF Seen
<1>5. Held(c)'
  BY <1>1, <1>3 DEF Held, PaymentOps
<1>6. Suits(tx[c])'
  BY <1>1, <1>3, <1>4 DEF Suits, StatusOps
<1>7. (Recomputed(c) /\ Rewritten(c) /\ Closing(c) /\ Numbered(c))'
  BY <1>1, <1>3 DEF Recomputed, Rewritten, Closing, Numbered, StatusOps
<1> QED
  BY <1>1, <1>3, <1>5, <1>6, <1>7, SerialStep DEF UnderWay

\* recomputeTotals reads.
LEMMA SeenStatus ==
  ASSUME SerialInv, OneConnection, NEW c \in Conns, tx[c].pc # "idle", tx[c].inv \in Invoices
  PROVE  LET s == Seen(inv, c, tx[c].inv)
             r == inv.row[tx[c].inv]
         IN
         /\ Marked(s) /\ (s.status \in Early => r.status \in Early)
         /\ r.status = "void" => s.status = "void"
         /\ tx[c].op # "issue" => s.number = r.number
BY SerialFacts DEF Seen, UnderWay, Rewritten, Books

\* The status a recompute settles on.
LEMMA StatusSettled ==
  ASSUME NEW was \in InvoiceStatuses \ {"refunded"}, NEW total \in Nat, NEW paid \in Nat,
         NEW isOverdue \in BOOLEAN
  PROVE  LET to == statusAfterPayment(was, total, paid, isOverdue) IN
         /\ to = "draft" => was = "draft"
         /\ was = "void" => to = "void"
         /\ to # "refunded"
         /\ to \notin {"draft", "void"} => (to = "paid" <=> total > 0 /\ paid >= total)
BY DEF statusAfterPayment, InvoiceStatuses

LEMMA ReadSerialStep ==
  ASSUME SerialInv, OneConnection, NEW c \in Conns, TypedInv',
         tx[c].pc \in {"invoice", "lines", "payments"},
         tx'[c].pc \in {"lines", "payments", "totals"},
         tx'[c].op = tx[c].op, tx'[c].inv = tx[c].inv, tx'[c].item = tx[c].item,
         inv' = inv, line' = line, pay' = pay, seq' = seq, Recomputed(c)'
  PROVE  SerialInv'
<1>1. /\ Held(c) /\ Suits(tx[c]) /\ Rewritten(c)
  BY SerialFacts DEF UnderWay
<1>2. tx[c].op \notin StatusOps
  BY <1>1 DEF Suits
<1>3. Held(c)'
  BY <1>1, <1>2 DEF Held, StatusOps
<1>4. Suits(tx[c])'
  BY <1>1, <1>2 DEF Suits, StatusOps
<1>5. Rewritten(c)'
  BY <1>1, <1>2 DEF Rewritten, StatusOps
<1>6. (Closing(c) /\ Numbered(c))'
  BY <1>1, <1>2 DEF Closing, Numbered, StatusOps
<1> QED
  BY <1>3, <1>4, <1>5, <1>6, SerialStep DEF UnderWay

LEMMA ReadSerial ==
  ASSUME SerialInv, OneConnection, NEW c \in Conns, TypedInv',
         ReadInvoice(c) \/ ReadLines(c) \/ ReadPayments(c)
  PROVE  SerialInv'
<1>0. /\ TypedInv /\ tx[c] \in Requests /\ tx[c].pc \in {"invoice", "lines", "payments"}
      /\ Recomputed(c) /\ tx[c].inv \in Invoices
      /\ inv' = inv /\ line' = line /\ pay' = pay /\ seq' = seq
  BY SerialFacts, TypedFacts
     DEF UnderWay, OnInvoice, ReadInvoice, ReadLines, ReadPayments, Serving, tables
<1>1. CASE ReadInvoice(c)
  <2> DEFINE was == Seen(inv, c, tx[c].inv).status
             q == [tx[c] EXCEPT !.was = was, !.pc = "lines"]
  <2>1. was # "refunded"
    BY <1>0, SeenStatus DEF Marked
  <2>2. tx'[c] = q
    BY <1>0, <1>1, TypedFacts DEF ReadInvoice
  <2>3. was = Seen(inv, c, tx[c].inv).status
    OBVIOUS
  <2> HIDE DEF was
  <2>4. q.op = tx[c].op /\ q.inv = tx[c].inv /\ q.item = tx[c].item /\ q.pc = "lines" /\ q.was = was
    BY <1>0 DEF Requests
  <2> HIDE DEF q
  <2>5. Recomputed(c)'
    BY <1>0, <2>1, <2>2, <2>3, <2>4, TypedFacts DEF Recomputed
  <2> QED
    BY <1>0, <2>2, <2>4, <2>5, ReadSerialStep
<1>2. CASE ReadLines(c)
  <2> DEFINE owed(x) == Seen(line, c, x).amount
             total == MapThenSumSet(owed, LinesOf(c, tx[c].inv))
             q == [tx[c] EXCEPT !.total = total, !.pc = "payments"]
  <2>1. tx' = [tx EXCEPT ![c].total = total, ![c].pc = "payments"] /\ tx[c].pc = "lines"
    BY <1>2 DEF ReadLines, Serving
  <2>2. total = Charges(LinesSeen(c), tx[c].inv)
    BY <1>0, ReadsSum
  <2> HIDE DEF total
  <2>3. tx'[c] = q
    BY <1>0, <2>1, TypedFacts
  <2>4. /\ q.op = tx[c].op /\ q.inv = tx[c].inv /\ q.item = tx[c].item /\ q.pc = "payments"
        /\ q.was = tx[c].was /\ q.total = total
    BY <1>0 DEF Requests
  <2> HIDE DEF q
  <2>5. Recomputed(c)'
    BY <1>0, <2>1, <2>2, <2>3, <2>4, TypedFacts DEF Recomputed, LinesSeen
  <2> QED
    BY <1>0, <2>3, <2>4, <2>5, ReadSerialStep
<1>3. CASE ReadPayments(c)
  <2> DEFINE received(x) == Seen(pay, c, x).amount
             paid == MapThenSumSet(received, PaymentsOf(c, tx[c].inv))
             od == tx[c].inv \in due /\ tx[c].was # "draft" /\ tx[c].total > paid
             to == statusAfterPayment(tx[c].was, tx[c].total, paid, od)
             q == [tx[c] EXCEPT !.paid = paid, !.pc = "totals", !.to = to]
  <2>1. tx' = [tx EXCEPT ![c].paid = paid, ![c].pc = "totals", ![c].to = to] /\ tx[c].pc = "payments"
    BY <1>3 DEF ReadPayments, Serving
  <2>2. paid = Receipts(PaymentsSeen(c), tx[c].inv) /\ paid \in Nat
    BY <1>0, ReadsSum, ReceivedIs
  <2>3. tx[c].was \in InvoiceStatuses \ {"refunded"} /\ tx[c].total \in Nat /\ od \in BOOLEAN
    BY <1>0, <2>1 DEF Requests, Recomputed
  <2> HIDE DEF paid, od
  <2>4. /\ to = "draft" => tx[c].was = "draft"
        /\ tx[c].was = "void" => to = "void"
        /\ to # "refunded"
        /\ to \notin {"draft", "void"} => (to = "paid" <=> tx[c].total > 0 /\ paid >= tx[c].total)
    BY <2>2, <2>3, StatusSettled
  <2> HIDE DEF to
  <2>5. tx'[c] = q
    BY <1>0, <2>1, TypedFacts
  <2>6. /\ q.op = tx[c].op /\ q.inv = tx[c].inv /\ q.item = tx[c].item /\ q.pc = "totals"
        /\ q.was = tx[c].was /\ q.total = tx[c].total /\ q.paid = paid /\ q.to = to
    BY <1>0 DEF Requests
  <2> HIDE DEF q
  <2>7. LinesSeen(c)' = LinesSeen(c) /\ PaymentsSeen(c)' = PaymentsSeen(c)
    BY <1>0 DEF LinesSeen, PaymentsSeen
  <2>8. Recomputed(c)'
    BY <1>0, <2>1, <2>2, <2>4, <2>5, <2>6, <2>7 DEF Recomputed
  <2> QED
    BY <1>0, <2>5, <2>6, <2>8, ReadSerialStep
<1> QED
  BY <1>1, <1>2, <1>3

\* The row of the invoice is written.
LEMMA RowWrittenSerial ==
  ASSUME SerialInv, OneConnection, NEW c \in Conns, TypedInv', NEW n,
         tx[c].pc \in {"totals", "status"}, tx[c].inv \in Invoices, Goto(c, "commit"),
         inv' = Written(inv, c, tx[c].inv, n), line' = line, pay' = pay, seq' = seq,
         Marked(n), n.status \in Early => inv.row[tx[c].inv].status \in Early,
         inv.row[tx[c].inv].status = "void" => n.status = "void",
         n.number = IF tx[c].op = "issue" THEN tx[c].number ELSE inv.row[tx[c].inv].number,
         tx[c].op \in StatusOps =>
           /\ n.total = inv.row[tx[c].inv].total /\ n.paid = inv.row[tx[c].inv].paid
           /\ n.status = tx[c].to,
         tx[c].op \notin StatusOps => n.total = Charges(LinesSeen(c), tx[c].inv)
                                      /\ n.paid = Receipts(PaymentsSeen(c), tx[c].inv),
         tx[c].pc = "totals" => tx[c].op \notin StatusOps
  PROVE  SerialInv'
<1> DEFINE q == [tx[c] EXCEPT !.pc = "commit"]
           i == tx[c].inv
<1>1. /\ tx[c] \in Requests /\ Held(c) /\ Suits(tx[c]) /\ Numbered(c)
  BY SerialFacts, TypedFacts DEF UnderWay
<1>2. /\ tx'[c] = q /\ q.op = tx[c].op /\ q.inv = tx[c].inv /\ q.item = tx[c].item
      /\ q.pc = "commit" /\ q.to = tx[c].to /\ q.number = tx[c].number
  BY <1>1, SerialFacts, TypedFacts DEF Goto, Requests
<1> HIDE DEF q
<1>3. /\ inv'.row = inv.row
      /\ \A k \in Invoices : /\ inv'.new[k] = IF k = i THEN n ELSE inv.new[k]
                             /\ inv'.lock[k] = IF k = i THEN c ELSE inv.lock[k]
  BY SerialFacts, TypedFacts, WrittenRow
<1>4. LinesSeen(c)' = LinesSeen(c) /\ PaymentsSeen(c)' = PaymentsSeen(c)
  BY DEF LinesSeen, PaymentsSeen
<1>5. Held(c)'
  BY <1>1, <1>2, <1>3 DEF Held
<1>6. Suits(tx[c])'
  BY <1>1, <1>2, <1>3 DEF Suits
<1>7. \A k \in Invoices : inv'.lock[k] = c => k = i
  BY <1>1, <1>3 DEF Held
<1>8. Rewritten(c)'
  BY <1>2, <1>3, <1>7, SMTT(30) DEF Rewritten, Marked, Settled, StatusOps
<1>9. Closing(c)'
  BY <1>2, <1>3, <1>4 DEF Closing
<1>10. (Recomputed(c) /\ Numbered(c))'
  BY <1>1, <1>2 DEF Recomputed, Numbered, StatusOps
<1> QED
  BY <1>2, <1>3, <1>5, <1>6, <1>8, <1>9, <1>10, SerialStep DEF UnderWay

LEMMA TotalsSerial ==
  ASSUME SerialInv, OneConnection, NEW c \in Conns, TypedInv', WriteTotals(c)
  PROVE  SerialInv'
<1> DEFINE s == Seen(inv, c, tx[c].inv)
           n == [s EXCEPT !.total = tx[c].total, !.paid = tx[c].paid, !.status = tx[c].to]
<1>1. /\ TypedInv /\ tx[c].pc = "totals" /\ tx[c].inv \in Invoices /\ Goto(c, "commit")
      /\ inv' = Written(inv, c, tx[c].inv, n) /\ line' = line /\ pay' = pay /\ seq' = seq
  BY SerialFacts, TypedFacts DEF WriteTotals, Serving, OnInvoice
<1>2. /\ Suits(tx[c]) /\ Recomputed(c) /\ tx[c] \in Requests
  BY <1>1, SerialFacts, TypedFacts DEF UnderWay
<1>3. tx[c].op \notin StatusOps
  BY <1>1, <1>2 DEF Suits
<1>4. /\ s \in InvoiceRows /\ (s.status \in Early => inv.row[tx[c].inv].status \in Early)
      /\ inv.row[tx[c].inv].status = "void" => s.status = "void"
      /\ s.number = inv.row[tx[c].inv].number
  BY <1>1, <1>3, SeenRows, SeenStatus DEF StatusOps
<1>5. /\ tx[c].was = "draft" => s.status = "draft"
      /\ s.status = "void" => tx[c].was = "void"
  BY <1>1, <1>2 DEF Recomputed
<1> HIDE DEF s
<1>6. /\ n.total = tx[c].total /\ n.paid = tx[c].paid /\ n.status = tx[c].to /\ n.number = s.number
  BY <1>4 DEF InvoiceRows
<1> HIDE DEF n
<1>7. Marked(n)
  BY <1>1, <1>2, <1>6 DEF Recomputed, Marked, Settled
<1>8. n.status \in Early => inv.row[tx[c].inv].status \in Early
  BY <1>1, <1>2, <1>4, <1>5, <1>6 DEF Recomputed, Early, Requests, InvoiceStatuses
<1>9. inv.row[tx[c].inv].status = "void" => n.status = "void"
  BY <1>1, <1>2, <1>4, <1>5, <1>6 DEF Recomputed
<1>10. n.total = Charges(LinesSeen(c), tx[c].inv) /\ n.paid = Receipts(PaymentsSeen(c), tx[c].inv)
  BY <1>1, <1>2, <1>6 DEF Recomputed
<1>11. n.number = IF tx[c].op = "issue" THEN tx[c].number ELSE inv.row[tx[c].inv].number
  BY <1>3, <1>4, <1>6 DEF StatusOps
<1> QED
  BY <1>1, <1>3, <1>7, <1>8, <1>9, <1>10, <1>11, RowWrittenSerial

LEMMA StatusSerial ==
  ASSUME SerialInv, OneConnection, NEW c \in Conns, TypedInv', WriteStatus(c)
  PROVE  SerialInv'
<1> DEFINE r == inv.row[tx[c].inv]
           k == IF tx[c].op = "issue" THEN tx[c].number ELSE r.number
           n == [r EXCEPT !.status = tx[c].to, !.number = k]
<1>1. /\ TypedInv /\ tx[c].pc = "status" /\ tx[c].inv \in Invoices /\ Goto(c, "commit")
      /\ inv' = Written(inv, c, tx[c].inv, n) /\ line' = line /\ pay' = pay /\ seq' = seq
  BY SerialFacts, TypedFacts DEF WriteStatus, Serving, OnInvoice
<1>2. /\ Suits(tx[c]) /\ r \in InvoiceRows
  BY <1>1, SerialFacts, TypedFacts DEF UnderWay
<1>3. tx[c].op \in StatusOps
  BY <1>1, <1>2 DEF Suits
<1>4. n.total = r.total /\ n.paid = r.paid /\ n.status = tx[c].to /\ n.number = k
  BY <1>2 DEF InvoiceRows
<1> HIDE DEF n
<1>5. /\ tx[c].to \in {"issued", "sent", "void"} /\ (tx[c].to # "void" => ~Settled(r))
      /\ r.status = "void" => tx[c].to = "void"
  BY <1>2, <1>3 DEF Suits, StatusOps, Early
<1>6. Marked(n)
  BY <1>4, <1>5 DEF Marked, Settled
<1>7. n.status \notin Early /\ (r.status = "void" => n.status = "void")
  BY <1>4, <1>5 DEF Early
<1> QED
  BY <1>1, <1>3, <1>4, <1>6, <1>7, RowWrittenSerial, SMTT(30)

\* The number is allocated.
LEMMA NumberSerial ==
  ASSUME SerialInv, OneConnection, NEW c \in Conns, TypedInv', allocateInvoiceNumber(c)
  PROVE  SerialInv'
<1> DEFINE k == seq.row["INV"] + 1
           q == [tx[c] EXCEPT !.number = k, !.pc = "status"]
<1>1. /\ TypedInv /\ tx[c].pc = "number" /\ tx[c] \in Requests /\ Held(c) /\ Suits(tx[c])
      /\ Rewritten(c) /\ seq \in Tables(Sequences, Nat) /\ "INV" \in Sequences
      /\ inv' = inv /\ line' = line /\ pay' = pay /\ seq' = Written(seq, c, "INV", k)
  BY SerialFacts, TypedFacts
     DEF UnderWay, allocateInvoiceNumber, NextNumber, Serving, Sequences
<1>2. tx'[c] = q
  BY <1>1, TypedFacts DEF allocateInvoiceNumber
<1>3. seq'.row = seq.row /\ seq'.new["INV"] = k /\ seq'.lock["INV"] = c
  BY <1>1, WrittenRow
<1>4. k = seq.row["INV"] + 1
  OBVIOUS
<1> HIDE DEF k
<1>5. /\ q.op = tx[c].op /\ q.inv = tx[c].inv /\ q.item = tx[c].item /\ q.to = tx[c].to
      /\ q.pc = "status" /\ q.number = k /\ tx[c].op = "issue"
  BY <1>1 DEF Requests, Suits
<1> HIDE DEF q
<1>6. \A i \in Invoices : inv.lock[i] # c
  BY <1>1, <1>5 DEF Rewritten
<1>7. Held(c)'
  BY <1>1, <1>2, <1>5 DEF Held
<1>8. Suits(tx[c])'
  BY <1>1, <1>2, <1>5 DEF Suits, StatusOps
<1>9. (Recomputed(c) /\ Rewritten(c) /\ Closing(c) /\ Numbered(c))'
  BY <1>1, <1>2, <1>3, <1>4, <1>5, <1>6 DEF Recomputed, Rewritten, Closing, Numbered
<1> QED
  BY <1>1, <1>3, <1>7, <1>8, <1>9, SerialStep DEF UnderWay

LEMMA AbortSerial ==
  ASSUME SerialInv, OneConnection, NEW c \in Conns, TypedInv', Abort(c)
  PROVE  SerialInv'
<1>0. /\ tx'[c] = Idle /\ Idle.pc = "idle" /\ c # NoConn /\ "INV" \in Sequences
      /\ inv \in Tables(Invoices, InvoiceRows) /\ line \in Tables(Lines, LineRows)
      /\ pay \in Tables(Payments, PaymentRows) /\ seq \in Tables(Sequences, Nat)
  BY SerialFacts, TypedFacts, IdleRequest DEF Abort, End, Sequences
<1>1. /\ inv' = RolledBack(inv, c) /\ line' = RolledBack(line, c)
      /\ pay' = RolledBack(pay, c) /\ seq' = RolledBack(seq, c)
  BY DEF Abort
<1>2. inv'.row = inv.row /\ \A i \in Invoices : inv'.lock[i] # c
  BY <1>0, <1>1, TableRolledBack
<1>3. line'.row = line.row /\ \A l \in Lines : line'.lock[l] # c
  BY <1>0, <1>1, TableRolledBack
<1>4. pay'.row = pay.row /\ \A p \in Payments : pay'.lock[p] # c
  BY <1>0, <1>1, TableRolledBack
<1>5. seq'.row = seq.row /\ seq'.lock["INV"] # c
  BY <1>0, <1>1, TableRolledBack
<1>6. Held(c)'
  BY <1>2, <1>3, <1>4, <1>5 DEF Held
<1> QED
  BY <1>0, <1>2, <1>3, <1>4, <1>5, <1>6, SerialStep

\* A transaction commits: what it leaves.
LEMMA CommitRows ==
  ASSUME SerialInv, OneConnection, NEW c \in Conns, TypedInv', Commit(c)
  PROVE  /\ tx[c].pc = "commit" /\ tx[c].inv \in Invoices /\ tx[c] \in Requests
         /\ Suits(tx[c]) /\ Rewritten(c) /\ Closing(c) /\ Numbered(c) /\ Held(c)
         /\ inv.lock[tx[c].inv] = c /\ inv'.row[tx[c].inv] = inv.new[tx[c].inv]
         /\ \A k \in Invoices : k # tx[c].inv => inv'.row[k] = inv.row[k]
         /\ \A l \in Lines : /\ line'.row[l] = LinesSeen(c)[l]
                             /\ line.lock[l] # c => line'.row[l] = line.row[l]
                             /\ line.lock[l] = c => line'.row[l] = line.new[l]
         /\ \A p \in Payments : /\ pay'.row[p] = PaymentsSeen(c)[p]
                                /\ pay.lock[p] # c => pay'.row[p] = pay.row[p]
                                /\ pay.lock[p] = c => pay'.row[p] = pay.new[p]
         /\ seq'.row["INV"] = IF tx[c].op = "issue" THEN seq.row["INV"] + 1 ELSE seq.row["INV"]
         /\ \A i \in Invoices : inv'.lock[i] # c
         /\ \A l \in Lines : line'.lock[l] # c
         /\ \A p \in Payments : pay'.lock[p] # c
         /\ seq'.lock["INV"] # c
<1>1. /\ TypedInv /\ tx[c].pc = "commit" /\ tx[c].inv \in Invoices /\ tx[c] \in Requests
      /\ Suits(tx[c]) /\ Rewritten(c) /\ Closing(c) /\ Numbered(c) /\ Held(c)
  BY SerialFacts, TypedFacts DEF Commit, Serving, UnderWay, OnInvoice
<1>0. /\ inv' = Committed(inv, c) /\ line' = Committed(line, c)
      /\ pay' = Committed(pay, c) /\ seq' = Committed(seq, c)
      /\ inv \in Tables(Invoices, InvoiceRows) /\ line \in Tables(Lines, LineRows)
      /\ pay \in Tables(Payments, PaymentRows) /\ seq \in Tables(Sequences, Nat)
      /\ c # NoConn /\ "INV" \in Sequences
  BY <1>1, SerialFacts, TypedFacts DEF Commit, Sequences
<1>2. inv.lock[tx[c].inv] = c /\ \A k \in Invoices : inv.lock[k] = c => k = tx[c].inv
  BY <1>1 DEF Closing, Held
<1>3. /\ inv'.row[tx[c].inv] = inv.new[tx[c].inv]
      /\ \A k \in Invoices : k # tx[c].inv => inv'.row[k] = inv.row[k]
      /\ \A i \in Invoices : inv'.lock[i] # c
  BY <1>0, <1>1, <1>2, TableCommitted
<1>4. \A l \in Lines : /\ line'.row[l] = IF line.lock[l] = c THEN line.new[l] ELSE line.row[l]
                       /\ line'.lock[l] # c
  BY <1>0, TableCommitted
<1>5. \A p \in Payments : /\ pay'.row[p] = IF pay.lock[p] = c THEN pay.new[p] ELSE pay.row[p]
                          /\ pay'.lock[p] # c
  BY <1>0, TableCommitted
<1>6. /\ seq'.row["INV"] = IF seq.lock["INV"] = c THEN seq.new["INV"] ELSE seq.row["INV"]
      /\ seq'.lock["INV"] # c
  BY <1>0, TableCommitted
<1>7. seq.lock["INV"] = c <=> tx[c].op = "issue"
  BY <1>1 DEF Held, Numbered
<1>8. seq'.row["INV"] = IF tx[c].op = "issue" THEN seq.row["INV"] + 1 ELSE seq.row["INV"]
  BY <1>1, <1>6, <1>7 DEF Numbered
<1> QED
  BY <1>1, <1>2, <1>3, <1>4, <1>5, <1>6, <1>8 DEF LinesSeen, PaymentsSeen, Seen

\* Only the items of the request's invoice have changed.
LEMMA CommitItems ==
  ASSUME SerialInv, OneConnection, NEW c \in Conns, TypedInv', Commit(c)
  PROVE  /\ \A l \in Lines :
              \/ line'.row[l] = line.row[l]
              \/ /\ tx[c].op \in LineOps /\ line'.row[l].invoice = tx[c].inv
                 /\ \/ line.row[l].invoice = NoInvoice
                    \/ line.row[l].invoice = tx[c].inv /\ inv.row[tx[c].inv].status = "draft"
         /\ \A p \in Payments :
              \/ pay'.row[p] = pay.row[p]
              \/ /\ tx[c].op \in PaymentOps /\ pay'.row[p].invoice = tx[c].inv
                 /\ pay.row[p].invoice \in {NoInvoice, tx[c].inv}
<1>1. ASSUME NEW l \in Lines, line.lock[l] = c
      PROVE  /\ tx[c].op \in LineOps /\ line'.row[l].invoice = tx[c].inv
             /\ \/ line.row[l].invoice = NoInvoice
                \/ line.row[l].invoice = tx[c].inv /\ inv.row[tx[c].inv].status = "draft"
  <2>1. /\ tx[c].op \in LineOps /\ line'.row[l].invoice = tx[c].inv
        /\ Suits(tx[c])
        /\ tx[c].op = "review" => line.row[l].invoice = tx[c].inv
        /\ tx[c].op # "review" => l = tx[c].item
    BY <1>1, CommitRows DEF Held
  <2>2. l # NoItem
    BY LedgerConstants DEF Items
  <2>3. CASE tx[c].op = "review"
    BY <2>1, <2>3 DEF Suits
  <2>4. CASE tx[c].op # "review"
    BY <2>1, <2>2, <2>4 DEF Suits, LineOps, NoLine
  <2> QED
    BY <2>3, <2>4
<1>2. ASSUME NEW p \in Payments, pay.lock[p] = c
      PROVE  /\ tx[c].op \in PaymentOps /\ pay'.row[p].invoice = tx[c].inv
             /\ pay.row[p].invoice \in {NoInvoice, tx[c].inv}
  BY <1>2, CommitRows DEF Held, Suits, PaymentOps, NoPayment
<1> QED
  BY <1>1, <1>2, CommitRows

LEMMA CommitSums ==
  ASSUME SerialInv, OneConnection, NEW c \in Conns, TypedInv', Commit(c), NEW i \in Invoices
  PROVE  inv'.row[i].total = Charges(line'.row, i) /\ inv'.row[i].paid = Receipts(pay'.row, i)
<1>1. inv.row[i].total = Charges(line.row, i) /\ inv.row[i].paid = Receipts(pay.row, i)
  BY SerialFacts DEF Books
<1>2. NoInvoice # i
  BY LedgerConstants
<1>3. CASE i = tx[c].inv /\ tx[c].op \notin StatusOps
  <2>1. /\ inv'.row[i].total = Charges(LinesSeen(c), i)
        /\ inv'.row[i].paid = Receipts(PaymentsSeen(c), i)
    BY <1>3, CommitRows DEF Closing
  <2>2. \A l \in Lines : line'.row[l] = LinesSeen(c)[l]
    BY CommitRows
  <2>3. \A p \in Payments : pay'.row[p] = PaymentsSeen(c)[p]
    BY CommitRows
  <2>4. Charges(line'.row, i) = Charges(LinesSeen(c), i)
    BY <2>2, SameCharges
  <2>5. Receipts(pay'.row, i) = Receipts(PaymentsSeen(c), i)
    BY <2>3, SameReceipts
  <2> QED
    BY <2>1, <2>4, <2>5
<1>4. CASE i # tx[c].inv \/ tx[c].op \in StatusOps
  <2>1. inv'.row[i].total = inv.row[i].total /\ inv'.row[i].paid = inv.row[i].paid
    BY <1>4, CommitRows DEF Rewritten
  <2>2. \A l \in Lines : line'.row[l] = line.row[l]
                         \/ (line.row[l].invoice # i /\ line'.row[l].invoice # i)
    BY <1>2, <1>4, CommitItems DEF LineOps, StatusOps
  <2>3. \A p \in Payments : pay'.row[p] = pay.row[p]
                            \/ (pay.row[p].invoice # i /\ pay'.row[p].invoice # i)
    BY <1>2, <1>4, CommitItems DEF PaymentOps, StatusOps
  <2>4. Charges(line'.row, i) = Charges(line.row, i)
    BY <2>2, SameCharges
  <2>5. Receipts(pay'.row, i) = Receipts(pay.row, i)
    BY <2>3, SameReceipts
  <2> QED
    BY <1>1, <2>1, <2>4, <2>5
<1> QED
  BY <1>3, <1>4

LEMMA CommitNumbers ==
  ASSUME SerialInv, OneConnection, NEW c \in Conns, TypedInv', Commit(c)
  PROVE  NumbersGapless'
<1> DEFINE i == tx[c].inv
           n == seq.row["INV"]
<1>1. /\ {inv.row[k].number : k \in Invoices} \ {0} = 1..n
      /\ n \in Nat
  BY SerialFacts, TypedFacts DEF Books, NumbersGapless, Tables, Sequences
<1>2. CASE tx[c].op = "issue"
  <2>1. /\ inv.row[i].number = 0 /\ inv'.row[i].number = n + 1 /\ seq'.row["INV"] = n + 1
        /\ i \in Invoices /\ \A k \in Invoices : k # i => inv'.row[k] = inv.row[k]
    BY <1>2, CommitRows, SerialFacts DEF Suits, Books, Early, Rewritten, Numbered
  <2>2. {inv'.row[k].number : k \in Invoices} \ {0} = (1..n) \cup {n + 1}
    BY <1>1, <2>1
  <2>3. (1..n) \cup {n + 1} = 1..(n + 1)
    BY <1>1
  <2> QED
    BY <2>1, <2>2, <2>3 DEF NumbersGapless
<1>3. CASE tx[c].op # "issue"
  <2>1. /\ \A k \in Invoices : inv'.row[k].number = inv.row[k].number
        /\ seq'.row["INV"] = n
    BY <1>3, CommitRows DEF Rewritten
  <2> QED
    BY <1>1, <2>1 DEF NumbersGapless
<1> QED
  BY <1>2, <1>3

LEMMA CommitSerial ==
  ASSUME SerialInv, OneConnection, NEW c \in Conns, TypedInv', Commit(c)
  PROVE  SerialInv'
<1> DEFINE i == tx[c].inv
<1>1. /\ i \in Invoices /\ Marked(inv.new[i])
      /\ inv.new[i].status \in Early => inv.row[i].status \in Early
      /\ inv'.row[i] = inv.new[i]
      /\ \A k \in Invoices : k # i => inv'.row[k] = inv.row[k]
  BY CommitRows DEF Rewritten
<1>2. inv.new[i].status \in Early => inv.new[i].number = 0
  <2>1. tx[c].op = "issue" => inv.new[i].status \notin Early
    BY CommitRows DEF Rewritten, Suits, StatusOps, Early
  <2>2. tx[c].op # "issue" => inv.new[i].number = inv.row[i].number
    BY CommitRows DEF Rewritten
  <2> QED
    BY <1>1, <2>1, <2>2, SerialFacts DEF Books
<1>3. ASSUME NEW k \in Invoices
      PROVE  /\ inv'.row[k].total = Charges(line'.row, k)
             /\ inv'.row[k].paid = Receipts(pay'.row, k)
             /\ Marked(inv'.row[k])
             /\ inv'.row[k].status \in Early => inv'.row[k].number = 0
             /\ inv'.row[k].status \in Early => inv.row[k].status \in Early
  <2>1. inv'.row[k].total = Charges(line'.row, k) /\ inv'.row[k].paid = Receipts(pay'.row, k)
    BY CommitSums
  <2>2. CASE k = i
    BY <1>1, <1>2, <2>1, <2>2
  <2>3. CASE k # i
    BY <1>1, <2>1, <2>3, SerialFacts DEF Books
  <2> QED
    BY <2>2, <2>3
<1>4. ASSUME NEW p \in Payments, pay'.row[p].status # "none"
      PROVE  inv'.row[pay'.row[p].invoice].status \notin Early
  <2>1. pay'.row[p].invoice \in Invoices
    BY <1>4 DEF TypedInv, Placed, Exists
  <2>2. CASE pay'.row[p] = pay.row[p]
    BY <1>3, <1>4, <2>1, <2>2, SerialFacts DEF Books
  <2>3. CASE tx[c].op \in PaymentOps /\ pay'.row[p].invoice = i
    <3>1. inv.row[i].status \notin Early
      BY <2>3, CommitRows DEF Suits, PaymentOps
    <3> QED
      BY <1>1, <2>3, <3>1
  <2> QED
    BY <2>2, <2>3, CommitItems
<1>5. Books'
  BY <1>3, <1>4, CommitNumbers DEF Books, Marked, Settled
<1>6. tx'[c].pc = "idle"
  BY SerialFacts, TypedFacts, IdleRequest DEF Commit, End
<1>7. Held(c)'
  BY CommitRows DEF Held
<1> QED
  BY <1>5, <1>6, <1>7, SerialFacts DEF SerialInv

\* The sweep marks invoices with a balance; nothing else moves but the clock.
LEMMA SweptRows ==
  ASSUME TypedInv, markOverdueSweep
  PROVE  /\ inv'.lock = inv.lock /\ line' = line /\ pay' = pay /\ seq' = seq /\ tx' = tx
         /\ \A i \in Invoices :
              \/ inv'.row[i] = inv.row[i] /\ inv'.new[i] = inv.new[i]
              \/ /\ inv.lock[i] = NoConn /\ inv.row[i].total > inv.row[i].paid
                 /\ inv.row[i].status \in {"issued", "sent", "partially_paid"}
                 /\ inv'.row[i].status = "overdue" /\ inv'.row[i].total = inv.row[i].total
                 /\ inv'.row[i].paid = inv.row[i].paid /\ inv'.row[i].number = inv.row[i].number
<1>1. /\ inv'.lock = inv.lock /\ line' = line /\ pay' = pay /\ seq' = seq /\ tx' = tx
      /\ \A i \in Invoices : i \notin Sweepable => /\ inv'.row[i] = inv.row[i]
                                                   /\ inv'.new[i] = inv.new[i]
  BY TypedFacts DEF markOverdueSweep, Tables
<1>2. \A i \in Invoices : i \in Sweepable =>
        inv'.row[i] = [inv.row[i] EXCEPT !.status = "overdue"] /\ inv.row[i] \in InvoiceRows
  BY TypedFacts DEF markOverdueSweep, Tables
<1>3. ASSUME NEW i \in Invoices, i \in Sweepable
      PROVE  /\ inv.lock[i] = NoConn /\ inv.row[i].total > inv.row[i].paid
             /\ inv.row[i].status \in {"issued", "sent", "partially_paid"}
             /\ inv'.row[i].status = "overdue" /\ inv'.row[i].total = inv.row[i].total
             /\ inv'.row[i].paid = inv.row[i].paid /\ inv'.row[i].number = inv.row[i].number
  <2>1. /\ inv.lock[i] = NoConn /\ inv.row[i].total > inv.row[i].paid
        /\ inv.row[i].status \in {"issued", "sent", "partially_paid"}
    BY <1>3 DEF Sweepable, markOverdueSweep
  <2> QED
    BY <1>2, <1>3, <2>1 DEF InvoiceRows
<1> QED
  BY <1>1, <1>3

LEMMA SweepSerial ==
  ASSUME SerialInv, OneConnection, TypedInv', markOverdueSweep
  PROVE  SerialInv'
<1>1. /\ inv'.lock = inv.lock /\ line' = line /\ pay' = pay /\ seq' = seq /\ tx' = tx
      /\ TypedInv /\ Books
  BY SweptRows DEF SerialInv
<1>2. ASSUME NEW i \in Invoices
      PROVE  /\ inv'.row[i].total = inv.row[i].total /\ inv'.row[i].paid = inv.row[i].paid
             /\ inv'.row[i].number = inv.row[i].number
             /\ inv'.row[i].status = inv.row[i].status \/
                  /\ inv'.row[i].status = "overdue" /\ ~Settled(inv.row[i])
                  /\ inv.row[i].status \in {"issued", "sent", "partially_paid"}
             /\ inv.lock[i] # NoConn => inv'.row[i] = inv.row[i] /\ inv'.new[i] = inv.new[i]
  <2>1. inv.row[i].total \in Nat /\ inv.row[i].paid \in Nat
    BY <1>1, TypedFacts DEF InvoiceRows
  <2> QED
    BY <1>1, <2>1, SweptRows DEF Settled
<1>3. Books'
  <2>1. NumbersGapless'
    BY <1>1, <1>2 DEF Books, NumbersGapless
  <2>2. ASSUME NEW i \in Invoices
        PROVE  /\ inv'.row[i].total = Charges(line.row, i)
               /\ inv'.row[i].paid = Receipts(pay.row, i)
               /\ Marked(inv'.row[i])
               /\ inv'.row[i].status \in Early => inv'.row[i].number = 0
               /\ inv'.row[i].status \in Early => inv.row[i].status \in Early
    BY <1>1, <1>2 DEF Books, Marked, Settled, Early
  <2>3. \A p \in Payments : pay.row[p].status # "none" => pay.row[p].invoice \in Invoices
    BY <1>1, TypedFacts DEF Placed, Exists
  <2> QED
    BY <1>1, <2>1, <2>2, <2>3 DEF Books, Marked, Settled
<1>4. ASSUME NEW c \in Conns PROVE Held(c)'
  BY <1>1, SerialFacts, <1>4 DEF Held
<1>5. ASSUME NEW c \in Conns, tx[c].pc # "idle" PROVE UnderWay(c)'
  <2> DEFINE i == tx[c].inv
  <2>1. /\ UnderWay(c) /\ i \in Invoices /\ c # NoConn
    BY <1>1, <1>5, SerialFacts, TypedFacts DEF OnInvoice
  <2>2. Suits(tx[c])'
    BY <1>1, <1>2, <2>1 DEF UnderWay, Suits, Settled, Early
  <2>3. LinesSeen(c)' = LinesSeen(c) /\ PaymentsSeen(c)' = PaymentsSeen(c)
    BY <1>1 DEF LinesSeen, PaymentsSeen
  <2>4. /\ Seen(inv, c, i)'.status = "draft" <=> Seen(inv, c, i).status = "draft"
        /\ Seen(inv, c, i)'.status = "void" <=> Seen(inv, c, i).status = "void"
    BY <1>1, <1>2, <2>1 DEF Seen
  <2>5. Recomputed(c)'
    BY <1>1, <2>1, <2>3, <2>4 DEF UnderWay, Recomputed
  <2>6. Rewritten(c)'
    BY <1>1, <1>2, <2>1 DEF UnderWay, Rewritten, Marked, Settled
  <2>7. (Closing(c) /\ Numbered(c))'
    BY <1>1, <1>2, <2>1, <2>3 DEF UnderWay, Closing, Numbered
  <2> QED
    BY <2>2, <2>5, <2>6, <2>7 DEF UnderWay
<1> QED
  BY <1>1, <1>3, <1>4, <1>5 DEF SerialInv

LEMMA QuietSerial ==
  ASSUME SerialInv, OneConnection, TypedInv', UNCHANGED <<tables, tx>>
  PROVE  SerialInv'
<1>1. inv' = inv /\ line' = line /\ pay' = pay /\ seq' = seq /\ tx' = tx
  BY DEF tables
<1>2. ASSUME NEW c \in Conns PROVE Held(c)' /\ (tx'[c].pc # "idle" => UnderWay(c)')
  <2>1. LinesSeen(c)' = LinesSeen(c) /\ PaymentsSeen(c)' = PaymentsSeen(c)
    BY <1>1 DEF LinesSeen, PaymentsSeen
  <2>2. Held(c)'
    BY <1>1, SerialFacts DEF Held
  <2>3. UnderWay(c) => UnderWay(c)'
    BY <1>1, <2>1, SMTT(30) DEF UnderWay, Suits, Recomputed, Rewritten, Closing, Numbered
  <2> QED
    BY <1>1, <2>2, <2>3, SerialFacts
<1>3. Books'
  BY <1>1 DEF SerialInv, Books, NumbersGapless
<1> QED
  BY <1>2, <1>3 DEF SerialInv

LEMMA InitSerial == Init => SerialInv
<1> SUFFICES ASSUME Init PROVE SerialInv
  OBVIOUS
<1>1. TypedInv
  BY InitTyped
<1>2. /\ \A i \in Invoices : inv.row[i] = NotInserted /\ inv.lock[i] = NoConn
      /\ \A l \in Lines : line.row[l] = NoLine /\ line.lock[l] = NoConn
      /\ \A p \in Payments : pay.row[p] = NoPayment /\ pay.lock[p] = NoConn
      /\ seq.row["INV"] = 0 /\ seq.lock["INV"] = NoConn
      /\ \A c \in Conns : tx[c].pc = "idle" /\ c # NoConn
  BY NoConnIsNone DEF Init, Filled, Sequences, Idle
<1>3. ASSUME NEW i \in Invoices
      PROVE  /\ inv.row[i].total = Charges(line.row, i) /\ inv.row[i].paid = Receipts(pay.row, i)
             /\ Marked(inv.row[i]) /\ inv.row[i].number = 0
  <2>1. inv.row[i].total = 0 /\ inv.row[i].paid = 0 /\ Marked(inv.row[i]) /\ inv.row[i].number = 0
    BY <1>2 DEF NotInserted, Marked
  <2>2. Charges(line.row, i) = 0
    <3>1. \A l \in Lines : line.row[l].invoice # i
      BY <1>2, LedgerConstants DEF NoLine
    <3> QED
      BY <3>1, NoRows
  <2>3. Receipts(pay.row, i) = 0
    <3>1. \A p \in Payments : pay.row[p].invoice = i => pay.row[p].status # "cleared"
      BY <1>2 DEF NoPayment
    <3> QED
      BY <3>1, NoRows
  <2> QED
    BY <2>1, <2>2, <2>3
<1>4. NumbersGapless
  BY <1>2, <1>3 DEF NumbersGapless
<1>5. \A p \in Payments : pay.row[p].status = "none"
  BY <1>2 DEF NoPayment
<1>6. Books
  BY <1>3, <1>4, <1>5 DEF Books
<1> QED
  BY <1>1, <1>2, <1>6 DEF SerialInv, Held

LEMMA StepSerial == OneConnection /\ SerialInv /\ [Next]_vars => SerialInv'
<1> SUFFICES ASSUME OneConnection, SerialInv, [Next]_vars PROVE SerialInv'
  OBVIOUS
<1>0. TypedInv'
  BY StepTyped DEF SerialInv
<1>1. ASSUME NEW c \in Conns, Request(c) PROVE SerialInv'
  BY <1>0, <1>1, RequestSuits, BeginSerial
<1>2. ASSUME NEW c \in Conns, Statement(c) PROVE SerialInv'
  BY <1>0, <1>2, HeaderSerial, EditSerial, ItemSerial, ReadSerial, NumberSerial, TotalsSerial,
     StatusSerial, CommitSerial DEF Statement
<1>3. ASSUME NEW c \in Conns, Abort(c) PROVE SerialInv'
  BY <1>0, <1>3, AbortSerial
<1>4. CASE markOverdueSweep
  BY <1>0, <1>4, SweepSerial
<1>5. CASE UNCHANGED vars \/ \E i \in Invoices : FallDue(i)
  BY <1>0, <1>5, QuietSerial DEF vars, FallDue
<1> QED
  BY <1>1, <1>2, <1>3, <1>4, <1>5 DEF Next

\* Serially, total_cents and paid_cents are what the lines and the cleared payments
\* come to, whatever was added, changed, deleted, voided, credited or rolled back.
THEOREM TotalsMatchHolds == ASSUME OneConnection PROVE Spec => []TotalsMatch
<1>1. SerialInv /\ [Next]_vars => SerialInv'
  BY StepSerial
<1> QED
  BY <1>1, InitSerial, BooksMatch, PTL DEF Spec

\* Serially, an invoice in circulation is marked paid exactly while it is settled.
THEOREM PaidIffSettledHolds == ASSUME OneConnection PROVE Spec => []PaidIffSettled
<1>1. SerialInv /\ [Next]_vars => SerialInv'
  BY StepSerial
<1>2. SerialInv => PaidIffSettled
  BY DEF SerialInv, Books, Marked, Settled, PaidIffSettled
<1> QED
  BY <1>1, <1>2, InitSerial, PTL DEF Spec

\* Serially, the numbers committed are 1, 2, 3, ... without a gap: a request that
\* fails gives its number back.
THEOREM NumbersGaplessHolds == ASSUME OneConnection PROVE Spec => []NumbersGapless
<1>1. SerialInv /\ [Next]_vars => SerialInv'
  BY StepSerial
<1>2. SerialInv => NumbersGapless
  BY DEF SerialInv, Books
<1> QED
  BY <1>1, <1>2, InitSerial, PTL DEF Spec

\* A step changes no row of the invoices or of the lines, unless it commits or sweeps.
LEMMA RowsChange ==
  ASSUME SerialInv, [Next]_vars
  PROVE  \/ inv'.row = inv.row /\ line'.row = line.row
         \/ markOverdueSweep
         \/ \E c \in Conns : Commit(c)
<1>1. TypedInv
  BY DEF SerialInv
<1>2. ASSUME NEW c \in Conns, Request(c) PROVE inv' = inv /\ line' = line
  <2>1. PICK q : Begin(c, q)
    BY <1>1, <1>2, RequestBegins
  <2> QED
    BY <2>1 DEF Begin, tables
<1>3. ASSUME NEW c \in Conns, Statement(c)
      PROVE  Commit(c) \/ (inv'.row = inv.row /\ line'.row = line.row)
  <2> DEFINE Kept == inv'.row = inv.row /\ line'.row = line.row
  <2>1. \A x, r : Written(inv, c, x, r).row = inv.row /\ Written(line, c, x, r).row = line.row
    BY <1>1, TypedFacts, WrittenRow
  <2>2. InsertInvoice(c) \/ WriteTotals(c) \/ WriteStatus(c) \/ WriteHeader(c) => Kept
    BY <2>1 DEF InsertInvoice, WriteTotals, WriteStatus, WriteHeader
  <2>3. InsertLine(c) \/ ChangeLine(c) => Kept
    BY <2>1 DEF InsertLine, ChangeLine
  <2>4. InsertPayment(c) \/ RefundPayment(c) \/ allocateMemoNumber(c) \/ allocateInvoiceNumber(c)
        => Kept
    BY DEF InsertPayment, RefundPayment, allocateMemoNumber, allocateInvoiceNumber
  <2>5. ReadInvoice(c) \/ ReadLines(c) \/ ReadPayments(c) \/ NextEdit(c) => Kept
    BY DEF ReadInvoice, ReadLines, ReadPayments, NextEdit, tables
  <2> QED
    BY <1>3, <2>2, <2>3, <2>4, <2>5 DEF Statement
<1>4. ASSUME NEW c \in Conns, Abort(c) PROVE inv'.row = inv.row /\ line'.row = line.row
  BY <1>4 DEF Abort, RolledBack
<1>5. ASSUME NEW i \in Invoices, FallDue(i) PROVE inv' = inv /\ line' = line
  BY <1>5 DEF FallDue, tables
<1>6. UNCHANGED vars => inv' = inv /\ line' = line
  BY DEF vars, tables
<1> QED
  BY <1>2, <1>3, <1>4, <1>5, <1>6 DEF Next

Frozen ==
  /\ \A i \in Invoices :
       /\ inv.row[i].number > 0 => inv'.row[i].number = inv.row[i].number
       /\ inv.row[i].status = "void" => inv'.row[i].status = "void"
  /\ \A l \in Lines :
       /\ line.row[l].invoice # NoInvoice
       /\ inv.row[line.row[l].invoice].status # "draft"
       => line'.row[l] = line.row[l]

LEMMA StepFrozen == OneConnection /\ SerialInv /\ [Next]_vars => Frozen
<1> SUFFICES ASSUME OneConnection, SerialInv, [Next]_vars PROVE Frozen
  OBVIOUS
<1>0. TypedInv /\ TypedInv' /\ Books
  BY StepTyped DEF SerialInv
<1>1. CASE inv'.row = inv.row /\ line'.row = line.row
  BY <1>1 DEF Frozen
<1>2. CASE markOverdueSweep
  BY <1>0, <1>2, SweptRows DEF Frozen
<1>3. ASSUME NEW c \in Conns, Commit(c) PROVE Frozen
  <2> DEFINE i == tx[c].inv
  <2>1. /\ i \in Invoices /\ inv'.row[i] = inv.new[i]
        /\ \A k \in Invoices : k # i => inv'.row[k] = inv.row[k]
        /\ inv.row[i].status = "void" => inv.new[i].status = "void"
        /\ tx[c].op = "issue" => inv.row[i].number = 0
        /\ tx[c].op # "issue" => inv.new[i].number = inv.row[i].number
    BY <1>0, <1>3, CommitRows, SMTT(30) DEF Rewritten, Suits, Books, Early
  <2>2. \A k \in Invoices :
          /\ inv.row[k].number > 0 => inv'.row[k].number = inv.row[k].number
          /\ inv.row[k].status = "void" => inv'.row[k].status = "void"
    BY <2>1
  <2>3. \A l \in Lines : /\ line.row[l].invoice # NoInvoice
                         /\ inv.row[line.row[l].invoice].status # "draft"
                         => line'.row[l] = line.row[l]
    BY <1>0, <1>3, CommitItems
  <2> QED
    BY <2>2, <2>3 DEF Frozen
<1> QED
  BY <1>1, <1>2, <1>3, RowsChange

\* Serially, what the customer was sent is frozen: the number for ever, the lines of
\* an invoice that has left draft, and a void invoice stays void.
THEOREM IssuedIsFrozenHolds == ASSUME OneConnection PROVE Spec => IssuedIsFrozen
<1>1. SerialInv /\ [Next]_vars => SerialInv'
  BY StepSerial
<1>2. SerialInv /\ [Next]_vars => [Frozen]_vars
  BY StepFrozen
<1> QED
  BY <1>1, <1>2, InitSerial, PTL DEF Spec, IssuedIsFrozen, Frozen
-----------------------------------------------------------------------------
(***************************************************************************)
(* Deadlocks, for any number of connections and lines: what a request may  *)
(* hold at each of its steps, and which lines it can wait for.             *)
(***************************************************************************)
InOrder(c) ==
  LET t == tx[c] IN
  /\ t.op = "none" <=> t.pc = "idle"
  /\ t.pc = "insert" => t.op = "create"
  /\ t.pc \in {"header", "edits"} => t.op = "review"
  /\ t.pc = "memo" => t.op = "pay"
  /\ t.pc = "number" => t.op = "issue"
  /\ t.pc = "status" => t.op \in StatusOps
  /\ t.op \in StatusOps => t.pc \in {"number", "status", "commit"}

LocksOf(c) ==
  LET t == tx[c] IN
  /\ \A i \in Invoices : inv.lock[i] = c =>
       t.pc # "header" /\ (t.op \in {"create", "review"} \/ t.pc = "commit")
  /\ \A l \in Lines : line.lock[l] = c =>
       /\ t.op \in LineOps /\ t.pc # "header"
       /\ IF t.op = "review" THEN line.row[l].invoice # NoInvoice
                             ELSE l = t.item /\ t.pc \notin {"insert", "item"}
  /\ \A p \in Payments : pay.lock[p] = c =>
       t.op \in PaymentOps /\ t.pc \notin {"memo", "item"}
  /\ seq.lock["INV"] = c => t.op = "issue" /\ t.pc # "number"
  /\ seq.lock["CM"] = c => t.op = "pay" /\ t.pc # "memo"

\* A line it inserts is in no table and locked by nobody else; one it changes is there.
Inserting(c) == tx[c].op \in {"create", "addLine"} /\ tx[c].item # NoItem

Fresh(c) ==
  LET l == tx[c].item IN
  Inserting(c) => l \in Lines /\ line.row[l].invoice = NoInvoice /\ line.lock[l] \in {NoConn, c}

Known(c) ==
  tx[c].op \in {"updateLine", "review"} /\ tx[c].pc = "item" =>
    tx[c].item \in Lines /\ line.row[tx[c].item].invoice # NoInvoice

Ordered(c) == InOrder(c) /\ LocksOf(c) /\ Fresh(c) /\ Known(c)

OrderInv ==
  /\ \A c \in Conns : Ordered(c)
  /\ \A c, d \in Conns : Inserting(c) /\ Inserting(d) /\ tx[c].item = tx[d].item => c = d
  /\ \A l \in Lines : line.lock[l] # NoConn => line.new[l].invoice # NoInvoice

\* What a step of one connection has to leave to the others.
LEMMA OrderedStep ==
  ASSUME TypedInv, OrderInv, NEW c \in Conns, NEW q, tx' = [tx EXCEPT ![c] = q],
         \A i \in Invoices : inv'.lock[i] \in {inv.lock[i], c, NoConn},
         \A l \in Lines : line'.lock[l] \in {line.lock[l], c, NoConn},
         \A p \in Payments : pay'.lock[p] \in {pay.lock[p], c, NoConn},
         \A s \in Sequences : seq'.lock[s] \in {seq.lock[s], c, NoConn},
         \A l \in Lines : \/ line'.row[l] = line.row[l]
                          \/ line.lock[l] = c /\ line'.row[l].invoice # NoInvoice,
         \A l \in Lines : line'.lock[l] = c /\ line.lock[l] # c =>
           \/ Inserting(c) /\ l = tx[c].item
           \/ line.row[l].invoice # NoInvoice,
         \A l \in Lines : line'.lock[l] # NoConn => line'.new[l].invoice # NoInvoice,
         Inserting(c)' => \/ Inserting(c) /\ q.item = tx[c].item
                          \/ \A d \in Conns : tx[d].item # q.item,
         Ordered(c)'
  PROVE  OrderInv'
<1>1. tx'[c] = q /\ c # NoConn /\ \A d \in Conns \ {c} : tx'[d] = tx[d] /\ d # NoConn
  BY TypedFacts, NoConnIsNone
<1>2. ASSUME NEW d \in Conns, d # c PROVE Ordered(d)'
  <2>1. tx'[d] = tx[d] /\ d # NoConn /\ "INV" \in Sequences /\ "CM" \in Sequences /\ Ordered(d)
    BY <1>1, <1>2 DEF Sequences, OrderInv
  <2>2. InOrder(d)'
    BY <2>1 DEF Ordered, InOrder
  <2>3. /\ \A i \in Invoices : inv'.lock[i] = d => inv.lock[i] = d
        /\ \A l \in Lines : line'.lock[l] = d => line.lock[l] = d /\ line'.row[l] = line.row[l]
        /\ \A p \in Payments : pay'.lock[p] = d => pay.lock[p] = d
        /\ seq'.lock["INV"] = d => seq.lock["INV"] = d
        /\ seq'.lock["CM"] = d => seq.lock["CM"] = d
    BY <1>2, <2>1
  <2>4. LocksOf(d)'
    BY <2>1, <2>3 DEF Ordered, LocksOf
  <2>5. Fresh(d)'
    <3> SUFFICES ASSUME Inserting(d)
                 PROVE  LET l == tx[d].item IN
                        l \in Lines /\ line'.row[l].invoice = NoInvoice /\ line'.lock[l] \in {NoConn, d}
      BY <2>1 DEF Fresh, Inserting
    <3> DEFINE l == tx[d].item
    <3>1. l \in Lines /\ line.row[l].invoice = NoInvoice /\ line.lock[l] \in {NoConn, d}
      BY <2>1 DEF Ordered, Fresh
    <3>2. ~(Inserting(c) /\ l = tx[c].item)
      BY <1>2 DEF OrderInv
    <3>3. line'.row[l] = line.row[l]
      BY <1>1, <1>2, <3>1
    <3>4. line'.lock[l] # c
      BY <1>1, <1>2, <3>1, <3>2
    <3> QED
      BY <3>1, <3>3, <3>4
  <2>6. Known(d)'
    BY <2>1 DEF Ordered, Known
  <2> QED
    BY <2>2, <2>4, <2>5, <2>6 DEF Ordered
<1>3. ASSUME NEW d \in Conns, NEW e \in Conns, Inserting(d)', Inserting(e)', tx'[d].item = tx'[e].item
      PROVE  d = e
  BY <1>1, <1>3 DEF OrderInv, Inserting
<1> QED
  BY <1>2, <1>3 DEF OrderInv

\* A request begins, and holds nothing.
Starts(q) ==
  LET l == q.item IN
  /\ \/ q.op = "create" /\ q.pc = "insert"
     \/ q.op \in {"addLine", "updateLine", "pay", "voidPayment"} /\ q.pc = "item"
     \/ q.op = "review" /\ q.pc \in {"header", "edits"}
     \/ q.op = "pay" /\ q.pc = "memo"
     \/ q.op = "issue" /\ q.pc = "number"
     \/ q.op = "status" /\ q.pc = "status"
  /\ q.op \in {"create", "addLine"} /\ l # NoItem => l \in Lines /\ NewLine(l)
  /\ q.op = "updateLine" => l \in Lines /\ line.row[l].invoice # NoInvoice

LEMMA RequestStarts ==
  ASSUME TypedInv, NEW c \in Conns, Request(c)
  PROVE  \E q : Starts(q) /\ Begin(c, q)
<1> USE DEF Starts, Idle
<1>1. ASSUME NEW i \in Invoices,
             \/ createManual(c, i) \/ markSent(c, i) \/ voidInvoice(c, i) \/ updateReview(c, i)
             \/ \E status \in {"issued", "sent"} : issue(c, i, status)
      PROVE  \E q : Starts(q) /\ Begin(c, q)
  BY <1>1 DEF createManual, markSent, voidInvoice, updateReview, issue
<1>2. ASSUME NEW i \in Invoices, NEW l \in Lines, NEW a \in Amounts,
             addLineItem(c, i, l, a) \/ \E j \in Jobs : generateFromJob(c, j, i, l, a)
      PROVE  \E q : Starts(q) /\ Begin(c, q)
  BY <1>2 DEF addLineItem, generateFromJob
<1>3. ASSUME NEW l \in Lines, NEW a \in Amounts \cup {0}, updateLineItem(c, l, a)
      PROVE  \E q : Starts(q) /\ Begin(c, q)
  <2>1. line.row[l].invoice # NoInvoice
    BY <1>3, TypedFacts, LedgerConstants DEF updateLineItem, Placed
  <2> QED
    BY <1>3, <2>1 DEF updateLineItem
<1>4. ASSUME NEW i \in Invoices, NEW p \in Payments, NEW a \in Amounts,
             \/ createCreditMemo(c, i, p, a)
             \/ \E status \in RecordedAs : recordPayment(c, i, p, a, status)
      PROVE  \E q : Starts(q) /\ Begin(c, q)
  BY <1>4 DEF createCreditMemo, recordPayment
<1>5. ASSUME NEW p \in Payments, voidPayment(c, p) PROVE \E q : Starts(q) /\ Begin(c, q)
  BY <1>5 DEF voidPayment
<1> QED
  BY <1>1, <1>2, <1>3, <1>4, <1>5 DEF Request

LEMMA BeginOrdered ==
  ASSUME TypedInv, OrderInv, NEW c \in Conns, NEW q, Starts(q), Begin(c, q)
  PROVE  OrderInv'
<1>1. /\ tx' = [tx EXCEPT ![c] = q] /\ inv' = inv /\ line' = line /\ pay' = pay /\ seq' = seq
      /\ tx'[c] = q /\ tx[c].pc = "idle" /\ Ordered(c) /\ c # NoConn
  BY TypedFacts, NoConnIsNone DEF Begin, tables, Serving, OrderInv
<1>2. tx[c].op = "none"
  BY <1>1 DEF Ordered, InOrder
<1>3. /\ \A i \in Invoices : inv.lock[i] # c
      /\ \A l \in Lines : line.lock[l] # c
      /\ \A p \in Payments : pay.lock[p] # c
      /\ seq.lock["INV"] # c /\ seq.lock["CM"] # c
  BY <1>1, <1>2 DEF Ordered, LocksOf, LineOps, PaymentOps
<1>4. InOrder(c)' /\ LocksOf(c)'
  BY <1>1, <1>3 DEF InOrder, LocksOf, Starts, StatusOps
<1>5. Fresh(c)'
  <2> SUFFICES ASSUME q.op \in {"create", "addLine"}, q.item # NoItem
               PROVE  /\ q.item \in Lines /\ line.row[q.item].invoice = NoInvoice
                      /\ line.lock[q.item] \in {NoConn, c}
    BY <1>1 DEF Fresh, Inserting
  <2>1. q.item \in Lines /\ line.row[q.item].invoice = NoInvoice /\ \A d \in Conns : tx[d].item # q.item
    BY DEF Starts, NewLine, NoLine
  <2>2. line.lock[q.item] \in Conns \cup {NoConn}
    BY <2>1, TypedFacts
  <2>3. \A d \in Conns : line.lock[q.item] # d
    BY <2>1 DEF OrderInv, Ordered, LocksOf
  <2> QED
    BY <2>1, <2>2, <2>3
<1>6. Known(c)'
  BY <1>1 DEF Known, Starts
<1>7. Inserting(c)' => \A d \in Conns : tx[d].item # q.item
  BY <1>1 DEF Inserting, Starts, NewLine
<1>8. \A l \in Lines : line.lock[l] # NoConn => line.new[l].invoice # NoInvoice
  BY DEF OrderInv
<1> QED
  BY <1>1, <1>3, <1>4, <1>5, <1>6, <1>7, <1>8, OrderedStep DEF Ordered

\* A statement: it locks a row of the invoice, of its item or of a sequence.
LEMMA StatementOrdered ==
  ASSUME TypedInv, OrderInv, NEW c \in Conns, NEW q, tx' = [tx EXCEPT ![c] = q],
         q.op = tx[c].op, q.item = tx[c].item, InOrder(c)', LocksOf(c)', Known(c)',
         \A i \in Invoices : inv'.lock[i] \in {inv.lock[i], c},
         \A p \in Payments : pay'.lock[p] \in {pay.lock[p], c},
         \A s \in Sequences : seq'.lock[s] \in {seq.lock[s], c},
         line'.row = line.row,
         \A l \in Lines :
           \/ line'.lock[l] = line.lock[l] /\ line'.new[l] = line.new[l]
           \/ /\ l = tx[c].item /\ tx[c].op \in LineOps /\ tx[c].pc = "item"
              /\ line'.lock[l] = c /\ line'.new[l].invoice # NoInvoice
  PROVE  OrderInv'
<1>1. tx'[c] = q /\ c # NoConn /\ Ordered(c)
  BY TypedFacts, NoConnIsNone DEF OrderInv
<1>2. Inserting(c)' <=> Inserting(c)
  BY <1>1 DEF Inserting
<1>3. Fresh(c)'
  BY <1>1, <1>2 DEF Fresh, Ordered
<1>4. \A l \in Lines : line'.lock[l] = c /\ line.lock[l] # c =>
        \/ Inserting(c) /\ l = tx[c].item
        \/ line.row[l].invoice # NoInvoice
  <2> SUFFICES ASSUME NEW l \in Lines, line'.lock[l] = c, line.lock[l] # c
               PROVE  \/ Inserting(c) /\ l = tx[c].item
                      \/ line.row[l].invoice # NoInvoice
    OBVIOUS
  <2>1. l = tx[c].item /\ tx[c].op \in LineOps /\ tx[c].pc = "item" /\ l # NoItem
    BY LedgerConstants DEF Items
  <2> QED
    BY <1>1, <2>1 DEF Ordered, Known, Inserting, LineOps
<1>5. \A l \in Lines : line'.lock[l] # NoConn => line'.new[l].invoice # NoInvoice
  BY DEF OrderInv
<1>6. \A l \in Lines : line'.lock[l] \in {line.lock[l], c, NoConn}
  OBVIOUS
<1> QED
  BY <1>1, <1>2, <1>3, <1>4, <1>5, <1>6, OrderedStep DEF Ordered

\* The row of the invoice.
LEMMA InvoiceOrdered ==
  ASSUME TypedInv, OrderInv, NEW c \in Conns,
         InsertInvoice(c) \/ WriteHeader(c) \/ WriteTotals(c) \/ WriteStatus(c)
  PROVE  OrderInv'
<1> DEFINE i == tx[c].inv
<1>1. /\ tx[c].pc \in {"insert", "header", "totals", "status"} /\ OnInvoice(c) /\ Ordered(c)
      /\ line' = line /\ pay' = pay /\ seq' = seq
  BY TypedFacts DEF InsertInvoice, WriteHeader, WriteTotals, WriteStatus, Serving, OrderInv
<1>2. PICK r : inv' = Written(inv, c, i, r)
  BY DEF InsertInvoice, WriteHeader, WriteTotals, WriteStatus
<1>3. PICK pc \in Steps \ {"idle", "insert", "memo"} :
        /\ Goto(c, pc)
        /\ \/ tx[c].op = "create" /\ tx[c].pc = "insert" /\ pc \in {"invoice", "item"}
           \/ tx[c].op = "review" /\ pc = "edits"
           \/ pc = "commit"
  BY <1>1 DEF InsertInvoice, WriteHeader, WriteTotals, WriteStatus, Serving, OnInvoice, Steps
<1>4. PICK q \in Requests :
        /\ tx' = [tx EXCEPT ![c] = q] /\ q.op = tx[c].op /\ q.item = tx[c].item /\ q.pc = pc
  BY <1>3, GoesOn
<1>5. \A k \in Invoices : inv'.lock[k] \in {inv.lock[k], c}
  BY <1>2, TypedFacts, WrittenRow
<1>6. tx'[c] = q
  BY <1>4, TypedFacts
<1>7. InOrder(c)'
  BY <1>1, <1>3, <1>4, <1>6 DEF Ordered, InOrder, StatusOps
<1>8. LocksOf(c)'
  BY <1>1, <1>3, <1>4, <1>6 DEF Ordered, InOrder, LocksOf, LineOps, PaymentOps, StatusOps
<1>9. Known(c)'
  BY <1>3, <1>4, <1>6 DEF Known
<1> QED
  BY <1>1, <1>4, <1>5, <1>7, <1>8, <1>9, StatementOrdered

\* A line or a payment.
LEMMA LineOrdered ==
  ASSUME TypedInv, OrderInv, NEW c \in Conns, InsertLine(c) \/ ChangeLine(c)
  PROVE  OrderInv'
<1> DEFINE l == tx[c].item
<1>1. /\ tx[c].pc = "item" /\ tx[c].op \in LineOps /\ tx[c].inv \in Invoices /\ Ordered(c)
      /\ inv' = inv /\ pay' = pay /\ seq' = seq
      /\ line' \in {line, Written(line, c, l, Line(c))}
  BY TypedFacts DEF InsertLine, ChangeLine, Serving, OnInvoice, OrderInv, LineOps
<1>2. PICK pc \in Steps \ {"idle", "insert", "memo"} :
        Goto(c, pc) /\ (pc = "invoice" \/ (pc = "edits" /\ tx[c].op = "review"))
  BY DEF InsertLine, ChangeLine, Steps
<1>3. PICK q \in Requests :
        /\ tx' = [tx EXCEPT ![c] = q] /\ q.op = tx[c].op /\ q.item = l /\ q.pc = pc
  BY <1>2, GoesOn
<1>4. tx'[c] = q
  BY <1>3, TypedFacts
<1>5. Line(c).invoice # NoInvoice
  BY <1>1, LedgerConstants DEF Line
<1>6. /\ line'.row = line.row
      /\ \A k \in Lines : \/ line'.lock[k] = line.lock[k] /\ line'.new[k] = line.new[k]
                          \/ k = l /\ line'.lock[k] = c /\ line'.new[k] = Line(c)
  BY <1>1, TypedFacts, WrittenRow
<1>7. InOrder(c)'
  BY <1>1, <1>2, <1>3, <1>4 DEF Ordered, InOrder, StatusOps
<1>8. LocksOf(c)'
  <2>1. \A k \in Lines : line'.lock[k] = c =>
          IF q.op = "review" THEN line.row[k].invoice # NoInvoice
                             ELSE k = q.item /\ q.pc \notin {"insert", "item"}
    BY <1>1, <1>2, <1>3, <1>6 DEF Ordered, LocksOf, Known
  <2> QED
    BY <1>1, <1>2, <1>3, <1>4, <1>6, <2>1 DEF Ordered, LocksOf, LineOps, PaymentOps
<1>9. Known(c)'
  BY <1>2, <1>3, <1>4 DEF Known
<1> QED
  BY <1>1, <1>3, <1>5, <1>6, <1>7, <1>8, <1>9, StatementOrdered

LEMMA EditOrdered ==
  ASSUME TypedInv, OrderInv, NEW c \in Conns, NextEdit(c)
  PROVE  OrderInv'
<1>1. PICK l \in Lines, a \in Amounts :
        /\ tx' = [tx EXCEPT ![c].item = l, ![c].amount = a, ![c].pc = "item"]
        /\ Seen(line, c, l).invoice = tx[c].inv
  BY DEF NextEdit, LinesOf
<1> DEFINE q == [tx[c] EXCEPT !.item = l, !.amount = a, !.pc = "item"]
<1>2. /\ tx[c] \in Requests /\ tx[c].pc = "edits" /\ tx[c].inv \in Invoices /\ Ordered(c)
      /\ inv' = inv /\ line' = line /\ pay' = pay /\ seq' = seq
  BY TypedFacts DEF NextEdit, Serving, OnInvoice, tables, OrderInv
<1>3. tx[c].op = "review"
  BY <1>2 DEF Ordered, InOrder
<1>4. tx' = [tx EXCEPT ![c] = q] /\ tx'[c] = q /\ q.op = "review" /\ q.item = l /\ q.pc = "item"
  BY <1>1, <1>2, <1>3, TypedFacts DEF Requests
<1> HIDE DEF q
<1>5. line.row[l].invoice # NoInvoice
  <2>1. line.lock[l] = c => line.row[l].invoice # NoInvoice
    BY <1>2, <1>3 DEF Ordered, LocksOf
  <2> QED
    BY <1>1, <1>2, <2>1, LedgerConstants DEF Seen
<1>6. InOrder(c)' /\ LocksOf(c)'
  BY <1>2, <1>3, <1>4 DEF Ordered, InOrder, LocksOf, StatusOps, PaymentOps
<1>7. Known(c)' /\ Fresh(c)' /\ ~Inserting(c)'
  BY <1>2, <1>4, <1>5 DEF Known, Fresh, Inserting
<1>8. \A k \in Lines : line.lock[k] # NoConn => line.new[k].invoice # NoInvoice
  BY DEF OrderInv
<1> QED
  BY <1>2, <1>4, <1>6, <1>7, <1>8, OrderedStep DEF Ordered

LEMMA PaymentOrdered ==
  ASSUME TypedInv, OrderInv, NEW c \in Conns, InsertPayment(c) \/ RefundPayment(c)
  PROVE  OrderInv'
<1>1. /\ tx[c].pc = "item" /\ tx[c].op \in PaymentOps /\ Ordered(c)
      /\ inv' = inv /\ line' = line /\ seq' = seq
      /\ "invoice" \in Steps \ {"idle", "insert", "memo"} /\ Goto(c, "invoice")
  BY DEF InsertPayment, RefundPayment, Serving, OrderInv, PaymentOps, Steps
<1>2. PICK q \in Requests :
        /\ tx' = [tx EXCEPT ![c] = q] /\ q.op = tx[c].op /\ q.item = tx[c].item /\ q.pc = "invoice"
  BY <1>1, GoesOn
<1>3. PICK r : pay' = Written(pay, c, tx[c].item, r)
  BY DEF InsertPayment, RefundPayment
<1>4. \A p \in Payments : pay'.lock[p] = pay.lock[p] \/ (p = tx[c].item /\ pay'.lock[p] = c)
  BY <1>3, TypedFacts, WrittenRow
<1>5. tx'[c] = q
  BY <1>2, TypedFacts
<1>6. InOrder(c)' /\ LocksOf(c)' /\ Known(c)'
  BY <1>1, <1>2, <1>4, <1>5 DEF Ordered, InOrder, LocksOf, Known, PaymentOps, LineOps, StatusOps
<1> QED
  BY <1>1, <1>2, <1>4, <1>6, StatementOrdered

\* A number, and the reads of recomputeTotals.
LEMMA NumberOrdered ==
  ASSUME TypedInv, OrderInv, NEW c \in Conns, allocateMemoNumber(c) \/ allocateInvoiceNumber(c)
  PROVE  OrderInv'
<1>1. /\ Ordered(c) /\ inv' = inv /\ line' = line /\ pay' = pay /\ tx[c] \in Requests
      /\ "INV" \in Sequences /\ "CM" \in Sequences
  BY TypedFacts DEF allocateMemoNumber, allocateInvoiceNumber, OrderInv, Sequences
<1>2. PICK q : /\ tx' = [tx EXCEPT ![c] = q] /\ q.op = tx[c].op /\ q.item = tx[c].item
               /\ \/ allocateMemoNumber(c) /\ q.pc = "item"
                  \/ allocateInvoiceNumber(c) /\ q.pc = "status"
  <2>1. CASE allocateMemoNumber(c)
    <3>1. "item" \in Steps \ {"idle", "insert", "memo"} /\ Goto(c, "item")
      BY <2>1 DEF allocateMemoNumber, Steps
    <3> QED
      BY <2>1, <3>1, GoesOn
  <2>2. CASE allocateInvoiceNumber(c)
    <3> DEFINE k == seq.row["INV"] + 1
               q == [tx[c] EXCEPT !.number = k, !.pc = "status"]
    <3>1. tx' = [tx EXCEPT ![c] = q]
      BY <2>2, TypedFacts DEF allocateInvoiceNumber
    <3> HIDE DEF k
    <3>2. q.op = tx[c].op /\ q.item = tx[c].item /\ q.pc = "status"
      BY <1>1 DEF Requests
    <3> QED
      BY <2>2, <3>1, <3>2
  <2> QED
    BY <2>1, <2>2
<1>3. /\ \A s \in Sequences : seq'.lock[s] \in {seq.lock[s], c}
      /\ allocateMemoNumber(c) => tx[c].pc = "memo" /\ seq'.lock["INV"] = seq.lock["INV"]
      /\ allocateInvoiceNumber(c) => tx[c].pc = "number" /\ seq'.lock["CM"] = seq.lock["CM"]
  BY TypedFacts, WrittenRow
     DEF allocateMemoNumber, allocateInvoiceNumber, NextNumber, Serving, Sequences
<1>4. tx'[c] = q
  BY <1>2, TypedFacts
<1>5. InOrder(c)' /\ Known(c)'
  BY <1>1, <1>2, <1>3, <1>4 DEF Ordered, InOrder, Known, StatusOps
<1>6. LocksOf(c)'
  <2>1. /\ \A l \in Lines : line.lock[l] # c
        /\ \A p \in Payments : pay.lock[p] # c
        /\ \A i \in Invoices : inv.lock[i] # c
    BY <1>1, <1>3 DEF Ordered, InOrder, LocksOf, LineOps, PaymentOps,
                      allocateMemoNumber, allocateInvoiceNumber
  <2> QED
    BY <1>1, <1>2, <1>3, <1>4, <2>1 DEF Ordered, InOrder, LocksOf
<1> QED
  BY <1>1, <1>2, <1>3, <1>5, <1>6, StatementOrdered

LEMMA ReadsOrdered ==
  ASSUME TypedInv, OrderInv, NEW c \in Conns, ReadInvoice(c) \/ ReadLines(c) \/ ReadPayments(c)
  PROVE  OrderInv'
<1>1. /\ Ordered(c) /\ inv' = inv /\ line' = line /\ pay' = pay /\ seq' = seq
      /\ tx[c] \in Requests /\ tx[c].pc \in {"invoice", "lines", "payments"}
  BY TypedFacts DEF ReadInvoice, ReadLines, ReadPayments, tables, OrderInv, Serving
<1>2. PICK q : /\ tx' = [tx EXCEPT ![c] = q] /\ q.op = tx[c].op /\ q.item = tx[c].item
               /\ q.pc \in {"lines", "payments", "totals"}
  <2>1. CASE ReadInvoice(c)
    <3> DEFINE was == Seen(inv, c, tx[c].inv).status
               q == [tx[c] EXCEPT !.was = was, !.pc = "lines"]
    <3>1. tx' = [tx EXCEPT ![c] = q]
      BY <2>1, TypedFacts DEF ReadInvoice
    <3> HIDE DEF was
    <3>2. q.op = tx[c].op /\ q.item = tx[c].item /\ q.pc = "lines"
      BY <1>1 DEF Requests
    <3> QED
      BY <3>1, <3>2
  <2>2. CASE ReadLines(c)
    <3> DEFINE amount(x) == Seen(line, c, x).amount
               owed == MapThenSumSet(amount, LinesOf(c, tx[c].inv))
               q == [tx[c] EXCEPT !.total = owed, !.pc = "payments"]
    <3>1. tx' = [tx EXCEPT ![c].total = owed, ![c].pc = "payments"]
      BY <2>2 DEF ReadLines
    <3> HIDE DEF owed
    <3>2. tx' = [tx EXCEPT ![c] = q]
      BY <3>1, TypedFacts
    <3>3. q.op = tx[c].op /\ q.item = tx[c].item /\ q.pc = "payments"
      BY <1>1 DEF Requests
    <3> QED
      BY <3>2, <3>3
  <2>3. CASE ReadPayments(c)
    <3> DEFINE amount(x) == Seen(pay, c, x).amount
               paid == MapThenSumSet(amount, PaymentsOf(c, tx[c].inv))
               od == tx[c].inv \in due /\ tx[c].was # "draft" /\ tx[c].total > paid
               to == statusAfterPayment(tx[c].was, tx[c].total, paid, od)
               q == [tx[c] EXCEPT !.paid = paid, !.pc = "totals", !.to = to]
    <3>1. tx' = [tx EXCEPT ![c].paid = paid, ![c].pc = "totals", ![c].to = to]
      BY <2>3 DEF ReadPayments
    <3> HIDE DEF paid, to
    <3>2. tx' = [tx EXCEPT ![c] = q]
      BY <3>1, TypedFacts
    <3>3. q.op = tx[c].op /\ q.item = tx[c].item /\ q.pc = "totals"
      BY <1>1 DEF Requests
    <3> QED
      BY <3>2, <3>3
  <2> QED
    BY <2>1, <2>2, <2>3
<1>3. tx'[c] = q
  BY <1>2, TypedFacts
<1>4. InOrder(c)' /\ LocksOf(c)' /\ Known(c)'
  BY <1>1, <1>2, <1>3 DEF Ordered, InOrder, LocksOf, Known, StatusOps
<1> QED
  BY <1>1, <1>2, <1>4, StatementOrdered

LEMMA EndOrdered ==
  ASSUME TypedInv, OrderInv, NEW c \in Conns, Commit(c) \/ Abort(c)
  PROVE  OrderInv'
<1>1. /\ tx' = [tx EXCEPT ![c] = Idle] /\ tx'[c] = Idle /\ c # NoConn
      /\ Idle.op = "none" /\ Idle.pc = "idle"
      /\ inv \in Tables(Invoices, InvoiceRows) /\ line \in Tables(Lines, LineRows)
      /\ pay \in Tables(Payments, PaymentRows) /\ seq \in Tables(Sequences, Nat)
      /\ "INV" \in Sequences /\ "CM" \in Sequences
  BY TypedFacts, NoConnIsNone DEF Commit, Abort, End, Idle, Sequences
<1>2. /\ \A i \in Invoices : inv'.lock[i] \in {inv.lock[i], NoConn} /\ inv'.lock[i] # c
      /\ \A p \in Payments : pay'.lock[p] \in {pay.lock[p], NoConn} /\ pay'.lock[p] # c
      /\ \A s \in Sequences : seq'.lock[s] \in {seq.lock[s], NoConn} /\ seq'.lock[s] # c
  BY <1>1, TableCommitted, TableRolledBack DEF Commit, Abort
<1>3. \A l \in Lines :
        /\ line'.lock[l] = IF line.lock[l] = c THEN NoConn ELSE line.lock[l]
        /\ line.lock[l] # c => line'.new[l] = line.new[l] /\ line'.row[l] = line.row[l]
        /\ line.lock[l] = c => line'.row[l] \in {line.row[l], line.new[l]}
  <2>1. CASE Commit(c)
    BY <1>1, <2>1, TableCommitted DEF Commit
  <2>2. CASE Abort(c)
    BY <1>1, <2>2, TableRolledBack DEF Abort
  <2> QED
    BY <2>1, <2>2
<1>4. /\ \A l \in Lines : \/ line'.row[l] = line.row[l]
                          \/ line.lock[l] = c /\ line'.row[l].invoice # NoInvoice
      /\ \A l \in Lines : line'.lock[l] # NoConn => line'.new[l].invoice # NoInvoice
      /\ \A l \in Lines : line'.lock[l] \in {line.lock[l], c, NoConn} /\ line'.lock[l] # c
  BY <1>1, <1>3 DEF OrderInv
<1>5. Ordered(c)' /\ ~Inserting(c)'
  BY <1>1, <1>2, <1>4 DEF Ordered, InOrder, LocksOf, Fresh, Known, Inserting, StatusOps
<1> QED
  BY <1>1, <1>2, <1>4, <1>5, OrderedStep

LEMMA TimeOrdered ==
  ASSUME TypedInv, OrderInv, markOverdueSweep \/ UNCHANGED vars \/ \E i \in Invoices : FallDue(i)
  PROVE  OrderInv'
<1>1. line' = line /\ pay' = pay /\ seq' = seq /\ tx' = tx /\ inv'.lock = inv.lock
  BY TypedFacts, SweptRows DEF vars, tables, FallDue
<1>2. \A c \in Conns : Ordered(c)' /\ (Inserting(c)' <=> Inserting(c))
  BY <1>1 DEF OrderInv, Ordered, InOrder, LocksOf, Fresh, Known, Inserting
<1> QED
  BY <1>1, <1>2 DEF OrderInv

LEMMA StepOrdered == TypedInv /\ OrderInv /\ [Next]_vars => OrderInv'
<1> SUFFICES ASSUME TypedInv, OrderInv, [Next]_vars PROVE OrderInv'
  OBVIOUS
<1>1. ASSUME NEW c \in Conns, Request(c) PROVE OrderInv'
  BY <1>1, RequestStarts, BeginOrdered
<1>2. ASSUME NEW c \in Conns, Statement(c) PROVE OrderInv'
  BY <1>2, InvoiceOrdered, LineOrdered, EditOrdered, PaymentOrdered, NumberOrdered,
     ReadsOrdered, EndOrdered DEF Statement
<1> QED
  BY <1>1, <1>2, EndOrdered, TimeOrdered DEF Next

LEMMA InitOrdered == Init => OrderInv
<1> SUFFICES ASSUME Init PROVE OrderInv
  OBVIOUS
<1>1. \A c \in Conns : tx[c].op = "none" /\ tx[c].pc = "idle" /\ c # NoConn
  BY NoConnIsNone DEF Init, Idle
<1>2. /\ \A i \in Invoices : inv.lock[i] = NoConn
      /\ \A l \in Lines : line.lock[l] = NoConn
      /\ \A p \in Payments : pay.lock[p] = NoConn
      /\ seq.lock["INV"] = NoConn /\ seq.lock["CM"] = NoConn
  BY DEF Init, Filled, Sequences
<1> QED
  BY <1>1, <1>2 DEF OrderInv, Ordered, InOrder, LocksOf, Fresh, Known, Inserting, StatusOps

\* What a request holds that another waits for.
LEMMA WaitedForHolds ==
  ASSUME TypedInv, OrderInv, NEW c \in Conns, NEW d \in Conns, WaitsFor(d, c)
  PROVE  \/ tx[d].pc \in {"header", "totals", "status"} /\ \E i \in Invoices : inv.lock[i] = c
         \/ /\ tx[d].pc = "item" /\ tx[d].op \in {"updateLine", "review"}
            /\ tx[d].item \in Lines /\ line.lock[tx[d].item] = c
         \/ tx[d].op = "voidPayment" /\ tx[d].pc = "item" /\ \E p \in Payments : pay.lock[p] = c
         \/ tx[d].pc = "memo" /\ seq.lock["CM"] = c
         \/ tx[d].pc = "number" /\ seq.lock["INV"] = c
<1>1. Wanted(d) = c /\ c # NoConn /\ Ordered(d)
  BY NoConnIsNone DEF WaitsFor, OrderInv
<1>2. tx[d].pc # "idle" => tx[d].inv \in Invoices /\ HasItem(d)
  BY TypedFacts DEF OnInvoice
<1> QED
  BY <1>1, <1>2 DEF Wanted, HasItem, Ordered, Known

\* Who waits and is waited for: a review, an issue at its last UPDATE, or a recompute that has
\* not reached the invoice.
LEMMA WaitsAndHolds ==
  ASSUME TypedInv, OrderInv, NEW c \in Conns, NEW d \in Conns, NEW e \in Conns,
         WaitsFor(c, e), WaitsFor(d, c)
  PROVE  \/ tx[c].op = "review"
         \/ tx[c].pc \in {"totals", "status"} /\ \A i \in Invoices : inv.lock[i] # c
<1>1. Ordered(c) /\ Wanted(c) = e /\ e # NoConn /\ e # c
  BY NoConnIsNone DEF WaitsFor, OrderInv
<1>2. tx[c].pc \in {"header", "totals", "status", "item", "memo", "number"}
  BY <1>1 DEF Wanted
<1>3. tx[c].op = "create" /\ tx[c].pc # "insert" => inv.lock[tx[c].inv] = c
  BY <1>2, TypedFacts DEF OnInvoice
<1>4. CASE tx[c].pc \in {"totals", "status", "header"}
  BY <1>1, <1>3, <1>4 DEF Wanted, Ordered, InOrder, LocksOf
<1>5. CASE tx[c].pc \in {"item", "memo", "number"} /\ tx[c].op # "review"
  <2>1. tx[c].op # "create" /\ tx[c].op # "addLine"
    BY <1>1, <1>5 DEF Wanted, Ordered, InOrder
  <2>2. /\ \A i \in Invoices : inv.lock[i] # c
        /\ \A l \in Lines : line.lock[l] # c
        /\ \A p \in Payments : pay.lock[p] # c
        /\ seq.lock["INV"] # c
    BY <1>1, <1>5, <2>1 DEF Ordered, InOrder, LocksOf, LineOps, PaymentOps, StatusOps
  <2>3. seq.lock["CM"] # c
    BY <1>1, <1>5, <2>1 DEF Wanted, Ordered, InOrder, LocksOf
  <2> QED
    BY <2>2, <2>3, WaitedForHolds
<1> QED
  BY <1>2, <1>4, <1>5

\* With any number of connections, invoices and lines, only reviews deadlock, and edits of a
\* line that a review waits for.
THEOREM DeadlocksAreReviewsHold == Spec => []DeadlocksAreReviews
<1>1. TypedInv /\ OrderInv => DeadlocksAreReviews
  <2> SUFFICES ASSUME TypedInv, OrderInv, NEW c \in Conns, InCycle(c), tx[c].op # "review"
               PROVE  /\ tx[c].op = "updateLine" /\ Serving(c, "totals")
                      /\ \E d \in Conns : OnLine(d, "review") /\ WaitsFor(d, c)
    BY DEF DeadlocksAreReviews
  <2>1. PICK d \in Conns, e \in Conns, x \in Conns :
          WaitsFor(c, e) /\ WaitsFor(d, c) /\ WaitsFor(x, d)
    BY DEF InCycle
  <2>2. /\ tx[c].pc \in {"totals", "status"} /\ \A i \in Invoices : inv.lock[i] # c
        /\ tx[d].op = "review" \/ tx[d].pc \in {"totals", "status"}
        /\ Ordered(c) /\ Ordered(d)
    BY <2>1, WaitsAndHolds DEF OrderInv
  <2>3. tx[d].op = "review" /\ tx[d].pc = "item" /\ tx[d].item \in Lines /\ line.lock[tx[d].item] = c
    BY <2>1, <2>2, WaitedForHolds DEF Ordered, InOrder
  <2>4. tx[c].op \in LineOps /\ tx[d].item = tx[c].item /\ line.row[tx[c].item].invoice # NoInvoice
    BY <2>2, <2>3 DEF Ordered, LocksOf, Known
  <2>5. ~Inserting(c) /\ tx[c].item # NoItem
    BY <2>2, <2>3, <2>4, LedgerConstants DEF Ordered, Fresh, Items
  <2>6. tx[c].op = "updateLine"
    BY <2>4, <2>5 DEF Inserting, LineOps
  <2>7. tx[c].pc = "totals"
    BY <2>2, <2>6 DEF Ordered, InOrder, StatusOps
  <2> QED
    BY <2>1, <2>3, <2>6, <2>7 DEF OnLine, Serving
<1> QED
  BY <1>1, InitTyped, StepTyped, InitOrdered, StepOrdered, PTL DEF Spec
=============================================================================
