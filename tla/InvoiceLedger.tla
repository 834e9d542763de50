--------------------------- MODULE InvoiceLedger ----------------------------
(***************************************************************************)
(* Invoices, their line items and their payments: invoices.service.ts and  *)
(* the review edit of invoice-review.service.ts, apps/api/src/modules/     *)
(* billing.                                                                *)
(*                                                                         *)
(* Every request is one READ COMMITTED transaction: it reads the invoice   *)
(* and checks it, changes line items or a payment, and recomputes the      *)
(* totals from what it then reads, the UPDATE of the invoice last; but a   *)
(* review writes its notes to the invoice first.  A step is one statement. *)
(* Taxes are zero; deleting an invoice, what its header says, commissions  *)
(* and recurring schedules are left out.                                   *)
(***************************************************************************)
EXTENDS RowLocks, Integers, FiniteSets, FiniteSetsExt

CONSTANTS
  Invoices, Lines, Payments,   \* ids of the rows the requests insert
  Jobs,                        \* completed jobs
  Amounts,                     \* what a line or a payment comes to, in cents
  RecordedAs,                  \* the statuses payments are recorded with
  MaxNumber,                   \* bound: invoice numbers handed out
  NoInvoice, NoItem, NoJob

Items == Lines \cup Payments

ASSUME LedgerConstants ==
  /\ NoInvoice \notin Invoices /\ NoItem \notin Items /\ NoJob \notin Jobs
  /\ IsFiniteSet(Lines) /\ IsFiniteSet(Payments)
  /\ Lines \cap Payments = {} /\ Amounts \subseteq Nat \ {0}
  /\ MaxNumber \in Nat /\ RecordedAs \subseteq {"pending", "cleared"}

VARIABLES
  inv, line, pay,   \* the tables
  seq,              \* invoice_number_sequences
  due,              \* invoices whose due date has passed
  tx                \* per connection: the request and how far it is

tables == <<inv, line, pay, seq>>
vars == <<tables, due, tx>>

-----------------------------------------------------------------------------
InvoiceStatuses == {"draft", "issued", "sent", "partially_paid", "paid", "overdue",
                    "void", "refunded"}

\* A draft's number is a placeholder of its own: 0.
InvoiceRows == [status : InvoiceStatuses \cup {"none"}, job : Jobs \cup {NoJob},
                total : Nat, paid : Nat, number : Nat]
NotInserted == [status |-> "none", job |-> NoJob, total |-> 0, paid |-> 0, number |-> 0]

\* A deleted line comes to 0.
LineRows == [invoice : Invoices \cup {NoInvoice}, amount : Amounts \cup {0}]
NoLine == [invoice |-> NoInvoice, amount |-> 0]

PaymentRows == [invoice : Invoices \cup {NoInvoice}, amount : Amounts \cup {0},
                status : {"none", "pending", "cleared", "refunded"}]
NoPayment == [invoice |-> NoInvoice, amount |-> 0, status |-> "none"]

Sequences == {"INV", "CM"}

\* What a connection is at: the invoice, the line or payment it changes, the new
\* amount, what its recompute has read, the status it will write, its number.
Ops == {"none", "create", "addLine", "updateLine", "review", "pay", "voidPayment",
        "issue", "status"}
Steps == {"idle", "insert", "header", "edits", "memo", "item", "invoice", "lines",
          "payments", "totals", "number", "status", "commit"}
Requests == [op : Ops, pc : Steps, inv : Invoices \cup {NoInvoice}, job : Jobs \cup {NoJob},
             item : Items \cup {NoItem}, amount : Nat, as : {"pending", "cleared"},
             was : InvoiceStatuses, total : Nat, paid : Nat, to : InvoiceStatuses,
             number : Nat]
Idle == [op |-> "none", pc |-> "idle", inv |-> NoInvoice, job |-> NoJob, item |-> NoItem,
         amount |-> 0, as |-> "cleared", was |-> "draft", total |-> 0, paid |-> 0,
         to |-> "draft", number |-> 0]

TypeOK ==
  /\ inv \in Tables(Invoices, InvoiceRows) /\ line \in Tables(Lines, LineRows)
  /\ pay \in Tables(Payments, PaymentRows) /\ seq \in Tables(Sequences, Nat)
  /\ due \subseteq Invoices /\ tx \in [Conns -> Requests]

Init ==
  /\ inv = Filled(Invoices, NotInserted) /\ line = Filled(Lines, NoLine)
  /\ pay = Filled(Payments, NoPayment) /\ seq = Filled(Sequences, 0)
  /\ due = {} /\ tx = [c \in Conns |-> Idle]

-----------------------------------------------------------------------------
\* The status machine.
transitions ==
  [draft          |-> {"issued", "void"},
   issued         |-> {"sent", "partially_paid", "paid", "overdue", "void"},
   sent           |-> {"partially_paid", "paid", "overdue", "void"},
   partially_paid |-> {"paid", "overdue", "void"},
   paid           |-> {"refunded"},
   overdue        |-> {"partially_paid", "paid", "void"},
   void           |-> {},
   refunded       |-> {}]

canTransition(from, to) == from = to \/ to \in transitions[from]

\* Mutants: a void invoice is not left alone; a part payment settles.
statusAfterPaymentOfVoid(current, total, paid, isOverdue) ==
  IF total > 0 /\ paid >= total THEN "paid"
  ELSE IF isOverdue THEN "overdue"
  ELSE IF paid > 0 THEN "partially_paid" ELSE current

statusAfterPartPayment(current, total, paid, isOverdue) ==
  IF current \in {"void", "refunded"} THEN current
  ELSE IF total > 0 /\ paid > 0 THEN "paid"
  ELSE IF isOverdue THEN "overdue" ELSE current

statusAfterPayment(current, total, paid, isOverdue) ==
  IF current \in {"void", "refunded"} THEN current
  ELSE IF total > 0 /\ paid >= total THEN "paid"
  ELSE IF isOverdue THEN "overdue"
  ELSE IF paid > 0 \/ current = "paid" THEN "partially_paid" ELSE current

-----------------------------------------------------------------------------
\* Transactions.
Serving(c, pc) == tx[c].pc = pc
Goto(c, pc) == tx' = [tx EXCEPT ![c].pc = pc]

End(c) == tx' = [tx EXCEPT ![c] = Idle] /\ UNCHANGED due

Commit(c) ==
  /\ Serving(c, "commit") /\ End(c)
  /\ inv' = Committed(inv, c) /\ line' = Committed(line, c)
  /\ pay' = Committed(pay, c) /\ seq' = Committed(seq, c)

\* A statement or the COMMIT fails, or the process stops.
Abort(c) ==
  /\ ~Serving(c, "idle") /\ End(c)
  /\ inv' = RolledBack(inv, c) /\ line' = RolledBack(line, c)
  /\ pay' = RolledBack(pay, c) /\ seq' = RolledBack(seq, c)

-----------------------------------------------------------------------------
\* Requests: the first SELECT and the checks on what it saw.  Ids are generated by
\* the service: an id is new if no row and no request has it.
Begin(c, request) ==
  /\ Serving(c, "idle")
  /\ tx' = [tx EXCEPT ![c] = request]
  /\ UNCHANGED <<tables, due>>

NewInvoice(i) == inv.row[i].status = "none" /\ \A d \in Conns : tx[d].inv # i
NewLine(l) == line.row[l] = NoLine /\ \A d \in Conns : tx[d].item # l
NewPayment(p) == pay.row[p] = NoPayment /\ \A d \in Conns : tx[d].item # p

createManual(c, i) ==
  /\ NewInvoice(i)
  /\ Begin(c, [Idle EXCEPT !.op = "create", !.pc = "insert", !.inv = i])

generateFromJob(c, j, i, l, a) ==
  /\ \A k \in Invoices : inv.row[k].job = j => inv.row[k].status = "void"
  /\ NewInvoice(i) /\ NewLine(l)
  /\ Begin(c, [Idle EXCEPT !.op = "create", !.pc = "insert", !.inv = i, !.job = j,
                 !.item = l, !.amount = a])

requireDraft(i) == inv.row[i].status = "draft"

addLineItem(c, i, l, a) ==
  /\ requireDraft(i) /\ NewLine(l)
  /\ Begin(c, [Idle EXCEPT !.op = "addLine", !.pc = "item", !.inv = i, !.item = l,
                 !.amount = a])

\* a = 0: deleteLineItem.
\* Mutant: a deletion touches the invoice before the line.
deleteLineItemLast(c, l, a) ==
  LET i == line.row[l].invoice IN
  /\ line.row[l].amount > 0 /\ requireDraft(i)
  /\ Begin(c, [Idle EXCEPT !.op = "updateLine", !.pc = IF a = 0 THEN "header" ELSE "item",
                 !.inv = i, !.item = l, !.amount = a])

updateLineItem(c, l, a) ==
  LET i == line.row[l].invoice IN
  /\ line.row[l].amount > 0 /\ requireDraft(i)
  /\ Begin(c, [Idle EXCEPT !.op = "updateLine", !.pc = "item", !.inv = i, !.item = l,
                 !.amount = a])

\* With notes, which go to the invoice, or with edits of lines alone.
updateReview(c, i) ==
  /\ requireDraft(i)
  /\ \E pc \in {"header", "edits"} :
       Begin(c, [Idle EXCEPT !.op = "review", !.pc = pc, !.inv = i])

NumbersLeft ==
  seq.row["INV"] + Cardinality({d \in Conns : tx[d].op = "issue"}) < MaxNumber

\* Mutant: an invoice that has left draft is issued again.
issueAgain(c, i, status) ==
  /\ NumbersLeft
  /\ inv.row[i].status \notin {"none", "void"}
  /\ Begin(c, [Idle EXCEPT !.op = "issue", !.pc = "number", !.inv = i, !.to = status])

issue(c, i, status) ==
  /\ NumbersLeft
  /\ inv.row[i].status = "draft"
  /\ Begin(c, [Idle EXCEPT !.op = "issue", !.pc = "number", !.inv = i, !.to = status])

markSent(c, i) ==
  /\ inv.row[i].status = "issued"
  /\ Begin(c, [Idle EXCEPT !.op = "status", !.pc = "status", !.inv = i, !.to = "sent"])

voidInvoice(c, i) ==
  /\ inv.row[i].status # "none" /\ canTransition(inv.row[i].status, "void")
  /\ Begin(c, [Idle EXCEPT !.op = "status", !.pc = "status", !.inv = i, !.to = "void"])

recordPayment(c, i, p, a, status) ==
  /\ inv.row[i].status \notin {"none", "draft", "void"} /\ NewPayment(p)
  /\ Begin(c, [Idle EXCEPT !.op = "pay", !.pc = "item", !.inv = i, !.item = p,
                 !.amount = a, !.as = status])

voidPayment(c, p) ==
  /\ pay.row[p].status \in {"pending", "cleared"}
  /\ Begin(c, [Idle EXCEPT !.op = "voidPayment", !.pc = "item", !.item = p,
                 !.inv = pay.row[p].invoice])

\* Applied to the invoice; memos refunded otherwise write no payment.
createCreditMemo(c, i, p, a) ==
  /\ inv.row[i].status \notin {"none", "draft"} /\ NewPayment(p)
  /\ Begin(c, [Idle EXCEPT !.op = "pay", !.pc = "memo", !.inv = i, !.item = p,
                 !.amount = a])

-----------------------------------------------------------------------------
\* Statements.
InsertInvoice(c) ==
  LET t == tx[c] IN
  /\ Serving(c, "insert")
  /\ inv' = Written(inv, c, t.inv, [NotInserted EXCEPT !.status = "draft", !.job = t.job])
  /\ Goto(c, IF t.item = NoItem THEN "invoice" ELSE "item")
  /\ UNCHANGED <<line, pay, seq, due>>

Line(c) == [invoice |-> tx[c].inv, amount |-> tx[c].amount]

InsertLine(c) ==
  /\ Serving(c, "item") /\ tx[c].op \in {"create", "addLine"}
  /\ line' = Written(line, c, tx[c].item, Line(c))
  /\ Goto(c, "invoice") /\ UNCHANGED <<inv, pay, seq, due>>

\* The notes of a review; what they say is not in the row here.
WriteHeader(c) ==
  LET i == tx[c].inv IN
  /\ Serving(c, "header") /\ Free(inv, c, i)
  /\ inv' = Written(inv, c, i, inv.row[i])
  /\ \E pc \in {"edits", "commit"} : Goto(c, pc)
  /\ UNCHANGED <<line, pay, seq, due>>

LinesOf(c, i) == {l \in Lines : Seen(line, c, l).invoice = i}

\* The next line the review names; those it does not find end it.
NextEdit(c) ==
  /\ Serving(c, "edits")
  /\ \E l \in LinesOf(c, tx[c].inv), a \in Amounts :
       /\ Seen(line, c, l).amount > 0
       /\ tx' = [tx EXCEPT ![c].item = l, ![c].amount = a, ![c].pc = "item"]
  /\ UNCHANGED <<tables, due>>

\* UPDATE or DELETE WHERE id: nothing, if the line is gone by now.
ChangeLine(c) ==
  LET l == tx[c].item IN
  /\ Serving(c, "item") /\ tx[c].op \in {"updateLine", "review"} /\ Free(line, c, l)
  /\ line' = IF Seen(line, c, l).amount > 0 THEN Written(line, c, l, Line(c)) ELSE line
  /\ \/ Goto(c, "invoice")
     \/ tx[c].op = "review" /\ Goto(c, "edits")
  /\ UNCHANGED <<inv, pay, seq, due>>

\* The sequences' upserts hold the row until the transaction ends.
\* Mutant: no upsert: the second of two requests does not wait for the first.
NextNumberNoWait(c, s) == seq' = Written(seq, c, s, seq.row[s] + 1)

NextNumber(c, s) ==
  /\ Free(seq, c, s)
  /\ seq' = Written(seq, c, s, seq.row[s] + 1)

allocateMemoNumber(c) ==
  /\ Serving(c, "memo") /\ NextNumber(c, "CM")
  /\ Goto(c, "item") /\ UNCHANGED <<inv, line, pay, due>>

InsertPayment(c) ==
  LET t == tx[c] IN
  /\ Serving(c, "item") /\ t.op = "pay"
  /\ pay' = Written(pay, c, t.item, [invoice |-> t.inv, amount |-> t.amount, status |-> t.as])
  /\ Goto(c, "invoice") /\ UNCHANGED <<inv, line, seq, due>>

\* Mutant: a status payments do not have.
RefundPaymentAsVoid(c) ==
  LET p == tx[c].item IN
  /\ Serving(c, "item") /\ tx[c].op = "voidPayment" /\ Free(pay, c, p)
  /\ pay' = Written(pay, c, p, [pay.row[p] EXCEPT !.status = "void"])
  /\ Goto(c, "invoice") /\ UNCHANGED <<inv, line, seq, due>>

RefundPayment(c) ==
  LET p == tx[c].item IN
  /\ Serving(c, "item") /\ tx[c].op = "voidPayment" /\ Free(pay, c, p)
  /\ pay' = Written(pay, c, p, [pay.row[p] EXCEPT !.status = "refunded"])
  /\ Goto(c, "invoice") /\ UNCHANGED <<inv, line, seq, due>>

\* recomputeTotals: three reads, the status, one UPDATE WHERE id.
ReadInvoice(c) ==
  /\ Serving(c, "invoice")
  /\ tx' = [tx EXCEPT ![c].was = Seen(inv, c, tx[c].inv).status, ![c].pc = "lines"]
  /\ UNCHANGED <<tables, due>>

\* Mutant: soft-deleted payments are summed too.
PaymentsOfAnyStatus(c, i) == {p \in Payments : Seen(pay, c, p).invoice = i}

PaymentsOf(c, i) ==
  {p \in Payments : Seen(pay, c, p).invoice = i /\ Seen(pay, c, p).status = "cleared"}

ReadLines(c) ==
  LET amount(l) == Seen(line, c, l).amount IN
  /\ Serving(c, "lines")
  /\ tx' = [tx EXCEPT ![c].total = MapThenSumSet(amount, LinesOf(c, tx[c].inv)),
                      ![c].pc = "payments"]
  /\ UNCHANGED <<tables, due>>

ReadPayments(c) ==
  LET t == tx[c]
      amount(p) == Seen(pay, c, p).amount
      paid == MapThenSumSet(amount, PaymentsOf(c, t.inv))
      isOverdue == t.inv \in due /\ t.was # "draft" /\ t.total > paid
  IN
  /\ Serving(c, "payments")
  /\ tx' = [tx EXCEPT ![c].paid = paid, ![c].pc = "totals",
                      ![c].to = statusAfterPayment(t.was, t.total, paid, isOverdue)]
  /\ UNCHANGED <<tables, due>>

WriteTotals(c) ==
  LET t == tx[c] IN
  /\ Serving(c, "totals") /\ Free(inv, c, t.inv)
  /\ inv' = Written(inv, c, t.inv, [Seen(inv, c, t.inv) EXCEPT !.total = t.total,
                                      !.paid = t.paid, !.status = t.to])
  /\ Goto(c, "commit") /\ UNCHANGED <<line, pay, seq, due>>

allocateInvoiceNumber(c) ==
  /\ Serving(c, "number") /\ NextNumber(c, "INV")
  /\ tx' = [tx EXCEPT ![c].number = seq.row["INV"] + 1, ![c].pc = "status"]
  /\ UNCHANGED <<inv, line, pay, due>>

WriteStatus(c) ==
  LET t == tx[c] IN
  /\ Serving(c, "status") /\ Free(inv, c, t.inv)
  /\ inv' = Written(inv, c, t.inv, [inv.row[t.inv] EXCEPT !.status = t.to,
                                      !.number = IF t.op = "issue" THEN t.number ELSE @])
  /\ Goto(c, "commit") /\ UNCHANGED <<line, pay, seq, due>>

-----------------------------------------------------------------------------
\* Time, and the daily sweep: one UPDATE, in a transaction of its own.
FallDue(i) ==
  /\ inv.row[i].number > 0 /\ i \notin due
  /\ due' = due \cup {i} /\ UNCHANGED <<tables, tx>>

Sweepable == {i \in due : /\ inv.row[i].status \in {"issued", "sent", "partially_paid"}
                          /\ inv.row[i].total > inv.row[i].paid}

markOverdueSweep ==
  LET swept(rows) == [i \in Invoices |-> IF i \in Sweepable
                                         THEN [rows[i] EXCEPT !.status = "overdue"]
                                         ELSE rows[i]]
  IN
  /\ Sweepable # {} /\ \A i \in Sweepable : inv.lock[i] = NoConn
  /\ inv' = [inv EXCEPT !.row = swept(@), !.new = swept(@)]
  /\ UNCHANGED <<line, pay, seq, due, tx>>

-----------------------------------------------------------------------------
Request(c) ==
  \/ \E i \in Invoices :
       \/ createManual(c, i) \/ markSent(c, i) \/ voidInvoice(c, i) \/ updateReview(c, i)
       \/ \E status \in {"issued", "sent"} : issue(c, i, status)
  \/ \E i \in Invoices, l \in Lines, a \in Amounts :
       addLineItem(c, i, l, a) \/ \E j \in Jobs : generateFromJob(c, j, i, l, a)
  \/ \E l \in Lines, a \in Amounts \cup {0} : updateLineItem(c, l, a)
  \/ \E i \in Invoices, p \in Payments, a \in Amounts :
       \/ createCreditMemo(c, i, p, a)
       \/ \E status \in RecordedAs : recordPayment(c, i, p, a, status)
  \/ \E p \in Payments : voidPayment(c, p)

Statement(c) ==
  \/ InsertInvoice(c) \/ InsertLine(c) \/ WriteHeader(c) \/ NextEdit(c)
  \/ ChangeLine(c) \/ InsertPayment(c)
  \/ RefundPayment(c) \/ allocateMemoNumber(c) \/ allocateInvoiceNumber(c)
  \/ ReadInvoice(c) \/ ReadLines(c) \/ ReadPayments(c) \/ WriteTotals(c)
  \/ WriteStatus(c) \/ Commit(c)

Next ==
  \/ \E c \in Conns : Request(c) \/ Statement(c) \/ Abort(c)
  \/ \E i \in Invoices : FallDue(i)
  \/ markOverdueSweep

Spec == Init /\ [][Next]_vars

-----------------------------------------------------------------------------
(***************************************************************************)
(* Properties of the committed tables.                                     *)
(***************************************************************************)
\* total_cents is the sum of the invoice's lines and paid_cents of its cleared
\* payments, whatever was added, voided or credited.
TotalsMatch ==
  LET owed(l) == line.row[l].amount
      received(p) == pay.row[p].amount
  IN \A i \in Invoices :
       /\ inv.row[i].total = MapThenSumSet(owed, {l \in Lines : line.row[l].invoice = i})
       /\ inv.row[i].paid = MapThenSumSet(received,
            {p \in Payments : pay.row[p].invoice = i /\ pay.row[p].status = "cleared"})

\* An invoice in circulation is marked paid exactly while its balance is settled.
PaidIffSettled ==
  \A i \in Invoices : inv.row[i].status \notin {"none", "draft", "void"} =>
    (inv.row[i].status = "paid"
       <=> inv.row[i].total > 0 /\ inv.row[i].paid >= inv.row[i].total)

\* The numbers handed out are 1, 2, 3, ...: a request that fails after the sequence
\* moved, or an invoice issued twice, leaves no gap.
NumbersGapless ==
  {inv.row[i].number : i \in Invoices} \ {0} = 1..seq.row["INV"]

\* No two invoices have the same number, however their issues interleave.
NumbersUnique ==
  \A i, k \in Invoices :
    i # k /\ inv.row[i].number > 0 => inv.row[i].number # inv.row[k].number

\* What the customer was sent does not change: the number an invoice was issued under is
\* for ever, its lines are frozen once it has left draft, and a void invoice stays void,
\* whatever payments and credits come after.
IssuedIsFrozen ==
  [][/\ \A i \in Invoices :
           /\ inv.row[i].number > 0 => inv'.row[i].number = inv.row[i].number
           /\ inv.row[i].status = "void" => inv'.row[i].status = "void"
     /\ \A l \in Lines :
           /\ line.row[l].invoice # NoInvoice
           /\ inv.row[line.row[l].invoice].status # "draft"
           => line'.row[l] = line.row[l]]_vars

\* Which of these requests deadlock: reviews, and edits of a line that a review waits for
\* while their recompute waits for the invoice.  A review locks the invoice before its lines,
\* and several lines in the order they were sent; all others take the invoice last, after
\* one line, payment or sequence, so an issue, a void, a payment or a credit is never the
\* victim.
Wanted(c) ==
  LET t == tx[c] IN
  CASE t.pc \in {"header", "totals", "status"} -> inv.lock[t.inv]
    [] t.pc = "item" /\ t.op \in {"updateLine", "review"} -> line.lock[t.item]
    [] t.pc = "item" /\ t.op = "voidPayment" -> pay.lock[t.item]
    [] t.pc = "memo" -> seq.lock["CM"]
    [] t.pc = "number" -> seq.lock["INV"]
    [] OTHER -> NoConn

WaitsFor(c, d) == c # d /\ Wanted(c) = d

\* A set of requests each of which waits for one of the set, and each of which is waited for.
InCycle(c) ==
  \E S \in SUBSET Conns :
    /\ c \in S
    /\ \A x \in S : \E y \in S : WaitsFor(x, y)
    /\ \A y \in S : \E x \in S : WaitsFor(x, y)

OnLine(c, op) == tx[c].op = op /\ tx[c].pc = "item"

DeadlocksAreReviews ==
  \A c \in Conns :
    InCycle(c) =>
      \/ tx[c].op = "review"
      \/ /\ tx[c].op = "updateLine" /\ Serving(c, "totals")
         /\ \E d \in Conns : OnLine(d, "review") /\ WaitsFor(d, c)
=============================================================================
