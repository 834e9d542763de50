------------------------ MODULE StripePaymentsProofs ------------------------
(***************************************************************************)
(* However often Stripe delivers an event, and to however many instances,  *)
(* it is handled once; what is marked processed is in the ledger; and      *)
(* nobody is credited with what was not collected.  For any number of      *)
(* connections, intents and invoices.                                      *)
(***************************************************************************)
EXTENDS StripePayments, FiniteSetTheorems, WellFoundedInduction, TLAPS

\* The shape of a request; the sum of money it has read is left untyped.
RequestRow(q) ==
  q \in [op : {"none", "charge", "refund"} \cup EventTypes, pc : Steps,
         intent : Intents \cup {NoIntent}, as : PaymentStatuses, paid : {q.paid}]

Shape ==
  /\ pay \in Tables(Rows, PaymentStatuses) /\ ev \in [Events -> EventStatuses]
  /\ tx = [c \in Conns |-> tx[c]] /\ \A c \in Conns : RequestRow(tx[c])

\* Which requests come to which statement.
WellFormed(q) ==
  /\ q.pc = "idle" <=> q.op = "none"
  /\ q.pc # "idle" => q.intent \in Intents
  /\ q.pc \in {"find", "insert", "update"} => q.op \in {"charge", "succeeded"}
  /\ q.pc = "refund" => q.op = "refund"
  /\ q.pc = "webhook" => q.op = "refunded"
  /\ q.pc = "failed" => q.op = "payment_failed"
  /\ q.pc \in {"record", "mark"} => q.op \in EventTypes

HandledInv == Shape /\ (\A c \in Conns : WellFormed(tx[c])) /\ HandledOnce

\* Unless the card was declined, nothing takes a cleared charge back, nor will: the one
\* that has written the row inserted it or cleared it.
Kept(k) ==
  pay.lock[Charge(k)] # NoConn =>
    pay.row[Charge(k)] = "none" \/ pay.new[Charge(k)] = "cleared"

\* How far the handlers of a success are.
Cleared(k, c) ==
  tx[c].op = "succeeded" /\ tx[c].intent = k =>
    /\ tx[c].pc \in {"payments", "totals", "commit"} =>
         pay.lock[Charge(k)] = c /\ pay.new[Charge(k)] = "cleared"
    /\ tx[c].pc = "mark" => pay.row[Charge(k)] = "cleared"

Applied(k) ==
  /\ Kept(k) /\ \A c \in Conns : Cleared(k, c)
  /\ ev[Succeeded(k)] = "processed" => pay.row[Charge(k)] = "cleared"

AppliedInv == HandledInv /\ \A k \in Intents : ev[<<"payment_failed", k>>] = "new" => Applied(k)

-----------------------------------------------------------------------------
LEMMA InitInv == Init => AppliedInv
<1> SUFFICES ASSUME Init PROVE AppliedInv
  OBVIOUS
<1>1. Shape
  BY DEF Init, Shape, Filled, Tables, RequestRow, Idle, Steps, PaymentStatuses, EventStatuses
<1>2. \A c \in Conns : WellFormed(tx[c])
  BY DEF Init, WellFormed, Idle
<1>3. HandledOnce
  BY DEF Init, HandledOnce, Handles, Idle
<1>4. \A k \in Intents : Applied(k)
  BY NoConnIsNone DEF Init, Applied, Kept, Cleared, Filled, Idle, Charge, Rows, Succeeded, Events,
     EventTypes
<1> QED
  BY <1>1, <1>2, <1>3, <1>4 DEF AppliedInv, HandledInv

-----------------------------------------------------------------------------
\* Steps of one connection: what becomes of its request.
TxShape == tx = [c \in Conns |-> tx[c]] /\ \A c \in Conns : RequestRow(tx[c])
Others(c) == \A d \in Conns \ {c} : tx'[d] = tx[d]

LEMMA Moves ==
  ASSUME Shape, NEW c \in Conns, NEW q, RequestRow(q), tx' = [tx EXCEPT ![c] = q]
  PROVE  TxShape' /\ tx'[c] = q /\ Others(c)
BY DEF Shape, TxShape, Others

LEMMA GoesTo ==
  ASSUME Shape, NEW c \in Conns, NEW pc \in Steps, tx' = [tx EXCEPT ![c].pc = pc]
  PROVE  /\ TxShape' /\ Others(c)
         /\ tx'[c].pc = pc /\ tx'[c].op = tx[c].op /\ tx'[c].intent = tx[c].intent
<1> DEFINE q == [tx[c] EXCEPT !.pc = pc]
<1>1. RequestRow(q) /\ q.pc = pc /\ q.op = tx[c].op /\ q.intent = tx[c].intent
  BY DEF Shape, RequestRow
<1>2. tx' = [tx EXCEPT ![c] = q]
  OBVIOUS
<1> HIDE DEF q
<1> QED
  BY <1>1, <1>2, Moves

LEMMA Ends ==
  ASSUME Shape, NEW c \in Conns, tx' = [tx EXCEPT ![c] = Idle]
  PROVE  TxShape' /\ Others(c) /\ tx'[c] = Idle
<1>1. RequestRow(Idle)
  BY DEF RequestRow, Idle, Steps, PaymentStatuses
<1> QED
  BY <1>1, Moves

LEMMA IdleIsIdle == Idle.pc = "idle" /\ Idle.op = "none" /\ WellFormed(Idle)
BY DEF Idle, WellFormed

\* Types of the tables under the operators of RowLocks.
LEMMA WrittenType ==
  ASSUME pay \in Tables(Rows, PaymentStatuses), NEW c \in Conns, NEW x \in Rows,
         NEW r \in PaymentStatuses, pay' = Written(pay, c, x, r)
  PROVE  /\ pay' \in Tables(Rows, PaymentStatuses)
         /\ pay'.row = pay.row
         /\ pay'.new[x] = r /\ pay'.lock[x] = c
         /\ \A y \in Rows \ {x} : pay'.new[y] = pay.new[y] /\ pay'.lock[y] = pay.lock[y]
BY DEF Written, Tables

LEMMA CommittedType ==
  ASSUME pay \in Tables(Rows, PaymentStatuses), NEW c \in Conns, pay' = Committed(pay, c)
  PROVE  /\ pay' \in Tables(Rows, PaymentStatuses)
         /\ \A x \in Rows :
              /\ pay'.row[x] = IF pay.lock[x] = c THEN pay.new[x] ELSE pay.row[x]
              /\ pay'.new[x] = pay.new[x]
              /\ pay'.lock[x] = IF pay.lock[x] = c THEN NoConn ELSE pay.lock[x]
BY DEF Committed, Released, Tables

LEMMA RolledBackType ==
  ASSUME pay \in Tables(Rows, PaymentStatuses), NEW c \in Conns, pay' = RolledBack(pay, c)
  PROVE  /\ pay' \in Tables(Rows, PaymentStatuses)
         /\ \A x \in Rows :
              /\ pay'.row[x] = pay.row[x]
              /\ pay'.new[x] = IF pay.lock[x] = c THEN pay.row[x] ELSE pay.new[x]
              /\ pay'.lock[x] = IF pay.lock[x] = c THEN NoConn ELSE pay.lock[x]
BY DEF RolledBack, Released, Tables

LEMMA Charges ==
  /\ \A k \in Intents : Charge(k) \in Rows
  /\ \A j, k \in Intents : Charge(j) = Charge(k) => j = k
BY DEF Charge, Rows

-----------------------------------------------------------------------------
\* HandledOnce, for a step that does not touch stripe_events: nobody takes up an event.
LEMMA HandledStays ==
  ASSUME HandledInv, NEW c \in Conns, Others(c), ev' = ev,
         \A e \in Events : Handles(c, e)' => Handles(c, e)
  PROVE  HandledOnce'
<1>1. \A d \in Conns, e \in Events : Handles(d, e)' => Handles(d, e)
  BY DEF Others, Handles, EventOf
<1> QED
  BY <1>1 DEF HandledInv, HandledOnce

LEMMA WellFormedStays ==
  ASSUME HandledInv, NEW c \in Conns, Others(c), WellFormed(tx'[c])
  PROVE  \A d \in Conns : WellFormed(tx'[d])
BY DEF HandledInv, Others

\* A step that writes neither payments nor stripe_events, and clears no charge.
LEMMA QuietStep ==
  ASSUME AppliedInv, NEW c \in Conns, TxShape', Others(c), WellFormed(tx'[c]),
         pay' = pay, ev' = ev,
         \A e \in Events : Handles(c, e)' => Handles(c, e),
         tx'[c].op = "succeeded" /\ tx'[c].pc \in {"payments", "totals", "commit"} =>
           /\ tx[c].op = "succeeded" /\ tx'[c].intent = tx[c].intent
           /\ tx[c].pc \in {"payments", "totals", "commit"},
         tx'[c].pc = "mark" => tx'[c].op # "succeeded"
  PROVE  AppliedInv'
<1>1. HandledInv'
  BY HandledStays, WellFormedStays DEF AppliedInv, HandledInv, Shape, TxShape
<1>2. ASSUME NEW k \in Intents, Applied(k)
      PROVE  Applied(k)'
  <2>1. ASSUME NEW d \in Conns
        PROVE  Cleared(k, d)'
    <3>1. CASE d = c
      BY <1>2, <3>1 DEF Applied, Cleared
    <3>2. CASE d # c
      BY <1>2, <3>2 DEF Applied, Cleared, Others
    <3> QED
      BY <3>1, <3>2
  <2> QED
    BY <1>2, <2>1 DEF Applied, Kept
<1> QED
  BY <1>1, <1>2 DEF AppliedInv

LEMMA RequestStep ==
  ASSUME AppliedInv, NEW c \in Conns, Request(c)
  PROVE  AppliedInv'
<1>1. Shape
  BY DEF AppliedInv, HandledInv
<1>2. PICK q : /\ RequestRow(q) /\ tx' = [tx EXCEPT ![c] = q] /\ q.intent \in Intents
               /\ q.op \in {"charge", "refund"} /\ q.pc \in {"find", "refund"}
               /\ q.pc = "find" => q.op = "charge"
               /\ q.pc = "refund" => q.op = "refund"
  <2>1. PICK k \in Intents :
          \/ \E i \in Invoices : createInvoicePaymentIntent(c, i, k) \/ publicView(c, i, k)
          \/ refundPayment(c, k)
    BY DEF Request
  <2>2. CASE refundPayment(c, k)
    <3> DEFINE q == [Idle EXCEPT !.op = "refund", !.pc = "refund", !.intent = k]
    <3>1. tx' = [tx EXCEPT ![c] = q]
      BY <2>2 DEF refundPayment
    <3>2. RequestRow(q) /\ q.intent = k /\ q.op = "refund" /\ q.pc = "refund"
      BY DEF Idle, RequestRow, Steps, PaymentStatuses
    <3> HIDE DEF q
    <3> QED
      BY <3>1, <3>2
  <2>3. ASSUME NEW i \in Invoices, NEW status, CreateIntent(c, i, k, status)
        PROVE  \E as \in {"cleared", "pending"} :
                 tx' = [tx EXCEPT ![c] = [Idle EXCEPT !.op = "charge", !.pc = "find",
                                            !.intent = k, !.as = as]]
    BY <2>3 DEF CreateIntent
  <2>4. CASE \E i \in Invoices : createInvoicePaymentIntent(c, i, k) \/ publicView(c, i, k)
    <3>1. PICK as \in {"cleared", "pending"} :
            tx' = [tx EXCEPT ![c] = [Idle EXCEPT !.op = "charge", !.pc = "find",
                                       !.intent = k, !.as = as]]
      BY <2>3, <2>4 DEF createInvoicePaymentIntent, publicView
    <3> DEFINE q == [Idle EXCEPT !.op = "charge", !.pc = "find", !.intent = k, !.as = as]
    <3>2. RequestRow(q) /\ q.intent = k /\ q.op = "charge" /\ q.pc = "find"
      BY DEF Idle, RequestRow, Steps, PaymentStatuses
    <3> HIDE DEF q
    <3> QED
      BY <3>1, <3>2 DEF q
  <2> QED
    BY <2>1, <2>2, <2>4
<1>3. TxShape' /\ Others(c) /\ tx'[c] = q
  BY <1>1, <1>2, Moves
<1>4. pay' = pay /\ ev' = ev
  BY DEF Request, createInvoicePaymentIntent, publicView, CreateIntent, refundPayment, tables
<1>5. WellFormed(tx'[c]) /\ \A e \in Events : ~Handles(c, e)'
  BY <1>2, <1>3 DEF WellFormed, Handles, EventOf, Events, EventTypes
<1> QED
  BY <1>2, <1>3, <1>4, <1>5, QuietStep

LEMMA DeliverStep ==
  ASSUME AppliedInv, NEW c \in Conns, NEW e \in Events, Deliver(c, e)
  PROVE  AppliedInv'
<1> DEFINE q == [Idle EXCEPT !.op = e[1], !.pc = "record", !.intent = e[2]]
<1>1. Shape /\ e[1] \in EventTypes /\ e[2] \in Intents
  BY DEF AppliedInv, HandledInv, Events
<1>2. RequestRow(q) /\ q.op = e[1] /\ q.pc = "record" /\ q.intent = e[2]
  BY <1>1 DEF Idle, RequestRow, Steps, PaymentStatuses
<1>3. tx' = [tx EXCEPT ![c] = q] /\ pay' = pay /\ ev' = ev
  BY DEF Deliver, tables
<1> HIDE DEF q
<1>4. TxShape' /\ Others(c) /\ tx'[c] = q
  BY <1>1, <1>2, <1>3, Moves
<1>5. WellFormed(tx'[c]) /\ \A x \in Events : ~Handles(c, x)'
  BY <1>1, <1>2, <1>4 DEF WellFormed, Handles, EventTypes
<1> QED
  BY <1>2, <1>3, <1>4, <1>5, QuietStep

\* Statements that only go on to another one.
LEMMA ReadStep ==
  ASSUME AppliedInv, NEW c \in Conns, FindCharge(c) \/ ReadPayments(c) \/ WriteTotals(c)
  PROVE  AppliedInv'
<1>1. Shape /\ WellFormed(tx[c])
  BY DEF AppliedInv, HandledInv
<1>2. pay' = pay /\ ev' = ev
  BY DEF FindCharge, ReadPayments, WriteTotals, tables
<1>3. CASE FindCharge(c)
  <2>1. PICK pc \in {"insert", "update", "commit"} :
          /\ tx' = [tx EXCEPT ![c].pc = pc]
          /\ tx[c].op \in EventTypes => pc # "commit"
    BY <1>3 DEF FindCharge, Goto, Handling
  <2>2. /\ TxShape' /\ Others(c)
        /\ tx'[c].pc = pc /\ tx'[c].op = tx[c].op /\ tx'[c].intent = tx[c].intent
    BY <1>1, <2>1, GoesTo DEF Steps
  <2>3. tx[c].pc = "find" /\ tx[c].op \in {"charge", "succeeded"}
    BY <1>1, <1>3 DEF FindCharge, Serving, WellFormed
  <2>4. WellFormed(tx'[c])
    BY <1>1, <2>1, <2>2, <2>3 DEF WellFormed
  <2>5. \A e \in Events : Handles(c, e)' => Handles(c, e)
    BY <2>2, <2>3 DEF Handles, EventOf
  <2> QED
    BY <1>2, <2>1, <2>2, <2>3, <2>4, <2>5, QuietStep DEF EventTypes
<1>4. CASE ReadPayments(c)
  <2>1. PICK n : tx' = [tx EXCEPT ![c].paid = n, ![c].pc = "totals"]
    BY <1>4 DEF ReadPayments
  <2> DEFINE q == [tx[c] EXCEPT !.paid = n, !.pc = "totals"]
  <2>2. RequestRow(q) /\ q.pc = "totals" /\ q.op = tx[c].op /\ q.intent = tx[c].intent
    BY <1>1 DEF Shape, RequestRow, Steps
  <2>3. tx' = [tx EXCEPT ![c] = q]
    BY <1>1, <2>1 DEF Shape
  <2> HIDE DEF q
  <2>4. TxShape' /\ Others(c) /\ tx'[c] = q
    BY <1>1, <2>2, <2>3, Moves
  <2>5. tx[c].pc = "payments"
    BY <1>4 DEF ReadPayments, Serving
  <2>6. WellFormed(tx'[c]) /\ \A e \in Events : Handles(c, e)' => Handles(c, e)
    BY <1>1, <2>2, <2>4, <2>5 DEF WellFormed, Handles, EventOf
  <2> QED
    BY <1>2, <2>2, <2>4, <2>5, <2>6, QuietStep
<1>5. CASE WriteTotals(c)
  <2>1. tx' = [tx EXCEPT ![c].pc = "commit"] /\ tx[c].pc = "totals" /\ "commit" \in Steps
    BY <1>5 DEF WriteTotals, Goto, Serving, Steps
  <2>2. /\ TxShape' /\ Others(c)
        /\ tx'[c].pc = "commit" /\ tx'[c].op = tx[c].op /\ tx'[c].intent = tx[c].intent
    BY <1>1, <2>1, GoesTo
  <2>3. WellFormed(tx'[c]) /\ \A e \in Events : Handles(c, e)' => Handles(c, e)
    BY <1>1, <2>1, <2>2 DEF WellFormed, Handles, EventOf
  <2> QED
    BY <1>2, <2>1, <2>2, <2>3, QuietStep
<1> QED
  BY <1>3, <1>4, <1>5

-----------------------------------------------------------------------------
\* A statement that writes a payment it holds or may lock.  A charge that is there already
\* is only ever cleared, or marked failed because of an event that has been recorded.
LEMMA WriteStep ==
  ASSUME AppliedInv, NEW c \in Conns, TxShape', Others(c), WellFormed(tx'[c]), ev' = ev,
         tx'[c].op = tx[c].op, tx'[c].intent = tx[c].intent,
         tx'[c].pc \in {"payments", "commit"}, tx[c].pc \notin {"idle", "record"},
         NEW x \in Rows, NEW r \in PaymentStatuses,
         Free(pay, c, x) \/ (\A k \in Intents : x # Charge(k)), pay' = Written(pay, c, x, r),
         \A k \in Intents : x = Charge(k) =>
           \/ ev[<<"payment_failed", k>>] # "new"
           \/ pay.row[x] = "none" \/ r = "cleared",
         tx[c].op = "succeeded" => x = Charge(tx[c].intent) /\ r = "cleared"
  PROVE  AppliedInv'
<1>1. /\ pay' \in Tables(Rows, PaymentStatuses)
      /\ pay'.row = pay.row
      /\ pay'.new[x] = r /\ pay'.lock[x] = c
      /\ \A y \in Rows \ {x} : pay'.new[y] = pay.new[y] /\ pay'.lock[y] = pay.lock[y]
  BY WrittenType DEF AppliedInv, HandledInv, Shape
<1>2. \A e \in Events : Handles(c, e)' => Handles(c, e)
  BY DEF Handles, EventOf
<1>3. HandledInv'
  BY <1>1, <1>2, HandledStays, WellFormedStays DEF AppliedInv, HandledInv, Shape, TxShape
<1>4. ASSUME NEW k \in Intents, ev[<<"payment_failed", k>>] = "new"
      PROVE  Applied(k)'
  <2>1. Applied(k) /\ Charge(k) \in Rows
    BY <1>4, Charges DEF AppliedInv
  <2>2. Kept(k)'
    BY <1>1, <1>4, <2>1 DEF Applied, Kept
  <2>3. ASSUME NEW d \in Conns
        PROVE  Cleared(k, d)'
    <3>1. CASE d = c
      BY <1>1, <2>1, <3>1 DEF Cleared
    <3>2. CASE d # c
      <4>1. tx'[d] = tx[d] /\ Cleared(k, d)
        BY <2>1, <3>2 DEF Others, Applied
      <4>2. x = Charge(k) => pay.lock[x] # d
        BY <3>2, <2>1, NoConnIsNone DEF Free
      <4> QED
        BY <1>1, <2>1, <4>1, <4>2 DEF Cleared
    <3> QED
      BY <3>1, <3>2
  <2> QED
    BY <1>1, <2>1, <2>2, <2>3 DEF Applied
<1> QED
  BY <1>3, <1>4 DEF AppliedInv

LEMMA StatementStep ==
  ASSUME AppliedInv, NEW c \in Conns,
         \/ ClearCharge(c) \/ InsertRefund(c)
         \/ InsertCharge(c) /\ pay.row[Charge(tx[c].intent)] = "none"
         \/ FailCharge(c) /\ pay.row[Charge(tx[c].intent)] # "none"
  PROVE  AppliedInv'
<1>1. Shape /\ WellFormed(tx[c]) /\ tx[c].intent \in Intents
  BY DEF AppliedInv, HandledInv, WellFormed, ClearCharge, InsertRefund, InsertCharge, FailCharge,
         Serving
<1>2. RequestRow(tx[c]) /\ Charge(tx[c].intent) \in Rows
  BY <1>1, Charges DEF Shape
<1>3. PICK x \in Rows, r \in PaymentStatuses, pc \in {"payments", "commit"} :
        /\ tx' = [tx EXCEPT ![c].pc = pc] /\ ev' = ev
        /\ Free(pay, c, x) \/ x = <<tx[c].intent, "refund">>
        /\ pay' = Written(pay, c, x, r)
        /\ tx[c].op = "succeeded" => x = Charge(tx[c].intent) /\ r = "cleared"
        /\ tx[c].pc \notin {"idle", "record"}
        /\ \/ r = "cleared" \/ pay.row[x] = "none"
           \/ tx[c].pc = "failed" /\ x = Charge(tx[c].intent)
        /\ x = <<tx[c].intent, "refund">> => r = "cleared" /\ tx[c].pc = "refund"
  <2>1. CASE ClearCharge(c)
    BY <1>1, <1>2, <2>1 DEF ClearCharge, Serving, Goto, Charge, PaymentStatuses
  <2>2. CASE InsertRefund(c)
    <3>1. <<tx[c].intent, "refund">> \in Rows /\ tx[c].op = "refund"
      BY <1>1, <2>2 DEF Rows, WellFormed, InsertRefund, Serving
    <3> QED
      BY <2>2, <3>1 DEF InsertRefund, Serving, Goto, PaymentStatuses
  <2>3. CASE InsertCharge(c) /\ pay.row[Charge(tx[c].intent)] = "none"
    <3> DEFINE st == IF Handling(c) THEN "cleared" ELSE tx[c].as
    <3>1. st \in PaymentStatuses /\ (tx[c].op = "succeeded" => st = "cleared")
      BY <1>2 DEF RequestRow, Handling, EventTypes, PaymentStatuses
    <3>2. /\ tx[c].pc = "insert" /\ Free(pay, c, Charge(tx[c].intent)) /\ ev' = ev
          /\ pay' = Written(pay, c, Charge(tx[c].intent), st)
          /\ tx' = [tx EXCEPT ![c].pc = IF st = "cleared" THEN "payments" ELSE "commit"]
      BY <2>3 DEF InsertCharge, Serving, Goto
    <3> HIDE DEF st
    <3> QED
      BY <1>2, <2>3, <3>1, <3>2 DEF Charge
  <2>4. CASE FailCharge(c) /\ pay.row[Charge(tx[c].intent)] # "none"
    <3>1. tx[c].pc = "failed" /\ tx[c].op = "payment_failed"
      BY <1>1, <2>4 DEF FailCharge, Serving, WellFormed
    <3> QED
      BY <1>2, <2>4, <3>1 DEF FailCharge, Goto, Charge, PaymentStatuses
  <2> QED
    BY <2>1, <2>2, <2>3, <2>4
<1>4. /\ TxShape' /\ Others(c)
      /\ tx'[c].pc = pc /\ tx'[c].op = tx[c].op /\ tx'[c].intent = tx[c].intent
  BY <1>1, <1>3, GoesTo DEF Steps
<1>5. WellFormed(tx'[c])
  BY <1>1, <1>3, <1>4 DEF WellFormed
<1>6. ASSUME NEW k \in Intents, x = Charge(k)
      PROVE  \/ ev[<<"payment_failed", k>>] # "new"
             \/ pay.row[x] = "none" \/ r = "cleared"
  <2>1. CASE tx[c].pc = "failed" /\ x = Charge(tx[c].intent)
    <3>1. k = tx[c].intent /\ tx[c].op = "payment_failed"
      BY <1>1, <1>6, <2>1, Charges DEF WellFormed
    <3>2. <<"payment_failed", k>> \in Events /\ Handles(c, <<"payment_failed", k>>)
      BY <2>1, <3>1 DEF Events, EventTypes, Handles, EventOf
    <3> QED
      BY <3>2 DEF AppliedInv, HandledInv, HandledOnce
  <2> QED
    BY <1>3, <2>1
<1>7. Free(pay, c, x) \/ \A k \in Intents : x # Charge(k)
  BY <1>3 DEF Charge
<1> QED
  BY <1>3, <1>4, <1>5, <1>6, <1>7, WriteStep

LEMMA NothingToFail ==
  ASSUME AppliedInv, NEW c \in Conns, FailCharge(c), pay.row[Charge(tx[c].intent)] = "none"
  PROVE  AppliedInv'
<1>1. Shape /\ WellFormed(tx[c]) /\ tx[c].pc = "failed"
  BY DEF AppliedInv, HandledInv, FailCharge, Serving
<1>2. tx' = [tx EXCEPT ![c].pc = "commit"] /\ pay' = pay /\ ev' = ev /\ "commit" \in Steps
  BY DEF FailCharge, Goto, Steps
<1>3. /\ TxShape' /\ Others(c)
      /\ tx'[c].pc = "commit" /\ tx'[c].op = tx[c].op /\ tx'[c].intent = tx[c].intent
  BY <1>1, <1>2, GoesTo
<1>4. WellFormed(tx'[c]) /\ \A e \in Events : Handles(c, e)' => Handles(c, e)
  BY <1>1, <1>3 DEF WellFormed, Handles, EventOf
<1>5. tx'[c].op # "succeeded"
  BY <1>1, <1>3 DEF WellFormed
<1> QED
  BY <1>2, <1>3, <1>4, <1>5, QuietStep

LEMMA WebhookRefundStep ==
  ASSUME AppliedInv, NEW c \in Conns, InsertWebhookRefund(c)
  PROVE  AppliedInv'
<1>1. Shape /\ WellFormed(tx[c]) /\ tx[c].pc = "webhook" /\ tx[c].op = "refunded"
  BY DEF AppliedInv, HandledInv, InsertWebhookRefund, Serving, WellFormed
<1>2. PICK pc \in {"mark", "payments"} : tx' = [tx EXCEPT ![c].pc = pc]
  BY DEF InsertWebhookRefund, Goto
<1>3. /\ TxShape' /\ Others(c)
      /\ tx'[c].pc = pc /\ tx'[c].op = tx[c].op /\ tx'[c].intent = tx[c].intent
  BY <1>1, <1>2, GoesTo DEF Steps
<1>4. /\ ev' = ev /\ pay' \in Tables(Rows, PaymentStatuses)
      /\ \A k \in Intents : /\ pay'.row[Charge(k)] = pay.row[Charge(k)]
                           /\ pay'.new[Charge(k)] = pay.new[Charge(k)]
                           /\ pay'.lock[Charge(k)] = pay.lock[Charge(k)]
  <2> DEFINE x == <<tx[c].intent, "webhook">>
  <2>1. CASE pay' = pay
    BY <1>1, <2>1 DEF InsertWebhookRefund, Shape
  <2>2. CASE pay' = [pay EXCEPT !.row[x] = "cleared", !.new[x] = "cleared"]
    <3>1. x \in Rows /\ \A k \in Intents : Charge(k) \in Rows /\ Charge(k) # x
      BY <1>1, Charges DEF WellFormed, Rows, Charge
    <3>2. pay \in Tables(Rows, PaymentStatuses) /\ "cleared" \in PaymentStatuses
      BY <1>1 DEF Shape, PaymentStatuses
    <3> HIDE DEF x
    <3> QED
      BY <2>2, <3>1, <3>2 DEF Tables, InsertWebhookRefund
  <2> QED
    BY <2>1, <2>2 DEF InsertWebhookRefund
<1>5. WellFormed(tx'[c]) /\ \A e \in Events : Handles(c, e)' => Handles(c, e)
  BY <1>1, <1>3 DEF WellFormed, Handles, EventOf, EventTypes
<1>6. HandledInv'
  BY <1>3, <1>4, <1>5, HandledStays, WellFormedStays DEF AppliedInv, HandledInv, Shape, TxShape
<1>7. ASSUME NEW k \in Intents, Applied(k)
      PROVE  Applied(k)'
  <2>1. ASSUME NEW d \in Conns
        PROVE  Cleared(k, d)'
    <3>1. CASE d = c
      BY <1>1, <1>3, <3>1 DEF Cleared
    <3>2. CASE d # c
      BY <1>3, <1>4, <1>7, <3>2 DEF Applied, Cleared, Others
    <3> QED
      BY <3>1, <3>2
  <2> QED
    BY <1>4, <1>7, <2>1 DEF Applied, Kept
<1> QED
  BY <1>4, <1>6, <1>7 DEF AppliedInv

-----------------------------------------------------------------------------
\* The end of a transaction.
LEMMA CommitStep ==
  ASSUME AppliedInv, NEW c \in Conns, Commit(c)
  PROVE  AppliedInv'
<1>1. Shape /\ WellFormed(tx[c]) /\ tx[c].pc = "commit" /\ ev' = ev
  BY DEF AppliedInv, HandledInv, Commit, Serving
<1>2. /\ pay' \in Tables(Rows, PaymentStatuses)
      /\ \A x \in Rows :
           /\ pay'.row[x] = IF pay.lock[x] = c THEN pay.new[x] ELSE pay.row[x]
           /\ pay'.new[x] = pay.new[x]
           /\ pay'.lock[x] = IF pay.lock[x] = c THEN NoConn ELSE pay.lock[x]
  BY <1>1, CommittedType DEF Commit, Shape
<1>3. /\ TxShape' /\ Others(c)
      /\ \/ tx'[c] = Idle
         \/ /\ tx[c].op \in EventTypes /\ tx'[c].pc = "mark"
            /\ tx'[c].op = tx[c].op /\ tx'[c].intent = tx[c].intent
  <2>1. CASE Handling(c)
    <3>1. tx' = [tx EXCEPT ![c].pc = "mark"] /\ "mark" \in Steps
      BY <1>1, <2>1 DEF Commit, Steps
    <3> QED
      BY <1>1, <2>1, <3>1, GoesTo DEF Handling
  <2>2. CASE ~Handling(c)
    <3>1. tx' = [tx EXCEPT ![c] = Idle]
      BY <2>2 DEF Commit
    <3> QED
      BY <1>1, <3>1, Ends
  <2> QED
    BY <2>1, <2>2
<1>4. WellFormed(tx'[c])
  BY <1>1, <1>3, IdleIsIdle DEF WellFormed, EventTypes
<1>5. \A e \in Events : Handles(c, e)' => Handles(c, e)
  BY <1>1, <1>3, IdleIsIdle DEF Handles, EventOf
<1>6. HandledInv'
  BY <1>1, <1>2, <1>3, <1>4, <1>5, HandledStays, WellFormedStays
     DEF AppliedInv, HandledInv, Shape, TxShape
<1>7. ASSUME NEW k \in Intents, Applied(k)
      PROVE  Applied(k)'
  <2>1. Charge(k) \in Rows
    BY Charges
  <2>2. Kept(k)'
    BY <1>2, <1>7, <2>1, NoConnIsNone DEF Applied, Kept
  <2>3. ASSUME NEW d \in Conns
        PROVE  Cleared(k, d)'
    <3>1. CASE d = c
      BY <1>1, <1>2, <1>3, <1>7, <2>1, <3>1, IdleIsIdle DEF Applied, Cleared
    <3>2. CASE d # c
      <4>1. tx'[d] = tx[d] /\ Cleared(k, d) /\ Kept(k)
        BY <1>3, <1>7, <3>2 DEF Others, Applied
      <4> QED
        BY <1>2, <2>1, <3>2, <4>1, NoConnIsNone DEF Cleared, Kept
    <3> QED
      BY <3>1, <3>2
  <2>4. pay.row[Charge(k)] = "cleared" => pay'.row[Charge(k)] = "cleared"
    BY <1>2, <1>7, <2>1, NoConnIsNone DEF Applied, Kept
  <2> QED
    BY <1>1, <1>7, <2>2, <2>3, <2>4 DEF Applied
<1> QED
  BY <1>1, <1>6, <1>7 DEF AppliedInv

LEMMA RollbackStep ==
  ASSUME AppliedInv, NEW c \in Conns, TxShape', Others(c), WellFormed(tx'[c]), ev' = ev,
         pay' = RolledBack(pay, c),
         \A e \in Events : Handles(c, e)' => Handles(c, e),
         tx'[c].pc \in {"idle", "error"}
  PROVE  AppliedInv'
<1>1. /\ pay' \in Tables(Rows, PaymentStatuses)
      /\ \A x \in Rows :
           /\ pay'.row[x] = pay.row[x]
           /\ pay'.new[x] = IF pay.lock[x] = c THEN pay.row[x] ELSE pay.new[x]
           /\ pay'.lock[x] = IF pay.lock[x] = c THEN NoConn ELSE pay.lock[x]
  BY RolledBackType DEF AppliedInv, HandledInv, Shape
<1>2. HandledInv'
  BY <1>1, HandledStays, WellFormedStays DEF AppliedInv, HandledInv, Shape, TxShape
<1>3. ASSUME NEW k \in Intents, Applied(k)
      PROVE  Applied(k)'
  <2>1. Charge(k) \in Rows
    BY Charges
  <2>2. ASSUME NEW d \in Conns
        PROVE  Cleared(k, d)'
    <3>1. CASE d = c
      BY <3>1 DEF Cleared
    <3>2. CASE d # c
      <4>1. tx'[d] = tx[d] /\ Cleared(k, d)
        BY <1>3, <3>2 DEF Others, Applied
      <4> QED
        BY <1>1, <2>1, <3>2, <4>1 DEF Cleared
    <3> QED
      BY <3>1, <3>2
  <2> QED
    BY <1>1, <1>3, <2>1, <2>2, NoConnIsNone DEF Applied, Kept
<1> QED
  BY <1>2, <1>3 DEF AppliedInv

LEMMA FailStep ==
  ASSUME AppliedInv, NEW c \in Conns, tx[c].pc \notin {"idle", "record"}, Fail(c)
  PROVE  AppliedInv'
<1>1. Shape /\ WellFormed(tx[c]) /\ ev' = ev /\ pay' = RolledBack(pay, c)
  BY DEF AppliedInv, HandledInv, Fail, Rollback
<1>2. CASE Handling(c)
  <2>1. tx' = [tx EXCEPT ![c].pc = "error"] /\ "error" \in Steps
    BY <1>2 DEF Fail, Steps
  <2>2. /\ TxShape' /\ Others(c)
        /\ tx'[c].pc = "error" /\ tx'[c].op = tx[c].op /\ tx'[c].intent = tx[c].intent
    BY <1>1, <2>1, GoesTo
  <2>3. WellFormed(tx'[c]) /\ \A e \in Events : Handles(c, e)' => Handles(c, e)
    BY <1>1, <2>2 DEF WellFormed, Handles, EventOf
  <2> QED
    BY <1>1, <2>2, <2>3, RollbackStep
<1>3. CASE ~Handling(c)
  <2>1. tx' = [tx EXCEPT ![c] = Idle]
    BY <1>3 DEF Fail
  <2>2. TxShape' /\ Others(c) /\ tx'[c] = Idle
    BY <1>1, <2>1, Ends
  <2>3. \A e \in Events : ~Handles(c, e)'
    BY <2>2, IdleIsIdle DEF Handles
  <2> QED
    BY <1>1, <2>2, <2>3, IdleIsIdle, RollbackStep
<1> QED
  BY <1>2, <1>3

LEMMA CrashStep ==
  ASSUME AppliedInv, NEW c \in Conns, Crash(c)
  PROVE  AppliedInv'
<1>1. Shape /\ ev' = ev /\ pay' = RolledBack(pay, c) /\ tx' = [tx EXCEPT ![c] = Idle]
  BY DEF AppliedInv, HandledInv, Crash, Rollback
<1>2. TxShape' /\ Others(c) /\ tx'[c] = Idle
  BY <1>1, Ends
<1>3. \A e \in Events : ~Handles(c, e)'
  BY <1>2, IdleIsIdle DEF Handles
<1> QED
  BY <1>1, <1>2, <1>3, IdleIsIdle, RollbackStep

-----------------------------------------------------------------------------
\* The two steps that write stripe_events.
LEMMA EventStep ==
  ASSUME AppliedInv, NEW c \in Conns, TxShape', Others(c), WellFormed(tx'[c]), pay' = pay,
         NEW e \in Events, NEW s \in EventStatuses \ {"new"}, ev' = [ev EXCEPT ![e] = s],
         HandledOnce',
         tx'[c].op = "succeeded" => tx'[c].pc \notin {"payments", "totals", "commit", "mark"},
         \A k \in Intents : s = "processed" /\ e = Succeeded(k) /\ Cleared(k, c) =>
                               pay.row[Charge(k)] = "cleared"
  PROVE  AppliedInv'
<1>1. /\ ev' \in [Events -> EventStatuses]
      /\ ev'[e] = s /\ \A x \in Events : x # e => ev'[x] = ev[x]
  BY DEF AppliedInv, HandledInv, Shape
<1>2. HandledInv'
  BY <1>1, WellFormedStays DEF AppliedInv, HandledInv, Shape, TxShape
<1>3. ASSUME NEW k \in Intents, Applied(k)
      PROVE  Applied(k)'
  <2>1. ASSUME NEW d \in Conns
        PROVE  Cleared(k, d)'
    <3>1. CASE d = c
      BY <3>1 DEF Cleared
    <3>2. CASE d # c
      BY <1>3, <3>2 DEF Others, Applied, Cleared
    <3> QED
      BY <3>1, <3>2
  <2>2. ev'[Succeeded(k)] = "processed" => pay.row[Charge(k)] = "cleared"
    <3>1. Succeeded(k) \in Events
      BY DEF Succeeded, Events, EventTypes
    <3> QED
      BY <1>1, <1>3, <3>1 DEF Applied
  <2> QED
    BY <1>3, <2>1, <2>2 DEF Applied, Kept
<1>4. \A k \in Intents : ev'[<<"payment_failed", k>>] = "new" => ev[<<"payment_failed", k>>] = "new"
  BY <1>1 DEF Events, EventTypes
<1> QED
  BY <1>2, <1>3, <1>4 DEF AppliedInv

LEMMA RecordStep ==
  ASSUME AppliedInv, NEW c \in Conns, RecordEvent(c)
  PROVE  AppliedInv'
<1> DEFINE e == EventOf(c)
<1>1. Shape /\ WellFormed(tx[c]) /\ tx[c].pc = "record" /\ pay' = pay
  BY DEF AppliedInv, HandledInv, RecordEvent, Serving
<1>2. e = <<tx[c].op, tx[c].intent>> /\ e \in Events
  BY <1>1 DEF EventOf, Events, WellFormed
<1>3. CASE ev[e] = "new"
  <2>1. ev' = [ev EXCEPT ![e] = "recorded"] /\ tx' = [tx EXCEPT ![c].pc = FirstStep[tx[c].op]]
    BY <1>3 DEF RecordEvent, Goto
  <2>2. /\ FirstStep[tx[c].op] \in {"find", "failed", "webhook"}
        /\ FirstStep[tx[c].op] = "find" => tx[c].op = "succeeded"
        /\ FirstStep[tx[c].op] = "failed" => tx[c].op = "payment_failed"
        /\ FirstStep[tx[c].op] = "webhook" => tx[c].op = "refunded"
    BY <1>1 DEF WellFormed, FirstStep, EventTypes
  <2>3. /\ TxShape' /\ Others(c) /\ tx'[c].pc = FirstStep[tx[c].op]
        /\ tx'[c].op = tx[c].op /\ tx'[c].intent = tx[c].intent
    BY <1>1, <2>1, <2>2, GoesTo DEF Steps
  <2>4. WellFormed(tx'[c])
    BY <1>1, <2>2, <2>3 DEF WellFormed
  <2>5. PICK x \in Events : x = e
    BY <1>2
  <2>6. HandledOnce'
    <3>1. ASSUME NEW d \in Conns, NEW y \in Events, Handles(d, y)'
          PROVE  (d = c /\ y = x) \/ (d # c /\ y # x /\ Handles(d, y))
      <4>1. CASE d = c
        BY <1>2, <2>3, <2>5, <3>1, <4>1 DEF Handles, EventOf
      <4>2. CASE d # c
        <5>1. Handles(d, y)
          BY <2>3, <3>1, <4>2 DEF Handles, EventOf, Others
        <5>2. ev[y] = "recorded"
          BY <5>1 DEF AppliedInv, HandledInv, HandledOnce
        <5> QED
          BY <1>3, <2>5, <4>2, <5>1, <5>2
      <4> QED
        BY <4>1, <4>2
    <3>2. \A y \in Events : ev'[y] = IF y = x THEN "recorded" ELSE ev[y]
      BY <1>1, <2>1, <2>5 DEF Shape
    <3> QED
      BY <3>1, <3>2 DEF HandledOnce, AppliedInv, HandledInv
  <2> HIDE DEF e
  <2>7. ev' = [ev EXCEPT ![x] = "recorded"] /\ "recorded" \in EventStatuses \ {"new"}
    BY <2>1, <2>5 DEF EventStatuses
  <2>8. tx'[c].op = "succeeded" => tx'[c].pc \notin {"payments", "totals", "commit", "mark"}
    BY <2>2, <2>3
  <2> QED
    BY <1>1, <2>3, <2>4, <2>6, <2>7, <2>8, EventStep
<1>4. CASE ev[e] # "new"
  <2>1. tx' = [tx EXCEPT ![c] = Idle] /\ ev' = ev
    BY <1>4 DEF RecordEvent
  <2>2. TxShape' /\ Others(c) /\ tx'[c] = Idle
    BY <1>1, <2>1, Ends
  <2>3. \A y \in Events : ~Handles(c, y)'
    BY <2>2, IdleIsIdle DEF Handles
  <2> QED
    BY <1>1, <2>1, <2>2, <2>3, IdleIsIdle, QuietStep
<1> QED
  BY <1>3, <1>4

LEMMA MarkStep ==
  ASSUME AppliedInv, NEW c \in Conns, markEventProcessed(c)
  PROVE  AppliedInv'
<1>1. Shape /\ WellFormed(tx[c]) /\ tx[c].pc \in {"mark", "error"} /\ pay' = pay
      /\ tx' = [tx EXCEPT ![c] = Idle]
  BY DEF AppliedInv, HandledInv, markEventProcessed, Serving
<1>2. TxShape' /\ Others(c) /\ tx'[c] = Idle
  BY <1>1, Ends
<1>3. PICK x, s : /\ x = <<tx[c].op, tx[c].intent>> /\ ev' = [ev EXCEPT ![x] = s]
                  /\ s = IF tx[c].pc = "mark" THEN "processed" ELSE "failed"
  BY DEF markEventProcessed, EventOf, Serving
<1>4. s \in EventStatuses \ {"new"}
  BY <1>3 DEF EventStatuses
<1>5. CASE x \in Events
  <2>1. Handles(c, x)
    BY <1>1, <1>3 DEF Handles, EventOf
  <2>2. HandledOnce'
    <3>1. ASSUME NEW d \in Conns, NEW y \in Events, Handles(d, y)'
          PROVE  d # c /\ y # x /\ Handles(d, y)
      <4>1. d # c
        BY <1>2, <3>1, IdleIsIdle DEF Handles
      <4>2. Handles(d, y)
        BY <1>2, <3>1, <4>1 DEF Handles, EventOf, Others
      <4>3. y # x
        BY <2>1, <4>1, <4>2 DEF AppliedInv, HandledInv, HandledOnce
      <4> QED
        BY <4>1, <4>2, <4>3
    <3>2. \A y \in Events : y # x => ev'[y] = ev[y]
      BY <1>1, <1>3 DEF Shape
    <3> QED
      BY <3>1, <3>2 DEF HandledOnce, AppliedInv, HandledInv
  <2>3. ASSUME NEW k \in Intents, s = "processed", x = Succeeded(k), Cleared(k, c)
        PROVE  pay.row[Charge(k)] = "cleared"
    BY <1>3, <2>3 DEF Cleared, Succeeded
  <2>4. tx'[c].op # "succeeded" /\ WellFormed(tx'[c])
    BY <1>2, IdleIsIdle
  <2> QED
    BY <1>1, <1>2, <1>3, <1>4, <1>5, <2>2, <2>3, <2>4, EventStep, ZenonT(30)
<1>6. CASE x \notin Events
  <2>1. ev' = ev
    BY <1>1, <1>3, <1>6 DEF Shape
  <2>2. \A y \in Events : ~Handles(c, y)'
    BY <1>2, IdleIsIdle DEF Handles
  <2> QED
    BY <1>1, <1>2, <2>1, <2>2, IdleIsIdle, QuietStep
<1> QED
  BY <1>5, <1>6

-----------------------------------------------------------------------------
LEMMA UntouchedStep ==
  ASSUME AppliedInv, UNCHANGED <<pay, ev, tx>>
  PROVE  AppliedInv'
BY DEF AppliedInv, HandledInv, Shape, HandledOnce, Handles, EventOf, Applied, Kept, Cleared

LEMMA NextStep ==
  ASSUME AppliedInv, [Next]_vars
  PROVE  AppliedInv'
<1>1. CASE \/ UNCHANGED vars
           \/ \E k \in Intents : CustomerPays(k) \/ CardDeclined(k) \/ RefundAtStripe(k)
  BY <1>1, UntouchedStep DEF vars, stripe, tables, CustomerPays, CardDeclined, RefundAtStripe
<1>2. ASSUME NEW c \in Conns, Statement(c)
      PROVE  AppliedInv'
  <2>1. CASE InsertCharge(c)
    <3>1. CASE pay.row[Charge(tx[c].intent)] = "none"
      BY <2>1, <3>1, StatementStep
    <3>2. CASE pay.row[Charge(tx[c].intent)] # "none"
      BY <2>1, <3>2, FailStep DEF InsertCharge, Serving
    <3> QED
      BY <3>1, <3>2
  <2>2. CASE FailCharge(c)
    BY <2>2, StatementStep, NothingToFail
  <2> QED
    BY <1>2, <2>1, <2>2, RecordStep, MarkStep, ReadStep, StatementStep, WebhookRefundStep,
       CommitStep DEF Statement
<1>3. ASSUME NEW c \in Conns, Abort(c)
      PROVE  AppliedInv'
  BY <1>3, FailStep DEF Abort
<1> QED
  BY <1>1, <1>2, <1>3, RequestStep, CrashStep, DeliverStep DEF Next

\* An event is handled by one connection at most, and never again (the INSERT ... ON
\* CONFLICT DO NOTHING of handleWebhookEvent).
THEOREM HandledOnceHolds == Spec => []HandledOnce
<1>1. AppliedInv => HandledOnce
  BY DEF AppliedInv, HandledInv
<1> QED
  BY <1>1, InitInv, NextStep, PTL DEF Spec

\* What is marked processed is in the ledger, although other requests and events write the
\* same row (onPaymentIntentSucceeded, createInvoicePaymentIntent).
THEOREM ProcessedIsAppliedHolds == Spec => []ProcessedIsApplied
<1>1. AppliedInv => ProcessedIsApplied
  BY DEF AppliedInv, Applied, ProcessedIsApplied
<1> QED
  BY <1>1, InitInv, NextStep, PTL DEF Spec

-----------------------------------------------------------------------------
(***************************************************************************)
(* Sums.  MapThenSumSet folds over a function that is defined by recursion *)
(* on the subsets of the set.  For a finite set that function exists and   *)
(* is the only one; an amount can be taken out of the sum in any order;    *)
(* and a sum is at most another one if each of its positive amounts is at  *)
(* most an amount of its own of the other.                                 *)
(***************************************************************************)
First(s) == CHOOSE x \in s : TRUE

Adds(g, f, T) ==
  /\ g = [s \in SUBSET T |-> g[s]]
  /\ \A s \in SUBSET T : g[s] = IF s = {} THEN 0 ELSE f[First(s)] + g[s \ {First(s)}]

Sum(f, S) == (CHOOSE g : Adds(g, f, S))[S]

LEMMA FirstOf ==
  ASSUME NEW s, s # {}
  PROVE  First(s) \in s /\ s \ {First(s)} \subseteq s /\ s \ {First(s)} # s
BY DEF First

\* What is true of no least subset is true of none.
LEMMA LeastSubset ==
  ASSUME NEW S, IsFiniteSet(S), NEW B \in SUBSET (SUBSET S), B # {}
  PROVE  \E s \in B : \A t \in B : t \subseteq s => t = s
<1>1. B \subseteq FiniteSubsetsOf(S)
  BY FS_Subset DEF FiniteSubsetsOf
<1>2. \E s \in B : \A t \in B : ~(<<t, s>> \in StrictSubsetOrdering(S))
  BY <1>1, FS_StrictSubsetOrderingWellFounded, WFMin
<1>3. \A s, t \in B : t \subseteq s /\ t # s => <<t, s>> \in StrictSubsetOrdering(S)
  BY DEF StrictSubsetOrdering
<1> QED
  BY <1>2, <1>3

LEMMA AddsOnce ==
  ASSUME NEW S, IsFiniteSet(S), NEW T \in SUBSET S, NEW U \in SUBSET S,
         NEW f, NEW g, Adds(g, f, T), NEW h, Adds(h, f, U),
         NEW V \in SUBSET T, V \subseteq U
  PROVE  g[V] = h[V]
<1> DEFINE B == {s \in SUBSET V : g[s] # h[s]}
<1>1. SUFFICES ASSUME B # {} PROVE FALSE
  OBVIOUS
<1>2. PICK s \in B : \A t \in B : t \subseteq s => t = s
  <2>1. B \in SUBSET (SUBSET S)
    OBVIOUS
  <2> HIDE DEF B
  <2> QED
    BY <1>1, <2>1, LeastSubset
<1>3. s # {}
  BY DEF Adds
<1>4. s \ {First(s)} \in SUBSET V /\ s \ {First(s)} \notin B
  BY <1>2, <1>3, FirstOf
<1>5. g[s \ {First(s)}] = h[s \ {First(s)}]
  BY <1>4
<1>6. /\ g[s] = f[First(s)] + g[s \ {First(s)}]
      /\ h[s] = f[First(s)] + h[s \ {First(s)}]
  BY <1>3 DEF Adds
<1> QED
  BY <1>5, <1>6

LEMMA AddsTo ==
  ASSUME NEW S, IsFiniteSet(S), NEW f, \A x \in S : f[x] \in Int
  PROVE  \E g : Adds(g, f, S) /\ g \in [SUBSET S -> Int]
<1> DEFINE Good(T, g) == Adds(g, f, T) /\ g \in [SUBSET T -> Int]
           B == {T \in SUBSET S : ~\E g : Good(T, g)}
<1>1. SUFFICES ASSUME B # {} PROVE FALSE
  OBVIOUS
<1>2. PICK T \in B : \A U \in B : U \subseteq T => U = T
  <2>1. B \in SUBSET (SUBSET S)
    OBVIOUS
  <2> HIDE DEF B
  <2> QED
    BY <1>1, <2>1, LeastSubset
<1> DEFINE G(U) == CHOOSE g : Good(U, g)
           At(s) == G(s)[s]
<1>3. \A U \in SUBSET T : U # T => Good(U, G(U))
  BY <1>2
<1>4. ASSUME NEW U \in SUBSET T, U # T, NEW s \in SUBSET U
      PROVE  At(s) = G(U)[s] /\ At(s) \in Int
  <2>1. Good(U, G(U)) /\ Good(s, G(s)) /\ T \in SUBSET S
    BY <1>3, <1>4
  <2> HIDE DEF G
  <2>2. At(s) = G(U)[s]
    BY <1>4, <2>1, AddsOnce
  <2> QED
    BY <2>1, <2>2
<1> DEFINE top == IF T = {} THEN 0 ELSE f[First(T)] + At(T \ {First(T)})
           g == [s \in SUBSET T |-> IF s = T THEN top ELSE At(s)]
<1>5. T # {} => First(T) \in T /\ T \ {First(T)} \in SUBSET T /\ T \ {First(T)} # T
  BY FirstOf
<1> HIDE DEF At
<1>6. top \in Int
  <2>1. CASE T # {}
    <3>1. At(T \ {First(T)}) \in Int
      BY <1>4, <1>5, <2>1
    <3>2. f[First(T)] \in Int
      BY <1>2, <1>5, <2>1
    <3> QED
      BY <2>1, <3>1, <3>2
  <2> QED
    BY <2>1
<1>7. g \in [SUBSET T -> Int]
  BY <1>4, <1>6
<1>8. ASSUME NEW s \in SUBSET T
      PROVE  g[s] = IF s = {} THEN 0 ELSE f[First(s)] + g[s \ {First(s)}]
  <2>1. CASE s = T
    BY <1>5, <2>1
  <2>2. CASE s # T
    <3>1. s # {} => s \ {First(s)} \in SUBSET s /\ s \ {First(s)} # T
      BY <2>2, FirstOf
    <3>2. Adds(G(s), f, s)
      BY <1>3, <2>2
    <3> HIDE DEF G
    <3>3. G(s)[s] = IF s = {} THEN 0 ELSE f[First(s)] + G(s)[s \ {First(s)}]
      BY <3>2 DEF Adds
    <3>4. At(s) = G(s)[s] /\ (s # {} => At(s \ {First(s)}) = G(s)[s \ {First(s)}])
      BY <1>4, <2>2, <3>1
    <3> QED
      BY <2>2, <3>1, <3>3, <3>4
  <2> QED
    BY <2>1, <2>2
<1>9. Good(T, g)
  <2> HIDE DEF top, G
  <2>1. g = [s \in SUBSET T |-> g[s]]
    OBVIOUS
  <2> QED
    BY <1>7, <1>8, <2>1 DEF Adds
<1> HIDE DEF Good, g
<1> QED
  BY <1>2, <1>9

\* The sum is the one number the recursion can come to.
LEMMA SumIs ==
  ASSUME NEW S, IsFiniteSet(S), NEW f, \A x \in S : f[x] \in Int
  PROVE  /\ \A T \in SUBSET S : Sum(f, T) \in Int
         /\ \A T \in SUBSET S : \A h : Adds(h, f, T) =>
              \A s \in SUBSET T : h[s] = Sum(f, s)
<1>1. ASSUME NEW T \in SUBSET S
      PROVE  \E g : Adds(g, f, T) /\ g \in [SUBSET T -> Int] /\ Sum(f, T) = g[T]
  <2> DEFINE k == CHOOSE g : Adds(g, f, T)
  <2>1. IsFiniteSet(T)
    BY FS_Subset
  <2>2. PICK g : Adds(g, f, T) /\ g \in [SUBSET T -> Int]
    BY <2>1, AddsTo
  <2>3. Adds(k, f, T)
    BY <2>2
  <2> HIDE DEF k
  <2>4. k[T] = g[T]
    BY <2>2, <2>3, AddsOnce
  <2> QED
    BY <2>2, <2>4 DEF Sum, k
<1>2. ASSUME NEW T \in SUBSET S, NEW h, Adds(h, f, T), NEW s \in SUBSET T
      PROVE  h[s] = Sum(f, s)
  <2>1. s \in SUBSET S /\ s \in SUBSET s
    OBVIOUS
  <2>2. PICK g : Adds(g, f, s) /\ Sum(f, s) = g[s]
    BY <1>1, <2>1
  <2>3. g[s] = h[s]
    BY <1>2, <2>1, <2>2, AddsOnce
  <2> QED
    BY <2>2, <2>3
<1>3. ASSUME NEW T \in SUBSET S
      PROVE  Sum(f, T) \in Int
  <2>1. PICK g : g \in [SUBSET T -> Int] /\ Sum(f, T) = g[T]
    BY <1>1
  <2>2. T \in SUBSET T
    OBVIOUS
  <2>3. g[T] \in Int
    BY <2>1, <2>2
  <2> QED
    BY <2>1, <2>3
<1> QED
  BY <1>2, <1>3, Zenon

LEMMA SumFirst ==
  ASSUME NEW S, IsFiniteSet(S), NEW f, \A x \in S : f[x] \in Int
  PROVE  /\ Sum(f, {}) = 0
         /\ \A T \in SUBSET S : T # {} => Sum(f, T) = f[First(T)] + Sum(f, T \ {First(T)})
<1>1. PICK g : Adds(g, f, S)
  BY AddsTo
<1>2. \A T \in SUBSET S : Sum(f, T) = g[T]
  BY <1>1, SumIs
<1> QED
  BY <1>1, <1>2, FirstOf DEF Adds

\* Any amount may be taken out of the sum first.
LEMMA SumWithout ==
  ASSUME NEW S, IsFiniteSet(S), NEW f, \A x \in S : f[x] \in Int,
         NEW T \in SUBSET S, NEW x \in T
  PROVE  Sum(f, T) = f[x] + Sum(f, T \ {x})
<1> DEFINE Splits(U) == \A y \in U : Sum(f, U) = f[y] + Sum(f, U \ {y})
           B == {U \in SUBSET S : ~Splits(U)}
<1>1. SUFFICES ASSUME B # {} PROVE FALSE
  OBVIOUS
<1>2. PICK U \in B : \A V \in B : V \subseteq U => V = U
  <2>1. B \in SUBSET (SUBSET S)
    OBVIOUS
  <2> HIDE DEF B
  <2> QED
    BY <1>1, <2>1, LeastSubset
<1>3. PICK y \in U : Sum(f, U) # f[y] + Sum(f, U \ {y})
  BY <1>2
<1> DEFINE z == First(U)
<1>4. z \in U /\ Sum(f, U) = f[z] + Sum(f, U \ {z})
  BY <1>2, <1>3, FirstOf, SumFirst
<1> HIDE DEF z
<1>5. y # z
  BY <1>3, <1>4
<1>6. Splits(U \ {z}) /\ Splits(U \ {y})
  BY <1>2, <1>3, <1>4
<1> DEFINE W == (U \ {y}) \ {z}
<1>7. (U \ {z}) \ {y} = W
  OBVIOUS
<1>8. /\ Sum(f, U \ {z}) = f[y] + Sum(f, (U \ {z}) \ {y})
      /\ Sum(f, U \ {y}) = f[z] + Sum(f, W)
  BY <1>3, <1>4, <1>5, <1>6
<1>9. f[y] \in Int /\ f[z] \in Int /\ Sum(f, W) \in Int
  <2>1. W \in SUBSET S /\ y \in S /\ z \in S
    BY <1>2, <1>3, <1>4
  <2> QED
    BY <2>1, SumIs
<1> HIDE DEF Splits, W
<1>10. Sum(f, U \ {z}) = f[y] + Sum(f, W)
  BY <1>7, <1>8, Zenon
<1>11. f[z] + (f[y] + Sum(f, W)) = f[y] + (f[z] + Sum(f, W))
  BY <1>9
<1> QED
  BY <1>3, <1>4, <1>8, <1>10, <1>11, Zenon

\* Naturals come to a natural.
LEMMA SumNat ==
  ASSUME NEW S, IsFiniteSet(S), NEW f, \A x \in S : f[x] \in Nat
  PROVE  \A T \in SUBSET S : Sum(f, T) \in Nat
<1> DEFINE B == {T \in SUBSET S : Sum(f, T) \notin Nat}
<1>1. SUFFICES ASSUME B # {} PROVE FALSE
  OBVIOUS
<1>2. PICK T \in B : \A U \in B : U \subseteq T => U = T
  <2>1. B \in SUBSET (SUBSET S)
    OBVIOUS
  <2> HIDE DEF B
  <2> QED
    BY <1>1, <2>1, LeastSubset
<1>3. Sum(f, {}) = 0
  BY SumFirst
<1>4. T # {}
  <2>1. Sum(f, {}) \in Nat /\ Sum(f, T) \notin Nat
    BY <1>2, <1>3
  <2> QED
    BY <2>1, Zenon
<1>5. f[First(T)] \in Nat /\ Sum(f, T \ {First(T)}) \in Nat
  BY <1>2, <1>4, FirstOf
<1>6. Sum(f, T) = f[First(T)] + Sum(f, T \ {First(T)})
  BY <1>2, <1>4, SumFirst
<1> QED
  BY <1>2, <1>5, <1>6

\* R's amounts are at most 0, or at most an amount of T that no other one is held against.
LEMMA SumBelow ==
  ASSUME NEW R, IsFiniteSet(R), NEW f, \A x \in R : f[x] \in Int,
         NEW T, IsFiniteSet(T), NEW g, \A y \in T : g[y] \in Nat,
         NEW P \in SUBSET R, \A x \in R \ P : f[x] <= 0,
         NEW h, \A x \in P : h[x] \in T /\ f[x] <= g[h[x]],
         \A x, y \in P : h[x] = h[y] => x = y
  PROVE  Sum(f, R) <= Sum(g, T)
<1> DEFINE Below(U) == \A V \in SUBSET T :
             (\A x \in U \cap P : h[x] \in V) => Sum(f, U) <= Sum(g, V)
           B == {U \in SUBSET R : ~Below(U)}
<1>1. SUFFICES ASSUME B # {} PROVE FALSE
  OBVIOUS
<1>2. PICK U \in B : \A W \in B : W \subseteq U => W = U
  <2>1. B \in SUBSET (SUBSET R)
    OBVIOUS
  <2> HIDE DEF B
  <2> QED
    BY <1>1, <2>1, LeastSubset
<1>3. PICK V \in SUBSET T : (\A x \in U \cap P : h[x] \in V) /\ ~(Sum(f, U) <= Sum(g, V))
  BY <1>2
<1>4. CASE U = {}
  BY <1>3, <1>4, SumFirst, SumNat
<1>5. CASE U # {}
  <2> DEFINE x == First(U)
  <2>1. /\ x \in U /\ x \in R /\ U \ {x} \in SUBSET R /\ U \ {x} # U
        /\ Sum(f, U) = f[x] + Sum(f, U \ {x})
    BY <1>2, <1>5, FirstOf, SumFirst
  <2> HIDE DEF x
  <2>2. Below(U \ {x})
    BY <1>2, <2>1
  <2>3. f[x] \in Int /\ Sum(f, U \ {x}) \in Int /\ Sum(g, V) \in Int
    BY <2>1, SumIs
  <2>4. CASE x \notin P
    <3>1. f[x] <= 0 /\ Sum(f, U \ {x}) <= Sum(g, V)
      BY <1>3, <2>1, <2>2, <2>4
    <3> QED
      BY <1>3, <2>1, <2>3, <3>1
  <2>5. CASE x \in P
    <3>1. h[x] \in V /\ Sum(g, V) = g[h[x]] + Sum(g, V \ {h[x]})
      BY <1>3, <2>1, <2>5, SumWithout
    <3>2. Sum(f, U \ {x}) <= Sum(g, V \ {h[x]})
      <4>1. \A y \in (U \ {x}) \cap P : h[y] \in V \ {h[x]}
        BY <1>3, <2>5
      <4>2. V \ {h[x]} \in SUBSET T
        BY <1>3
      <4> QED
        BY <2>2, <4>1, <4>2
    <3>3. f[x] <= g[h[x]] /\ g[h[x]] \in Int /\ Sum(g, V \ {h[x]}) \in Int
      <4>1. V \ {h[x]} \in SUBSET T /\ h[x] \in T
        BY <2>5
      <4> QED
        BY <2>5, <4>1, SumIs
    <3> HIDE DEF Below
    <3> QED
      BY <1>3, <2>1, <2>3, <3>1, <3>2, <3>3
  <2> QED
    BY <2>4, <2>5
<1> QED
  BY <1>4, <1>5

-----------------------------------------------------------------------------
(***************************************************************************)
(* Nobody is credited with what was not collected.  A charge is cleared    *)
(* only by a request of Stripe's news or of a card charged at once, both   *)
(* of which know the intent as collected; so the cleared charges of an     *)
(* invoice are among the collected intents of it, and that sum never       *)
(* falls: what was read or written of it stays below it.                   *)
(***************************************************************************)
Made(k) == intent[k].status # "none"
Collected(k) == intent[k].status = "collected"

CollectedIn(rows, i) == {k \in Intents : rows[k].status = "collected" /\ rows[k].invoice = i}
CreditIn(rows, i) ==
  LET amount(k) == rows[k].amount IN MapThenSumSet(amount, CollectedIn(rows, i))
Credit(i) == CreditIn(intent, i)

IntentsTyped ==
  /\ intent \in [Intents -> IntentRows] /\ refunded \subseteq Intents /\ sent \subseteq Events
  /\ \A k \in Intents : Made(k) => intent[k].invoice \in Invoices

\* Stripe reports what happened.
Reported ==
  \A e \in sent : Made(e[2]) /\ (e[1] = "succeeded" => Collected(e[2]))

\* A connection that will clear a charge knows the intent as collected.
Knows(q) ==
  /\ q.pc # "idle" => Made(q.intent)
  /\ q.pc # "idle" /\ (q.op = "succeeded" \/ q.as = "cleared") => Collected(q.intent)
  /\ q.pc = "update" => q.op = "succeeded"

Backed ==
  \A k \in Intents : "cleared" \in {pay.row[Charge(k)], pay.new[Charge(k)]} => Collected(k)

PaidWithin ==
  /\ paid \in Tables(Invoices, Int)
  /\ \A i \in Invoices : paid.row[i] <= Credit(i) /\ paid.new[i] <= Credit(i)

\* A sum that was read and not written yet.
ReadWithin(q) ==
  q.paid \in Int /\ (q.pc = "totals" => q.paid <= Credit(intent[q.intent].invoice))

CreditInv ==
  /\ AppliedInv /\ IntentsTyped /\ Reported /\ Backed /\ PaidWithin
  /\ \A c \in Conns : Knows(tx[c]) /\ ReadWithin(tx[c])

-----------------------------------------------------------------------------
LEMMA IntentSum ==
  ASSUME NEW rows \in [Intents -> IntentRows], NEW S \in SUBSET Intents
  PROVE  LET amount(k) == rows[k].amount
         IN  MapThenSumSet(amount, S) = Sum([k \in S |-> rows[k].amount], S)
<1> DEFINE f == [k \in S |-> rows[k].amount]
           Rec(h) == h = [s \in SUBSET S |->
                       IF s = {} THEN 0
                       ELSE rows[CHOOSE x \in s : TRUE].amount + h[s \ {CHOOSE x \in s : TRUE}]]
           iter == CHOOSE h : Rec(h)
           amount(x) == rows[x].amount
<1>1. IsFiniteSet(S) /\ \A x \in S : f[x] \in Int
  BY StripeConstants, FS_Subset DEF IntentRows
<1>2. PICK g : Adds(g, f, S)
  <2> HIDE DEF f
  <2> QED
    BY <1>1, AddsTo
<1>3. \A h : Adds(h, f, S) <=> Rec(h)
  <2> TAKE h
  <2>1. \A s \in SUBSET S : s # {} => f[First(s)] = rows[CHOOSE x \in s : TRUE].amount
    BY FirstOf DEF First
  <2> HIDE DEF f
  <2> QED
    BY <2>1 DEF Adds, First
<1>4. Adds(iter, f, S)
  <2> HIDE DEF f, Rec
  <2> QED
    BY <1>2, <1>3, Zenon
<1>5. MapThenSumSet(amount, S) = iter[S]
  BY DEF MapThenSumSet, MapThenFoldSet
<1> HIDE DEF f, iter
<1>6. iter[S] = Sum(f, S)
  BY <1>1, <1>4, SumIs
<1> QED
  BY <1>5, <1>6 DEF f

\* What was collected only grows.
LEMMA CreditGrows ==
  ASSUME NEW rows \in [Intents -> IntentRows], NEW next \in [Intents -> IntentRows], NEW i,
         \A k \in CollectedIn(rows, i) :
           k \in CollectedIn(next, i) /\ next[k].amount = rows[k].amount
  PROVE  CreditIn(rows, i) <= CreditIn(next, i) /\ CreditIn(rows, i) \in Nat
<1> DEFINE R == CollectedIn(rows, i)
           T == CollectedIn(next, i)
           f == [k \in R |-> rows[k].amount]
           g == [k \in T |-> next[k].amount]
           h == [k \in R |-> k]
<1>1. R \in SUBSET Intents /\ T \in SUBSET Intents
  BY DEF CollectedIn
<1>2. IsFiniteSet(R) /\ IsFiniteSet(T)
  BY <1>1, StripeConstants, FS_Subset
<1>3. CreditIn(rows, i) = Sum(f, R) /\ CreditIn(next, i) = Sum(g, T)
  BY <1>1, IntentSum DEF CreditIn
<1>4. (\A k \in R : f[k] \in Nat) /\ (\A k \in T : g[k] \in Nat)
  BY <1>1 DEF IntentRows
<1>5. \A k \in R : h[k] \in T /\ f[k] <= g[h[k]]
  BY <1>4
<1>6. \A j, k \in R : h[j] = h[k] => j = k
  OBVIOUS
<1> HIDE DEF R, T, f, g, h
<1>7. Sum(f, R) <= Sum(g, T)
  <2>1. R \in SUBSET R /\ (\A x \in R \ R : f[x] <= 0) /\ (\A x \in R : f[x] \in Int)
    BY <1>4
  <2> QED
    BY <1>2, <1>4, <1>5, <1>6, <2>1, SumBelow
<1>8. Sum(f, R) \in Nat
  BY <1>2, <1>4, SumNat
<1> QED
  BY <1>3, <1>7, <1>8

\* What a connection reads of an invoice's payments is at most what was collected of it.
LEMMA ReadBelow ==
  ASSUME CreditInv, NEW c \in Conns, NEW i
  PROVE  LET S == {r \in Rows : Seen(pay, c, r) = "cleared" /\ intent[r[1]].invoice = i}
         IN  MapThenSumSet(Amount, S) \in Int /\ MapThenSumSet(Amount, S) <= Credit(i)
<1> DEFINE S == {r \in Rows : Seen(pay, c, r) = "cleared" /\ intent[r[1]].invoice = i}
           f == [r \in S |-> Amount(r)]
           P == {r \in S : r[2] = "charge"}
           h == [r \in S |-> r[1]]
           T == CollectedIn(intent, i)
           g == [k \in T |-> intent[k].amount]
           Rec(u) == u = [s \in SUBSET S |->
                       IF s = {} THEN 0
                       ELSE Amount(CHOOSE x \in s : TRUE) + u[s \ {CHOOSE x \in s : TRUE}]]
           iter == CHOOSE u : Rec(u)
<1>1. /\ IsFiniteSet(S) /\ IsFiniteSet(T) /\ S \in SUBSET Rows /\ T \in SUBSET Intents
      /\ intent \in [Intents -> IntentRows]
  <2>1. IsFiniteSet({"charge", "refund", "webhook"})
    <3>1. IsFiniteSet({"charge"} \cup {"refund"}) /\ IsFiniteSet({"webhook"})
      BY FS_Singleton, FS_Union
    <3>2. {"charge", "refund", "webhook"} = ({"charge"} \cup {"refund"}) \cup {"webhook"}
      OBVIOUS
    <3> QED
      BY <3>1, <3>2, FS_Union, ZenonT(30)
  <2>2. IsFiniteSet(Rows)
    BY <2>1, StripeConstants, FS_Product DEF Rows
  <2>3. S \in SUBSET Rows /\ T \in SUBSET Intents
    BY DEF CollectedIn
  <2> QED
    BY <2>2, <2>3, StripeConstants, FS_Subset DEF CreditInv, IntentsTyped
<1>2. /\ \A r \in S : r \in Rows /\ r[1] \in Intents /\ intent[r[1]].amount \in Nat
      /\ \A r \in S : f[r] = Amount(r) /\ h[r] = r[1] /\ (r \in P <=> r[2] = "charge")
      /\ \A r \in S : "cleared" \in {pay.row[r], pay.new[r]} /\ intent[r[1]].invoice = i
      /\ P \subseteq S
  BY <1>1 DEF Rows, IntentRows, Seen
<1>3. \A k \in T : g[k] = intent[k].amount /\ g[k] \in Nat
  BY <1>1 DEF IntentRows
<1>4. P = {r \in S : r[2] = "charge"}
  OBVIOUS
<1>5. \A r, s \in P : h[r] = h[s] => r = s
  BY DEF Rows
<1> HIDE DEF f, P, h, T, g, S
<1>6. /\ \A r \in S : f[r] \in Int
      /\ \A r \in S \ P : f[r] <= 0
      /\ \A r \in P : f[r] = intent[r[1]].amount
  BY <1>2 DEF Amount
<1>7. \A r \in P : h[r] \in T /\ f[r] <= g[h[r]]
  <2> SUFFICES ASSUME NEW r \in P PROVE h[r] \in T /\ f[r] <= g[h[r]]
    OBVIOUS
  <2>1. r = Charge(r[1]) /\ r[1] \in Intents /\ h[r] = r[1] /\ r \in S
    BY <1>2 DEF Rows, Charge
  <2>2. Collected(r[1])
    BY <1>2, <2>1 DEF CreditInv, Backed
  <2>3. r[1] \in T
    BY <1>2, <2>1, <2>2 DEF CollectedIn, Collected, T
  <2> QED
    BY <1>2, <1>3, <1>6, <2>1, <2>3
<1>8. PICK v : Adds(v, f, S)
  BY <1>1, <1>6, AddsTo
<1>9. \A u : Adds(u, f, S) <=> Rec(u)
  <2> TAKE u
  <2>1. \A s \in SUBSET S : s # {} => f[First(s)] = Amount(CHOOSE x \in s : TRUE)
    BY <1>2, FirstOf DEF First
  <2> QED
    BY <2>1 DEF Adds, First
<1>10. Adds(iter, f, S)
  <2> HIDE DEF Rec
  <2> QED
    BY <1>8, <1>9, Zenon
<1>11. MapThenSumSet(Amount, S) = iter[S]
  BY DEF MapThenSumSet, MapThenFoldSet
<1> HIDE DEF iter
<1>12. Sum(f, S) \in Int /\ iter[S] = Sum(f, S)
  <2>1. S \in SUBSET S /\ IsFiniteSet(S) /\ \A r \in S : f[r] \in Int
    BY <1>1, <1>6
  <2>2. Sum(f, S) \in Int
    BY <2>1, SumIs
  <2>3. \A R \in SUBSET S : \A u : Adds(u, f, R) => \A s \in SUBSET R : u[s] = Sum(f, s)
    BY <2>1, SumIs, Zenon
  <2>4. iter[S] = Sum(f, S)
    BY <1>10, <2>1, <2>3
  <2> QED
    BY <2>2, <2>4
<1>13. Credit(i) = Sum(g, T)
  BY <1>1, IntentSum DEF Credit, CreditIn, g, T
<1>14. Sum(f, S) <= Sum(g, T)
  <2>1. P \in SUBSET S
    BY <1>2
  <2>2. /\ \A x \in S : f[x] \in Int
        /\ \A y \in T : g[y] \in Nat
        /\ \A x \in S \ P : f[x] <= 0
        /\ \A x \in P : h[x] \in T /\ f[x] <= g[h[x]]
        /\ \A x, y \in P : h[x] = h[y] => x = y
    BY <1>3, <1>5, <1>6, <1>7
  <2> QED
    BY <1>1, <2>1, <2>2, SumBelow, Zenon
<1> QED
  BY <1>11, <1>12, <1>13, <1>14 DEF S

-----------------------------------------------------------------------------
\* At Stripe: an intent keeps its invoice and its amount, what is collected stays so.
Grows ==
  \A k \in Intents : Made(k) =>
    /\ intent'[k].invoice = intent[k].invoice /\ intent'[k].amount = intent[k].amount
    /\ intent'[k].status # "none" /\ (Collected(k) => intent'[k].status = "collected")

LEMMA CreateStep ==
  ASSUME CreditInv, NEW c \in Conns, NEW i \in Invoices, NEW k \in Intents,
         NEW s \in {"made", "collected"}, CreateIntent(c, i, k, s)
  PROVE  /\ Grows /\ IntentsTyped' /\ Reported'
         /\ intent'[k].status = s
<1> USE DEF CreditInv, IntentsTyped
<1>1. Balance(i) \in Nat /\ ~Made(k) /\ k \in Intents
  BY StripeConstants DEF CreateIntent, Balance, PaidWithin, Tables, Made, NotMade
<1> DEFINE new == [status |-> s, invoice |-> i, amount |-> Balance(i)]
<1>2. new \in IntentRows /\ new.status = s /\ new.invoice = i
  BY <1>1 DEF IntentRows
<1>3. intent' = [intent EXCEPT ![k] = new] /\ refunded' = refunded
  BY DEF CreateIntent
<1> HIDE DEF new
<1>4. /\ intent' \in [Intents -> IntentRows] /\ intent'[k] = new
      /\ \A j \in Intents \ {k} : intent'[j] = intent[j]
  BY <1>2, <1>3
<1>5. sent' \subseteq Events
  BY DEF CreateIntent, Succeeded, Events, EventTypes
<1>6. Grows
  BY <1>1, <1>4 DEF Grows, Made, Collected
<1>7. IntentsTyped'
  BY <1>2, <1>3, <1>4, <1>5 DEF Made
<1>8. Reported'
  <2> SUFFICES ASSUME NEW e \in sent'
               PROVE  /\ intent'[e[2]].status # "none"
                      /\ e[1] = "succeeded" => intent'[e[2]].status = "collected"
    BY DEF Reported, Made, Collected
  <2>1. CASE e \in sent
    <3>1. e[2] \in Intents /\ Made(e[2]) /\ (e[1] = "succeeded" => Collected(e[2]))
      BY <2>1 DEF Reported, Events
    <3> QED
      BY <1>1, <1>4, <3>1 DEF Made, Collected
  <2>2. CASE e \notin sent
    <3>1. e = <<"succeeded", k>> /\ s = "collected"
      BY <2>2 DEF CreateIntent, Succeeded
    <3> QED
      BY <1>2, <1>4, <3>1
  <2> QED
    BY <2>1, <2>2
<1> QED
  BY <1>2, <1>4, <1>6, <1>7, <1>8

\* The status of an intent that was made goes on.
LEMMA AdvanceStep ==
  ASSUME CreditInv, NEW k \in Intents, NEW s \in {"open", "collected"}, Made(k), ~Collected(k),
         intent' = [intent EXCEPT ![k].status = s], refunded' \subseteq Intents,
         sent' \subseteq Events,
         \A e \in sent' \ sent : e[2] = k /\ (e[1] = "succeeded" => s = "collected")
  PROVE  Grows /\ IntentsTyped' /\ Reported'
<1> USE DEF CreditInv, IntentsTyped
<1>1. /\ intent' \in [Intents -> IntentRows]
      /\ intent'[k].status = s /\ intent'[k].invoice = intent[k].invoice
      /\ intent'[k].amount = intent[k].amount
      /\ \A j \in Intents \ {k} : intent'[j] = intent[j]
  BY DEF IntentRows
<1>2. Grows
  BY <1>1 DEF Grows, Made, Collected
<1>3. IntentsTyped'
  BY <1>1 DEF Made
<1>4. Reported'
  BY <1>1 DEF Reported, Made, Collected, Events
<1> QED
  BY <1>2, <1>3, <1>4

LEMMA StripeStep ==
  ASSUME CreditInv, [Next]_vars
  PROVE  Grows /\ IntentsTyped' /\ Reported'
<1> USE DEF CreditInv, IntentsTyped
<1>1. CASE UNCHANGED stripe
  BY <1>1 DEF stripe, Grows, Made, Collected, Reported
<1>2. CASE intent' = intent /\ \E k \in Intents : 
                 /\ Made(k) /\ refunded' \subseteq refunded \cup {k}
                 /\ sent' \subseteq sent \cup {<<"refunded", k>>, <<"payment_failed", k>>}
  BY <1>2 DEF Grows, Made, Collected, Reported, Events, EventTypes
<1>3. ASSUME NEW c \in Conns, Request(c)
      PROVE  Grows /\ IntentsTyped' /\ Reported'
  <2>1. PICK k \in Intents :
          \/ \E i \in Invoices : createInvoicePaymentIntent(c, i, k) \/ publicView(c, i, k)
          \/ refundPayment(c, k)
    BY <1>3 DEF Request
  <2>2. CASE refundPayment(c, k)
    BY <1>2, <2>2 DEF refundPayment, Made
  <2>3. CASE \E i \in Invoices : createInvoicePaymentIntent(c, i, k) \/ publicView(c, i, k)
    BY <2>3, CreateStep DEF createInvoicePaymentIntent, publicView
  <2> QED
    BY <2>1, <2>2, <2>3
<1>4. ASSUME NEW c \in Conns, Statement(c)
      PROVE  Grows /\ IntentsTyped' /\ Reported'
  <2>1. CASE Commit(c)
    <3> DEFINE k == tx[c].intent
    <3>1. CASE tx[c].op = "charge" /\ intent[k].status = "made"
      <4>1. k \in Intents /\ refunded' = refunded /\ sent' = sent
        BY <2>1 DEF Commit, Serving, AppliedInv, HandledInv, WellFormed
      <4>2. intent' = [intent EXCEPT ![k].status = "open"]
        BY <2>1, <3>1 DEF Commit
      <4>3. Made(k) /\ ~Collected(k)
        BY <3>1 DEF Made, Collected
      <4> HIDE DEF k
      <4> QED
        BY <4>1, <4>2, <4>3, AdvanceStep
    <3>2. CASE ~(tx[c].op = "charge" /\ intent[k].status = "made")
      <4>1. UNCHANGED stripe
        BY <2>1, <3>2 DEF Commit, stripe
      <4> QED
        BY <1>1, <4>1
    <3> QED
      BY <3>1, <3>2
  <2>2. CASE ~Commit(c)
    <3>1. UNCHANGED stripe
      BY <1>4, <2>2 DEF Statement, RecordEvent, markEventProcessed, FindCharge, InsertCharge,
         ClearCharge, FailCharge, InsertRefund, InsertWebhookRefund, ReadPayments, WriteTotals,
         Fail, Rollback, stripe
    <3> QED
      BY <1>1, <3>1
  <2> QED
    BY <2>1, <2>2
<1>5. ASSUME NEW c \in Conns, Abort(c) \/ Crash(c) \/ \E e \in Events : Deliver(c, e)
      PROVE  UNCHANGED stripe
  BY <1>5 DEF Abort, Crash, Fail, Rollback, Deliver, stripe
<1>6. ASSUME NEW k \in Intents, CustomerPays(k) \/ CardDeclined(k) \/ RefundAtStripe(k)
      PROVE  Grows /\ IntentsTyped' /\ Reported'
  <2>1. CASE CustomerPays(k)
    <3>1. /\ Made(k) /\ ~Collected(k) /\ refunded' \subseteq Intents
          /\ intent' = [intent EXCEPT ![k].status = "collected"]
          /\ sent' = sent \cup {<<"succeeded", k>>}
      BY <2>1 DEF CustomerPays, Made, Collected, Succeeded
    <3>2. /\ sent' \subseteq Events
          /\ \A e \in sent' \ sent : e[2] = k
      BY <3>1 DEF Events, EventTypes
    <3> QED
      BY <3>1, <3>2, AdvanceStep
  <2>2. CASE CardDeclined(k) \/ RefundAtStripe(k)
    BY <1>2, <2>2 DEF CardDeclined, RefundAtStripe, Made
  <2> QED
    BY <1>6, <2>1, <2>2
<1>7. CASE UNCHANGED vars
  BY <1>1, <1>7 DEF vars
<1> QED
  BY <1>1, <1>3, <1>4, <1>5, <1>6, <1>7 DEF Next

\* So what is credited to an invoice may stay.
LEMMA CreditKept ==
  ASSUME CreditInv, Grows, IntentsTyped'
  PROVE  \A i : /\ CreditIn(intent, i) <= CreditIn(intent', i)
                /\ CreditIn(intent, i) \in Nat /\ CreditIn(intent', i) \in Nat
<1>1. intent \in [Intents -> IntentRows] /\ intent' \in [Intents -> IntentRows]
  BY DEF CreditInv, IntentsTyped
<1>2. ASSUME NEW i, NEW k \in CollectedIn(intent, i)
      PROVE  k \in CollectedIn(intent', i) /\ intent'[k].amount = intent[k].amount
  BY <1>2 DEF CollectedIn, Grows, Made, Collected
<1>3. \A i : CreditIn(intent, i) <= CreditIn(intent', i) /\ CreditIn(intent, i) \in Nat
  BY <1>1, <1>2, CreditGrows
<1>4. \A i : CreditIn(intent', i) \in Nat
  BY <1>1, CreditGrows
<1> QED
  BY <1>3, <1>4

-----------------------------------------------------------------------------
\* The connections: what becomes of a request in one step.
Follows(d) ==
  \/ tx'[d] \in {tx[d], Idle}
  \/ /\ tx'[d].pc \in {"find", "refund", "record"} /\ tx'[d].paid = 0 /\ Knows(tx[d])'
  \/ /\ tx[d].pc # "idle"
     /\ tx'[d].op = tx[d].op /\ tx'[d].intent = tx[d].intent /\ tx'[d].as = tx[d].as
     /\ tx'[d].pc = "update" => tx[d].op = "succeeded"
     /\ \/ tx'[d].paid = tx[d].paid /\ tx'[d].pc # "totals"
        \/ tx'[d].paid \in Int /\ tx'[d].paid <= Credit(InvoiceOf(d))

LEMMA ConnTyped ==
  ASSUME CreditInv, NEW c \in Conns
  PROVE  /\ tx = [d \in Conns |-> tx[d]] /\ RequestRow(tx[c]) /\ WellFormed(tx[c])
         /\ tx[c].paid \in Int
BY DEF CreditInv, AppliedInv, HandledInv, Shape, ReadWithin

LEMMA FollowStep ==
  ASSUME CreditInv, NEW c \in Conns, NEW q, tx' = [tx EXCEPT ![c] = q], Follows(c)
  PROVE  \A d \in Conns : Follows(d)
BY ConnTyped DEF Follows

\* A statement that goes on to another one.
LEMMA GoFollows ==
  ASSUME CreditInv, NEW c \in Conns, NEW pc, tx' = [tx EXCEPT ![c].pc = pc],
         tx[c].pc # "idle", pc # "totals", pc = "update" => tx[c].op = "succeeded"
  PROVE  \A d \in Conns : Follows(d)
<1>1. PICK q : q = [tx[c] EXCEPT !.pc = pc]
  OBVIOUS
<1>2. /\ tx' = [tx EXCEPT ![c] = q] /\ tx'[c] = q
      /\ q.pc = pc /\ q.op = tx[c].op /\ q.intent = tx[c].intent /\ q.as = tx[c].as
      /\ q.paid = tx[c].paid
  BY <1>1, ConnTyped DEF RequestRow
<1> QED
  BY <1>2, FollowStep DEF Follows

LEMMA IdleFollows ==
  ASSUME CreditInv, NEW c \in Conns, tx' = [tx EXCEPT ![c] = Idle]
  PROVE  \A d \in Conns : Follows(d)
<1>1. Follows(c)
  BY ConnTyped DEF Follows
<1> QED
  BY <1>1, FollowStep

LEMMA BeginFollows ==
  ASSUME CreditInv, NEW c \in Conns, NEW q, tx' = [tx EXCEPT ![c] = q],
         q.pc \in {"find", "refund", "record"}, q.paid = 0, intent'[q.intent].status # "none",
         q.op = "succeeded" \/ q.as = "cleared" => intent'[q.intent].status = "collected"
  PROVE  \A d \in Conns : Follows(d)
<1>1. tx'[c] = q
  BY ConnTyped
<1>2. Knows(tx[c])'
  BY <1>1 DEF Knows, Made, Collected
<1>3. Follows(c)
  BY <1>1, <1>2 DEF Follows
<1> QED
  BY <1>3, FollowStep

LEMMA RequestFollows ==
  ASSUME CreditInv, NEW c \in Conns, Request(c) \/ \E e \in Events : Deliver(c, e)
  PROVE  \A d \in Conns : Follows(d)
<1>1. ASSUME NEW i \in Invoices, NEW k \in Intents, NEW s \in {"made", "collected"},
             CreateIntent(c, i, k, s)
      PROVE  \A d \in Conns : Follows(d)
  <2> DEFINE q == [Idle EXCEPT !.op = "charge", !.pc = "find", !.intent = k,
                    !.as = IF s = "collected" THEN "cleared" ELSE "pending"]
  <2>1. tx' = [tx EXCEPT ![c] = q]
    BY <1>1 DEF CreateIntent
  <2>2. /\ q.pc = "find" /\ q.paid = 0 /\ q.intent = k /\ q.op = "charge"
        /\ q.as = "cleared" => s = "collected"
    BY DEF Idle
  <2>3. intent'[k].status = s
    BY <1>1, CreateStep
  <2> HIDE DEF q
  <2> QED
    BY <2>1, <2>2, <2>3, BeginFollows
<1>2. ASSUME NEW k \in Intents, refundPayment(c, k)
      PROVE  \A d \in Conns : Follows(d)
  <2> DEFINE q == [Idle EXCEPT !.op = "refund", !.pc = "refund", !.intent = k]
  <2>1. tx' = [tx EXCEPT ![c] = q] /\ intent'[k].status = "collected"
    BY <1>2 DEF refundPayment
  <2>2. q.pc = "refund" /\ q.paid = 0 /\ q.intent = k
    BY DEF Idle
  <2> HIDE DEF q
  <2> QED
    BY <2>1, <2>2, BeginFollows
<1>3. ASSUME NEW e \in Events, Deliver(c, e)
      PROVE  \A d \in Conns : Follows(d)
  <2> DEFINE q == [Idle EXCEPT !.op = e[1], !.pc = "record", !.intent = e[2]]
  <2>1. tx' = [tx EXCEPT ![c] = q]
    BY <1>3 DEF Deliver
  <2>2. q.pc = "record" /\ q.paid = 0 /\ q.intent = e[2] /\ q.op = e[1] /\ q.as # "cleared"
    BY DEF Idle
  <2>3. intent' = intent /\ Made(e[2]) /\ (e[1] = "succeeded" => Collected(e[2]))
    BY <1>3 DEF Deliver, stripe, CreditInv, Reported
  <2> HIDE DEF q
  <2> QED
    BY <2>1, <2>2, <2>3, BeginFollows DEF Made, Collected
<1> QED
  BY <1>1, <1>2, <1>3 DEF Request, createInvoicePaymentIntent, publicView

LEMMA EndFollows ==
  ASSUME CreditInv, NEW c \in Conns, Abort(c) \/ Crash(c) \/ (Fail(c) /\ tx[c].pc # "idle")
  PROVE  \A d \in Conns : Follows(d)
<1>1. CASE Crash(c)
  BY <1>1, IdleFollows DEF Crash
<1>2. ASSUME Fail(c), tx[c].pc # "idle"
      PROVE  \A d \in Conns : Follows(d)
  <2>1. CASE Handling(c)
    <3>1. tx' = [tx EXCEPT ![c].pc = "error"]
      BY <1>2, <2>1 DEF Fail
    <3> QED
      BY <1>2, <3>1, GoFollows
  <2>2. CASE ~Handling(c)
    BY <1>2, <2>2, IdleFollows DEF Fail
  <2> QED
    BY <2>1, <2>2
<1> QED
  BY <1>1, <1>2 DEF Abort

LEMMA ReadFollows ==
  ASSUME CreditInv, NEW c \in Conns, ReadPayments(c)
  PROVE  \A d \in Conns : Follows(d)
<1> DEFINE S == {r \in Rows : Seen(pay, c, r) = "cleared" /\ intent[r[1]].invoice = InvoiceOf(c)}
<1>1. tx' = [tx EXCEPT ![c].paid = MapThenSumSet(Amount, S), ![c].pc = "totals"]
      /\ tx[c].pc = "payments"
  BY DEF ReadPayments, Serving
<1>2. PICK n : n = MapThenSumSet(Amount, S)
  OBVIOUS
<1>3. n \in Int /\ n <= Credit(InvoiceOf(c))
  BY <1>2, ReadBelow
<1> HIDE DEF S
<1>4. PICK q : q = [tx[c] EXCEPT !.paid = n, !.pc = "totals"]
  OBVIOUS
<1>5. /\ tx' = [tx EXCEPT ![c] = q] /\ tx'[c] = q
      /\ q.pc = "totals" /\ q.op = tx[c].op /\ q.intent = tx[c].intent /\ q.as = tx[c].as
      /\ q.paid = n
  BY <1>1, <1>2, <1>4, ConnTyped DEF RequestRow
<1> QED
  BY <1>1, <1>3, <1>5, FollowStep DEF Follows

LEMMA StatementFollows ==
  ASSUME CreditInv, NEW c \in Conns, Statement(c)
  PROVE  \A d \in Conns : Follows(d)
<1>1. tx[c].pc # "idle"
  BY DEF Statement, RecordEvent, markEventProcessed, FindCharge, InsertCharge, ClearCharge,
     FailCharge, InsertRefund, InsertWebhookRefund, ReadPayments, WriteTotals, Commit, Serving
<1>2. CASE RecordEvent(c)
  <2>1. CASE tx' = [tx EXCEPT ![c].pc = FirstStep[tx[c].op]]
    <3>1. tx[c].op \in EventTypes
      BY <1>2, ConnTyped DEF RecordEvent, Serving, WellFormed
    <3>2. FirstStep[tx[c].op] \in {"find", "failed", "webhook"}
      BY <3>1 DEF FirstStep, EventTypes
    <3> QED
      BY <1>1, <2>1, <3>2, GoFollows
  <2> QED
    BY <1>2, <2>1, IdleFollows DEF RecordEvent, Goto
<1>3. CASE markEventProcessed(c)
  BY <1>3, IdleFollows DEF markEventProcessed
<1>4. CASE FindCharge(c)
  <2>1. Handling(c) => tx[c].op = "succeeded"
    BY <1>4, ConnTyped DEF FindCharge, Serving, WellFormed, Handling, EventTypes
  <2> QED
    BY <1>1, <1>4, <2>1, GoFollows DEF FindCharge, Goto
<1>5. CASE InsertCharge(c)
  BY <1>1, <1>5, GoFollows, EndFollows DEF InsertCharge, Goto
<1>6. CASE \/ ClearCharge(c) \/ FailCharge(c) \/ InsertRefund(c) \/ InsertWebhookRefund(c)
           \/ WriteTotals(c)
  BY <1>1, <1>6, GoFollows
     DEF ClearCharge, FailCharge, InsertRefund, InsertWebhookRefund, WriteTotals, Goto
<1>7. CASE Commit(c)
  <2>1. CASE Handling(c)
    <3>1. tx' = [tx EXCEPT ![c].pc = "mark"]
      BY <1>7, <2>1 DEF Commit
    <3> QED
      BY <1>1, <3>1, GoFollows
  <2>2. CASE ~Handling(c)
    BY <1>7, <2>2, IdleFollows DEF Commit
  <2> QED
    BY <2>1, <2>2
<1> QED
  BY <1>2, <1>3, <1>4, <1>5, <1>6, <1>7, ReadFollows DEF Statement

\* Nobody forgets that an intent was collected, nor reads more than was.
LEMMA ConnsStep ==
  ASSUME CreditInv, [Next]_vars
  PROVE  \A c \in Conns : Knows(tx[c])' /\ ReadWithin(tx[c])'
<1>1. Grows /\ IntentsTyped'
  BY StripeStep
<1>2. \A i : /\ CreditIn(intent, i) <= CreditIn(intent', i)
             /\ CreditIn(intent, i) \in Nat /\ CreditIn(intent', i) \in Nat
  BY <1>1, CreditKept
<1>3. \A c \in Conns : Follows(c)
  <2>1. CASE UNCHANGED tx
    BY <2>1 DEF Follows
  <2> QED
    BY <2>1, RequestFollows, EndFollows, StatementFollows
       DEF Next, vars, CustomerPays, CardDeclined, RefundAtStripe
<1> SUFFICES ASSUME NEW c \in Conns PROVE Knows(tx[c])' /\ ReadWithin(tx[c])'
  OBVIOUS
<1>4. /\ Knows(tx[c]) /\ ReadWithin(tx[c]) /\ WellFormed(tx[c])
      /\ tx[c].pc # "idle" => tx[c].intent \in Intents
  BY ConnTyped DEF CreditInv, WellFormed
<1>5. Knows(tx[c])'
  BY <1>1, <1>3, <1>4 DEF Follows, Knows, Idle, Grows, Made, Collected
<1>6. ReadWithin(tx[c])'
  <2>1. CASE tx'[c].pc # "totals"
    BY <1>3, <1>4, <2>1 DEF Follows, ReadWithin, Idle
  <2>2. CASE tx'[c].pc = "totals"
    <3>1. /\ tx[c].intent \in Intents /\ Made(tx[c].intent) /\ tx'[c].intent = tx[c].intent
          /\ tx'[c].paid \in Int /\ tx'[c].paid <= Credit(intent[tx[c].intent].invoice)
      BY <1>3, <1>4, <2>2 DEF Follows, ReadWithin, Idle, Knows, InvoiceOf
    <3>2. intent'[tx'[c].intent].invoice = intent[tx[c].intent].invoice
      BY <1>1, <3>1 DEF Grows
    <3> DEFINE i == intent[tx[c].intent].invoice
               n == tx'[c].paid
    <3>3. /\ n <= CreditIn(intent, i) /\ CreditIn(intent, i) <= CreditIn(intent', i)
          /\ CreditIn(intent, i) \in Nat /\ CreditIn(intent', i) \in Nat /\ n \in Int
      BY <1>2, <3>1 DEF Credit
    <3>4. n <= CreditIn(intent', i)
      <4> HIDE DEF i, n
      <4> QED
        BY <3>3
    <3> QED
      BY <3>1, <3>2, <3>4 DEF ReadWithin, Credit
  <2> QED
    BY <2>1, <2>2
<1> QED
  BY <1>5, <1>6

-----------------------------------------------------------------------------
\* The charges: one is cleared when its intent was collected.
ClearsCollected ==
  \A k \in Intents :
    "cleared" \in {pay'.row[Charge(k)], pay'.new[Charge(k)]} =>
      Collected(k) \/ "cleared" \in {pay.row[Charge(k)], pay.new[Charge(k)]}

LEMMA PayTyped ==
  ASSUME CreditInv
  PROVE  pay \in Tables(Rows, PaymentStatuses) /\ \A k \in Intents : Charge(k) \in Rows
BY Charges DEF CreditInv, AppliedInv, HandledInv, Shape

LEMMA ChargeWritten ==
  ASSUME CreditInv, NEW c \in Conns, NEW k \in Intents, NEW r \in PaymentStatuses,
         r = "cleared" => Collected(k), pay' = Written(pay, c, Charge(k), r)
  PROVE  ClearsCollected
<1>1. /\ pay'.row = pay.row /\ pay'.new[Charge(k)] = r
      /\ \A y \in Rows \ {Charge(k)} : pay'.new[y] = pay.new[y]
  BY PayTyped, WrittenType
<1> QED
  BY <1>1, PayTyped, Charges DEF ClearsCollected

\* The rows of refunds are no charges.
LEMMA RefundWritten ==
  ASSUME CreditInv, NEW c \in Conns, InsertRefund(c) \/ InsertWebhookRefund(c)
  PROVE  ClearsCollected
<1>1. tx[c].intent \in Intents
  BY ConnTyped DEF InsertRefund, InsertWebhookRefund, Serving, WellFormed
<1>2. CASE pay' = pay
  BY <1>2 DEF ClearsCollected
<1>3. CASE InsertRefund(c)
  <2> DEFINE x == <<tx[c].intent, "refund">>
  <2>1. x \in Rows /\ \A k \in Intents : Charge(k) # x
    BY <1>1 DEF Rows, Charge
  <2>2. pay' = Written(pay, c, x, "cleared") /\ "cleared" \in PaymentStatuses
    BY <1>3 DEF InsertRefund, PaymentStatuses
  <2> HIDE DEF x
  <2>3. pay'.row = pay.row /\ \A y \in Rows \ {x} : pay'.new[y] = pay.new[y]
    BY <2>1, <2>2, PayTyped, WrittenType
  <2> QED
    BY <2>1, <2>3, PayTyped DEF ClearsCollected
<1>4. CASE InsertWebhookRefund(c) /\ pay' # pay
  <2> DEFINE x == <<tx[c].intent, "webhook">>
  <2>1. x \in Rows /\ \A k \in Intents : Charge(k) # x
    BY <1>1 DEF Rows, Charge
  <2>2. pay' = [pay EXCEPT !.row[x] = "cleared", !.new[x] = "cleared"]
    BY <1>4 DEF InsertWebhookRefund
  <2> HIDE DEF x
  <2>3. \A y \in Rows \ {x} : pay'.row[y] = pay.row[y] /\ pay'.new[y] = pay.new[y]
    BY <2>2, PayTyped DEF Tables
  <2> QED
    BY <2>1, <2>3, PayTyped DEF ClearsCollected
<1> QED
  BY <1>2, <1>3, <1>4

LEMMA PayEnds ==
  ASSUME CreditInv, NEW c \in Conns, pay' = Committed(pay, c) \/ pay' = RolledBack(pay, c)
  PROVE  ClearsCollected
<1>1. CASE pay' = Committed(pay, c)
  BY <1>1, PayTyped, CommittedType DEF ClearsCollected
<1>2. CASE pay' = RolledBack(pay, c)
  BY <1>2, PayTyped, RolledBackType DEF ClearsCollected
<1> QED
  BY <1>1, <1>2

LEMMA PayStatement ==
  ASSUME CreditInv, NEW c \in Conns, Statement(c)
  PROVE  ClearsCollected
<1>1. CASE pay' = pay
  BY <1>1 DEF ClearsCollected
<1>2. CASE InsertCharge(c)
  <2>1. CASE Fail(c)
    BY <2>1, PayEnds DEF Fail, Rollback
  <2>2. CASE ~Fail(c)
    <3> DEFINE k == tx[c].intent
               r == IF Handling(c) THEN "cleared" ELSE tx[c].as
    <3>1. tx[c].pc = "insert" /\ RequestRow(tx[c]) /\ WellFormed(tx[c]) /\ Knows(tx[c])
      BY <1>2, ConnTyped DEF InsertCharge, Serving, CreditInv
    <3>2. k \in Intents /\ r \in PaymentStatuses
      BY <3>1 DEF WellFormed, RequestRow, PaymentStatuses
    <3>3. r = "cleared" => Collected(k)
      BY <3>1 DEF WellFormed, Knows, Handling, EventTypes
    <3>4. pay' = Written(pay, c, Charge(k), r)
      BY <1>2, <2>2 DEF InsertCharge
    <3> HIDE DEF k, r
    <3> QED
      BY <3>2, <3>3, <3>4, ChargeWritten
  <2> QED
    BY <2>1, <2>2
<1>3. CASE ClearCharge(c)
  <2>1. tx[c].intent \in Intents /\ Collected(tx[c].intent)
    BY <1>3, ConnTyped DEF ClearCharge, Serving, WellFormed, CreditInv, Knows
  <2> QED
    BY <1>3, <2>1, ChargeWritten DEF ClearCharge, PaymentStatuses
<1>4. CASE FailCharge(c)
  <2>1. tx[c].intent \in Intents
    BY <1>4, ConnTyped DEF FailCharge, Serving, WellFormed
  <2>2. pay' = pay \/ pay' = Written(pay, c, Charge(tx[c].intent), "failed")
    BY <1>4 DEF FailCharge
  <2> QED
    BY <1>1, <2>1, <2>2, ChargeWritten DEF PaymentStatuses
<1> QED
  BY <1>1, <1>2, <1>3, <1>4, RefundWritten, PayEnds
     DEF Statement, RecordEvent, markEventProcessed, FindCharge, ReadPayments, WriteTotals, Commit, tables

LEMMA BackedStep ==
  ASSUME CreditInv, [Next]_vars
  PROVE  Backed'
<1>1. Grows
  BY StripeStep
<1>2. ClearsCollected
  <2>1. CASE pay' = pay
    BY <2>1 DEF ClearsCollected
  <2>2. \A c \in Conns : Abort(c) \/ Crash(c) => ClearsCollected
    BY PayEnds DEF Abort, Crash, Fail, Rollback
  <2> QED
    BY <2>1, <2>2, PayStatement
       DEF Next, vars, tables, Request, createInvoicePaymentIntent, publicView, CreateIntent,
           refundPayment, Deliver, CustomerPays, CardDeclined, RefundAtStripe
<1> QED
  BY <1>1, <1>2 DEF CreditInv, Backed, ClearsCollected, Grows, Made, Collected

-----------------------------------------------------------------------------
\* The invoices: what was read is written, committed or rolled back.
PaidFollows ==
  /\ paid' \in Tables(Invoices, Int)
  /\ \A i \in Invoices : \A n \in {paid'.row[i], paid'.new[i]} :
       n \in {paid.row[i], paid.new[i]} \/ n <= Credit(i)

LEMMA PaidEnds ==
  ASSUME CreditInv, NEW c \in Conns, paid' = Committed(paid, c) \/ paid' = RolledBack(paid, c)
  PROVE  PaidFollows
<1>1. paid \in Tables(Invoices, Int)
  BY DEF CreditInv, PaidWithin
<1>2. CASE paid' = Committed(paid, c)
  BY <1>1, <1>2 DEF Committed, Released, Tables, PaidFollows
<1>3. CASE paid' = RolledBack(paid, c)
  BY <1>1, <1>3 DEF RolledBack, Released, Tables, PaidFollows
<1> QED
  BY <1>2, <1>3

LEMMA PaidWritten ==
  ASSUME CreditInv, NEW c \in Conns, WriteTotals(c)
  PROVE  PaidFollows
<1> DEFINE i == InvoiceOf(c)
           n == tx[c].paid
<1>1. paid \in Tables(Invoices, Int) /\ paid' = Written(paid, c, i, n)
  BY DEF CreditInv, PaidWithin, WriteTotals
<1>2. tx[c].intent \in Intents /\ Made(tx[c].intent) /\ tx[c].pc = "totals"
  BY ConnTyped DEF WriteTotals, Serving, WellFormed, CreditInv, Knows
<1>3. i \in Invoices /\ n \in Int /\ n <= Credit(i)
  BY <1>2 DEF CreditInv, IntentsTyped, ReadWithin, InvoiceOf
<1> HIDE DEF i, n
<1>4. /\ paid' \in Tables(Invoices, Int) /\ paid'.row = paid.row
      /\ \A j \in Invoices : paid'.new[j] = IF j = i THEN n ELSE paid.new[j]
  BY <1>1, <1>3 DEF Written, Tables
<1> QED
  BY <1>3, <1>4 DEF PaidFollows

LEMMA PaidStep ==
  ASSUME CreditInv, [Next]_vars
  PROVE  PaidWithin'
<1>1. Grows /\ IntentsTyped'
  BY StripeStep
<1>2. \A i : /\ CreditIn(intent, i) <= CreditIn(intent', i)
             /\ CreditIn(intent, i) \in Nat /\ CreditIn(intent', i) \in Nat
  BY <1>1, CreditKept
<1>3. PaidFollows
  <2>1. CASE paid' = paid
    BY <2>1 DEF PaidFollows, CreditInv, PaidWithin
  <2>2. \A c \in Conns : Abort(c) \/ Crash(c) \/ Fail(c) \/ Commit(c) => PaidFollows
    BY PaidEnds DEF Abort, Crash, Fail, Rollback, Commit
  <2>3. \A c \in Conns : Statement(c) => PaidFollows
    BY <2>1, <2>2, PaidWritten
       DEF Statement, RecordEvent, markEventProcessed, FindCharge, InsertCharge, ClearCharge,
           FailCharge, InsertRefund, InsertWebhookRefund, ReadPayments, tables
  <2> QED
    BY <2>1, <2>2, <2>3, ZenonT(30)
       DEF Next, vars, tables, Request, createInvoicePaymentIntent, publicView, CreateIntent,
           refundPayment, Deliver, CustomerPays, CardDeclined, RefundAtStripe
<1>4. ASSUME NEW i \in Invoices
      PROVE  paid'.row[i] <= CreditIn(intent', i) /\ paid'.new[i] <= CreditIn(intent', i)
  <2>1. paid.row[i] <= CreditIn(intent, i) /\ paid.new[i] <= CreditIn(intent, i)
    BY DEF CreditInv, PaidWithin, Credit
  <2>2. paid.row[i] \in Int /\ paid.new[i] \in Int /\ paid'.row[i] \in Int /\ paid'.new[i] \in Int
    BY <1>3 DEF CreditInv, PaidWithin, PaidFollows, Tables
  <2>3. paid'.row[i] <= CreditIn(intent, i) /\ paid'.new[i] <= CreditIn(intent, i)
    BY <1>3, <2>1 DEF PaidFollows, Credit
  <2> QED
    BY <1>2, <2>2, <2>3
<1> QED
  BY <1>3, <1>4 DEF PaidWithin, PaidFollows, Credit

-----------------------------------------------------------------------------
LEMMA CreditStep == CreditInv /\ [Next]_vars => CreditInv'
<1> SUFFICES ASSUME CreditInv, [Next]_vars PROVE CreditInv'
  OBVIOUS
<1>1. AppliedInv'
  BY NextStep DEF CreditInv
<1> QED
  BY <1>1, StripeStep, ConnsStep, BackedStep, PaidStep DEF CreditInv

LEMMA InitCredit == Init => CreditInv
<1> SUFFICES ASSUME Init PROVE CreditInv
  OBVIOUS
<1>1. IntentsTyped /\ Reported
  BY DEF Init, IntentsTyped, Reported, IntentRows, NotMade, Made
<1>2. Backed
  BY Charges DEF Init, Backed, Filled
<1>3. PaidWithin
  <2>1. \A i : Credit(i) \in Nat
    BY <1>1, CreditGrows DEF IntentsTyped, Credit
  <2>2. paid \in Tables(Invoices, Int) /\ \A i \in Invoices : paid.row[i] = 0 /\ paid.new[i] = 0
    BY DEF Init, Filled, Tables
  <2> QED
    BY <2>1, <2>2 DEF PaidWithin
<1>4. \A c \in Conns : Knows(tx[c]) /\ ReadWithin(tx[c])
  <2> SUFFICES ASSUME NEW c \in Conns PROVE Knows(tx[c]) /\ ReadWithin(tx[c])
    OBVIOUS
  <2>1. tx[c].pc = "idle" /\ tx[c].paid = 0
    BY DEF Init, Idle
  <2> QED
    BY <2>1 DEF Knows, ReadWithin
<1> QED
  BY <1>1, <1>2, <1>3, <1>4, InitInv DEF CreditInv

\* The states of the tables, of Stripe and of the requests have their types.
THEOREM TypeCorrect == Spec => []TypeOK
<1>1. CreditInv => TypeOK
  <2> SUFFICES ASSUME CreditInv PROVE TypeOK
    OBVIOUS
  <2>1. pay \in Tables(Rows, PaymentStatuses) /\ ev \in [Events -> EventStatuses]
    BY DEF CreditInv, AppliedInv, HandledInv, Shape
  <2>2. tx \in [Conns -> Requests]
    <3>1. \A c \in Conns : tx[c] \in Requests
      BY ConnTyped DEF RequestRow, Requests
    <3>2. tx = [c \in Conns |-> tx[c]]
      BY DEF CreditInv, AppliedInv, HandledInv, Shape
    <3> QED
      BY <3>1, <3>2
  <2> QED
    BY <2>1, <2>2 DEF CreditInv, IntentsTyped, PaidWithin, TypeOK
<1> QED
  BY <1>1, InitCredit, CreditStep, PTL DEF Spec

\* A cleared charge was collected by Stripe, and an invoice is credited at most with what
\* was collected of it, although sums are read before they are written and events come late
\* (onPaymentIntentSucceeded, recomputeTotals).
THEOREM CreditedWasCollectedHolds == Spec => []CreditedWasCollected
<1>1. CreditInv => CreditedWasCollected
  <2> SUFFICES ASSUME CreditInv PROVE CreditedWasCollected
    OBVIOUS
  <2> DEFINE collected == {k \in Intents : intent[k].status = "collected"}
             amount(k) == intent[k].amount
  <2>1. \A k \in Intents : pay.row[Charge(k)] = "cleared" => k \in collected
    BY DEF CreditInv, Backed, Collected
  <2>2. ASSUME NEW i \in Invoices
        PROVE  paid.row[i] <= MapThenSumSet(amount, {k \in collected : intent[k].invoice = i})
    <3>1. {k \in collected : intent[k].invoice = i} = CollectedIn(intent, i)
      BY DEF CollectedIn
    <3>2. paid.row[i] <= MapThenSumSet(amount, CollectedIn(intent, i))
      BY DEF CreditInv, PaidWithin, Credit, CreditIn
    <3> QED
      BY <3>1, <3>2
  <2> QED
    BY <2>1, <2>2 DEF CreditedWasCollected
<1> QED
  BY <1>1, InitCredit, CreditStep, PTL DEF Spec
=============================================================================
