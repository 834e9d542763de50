--------------------------- MODULE StripePayments ---------------------------
(***************************************************************************)
(* Card payments: apps/api/src/modules/payments/payments.service.ts.       *)
(*                                                                         *)
(* Requests create intents at Stripe and refund them; Stripe collects,     *)
(* refunds and reports each by an event, which it delivers to the webhook  *)
(* until it is answered, in any order, any number of times, to any API     *)
(* instance.  A step is one statement or one call of the provider.         *)
(* Refunds are in full.  Cards on file, disputes, the self-serve portal,   *)
(* onboarding and the hand-over to the accounting sync are left out.       *)
(***************************************************************************)
EXTENDS RowLocks, Integers, FiniteSetsExt

CONSTANTS
  Invoices,
  Intents,    \* ids Stripe gives to payment intents
  Total,      \* total_cents of every invoice
  NoInvoice, NoIntent

ASSUME StripeConstants ==
  /\ NoInvoice \notin Invoices /\ NoIntent \notin Intents /\ Total \in Nat \ {0}
  /\ IsFiniteSet(Intents)

VARIABLES
  \* at Stripe
  intent,     \* payment intents
  refunded,   \* those refunded
  sent,       \* events reported
  \* the tables
  pay,        \* payments: their status
  paid,       \* invoices: paid_cents
  ev,         \* stripe_events: "new" for no row
  tx          \* per connection: the request or event and how far it is

stripe == <<intent, refunded, sent>>
tables == <<pay, paid, ev>>
vars == <<stripe, tables, tx>>

-----------------------------------------------------------------------------
\* An intent whose client secret nobody was given yet is "made".
IntentRows == [status : {"none", "made", "open", "collected"},
               invoice : Invoices \cup {NoInvoice}, amount : Nat]
NotMade == [status |-> "none", invoice |-> NoInvoice, amount |-> 0]

EventTypes == {"succeeded", "payment_failed", "refunded"}
Events == EventTypes \X Intents
Succeeded(k) == <<"succeeded", k>>
EventStatuses == {"new", "recorded", "processed", "failed"}

\* The rows of an intent: the charge (unique by stripe_payment_intent_id), the refund a
\* request writes and the one the webhook writes (unique by stripe_refund_id).
Charge(k) == <<k, "charge">>
Rows == Intents \X {"charge", "refund", "webhook"}
\* 'refunded' is for payments voided by hand: InvoiceLedger.
PaymentStatuses == {"none", "pending", "cleared", "failed"}

Steps == {"idle", "record", "find", "insert", "update", "refund", "failed", "webhook",
          "payments", "totals", "commit", "mark", "error"}

Requests == [op : {"none", "charge", "refund"} \cup EventTypes, pc : Steps,
             intent : Intents \cup {NoIntent}, as : PaymentStatuses, paid : Int]
Idle == [op |-> "none", pc |-> "idle", intent |-> NoIntent, as |-> "none", paid |-> 0]

TypeOK ==
  /\ intent \in [Intents -> IntentRows] /\ refunded \subseteq Intents /\ sent \subseteq Events
  /\ pay \in Tables(Rows, PaymentStatuses) /\ paid \in Tables(Invoices, Int)
  /\ ev \in [Events -> EventStatuses] /\ tx \in [Conns -> Requests]

Init ==
  /\ intent = [k \in Intents |-> NotMade] /\ refunded = {} /\ sent = {}
  /\ pay = Filled(Rows, "none") /\ paid = Filled(Invoices, 0)
  /\ ev = [e \in Events |-> "new"] /\ tx = [c \in Conns |-> Idle]

-----------------------------------------------------------------------------
Serving(c, pc) == tx[c].pc = pc
Goto(c, pc) == tx' = [tx EXCEPT ![c].pc = pc]

Handling(c) == tx[c].op \in EventTypes
EventOf(c) == <<tx[c].op, tx[c].intent>>
InvoiceOf(c) == intent[tx[c].intent].invoice

\* A request is answered when it commits, and with it the client secret of its intent.
Commit(c) ==
  LET k == tx[c].intent IN
  /\ Serving(c, "commit")
  /\ pay' = Committed(pay, c) /\ paid' = Committed(paid, c)
  /\ intent' = IF tx[c].op = "charge" /\ intent[k].status = "made"
               THEN [intent EXCEPT ![k].status = "open"] ELSE intent
  /\ tx' = [tx EXCEPT ![c] = IF Handling(c) THEN [@ EXCEPT !.pc = "mark"] ELSE Idle]
  /\ UNCHANGED <<refunded, sent, ev>>

Rollback(c) ==
  /\ pay' = RolledBack(pay, c) /\ paid' = RolledBack(paid, c)
  /\ UNCHANGED <<stripe, ev>>

\* A statement or the COMMIT fails, or the mark, which is made inside the try: a handler has
\* its event marked as failed and answers 5xx.
Fail(c) ==
  /\ Rollback(c)
  /\ tx' = [tx EXCEPT ![c] = IF Handling(c) THEN [@ EXCEPT !.pc = "error"] ELSE Idle]

Abort(c) == tx[c].pc \notin {"idle", "record", "error"} /\ Fail(c)

\* The process stops, or what it has to note of an event fails as well.
Crash(c) == ~Serving(c, "idle") /\ tx' = [tx EXCEPT ![c] = Idle] /\ Rollback(c)

-----------------------------------------------------------------------------
\* Requests.  The provider is called inside the transaction, before the rows are written.
Balance(i) == Total - paid.row[i]

CreateIntent(c, i, k, status) ==
  /\ Serving(c, "idle") /\ intent[k] = NotMade /\ Balance(i) > 0
  /\ intent' = [intent EXCEPT ![k] = [status |-> status, invoice |-> i, amount |-> Balance(i)]]
  /\ sent' = IF status = "collected" THEN sent \cup {Succeeded(k)} ELSE sent
  /\ tx' = [tx EXCEPT ![c] = [Idle EXCEPT !.op = "charge", !.pc = "find", !.intent = k,
              !.as = IF status = "collected" THEN "cleared" ELSE "pending"]]
  /\ UNCHANGED <<refunded, tables>>

\* Mutant: the anchor row is written as cleared.
createAsCleared(c, i, k) ==
  /\ Serving(c, "idle") /\ intent[k] = NotMade /\ Balance(i) > 0
  /\ intent' = [intent EXCEPT ![k] = [status |-> "made", invoice |-> i, amount |-> Balance(i)]]
  /\ tx' = [tx EXCEPT ![c] = [Idle EXCEPT !.op = "charge", !.pc = "find", !.intent = k,
              !.as = "cleared"]]
  /\ UNCHANGED <<refunded, sent, tables>>

\* A card on file is charged at once; otherwise the customer pays with the secret.
createInvoicePaymentIntent(c, i, k) ==
  \E status \in {"made", "collected"} : CreateIntent(c, i, k, status)

\* Every view of the public page creates an intent.
publicView(c, i, k) == CreateIntent(c, i, k, "made")

refundPayment(c, k) ==
  /\ Serving(c, "idle") /\ pay.row[Charge(k)] # "none"
  /\ intent[k].status = "collected" /\ k \notin refunded
  /\ refunded' = refunded \cup {k} /\ sent' = sent \cup {<<"refunded", k>>}
  /\ tx' = [tx EXCEPT ![c] = [Idle EXCEPT !.op = "refund", !.pc = "refund", !.intent = k]]
  /\ UNCHANGED <<intent, tables>>

-----------------------------------------------------------------------------
\* The webhook.
Deliver(c, e) ==
  /\ Serving(c, "idle") /\ e \in sent
  /\ tx' = [tx EXCEPT ![c] = [Idle EXCEPT !.op = e[1], !.pc = "record", !.intent = e[2]]]
  /\ UNCHANGED <<stripe, tables>>

FirstStep ==
  [succeeded |-> "find", payment_failed |-> "failed", refunded |-> "webhook"]

\* INSERT ... ON CONFLICT DO NOTHING, in a transaction of its own.
\* Mutant: the answer of the INSERT is not looked at.
RecordAlways(c) ==
  /\ Serving(c, "record")
  /\ ev' = [ev EXCEPT ![EventOf(c)] = "recorded"] /\ Goto(c, FirstStep[tx[c].op])
  /\ UNCHANGED <<stripe, pay, paid>>

RecordEvent(c) ==
  LET e == EventOf(c) IN
  /\ Serving(c, "record")
  /\ \/ /\ ev[e] = "new"
        /\ ev' = [ev EXCEPT ![e] = "recorded"] /\ Goto(c, FirstStep[tx[c].op])
     \/ /\ ev[e] # "new"
        /\ tx' = [tx EXCEPT ![c] = Idle] /\ UNCHANGED ev
  /\ UNCHANGED <<stripe, pay, paid>>

markEventProcessed(c) ==
  /\ tx[c].pc \in {"mark", "error"}
  /\ ev' = [ev EXCEPT ![EventOf(c)] = IF Serving(c, "mark") THEN "processed" ELSE "failed"]
  /\ tx' = [tx EXCEPT ![c] = Idle] /\ UNCHANGED <<stripe, pay, paid>>

-----------------------------------------------------------------------------
\* Statements.  SELECT by intent, then INSERT or UPDATE by id.
FindCharge(c) ==
  /\ Serving(c, "find")
  /\ \/ pay.row[Charge(tx[c].intent)] = "none" /\ Goto(c, "insert")
     \/ /\ pay.row[Charge(tx[c].intent)] # "none"
        /\ Goto(c, IF Handling(c) THEN "update" ELSE "commit")
  /\ UNCHANGED <<stripe, tables>>

\* Mutant: the webhook only updates.
InsertAnchor(c) ==
  LET k == tx[c].intent IN
  /\ Serving(c, "insert") /\ Free(pay, c, Charge(k))
  /\ pay' = IF Handling(c) THEN pay ELSE Written(pay, c, Charge(k), tx[c].as)
  /\ Goto(c, "payments") /\ UNCHANGED <<stripe, paid, ev>>

\* The unique index: waits for a row another transaction is inserting, fails on one there.
InsertCharge(c) ==
  LET k == tx[c].intent
      status == IF Handling(c) THEN "cleared" ELSE tx[c].as
  IN
  /\ Serving(c, "insert") /\ Free(pay, c, Charge(k))
  /\ \/ /\ pay.row[Charge(k)] = "none"
        /\ pay' = Written(pay, c, Charge(k), status)
        /\ Goto(c, IF status = "cleared" THEN "payments" ELSE "commit")
        /\ UNCHANGED <<stripe, paid, ev>>
     \/ pay.row[Charge(k)] # "none" /\ Fail(c)

\* Mutant: a row that is there already is left as it is.
KeepCharge(c) ==
  /\ Serving(c, "update") /\ Goto(c, "payments") /\ UNCHANGED <<stripe, tables>>

ClearCharge(c) ==
  /\ Serving(c, "update") /\ Free(pay, c, Charge(tx[c].intent))
  /\ pay' = Written(pay, c, Charge(tx[c].intent), "cleared")
  /\ Goto(c, "payments") /\ UNCHANGED <<stripe, paid, ev>>

\* UPDATE WHERE the intent's: perhaps no row.
\* Mutant: a status payments do not have.
DeclineCharge(c) ==
  /\ Serving(c, "failed")
  /\ pay' = Written(pay, c, Charge(tx[c].intent), "declined")
  /\ Goto(c, "commit") /\ UNCHANGED <<stripe, paid, ev>>

FailCharge(c) ==
  LET row == Charge(tx[c].intent) IN
  /\ Serving(c, "failed")
  /\ \/ pay.row[row] = "none" /\ UNCHANGED pay
     \/ /\ pay.row[row] # "none" /\ Free(pay, c, row)
        /\ pay' = Written(pay, c, row, "failed")
  /\ Goto(c, "commit") /\ UNCHANGED <<stripe, paid, ev>>

InsertRefund(c) ==
  /\ Serving(c, "refund")
  /\ pay' = Written(pay, c, <<tx[c].intent, "refund">>, "cleared")
  /\ Goto(c, "payments") /\ UNCHANGED <<stripe, paid, ev>>

\* charge.refunded: the row in a transaction of its own, then the recompute.
InsertWebhookRefund(c) ==
  LET k == tx[c].intent IN
  /\ Serving(c, "webhook")
  /\ \/ /\ pay.row[Charge(k)] = "none"
        /\ Goto(c, "mark") /\ UNCHANGED pay
     \/ /\ pay.row[Charge(k)] # "none"
        /\ pay' = [pay EXCEPT !.row[<<k, "webhook">>] = "cleared",
                              !.new[<<k, "webhook">>] = "cleared"]
        /\ Goto(c, "payments")
  /\ UNCHANGED <<stripe, paid, ev>>

\* invoices.service.ts recomputeTotals: the sum of the cleared rows, then one UPDATE.
Amount(row) == IF row[2] = "charge" THEN intent[row[1]].amount ELSE -intent[row[1]].amount

ReadPayments(c) ==
  LET cleared == {r \in Rows : Seen(pay, c, r) = "cleared"
                               /\ intent[r[1]].invoice = InvoiceOf(c)}
  IN
  /\ Serving(c, "payments")
  /\ tx' = [tx EXCEPT ![c].paid = MapThenSumSet(Amount, cleared), ![c].pc = "totals"]
  /\ UNCHANGED <<stripe, tables>>

WriteTotals(c) ==
  /\ Serving(c, "totals") /\ Free(paid, c, InvoiceOf(c))
  /\ paid' = Written(paid, c, InvoiceOf(c), tx[c].paid)
  /\ Goto(c, "commit") /\ UNCHANGED <<stripe, pay, ev>>

-----------------------------------------------------------------------------
\* Stripe and the customer.
CustomerPays(k) ==
  /\ intent[k].status = "open"
  /\ intent' = [intent EXCEPT ![k].status = "collected"]
  /\ sent' = sent \cup {Succeeded(k)} /\ UNCHANGED <<refunded, tables, tx>>

CardDeclined(k) ==
  /\ intent[k].status = "open" /\ <<"payment_failed", k>> \notin sent
  /\ sent' = sent \cup {<<"payment_failed", k>>} /\ UNCHANGED <<intent, refunded, tables, tx>>

\* From Stripe's dashboard.
RefundAtStripe(k) ==
  /\ intent[k].status = "collected" /\ k \notin refunded
  /\ refunded' = refunded \cup {k} /\ sent' = sent \cup {<<"refunded", k>>}
  /\ UNCHANGED <<intent, tables, tx>>

-----------------------------------------------------------------------------
Request(c) ==
  \E k \in Intents :
    \/ \E i \in Invoices : createInvoicePaymentIntent(c, i, k) \/ publicView(c, i, k)
    \/ refundPayment(c, k)

Statement(c) ==
  \/ RecordEvent(c) \/ markEventProcessed(c) \/ FindCharge(c) \/ InsertCharge(c)
  \/ ClearCharge(c) \/ FailCharge(c) \/ InsertRefund(c) \/ InsertWebhookRefund(c)
  \/ ReadPayments(c) \/ WriteTotals(c) \/ Commit(c)

Next ==
  \/ \E c \in Conns : Request(c) \/ Statement(c) \/ Abort(c) \/ Crash(c)
  \/ \E c \in Conns, e \in Events : Deliver(c, e)
  \/ \E k \in Intents : CustomerPays(k) \/ CardDeclined(k) \/ RefundAtStripe(k)

Spec == Init /\ [][Next]_vars

\* Requests end; Stripe delivers an event until it is recorded, although calls fail.
Record(e) == \E c \in Conns : EventOf(c) = e /\ RecordEvent(c)
Fairness ==
  /\ \A c \in Conns : WF_vars(Statement(c))
  /\ \A e \in Events : SF_vars(\E c \in Conns : Deliver(c, e)) /\ SF_vars(Record(e))

FairSpec == Spec /\ Fairness

-----------------------------------------------------------------------------
(***************************************************************************)
(* Properties.                                                             *)
(***************************************************************************)
\* An event is handled by one connection at most, and by none once it was marked, however
\* often and to however many instances it is delivered.
Handles(c, e) == EventOf(c) = e /\ tx[c].pc \notin {"idle", "record"}
HandledOnce ==
  \A e \in Events, c, d \in Conns :
    Handles(c, e) => ev[e] = "recorded" /\ (Handles(d, e) => c = d)

\* Nobody is credited with what was not collected: a cleared charge was collected by
\* Stripe, and paid_cents, stale sums included, is at most what was.
CreditedWasCollected ==
  LET amount(k) == intent[k].amount
      collected == {k \in Intents : intent[k].status = "collected"}
  IN
  /\ \A k \in Intents : pay.row[Charge(k)] = "cleared" => k \in collected
  /\ \A i \in Invoices :
       paid.row[i] <= MapThenSumSet(amount, {k \in collected : intent[k].invoice = i})

\* An event marked processed is in the ledger, whether its intent's row had been written
\* before, was written by the event or was rolled back in between.
ProcessedIsApplied ==
  \A k \in Intents :
    ev[Succeeded(k)] = "processed" /\ ev[<<"payment_failed", k>>] = "new" =>
      pay.row[Charge(k)] = "cleared"

\* A charge is never forgotten: unless the card had been declined first (the news of which
\* may come late and undo it), it gets into the ledger although the request that made it
\* was rolled back, or stripe_events has its event without a clean end.
Unprocessed(e) ==
  \/ ev[e] = "failed"
  \/ ev[e] = "recorded" /\ \A c \in Conns : EventOf(c) = e => tx[c].pc = "record"
NoChargeForgotten ==
  \A k \in Intents :
    intent[k].status = "collected" /\ <<"payment_failed", k>> \notin sent ~>
      pay.row[Charge(k)] = "cleared" \/ Unprocessed(Succeeded(k))
=============================================================================
