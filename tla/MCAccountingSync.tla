-------------------------- MODULE MCAccountingSync --------------------------
(* Instances of AccountingSync for TLC.                                     *)
EXTENDS AccountingSync, TLC

CONSTANTS i1, p1

OnePayment == p1 :> i1
NoPayments == <<>>

Interchangeable == Permutations(Rows) \cup Permutations(Workers)

\* Every transaction commits.
DrainNext ==
  \/ \E i \in Invoices : Issue(i) \/ CommitWrite(i)
  \/ Calls \/ Reconnect
  \/ \E w \in Workers : Work(w) \/ Failure(w)

DrainSpec ==
  /\ Init /\ [][DrainNext]_vars
  /\ \A w \in Workers : WF_vars(Work(w))
=============================================================================
