-------------------------- MODULE MCInvoiceLedger ---------------------------
(* Instances of InvoiceLedger for TLC.                                      *)
EXTENDS InvoiceLedger, TLC

Interchangeable ==
  Permutations(Invoices) \cup Permutations(Lines) \cup Permutations(Payments)
    \cup Permutations(Conns)
=============================================================================
