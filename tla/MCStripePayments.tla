-------------------------- MODULE MCStripePayments --------------------------
(* Instances of StripePayments for TLC.                                     *)
EXTENDS StripePayments

CONSTANTS c1, c2

TheConns == {c1, c2}
=============================================================================
