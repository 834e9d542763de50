---------------------------- MODULE MCAuctionLot ----------------------------
(* Instances of AuctionLot for TLC.                                         *)
EXTENDS AuctionLot, TLC

CONSTANTS b1, b2, s1, cron

TheConns == {b1, b2, s1, cron}
TheBidders == {b1, b2}
=============================================================================
