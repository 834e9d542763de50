-------------------------- MODULE MCImpoundStorage --------------------------
(* Instances of ImpoundStorage for TLC.                                     *)
EXTENDS ImpoundStorage

CONSTANTS k1, cron1, cron2

TheConns == {k1, cron1, cron2}
TheSweepers == {cron1, cron2}
=============================================================================
