-------------------------- MODULE MCOfflineReplay ---------------------------
(* An instance of OfflineReplay for TLC.                                    *)
EXTENDS OfflineReplay
=============================================================================
