---------------------------- MODULE MCSnapshot ----------------------------
(* Snapshot for TLC; the constants get their values in the cfg files.      *)
EXTENDS Snapshot
=============================================================================
