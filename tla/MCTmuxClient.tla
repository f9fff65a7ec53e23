---------------------------- MODULE MCTmuxClient ----------------------------
(* TmuxClient on a small instance: see the .cfg files for the values.      *)
EXTENDS TmuxClient
=============================================================================
