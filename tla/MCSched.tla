------------------------------- MODULE MCSched -------------------------------
(***************************************************************************)
(* Model-checking instance of Sched; the constants are in the .cfg files.  *)
(***************************************************************************)
EXTENDS Sched, TLC
=============================================================================
