----------------------------- MODULE MCDirIter -----------------------------
(***************************************************************************)
(* Model-checking instance of DirIter; the constants are in the .cfg files. *)
(***************************************************************************)
EXTENDS DirIter, TLC
=============================================================================
