----------------------------- MODULE MCDirCrash -----------------------------
(***************************************************************************)
(* Model-checking instance of DirCrash; the constants are in the .cfg files.*)
(***************************************************************************)
EXTENDS DirCrash, TLC
=============================================================================
