------------------------------- MODULE MCDir -------------------------------
(***************************************************************************)
(* Model-checking instance of Dir.  The constants are given in the .cfg   *)
(* files; file names are model values and interchangeable.                 *)
(***************************************************************************)
EXTENDS Dir, TLC

FilesSymmetry == Permutations(Files)
=============================================================================
