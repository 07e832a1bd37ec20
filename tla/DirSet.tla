------------------------------- MODULE DirSet -------------------------------
(***************************************************************************)
(* What a directory promises its callers (spec sections 4.3 - 4.5): a set *)
(* of named entries.  Appending adds a name that is not there, erasing     *)
(* removes one that is; a call that fails leaves the set as it was.        *)
(***************************************************************************)
CONSTANT Files

VARIABLE entries

Init == entries = {}

Add(f) ==
    /\ f \notin entries
    /\ entries' = entries \cup {f}

Remove(f) ==
    /\ f \in entries
    /\ entries' = entries \ {f}

Next == \E f \in Files : Add(f) \/ Remove(f)

Spec == Init /\ [][Next]_entries
=============================================================================
