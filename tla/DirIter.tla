------------------------------ MODULE DirIter ------------------------------
(***************************************************************************)
(* A directory stream over the directory of Dir: dir_open, dir_read and   *)
(* dir_close of src/fs/dir.c.  dir_read re-reads the blocks on every call  *)
(* and returns the dir_pos-th entry whose f_type is set, counting across    *)
(* the blocks in all_blocks order; it stops when dir_pos reaches i_size.    *)
(* Both dir_pos and i_size count records here (Dir counts i_size so).       *)
(*                                                                         *)
(* Another thread may change the directory (sync_dir_entry,                *)
(* delete_dir_entry) between two dir_read calls of an open stream.  Each   *)
(* call re-reads i_size and the blocks, so it sees the latest directory.   *)
(* The history variable disturbed records a change during the stream.     *)
(***************************************************************************)
EXTENDS Dir, SequencesExt

VARIABLES
    reading,   \* a struct dir of this directory is open
    dirPos,    \* dir->dir_pos, in records
    returned,  \* the entries the open stream has returned, in order
    atEnd,     \* the last dir_read returned NULL
    overrun,   \* dir_read walked block_idx past the 140 slots of all_blocks
    disturbed  \* the directory changed since the stream was opened

iterVars == <<reading, dirPos, returned, atEnd, overrun, disturbed>>
allVars  == <<vars, iterVars>>

\* The slots of every logical block, flattened in all_blocks order; a block
\* address of 0 is skipped by dir_read and contributes only FREE slots.
FlatSlots ==
    [k \in 1..(NBLK * EPS) |->
        LET blk == LoadAllBlocks[(k - 1) \div EPS]
        IN  IF blk = 0 THEN FREE ELSE sectors[blk][(k - 1) % EPS]]

\* Mutant: the f_type test dropped, free slots counted as entries.
LiveSeq_keepsFree == FlatSlots

\* The entries dir_read can return, in the order it counts them: every slot
\* whose f_type is set.
LiveSeq == SelectSeq(FlatSlots, LAMBDA e : e # FREE)

\* dir_open: a fresh struct dir with dir_pos 0.
DirOpen ==
    /\ ~reading
    /\ reading' = TRUE
    /\ dirPos' = 0
    /\ returned' = <<>>
    /\ atEnd' = FALSE
    /\ disturbed' = FALSE
    /\ UNCHANGED <<vars, overrun>>

\* Mutant: the loop bound dir_pos <= i_size.
DirRead_offByOne ==
    /\ reading /\ ~atEnd /\ ~overrun
    /\ IF dirPos > iSize
         THEN atEnd' = TRUE /\ UNCHANGED <<dirPos, returned, overrun>>
       ELSE IF dirPos < Len(LiveSeq)
         THEN /\ returned' = Append(returned, LiveSeq[dirPos + 1])
              /\ dirPos' = dirPos + 1
              /\ UNCHANGED <<atEnd, overrun>>
       ELSE overrun' = TRUE /\ UNCHANGED <<dirPos, returned, atEnd>>
    /\ UNCHANGED <<vars, reading, disturbed>>

\* dir_read: NULL once dir_pos reaches i_size; otherwise the entry at
\* position dir_pos, or, when fewer live slots exist than i_size counts,
\* a walk of block_idx past the end of all_blocks.
DirRead ==
    /\ reading /\ ~atEnd /\ ~overrun
    /\ IF dirPos >= iSize
         THEN atEnd' = TRUE /\ UNCHANGED <<dirPos, returned, overrun>>
       ELSE IF dirPos < Len(LiveSeq)
         THEN /\ returned' = Append(returned, LiveSeq[dirPos + 1])
              /\ dirPos' = dirPos + 1
              /\ UNCHANGED <<atEnd, overrun>>
       ELSE overrun' = TRUE /\ UNCHANGED <<dirPos, returned, atEnd>>
    /\ UNCHANGED <<vars, reading, disturbed>>

\* dir_close: the caller may stop at any point of the stream; sys_free
\* releases the struct dir and its position with it.
DirClose ==
    /\ reading
    /\ reading' = FALSE
    /\ dirPos' = 0
    /\ returned' = <<>>
    /\ atEnd' = FALSE
    /\ disturbed' = FALSE
    /\ UNCHANGED <<vars, overrun>>

\* A change of the directory, by this thread between streams or by another
\* thread between two dir_read calls of the open stream.
Mutate ==
    /\ Next
    /\ disturbed' = reading
    /\ UNCHANGED <<reading, dirPos, returned, atEnd, overrun>>

IterInit == Init /\ reading = FALSE /\ dirPos = 0 /\ returned = <<>>
            /\ atEnd = FALSE /\ overrun = FALSE /\ disturbed = FALSE

IterNext == Mutate \/ DirOpen \/ DirRead \/ DirClose

IterSpec == IterInit /\ [][IterNext]_allVars

\* States for TLC to tell apart: what a disturbed stream has returned is
\* read by no property, and disturbed is cleared only by dir_open and
\* dir_close, which also clear returned.
IterView ==
    <<vars, reading, dirPos, IF disturbed THEN <<>> ELSE returned, atEnd, overrun, disturbed>>

-----------------------------------------------------------------------------
(***************************************************************************)
(* Properties.                                                             *)
(***************************************************************************)

\* A stream read to its NULL with no change of the directory since it was
\* opened has returned ".", ".." and every live file, each exactly once:
\* dir_read's position counting over the re-read blocks neither skips nor
\* repeats an entry.  (Under a change, an erase behind the cursor makes the
\* next call skip one entry; the code promises nothing then.)
StreamListsDirOnce ==
    reading /\ atEnd /\ ~disturbed =>
                        /\ IsInjective(returned)
                        /\ ToSet(returned) = LiveEntries \cup {DOT, DOTDOT}

\* dir_read never walks block_idx past the 140 slots of all_blocks, however
\* appends and erases of other threads interleave with the stream's calls:
\* while dir_pos < i_size some live slot is left for it to find.
DirReadInBounds == ~overrun
=============================================================================
