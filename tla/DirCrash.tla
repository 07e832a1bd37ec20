------------------------------ MODULE DirCrash ------------------------------
(***************************************************************************)
(* Power loss and remount around the directory calls of Dir.              *)
(*                                                                         *)
(* ide_write and bitmap_sync reach the disk at once, so Dir's sectors,     *)
(* tables and diskBitmap are the disk.  The inode is the one thing written *)
(* late: delete_dir_entry writes it last (inode_sync, dir.c:309), and      *)
(* sync_dir_entry leaves it to its caller.  The disk copy of i_sectors and *)
(* i_size is dISectors and dISize.  A crash may strike between calls,      *)
(* before the caller's inode_sync, or inside delete_dir_entry after its    *)
(* sector and bitmap writes and before its inode_sync.  With direct blocks *)
(* only, those are all the disk images a crash can leave.  A remount reads *)
(* the block bitmap and the inode back from the disk.                      *)
(***************************************************************************)
EXTENDS Dir

CONSTANT MAXCRASH   \* crashes in one behaviour

ASSUME MAXCRASH \in Nat

VARIABLES
    dISectors,  \* i_sectors as last written by inode_sync
    dISize,     \* i_size as last written by inode_sync
    down,       \* the machine is off; only a remount can follow
    crashes,    \* crashes so far
    synced      \* entries whose append reached the disk inode, not since erased

crashVars == <<dISectors, dISize, down, crashes, synced>>
allVars   == <<vars, crashVars>>

\* sync_dir_entry: the entry and any new block are on disk, the inode only
\* in memory until the caller syncs it.
Append(f) ==
    /\ ~down
    /\ SyncDirEntry(f)
    /\ UNCHANGED crashVars

\* The caller's inode_sync after sync_dir_entry (sys_open, sys_mkdir).
CallerInodeSync ==
    /\ ~down
    /\ <<dISectors, dISize>> # <<iSectors, iSize>>
    /\ dISectors' = iSectors
    /\ dISize' = iSize
    /\ synced' = LiveEntries
    /\ UNCHANGED <<vars, down, crashes>>

\* Mutant: delete_dir_entry returns without inode_sync.
DeleteSynced_noSync(f) ==
    /\ DeleteDirEntry(f)
    /\ UNCHANGED <<dISectors, dISize>>

\* Mutant: inode_sync moved before the reclaim, writing the old inode.
DeleteSynced_syncFirst(f) ==
    /\ DeleteDirEntry(f)
    /\ IF hung' THEN UNCHANGED <<dISectors, dISize>>
       ELSE dISectors' = iSectors /\ dISize' = iSize

\* delete_dir_entry ending with inode_sync, unless it spins in the table
\* count and never gets there.
DeleteSynced(f) ==
    /\ DeleteDirEntry(f)
    /\ IF hung' THEN UNCHANGED <<dISectors, dISize>>
       ELSE dISectors' = iSectors' /\ dISize' = iSize'

Erase(f) ==
    /\ ~down
    /\ DeleteSynced(f)
    /\ synced' = synced \ {f}
    /\ UNCHANGED <<down, crashes>>

\* Power lost inside delete_dir_entry after its sector or bitmap writes,
\* before inode_sync.
EraseInterrupted(f) ==
    /\ ~down /\ crashes < MAXCRASH
    /\ DeleteDirEntry(f)
    /\ down' = TRUE
    /\ crashes' = crashes + 1
    /\ synced' = synced \ {f}
    /\ UNCHANGED <<dISectors, dISize>>

\* Power lost between calls.
Crash ==
    /\ ~down /\ crashes < MAXCRASH
    /\ down' = TRUE
    /\ crashes' = crashes + 1
    /\ UNCHANGED <<vars, dISectors, dISize, synced>>

\* Remount: the bitmap and the inode are read back from the disk; a call
\* spinning at the time of the crash is gone.
Restart ==
    /\ down
    /\ blockBitmap' = diskBitmap
    /\ iSectors' = dISectors
    /\ iSize' = dISize
    /\ hung' = FALSE
    /\ down' = FALSE
    /\ UNCHANGED <<diskBitmap, sectors, tables, dISectors, dISize, crashes, synced>>

CrashInit ==
    /\ Init
    /\ dISectors = iSectors /\ dISize = iSize
    /\ down = FALSE /\ crashes = 0 /\ synced = {}

\* Power fails only between calls.
CrashNext ==
    \/ \E f \in Files : Append(f) \/ Erase(f)
    \/ CallerInodeSync \/ Crash \/ Restart

CrashSpec == CrashInit /\ [][CrashNext]_allVars

\* Power may also fail inside delete_dir_entry.
CrashNextInDelete == CrashNext \/ \E f \in Files : EraseInterrupted(f)

CrashSpecInDelete == CrashInit /\ [][CrashNextInDelete]_allVars

-----------------------------------------------------------------------------
(***************************************************************************)
(* Properties.                                                             *)
(***************************************************************************)

\* Every block the directory reaches is marked used in the bitmap, across
\* crashes and remounts (spec section 7: a bit is cleared only once no
\* pointer reaches its block).  Otherwise the next allocation hands a block
\* of this directory to someone else.
NoDanglingBlock ==
    ~down => \A l \in ReachableBlocks : blockBitmap[l - DATA_START] = 1

\* An entry whose append reached the disk inode, and that no erase has
\* touched since, is found again after any crashes and remounts.
Durable == ~down => synced \subseteq LiveEntries
=============================================================================
