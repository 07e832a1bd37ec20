-------------------------------- MODULE Dir --------------------------------
(***************************************************************************)
(* The directory-entry layer of src/fs/dir.c on one directory inode:      *)
(* sync_dir_entry (append), delete_dir_entry (erase) and                   *)
(* search_dir_entry (lookup), over the partition's block bitmap.           *)
(*                                                                         *)
(* Each call runs to completion as one step: the core takes no lock and    *)
(* never yields, and its callers serialise the mutating calls on a         *)
(* directory (spec section 5).                                             *)
(*                                                                         *)
(* Data is abstracted to what the properties tell apart: an entry slot     *)
(* holds FREE (f_type = FT_UNKNOWN, all bytes zero), DOT, DOTDOT or a file *)
(* of Files, which stands for both its name and its inode number.  A       *)
(* sector is seen either as EPS entry slots (sectors) or as an indirect    *)
(* table of NINDIRECT block numbers (tables); every read of one view of a  *)
(* block is preceded by a whole-sector write of that view.  i_size is      *)
(* counted in entry records (the code adds and subtracts dir_entry_size).  *)
(* The bitmap is smaller than one sector, so bitmap_sync writes all of it. *)
(***************************************************************************)
EXTENDS Integers, FiniteSetsExt

CONSTANTS
    NDIRECT,     \* direct slots of i_sectors (12); i_sectors[NDIRECT] is the table
    NINDIRECT,   \* block numbers in one indirect table (512 / 4 = 128)
    EPS,         \* entry slots per sector (SECTOR_SIZE / dir_entry_size)
    BYTES,       \* bytes of the block bitmap
    DATA_START,  \* sb->data_start_lba: lba of the block of bit 0
    PREUSED,     \* bits taken by other inodes when the directory is created
    Files,       \* names (and inode numbers) of the entries callers add
    FREE, DOT, DOTDOT

ASSUME /\ NDIRECT \in Nat \ {0} /\ NINDIRECT \in Nat \ {0}
       /\ EPS \in Nat \ {0} /\ BYTES \in Nat \ {0}
       /\ DATA_START \in Nat \ {0}
       /\ PREUSED \subseteq 0..(8 * BYTES - 2)

B == INSTANCE Bitmap WITH NDEBUG <- TRUE

VARIABLES
    blockBitmap,  \* cur_part->block_bitmap, in memory
    diskBitmap,   \* the block bitmap as last written by bitmap_sync
    sectors,      \* every data block seen as a sector of directory entries
    tables,       \* every data block seen as an indirect table
    iSectors,     \* dir_inode->i_sectors[0 .. NDIRECT]
    iSize,        \* dir_inode->i_size, in entry records
    hung          \* a delete_dir_entry call spins forever in its table count

vars == <<blockBitmap, diskBitmap, sectors, tables, iSectors, iSize, hung>>

NBLK  == NDIRECT + NINDIRECT             \* the 140 logical blocks
Bits  == 0..(8 * BYTES - 1)
LBAs  == DATA_START..(DATA_START + 8 * BYTES - 1)
Slots == 0..(EPS - 1)
Entry == Files \cup {FREE, DOT, DOTDOT}

\* Mutant: the lba returned without adding data_start_lba.
BlockLba_noOffset(bit) == bit

\* block_bitmap_alloc returns data_start_lba + bit; dir.c subtracts it back.
BlockLba(bit) == DATA_START + bit

\* The first block of the directory, written when it was created.
DIRBLOCK == Min(Bits \ PREUSED)

\* block_bitmap_alloc: one clear bit of bm, or -1.
BlockBitmapAlloc(bm) == B!BitmapScan(bm, BYTES, 1, 0)

\* The all_blocks array of search_dir_entry and delete_dir_entry: the direct
\* slots, then the indirect table when i_sectors[NDIRECT] is set.
LoadAllBlocks ==
    [i \in 0..(NBLK - 1) |->
        IF i < NDIRECT THEN iSectors[i]
        ELSE IF iSectors[NDIRECT] # 0 THEN tables[iSectors[NDIRECT]][i - NDIRECT]
        ELSE 0]

\* The all_blocks array of sync_dir_entry: only the direct slots are copied
\* (the "这里应该有BUG" comment); entries NDIRECT .. NBLK-1 stay 0.
SyncBlocks == [i \in 0..(NBLK - 1) |-> IF i < NDIRECT THEN iSectors[i] ELSE 0]

\* search_dir_entry(part, pdir, name, dir_e): some live slot holds name.
SearchDirEntry(f) ==
    LET all == LoadAllBlocks
    IN  \E i \in 0..(NBLK - 1) : all[i] # 0 /\ \E s \in Slots : sectors[all[i]][s] = f

\* Slots of a sector whose f_type is FT_UNKNOWN.
FreeSlots(lba) == {s \in Slots : sectors[lba][s] = FREE}

\* A fresh block holding the entry in slot 0 (memset, memcpy, ide_write).
NewSector(f) == [s \in Slots |-> IF s = 0 THEN f ELSE FREE]

\* The while (block_idx < 140) loop of sync_dir_entry: the first index with
\* no block, or whose block has a free slot; -1 when the directory is full.
SyncTarget(all) ==
    LET cand == {i \in 0..(NBLK - 1) : all[i] = 0 \/ FreeSlots(all[i]) # {}}
    IN  IF cand = {} THEN -1 ELSE Min(cand)

\* Mutant: the slot is filled but i_size is not increased.
ReuseSlot_noSize(lba, f) ==
    /\ sectors' = [sectors EXCEPT ![lba][Min(FreeSlots(lba))] = f]
    /\ UNCHANGED <<blockBitmap, diskBitmap, tables, iSectors, iSize, hung>>

\* An existing block has a free slot: overwrite it, write the sector back,
\* grow i_size.
ReuseSlot(lba, f) ==
    /\ sectors' = [sectors EXCEPT ![lba][Min(FreeSlots(lba))] = f]
    /\ iSize' = iSize + 1
    /\ UNCHANGED <<blockBitmap, diskBitmap, tables, iSectors, hung>>

\* Logical block idx has no address: allocate a block (and persist the bit),
\* attach it directly, as a new indirect table plus its first block, or in
\* the existing table, then write the entry into it.  When the second
\* allocation for a new table fails, the table's bit is cleared in memory
\* only (bitmap_set without bitmap_sync) and i_sectors[NDIRECT] is zeroed.
AttachNewBlock(idx, all, f) ==
    LET b1  == BlockBitmapAlloc(blockBitmap)
        bm1 == B!BitmapSet(blockBitmap, b1, 1)
        b2  == BlockBitmapAlloc(bm1)
        bm2 == B!BitmapSet(bm1, b2, 1)
        table(j0, lba) == [j \in 0..(NINDIRECT - 1) |->
                              IF j = j0 THEN lba ELSE all[NDIRECT + j]]
    IN
    IF b1 = -1 THEN UNCHANGED vars
    ELSE IF idx < NDIRECT THEN
        /\ blockBitmap' = bm1
        /\ diskBitmap' = bm1
        /\ iSectors' = [iSectors EXCEPT ![idx] = BlockLba(b1)]
        /\ sectors' = [sectors EXCEPT ![BlockLba(b1)] = NewSector(f)]
        /\ iSize' = iSize + 1
        /\ UNCHANGED <<tables, hung>>
    ELSE IF idx = NDIRECT /\ b2 = -1 THEN
        /\ blockBitmap' = B!BitmapSet(bm1, b1, 0)
        /\ diskBitmap' = bm1
        /\ iSectors' = [iSectors EXCEPT ![NDIRECT] = 0]
        /\ UNCHANGED <<sectors, tables, iSize, hung>>
    ELSE IF idx = NDIRECT THEN
        /\ blockBitmap' = bm2
        /\ diskBitmap' = bm2
        /\ iSectors' = [iSectors EXCEPT ![NDIRECT] = BlockLba(b1)]
        /\ tables' = [tables EXCEPT ![BlockLba(b1)] = table(0, BlockLba(b2))]
        /\ sectors' = [sectors EXCEPT ![BlockLba(b2)] = NewSector(f)]
        /\ iSize' = iSize + 1
        /\ UNCHANGED hung
    ELSE
        /\ blockBitmap' = bm1
        /\ diskBitmap' = bm1
        /\ tables' = [tables EXCEPT ![iSectors[NDIRECT]] =
                                    table(idx - NDIRECT, BlockLba(b1))]
        /\ sectors' = [sectors EXCEPT ![BlockLba(b1)] = NewSector(f)]
        /\ iSize' = iSize + 1
        /\ UNCHANGED <<iSectors, hung>>

\* sync_dir_entry(parent_dir, p_de, io_buf), called by a creator that has
\* just failed to find the name with search_dir_entry.
SyncDirEntry(f) ==
    /\ ~SearchDirEntry(f)
    /\ LET all == SyncBlocks
           idx == SyncTarget(all)
       IN  IF idx = -1 THEN UNCHANGED vars
           ELSE IF all[idx] # 0 THEN ReuseSlot(all[idx], f)
           ELSE AttachNewBlock(idx, all, f)

\* Mutant: the first-block test is dropped.
Reclaimable_ignoreFirst(sec) == Cardinality({s \in Slots : sec[s] \in Files}) = 1

\* Mutant: the count compared with 0, as if the found entry were excluded.
Reclaimable_offByOne(sec) ==
    /\ Cardinality({s \in Slots : sec[s] \in Files}) = 0
    /\ ~\E s \in Slots : sec[s] = DOT

\* The entry count of delete_dir_entry: the block holding the found entry is
\* reclaimed when it is its only entry other than . and .. and it holds no
\* "." (is_dir_first_block).
Reclaimable(sec) ==
    /\ Cardinality({s \in Slots : sec[s] \in Files}) = 1
    /\ ~\E s \in Slots : sec[s] = DOT

\* Mutant: the slot is cleared but the bit stays set.
ReclaimBlock_keepsBit(idx, lba) ==
    IF idx < NDIRECT
    THEN /\ iSectors' = [iSectors EXCEPT ![idx] = 0]
         /\ iSize' = iSize - 1
         /\ UNCHANGED <<blockBitmap, diskBitmap, sectors, tables, hung>>
    ELSE /\ hung' = TRUE
         /\ UNCHANGED <<blockBitmap, diskBitmap, iSectors, sectors, tables, iSize>>

\* Mutant: the bit is cleared in memory and never written back.
ReclaimBlock_noSync(idx, lba) ==
    LET bm == B!BitmapSet(blockBitmap, lba - DATA_START, 0)
    IN  /\ blockBitmap' = bm
        /\ IF idx < NDIRECT
           THEN /\ iSectors' = [iSectors EXCEPT ![idx] = 0]
                /\ iSize' = iSize - 1
                /\ UNCHANGED <<diskBitmap, sectors, tables, hung>>
           ELSE /\ hung' = TRUE
                /\ UNCHANGED <<diskBitmap, iSectors, sectors, tables, iSize>>

\* Reclaim the block: clear and persist its bit, then unlink it.  A direct
\* block is unlinked from i_sectors and i_size shrinks.  For a block of the
\* indirect table the loop counting the table's live slots never advances
\* indirect_block_idx: the call spins forever after the bit was freed.
ReclaimBlock(idx, lba) ==
    LET bm == B!BitmapSet(blockBitmap, lba - DATA_START, 0)
    IN  /\ blockBitmap' = bm
        /\ diskBitmap' = bm
        /\ IF idx < NDIRECT
           THEN /\ iSectors' = [iSectors EXCEPT ![idx] = 0]
                /\ iSize' = iSize - 1
                /\ UNCHANGED <<sectors, tables, hung>>
           ELSE /\ hung' = TRUE
                /\ UNCHANGED <<iSectors, sectors, tables, iSize>>

\* Mutant: the whole sector buffer is zeroed instead of the found entry.
ClearEntry_wholeSector(lba, f) ==
    /\ sectors' = [sectors EXCEPT ![lba] = [s \in Slots |-> FREE]]
    /\ iSize' = iSize - 1
    /\ UNCHANGED <<blockBitmap, diskBitmap, tables, iSectors, hung>>

\* Other entries remain: zero the found entry, write the sector back and
\* shrink i_size (then inode_sync).
ClearEntry(lba, f) ==
    /\ sectors' = [sectors EXCEPT ![lba] =
                       [s \in Slots |-> IF @[s] = f THEN FREE ELSE @[s]]]
    /\ iSize' = iSize - 1
    /\ UNCHANGED <<blockBitmap, diskBitmap, tables, iSectors, hung>>

\* delete_dir_entry(part, pdir, inode_no, io_buf) for an entry its caller
\* found with search_dir_entry: the first block holding f decides.
DeleteDirEntry(f) ==
    /\ SearchDirEntry(f)
    /\ LET all  == LoadAllBlocks
           hits == {i \in 0..(NBLK - 1) :
                      all[i] # 0 /\ \E s \in Slots : sectors[all[i]][s] = f}
       IN  IF hits = {} THEN UNCHANGED vars
           ELSE LET idx == Min(hits)
                IN  IF Reclaimable(sectors[all[idx]])
                    THEN ReclaimBlock(idx, all[idx])
                    ELSE ClearEntry(all[idx], f)

\* dir_is_empty: i_size is two records, so only . and .. remain.
DirIsEmpty == iSize = 2

\* The ASSERT loop at the head of dir_remove(parent, child), on this
\* directory as the child: i_sectors[1 .. 12], the table slot included,
\* are all 0.
DirRemoveAsserts == \A i \in 1..NDIRECT : iSectors[i] = 0

\* A new directory: its first block holds . and .., i_size is two records.
Init ==
    /\ blockBitmap = [b \in Bits |-> IF b \in PREUSED \cup {DIRBLOCK} THEN 1 ELSE 0]
    /\ diskBitmap = blockBitmap
    /\ sectors = [l \in LBAs |->
                    IF l = BlockLba(DIRBLOCK)
                    THEN [s \in Slots |-> CASE s = 0 -> DOT
                                            [] s = 1 -> DOTDOT
                                            [] OTHER -> FREE]
                    ELSE [s \in Slots |-> FREE]]
    /\ tables = [l \in LBAs |-> [j \in 0..(NINDIRECT - 1) |-> 0]]
    /\ iSectors = [i \in 0..NDIRECT |-> IF i = 0 THEN BlockLba(DIRBLOCK) ELSE 0]
    /\ iSize = 2
    /\ hung = FALSE

Next == \E f \in Files : SyncDirEntry(f) \/ DeleteDirEntry(f)

Spec == Init /\ [][Next]_vars

-----------------------------------------------------------------------------
(***************************************************************************)
(* Views used by the properties.                                           *)
(***************************************************************************)

\* The names search_dir_entry finds.
LiveEntries == {f \in Files : SearchDirEntry(f)}

\* Every block the inode reaches: direct blocks, the table, its entries.
ReachableBlocks ==
    ({iSectors[i] : i \in 0..NDIRECT} \cup
     {LoadAllBlocks[i] : i \in 0..(NBLK - 1)}) \ {0}

TypeOK ==
    /\ blockBitmap \in [Bits -> {0, 1}]
    /\ diskBitmap \in [Bits -> {0, 1}]
    /\ sectors \in [LBAs -> [Slots -> Entry]]
    /\ tables \in [LBAs -> [0..(NINDIRECT - 1) -> LBAs \cup {0}]]
    /\ iSectors \in [0..NDIRECT -> LBAs \cup {0}]
    /\ iSize \in Nat
    /\ hung \in BOOLEAN

(***************************************************************************)
(* i_size is the append/size invariant of spec section 8: two records for *)
(* . and .. plus one per entry search_dir_entry can find.  sync_dir_entry  *)
(* adds one record on every success path and delete_dir_entry removes one  *)
(* whichever way it reclaims, so any path that loses, duplicates or        *)
(* strands an entry breaks it.                                             *)
(***************************************************************************)
SizeMatchesLive == iSize = 2 + Cardinality(LiveEntries)

(***************************************************************************)
(* The in-memory block bitmap marks exactly the blocks of other inodes and *)
(* the blocks this directory reaches: sync_dir_entry never allocates a     *)
(* block it does not link, and delete_dir_entry never frees one it leaves  *)
(* linked (no leak, no dangling block that a later allocation could hand   *)
(* out twice).                                                             *)
(***************************************************************************)
BitmapTracksBlocks ==
    \A b \in Bits :
        blockBitmap[b] = 1 <=> (b \in PREUSED \/ BlockLba(b) \in ReachableBlocks)

(***************************************************************************)
(* Every change of the in-memory block bitmap is persisted by bitmap_sync  *)
(* before the call returns (spec section 6): the disk copy never differs.  *)
(***************************************************************************)
DiskBitmapMatches == diskBitmap = blockBitmap

(***************************************************************************)
(* The directory's first block, with its . and .. entries, is never       *)
(* reclaimed while the directory exists, however its other entries are    *)
(* erased (delete_dir_entry's is_dir_first_block test).                    *)
(***************************************************************************)
FirstBlockKept ==
    /\ iSectors[0] = BlockLba(DIRBLOCK)
    /\ sectors[BlockLba(DIRBLOCK)][0] = DOT
    /\ sectors[BlockLba(DIRBLOCK)][1] = DOTDOT

(***************************************************************************)
(* sys_rmdir calls dir_remove only after dir_is_empty: a directory whose  *)
(* i_size is back to two records must have no block but its first, or     *)
(* dir_remove's ASSERT halts the kernel.  Every block other than the       *)
(* first must therefore be reclaimed by the erase of its last entry,       *)
(* whatever order the appends, reuses and erases came in.                  *)
(***************************************************************************)
EmptyDirRemovable == DirIsEmpty => DirRemoveAsserts

\* Some block the directory links has a free slot.
FreeSlotLinked ==
    \E i \in 0..(NBLK - 1) : LoadAllBlocks[i] # 0 /\ FreeSlots(LoadAllBlocks[i]) # {}

(***************************************************************************)
(* Slot reuse as the comment at dir.c:132-133 and spec section 8 state it: *)
(* a new sector is allocated only when no existing sector has a free       *)
(* slot, so an append made while a linked block has a free slot sets no   *)
(* new bit.  The block loop of sync_dir_entry stops at the first index     *)
(* with no block, so a hole left by a reclaim comes first.                 *)
(***************************************************************************)
SlotReuse == [][iSize' = iSize + 1 /\ FreeSlotLinked => blockBitmap' = blockBitmap]_vars

(***************************************************************************)
(* Search/erase duality (spec section 8), as a refinement: the names      *)
(* search_dir_entry finds change exactly as the abstract directory of      *)
(* DirSet allows: an append adds its name and nothing else, an erase       *)
(* removes its name and nothing else, a failed call changes nothing.       *)
(***************************************************************************)
AbsDir == INSTANCE DirSet WITH entries <- LiveEntries

ImplementsDirSet == AbsDir!Spec
=============================================================================
