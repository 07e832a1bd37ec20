# TLA+ models of the storage core of qxcheng/operate-system

This directory holds TLA+ specifications of the parts of the kernel under
`src/` that TLC can check, the configurations that check them, and the
findings. `PROJECT.json` lists every component, run, mutant, finding and
hazard. Each entry in its `map` points a TLA+ definition at the source lines
that definition translates.

## 1. Inventory of the system

| Component | Source | State it keeps | Operations |
|---|---|---|---|
| Free-space bitmap allocator | `src/lib/kernel/bitmap.c` | a byte array read as a bit vector (`bits`, `btmp_bytes_len`) | `bitmap_init`, `bitmap_scan_test`, `bitmap_scan(cnt)`, `bitmap_set` |
| Inode block-address model | `src/fs/inode.h` | `i_size`, `i_sectors[13]` (12 direct blocks plus one singly-indirect table of 128 block numbers), `i_open_cnts`, `write_deny` | the 140-entry `all_blocks` load, re-derived inside each `dir.c` function |
| Directory-entry writer | `src/fs/dir.c` `sync_dir_entry` | the directory inode, the block bitmap, and the directory's sectors on disk | appends an entry: reuses a free slot, or allocates a direct block, an indirect table plus its first block, or a block in the table |
| Directory-entry eraser | `src/fs/dir.c` `delete_dir_entry` | as above | clears an entry in place, or reclaims its block (and the table when the table empties) |
| Directory-entry reader | `src/fs/dir.c` `search_dir_entry`, `dir_read`, `dir_is_empty` | the `dir_pos` cursor of a `struct dir` | finds an entry by name; iterates over the live entries |
| Directory helpers | `src/fs/dir.c` `dir_open`, `dir_close`, `open_root_dir`, `dir_remove` | `root_dir` | open and close a directory; remove an empty subdirectory |
| Scheduler and pid pool | `src/thread/thread.c` | `thread_ready_list`, `thread_all_list`, each task's `status` and `ticks`, the 1024-bit pid bitmap | `schedule`, `thread_block`, `thread_unblock`, `thread_yield`, `thread_exit`, `idle`, `allocate_pid`, `release_pid`, `thread_start`, `pid2thread`, `sys_ps` |
| Interrupt control | `src/kernel/interrupt.c` | the IF flag, the IDT and the 8259A masks | `intr_enable`, `intr_disable`, `intr_set_status`, `intr_get_status`, plus one-time IDT and PIC setup |
| Panic and ASSERT | `src/kernel/debug.[ch]` | none | `ASSERT` halts the kernel in `panic_spin` unless `NDEBUG` |
| Boot, demos, port I/O | `src/kernel/main.c`, `src/lib/kernel/io.h`, `memory.h`, `list.h` | none of interest | `main`, `init`, test threads; inline `in`/`out`; declarations only |

**How the parts interact.** The file layer (not in `src/`) calls
`search_dir_entry` to resolve a name. It calls `sync_dir_entry` to add an entry
and `delete_dir_entry` to remove one. All three work on the same in-memory
inode and read and write sectors synchronously (`ide_read` and `ide_write`).
The writer and the eraser take blocks from the partition's block bitmap and
give them back. They do this through `block_bitmap_alloc`, which scans for one
clear bit and sets it, and `bitmap_set(.., 0)`. Each bit change is written to
disk by `bitmap_sync`. The scheduler reuses the same bitmap operations for pid
numbers.

**What is hard.**
- *Multi-step allocation with rollback.* Creating an indirect table takes two
  allocations. If the second fails, the first must be undone in memory and on
  disk.
- *Reclaim policy.* When an erase leaves a block with no real entry, the block
  is freed, except for the directory's first block. That first block is
  recognised only by a live `.` entry in it.
- *Two views of one directory.* The writer and the readers each build their
  own copy of the 140 block addresses.
- *Counters.* `i_size` is adjusted separately on every path. Both
  `dir_is_empty` and `dir_read` trust it.
- *Persistence order.* Bitmap bits are synced before the inode is written. A
  crash between the two can leave a block allocated that no inode reaches.
- *Concurrency.* No lock protects the shared bitmap. The scheduler interleaves
  threads through timer interrupts, `thread_block` and `thread_unblock`.

**What makes each component correct** (the properties aimed at):
- *Bitmap.* `bitmap_scan(cnt)` returns the lowest run of `cnt` clear bits that
  lies inside the vector, or -1.
- *Directory.*
  - `i_size` = 2 + the number of findable entries.
  - The bitmap marks exactly the blocks some inode reaches.
  - The disk bitmap equals the memory bitmap.
  - `.` and `..` are never reclaimed.
  - Free slots are reused.
  - The findable names change exactly as a set under add and remove.
  - `dir_read` returns each entry once.
  - A directory `dir_is_empty` calls empty has no block but its first, as
    `dir_remove` asserts.
- *Scheduler.*
  - Exactly one thread runs.
  - The ready list holds exactly the READY threads, each once.
  - A READY thread eventually runs.
  - A pid is never held by two live threads.
  - Thread states change only as a simple thread-state machine allows.

## 2. Modules

| Module | Models | State and actions |
|---|---|---|
| `Bitmap` | `bitmap.c` | Pure operators. A bitmap is a function from bit index to {0,1}. `BitmapScanTest`, `FirstFreeByte` (the byte-skip loop), `FirstFreeBit`, `RunScan` (the run loop, `RECURSIVE`), `BitmapScan`, `BitmapSet`. The bit read past the array is undefined behaviour, so it is an argument `oob` that callers range over. `NDEBUG` decides whether a full bitmap returns -1 or `PANIC`. `ReferenceScan` is the spec's definition. |
| `BitmapPool` | a bitmap used as a block allocator | `bits`. `Init` is `bitmap_init`. `Alloc` is `block_bitmap_alloc` (scan 1, set). `Free(b)` is `bitmap_set(b, 0)`. Every bit vector is reachable, so the invariant checks `bitmap_scan` on all of them. |
| `DirSet` | the abstract directory (spec 4.3 to 4.5) | `entries`, with `Add(f)` and `Remove(f)`. |
| `Dir` | `dir.c` on one directory inode | See below. |
| `DirIter` | `dir_open`, `dir_read`, `dir_close` over the directory of `Dir` | See below. |
| `MCDir` | model-checking wrapper of `Dir` | Adds the `FilesSymmetry` definition, kept for the larger configurations the plan calls for. |
| `MCDirIter` | model-checking wrapper of `DirIter` | No additions. |
| `DirCrash` | `Dir` with power failures and remounts | See below. |
| `MCDirCrash` | model-checking wrapper of `DirCrash` | No additions. |
| `ThreadTable` | what the scheduler promises | `state` (free, ready, running, blocked or dead per page) and `running`, with `Start`, `Wake`, `Reap` and `Switch(n, o)`: the running thread leaves as `o` and a ready thread, or blocked idle when none is ready, takes the CPU. |
| `Sched` | `thread.c`, the IF flag of `interrupt.c`, main's exit | See below. |
| `MCSched` | model-checking wrapper of `Sched` | No additions. |

`Dir` has these variables:
- `blockBitmap`: the partition's bitmap in memory.
- `diskBitmap`: the bitmap as `bitmap_sync` last wrote it.
- `sectors`: each block read as entry slots.
- `tables`: each block read as an indirect table.
- `iSectors`: `i_sectors`.
- `iSize`: `i_size`, counted in entry records.
- `hung`: set when a `delete_dir_entry` call loops forever.

`Dir` has two actions, one per call, and each covers the whole function:
- `SyncDirEntry(f)` is `sync_dir_entry`. Its helpers are `SyncBlocks` (its
  `all_blocks`, which has no indirect part), `SyncTarget` (the block loop),
  `ReuseSlot` and `AttachNewBlock`. `AttachNewBlock` covers four paths: a new
  direct block, a new table plus its first block, the rollback, and a new block
  in an existing table.
- `DeleteDirEntry(f)` is `delete_dir_entry`. Its helpers are `LoadAllBlocks`,
  `Reclaimable` (the entry count and the `.` test), `ReclaimBlock` and
  `ClearEntry`.

`DirIsEmpty` is `dir_is_empty` and `DirRemoveAsserts` is the `ASSERT` loop
at the head of `dir_remove` on the child (`i_sectors[1..12]` all 0).

`SearchDirEntry(f)` is `search_dir_entry`. The callers' contract is a guard on
each action: a name is appended only if search does not find it, and erased
only if search finds it. `ImplementsDirSet` maps `entries` to the names search
finds (`INSTANCE DirSet WITH entries <- LiveEntries`).

`DirIter` extends `Dir` with one directory stream:
- `reading`, `dirPos` (`dir->dir_pos`, in records), `returned` (the entries
  the stream has returned so far), `atEnd` (the last call returned NULL) and
  `overrun` (`block_idx` ran past the 140 slots of `all_blocks`).
- `DirOpen` is `dir_open` and `DirClose` is `dir_close`, which frees the
  struct with its position.
- `DirRead` is `dir_read`. `FlatSlots` is the sequence of slots of all
  logical blocks, in `all_blocks` order (a block address of 0 gives only
  free slots). `LiveSeq` keeps the slots whose `f_type` is set. `dir_read`
  returns `LiveSeq[dir_pos + 1]`, or NULL once `dir_pos` reaches `i_size`. If
  `i_size` counts more entries than `LiveSeq` holds, `block_idx` walks past
  the array, and the model records `overrun`.
- `Mutate` is any `Dir` step: this thread's between streams, or another
  thread's between two `dir_read` calls of the open stream. `disturbed` is a
  history variable that says the directory changed since `dir_open`. The code
  promises nothing about what a disturbed stream returns. An erase behind the
  cursor makes the next call skip an entry. So `StreamListsDirOnce` is about
  undisturbed streams, and `DirReadInBounds` is about all of them.
- `IterView` is the run's `VIEW`. It leaves out what a disturbed stream has
  returned, which no property reads.

`DirCrash` extends `Dir` with the disk and power failures:
- `ide_write` and `bitmap_sync` write through, so `sectors`, `tables` and
  `diskBitmap` are already the disk. Only the inode is written late:
  `dISectors` and `dISize` are `i_sectors` and `i_size` as `inode_sync` last
  wrote them. `down` says the machine is off. `crashes` counts failures up to
  `MAXCRASH`. `synced` is a history variable: the entries that reached the
  disk inode and that no erase has touched since.
- `Append(f)` is `sync_dir_entry`, which leaves the inode to its caller.
  `CallerInodeSync` is that caller's `inode_sync` (`sys_open` and `sys_mkdir`,
  not in the repository).
- `Erase(f)` is `delete_dir_entry` ending with its own `inode_sync`
  (`DeleteSynced`), unless the call spins in the table count.
- `Crash` is a power failure between calls. `EraseInterrupted(f)` is a power
  failure inside `delete_dir_entry`, after its sector and bitmap writes and
  before `inode_sync` (dir.c:306-309). It is a step of `CrashNextInDelete`
  only, so the two specifications ask separate questions.
- `Restart` is the remount: the block bitmap and the inode are read back from
  the disk. Mounting is not in the repository, so this is an environment
  action.
- With direct blocks only, the disk images these actions leave are all the
  ones a power failure can leave, because every write before the inode's is
  already on disk.

`Sched` models the scheduler of `thread.c`:
- `status` (each thread's `status`; `NONE` for a free pcb page), `ready`
  (`thread_ready_list`, a sequence), `allList` (`thread_all_list`, a set),
  `cur` (`running_thread()`), `intr` (the IF flag), `saved` (each thread's IF
  as `switch_to` will restore it), `pid`, and `pidBits` (the pid bitmap,
  through `Bitmap`'s operators).
- `Schedule` is `schedule`. An expired RUNNING thread goes to the tail. An
  empty list wakes idle. The head is popped and resumes with its own saved IF,
  restored by `IntrSetStatus` (`intr_set_status`). `IntrGetStatus`,
  `IntrDisable` and `IntrEnable` are the other calls of `interrupt.c`.
- `TimerTick` is the timer interrupt expiring the current slice. Its handler
  is not in the repository, so this is an environment action; the `ticks`
  countdown is abstracted to "may expire at any time".
- The other actions are named after their functions: `ThreadYield`,
  `ThreadBlock(stat)`, `IdleLoop` (`idle` blocking itself), `ThreadUnblock`
  (a push to the head), `ThreadStart` with `InitThread` and
  `ThreadCreate` (whose first `switch_to` enters `kernel_thread` and so
  `intr_enable`), and then
  `ThreadStartLink`, `ThreadExitSelf`
  (`thread_exit(running_thread(), true)`), `ThreadExitOther(t)`
  (`thread_exit(child, false)` by a thread in `REAPERS` on a HANGING child:
  init's `wait()`, main.c:112-115; `thread_exit` leaves IF off, but the
  system call returns to user mode through `iret`, which sets it again),
  and `MainExit` (main.c:95-97). `AllocatePid` and `ReleasePid` are the pid
  pool.
- `thread_start` is two steps. Its two `list_append`s (thread.c:150 and 155)
  run with the caller's interrupts on, so a tick may fall between them.
  `linking[s]` holds the thread that `s` has put on the ready list but not
  yet on the all list. Until `s` links it, `s` makes no other call.
- `Init` is `thread_init`: init (pid 1), main (pid 2, RUNNING) and idle
  (pid 3). `PARKED` threads hold the next pids, so the pool can start full.
- Callers of `thread_unblock` (locks, semaphores, `wait`) are not in the
  repository. Any BLOCKED or WAITING thread other than idle may be woken by
  whoever runs. HANGING threads are left for a reaper; `MCSched_live.cfg`
  makes init the reaper.
- `ImplementsThreadTable` maps each status to a `ThreadTable` state
  (`AbsState`: NONE is free, DIED is dead, the three blocking statuses are
  blocked) and `running` to `cur`.

**Abstraction.**
- An entry slot is `FREE`, `DOT`, `DOTDOT` or a file. A file model value
  stands for both its name and its inode number.
- Block numbers keep the `data_start_lba` offset, because 0 means "no block".
- A block is read either as entry slots or as a table. Each such read follows
  a full-sector write of that same view.
- The modelled bitmap is smaller than a sector, so `bitmap_sync` writes all of
  it.
- The sizes 12, 128 and 512/`dir_entry_size` are the constants `NDIRECT`,
  `NINDIRECT` and `EPS`. The code uses them only as loop bounds and
  boundaries, so small values keep every branch and boundary.
- Each call is one atomic step. The core takes no lock and does not yield, and
  spec section 5 makes mutating calls on one directory the callers' job to
  serialise.
- `Dir` uses a release build (`NDEBUG`). Allocation failure then returns -1;
  with asserts on, the kernel panics (finding 2).

## 3. Runs

| Run | Config | Expect | What it shows |
|---|---|---|---|
| `bitmap_scan_single` | `BitmapPool_single.cfg` | pass | On all 65,536 bitmaps of 2 bytes, `bitmap_scan(btmp, 1)` returns the lowest clear bit, or -1 when full. This is the only count the kernel uses. |
| `bitmap_scan_runs` | `BitmapPool_runs.cfg` | violation | For `cnt` of 2 or 3, the run loop tests the bit one past the array. With bits 14 and 15 clear and that bit clear, the scan returns 14 for `cnt = 3`. |
| `dir_indirect_leak` | `MCDir_indirect_leak.cfg` | violation | With 1 direct slot, the second append creates a second indirect table over the first, and the first entry vanishes. |
| `dir_indirect_hang` | `MCDir_indirect_hang.cfg` | violation | Erasing the only entry of an indirect block frees its bit and then loops forever, so a linked block is marked free. |
| `dir_rollback` | `MCDir_rollback.cfg` | violation | The first append needs a table and a block but only one block is free. The rollback clears the bit in memory, but the disk keeps it. |
| `dir_slot_reuse` | `MCDir_direct.cfg` | violation | Three direct slots, five names. Fill indices 0, 1 and 2, erase the three files of index 1 so its block is reclaimed, and append again: the code allocates a new block at index 1 although index 2 has free slots (`SlotReuse`, the rule of the dir.c:132-133 comment and spec section 8). |
| `dir_stream` | `MCDirIter_direct.cfg` | pass | 3 direct slots, 3 slots per sector, 2 free blocks, 5 names. Any sequence of appends and erases keeps `SizeMatchesLive`, `BitmapTracksBlocks`, `DiskBitmapMatches` and `FirstBlockKept`, and implements `DirSet`. Whenever `i_size` is back to two records, only the first block is linked, so `sys_rmdir`'s `dir_is_empty` test protects `dir_remove`'s `ASSERT` (`EmptyDirRemovable`). Appends and erases may fall between the `dir_read` calls of an open stream, and `dir_read` still never walks past `all_blocks` (`DirReadInBounds`). A stream read to NULL with no change since `dir_open` returns `.`, `..` and every live file exactly once (`StreamListsDirOnce`). The walk crosses holes and reclaimed blocks. 104,111 states (under the view), about 2 minutes. |
| `dir_crash_between` | `MCDirCrash_direct.cfg` | pass | Four names on the `dir_stream` directory, with one power failure between calls and a remount. An entry that reached the disk inode is never lost (`Durable`), and no reachable block is marked free (`NoDanglingBlock`). A failure before the caller's `inode_sync` only leaks a block. 237,940 states. |
| `dir_crash_in_delete` | `MCDirCrash_indelete.cfg` | violation | Five names; power fails inside `delete_dir_entry` after the block's bit is freed and before `inode_sync`. After remount the inode still holds the block, a later append allocates it again and zeroes it, and entries synced earlier vanish (`Durable`). |
| `sched_live` | `MCSched_live.cfg` | pass | Threads main, idle, init, T1 and T2, with a 1-byte pid pool. Under any mix of start, yield, block, unblock, exit and init reaping a HANGING child, with timer preemption, ticks inside `thread_start` included, `SchedConsistent` and `PidsUnique` hold, every READY thread eventually runs (`ReadyRuns`), and the scheduler implements `ThreadTable` (`ImplementsThreadTable`): only blocked threads are woken, the CPU passes only to a READY thread or to blocked idle when none is, and a freed page comes back only through `thread_start`. 184,442 states, about 2 minutes. |
| `sched_start_race` | `MCSched_startrace.cfg` | violation | Init starts T1, and a tick falls between the two appends. T1 runs and exits before it is on the all list. Init then links T1's freed page (`AllListTracksLive`). |
| `sched_pid_exhaust` | `MCSched_pidfull.cfg` | violation | Five parked threads fill the 8-bit pool. The next `thread_start` gets pid 0, and so does the one after it (`PidsUnique`). |

**Why the bounds are enough.**
- In `dir_stream`, the first block takes one file and each other block takes
  three. Five names therefore reach every path: reuse of a slot in the first
  block, a new direct block, a hole at index 1 before a live block at index 2,
  in-place erase, and reclaim. They never reach logical index `NDIRECT`, which
  is deliberate: any append there triggers the indirect-table bugs.
- With one direct slot, the indirect configurations reach the table on the
  first append.
- The bitmap runs use two bytes, so the byte-skip loop crosses a full byte and
  the run loop crosses a byte boundary.

**Mutants.** `PROJECT.json` gives each property of a passing run a plausible
bug (operators named `<Definition>_<bug>`, defined just before the definition they
replace). TLC finds the property violated with each one:
- the byte-skip loop misses the last byte;
- the block number is missing its `data_start_lba` offset;
- the slot-reuse path does not grow `i_size`;
- a reclaimed block's bit is never cleared, or is cleared but not synced;
- the first-block test is dropped;
- the reclaim count is compared with 0 instead of 1, so no block is ever
  reclaimed;
- the in-place erase zeroes the whole sector;
- `dir_read` drops its `f_type` test;
- `dir_read` loops while `dir_pos <= i_size`;
- `delete_dir_entry` omits its `inode_sync`, or syncs the inode before
  changing it;
- `schedule` puts an expired thread at the head of the ready list;
- `thread_yield` leaves the yielding thread RUNNING;
- `release_pid` forgets to subtract `pid_start`;
- `thread_unblock` pushes the thread but leaves its blocking status.

The Sched bounds: two worker pages (T1, T2) beside init, main and idle are
enough for a thread to wait behind another in the ready list, for one to be
woken while another runs, and for pages to be reused after exit. One pid byte
with `PARKED = 5` leaves exactly one free pid, so the second start hits the
full pool.

**Fairness.** `Sched` assumes weak fairness of two steps only:
- `TimerTick`: `pic_init` unmasks IRQ0 (interrupt.c:86), so while IF is on
  the timer keeps interrupting and a slice runs out. When IF is off the step
  is disabled, and weak fairness then demands nothing.
- `MainExit`: main runs straight from `init_all` to
  `thread_exit(running_thread(), true)` (main.c:95-97).
No other thread is assumed to yield, block, wake or exit. Directory calls are
atomic and made by callers. The non-terminating loop in `delete_dir_entry` is
recorded as the state `hung`, and its effect on safety is what gets checked.

## 4. Findings

1. `bitmap.c:54` *(code bug)*: `bitmap_scan` with `cnt > 1` reads one bit past
   the array. It can return a run that leaves the bitmap.
2. `bitmap.c:30` *(divergence)*: `ASSERT` comes before `return -1`. A debug
   kernel panics on exhaustion, which contradicts spec section 7. This is
   read from the code; no run checks it, because `bitmap_scan_single` (the
   `NDEBUG` build) covers the same scan.
3. `dir.c:123` *(code bug)*: `sync_dir_entry` never loads the indirect table.
   Once the direct blocks are full, every append replaces `i_sectors[12]`.
   That leaks two blocks per append and makes earlier entries unfindable.
   `DirectoryFull` is unreachable.
4. `dir.c:282` *(code bug)*: the loop that counts live indirect slots never
   advances. Erasing the last entry of an indirect block hangs the calling
   thread after its block was freed and persisted.
5. `dir.c:162` *(code bug)*: the rollback of a new indirect table is not
   persisted.
6. `dir.c:138` *(divergence)*: holes are filled before free slots are reused.
   The comment at dir.c:132-133 and spec section 8 ask for reuse of a free
   slot in an existing block first; `dir_slot_reuse` shows an append after
   a reclaim allocating into the hole although a later block has room.
7. `dir.c:343` *(code bug)*: `dir_read` does not bound `block_idx`. When
   `i_size` counts entries that no block holds, which happens after finding 3,
   the loop reads stack memory past `all_blocks` as block addresses. This
   follows from finding 3, so no run of its own checks it.
   `DirReadInBounds` shows that it cannot happen while `i_size` is right.
8. `thread.c:49` *(code bug)*: `allocate_pid` does not check for -1 from
   `bitmap_scan`. With the pool full, `bitmap_set` turns -1 into the
   `uint32_t` bit index 0xFFFFFFFF and writes a byte 512MB past
   `pid_bitmap_bits`, and the call returns `-1 + pid_start = 0`. Pid 0 is
   below `pid_start`, which no allocation can return; the check stops at
   that first pid 0, and every later start on the full pool gets 0 again.
9. Withdrawn. `thread_exit(child, false)` returns with interrupts off
   (thread.c:337), but its only caller is `wait()` in the user process init
   (main.c:112-115), whose system call returns through `iret` with IF set.
   `ThreadExitOther` models that, and `ReadyRuns` holds in `sched_live`.
10. `dir.c:270` *(divergence)*: `delete_dir_entry` frees and syncs the block's
    bit before `inode_sync` (dir.c:309) writes the inode that stops pointing
    at it. Spec section 7 says the bit is cleared only once no pointer reaches
    the block. A power failure in between loses synced entries after remount.
11. `thread.c:155` *(code bug, latent)*: `thread_start` appends the new thread to the
    ready list (150) before the all list (155), with interrupts on. A tick in
    between can run the new thread to `thread_exit`. That call removes an
    `all_list_tag` that `init_thread` zeroed and frees the PCB page. The
    starter then links the freed page into `thread_all_list`. No caller
    reaches it today: after boot nothing calls `thread_start` with IF on (the
    demo threads at main.c:59-66 are commented out), so it bites the first
    caller that does.

## 5. Not modelled, and why

- An append that fails for lack of blocks is not reached by a run: the
  `dir_stream` bounds never exhaust the partition, and a smaller partition
  would lose the multi-block paths.
- `dir_remove`'s own steps are not actions: after its `ASSERT` it calls
  `delete_dir_entry` in the parent (which `Dir` models) and `inode_release` on
  the child, which is in `inode.c`, not in the repository.
- `block_bitmap_alloc` scans and then sets the shared bitmap with no lock
  (dir.c:139). It is in `fs.c`, not in the repository, and spec section 5
  makes callers serialise every writer of the bitmap, so its scan and set are
  one step.
- `bitmap_scan`'s byte-skip loop reads `bits[btmp_bytes_len]` only when
  every byte is full, and the result does not depend on it (bitmap.c:26).
- The ordering of `thread_unblock` (head) and `schedule` (tail) is not a
  starvation hazard under the timer: every READY thread eventually runs
  (`ReadyRuns`), so no property is spent on thread.c:199.
- `open_root_dir` only sets up the root directory at boot.
- A change of the directory inside one `dir_read` call is not modelled.
  `dir_read` copies `i_sectors` once and then reads each block with
  `ide_read`. `ide_read` may sleep, but it is not in the repository.
  Changes between calls are modelled.
- `dir_remove` ignores the result of `delete_dir_entry`. That result is false
  only when the name is missing, so it matters only if two callers remove
  one child at once. Spec section 5 leaves serialising them to the callers.
- `sys_ps` and `pad_print` only format output; `pid2thread` is a lookup that
  changes nothing.
- `thread_exit` frees its own pcb page and then reads its pid from it
  (thread.c:353-357). `memory.c` is not in the repository, so what
  `mfree_page` does to the page is unknown.
- The `priority`/`ticks` slice is abstracted to a tick that may expire at any
  time. `switch_to` and `process_activate` are assembly and page tables.
- `general_intr_handler` prints a fault and spins with interrupts off; the
  handlers for the timer, keyboard and disk are in files not in the
  repository.
- IDT and PIC setup, the rest of `main`, `init` (whose `fork` and `wait` are
  not in the repository), the demo threads and `io.h` are boot-time port I/O
  or test code.
- `memory.h` and `list.h` only declare functions whose code is not in the
  repository.
- Power failures are modelled only with direct blocks. With indirect blocks,
  the table write and the second bitmap sync of a reclaim add failure points,
  but findings 3 and 4 already break those paths without any failure.

## 6. Plan

Work is ordered by importance to the storage core. Done items are marked.

1. **Done.** `Bitmap` and `BitmapPool`: the allocator and its reference check.
2. **Done.** `Dir` plus `DirSet`: `sync_dir_entry`, `delete_dir_entry` and
   `search_dir_entry`, with the refinement to the abstract directory.
3. **Done.** `DirIter` (extends `Dir`): the `dir_read` stream. The directory
   may change between `dir_read` calls. `dir_is_empty` against `dir_remove`'s
   `ASSERT` is `EmptyDirRemovable`.
4. **Done.** `DirCrash`: the on-disk inode, power failures between calls and
   inside `delete_dir_entry`, and the remount (finding 10).
   - Left: failures with indirect blocks, once findings 3 and 4 are fixed, and
     a leak bound (every bit set on disk belongs to a reachable block, up to
     the blocks leaked by failures before the caller's `inode_sync`).
5. **Dropped.** `DirConcurrent`, two threads appending to two directories on
   one bitmap: `block_bitmap_alloc` is not in the repository and spec section
   5 excludes the race (see section 5).
6. **Done.** `Sched`: the ready and all lists, task status, the IF flag,
   every scheduling call, the pid pool, the timer tick with weak fairness
   (findings 8 and 11), and the refinement to `ThreadTable`.
