------------------------------- MODULE Sched -------------------------------
(***************************************************************************)
(* The kernel-thread scheduler of src/thread/thread.c on one CPU: the      *)
(* ready list, the all list, each PCB's status, the running thread, the    *)
(* IF flag (interrupt.c), and the pid pool over the bitmap of bitmap.c.    *)
(*                                                                         *)
(* A thread is a PCB page: status NONE means the page holds no live PCB,   *)
(* so thread_start may take it and a freed page may be taken again.  Each  *)
(* call runs as one step: the list and bitmap updates happen with          *)
(* interrupts off, and schedule() ends the step by switching to the next   *)
(* thread, which resumes with the IF value saved in its own context.       *)
(* thread_start is the exception: its two list_appends run with the        *)
(* caller's interrupts on, so it is two steps and a timer tick may fall    *)
(* between them.                                                           *)
(* The timer interrupt handler (not in this repository) is TimerTick: the  *)
(* end of a time slice, taken only while IF is set.                        *)
(***************************************************************************)
EXTENDS Integers, SequencesExt

CONSTANTS
    Threads,   \* PCB pages
    MAIN,      \* main_thread: its PCB is below 1MB and never freed
    IDLE,      \* idle_thread
    INITPROC,      \* the init process, first on the ready list
    REAPERS,   \* processes whose wait() calls thread_exit(child, false)
    PIDBYTES,  \* bytes of pid_bitmap_bits (128)
    PARKED     \* threads started after boot that stay blocked for good

ASSUME /\ {MAIN, IDLE, INITPROC} \subseteq Threads
       /\ REAPERS \subseteq Threads \ {MAIN, IDLE}
       /\ PARKED \in 0..(8 * PIDBYTES - 3)

B == INSTANCE Bitmap WITH NDEBUG <- TRUE

VARIABLES
    status,   \* pthread->status, or "NONE" for a page with no live PCB
    ready,    \* thread_ready_list, head first
    allList,  \* the members of thread_all_list
    cur,      \* running_thread()
    intr,     \* the IF bit of eflags
    saved,    \* the IF value each thread restores when it next runs
    pid,      \* pthread->pid
    pidBits,  \* pid_pool.pid_bitmap
    linking   \* per thread, the thread its thread_start has put on the
              \* ready list but not yet on the all list ({} or one thread)

vars == <<status, ready, allList, cur, intr, saved, pid, pidBits, linking>>

Workers  == Threads \ {MAIN, IDLE}
Blocking == {"BLOCKED", "WAITING", "HANGING"}
Status   == {"RUNNING", "READY", "DIED", "NONE"} \cup Blocking
PID_START == 1

\* Threads with a live PCB.
Live == {t \in Threads : status[t] \notin {"NONE", "DIED"}}

\* The running thread is between calls, not inside thread_start.
InNoCall == linking[cur] = {}

\* pid_pool_init: bitmap_init clears every bit of the pool.
PidPoolInit == [b \in 0..(8 * PIDBYTES - 1) |-> 0]

\* intr_get_status: the IF bit of eflags.
IntrGetStatus == intr

\* intr_disable: clear IF (cli) and return the status before it.
IntrDisable == IntrGetStatus

\* intr_enable: set IF (sti), whatever it was.
IntrEnable == "ON"

\* intr_set_status(status): intr_enable when status & INTR_ON, otherwise
\* intr_disable; IF ends as status.
IntrSetStatus(s) == IF s = "ON" THEN IntrEnable ELSE "OFF"

\* allocate_pid: bitmap_scan for one bit and bitmap_set it, with no check
\* of -1; bit_idx is uint32_t, so bitmap_set writes byte 0x1FFFFFFF past
\* pid_bitmap_bits, outside the bits modelled, and the pid returned is 0.
AllocatePid ==
    LET bit == B!BitmapScan(pidBits, PIDBYTES, 1, 0)
    IN  [bits |-> IF bit \in DOMAIN pidBits THEN B!BitmapSet(pidBits, bit, 1)
                  ELSE pidBits,
         pid  |-> bit + PID_START]

\* Mutant: the pid used as the bit index, without subtracting pid_start.
ReleasePid_noStart(p) ==
    IF p \in DOMAIN pidBits THEN B!BitmapSet(pidBits, p, 0) ELSE pidBits

\* release_pid: clear the bit of pid - pid_start.
ReleasePid(p) ==
    LET bit == p - PID_START
    IN  IF bit \in DOMAIN pidBits THEN B!BitmapSet(pidBits, bit, 0) ELSE pidBits

\* Mutant: an expiring thread pushed to the head instead of the tail.
Schedule_pushFront(rdy, st, sv) ==
    LET rdy1 == IF st[cur] = "RUNNING" THEN <<cur>> \o rdy ELSE rdy
        st1  == IF st[cur] = "RUNNING" THEN [st EXCEPT ![cur] = "READY"] ELSE st
        rdy2 == IF rdy1 = <<>> THEN <<IDLE>> ELSE rdy1
        st2  == IF rdy1 = <<>> THEN [st1 EXCEPT ![IDLE] = "READY"] ELSE st1
        next == Head(rdy2)
    IN  /\ ready' = Tail(rdy2)
        /\ status' = [st2 EXCEPT ![next] = "RUNNING"]
        /\ cur' = next
        /\ saved' = sv
        /\ intr' = IntrSetStatus(sv[next])

\* schedule(), entered with interrupts off after the caller set the ready
\* list rdy, the statuses st and the saved IF values sv: a thread still
\* RUNNING goes to the tail as READY; an empty list wakes idle_thread
\* (thread_unblock pushes it to the head); the head is popped, made
\* RUNNING, and switch_to resumes it with its own saved IF.
Schedule(rdy, st, sv) ==
    LET rdy1 == IF st[cur] = "RUNNING" THEN Append(rdy, cur) ELSE rdy
        st1  == IF st[cur] = "RUNNING" THEN [st EXCEPT ![cur] = "READY"] ELSE st
        rdy2 == IF rdy1 = <<>> THEN <<IDLE>> ELSE rdy1
        st2  == IF rdy1 = <<>> THEN [st1 EXCEPT ![IDLE] = "READY"] ELSE st1
        next == Head(rdy2)
    IN  /\ ready' = Tail(rdy2)
        /\ status' = [st2 EXCEPT ![next] = "RUNNING"]
        /\ cur' = next
        /\ saved' = sv
        /\ intr' = IntrSetStatus(sv[next])

\* The timer handler at the end of a slice: schedule() from an interrupt
\* gate; the preempted thread returns through iret with IF set.
TimerTick ==
    /\ intr = "ON"
    /\ Schedule(ready, status, [saved EXCEPT ![cur] = "ON"])
    /\ UNCHANGED <<allList, pid, pidBits, linking>>

\* Mutant: thread_yield leaves the status RUNNING.
ThreadYield_keepsRunning ==
    /\ cur \in Workers /\ InNoCall
    /\ Schedule(Append(ready, cur), status, [saved EXCEPT ![cur] = IntrDisable])
    /\ UNCHANGED <<allList, pid, pidBits, linking>>

\* thread_yield: append the caller as READY, schedule, and restore IF.
ThreadYield ==
    /\ cur \in Workers /\ InNoCall
    /\ Schedule(Append(ready, cur), [status EXCEPT ![cur] = "READY"],
                [saved EXCEPT ![cur] = IntrDisable])
    /\ UNCHANGED <<allList, pid, pidBits, linking>>

\* thread_block(stat): the caller takes a blocking status and schedules.
ThreadBlock(stat) ==
    /\ cur \in Workers /\ InNoCall
    /\ Schedule(ready, [status EXCEPT ![cur] = stat], [saved EXCEPT ![cur] = IntrDisable])
    /\ UNCHANGED <<allList, pid, pidBits, linking>>

\* idle(): thread_block(TASK_BLOCKED); once woken, sti and hlt, so idle
\* always resumes with IF set.
IdleLoop ==
    /\ cur = IDLE
    /\ Schedule(ready, [status EXCEPT ![IDLE] = "BLOCKED"], [saved EXCEPT ![IDLE] = "ON"])
    /\ UNCHANGED <<allList, pid, pidBits, linking>>

\* Mutant: the woken thread is pushed but keeps its blocking status.
ThreadUnblock_keepsStatus(t) ==
    /\ t # IDLE
    /\ status[t] \in {"BLOCKED", "WAITING"}
    /\ ready' = <<t>> \o ready
    /\ UNCHANGED <<status, allList, cur, intr, saved, pid, pidBits, linking>>

\* thread_unblock(t), by the running thread or an interrupt handler, on a
\* thread blocked or waiting: pushed to the head of the ready list.
ThreadUnblock(t) ==
    /\ t # IDLE
    /\ status[t] \in {"BLOCKED", "WAITING"}
    /\ ready' = <<t>> \o ready
    /\ status' = [status EXCEPT ![t] = "READY"]
    /\ UNCHANGED <<allList, cur, intr, saved, pid, pidBits, linking>>

\* kernel_thread, where every new thread starts: intr_enable() before
\* function(func_arg).
KernelThreadIntr == IntrEnable

\* init_thread on the page t: allocate_pid, status READY (t is not main).
InitThread(t) ==
    LET a == AllocatePid
    IN  /\ pidBits' = a.bits
        /\ pid' = [pid EXCEPT ![t] = a.pid]
        /\ status' = [status EXCEPT ![t] = "READY"]

\* thread_create: the thread stack's eip is kernel_thread, so the first
\* switch_to into t resumes it with interrupts enabled.
ThreadCreate(t) == saved' = [saved EXCEPT ![t] = KernelThreadIntr]

\* thread_start(name, prio, ...) on the free page t, up to its first
\* list_append: init_thread (which zeroes the PCB, list tags included),
\* thread_create, then t joins the tail of the ready list.
ThreadStart(t) ==
    /\ cur \in Workers /\ InNoCall
    /\ t \in Workers /\ status[t] = "NONE"
    /\ InitThread(t)
    /\ ThreadCreate(t)
    /\ ready' = Append(ready, t)
    /\ linking' = [linking EXCEPT ![cur] = {t}]
    /\ UNCHANGED <<allList, cur, intr>>

\* The rest of thread_start: the second list_append puts the page on the
\* all list, whatever has become of the thread since the first.
ThreadStartLink ==
    /\ linking[cur] # {}
    /\ allList' = allList \cup linking[cur]
    /\ linking' = [linking EXCEPT ![cur] = {}]
    /\ UNCHANGED <<status, ready, cur, intr, saved, pid, pidBits>>

\* thread_exit(running_thread(), true): DIED, off the all list, the page
\* freed (not main's), the pid released, and schedule() never returns.
ThreadExitSelf ==
    /\ cur \in Workers \cup {MAIN} /\ InNoCall
    /\ allList' = allList \ {cur}
    /\ pidBits' = ReleasePid(pid[cur])
    /\ Schedule(ready, [status EXCEPT ![cur] = IF cur = MAIN THEN "DIED" ELSE "NONE"],
                saved)
    /\ UNCHANGED <<pid, linking>>

\* thread_exit(child, false) on a HANGING child, inside the wait() of a user
\* process (init, main.c:112-115): the child is not on the ready list; its
\* page and pid are freed.  intr_disable (337) is not undone by thread_exit,
\* but the system call returns to user mode through iret, which restores
\* the user eflags with IF set.
ThreadExitOther(t) ==
    /\ cur \in REAPERS /\ InNoCall
    /\ t # cur /\ status[t] = "HANGING"
    /\ status' = [status EXCEPT ![t] = "NONE"]
    /\ allList' = allList \ {t}
    /\ pidBits' = ReleasePid(pid[t])
    /\ intr' = "ON"
    /\ UNCHANGED <<ready, cur, saved, pid, linking>>

\* main(): after init_all it clears the screen and exits (main.c:95-97).
MainExit == cur = MAIN /\ ThreadExitSelf

\* thread_init after pid_pool_init: init (pid 1), main (pid 2, RUNNING)
\* and idle (pid 3), then PARKED threads that hold the next pids.
Init ==
    /\ status = [t \in Threads |->
                   IF t = MAIN THEN "RUNNING"
                   ELSE IF t \in {INITPROC, IDLE} THEN "READY" ELSE "NONE"]
    /\ ready = <<INITPROC, IDLE>>
    /\ allList = {INITPROC, MAIN, IDLE}
    /\ cur = MAIN
    /\ intr \in {"ON", "OFF"}
    /\ saved = [t \in Threads |-> "ON"]
    /\ pid = [t \in Threads |->
                IF t = INITPROC THEN 1 ELSE IF t = MAIN THEN 2
                ELSE IF t = IDLE THEN 3 ELSE 0]
    /\ pidBits = [b \in 0..(8 * PIDBYTES - 1) |->
                    IF b < 3 + PARKED THEN 1 ELSE PidPoolInit[b]]
    /\ linking = [t \in Threads |-> {}]

Next ==
    \/ TimerTick
    \/ ThreadYield
    \/ \E s \in Blocking : ThreadBlock(s)
    \/ IdleLoop
    \/ \E t \in Threads : ThreadUnblock(t) \/ ThreadStart(t)
    \/ ThreadStartLink
    \/ ThreadExitSelf
    \/ \E t \in Threads : ThreadExitOther(t)

\* The timer fires while IF is set; main's code runs straight to its exit.
Fairness == WF_vars(TimerTick) /\ WF_vars(MainExit)

Spec == Init /\ [][Next]_vars /\ Fairness

-----------------------------------------------------------------------------
(***************************************************************************)
(* Properties.                                                             *)
(***************************************************************************)

\* The ready list agrees with the statuses after every call: it holds each
\* READY thread exactly once and nothing else, and the running thread is
\* the only RUNNING one.  Yield, block, unblock, start, exit and the idle
\* wake-up each edit the list and the status separately.
SchedConsistent ==
    /\ IsInjective(ready)
    /\ ToSet(ready) = {t \in Threads : status[t] = "READY"}
    /\ {t \in Threads : status[t] = "RUNNING"} = {cur}

\* The all list holds exactly the live PCBs, apart from those a
\* thread_start in progress has still to link: no freed page is ever on it
\* (sys_ps and pid2thread walk it).  Broken if the new thread runs and
\* exits between thread_start's two list_appends.
AllListTracksLive ==
    allList \cup UNION {linking[t] : t \in Threads} = Live

\* Every live thread holds a pid of its own, at or above pid_start, and the
\* pid bitmap marks exactly the pids of live and parked threads: pids are
\* released by both exits and reused by later starts.
PidsUnique ==
    /\ \A t, u \in Live : t # u => pid[t] # pid[u]
    /\ \A t \in Live : pid[t] >= PID_START
    /\ \A b \in DOMAIN pidBits :
          pidBits[b] = 1 <=> b \in 3..(2 + PARKED) \/ \E t \in Live : pid[t] - PID_START = b

\* The thread states of ThreadTable: a page with no PCB is free, a DIED
\* thread is dead, and the three blocking statuses are blocked.
AbsState(t) ==
    CASE status[t] = "NONE"     -> "free"
      [] status[t] = "DIED"     -> "dead"
      [] status[t] \in Blocking -> "blocked"
      [] status[t] = "READY"    -> "ready"
      [] status[t] = "RUNNING"  -> "running"

Abs == INSTANCE ThreadTable WITH state <- [t \in Threads |-> AbsState(t)], running <- cur

(***************************************************************************)
(* The scheduler implements ThreadTable: every step of every call, ticks   *)
(* and the idle wake-up included, changes thread states only as that      *)
(* specification allows.  Only a blocked thread is woken, schedule hands   *)
(* the CPU to a READY thread (idle only when none is), a freed page is     *)
(* reused only through thread_start, and main never runs after its exit.  *)
(***************************************************************************)
ImplementsThreadTable == Abs!Spec

\* A READY thread eventually runs: schedule appends an expired thread at
\* the tail, so although thread_unblock pushes woken threads to the head,
\* the timer keeps moving the threads ahead of a READY one behind it.
ReadyRuns == \A t \in Threads : status[t] = "READY" ~> status[t] = "RUNNING"
=============================================================================
