---------------------------- MODULE ThreadTable ----------------------------
(***************************************************************************)
(* What the scheduler of thread.c promises about threads, with no lists,  *)
(* no pids and no interrupt flag: each PCB page is free, ready, running,  *)
(* blocked or dead, and exactly one thread runs.  A page is started only  *)
(* when free; only a blocked thread is woken; the CPU passes from the      *)
(* running thread to a ready one, or to the idle thread when nothing is   *)
(* ready; a dead thread never comes back.                                  *)
(***************************************************************************)
CONSTANTS
    Threads,  \* PCB pages
    IDLE      \* the thread run when nothing is ready

VARIABLES
    state,    \* each page's place in the life of a thread
    running   \* the thread on the CPU

vars == <<state, running>>

States == {"free", "ready", "running", "blocked", "dead"}

TypeOK ==
    /\ state \in [Threads -> States]
    /\ running \in Threads

Init ==
    /\ running \in Threads
    /\ state \in [Threads -> {"free", "ready", "running"}]
    /\ \A t \in Threads : state[t] = "running" <=> t = running

\* A free page becomes a ready thread.
Start(t) ==
    /\ state[t] = "free"
    /\ state' = [state EXCEPT ![t] = "ready"]
    /\ UNCHANGED running

\* A blocked thread is made ready.
Wake(t) ==
    /\ state[t] = "blocked"
    /\ state' = [state EXCEPT ![t] = "ready"]
    /\ UNCHANGED running

\* A blocked thread that is not running is freed by another.
Reap(t) ==
    /\ state[t] = "blocked" /\ t # running
    /\ state' = [state EXCEPT ![t] = "free"]
    /\ UNCHANGED running

\* The running thread leaves the CPU as o, and n takes it: a ready thread,
\* or the blocked idle thread when no thread is ready once the running one
\* has left.
Switch(n, o) ==
    LET st == [state EXCEPT ![running] = o]
    IN  /\ n # running
        /\ \/ state[n] = "ready"
           \/ n = IDLE /\ state[n] = "blocked" /\ \A t \in Threads : st[t] # "ready"
        /\ state' = [st EXCEPT ![n] = "running"]
        /\ running' = n

Next ==
    \/ \E t \in Threads : Start(t) \/ Wake(t) \/ Reap(t)
    \/ \E n \in Threads, o \in States \ {"running"} : Switch(n, o)

Spec == Init /\ [][Next]_vars
=============================================================================
