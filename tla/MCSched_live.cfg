\* Main, idle, init (whose wait() reaps HANGING children) and two more
\* pages; a one-byte pid pool with room to spare.
CONSTANTS
    MAIN = MAIN
    IDLE = IDLE
    INITPROC = INITPROC
    Threads = {MAIN, IDLE, INITPROC, T1, T2}
    REAPERS = {INITPROC}
    PIDBYTES = 1
    PARKED = 0
SPECIFICATION Spec
INVARIANTS SchedConsistent PidsUnique
PROPERTIES ReadyRuns ImplementsThreadTable
