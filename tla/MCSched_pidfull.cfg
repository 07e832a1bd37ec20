\* Five parked threads hold pids 4 to 8, so the one-byte pool is full
\* after boot; the next thread_start finds no free bit.
CONSTANTS
    MAIN = MAIN
    IDLE = IDLE
    INITPROC = INITPROC
    Threads = {MAIN, IDLE, INITPROC, T1, T2}
    REAPERS = {}
    PIDBYTES = 1
    PARKED = 5
SPECIFICATION Spec
INVARIANT PidsUnique
