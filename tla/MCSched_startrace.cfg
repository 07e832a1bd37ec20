\* Main, idle, init and two free pages, no reaper: a worker starting a
\* thread may be preempted between the two list_appends of thread_start.
CONSTANTS
    MAIN = MAIN
    IDLE = IDLE
    INITPROC = INITPROC
    Threads = {MAIN, IDLE, INITPROC, T1, T2}
    REAPERS = {}
    PIDBYTES = 1
    PARKED = 0
SPECIFICATION Spec
INVARIANT AllListTracksLive
