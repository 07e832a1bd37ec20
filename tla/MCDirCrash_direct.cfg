\* Three direct blocks, three slots each, two free blocks, four files, and
\* one power failure between directory calls followed by a remount.
CONSTANTS
    NDIRECT = 3
    NINDIRECT = 2
    EPS = 3
    BYTES = 1
    DATA_START = 100
    PREUSED = {0, 1, 2, 3, 4}
    Files = {f1, f2, f3, f4}
    FREE = FREE
    DOT = DOT
    DOTDOT = DOTDOT
    MAXCRASH = 1
SPECIFICATION CrashSpec

INVARIANTS Durable NoDanglingBlock
