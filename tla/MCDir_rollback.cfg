\* One direct slot and a single free block: creating the indirect table
\* succeeds, allocating its first block fails.
CONSTANTS
    NDIRECT = 1
    NINDIRECT = 2
    EPS = 2
    BYTES = 1
    DATA_START = 100
    PREUSED = {0, 1, 2, 3, 4, 5}
    Files = {f1, f2}
    FREE = FREE
    DOT = DOT
    DOTDOT = DOTDOT
SPECIFICATION Spec
INVARIANT DiskBitmapMatches
