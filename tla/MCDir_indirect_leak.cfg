\* One direct slot, so the second logical block is the first one reached
\* through the indirect table; six free blocks.
CONSTANTS
    NDIRECT = 1
    NINDIRECT = 2
    EPS = 2
    BYTES = 1
    DATA_START = 100
    PREUSED = {0, 1}
    Files = {f1, f2, f3}
    FREE = FREE
    DOT = DOT
    DOTDOT = DOTDOT
SPECIFICATION Spec
PROPERTY ImplementsDirSet
