\* One direct slot and six free blocks: an entry alone in a block of the
\* indirect table, then its erase.
CONSTANTS
    NDIRECT = 1
    NINDIRECT = 2
    EPS = 2
    BYTES = 1
    DATA_START = 100
    PREUSED = {0, 1}
    Files = {f1, f2, f3}
    FREE = FREE
    DOT = DOT
    DOTDOT = DOTDOT
SPECIFICATION Spec
INVARIANT BitmapTracksBlocks
