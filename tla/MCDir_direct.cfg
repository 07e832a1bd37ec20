\* The dir_stream directory: three direct slots, three entries per sector,
\* two free blocks, five files.  Reclaiming the middle block leaves a hole
\* before a live block that still has free slots.
CONSTANTS
    NDIRECT = 3
    NINDIRECT = 2
    EPS = 3
    BYTES = 1
    DATA_START = 100
    PREUSED = {0, 1, 2, 3, 4}
    Files = {f1, f2, f3, f4, f5}
    FREE = FREE
    DOT = DOT
    DOTDOT = DOTDOT
SPECIFICATION Spec

PROPERTY SlotReuse
