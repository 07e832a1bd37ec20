\* One directory of three direct blocks (three slots each, two free blocks in
\* the partition) and five files, changed by any sequence of appends and
\* erases and read by one stream between changes.
CONSTANTS
    NDIRECT = 3
    NINDIRECT = 2
    EPS = 3
    BYTES = 1
    DATA_START = 100
    PREUSED = {0, 1, 2, 3, 4}
    Files = {f1, f2, f3, f4, f5}
    FREE = FREE
    DOT = DOT
    DOTDOT = DOTDOT
SPECIFICATION IterSpec

INVARIANTS TypeOK SizeMatchesLive BitmapTracksBlocks DiskBitmapMatches FirstBlockKept EmptyDirRemovable StreamListsDirOnce DirReadInBounds
PROPERTY ImplementsDirSet
VIEW IterView
