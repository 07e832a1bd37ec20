\* As MCDirCrash_direct.cfg, but power may also fail inside delete_dir_entry,
\* after it frees a block and before its inode_sync; five files, so that a
\* later append needs a block of its own.
CONSTANTS
    NDIRECT = 3
    NINDIRECT = 2
    EPS = 3
    BYTES = 1
    DATA_START = 100
    PREUSED = {0, 1, 2, 3, 4}
    Files = {f1, f2, f3, f4, f5}
    FREE = FREE
    DOT = DOT
    DOTDOT = DOTDOT
    MAXCRASH = 1
SPECIFICATION CrashSpecInDelete

INVARIANT Durable
