\* bitmap_scan(btmp, 1), the only run length the kernel asks for, in a
\* release build: two bytes, so the byte-skip loop passes a full byte.
CONSTANTS
    NDEBUG = TRUE
    BYTES = 2
    COUNTS = {1}
SPECIFICATION Spec
INVARIANT ScanIsLowestRun
