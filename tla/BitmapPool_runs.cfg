\* bitmap_scan for runs of 2 and 3 bits.
CONSTANTS
    NDEBUG = TRUE
    BYTES = 2
    COUNTS = {2, 3}
SPECIFICATION Spec
INVARIANT ScanIsLowestRun
