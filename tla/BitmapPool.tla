----------------------------- MODULE BitmapPool -----------------------------
(***************************************************************************)
(* A bitmap used as an allocator of single resources: the block bitmap of  *)
(* a partition (block_bitmap_alloc, and bitmap_set(.., 0) when a block is  *)
(* reclaimed).  The state is the bit array; it starts all clear as after   *)
(* bitmap_init.  Every bitmap is reachable from the empty one, so the      *)
(* invariant below checks bitmap_scan against its reference on all bit     *)
(* vectors of BYTES bytes.                                                 *)
(***************************************************************************)
EXTENDS Integers, Bitmap

CONSTANTS
    BYTES,   \* btmp_bytes_len
    COUNTS   \* the run lengths cnt the invariant asks bitmap_scan for

ASSUME BYTES \in Nat \ {0} /\ COUNTS \subseteq 1..(8 * BYTES)

VARIABLE bits

Bits == 0..(8 * BYTES - 1)

\* bitmap_init
Init == bits = [i \in Bits |-> 0]

\* block_bitmap_alloc: scan for one clear bit and set it; -1 (or a panic)
\* leaves the bitmap as it was.
Alloc ==
    LET r == BitmapScan(bits, BYTES, 1, 0)
    IN  /\ r \in Bits
        /\ bits' = BitmapSet(bits, r, 1)

\* bitmap_set(btmp, b, 0) on an allocated resource.
Free(b) ==
    /\ bits[b] = 1
    /\ bits' = BitmapSet(bits, b, 0)

Next == Alloc \/ \E b \in Bits : Free(b)

Spec == Init /\ [][Next]_bits

(***************************************************************************)
(* bitmap_scan(btmp, cnt) returns the lowest start of a run of cnt clear  *)
(* bits lying inside the bitmap, or -1 when there is none, whatever the    *)
(* byte past the array holds (spec section 8).  It exercises the byte-skip *)
(* fast path, the bit search in the first non-full byte and the run loop   *)
(* with its restart on a set bit.                                          *)
(***************************************************************************)
ScanIsLowestRun ==
    \A cnt \in COUNTS, oob \in {0, 1} :
        BitmapScan(bits, BYTES, cnt, oob) = ReferenceScan(bits, cnt)
=============================================================================
