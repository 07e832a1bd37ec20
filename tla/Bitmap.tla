------------------------------- MODULE Bitmap -------------------------------
(***************************************************************************)
(* The bit-vector primitives of src/lib/kernel/bitmap.c.                   *)
(*                                                                         *)
(* A bitmap is a function from bit index 0 .. 8*btmp_bytes_len-1 to       *)
(* {0,1}; bit i lives in byte i \div 8 at position i % 8, exactly as in   *)
(* bitmap_scan_test and bitmap_set.  The operators are pure: the modules   *)
(* that own a bitmap (the block bitmap of a partition, the pid pool) call  *)
(* them inside their own actions.                                          *)
(*                                                                         *)
(* bitmap_scan reads one bit past the end of the byte array (the last      *)
(* iteration of its run loop).  That read is undefined behaviour; its      *)
(* outcome is the parameter oob, which callers choose nondeterministically.*)
(***************************************************************************)
EXTENDS Integers, FiniteSetsExt

CONSTANT NDEBUG   \* TRUE when the kernel is built with ASSERT compiled out

ASSUME NDEBUG \in BOOLEAN

\* Result of a call that stopped the kernel in panic_spin (a failed ASSERT).
PANIC == -2

\* bitmap_scan_test: is bit set?  A bit past the array reads the UB value oob.
BitmapScanTest(bm, oob, bit) ==
    IF bit \in DOMAIN bm THEN bm[bit] = 1 ELSE oob = 1

\* A byte of the array equal to 0xff.
ByteFull(bm, byte) == \A i \in 0..7 : bm[8 * byte + i] = 1

\* Mutant: the byte-skip loop never looks at the last byte.
FirstFreeByte_skipsLast(bm, len) ==
    LET free == {b \in 0..(len - 2) : ~ByteFull(bm, b)}
    IN  IF free = {} THEN len ELSE Min(free)

\* The first loop of bitmap_scan: skip every byte equal to 0xff; len when
\* every byte is full.
FirstFreeByte(bm, len) ==
    LET free == {b \in 0..(len - 1) : ~ByteFull(bm, b)}
    IN  IF free = {} THEN len ELSE Min(free)

\* The second loop: the lowest clear bit inside a byte that is not 0xff.
FirstFreeBit(bm, byte) == Min({i \in 0..7 : bm[8 * byte + i] = 0})

\* The run loop: `left` iterations remain, `count` clear bits have been
\* seen in a row ending just before `next`; a set bit resets count to 0.
RECURSIVE RunScan(_, _, _, _, _, _)
RunScan(bm, oob, cnt, next, left, count) ==
    IF left = 0 THEN -1
    ELSE LET c == IF BitmapScanTest(bm, oob, next) THEN 0 ELSE count + 1
         IN  IF c = cnt THEN next - cnt + 1
             ELSE RunScan(bm, oob, cnt, next + 1, left - 1, c)

\* bitmap_scan(btmp, cnt): the start of a run of cnt clear bits, or -1.
\* The ASSERT before `return -1` halts the kernel unless NDEBUG.
BitmapScan(bm, len, cnt, oob) ==
    LET byte == FirstFreeByte(bm, len)
    IN  IF byte = len
        THEN IF NDEBUG THEN -1 ELSE PANIC
        ELSE LET start == 8 * byte + FirstFreeBit(bm, byte)
             IN  IF cnt = 1 THEN start
                 ELSE RunScan(bm, oob, cnt, start + 1, 8 * len - start, 1)

\* bitmap_set(btmp, bit_idx, value), value \in {0,1}.
BitmapSet(bm, bit, value) == [bm EXCEPT ![bit] = value]

(***************************************************************************)
(* Reference: the lowest s such that bits s .. s+cnt-1 are all clear and   *)
(* inside the bitmap, or -1 (spec section 8, "bitmap scan correctness").   *)
(***************************************************************************)
ReferenceScan(bm, cnt) ==
    LET starts == {s \in DOMAIN bm :
                     /\ s + cnt - 1 \in DOMAIN bm
                     /\ \A i \in s..(s + cnt - 1) : bm[i] = 0}
    IN  IF starts = {} THEN -1 ELSE Min(starts)
=============================================================================
