---------------------------- MODULE MCBufManager ----------------------------
(* Instances of BufManager for TLC: slots of 4 bytes, a buffer of 2 slots   *)
(* and casts modulo 16, so images of up to 20 bytes wrap the u32 total.     *)
EXTENDS BufManager

P(kinds, totals, offs, ups) ==
    {p \in [kind : kinds, total : totals, notAligned : offs, isUpload : ups] :
        p.notAligned < p.total}

(* Every size from one byte to beyond the u32 wrap, in each kind.           *)
MCPackets ==
    P({"normal"}, 1..21, 0..2, {FALSE}) \cup P({"normal"}, 1..18, {0}, {TRUE})
      \cup P({"sparse"}, {3, 8, 12, 17, 18, 21}, {0}, {FALSE}) \cup P({"sparse"}, {19}, {2}, {FALSE})
      \cup P({"bootloader"}, 1..11, {0, 1}, {FALSE}) \cup P({"mem"}, 1..11, {0}, BOOLEAN)

(* A normal image on an SD card whose part after the first cluster boundary *)
(* is one slot long.                                                        *)
MCOverCounted == P({"normal"}, {5, 6}, {1}, {FALSE})
=============================================================================
