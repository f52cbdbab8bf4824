------------------------------ MODULE MCUsbBurn ------------------------------
(* Instances of UsbBurn for TLC: slots of two bytes, a buffer of two slots.  *)
EXTENDS UsbBurn

Cmd(fmts, parts, medias, totals, ups) ==
    {[kind |-> Kind(c), notAligned |-> 0, fmt |-> c.fmt, part |-> c.part,
      media |-> c.media, total |-> c.total, isUpload |-> c.isUpload] :
        c \in [fmt : fmts, part : parts, media : medias, total : totals, isUpload : ups]}

(* Images of one to three write-back units in every format, and uploads.     *)
MCPackets ==
    Cmd({"normal"}, {"system"}, {"store"}, {1, 2, 3, 4}, {FALSE})
      \cup Cmd({"sparse"}, {"system"}, {"store"}, {1, 2, 4, 6, 7}, {FALSE})
      \cup Cmd({"normal"}, {"bootloader"}, {"store"}, {2, 3, 4, 5}, {FALSE})
      \cup Cmd({"normal"}, {"mac"}, {"key"}, {1, 2}, {FALSE})
      \cup Cmd({"normal"}, {"dtb"}, {"mem"}, {3}, {FALSE})
      \cup Cmd({"normal"}, {"system"}, {"store", "mem"}, {1, 5}, {TRUE})
      \cup Cmd({"normal"}, {"system"}, {"spiflash"}, {2}, {FALSE})
=============================================================================
