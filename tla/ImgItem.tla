------------------------------ MODULE ImgItem ------------------------------
(***************************************************************************)
(* Getting an item out of a package: the decoder of optimus_img_decoder.c  *)
(* over a FAT file or over a flash partition, and the three ways the card  *)
(* burner reads with it: slot by slot (optimus_burn_one_partition), whole  *)
(* (optimus_sdc_burn_dtb_load) and into a small buffer on the stack        *)
(* (optimus_verify_partition).                                             *)
(*                                                                         *)
(* A byte is its position in the package.  The FAT file is used as FatFile *)
(* shows it to behave: SeqFile, with reads refused when the memory is not  *)
(* sector aligned where a cluster starts.  Where the slots lie and when    *)
(* they are written out is the subject of BufManager.                      *)
(***************************************************************************)
EXTENDS Integers, Sequences

CONSTANTS ALIGN,       \* devAlignSz: bytes in a cluster, or a store block
          SectorSize,  \* bytes in a sector; divides ALIGN
          SLOT,        \* OPTIMUS_DOWNLOAD_SLOT_SZ, a multiple of ALIGN
          MaxVerify,   \* the largest VERIFY item
          Packages     \* records [src, size, items]; an item is [main, sub, id,
                       \* off, size]

Items == [main : {"PARTITION", "VERIFY", "dtb"}, sub : STRING, id : Nat, off : Nat, size : Nat]

\* What the constants are.
ASSUME ItemAssumption ==
    /\ {SectorSize, ALIGN, SLOT} \subseteq Nat \ {0}
    /\ ALIGN % SectorSize = 0 /\ SLOT % ALIGN = 0
    /\ MaxVerify \in Nat
    /\ \A p \in Packages :
        /\ p.src \in {"fat", "store"} /\ p.size \in Nat
        /\ p.items \in Seq(Items) /\ p.items # <<>>

VARIABLES pkg,      \* the package
          theItem,  \* index of the item the decoder's static record describes
          pos,      \* the file's position, or itemCurSeekOffsetInImg
          pc,       \* where the caller is
          part,     \* the names of the item being burned
          leftItemSz,  \* bytes still to be handed on
          seq,      \* sequenceNo
          fed,      \* the bytes handed on, in order
          ret       \* how the last call of a caller ended

itemVars == <<pkg, theItem, pos, pc, part, leftItemSz, seq, fed, ret>>

ImgItemInit ==
    /\ pkg \in Packages
    /\ theItem = 1
    /\ pos = 0
    /\ pc = "idle"
    /\ part = <<"none", "none">>
    /\ leftItemSz = 0
    /\ seq = 0
    /\ fed = <<>>
    /\ ret = "none"

Item(i) == pkg.items[i]
Bytes(from, n) == [i \in 1 .. n |-> from + i - 1]
Lesser(a, b) == IF a < b THEN a ELSE b
-----------------------------------------------------------------------------
(* The decoder. *)

\* image_item_open: the first item of that name, if it carries its own index
\* and, in a file, starts in it.
FindItem(main, sub) ==
    LET named == {i \in 1 .. Len(pkg.items) : Item(i).main = main /\ Item(i).sub = sub}
        first == CHOOSE i \in named : \A j \in named : i <= j
    IN  IF /\ named # {} /\ Item(first).id = first - 1
           /\ pkg.src = "store" \/ Item(first).off <= pkg.size
        THEN first ELSE 0

\* The table is walked through one static record, which is left at the item
\* found or wherever the walk ended; the position moves only on success.
Opened(main, sub) ==
    /\ FindItem(main, sub) # 0
    /\ theItem' = FindItem(main, sub)

NotOpened(main, sub) ==
    /\ FindItem(main, sub) = 0
    /\ theItem' \in {i \in 1 .. Len(pkg.items) : Item(i).sub = sub \/ i = Len(pkg.items)}
    /\ UNCHANGED pos

\* image_item_get_first_cluster_size: a whole cluster for an aligned item.
FirstClusterSize(off) == ALIGN - (off % ALIGN)

\* do_fat_fread, see FatFile!WholeReads.
FatServes(from, n, addr) ==
    LET first == (ALIGN - (from % ALIGN)) % ALIGN
    IN  /\ from + n <= pkg.size
        /\ (from % ALIGN # 0 /\ n < first) \/ (addr + first) % SectorSize = 0

\* Mutant: the rest is read from where the item was, not after the block.
StoreBytes_Again(from, n) ==
    LET not == from % ALIGN
        head == Lesser(ALIGN - not, n)
    IN  IF not # 0 THEN Bytes(from, head) \o Bytes(from, n - head) ELSE Bytes(from, n)

\* image_item_read from the store: an unaligned head through a block of its
\* own, then the rest from the next block on.
StoreBytes(from, n) ==
    LET not == from % ALIGN
        head == Lesser(ALIGN - not, n)
    IN  IF not # 0
        THEN Bytes((from - not) + not, head) \o Bytes(from + (ALIGN - not), n - head)
        ELSE Bytes(from, n)

CanRead(from, n, addr) == pkg.src = "store" \/ FatServes(from, n, addr)
ReadBytes(from, n) == IF pkg.src = "store" THEN StoreBytes(from, n) ELSE Bytes(from, n)
-----------------------------------------------------------------------------
(* optimus_burn_one_partition *)

Returns(res) ==
    /\ pc' = "idle"
    /\ ret' = res

BurnOpen(p) ==
    /\ pc = "idle"
    /\ part' = <<"PARTITION", p>>
    /\ seq' = 0
    /\ fed' = <<>>
    /\ \/ /\ NotOpened("PARTITION", p)
          /\ Returns("failed")
          /\ UNCHANGED leftItemSz
       \/ /\ Opened("PARTITION", p)
          /\ pos' = Item(theItem').off
          /\ IF Item(theItem').size = 0
             THEN Returns("failed") /\ UNCHANGED leftItemSz
             ELSE /\ leftItemSz' = Item(theItem').size - FirstClusterSize(Item(theItem').off)
                  /\ pc' = "loop"
                  /\ ret' = "none"
    /\ UNCHANGED pkg

\* One turn: the slot's buffer, before the first slot also the bytes up to
\* the first cluster end, placed right before it, then the slot itself.
BurnTurn ==
    LET head == IF seq = 0 THEN FirstClusterSize(Item(theItem).off) ELSE 0
        n == Lesser(leftItemSz, SLOT)
    IN  /\ pc = "loop"
        /\ leftItemSz > 0
        /\ \/ /\ CanRead(pos, head, SLOT - head)
              /\ CanRead(pos + head, n, 0)
              /\ fed' = fed \o ReadBytes(pos, head) \o ReadBytes(pos + head, n)
              /\ pos' = pos + head + n
              /\ leftItemSz' = leftItemSz - n
              /\ seq' = seq + 1
              /\ UNCHANGED <<pc, ret>>
           \/ /\ ~CanRead(pos, head, SLOT - head) \/ ~CanRead(pos + head, n, 0)
              /\ Returns("refused")
              /\ UNCHANGED <<fed, pos, leftItemSz, seq>>
        /\ UNCHANGED <<pkg, theItem, part>>

BurnDone ==
    /\ pc = "loop"
    /\ leftItemSz <= 0
    /\ pc' = "verify"
    /\ UNCHANGED <<pkg, theItem, pos, part, leftItemSz, seq, fed, ret>>

\* optimus_verify_partition, when the caller asks for it; the small buffer is
\* a local array, so its address is whatever the stack makes it.
VerifyItem ==
    /\ pc = "verify"
    /\ \/ Returns("ok") /\ UNCHANGED <<theItem, pos>>
       \/ NotOpened("VERIFY", part[2]) /\ Returns("ok")
       \/ /\ Opened("VERIFY", part[2])
          /\ Item(theItem').size \notin 1 .. MaxVerify
          /\ pos' = Item(theItem').off
          /\ Returns("failed")
       \/ /\ Opened("VERIFY", part[2])
          /\ Item(theItem').size \in 1 .. MaxVerify
          /\ \E addr \in 0 .. SectorSize - 1 :
                IF CanRead(Item(theItem').off, Item(theItem').size, addr)
                THEN /\ pos' = Item(theItem').off + Item(theItem').size
                     /\ \E res \in {"ok", "failed"} : Returns(res)
                ELSE pos' = Item(theItem').off /\ Returns("unread")
    /\ UNCHANGED <<pkg, part, leftItemSz, seq, fed>>

\* Mutant: the memory is not moved by the item's place in its cluster.
DtbAddr_Base(off) == 0

\* The device tree's memory, relative to a cluster boundary.
DtbAddr(off) == ALIGN - FirstClusterSize(off)

\* optimus_sdc_burn_dtb_load: the whole item at once, placed so that a
\* cluster end of the package is at a cluster end of the memory.
DtbLoad ==
    LET item == Item(FindItem("dtb", "meson1"))
    IN  /\ pc = "idle"
        /\ part' = <<"dtb", "meson1">>
        /\ \/ NotOpened("dtb", "meson1") /\ Returns("absent") /\ fed' = <<>>
           \/ /\ Opened("dtb", "meson1")
              /\ IF item.size = 0
                 THEN Returns("failed") /\ pos' = item.off /\ fed' = <<>>
                 ELSE IF ~CanRead(item.off, item.size, DtbAddr(item.off))
                 THEN Returns("refused") /\ pos' = item.off /\ fed' = <<>>
                 ELSE /\ Returns("ok")
                      /\ pos' = item.off + item.size
                      /\ fed' = ReadBytes(item.off, item.size)
        /\ UNCHANGED <<pkg, leftItemSz, seq>>

ImgItemNext ==
    \/ \E p \in {Item(i).sub : i \in 1 .. Len(pkg.items)} : BurnOpen(p)
    \/ BurnTurn \/ BurnDone \/ VerifyItem \/ DtbLoad

ImgItemSpec == ImgItemInit /\ [][ImgItemNext]_itemVars
-----------------------------------------------------------------------------
\* The item being burned.
Subject == FindItem(part[1], part[2])

(* The record of a call stays well formed.                                   *)
ImgItemTypeOK ==
    /\ pkg \in Packages
    /\ theItem \in 1 .. Len(pkg.items)
    /\ pos \in Nat
    /\ pc \in {"idle", "loop", "verify"}
    /\ leftItemSz \in Int /\ seq \in Nat /\ fed \in Seq(Nat)
    /\ ret \in {"none", "ok", "failed", "absent", "refused", "unread"}

(* What has been handed on is always the beginning of the item, in order and
   without a gap, whichever source the package comes from and however its
   start lies within a cluster; a burn that ends well has handed on every byte
   of the item, except for an item that ends within its first cluster (see
   PackageBurn!CompletedIsWritten).                                                  *)
BurntWhole ==
    /\ Subject # 0 => fed = Bytes(Item(Subject).off, Len(fed))
    /\ (ret \in {"ok", "unread"} /\ Subject # 0)
           => \/ Len(fed) = Item(Subject).size
              \/ part[1] # "dtb" /\ Item(Subject).size <= FirstClusterSize(Item(Subject).off)

(* The head placed before the first slot and the offset of the device tree's
   memory make every read of the burner and of the device tree loader meet the
   FAT reader's alignment rule: a read is refused only when the file ends
   before the item does.  The third read, of a VERIFY item, goes into a local
   array whose address the code does not choose; it is answered "unread" when
   it fails, and is not meant here.                                           *)
NeverRefused ==
    (ret = "refused" /\ Subject # 0) => Item(Subject).off + Item(Subject).size > pkg.size
=============================================================================
