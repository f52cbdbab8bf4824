----------------------------- MODULE BufManager -----------------------------
(***************************************************************************)
(* The transfer buffer manager of the burning stack                        *)
(* (v2_common/optimus_buffer_manager.c) together with the one client       *)
(* pattern its two users share: the USB bulk path and the SD card path     *)
(* both ask for the next slot of the transfer buffer, fill it, and report  *)
(* it; the manager decides when what has been gathered is handed to the    *)
(* media writer, and moves what the writer did not take below the buffer.  *)
(*                                                                         *)
(* A byte is modelled by its position in the image (0, 1, 2, ...), so mem  *)
(* says which byte of the image a buffer cell holds, and out which bytes   *)
(* the writer took (or, for an upload, the host was sent) and in which     *)
(* order.  Addresses are relative to BufBase: 0 is transferBuf (or the     *)
(* load address of a "mem" image), negative addresses are the left-data    *)
(* buffer that lies directly below it (optimus_download.h, 76-90).         *)
(***************************************************************************)
EXTENDS Integers, Sequences

CONSTANTS
    Unit,      \* transferUnitSz, OPTIMUS_DOWNLOAD_SLOT_SZ (64K)
    BufSz,     \* transferBufSz and OPTIMUS_SIMG_WRITE_BACK_SZ (64M)
    LeftMax,   \* OPTIMUS_SPARSE_IMG_LEFT_DATA_MAX_SZ (2M)
    Align,     \* left data is copied only in multiples of this (4)
    U32,       \* 2^32, the modulus of the u32 casts
    MemCap,    \* room above the load address of a "mem" image
    Packets    \* the download and upload commands that may be issued

(* The facts about the real sizes that the code relies on.  The u32 cast of *)
(* the running total is harmless only because 64K and 64M divide 2^32.      *)
ASSUME SizeAssumption ==
    /\ Unit \in Nat \ {0} /\ Align \in Nat \ {0} /\ LeftMax \in Nat
    /\ BufSz \in Nat /\ \E k \in 1..BufSz : BufSz = k * Unit
    /\ U32 \in Nat /\ \E k \in 1..U32 : U32 = k * BufSz
    /\ MemCap \in Nat /\ BufSz <= MemCap /\ MemCap < U32

(* A command: the kind of image, its size in bytes, the part of it that lies *)
(* before the first FAT cluster boundary (SD card burning only, never a      *)
(* "mem" image), and the direction.  A "mem" image fits the memory it is     *)
(* loaded to.                                                               *)
ASSUME PacketAssumption ==
    \A p \in Packets :
        /\ p.kind \in {"normal", "sparse", "bootloader", "mem"}
        /\ p.total \in Nat /\ p.notAligned \in 0..LeftMax /\ p.isUpload \in BOOLEAN
        /\ p.notAligned < p.total
        /\ (p.isUpload \/ p.kind = "mem") => p.notAligned = 0
        /\ p.isUpload => p.kind # "sparse"
        /\ p.kind = "mem" => p.total + Unit <= MemCap

VARIABLES
    \* struct bufManager
    writeBackUnitSz, tplcmdTotalSz, totalSlotNum, nextWriteBackSlot,
    leftDataSz, isUpload, itemOffsetNotAlignClusterSz_f,
    \* the client
    pkt,     \* the command being served
    phase,   \* "idle", "ready", "xfer", "filled", "done", "failed"
    sent,    \* bytes of the packet the client has reported
    pBuf,    \* the slot handed out by get_buf_for_bulk_transfer
    dumped,  \* upload only: bytes of the media read into the buffer
    \* memory and its consumer
    mem, out

bmVars == <<writeBackUnitSz, tplcmdTotalSz, totalSlotNum, nextWriteBackSlot,
            leftDataSz, isUpload, itemOffsetNotAlignClusterSz_f>>
clientVars == <<pkt, phase, sent, pBuf, dumped>>
vars == <<bmVars, clientVars, mem, out>>

Addr  == -LeftMax .. (MemCap - 1)
Stale == -1                       \* a cell that holds no byte of this image
NoPacket == [kind |-> "none", total |-> 0, notAligned |-> 0, isUpload |-> FALSE]

Lesser(a, b) == IF a < b THEN a ELSE b

(* Without the rounding up.                                                 *)
CeilSlots_Floor(n) == n \div Unit
CeilSlots(n) == (n + Unit - 1) \div Unit

(* The write-back unit tplcmd_init chooses: one slot, the whole transfer    *)
(* buffer, or the packet rounded up to whole slots.                         *)
WriteBackUnit(p) ==
    CASE p.kind \in {"bootloader", "mem"} -> CeilSlots(p.total - p.notAligned) * Unit
      [] p.kind = "sparse" \/ (p.kind = "normal" /\ p.notAligned > 0) -> BufSz
      [] OTHER -> Unit

(* Bytes of the packet not yet transferred, 0 once the total is passed.     *)
LeftPktSz(totalTransferSz) ==
    IF totalTransferSz > tplcmdTotalSz THEN 0 ELSE tplcmdTotalSz - totalTransferSz

Init ==
    /\ writeBackUnitSz = Unit /\ tplcmdTotalSz = 0 /\ totalSlotNum = 0
    /\ nextWriteBackSlot = 0 /\ leftDataSz = 0 /\ isUpload = FALSE
    /\ itemOffsetNotAlignClusterSz_f = 0
    /\ pkt = NoPacket /\ phase = "idle" /\ sent = 0 /\ pBuf = 0 /\ dumped = 0
    /\ mem = [a \in Addr |-> Stale] /\ out = <<>>

(* optimus_buf_manager_tplcmd_init: a new command.  Whatever is in memory   *)
(* from an earlier image is stale for this one.  A refused command leaves   *)
(* the manager alone, except for the destination (part of pkt here), and    *)
(* the client does not start.                                               *)
TplcmdInit(p) ==
    LET pktSz == p.total - p.notAligned
        wb    == WriteBackUnit(p)
        refused == \/ p.kind = "bootloader" /\ pktSz > BufSz
                   \/ BufSz < wb /\ p.kind # "mem"
                   \/ Unit > wb
    IN /\ phase \in {"idle", "done", "failed"}
       /\ pkt' = p /\ sent' = 0 /\ dumped' = 0 /\ out' = <<>>
       /\ mem' = [a \in Addr |-> Stale]
       /\ IF refused
          THEN phase' = "failed" /\ UNCHANGED <<bmVars, pBuf>>
          ELSE /\ phase' = "ready"
               /\ writeBackUnitSz' = wb
               /\ totalSlotNum' = 0
               /\ isUpload' = p.isUpload
               /\ nextWriteBackSlot' = IF p.isUpload THEN 0
                                       ELSE IF pktSz < wb THEN CeilSlots(pktSz % U32)
                                       ELSE wb \div Unit
               /\ itemOffsetNotAlignClusterSz_f' = p.notAligned
               /\ leftDataSz' = p.notAligned
               /\ tplcmdTotalSz' = pktSz
               /\ UNCHANGED pBuf

(* A last transfer padded to a slot.                                        *)
WantSz_WholeSlot == Unit

(* The size of the client's next transfer: a slot, or what is left.         *)
WantSz == Lesser(Unit, tplcmdTotalSz - sent)

(* optimus_buf_manager_get_buf_for_bulk_transfer: the next slot; for an     *)
(* upload, a whole write-back unit is read from the media when the buffer   *)
(* is at its start (this read may fail).                                    *)
GetBuf(wantSz) ==
    LET totalTransferSz == totalSlotNum * Unit
        leftPktSz == LeftPktSz(totalTransferSz)
        bufSzNotDisposed == (totalTransferSz % U32) % writeBackUnitSz
        dumpSz == Lesser(leftPktSz, writeBackUnitSz)
    IN IF wantSz < Unit /\ leftPktSz # wantSz
       THEN /\ phase' = "failed"
            /\ UNCHANGED <<bmVars, pkt, sent, pBuf, dumped, mem, out>>
       ELSE /\ pBuf' = bufSzNotDisposed
            /\ IF bufSzNotDisposed = 0 /\ isUpload
               THEN \/ /\ mem' = [a \in Addr |-> IF a \in 0..(dumpSz - 1)
                                                 THEN dumped + a ELSE mem[a]]
                       /\ dumped' = dumped + dumpSz
                       /\ phase' = "filled"
                    \/ phase' = "failed" /\ UNCHANGED <<mem, dumped>>
               ELSE /\ phase' = IF isUpload THEN "filled" ELSE "xfer"
                    /\ UNCHANGED <<mem, dumped>>
            /\ UNCHANGED <<writeBackUnitSz, tplcmdTotalSz, totalSlotNum,
                           nextWriteBackSlot, leftDataSz, isUpload,
                           itemOffsetNotAlignClusterSz_f, pkt, sent, out>>

NextSlot ==
    /\ phase = "ready" /\ sent < tplcmdTotalSz
    /\ GetBuf(WantSz)

(* The client fills the slot.  On its first transfer the SD card path also  *)
(* reads the bytes before the first cluster boundary, to just below it.     *)
Fill ==
    /\ phase = "xfer"
    /\ mem' = [a \in Addr |->
                 IF \/ a \in pBuf..(pBuf + WantSz - 1)
                    \/ sent = 0 /\ a \in (pBuf - pkt.notAligned)..(pBuf - 1)
                 THEN pkt.notAligned + sent + (a - pBuf)
                 ELSE mem[a]]
    /\ phase' = "filled"
    /\ UNCHANGED <<bmVars, pkt, sent, pBuf, dumped, out>>

(* A USB transfer whose checksum is wrong: the slot holds garbage, nothing  *)
(* is reported, and the host sends the packet again to the same slot.       *)
FillCorrupt ==
    /\ phase = "xfer"
    /\ mem' = [a \in Addr |-> IF a \in pBuf..(pBuf + WantSz - 1) THEN Stale ELSE mem[a]]
    /\ UNCHANGED <<bmVars, clientVars, out>>

(* The client gives up: the host or the card is gone, or a read failed.     *)
Abort ==
    /\ phase \in {"ready", "xfer"}
    /\ phase' = "failed"
    /\ UNCHANGED <<bmVars, pkt, sent, pBuf, dumped, mem, out>>

(* What the media writer may answer to n bytes: everything or failure (0),  *)
(* and, for the sparse parser, any part; the parser can even claim a little *)
(* more than it was given (its unparsed count wraps when a fill chunk's     *)
(* value is cut off), which the manager must refuse.                        *)
Overrun == 1
WriterResults(n) == IF pkt.kind = "sparse" THEN 0..(n + Overrun) ELSE {0, n}

(* The bytes at addresses from .. from + n - 1.                             *)
Bytes(from, n) == [i \in 1..n |-> mem[from + i - 1]]

(* The quantities report_transfer_complete computes on entry for a slot of  *)
(* transferSz bytes: the running total, the data that a write-back would    *)
(* cover, and how much of it the writer is offered.                         *)
TotalTransferSz(transferSz) == totalSlotNum * Unit + transferSz

(* A last partial unit taken for a whole one.                               *)
ThisWriteBackSz_AlwaysUnit(transferSz) == writeBackUnitSz
ThisWriteBackSz(transferSz) ==
    IF transferSz = Unit THEN writeBackUnitSz
    ELSE (TotalTransferSz(transferSz) % U32) % writeBackUnitSz
GivenSz(transferSz) ==
    leftDataSz + ThisWriteBackSz(transferSz)
      - IF LeftPktSz(TotalTransferSz(transferSz)) > 0 THEN itemOffsetNotAlignClusterSz_f ELSE 0
WriteBackDue == totalSlotNum + 1 = nextWriteBackSlot

(* The limit of the left data dropped.                                      *)
BurnRefused_NoLeftLimit(transferSz, burnSz) ==
    burnSz <= leftDataSz \/ GivenSz(transferSz) < burnSz

(* The checks on the writer's answer burnSz that fail the transfer.         *)
BurnRefused(transferSz, burnSz) ==
    LET leftSz == leftDataSz + ThisWriteBackSz(transferSz) - burnSz
    IN \/ burnSz <= leftDataSz
       \/ GivenSz(transferSz) < burnSz
       \/ leftSz > 0 /\ \/ TotalTransferSz(transferSz) >= tplcmdTotalSz
                        \/ leftSz > LeftMax
                        \/ leftSz % Align # 0

(* The write-back of report_transfer_complete: the writer takes burnSz      *)
(* bytes; what it leaves is moved to just below the buffer, and the slot of *)
(* the next write-back is set.                                              *)
WriteBack(transferSz, burnSz) ==
    LET leftPktSz == LeftPktSz(TotalTransferSz(transferSz))
        leftSz    == leftDataSz + ThisWriteBackSz(transferSz) - burnSz
    IN /\ out' = out \o Bytes(-leftDataSz, Lesser(burnSz, GivenSz(transferSz)))
       /\ IF BurnRefused(transferSz, burnSz)
          THEN phase' = "failed" /\ UNCHANGED <<mem, leftDataSz, nextWriteBackSlot>>
          ELSE /\ mem' = [a \in Addr |-> IF a \in -leftSz..-1
                                         THEN mem[a + ThisWriteBackSz(transferSz)] ELSE mem[a]]
               /\ leftDataSz' = leftSz
               /\ nextWriteBackSlot' = nextWriteBackSlot +
                      IF leftPktSz >= writeBackUnitSz
                      THEN writeBackUnitSz \div Unit ELSE CeilSlots(leftPktSz % U32)
               /\ phase' = IF sent' = tplcmdTotalSz THEN "done" ELSE "ready"

(* optimus_buf_manager_report_transfer_complete, with the answer burnSz of  *)
(* the media writer when this slot triggers a write-back.                   *)
Report(transferSz, burnSz) ==
    /\ totalSlotNum' = totalSlotNum + 1
    /\ sent' = sent + transferSz
    /\ IF WriteBackDue
       THEN burnSz \in WriterResults(GivenSz(transferSz)) /\ WriteBack(transferSz, burnSz)
       ELSE /\ burnSz = 0
            /\ out' = IF isUpload THEN out \o Bytes(pBuf, transferSz) ELSE out
            /\ phase' = IF sent' = tplcmdTotalSz THEN "done" ELSE "ready"
            /\ UNCHANGED <<mem, leftDataSz, nextWriteBackSlot>>
    /\ UNCHANGED <<writeBackUnitSz, tplcmdTotalSz, isUpload,
                   itemOffsetNotAlignClusterSz_f, pkt, pBuf, dumped>>

ReportTransferComplete ==
    /\ phase = "filled"
    /\ \E burnSz \in 0..(leftDataSz + writeBackUnitSz + Overrun) : Report(WantSz, burnSz)

Next ==
    \/ \E p \in Packets : TplcmdInit(p)
    \/ NextSlot
    \/ Fill
    \/ FillCorrupt
    \/ ReportTransferComplete
    \/ Abort

Spec == Init /\ [][Next]_vars

(* The code between a command and its end is one loop without waiting.      *)
BufFairness == WF_vars(NextSlot \/ Fill \/ ReportTransferComplete)

-----------------------------------------------------------------------------
(* A packet whose last transfer is a whole slot but does not complete a     *)
(* write-back unit: report_transfer_complete takes it for a complete unit.  *)
OverCounted ==
    /\ ~pkt.isUpload
    /\ (pkt.total - pkt.notAligned) % Unit = 0
    /\ (pkt.total - pkt.notAligned) % WriteBackUnit(pkt) # 0

(* The state components have their types.                                   *)
TypeOK ==
    /\ writeBackUnitSz \in Nat \ {0} /\ tplcmdTotalSz \in Nat
    /\ totalSlotNum \in Nat /\ nextWriteBackSlot \in Nat
    /\ leftDataSz \in Nat /\ isUpload \in BOOLEAN
    /\ itemOffsetNotAlignClusterSz_f \in Nat
    /\ pkt \in Packets \cup {NoPacket}
    /\ phase \in {"idle", "ready", "xfer", "filled", "done", "failed"}
    /\ sent \in Nat /\ pBuf \in Nat /\ dumped \in Nat
    /\ mem \in [Addr -> Nat \cup {Stale}] /\ out \in Seq(Nat \cup {Stale})

(* A slot handed out lies inside the write-back unit, which lies inside the *)
(* transfer buffer (or the memory of a "mem" image), and the left data fit  *)
(* the left-data buffer: get_buf_for_bulk_transfer checks none of this when *)
(* it computes the address from the running total.                          *)
SlotInBuffer ==
    phase \in {"xfer", "filled"} =>
        /\ pBuf + WantSz <= writeBackUnitSz
        /\ writeBackUnitSz <= IF pkt.kind = "mem" THEN MemCap ELSE BufSz
        /\ leftDataSz <= LeftMax

(* The bytes the media writer takes (or the host is sent) are the bytes of  *)
(* the image from its first on, in order, none twice and none left out:     *)
(* slot addresses, write-back sizes and the moving of left data agree, also *)
(* past 4 GB.                                                               *)
InOrder == ~OverCounted => \A i \in DOMAIN out : out[i] = i - 1

(* When the client has reported the last transfer and no call failed, all   *)
(* of the image has been taken: the last write-back is never missed and no  *)
(* left data stay behind.                                                   *)
DoneComplete == phase = "done" /\ ~OverCounted => Len(out) = pkt.total

(* Every command ends, with all transfers reported or with an error.        *)
CommandEnds == (phase = "ready") ~> (phase \in {"done", "failed"})

(* What optimus_buffer_manager.c, 34 says of a write-back: "then write back *)
(* the recevied data to media": no byte is written that was not received.   *)
OnlyReceivedWritten == \A i \in DOMAIN out : out[i] # Stale

-----------------------------------------------------------------------------
(* The inductive invariant behind the properties above.  While a command is *)
(* served, the bytes reported fall into whole write-back units (Base) and a *)
(* part of one that is still in the buffer (InUnit).                        *)
Active == phase \in {"ready", "xfer", "filled"}
InUnit == sent % writeBackUnitSz
Base   == sent - InUnit

(* The write-back unit is a number of slots and has its room.               *)
RoomInv ==
    /\ \E k \in 1..writeBackUnitSz : writeBackUnitSz = k * Unit
    /\ writeBackUnitSz <= MemCap
    /\ leftDataSz <= LeftMax

(* The manager holds the parameters of the command.                         *)
CommandInv ==
    Active =>
        /\ pkt \in Packets
        /\ tplcmdTotalSz = pkt.total - pkt.notAligned
        /\ writeBackUnitSz = WriteBackUnit(pkt)
        /\ pkt.kind # "mem" => writeBackUnitSz <= BufSz
        /\ isUpload = pkt.isUpload
        /\ itemOffsetNotAlignClusterSz_f = pkt.notAligned
        /\ sent = totalSlotNum * Unit
        /\ sent < tplcmdTotalSz
        /\ phase # "ready" => pBuf = InUnit

(* The next write-back falls due with the last slot of the unit, or with    *)
(* the last slot of the packet when that comes first.                       *)
DueInv ==
    Active =>
        IF isUpload THEN nextWriteBackSlot = 0
        ELSE IF tplcmdTotalSz - Base >= writeBackUnitSz
        THEN nextWriteBackSlot * Unit = Base + writeBackUnitSz
        ELSE /\ tplcmdTotalSz <= nextWriteBackSlot * Unit
             /\ nextWriteBackSlot * Unit < tplcmdTotalSz + Unit

(* What has been taken, and what of the image the buffer holds.             *)
Held == InUnit + IF phase = "filled" THEN WantSz ELSE 0
DownloadInv ==
    Active /\ ~isUpload =>
        /\ Len(out) = pkt.notAligned + Base - leftDataSz
        /\ sent > 0 \/ phase = "filled" =>
              \A a \in -leftDataSz..(Held - 1) : mem[a] = pkt.notAligned + Base + a
        /\ sent = 0 => leftDataSz = pkt.notAligned
        /\ leftDataSz >= pkt.notAligned

UnitLoaded == Lesser(tplcmdTotalSz - Base, writeBackUnitSz)
UploadInv ==
    Active /\ isUpload =>
        /\ Len(out) = sent
        /\ phase # "xfer"
        /\ IF phase = "filled" \/ InUnit # 0
           THEN /\ dumped = Base + UnitLoaded
                /\ \A a \in 0..(UnitLoaded - 1) : mem[a] = Base + a
           ELSE dumped = Base

IInv == /\ TypeOK /\ RoomInv /\ CommandInv /\ DueInv /\ DownloadInv /\ UploadInv
        /\ InOrder /\ DoneComplete
=============================================================================
