----------------------------- MODULE SparseImage -----------------------------
(***************************************************************************)
(* The sparse image parser (v2_common/optimus_simg2img.c): a partition     *)
(* image in Android's sparse format arrives in windows of the transfer     *)
(* buffer, and each window is cut wherever the buffer ends, in a header,   *)
(* in the data of a chunk or before the value of a fill chunk.  The parser *)
(* writes what it can, leaves the rest for the next window, and keeps the  *)
(* chunk headers for the verification.                                     *)
(*                                                                         *)
(* The unit is a word of four bytes.  A word of the image is modelled by   *)
(* its offset in the image, the value of a fill chunk by a number below 0; *)
(* media[a] is the word at address a of the partition.  Addresses count    *)
(* words; the code counts sectors, which is the same as a block is a       *)
(* number of sectors.                                                      *)
(***************************************************************************)
EXTENDS Integers, Sequences

CONSTANTS
    Images,     \* sequences of chunks
    FileHead,   \* words of the file header (7)
    ChunkHead,  \* words of a chunk header (3)
    Blk,        \* words of a block (sparseBlkSz)
    Slot,       \* a long chunk is written in multiples of this (64K)
    Window,     \* the transfer buffer (64M)
    FillBufSz,  \* the buffer that is filled with a fill value (64K)
    MaxAddr,    \* words of the partition that are modelled
    U32         \* the modulus of the unsigned counters

Garbage == -1    \* what lay on the medium, or in memory, before
Erased  == -2    \* what an erased medium shows

FillSz  == 1     \* words of a fill value

(* A chunk of type "raw", "fill", "dontcare" or "bad" (any chunk the parser  *)
(* refuses, as one whose total size does not fit its type), its size in     *)
(* blocks, and the value of a fill chunk.                                   *)
Chunks == [type : {"raw", "fill", "dontcare", "bad"}, blks : Nat, val : {v \in Int : v < Garbage}]

(* The words a chunk stands for, and the number the code computes of them,   *)
(* which is an unsigned int and wraps.                                      *)
DataLen(c) == c.blks * Blk
ChunkDataLen(c) == DataLen(c) % U32
TotalSz(c) == ChunkHead + CASE c.type = "raw"  -> ChunkDataLen(c)
                            [] c.type = "fill" -> FillSz
                            [] OTHER           -> 0

(* The sums of the first costs from a on, one more than there are costs.    *)
SumsOf(n, a, cost) ==
    LET s[i \in 1..(n + 1)] == IF i = 1 THEN a ELSE s[i - 1] + cost[i - 1] IN s

(* The offsets of the chunk headers of an image, the addresses the parser    *)
(* reaches for the data, and those where the data belong.                   *)
HeadsOf(im)  == SumsOf(Len(im), FileHead, [i \in 1..Len(im) |-> TotalSz(im[i])])
AddrsOf(im)  == SumsOf(Len(im), 0, [i \in 1..Len(im) |-> ChunkDataLen(im[i])])
PlacesOf(im) == SumsOf(Len(im), 0, [i \in 1..Len(im) |-> DataLen(im[i])])

(* An image fits its partition, and a window and what the one before it left *)
(* are far from the largest number.                                         *)
ASSUME SparseAssumption ==
    /\ {FileHead, ChunkHead, Blk, Slot, Window, FillBufSz} \subseteq Nat \ {0}
    /\ MaxAddr \in Nat /\ U32 \in Nat \ {0}
    /\ FileHead <= Window /\ Slot < Window
    /\ Window + Slot < U32 /\ Window + ChunkHead < U32
    /\ \A im \in Images : im \in Seq(Chunks) /\ AddrsOf(im)[Len(im) + 1] <= MaxAddr

VARIABLES
    img,        \* the image
    erased,     \* the medium was erased by disk_initial
    media,
    \* _spPacketStates
    leftChunkNum, pktHeadLen, notWrBackSz4LongChunk, nextFlashAddr4LastLongChunk,
    backChunkNum, chunkOffset,
    fillValBuf, filledBufValidLen,  \* the fill buffer, kept across images
    nextMediaOffset,   \* of ImgBurnInfo
    \* the call of optimus_simg_to_media being made
    pc,                \* "idle", "long", "chunks", "verify", "ended", "failed"
    from, to,          \* the window, as offsets in the image
    unParsedBufLen, pChunk, flashAddrStart,
    \* verification
    leftLen, sum,
    faults      \* history: what went wrong outside the parser's control

states == <<leftChunkNum, pktHeadLen, notWrBackSz4LongChunk,
            nextFlashAddr4LastLongChunk, backChunkNum, chunkOffset>>
cache  == <<fillValBuf, filledBufValidLen>>
call   == <<from, to, unParsedBufLen, pChunk, flashAddrStart>>
vars == <<img, erased, media, states, cache, nextMediaOffset, pc, call, leftLen, sum, faults>>

HeadAt == HeadsOf(img)
AddrOf == AddrsOf(img)
ImgSz  == HeadAt[Len(img) + 1]

(* The word of the image at offset o.                                       *)
Word(o) ==
    LET fills == {i \in 1..Len(img) : img[i].type = "fill" /\ o = HeadAt[i] + ChunkHead}
    IN IF fills = {} THEN o ELSE img[CHOOSE i \in fills : TRUE].val

Lesser(a, b) == IF a < b THEN a ELSE b
Aligned(n) == (n \div Slot) * Slot

Init ==
    /\ img \in Images /\ erased \in BOOLEAN
    /\ media = [a \in 0..(MaxAddr - 1) |-> IF erased THEN Erased ELSE Garbage]
    /\ filledBufValidLen \in {0, FillBufSz \div 2}
    /\ fillValBuf = [k \in 0..(FillBufSz - 1) |->
                        IF k < filledBufValidLen THEN Erased - 1 ELSE Garbage]
    /\ leftChunkNum = 0 /\ pktHeadLen = 0 /\ notWrBackSz4LongChunk = 0
    /\ nextFlashAddr4LastLongChunk = 0 /\ backChunkNum = 0 /\ chunkOffset = 0
    /\ nextMediaOffset = 0
    /\ pc = "idle" /\ from = 0 /\ to = 0
    /\ unParsedBufLen = 0 /\ pChunk = 0 /\ flashAddrStart = 0
    /\ leftLen = 0 /\ sum = <<>> /\ faults = {}

(* The next window: what the last call left, and the buffer filled once     *)
(* more.  At the end of the image the window ends with it, or is padded     *)
(* with stale data.                                                         *)
NextWindow ==
    /\ to' \in {Lesser(to + Window, ImgSz), to + Window}
    /\ faults' = IF to' > ImgSz THEN faults \cup {"padded"} ELSE faults

(* The first call probes the file header and initialises the parser.        *)
FirstCall ==
    /\ pc = "idle" /\ to = 0
    /\ NextWindow
    /\ IF to' < FileHead
       THEN pc' = "failed" /\ UNCHANGED <<states, unParsedBufLen, pChunk, flashAddrStart>>
       ELSE /\ leftChunkNum' = Len(img) /\ pktHeadLen' = FileHead
            /\ notWrBackSz4LongChunk' = 0 /\ nextFlashAddr4LastLongChunk' = 0
            /\ backChunkNum' = 0 /\ chunkOffset' = 0
            /\ unParsedBufLen' = to' - FileHead
            /\ pChunk' = FileHead
            /\ flashAddrStart' = nextMediaOffset
            /\ pc' = "chunks"
    /\ UNCHANGED <<img, erased, media, cache, nextMediaOffset, from, leftLen, sum>>

NextCall ==
    /\ pc = "idle" /\ to > 0 /\ from < ImgSz
    /\ NextWindow
    /\ unParsedBufLen' = to' - from
    /\ pChunk' = from
    /\ flashAddrStart' = nextMediaOffset
    /\ pc' = IF notWrBackSz4LongChunk > 0 THEN "long" ELSE "chunks"
    /\ UNCHANGED <<img, erased, media, states, cache, nextMediaOffset, from, leftLen, sum>>

(* n words of the image from offset o written at address a.                 *)
Write(a, n, o) ==
    media' = [x \in DOMAIN media |-> IF x \in a..(a + n - 1) THEN o + (x - a) ELSE media[x]]

(* The call returns: the parser has taken all but the unparsed words.  The   *)
(* buffer manager refuses an answer that exceeds the window, and data left   *)
(* at the end of the image.                                                 *)
Return(unParsed, addr) ==
    LET refused == unParsed > to - from \/ (to >= ImgSz /\ unParsed > 0)
    IN /\ from' = IF refused THEN from ELSE to - unParsed
       /\ nextMediaOffset' = addr
       /\ pc' = IF refused THEN "failed" ELSE "idle"

Fail(fault) ==
    /\ pc' = "failed" /\ faults' = faults \cup fault
    /\ UNCHANGED <<img, erased, media, states, cache, nextMediaOffset, call, leftLen, sum>>

(* A long chunk goes on: as much of it as there is, in whole slots unless   *)
(* it ends here.                                                            *)
ThisWriteLen(pktLen) ==
    IF notWrBackSz4LongChunk > pktLen THEN Aligned(pktLen) ELSE notWrBackSz4LongChunk
LongChunk ==
    LET pktLen == unParsedBufLen
        n      == ThisWriteLen(pktLen)
    IN /\ pc = "long"
       /\ \/ Fail({"io"})
          \/ /\ Write(nextFlashAddr4LastLongChunk, n, from)
             /\ notWrBackSz4LongChunk' = notWrBackSz4LongChunk - n
             /\ unParsedBufLen' = pktLen - n
             /\ IF notWrBackSz4LongChunk >= pktLen
                THEN /\ nextFlashAddr4LastLongChunk' = nextFlashAddr4LastLongChunk + n
                     /\ Return(unParsedBufLen', nextMediaOffset)
                     /\ UNCHANGED pChunk
                ELSE /\ pChunk' = from + notWrBackSz4LongChunk
                     /\ pc' = "chunks"
                     /\ UNCHANGED <<nextFlashAddr4LastLongChunk, from, nextMediaOffset>>
             /\ UNCHANGED <<img, erased, leftChunkNum, pktHeadLen, backChunkNum, chunkOffset, cache,
                            to, flashAddrStart, leftLen, sum, faults>>

(* The chunk whose header the parser expects next.  A header that was not   *)
(* received yet, or a place that is no header, reads as no chunk at all.    *)
Cur == Len(img) - leftChunkNum + 1
AtHead == pChunk = HeadAt[Cur] /\ pChunk + ChunkHead <= to
InLoop == pc = "chunks" /\ leftChunkNum > 0 /\ notWrBackSz4LongChunk = 0

(* The end of an iteration that consumed the header and n words.            *)
NextChunk(n) ==
    /\ unParsedBufLen' = (unParsedBufLen - (ChunkHead + n)) % U32
    /\ flashAddrStart' = flashAddrStart + ChunkDataLen(img[Cur])
    /\ backChunkNum' = backChunkNum + 1
    /\ pChunk' = pChunk + TotalSz(img[Cur])
    /\ leftChunkNum' = leftChunkNum - 1
    /\ UNCHANGED <<img, erased, pktHeadLen, chunkOffset, nextMediaOffset, pc, from, to,
                   leftLen, sum>>

(* A header cut off by its last word is taken for whole.                    *)
HeadCut_OffByOne == InLoop /\ ChunkHead - 1 > unParsedBufLen

(* The header is cut off, all chunks are parsed, or a long chunk is open.   *)
HeadCut == InLoop /\ ChunkHead > unParsedBufLen
LoopEnd ==
    /\ pc = "chunks" /\ (~InLoop \/ HeadCut)
    /\ Return(unParsedBufLen, flashAddrStart)
    /\ pktHeadLen' = 0
    /\ UNCHANGED <<img, erased, media, leftChunkNum, notWrBackSz4LongChunk,
                   nextFlashAddr4LastLongChunk, backChunkNum, chunkOffset, cache, to,
                   unParsedBufLen, pChunk, flashAddrStart, leftLen, sum, faults>>

(* No chunk, or one the parser does not take: the image fails.              *)
BadChunk ==
    /\ InLoop /\ ~HeadCut
    /\ ~AtHead \/ img[Cur].type = "bad"
    /\ Fail({})

(* A cut raw chunk left for the next window as a whole.                     *)
WantWrLen_Whole(c) == IF TotalSz(c) > unParsedBufLen THEN 0 ELSE ChunkDataLen(c)

(* A raw chunk is written as far as it was received, in whole slots; the    *)
(* rest is a long chunk that goes on in the next window.                    *)
WantWrLen(c) ==
    IF TotalSz(c) > unParsedBufLen THEN Aligned(unParsedBufLen - ChunkHead) ELSE ChunkDataLen(c)
RawChunk ==
    /\ InLoop /\ ~HeadCut /\ AtHead /\ img[Cur].type = "raw"
    /\ LET c == img[Cur]
           n == WantWrLen(c)
       IN \/ n > 0 /\ Fail({"io"})
          \/ /\ Write(flashAddrStart, n, pChunk + ChunkHead)
             /\ IF TotalSz(c) > unParsedBufLen
                THEN /\ notWrBackSz4LongChunk' = ChunkDataLen(c) - n
                     /\ nextFlashAddr4LastLongChunk' = flashAddrStart + n
                ELSE UNCHANGED <<notWrBackSz4LongChunk, nextFlashAddr4LastLongChunk>>
             /\ NextChunk(n)
             /\ UNCHANGED <<cache, faults>>

DontCareChunk ==
    /\ InLoop /\ ~HeadCut /\ AtHead /\ img[Cur].type = "dontcare"
    /\ NextChunk(0)
    /\ UNCHANGED <<media, cache, notWrBackSz4LongChunk, nextFlashAddr4LastLongChunk, faults>>

(* A fill chunk is written unless the medium was erased to that value.      *)
NeedFill(v) == ~(v = Erased /\ erased)

(* The value the buffer holds is not compared.                              *)
StillValid_AnyValue(v) == filledBufValidLen

(* How much of the fill buffer serves the value v already.                  *)
StillValid(v) == IF v # fillValBuf[0] THEN 0 ELSE filledBufValidLen
FillBuffer(v, n) ==
    LET valid == StillValid(v)
    IN IF valid >= n THEN UNCHANGED fillValBuf /\ filledBufValidLen' = valid
       ELSE /\ fillValBuf' = [k \in DOMAIN fillValBuf |-> IF k \in valid..(n - 1) THEN v ELSE fillValBuf[k]]
            /\ filledBufValidLen' = n
(* The first n words at address a, written in pieces from the buffer.       *)
Filled(a, n, piece) ==
    media' = [x \in DOMAIN media |->
                IF x \in a..(a + n - 1) THEN fillValBuf'[(x - a) % piece] ELSE media[x]]

(* The value of a fill chunk is read even when it has not been received.  A *)
(* write that fails ends the filling, not the image.                        *)
FillChunk ==
    /\ InLoop /\ ~HeadCut /\ AtHead /\ img[Cur].type = "fill"
    /\ LET c   == img[Cur]
           cut == pChunk + TotalSz(c) > to
           piece == Lesser(ChunkDataLen(c), FillBufSz)
           seen == faults \cup (IF cut THEN {"fillCut"} ELSE {})
       IN /\ \E val \in IF cut THEN {Garbage, Erased} ELSE {c.val} :
             IF NeedFill(val)
             THEN /\ FillBuffer(val, piece)
                  /\ \E n \in 0..ChunkDataLen(c) :
                        /\ Filled(flashAddrStart, n, piece)
                        /\ faults' = IF n < ChunkDataLen(c) THEN seen \cup {"fillLost"} ELSE seen
             ELSE UNCHANGED <<media, cache>> /\ faults' = seen
          /\ NextChunk(FillSz)
          /\ UNCHANGED <<notWrBackSz4LongChunk, nextFlashAddr4LastLongChunk>>

-----------------------------------------------------------------------------
(* Verification: the image is put together again from the kept headers and  *)
(* the data on the medium, and hashed.  sum is what is hashed.  It is       *)
(* refused while chunks are left.                                           *)
VerifyStart ==
    /\ pc = "idle" /\ to > 0 /\ from = ImgSz
    /\ IF leftChunkNum # 0 THEN pc' = "failed" ELSE pc' = "verify"
    /\ leftLen' = ImgSz
    /\ UNCHANGED <<img, erased, media, states, cache, nextMediaOffset, call, sum, faults>>

DataSz(c) == CASE c.type = "raw" -> ChunkDataLen(c) [] c.type = "fill" -> FillSz [] OTHER -> 0
Words(o, n) == [k \in 1..n |-> Word(o + k - 1)]
Heads(i, j) == [k \in 1..((j - i + 1) * ChunkHead) |->
                  HeadAt[i + ((k - 1) \div ChunkHead)] + ((k - 1) % ChunkHead)]
(* What chunk i's data at offset o of the partition read as.                *)
ReadBack(i, o) == [k \in 1..DataSz(img[i]) |-> media[o + k - 1]]

(* The chunks without data before it are not counted.                       *)
DataOffset_NoGap(first, last) == chunkOffset

(* Where the data of chunk last are, the chunks from first on being new.    *)
DataOffset(first, last) == chunkOffset + AddrOf[last] - AddrOf[first]

(* optimus_sparse_get_chunk_data collects headers up to and with that of    *)
(* the next chunk that has data; its data are then read.                    *)
VerifyChunk ==
    LET first == leftChunkNum + 1
        withData == {i \in first..backChunkNum : DataSz(img[i]) > 0}
        last == IF withData = {} THEN backChunkNum
                ELSE CHOOSE i \in withData : \A j \in withData : i <= j
        headSz == (IF leftChunkNum = 0 THEN FileHead ELSE 0) + (last - leftChunkNum) * ChunkHead
        dataSz == IF withData = {} THEN 0 ELSE DataSz(img[last])
        left == leftLen - headSz - dataSz
    IN /\ pc = "verify" /\ leftLen > 0
       /\ chunkOffset' = chunkOffset + AddrOf[last + 1] - AddrOf[first]
       /\ leftChunkNum' = last
       /\ \/ dataSz > 0 /\ pc' = "failed" /\ faults' = faults \cup {"io"} /\ UNCHANGED sum
          \/ /\ sum' = sum \o (IF leftChunkNum = 0 THEN Words(0, FileHead) ELSE <<>>)
                        \o Heads(first, last)
                        \o (IF dataSz = 0 THEN <<>> ELSE ReadBack(last, DataOffset(first, last)))
             /\ pc' = IF left = 0 THEN "ended" ELSE IF headSz = 0 THEN "failed" ELSE pc
             /\ UNCHANGED faults
       /\ leftLen' = left
       /\ UNCHANGED <<img, erased, media, pktHeadLen, notWrBackSz4LongChunk,
                      nextFlashAddr4LastLongChunk, backChunkNum, cache, nextMediaOffset, call>>

Ended == pc \in {"ended", "failed"} /\ UNCHANGED vars

Next ==
    \/ FirstCall
    \/ NextCall
    \/ LongChunk
    \/ LoopEnd
    \/ BadChunk
    \/ RawChunk
    \/ DontCareChunk
    \/ FillChunk
    \/ VerifyStart
    \/ VerifyChunk
    \/ Ended

Spec == Init /\ [][Next]_vars

-----------------------------------------------------------------------------
(* The state components have their types.                                   *)
TypeOK ==
    /\ img \in Images /\ erased \in BOOLEAN
    /\ \A a \in DOMAIN media : media[a] \in Int
    /\ filledBufValidLen \in 0..FillBufSz
    /\ leftChunkNum \in 0..Len(img) /\ backChunkNum \in 0..Len(img)
    /\ pktHeadLen \in {0, FileHead} /\ notWrBackSz4LongChunk \in Nat
    /\ nextFlashAddr4LastLongChunk \in Nat /\ chunkOffset \in Nat /\ nextMediaOffset \in Nat
    /\ pc \in {"idle", "long", "chunks", "verify", "ended", "failed"}
    /\ from \in Nat /\ to \in Nat /\ unParsedBufLen \in 0..(U32 - 1)
    /\ pChunk \in Nat /\ flashAddrStart \in Nat /\ leftLen \in Nat
    /\ faults \subseteq {"io", "fillCut", "fillLost", "padded"}

(* The partition holds what chunk i of the image describes.                 *)
ChunkWritten(i) ==
    \A k \in 0..(DataLen(img[i]) - 1) :
        LET cell == media[PlacesOf(img)[i] + k]
        IN CASE img[i].type = "raw"  -> cell = HeadAt[i] + ChunkHead + k
             [] img[i].type = "fill" -> cell = img[i].val
             [] OTHER -> TRUE
Parsed == to > 0 /\ from = ImgSz /\ pc \in {"idle", "verify", "ended"}
AllWritten == \A i \in 1..Len(img) : ChunkWritten(i)

(* A chunk of 4 GiB or more: its length wraps, and what follows it is put    *)
(* too low on the partition.                                                *)
Oversized == \E i \in 1..Len(img) : DataLen(img[i]) >= U32

(* However the windows cut the image, an image that was taken to its end    *)
(* lies on the partition as its chunks describe it, unless the write of a   *)
(* fill chunk failed or the length of a chunk wraps.  In particular a fill value that was cut off never    *)
(* gets through: the parser's count wraps, and that is refused; and the     *)
(* buffer kept from an earlier chunk or image never stands for another      *)
(* value.                                                                   *)
Rebuilt == Parsed /\ "fillLost" \notin faults /\ ~Oversized => AllWritten

(* The verification hashes exactly the words of the image, unless the write  *)
(* of a fill chunk failed; also where a length wraps, as it reads the data  *)
(* back from where they were put.                                           *)
HashesImage == pc = "ended" /\ "fillLost" \notin faults => sum = Words(0, ImgSz)

(* What a call leaves behind fits the left-data buffer and is less than     *)
(* what the next window adds, so the buffer manager does not give up on a   *)
(* well-formed image.                                                       *)
LeftIsSmall ==
    pc = "idle" /\ from < ImgSz => to - from < IF Slot > ChunkHead THEN Slot ELSE ChunkHead

(* No well-formed image fails because of where its windows are cut, except  *)
(* between the header and the value of a fill chunk, and where the buffer   *)
(* manager pads the last window.                                            *)
NoneLost ==
    pc = "failed" => faults # {} \/ \E i \in 1..Len(img) : img[i].type = "bad"

(* What optimus_simg2img.c, 97 says of optimus_simg_to_media: it is called   *)
(* "to parse sparse format data and write it to media".                     *)
TakenIsWritten == Parsed => AllWritten

(* What optimus_simg2img.c, 101 says of unParsedDataLen: "data length need   *)
(* write at next write back time"; it is never more than was handed in.     *)
UnparsedInWindow == pc = "chunks" => unParsedBufLen <= to - from
=============================================================================
