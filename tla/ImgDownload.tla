----------------------------- MODULE ImgDownload -----------------------------
(***************************************************************************)
(* The image burning state machine of v2_common/optimus_download.c: one    *)
(* struct ImgBurnInfo for the image being burned, set up by a download or  *)
(* upload command, advanced by every chunk handed to the media, and gone   *)
(* through once more when the partition is verified.                       *)
(*                                                                         *)
(* media[o] says which byte of the current image lies at offset o of the   *)
(* destination (Blank: none of its bytes), for a sparse image which byte   *)
(* of the packet the parser has put in its place (Lost: it belongs to a    *)
(* fill chunk that was counted although its write failed).  Chunks are     *)
(* sequences of image positions.                                           *)
(***************************************************************************)
EXTENDS Integers, Sequences

CONSTANTS
    Images,    \* the images commands may name
    MaxSz,     \* bytes of the destination that are modelled
    SlotSz,    \* OPTIMUS_DOWNLOAD_SLOT_SZ: a key is smaller than a slot
    BootMax,   \* the largest bootloader (2M)
    FillBytes  \* the positions in a sparse image that belong to fill chunks

(* An image: its format, its destination, the partition, and its size.  The *)
(* destination "store" stands for nand, sdmmc and store, which the code      *)
(* treats alike; "other" for a word the command does not know.               *)
ASSUME ImageAssumption ==
    /\ MaxSz \in Nat /\ SlotSz \in Nat /\ BootMax \in Nat /\ FillBytes \subseteq Nat
    /\ \A m \in Images :
        /\ m.fmt \in {"sparse", "normal", "other"} /\ m.part \in STRING
        /\ m.media \in {"store", "key", "mem", "spiflash", "other"}
        /\ m.total \in 1..MaxSz /\ m.isUpload \in BOOLEAN
        /\ m.isUpload => m.fmt # "sparse"

VARIABLES
    info,        \* OptimusImgBurnInfo
    chunksLeft,  \* the sparse parser has chunks of this image to go
    img,         \* the image named by the last command
    media,       \* what lies at the destination
    rc           \* the last answer: "ok", "fail", "verified"

imgVars == <<info, chunksLeft, img, media, rc>>

Blank  == -1
Lost   == -2
Offset == 0..(MaxSz - 1)
NoImage == [fmt |-> "normal", part |-> "", media |-> "store", total |-> 0, isUpload |-> FALSE]

PartNames == {m.part : m \in Images} \cup {""}

(* imgBurnSta: OPTIMUS_IMG_STA_*.                                           *)
BurnSta == {"EMPTY", "PRE_BURN", "BURN_ING", "BURN_COMPLETE", "BURN_FAILED",
            "VERIFY_ING", "VERIFY_END"}

(* The struct after memset.                                                 *)
EmptyInfo == [imgType |-> "normal", imgBurnSta |-> "EMPTY", storageMediaType |-> "store",
              nextMediaOffset |-> 0, imgPktSz |-> 0, imgSzDisposed |-> 0,
              devHdle |-> FALSE, partName |-> ""]

ImgDownloadInit ==
    /\ info = EmptyInfo /\ chunksLeft = FALSE /\ img = NoImage
    /\ media = [o \in Offset |-> Blank] /\ rc = "fail"

ImgType(m) == IF m.fmt = "sparse" THEN "sparse"
              ELSE IF m.part = "bootloader" THEN "bootloader" ELSE "normal"

(* _parse_img_download_info: the struct is cleared first, so a command that *)
(* is refused halfway leaves an EMPTY one behind.  partOk: the partition    *)
(* exists, is large enough and agrees with the partition table.             *)
ParseImgDownloadInfo(m, partOk) ==
    LET typed == [EmptyInfo EXCEPT !.imgType = ImgType(m)]
        placed == [typed EXCEPT !.storageMediaType = m.media]
        named == [placed EXCEPT !.partName = m.part]
        fmtUnknown == m.fmt = "other" /\ m.part # "bootloader"
        keyTooLarge == m.media = "key" /\ SlotSz <= m.total
        partRefused == /\ m.media \in {"store", "spiflash"} /\ m.part # "bootloader"
                       /\ ~partOk
        refused == fmtUnknown \/ m.media = "other" \/ keyTooLarge \/ partRefused
    IN /\ info' = CASE fmtUnknown -> EmptyInfo
                    [] ~fmtUnknown /\ m.media = "other" -> typed
                    [] ~fmtUnknown /\ keyTooLarge -> placed
                    [] ~fmtUnknown /\ partRefused -> named
                    [] ~refused -> [named EXCEPT !.imgPktSz = m.total,
                                                 !.imgBurnSta = "PRE_BURN"]
       /\ rc' = IF refused THEN "fail" ELSE "ok"
       /\ img' = m
       /\ media' = [o \in Offset |-> IF m.isUpload /\ o < m.total THEN o ELSE Blank]
       /\ UNCHANGED chunksLeft

(* A burn that restarts after a failure.                                    *)
StorageOpen_Restart(i) ==
    [i EXCEPT !.imgBurnSta = IF @ \in {"PRE_BURN", "BURN_FAILED"} THEN "BURN_ING" ELSE @]

(* optimus_storage_open: starts burning, or verifying; opens the device.    *)
OnStore(i) == i.storageMediaType = "store"
IsSparse(i) == OnStore(i) /\ i.imgType = "sparse"
StorageOpen(i) ==
    [i EXCEPT
       !.imgBurnSta = IF i.imgSzDisposed = 0 /\ @ = "PRE_BURN" THEN "BURN_ING"
                      ELSE IF i.imgSzDisposed = i.imgPktSz /\ @ = "BURN_COMPLETE"
                      THEN "VERIFY_ING" ELSE @,
       !.devHdle = @ \/ (OnStore(i) /\ i.imgType # "bootloader")]
(* It initialises the sparse parser the first time a device is opened, and  *)
(* fails when the data do not probe as a sparse image.                      *)
FirstSparseOpen(i) == IsSparse(i) /\ ~i.devHdle
OpenFails(i, probeOk) ==
    \/ i.storageMediaType = "spiflash"
    \/ FirstSparseOpen(i) /\ ~probeOk

(* optimus_storage_close: recognises the end of burning and of verifying.   *)
StorageClose(i) ==
    [i EXCEPT
       !.imgBurnSta = IF i.imgSzDisposed = i.imgPktSz /\ @ = "BURN_ING" THEN "BURN_COMPLETE"
                      ELSE IF i.imgSzDisposed = 0 /\ @ = "VERIFY_ING" THEN "VERIFY_END"
                      ELSE @]

(* Data written whatever the state.                                         *)
WriteAllowed_AnyState(i, n) == TRUE

(* optimus_storage_write takes data only while burning; a bootloader only   *)
(* whole and not above its limit.                                           *)
WriteAllowed(i, n) ==
    /\ i.imgBurnSta = "BURN_ING"
    /\ OnStore(i) /\ i.imgType = "bootloader" => i.imgPktSz <= n /\ n <= BootMax

(* Every chunk at the start.                                                *)
ChunkOffset_Start(i) == 0

(* Where the first byte of a chunk goes: nextMediaOffset, or for a sparse   *)
(* image the place the parser has reached.                                  *)
ChunkOffset(i) == IF IsSparse(i) THEN i.imgSzDisposed ELSE i.nextMediaOffset

(* n bytes of data at the destination.                                      *)
Written(at, n, data) ==
    [o \in Offset |-> IF o \in at..(at + n - 1) THEN data[o - at + 1] ELSE media[o]]

(* How much of n bytes a write takes.  All, except of a sparse image: there  *)
(* the parser stops where its chunks end, leaves a chunk that is cut off for *)
(* the next call, and may claim more than it was given when a fill chunk is  *)
(* cut off before its value (optimus_simg2img.c, 207-273).                   *)
FillOverrun == 1
Takes(i, n) ==
    IF IsSparse(i)
    THEN {b \in 1..(n + FillOverrun) : i.imgSzDisposed + b <= i.imgPktSz} ELSE {n}

(* Which of the bytes of a chunk are lost though the write counts them: the  *)
(* parser reports the write of a fill chunk that fails and goes on           *)
(* (optimus_simg2img.c, 256-273, see SparseImage!TakenIsWritten).            *)
Losses(i, data) ==
    IF IsSparse(i) THEN SUBSET {k \in DOMAIN data : data[k] \in FillBytes} ELSE {{}}

(* optimus_func_download_image, called with the chunk data; burnSz is its   *)
(* answer, 0 for a failure.  A failed open leaves the state as it is; a     *)
(* failed write marks the image, and may have written anything to the       *)
(* chunk's place.  An answer above the chunk's length is a failure for the  *)
(* caller (the buffer manager), though not for the state machine.           *)
DownloadImgData(data, burnSz) ==
    LET opened == StorageOpen(info)
        n      == Len(data)
        taken  == [opened EXCEPT
                     !.imgSzDisposed = @ + burnSz,
                     !.nextMediaOffset = IF OnStore(opened) /\ opened.imgType = "normal"
                                         THEN @ + burnSz ELSE @]
    IN \/ \* the storage does not open
          /\ burnSz = 0
          /\ OpenFails(info, FALSE)
          /\ info' = opened /\ rc' = "fail"
          /\ UNCHANGED <<chunksLeft, img, media>>
       \/ \* the write is refused, or fails
          /\ burnSz = 0
          /\ ~OpenFails(info, TRUE)
          /\ info' = [StorageClose(opened) EXCEPT !.imgBurnSta = "BURN_FAILED"]
          /\ chunksLeft' = (chunksLeft \/ FirstSparseOpen(info))
          /\ media' \in IF WriteAllowed(opened, n)
                        THEN {media, Written(ChunkOffset(info), n, [k \in 1..n |-> Blank])}
                        ELSE {media}
          /\ rc' = "fail"
          /\ UNCHANGED img
       \/ \* burnSz bytes are written
          /\ ~OpenFails(info, TRUE)
          /\ WriteAllowed(opened, n)
          /\ burnSz \in Takes(opened, n)
          /\ info' = StorageClose(taken)
          /\ chunksLeft' = ((chunksLeft \/ FirstSparseOpen(info))
                              /\ taken.imgSzDisposed < info.imgPktSz)
          /\ \E gone \in Losses(opened, data) :
                media' = Written(ChunkOffset(info), burnSz,
                                 [k \in 1..burnSz |-> IF k \in gone THEN Lost
                                                      ELSE IF k <= n THEN data[k] ELSE Blank])
          /\ rc' = IF burnSz <= n THEN "ok" ELSE "fail"
          /\ UNCHANGED img

(* The media offset does not follow a read.                                 *)
Dumped_SameOffset(i, n) == [i EXCEPT !.imgSzDisposed = @ + n]

(* optimus_dump_storage_data: n bytes are read for an upload.               *)
Dumped(i, n) == [i EXCEPT !.imgSzDisposed = @ + n, !.nextMediaOffset = @ + n]
DumpStorageData(n) ==
    LET opened == StorageOpen(info)
    IN /\ \/ OpenFails(info, FALSE) /\ info' = opened /\ rc' = "fail"
          \/ /\ ~OpenFails(info, TRUE)
             /\ info' = [StorageClose(opened) EXCEPT !.imgBurnSta = "BURN_FAILED"]
             /\ rc' = "fail"
          \/ ~OpenFails(info, TRUE) /\ info' = StorageClose(Dumped(opened, n)) /\ rc' = "ok"
       /\ UNCHANGED <<chunksLeft, img, media>>

(* What the destination holds is the image; or all of it but fill chunks    *)
(* of a sparse one.                                                         *)
Intact == \A o \in 0..(info.imgPktSz - 1) : media[o] = o
InPlace(i, o, byte) == byte = o \/ (IsSparse(i) /\ o \in FillBytes /\ byte = Lost)
Placed == \A o \in 0..(info.imgPktSz - 1) : InPlace(info, o, media[o])

(* optimus_media_download_verify: refused unless the image is complete; a   *)
(* bootloader is compared without going through the state machine.  A read  *)
(* may fail with left bytes to go; of a sparse image also in the last       *)
(* chunk, whose bytes are counted before they are read.  Of a fill chunk    *)
(* one word is read (optimus_simg2img.c, 370), so that one which was lost   *)
(* may be noticed or not.  A "mem" image is not read back at all: the sum   *)
(* is taken over the cleared sum buffer.                                    *)
Verify(left, readOk) ==
    LET opened == StorageOpen(info)
        refused == \/ info.imgBurnSta # "BURN_COMPLETE"
                   \/ info.imgType = "sparse" /\ chunksLeft
    IN /\ info' = IF refused \/ info.imgType = "bootloader" THEN info
                  ELSE StorageClose([opened EXCEPT !.imgSzDisposed = left])
       /\ \/ /\ ~refused /\ readOk /\ Placed /\ info.storageMediaType # "mem"
             /\ rc' = "verified"
          \/ /\ refused \/ ~readOk \/ ~Intact \/ info.storageMediaType = "mem"
             /\ rc' = "fail"
       /\ UNCHANGED <<chunksLeft, img, media>>

-----------------------------------------------------------------------------
(* The users of this file: a command, then chunks in order, as long as no   *)
(* call has failed, then perhaps a verification.  A key and a "mem" image   *)
(* come in one chunk, as the write-back unit of the buffer manager is not   *)
(* smaller than they are.  The last chunk of a sparse image may hold stale  *)
(* bytes behind it (the buffer manager fills up to a write-back unit).      *)
Command == \E m \in Images, partOk \in BOOLEAN : ParseImgDownloadInfo(m, partOk)

Remaining == info.imgPktSz - info.imgSzDisposed
Chunk(n)  == [k \in 1..n |-> IF k <= Remaining THEN info.imgSzDisposed + k - 1 ELSE Blank]
Burning   == rc = "ok" /\ info.imgBurnSta \in {"PRE_BURN", "BURN_ING"}

Download ==
    /\ Burning /\ ~img.isUpload
    /\ \E n \in IF IsSparse(info) THEN 1..MaxSz
                ELSE IF OnStore(info) THEN 1..Remaining ELSE {Remaining} :
         \E burnSz \in 0..(n + FillOverrun) : DownloadImgData(Chunk(n), burnSz)

Upload ==
    /\ Burning /\ img.isUpload
    /\ \E n \in 1..Remaining : DumpStorageData(n)

(* Data that arrive although no image is being burned.                      *)
LateData ==
    /\ info.imgBurnSta \notin {"PRE_BURN", "BURN_ING"} /\ ~img.isUpload
    /\ \E burnSz \in 0..1 : DownloadImgData(<<Blank>>, burnSz)

VerifyMedia ==
    \/ Verify(0, TRUE)
    \/ \E left \in 0..info.imgPktSz :
          /\ left = 0 => info.imgType = "sparse"
          /\ Verify(left, FALSE)

ImgDownloadNext == Command \/ Download \/ Upload \/ LateData \/ VerifyMedia

ImgDownloadSpec == ImgDownloadInit /\ [][ImgDownloadNext]_imgVars

-----------------------------------------------------------------------------
(* The state components have their types, and no more bytes are disposed of *)
(* than the command announced.                                              *)
ImgDownloadTypeOK ==
    /\ info \in [imgType : {"sparse", "bootloader", "normal"}, imgBurnSta : BurnSta,
                 storageMediaType : {"store", "key", "mem", "spiflash"},
                 nextMediaOffset : Nat, imgPktSz : Nat, imgSzDisposed : Nat,
                 devHdle : BOOLEAN, partName : PartNames]
    /\ info.imgSzDisposed <= info.imgPktSz
    /\ chunksLeft \in BOOLEAN /\ img \in Images \cup {NoImage}
    /\ media \in [Offset -> Nat \cup {Blank, Lost}] /\ rc \in {"ok", "fail", "verified"}

(* An image the state machine calls complete (or being or having been       *)
(* verified) lies on the media whole, every byte at its offset, unless the  *)
(* last call reported a failure: counting the bytes disposed of is enough   *)
(* to know that, however the image was cut into chunks.  Of a sparse image  *)
(* fill chunks may be missing, which the parser counts in any case          *)
(* (SparseImage!TakenIsWritten), and nothing else.                          *)
CompleteIntact ==
    info.imgBurnSta \in {"BURN_COMPLETE", "VERIFY_ING", "VERIFY_END"} /\ rc # "fail" => Placed

(* The media are written only for a command that is being burned: data that *)
(* arrive before a command, after the last byte, after a failure or during  *)
(* verification never reach them, though optimus_storage_open itself moves  *)
(* the state on every call.                                                 *)
WrittenWhileBurning ==
    [][media' # media => \/ info.imgBurnSta \in {"PRE_BURN", "BURN_ING"} /\ rc = "ok"
                         \/ Command]_imgVars

(* A failed image cannot become complete or pass a verification: only a new *)
(* command leaves BURN_FAILED.                                              *)
FailedSticks ==
    [][info.imgBurnSta = "BURN_FAILED" =>
          (info'.imgBurnSta = "BURN_FAILED" /\ rc' = "fail") \/ Command]_imgVars
=============================================================================
