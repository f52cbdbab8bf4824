------------------------------- MODULE UsbBurn -------------------------------
(***************************************************************************)
(* Burning an image over USB: the host, the vendor requests and the bulk   *)
(* transfers of v2_usb_tool/usb_pcd.c, the buffer manager (BufManager) and *)
(* the image state machine (ImgDownload) together.  The host issues a      *)
(* download command, sends the image packet by packet, and gets a reply to *)
(* each; it sends a packet again when the reply is not "OK!!", without     *)
(* knowing whether a checksum or the media failed.                         *)
(*                                                                         *)
(* The actions are joint actions: a packet that completes a write-back     *)
(* unit is a step of the protocol, of the buffer manager and of the image  *)
(* state machine at once, since the code makes nested calls.               *)
(***************************************************************************)
EXTENDS BufManager

CONSTANTS MaxSz, BootMax, FillBytes     \* see ImgDownload

VARIABLES
    info, chunksLeft, img, media, rc,   \* see ImgDownload
    host,        \* the host: "idle", "sending", "ok" (all replies OK), "error"
    reply,       \* to the last packet: "none" while it is on its way, "ok", "error"
    sequenceNo,  \* of the packet being sent, from 0
    isPktResended,
    _mediaErr    \* static in bulk_transfer_reply

D == INSTANCE ImgDownload WITH Images <- Packets, SlotSz <- Unit

imgVars == <<info, chunksLeft, img, media, rc>>
usbVars == <<host, reply, sequenceNo, isPktResended, _mediaErr>>
allVars == <<vars, imgVars, usbVars>>

(* The two halves of the code classify a command by the same words.         *)
Kind(p) == CASE p.media = "mem" -> "mem"
             [] p.media # "mem" /\ p.part = "bootloader" -> "bootloader"
             [] p.media # "mem" /\ p.part # "bootloader" ->
                   IF p.fmt = "sparse" THEN "sparse" ELSE "normal"

ASSUME CommandAssumption ==
    /\ MaxSz \in Nat /\ BootMax \in Nat /\ FillBytes \subseteq Nat /\ LeftMax + BufSz <= MaxSz
    /\ \A p \in Packets :
        /\ p.kind = Kind(p) /\ p.notAligned = 0
        /\ p.fmt \in {"sparse", "normal", "other"} /\ p.part \in STRING
        /\ p.media \in {"store", "key", "mem", "spiflash", "other"}
        /\ p.total \in 1..MaxSz
        /\ p.fmt = "sparse" => p.media = "store" /\ p.part # "bootloader" /\ ~p.isUpload

UsbInit ==
    /\ Init /\ D!ImgDownloadInit
    /\ host = "idle" /\ reply = "ok" /\ sequenceNo = 0
    /\ isPktResended = FALSE /\ _mediaErr = FALSE

(* A bulk command "download ..." or "upload ...": optimus_parse_download_cmd *)
(* fills the image state first, then the buffer manager.                     *)
DownloadCmd(p) ==
    /\ host # "sending"
    /\ \E partOk \in BOOLEAN : D!ParseImgDownloadInfo(p, partOk)
    /\ IF rc' = "ok"
       THEN TplcmdInit(p) /\ host' = IF phase' = "ready" THEN "sending" ELSE "error"
       ELSE UNCHANGED vars /\ host' = "error"
    /\ sequenceNo' = 0 /\ isPktResended' = FALSE /\ reply' = "ok"
    /\ UNCHANGED _mediaErr

(* AM_REQ_DOWNLOAD: the next packet, for which a slot is requested.          *)
SendPacket ==
    /\ host = "sending" /\ ~pkt.isUpload
    /\ NextSlot
    /\ reply' = "none" /\ isPktResended' = FALSE
    /\ UNCHANGED <<imgVars, host, sequenceNo, _mediaErr>>

(* A resend that requests a slot as well.                                    *)
ResendPacket_NewSlot ==
    /\ host = "sending" /\ reply = "error"
    /\ GetBuf(WantSz)
    /\ reply' = "none" /\ isPktResended' = TRUE
    /\ UNCHANGED <<imgVars, host, sequenceNo, _mediaErr>>

(* The same packet once more, to the slot it had.                            *)
ResendPacket ==
    /\ host = "sending" /\ reply = "error"
    /\ reply' = "none" /\ isPktResended' = TRUE
    /\ UNCHANGED <<vars, imgVars, host, sequenceNo, _mediaErr>>

(* A media error that is not remembered.                                     *)
MediaErr_NotSticky == FALSE

(* bulk_transfer_reply forgets a media error only with the first packet of   *)
(* a file.                                                                   *)
MediaErr == _mediaErr /\ ~(sequenceNo = 0 /\ ~isPktResended)

(* The blocks of a packet arrive with a wrong checksum: an error reply.      *)
ChecksumError ==
    /\ reply = "none"
    /\ FillCorrupt
    /\ reply' = "error" /\ _mediaErr' = MediaErr
    /\ UNCHANGED <<imgVars, host, sequenceNo, isPktResended>>

(* The blocks of a packet arrive as they were sent.                          *)
DataReceived ==
    /\ reply = "none"
    /\ Fill
    /\ UNCHANGED <<imgVars, usbVars>>

(* The left data below the buffer are not handed over.                       *)
ReportWithWriter_NoLeftData(burnSz) ==
    /\ Report(WantSz, burnSz)
    /\ IF WriteBackDue
       THEN D!DownloadImgData(Bytes(0, GivenSz(WantSz)), burnSz)
       ELSE UNCHANGED imgVars

(* The writer of the buffer manager is optimus_func_download_image.          *)
ReportWithWriter(burnSz) ==
    /\ Report(WantSz, burnSz)
    /\ IF WriteBackDue
       THEN D!DownloadImgData(Bytes(-leftDataSz, GivenSz(WantSz)), burnSz)
       ELSE UNCHANGED imgVars

(* bulk_transfer_reply with a right checksum.  With a media error the packet *)
(* is not reported, however often it is sent.                                *)
BulkTransferReply ==
    /\ reply = "none"
    /\ phase = "filled" \/ (phase = "failed" /\ isPktResended)
    /\ IF MediaErr
       THEN /\ reply' = "error" /\ _mediaErr' = TRUE
            /\ UNCHANGED <<vars, imgVars, host, sequenceNo, isPktResended>>
       ELSE /\ \E burnSz \in 0..(leftDataSz + writeBackUnitSz + Overrun) :
                  ReportWithWriter(burnSz)
            /\ _mediaErr' = (phase' = "failed")
            /\ reply' = IF phase' = "failed" THEN "error" ELSE "ok"
            /\ host' = IF phase' = "done" THEN "ok" ELSE host
            /\ sequenceNo' = IF phase' = "failed" THEN sequenceNo ELSE sequenceNo + 1
            /\ UNCHANGED isPktResended

(* AM_REQ_UPLOAD: a slot is requested, which reads the media at the start of *)
(* the buffer; when that fails the host gets no data.                        *)
UploadPacket ==
    /\ host = "sending" /\ pkt.isUpload
    /\ NextSlot
    /\ IF pBuf' = 0
       THEN /\ D!DumpStorageData(Lesser(LeftPktSz(totalSlotNum * Unit), writeBackUnitSz))
            /\ (rc' = "fail") <=> (phase' = "failed")
       ELSE UNCHANGED imgVars
    /\ host' = IF phase' = "failed" THEN "error" ELSE host
    /\ UNCHANGED <<reply, sequenceNo, isPktResended, _mediaErr>>

(* The last block of a slot is with the host: do_bulk_complete reports it.   *)
UploadComplete ==
    /\ host = "sending" /\ pkt.isUpload /\ phase = "filled"
    /\ Report(WantSz, 0)
    /\ host' = IF phase' = "done" THEN "ok" ELSE host
    /\ UNCHANGED <<imgVars, reply, sequenceNo, isPktResended, _mediaErr>>

(* The host gives up, or is disconnected.                                    *)
GiveUp ==
    /\ host = "sending"
    /\ Abort \/ (phase = "failed" /\ UNCHANGED vars)
    /\ host' = "error" /\ reply' = "ok"
    /\ UNCHANGED <<imgVars, sequenceNo, isPktResended, _mediaErr>>

(* A bulk command "verify sha1sum ...".                                      *)
VerifyCmd ==
    /\ host # "sending"
    /\ D!VerifyMedia
    /\ UNCHANGED <<vars, usbVars>>

UsbNext ==
    \/ \E p \in Packets : DownloadCmd(p)
    \/ SendPacket
    \/ ResendPacket
    \/ ChecksumError
    \/ DataReceived
    \/ BulkTransferReply
    \/ UploadPacket
    \/ UploadComplete
    \/ GiveUp
    \/ VerifyCmd

UsbSpec == UsbInit /\ [][UsbNext]_allVars

-----------------------------------------------------------------------------
(* The state components of the protocol have their types.  While an image is *)
(* sent, the host's sequence number is the number of slots the buffer        *)
(* manager has counted: get_buf_for_bulk_transfer leaves that check as a     *)
(* TODO, resends and errors must not drive the two apart.                    *)
UsbTypeOK ==
    /\ Active /\ ~pkt.isUpload => sequenceNo = totalSlotNum
    /\ host \in {"idle", "sending", "ok", "error"} /\ reply \in {"none", "ok", "error"}
    /\ sequenceNo \in Nat /\ isPktResended \in BOOLEAN /\ _mediaErr \in BOOLEAN

(* A host that got "OK!!" for every packet of an image can rely on it: all   *)
(* of the image is on the media, each byte at its place, and the state       *)
(* machine calls it complete.  No resend, checksum error, failed write or    *)
(* interrupted earlier image leads to a wrong OK, except for fill chunks of  *)
(* a sparse image, whose failed writes nobody is told of                     *)
(* (SparseImage!TakenIsWritten).                                             *)
ToldOkIntact ==
    host = "ok" /\ ~pkt.isUpload =>
        /\ info.imgBurnSta \in {"BURN_COMPLETE", "VERIFY_ING", "VERIFY_END"}
        /\ D!Placed

(* An upload reads the media where its last read ended, and a host that got  *)
(* all of it got the bytes of the media in order.                            *)
UploadInOrder ==
    pkt.isUpload =>
        /\ Active => info.nextMediaOffset = dumped
        /\ host = "ok" => /\ Len(out) = pkt.total
                          /\ \A i \in DOMAIN out : out[i] = media[i - 1]

(* The protocol drives the buffer manager as BufManager says its clients do. *)
ClientPattern == Spec

(* The buffer manager hands the image state machine what ImgDownload says    *)
(* its callers do: the image from its first byte on, in order, and nothing   *)
(* after a failed call.                                                      *)
ChunksInOrder == D!ImgDownloadSpec

=============================================================================
