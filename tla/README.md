# Verification of the v2 burning stack

This directory is a TLA+ development beside the Amlogic S905 U-Boot tree. The
tree is mostly generic U-Boot; what is the vendor's own, keeps state over many
calls and decides whether a board is usable afterwards is the *v2 burning stack*
under `src/u-boot/drivers/usb/gadget/v2_burning/`. It writes the images of a
firmware package to the flash of a board, fed by a PC over USB, from a package
file on an SD card, or from a recovery partition of the flash itself. The
modules here model that stack and the parts of U-Boot it stands on: the FAT
reader, the keys, the partitions of the eMMC, the environment, and loading a
file by TFTP. File names below are relative to the stack's directory, or to
`src/u-boot/` where they are not found there.

## 1. The system

| part | files | state | operations |
|---|---|---|---|
| transfer buffer manager | `v2_common/optimus_buffer_manager.c` | `struct bufManager`: slot counter, next write-back slot, left data, write-back unit | new command, hand out a slot, report a slot, length of the next upload transfer |
| image download state machine | `v2_common/optimus_download.c` | `struct ImgBurnInfo` (state, bytes disposed of, media offset), `_disk_intialed_ok`, `_dtb_is_loaded` | parse a command, burn a chunk, dump a chunk, verify, initialise storage, burn-complete flag, erase, reset |
| sparse image parser | `v2_common/optimus_simg2img.c` | `_spPacketStates`: chunks left, open long chunk, kept headers; the buffer filled for a fill chunk | probe, initialise, parse a window, walk the kept headers |
| USB protocol | `v2_usb_tool/usb_pcd.c`, `optimus_transform.c` | the packet in transfer, `_mediaErr` | vendor requests, bulk transfers, replies, commands |
| card burning | `v2_sdc_burn/*.c` | the step of the flow, the items to go | erase the old bootloader, burn and verify items, report |
| system recovery | `aml_sysrecovery/aml_sysrecovery.c` | as above, from a partition | burn, save the device tree, clear user data, report |
| entry points and boot | `aml_v2_burning.c`, `board_late_init` | boot device, `upgrade_step` in the environment | start a burn, renew the environment |
| package decoder | `v2_common/optimus_img_decoder.c` | the static item record, file position | open an item, size of its first cluster part, read |
| FAT reading | `v2_common/optimus_fat.c` | position, current cluster, kept cluster, kept block of the FAT | open, seek, read |
| keys | `v2_common/optimus_download_key.c`, `drivers/keymanage/*`, `drivers/storagekey/storagekey.c`, key areas in `drivers/mmc/mmc.c` | the store in memory, its two copies, the efuse | initialise, burn plain, packed and three-part keys, burn an efuse key, erase |
| eMMC partitions | `drivers/mmc/emmc_partitions.c`, `common/cmd_aml_mmc.c`, `common/store_interface.c` | the table in memory and on the medium, the device tree, static sizes | lay out, read, compare and write the table, erase, write a device tree, initialise storage |
| environment | `lib/hashtable.c`, `common/env_mmc.c`, `common/env_common.c` | the table of variables; the copies on the eMMC with their serial | set, delete, get, import, export; save, load |
| TFTP | `net/tftp.c`, retries of `net/net.c` | the static variables of `tftp.c` | request, data and option packets, timeouts, restarts |

The USB path and the card path drive the buffer manager in the same way: get a
slot, fill it, report it. When a write-back unit is complete the buffer manager
calls the download state machine, which calls the sparse parser or the storage
driver; what the sparse parser does not take is moved below the buffer and glued
to the next unit. The card path gets its slots from the package decoder, and that
from the FAT reader or from a partition. The card path and the recovery path
repeat this for every item of a package and finish with the bootloader and a flag
in the environment that the next boot reads. Where a partition lies is what the
partition code computes from the device tree; the environment is saved to one of
them.

What is hard to test here: sizes at a boundary (last slot, last unit, 4 GB, the
end of a cluster, a serial number or block number that wraps); windows that cut a
sparse image anywhere; resends after an error whose cause the host does not know;
calls after the end or after a failure; caches that outlive what they were filled
for; failed steps followed by a retry with what is still in memory; a power cut
between any two steps; packets lost, doubled and overtaken. `PROJECT.json` lists
these hazards by line.

## 2. Modules

**`BufManager`** is the buffer manager with the client pattern its users share.
A byte is modelled by its position in the image: `mem` says which byte a buffer
cell holds, `out` which bytes were taken. `TplcmdInit` is
`optimus_buf_manager_tplcmd_init`, `NextSlot`/`GetBuf` is
`..._get_buf_for_bulk_transfer`, `ReportTransferComplete`/`Report`/`WriteBack`
is `..._report_transfer_complete`; `Fill`, `FillCorrupt` and `Abort` are the
client. The writer's answer is chosen among all it can give. The casts to u32 are
kept as `% U32`. The flag `pktTransferSta` and its two accessors have no caller
and are left out.

**`ImgDownload`** is `struct ImgBurnInfo` with `_parse_img_download_info`
(`ParseImgDownloadInfo`), `optimus_func_download_image` (`DownloadImgData`),
`optimus_dump_storage_data` (`DumpStorageData`), `optimus_media_download_verify`
(`Verify`), and `optimus_storage_open/close/write` as the operators they call.
`media` says which byte of the image lies at which offset. Of a sparse image some
bytes belong to fill chunks (`FillBytes`): a write may count them and lose them
(`Losses`), as the parser does not report the failed write of a fill chunk, and a
verification may pass all the same, since it reads one word of such a chunk
(`Placed`).

**`UsbBurn`** composes the two with the protocol of `usb_pcd.c`. Its actions are
joint actions, as the code makes nested calls: `BulkTransferReply` is a step of
the protocol, of the buffer manager and of the state machine. `MediaErr` is the
static `_mediaErr` as `bulk_transfer_reply` evaluates it. The host is external:
it follows the replies, resends after an error reply, and may give up.

**`SparseImage`** is `optimus_simg_to_media`, one action per branch of its loop
(`LongChunk`, `RawChunk`, `DontCareChunk`, `FillChunk`, `BadChunk`, `LoopEnd`), and
the verification that puts the image together from the kept headers (`VerifyStart`,
`VerifyChunk`). The length of a chunk is computed in a u32 as in the code
(`ChunkDataLen`), next to the length its header means (`DataLen`). The unit is a word
of four bytes. The buffer that a fill chunk writes from is kept between chunks and
windows with its value and valid length, as in the code. `faults` is a history
variable: I/O errors, fill chunks cut off or lost, padded windows.

**`PackageBurn`** is a whole package: `optimus_burn_with_cfg_file` for the card,
`optimus_sysrec_burn_package_from_partition` for recovery, `optimus_storage_init`,
`optimus_set_burn_complete_flag`, and the boot that follows. An item is being written
("part"), written right ("new") or wrong ("bad"), or, when it is sparse, right but for
lost fill chunks ("gaps"), which a verification may accept. `PowerCut` may come
between any two steps and during a write; the flash keeps what it has, memory is lost.
A `done` flag remembers a reported success.

**`FatFile`** is an open file: `do_fat_fseek` and `do_fat_fread` with a step per
turn of their loops (walking the FAT, reading up to the cluster end, gathering a
run of neighbouring clusters, loading the last one) and the two caches. A byte of
the disk is its place `<<cluster, index>>`, so data from a wrong cluster show. A
card read that fails returns 0, which no caller takes for an error, and leaves
memory as it was from some block on; `errors` counts them and `clean` says that
none came since the file was opened. **`SeqFile`** is what its users rely on: one
position, seeks, reads of what follows or a refusal.

**`ImgItem`** is the decoder over a FAT file, used as `SeqFile` with the alignment
rule `FatFile` has, or over a partition, with its three callers in the card
burner: slot by slot (`BurnOpen`, `BurnTurn`, `BurnDone`), whole (`DtbLoad`) and
into a small array (`VerifyItem`).

**`KeyStore`** is the burning of keys. A command is the list of names it writes;
for each, the store in memory is changed (`RamWrite`) and then written whole to
both copies (`CopyWrite`, `CopyFails`). The initialisation parses the device tree
(`parsed`) before it gets the store's buffer (`buffer`), and may fail between the two;
keys can then be burned without a buffer, in memory only. `told` is a history
variable: what the host was told is stored; `adrift` are the names that were burned
without a buffer. The secure firmware behind `secure_storage_write` is
external: it takes a write or refuses it.

**`EmmcParts`** is the layout computed from the device tree (u64 arithmetic kept
as `% W`; `Inherited` and `Turns` are the two loops of `mmc_get_partition_table`,
as recursive functions of the number of turns), the table on the medium block by
block, `mmc_device_init`, `amlmmc erase` in its four modes and of one partition,
protected or not, `dtb_write`, and `optimus_storage_init` with and without a
downloaded tree, up to the check of the tree's header at its end. A command is a list
of stages (`todo`), any of which may fail or be cut; an erase that fails may have
erased some of its range, and may answer well. `image`
remembers where an image was burned.

**`EnvTable`** is `lib/hashtable.c`: double hashing, deleted slots, `himport_r`,
`hexport_r`. The history bit `over` says that a new entry took the slot of a live
one. **`EnvMap`** is what it promises, a map from names to values.
**`EnvStore`** is `saveenv` and `env_relocate_spec` with one copy or two; the
environment is one value there.

**`Tftp`** is `TftpHandler`, `TftpTimeout` and the restarts of `net.c`, against an
external server that follows the protocol and a network that loses, doubles and
overtakes. `mem` is the memory the file is loaded to. A restart takes a new port or,
with `SamePort`, the one it had, where packets of the old session still arrive.

The theorems are in **`UsbBurnProofs`** (`BufManager`, and then `UsbBurn`),
**`PackageBurnProofs`**, **`SparseImageProofs`** and **`SparseMediaProofs`** (the
parser's bookkeeping, and what it leaves on the medium), **`FatFileProofs`**,
**`LoadProofs`** (`Tftp` and `ImgItem`), **`MediumProofs`** (`KeyStore`,
`EnvStore` and `ImgDownload`) and **`EmmcPartsProofs`**; **`MC*`** are the
instances for TLC. Three of these,
`MCBurning`, `MCComponents` and `MCUnderFaults`, extend several components at once,
which is why most modules name their initial states, steps, specification and types
after themselves (`FatFileInit`, `FatFileNext`, `FatFileSpec`, `FatFileTypeOK`). Operators
named `X_Something` before an operator `X` are variants of it with a plausible
mistake; each makes a property fail and shows that the property depends on that
line of the code.

## 3. Runs

| run | bounds | what it shows |
|---|---|---|
| `burning` | see below | the buffer manager, the image state machine and whole packages, each on its own instance |
| `buf_over_counted` | images of 5 and 6 bytes behind a cluster boundary | violation, finding 1 |
| `usb_burn` | slots of 2 bytes, buffer of 2 slots, images of 1 to 7 bytes | OK for every packet means the image is on the media, but for lost fill chunks; uploads are in order; the composition implements `BufManager!Spec` and `ImgDownload!Spec` |
| `sparse_image` | every image of up to 3 chunks out of 7, windows of 8 words, slots of 4 | the image is rebuilt and its verification hashes it; what is left is small; no image fails for its cuts |
| `sparse_fill_lost`, `sparse_fill_cut` | a raw chunk, then a fill chunk | violations, findings 2 and 3 |
| `package_small_item` | one package with a small item | violation, finding 4 |
| `storage_init_again` | a write of the device tree fails | violation, finding 5 |
| `env_table` | four names in three slots | violation, finding 6 |
| `tftp_wrap` | six blocks with four block numbers, one fault, overtaking | violation, finding 7 |
| `components` | see below | seven components, each on its own instance, without the faults of the next run |
| `under_faults` | see below | four components with failing reads and writes, power cuts and a bad network; two liveness properties |

`burning`, `components` and `under_faults` hold several components that share no
state. Their variable `who` is chosen at the start and says which of them runs; the
others rest in an initial state. Nothing is lost by that, since no step of one reads
or changes another, and every property is about one of them.

`burning` has: the buffer manager with slots of 4 bytes, a buffer of 2 slots, casts
modulo 16 and images of 1 to 21 bytes in every kind (`SlotInBuffer`, `InOrder`,
`DoneComplete`, `CommandEnds`); images of up to 4 bytes in every format to every
destination, with refused commands (`CompleteIntact`, `WrittenWhileBurning`,
`FailedSticks`); 8 packages with 3 power cuts, where every step may fail
(`NewBootloaderHasData`, `SuccessIntact`, `EnvFresh`, `RecoveryCanRestart`,
`ErasedComesBack`).

`components` has: two files on a disk of six clusters, fragmented, with a FAT block
smaller than the FAT (`ImplementsSeqFile`, `WholeReads`); 17 packages with items at
every place in a cluster (`BurntWhole`, `NeverRefused`); keys of every kind, two
commands, initialisations that fail, two power cuts (`ToldStored`, `Hdcp2Whole`); two
device trees, three commands, failing erases, two power cuts (`ImageFound`); a table of
five slots for three names that collide and one of three slots for four names, both
in every state that can be reached (`ImplementsEnvMap`); one copy of the environment
(`SaveKept`); a file of nine blocks with four block numbers, so that they wrap twice,
over a network that loses and doubles packets but keeps their order
(`AcknowledgedStored`, `LoadedWhole`). `StateOK` is the conjunction of the components'
consistency invariants, among them that a name in the table of variables is found
and, until an entry takes the slot of another, that the count of entries is right.

`under_faults` has: a card read that fails (`RightBytes`, `CallsReturn`); two commands
and two power cuts, with the table on the medium cut between blocks, and erases and
device tree writes that fail (`LayoutSound`, `TableStored`, `EraseSpares`); two copies
of the environment, seven saves with four serial numbers and three power cuts
(`NewestStored`); a file of three blocks, three packets lost, doubled or timers that
run early, with overtaking and restarts on either port (`LoadedWhole`, `TransferEnds`).

Why the bounds are enough. In `BufManager` what matters is how a size relates to
the slot, the unit and the modulus: the sizes run through every residue of all
three, several units deep and past the modulus. In `SparseImage` a window can end
at every place of a header, of data and of a fill chunk, and a raw chunk can span
three windows. In
`PackageBurn` three cuts let one fall into the erasing, one into the burning and
one behind the bootloader, or all into retries; the theorems hold for any number.
In `FatFile` a chain has a run, a jump back, a jump ahead, a partial last cluster
and one that is full; reads and seeks of every length follow each other in any
number. In `EmmcParts` three commands and two cuts suffice for: a burn, another
tree, and a restart in each place. For these and for `ImgItem`, `KeyStore`,
`EnvStore` and `Tftp` the theorems of section 5 remove the bounds. In `EnvTable` no
bound is needed: the tables have finitely many states, and all are reached.

`UsbBurn` checks the composition against the two components' specifications as
PROPERTYs (`ClientPattern`, `ChunksInOrder`). So the assumptions `BufManager`
makes about its client, and `ImgDownload` about its caller, are discharged by the
protocol. The assumption `BufManager` makes about the sparse parser's answers is
what `SparseImage` establishes in `LeftIsSmall` and finding 3. What `ImgItem`
assumes of the FAT reader is `ImplementsSeqFile` and `WholeReads`.

Deadlock is checked except where the system may stop: in the runs over `EmmcParts`,
`EnvStore`, `KeyStore` and `Tftp`, whose commands are bounded in number. In `burning`
it is checked of the buffer manager and of the image state machine; a package may rest
(`PackageRests`), as a device without a bootloader and without a card stays off, and
one that has reported a failure waits forever in a loop.

The type invariants of the modules with proofs are proved rather than checked in
each run.

## 4. Fairness

`BufManager!BufFairness`: weak fairness of the loop that gets, fills and reports a
slot. The card path runs it without waiting for anything; over USB it holds as long as
the host sends, and `Abort` is the host that does not. `PackageBurn!PackageFairness`:
weak fairness of `Step`, the steps of a powered device and the operator switching it
on again; power cuts and commands typed at the prompt are not fair, and a burn that
ends in failure or at the prompt counts as an end in `ErasedComesBack`.
`FatFile!FatFairness`: weak fairness of the steps of a call, which runs in one thread
until it returns. `Tftp!TftpFairness`: weak fairness of the handler, of the server's
answers and of the restart, and strong fairness of the client's timer: packets that
are ignored do not set it back, so it runs out however often the server repeats
itself. The network may lose or double only a bounded number of packets, and the
number of fresh starts is one that `netretry` sets (`RetryForever` is `FALSE`): with
the default, the client goes on for ever when nobody answers. The safety properties of
all modules need no fairness.

## 5. Proofs

Of the buffer manager `UsbBurnProofs` proves, for every slot, buffer and image size:
`TypeOK`, `SlotInBuffer`, `InOrder`, `DoneComplete`. The assumptions
(`SizeAssumption`, `PacketAssumption`) are those of the real sizes: the unit
divides the buffer, the buffer divides 2^32, a "mem" image fits its memory.
The properties are not inductive: that the next slot lies in the buffer depends
on how the slot counter, the reported bytes and the write-back unit relate. `IInv`
adds `RoomInv` (the unit is whole slots), `CommandInv` (the manager holds the
command's parameters and the reported bytes are whole slots), `DueInv` (the next
write-back falls due with the last slot of the unit or of the packet),
`DownloadInv` and `UploadInv` (which bytes of the image lie in the buffer and
below it, and how many were taken). One lemma per action shows that it is kept.
The arithmetic is in lemmas of its own; `CastHarmless` is the fact that the u32
cast of the total does not matter.

Of the download `MediumProofs` proves, for every set of images (`ImageAssumption`):
`CompleteIntact`, `WrittenWhileBurning`, `FailedSticks`. `IInv` is `ImgDownloadTypeOK`,
`SizeInv` (the size is the command's, an upload writes nothing), `BurnInv` (what was
disposed of is what the medium holds, or a fill byte that was lost, and where the next
byte goes) and `CompleteIntact`.

Of the composition `UsbBurnProofs` proves `Agreement`, the invariance of `UInv`, and
from it all four properties of the run `usb_burn`: the composition implements both
components (`ClientSafe`, `ChunksSafe`), a host told OK has its image on the medium,
but for fill bytes that were lost (`ToldOkSafe`), and uploads are in order
(`UploadSafe`). `UInv` is the buffer manager's `IInv`, `ReplyInv` (a failed report is
remembered as a media error) and `Link` (while a command is active the host is sending
and the device serving; when the host is satisfied the manager has taken everything).
Because the composition implements `BufManager!Spec`, what is shown of the buffer
manager carries over. `CommandAssumption` says that commands are well-formed and that
the buffer and what is left below it fit the memory.

`PackageBurnProofs` proves for every set of partitions, every package and any
number of power cuts: `PackageTypeOK`, `NewBootloaderHasData`, `SuccessIntact`,
`EnvFresh`, `RecoveryCanRestart`. The assumption (`PackageAssumption`) is that
data partitions are not called like the special ones and that a package has one
item per partition. `PackageInv` adds `TodoInv` (what is to go comes from the package,
the bootloader last), `ProgressInv` (an item is still to go or burned), `DoneInv`
(what success left, and the state of the environment) and `CardInv` (with erasing,
only the card's u-boot burns, and the flash cannot boot before all else is
burned).

`MediumProofs` proves of the keys, for every set of names and values, any number of commands
and power cuts: `ToldSafe` (`ToldStored`: what the host was told is stored is in
memory and on the medium, unless it was burned while the store had no buffer or the
first copy is torn, and until a start that did not find it there) and `Hdcp2Safe`
(`Hdcp2Whole`: a three-part key that shows as burned is whole). The strengthening
says how far the command in progress has come and what of it is stored (`RunInv`),
and that every store that is not torn has whole three-part keys (`WholeInv`).

Of the saved environment `MediumProofs` proves `NewestSafe` (`NewestStored`) for any
number of serial numbers, saves and power cuts, wraps of the serial included. Its
hypothesis `TwoCopies` is the redundant build without failing writes and reads; with
them it does not hold, see section 7. `CopyInv`: the newest copy carries the serial
in memory and the other one its predecessor, or is not whole. `SaveKeptSafe`
(`SaveKept`) is the build with one copy and needs no hypothesis: reads and writes may
fail. `OneInv` says what a save under way has left of the copy.

`LoadProofs` proves of TFTP `LoadedSafe` (`LoadedWhole`) and `AcknowledgedSafe`
(`AcknowledgedStored`) with any number of packets lost, doubled and overtaken.
The hypothesis `ShortFile` is that there are fewer blocks than block numbers, so
that a number names one block. It is needed: past the wrap one late copy of a block is
enough to go wrong, see finding 7. The run `components` covers the wrap on a network
that keeps the order. `ServerInv` says that the blocks a
session or a packet under way has behind it lie in memory in their places,
`ClientInv` the same of the blocks the client counts.

Of the sparse parser, for every set of images and every size of slot, window, fill
buffer and partition, `SparseImageProofs` proves `TypeOK`, `LeftIsSmall` and
`NoneLost`, and `SparseMediaProofs` proves `Rebuilt`, which leaves out images with a
chunk whose length does not fit a u32 (`Oversized`), and `HashesImage` under the
hypothesis `FillsWhole` (no fill chunk is empty: the verification reads one word of
the medium for each, and an empty chunk has written none). `SparseAssumption` says
that sizes are positive, that an image fits the partition, that the file header fits a
window and that a window with what is left before it is below 2^32. The invariant
`IInv` has three parts; the first two, `ParserInv`, are inductive without the third.
`Control` says where the parser is: with `Taken`, the first word it has not taken, a
long chunk that is open ends right before the next one in the image and on the medium
(`LongInv`), a window holds what was not taken (`WindowInv`), and the counters agree
with both at each place of the loop (`AtIdle`, `AtLong`, `AtChunks`); the one
exception, `Wrapped`, is the parser that took the value of a fill chunk it has not
received, whose count is then 2^32 - 1. `BufInv`: the valid part of the fill buffer
holds one value. `MediaInv`: what was taken is on the medium, and behind it an erased
medium is still erased, which is what lets a fill chunk of that value be skipped.
`SumInv` adds what the verification has hashed. The offsets of the chunks (`HeadsOf`,
`AddrsOf`) are recursive functions; that they add up for every image is proved by
induction, see below.

`FatFileProofs` proves of the FAT reader, for every layout of a file and every size of
cluster, sector and FAT buffer: `AtCluster`, `RightBytes` and `WholeReads`, with any
number of failing card reads, and `PlainFile`: with `MaxErrors = 0` the reader
implements `SeqFile`, an open, a seek and a read each mapping to one step when they
return and to stuttering before. `FatAssumption` is a well-formed file: a chain of
different clusters that are not end marks, and a size that ends in the last one.
`FatInv` separates what holds in any case, the types and what a call has counted
(`Counted`), from what holds while `clean`: the kept block of the FAT and the kept
cluster are those of the card (`FatRight`, `CacheRight`), the current cluster holds
the position (`Holds`), and what a read has gathered is the file's bytes, the run of
clusters it is in a part of the chain (`Found`). Of the package decoder `LoadProofs` proves
`BurntWhole` and `NeverRefused`, for every package and every size of cluster, sector and
slot (`ItemAssumption`: the slot is whole clusters and the cluster whole sectors). In
the loop, `InLoop` says that position, bytes left and bytes handed on add up, and that
the position is at a cluster boundary; `FindItem` takes the first item of a name,
which needs the least element of a set of numbers.

`EmmcPartsProofs` proves all four properties of the partitions, for every inherent
table, every size of the medium and of the stored table, every set of device trees and
any number of commands, failed writes and restarts: `LayoutSoundSafe` (`LayoutSound`),
`TableStoredSafe` (`TableStored`), `EraseSparesSafe` (`EraseSpares`) and
`ImageFoundSafe` (`ImageFound`). `PartsAssumption` says what a device tree is: it ends in
a partition that takes the rest of the medium, as the table in the head of
`emmc_partitions.c` does, and its partitions have room in the table. The code checks
neither.
`FitsAssumption` says that no name comes twice, that the inherent table begins
as the one in `emmc_partitions.c` does and fits the medium with whatever sizes the
trees give, that other sizes are far from the width of a u64, and that no tree moves
the reserved partition, which the key code addresses by a constant of its own. No line
checks the last either, so that `LayoutSound` says where this partition is only as far
as this is assumed.

The inductive invariant is `PartsInv`: the layout in use is `Layout(sz, d)` for sizes
and a tree that can be (`DataInv`), and the blocks of the table before the one written
next hold it (`AtInv`), which is why a success means that all of it is on the medium.
What a layout is, is a matter of the two loops. `Sound` says what holds after each
turn of the second one: the partitions are in order with their gaps (`Orderly`), the
first are the inherent ones at the sums of the sizes before them (`InhEntry`), the
others are named in the tree so far, and the last one and its gap end at most one gap
behind the medium or, when the loop has ended, exactly where the medium ends, modulo
2^64: a tree that leaves no room for the last partition makes the subtraction for its
size wrap (`CutEnds`). One lemma per idea shows that a turn keeps it (`PutOffset`,
`PutEnd`, `PutOrder`, `PutNames`). The erases follow from the layout: the bootloader
is no larger than a gap, so the first erase ends before the reserved partition
although its count is taken from the start of the medium; and the erase of a named
partition stays in it since the partitions are in order (`NamedErase`).

`ImageFoundSafe` has three hypotheses. `~DtbFaults`: the writes of the device tree itself
succeed; `~DtbCommand`: only the burning stack writes it; `TreesAlike`: all trees give the
sizes of the same inherent partitions. Without the last, a size stays from one tree to
the next in a static table until the restart (section 7), and the image is not found.
`ImageInv` says that the layout in memory and that of the saved tree, as far as there
are such, are the one the images were burned by, and then goes along the stages of a
storage initialisation. Before a tree was downloaded (`Booted`) the saved tree is the
one the layout is of, unless it was erased. After one was downloaded (`Renewed`) there
are no images while the initialisation is under way, and at its end the layout is that
of the saved tree, which is the one a restart computes (`SameLayout`).

Induction over data. The library's induction theorems have an operator as a parameter
and cannot be used with the installed provers. `Least` and `Induct` are proved instead
from `WFMin` and `NatLessThanWellFounded`, with a set in its place; that is enough
for recursive functions over sequences (`CountUp` in `EmmcPartsProofs`).

Only model-checked: liveness (`CommandEnds`, `ErasedComesBack`, `CallsReturn`,
`TransferEnds`), since fairness is out of the prover's reach; `ImplementsEnvMap`, since
that the probes of double hashing reach every slot is a fact about prime numbers, and
what an import or an export makes of a list is a fold over it; and `StateOK`, which joins
the type invariants of seven components with those of `EnvTable`.

## 6. Properties worth knowing

* `InOrder`, `DoneComplete`: however an image is cut, the writer gets it once,
  whole, in order. They exclude `OverCounted` packets, see finding 1.
* `CompleteIntact`, `ToldOkIntact`, `SuccessIntact`: an image that counts as burned is
  on the media byte by byte. Only the fill chunks of a sparse image are excepted,
  since their write can fail unnoticed at every layer, see finding 2.
* `ToldOkIntact`: it is the stickiness of `_mediaErr` that makes it true.
* `Rebuilt`, `HashesImage`: exclude images with a lost fill write, and `Rebuilt` those
  with a chunk of 4 GB and more, whose length the code computes in a u32.
* `NewBootloaderHasData`, `ErasedComesBack`: erasing the old bootloader first and
  burning the new one last makes a card burn safe against power cuts.
* `EnvFresh`: `upgrade_step` carries over the boot what the burning u-boot was.
* `SuccessIntact`: exempts items without a VERIFY item from being read back, the
  items of finding 4, and the partition the recovery clears.
* `ImplementsSeqFile`, `WholeReads`: whatever the fragmentation and the order of
  seeks and reads, the two caches of the FAT reader cannot be noticed.
* `BurntWhole`, `NeverRefused`: the first, unaligned part of an item and its slots
  neither overlap nor leave a gap, and meet the reader's alignment rule, as the device
  tree does. The read of a VERIFY item is not covered, see section 7.
* `ToldStored`: a key that was reported as burned is stored, if the store had its
  buffer then; without it the report is wrong, see section 7.
* `Hdcp2Whole`: the part that makes a three-part key count as burned is written
  last, so a cut in between cannot be mistaken for a burned key.
* `ImageFound`: an image is found again where it was burned after a restart.
* `TableStored`: the weak checksum of the table does no harm, since success needs the
  comparison of all of it. `LayoutSound`, `EraseSpares`: sums in 64 bits keep the
  partitions in order, and erase ranges that are computed in another way keep off the
  reserved one.
* `ImplementsEnvMap`: collisions and deletions cannot be noticed, until no slot is free
  and a new entry takes the slot of a live one, see finding 6.
* `LoadedWhole`, `AcknowledgedStored`: no loss, double or retry leaves a hole in a loaded
  file: in any order of packets for files shorter than a round of block numbers, and
  past the wrap while packets keep their order, see finding 7. `TransferEnds`: a
  transfer with a bounded number of retries comes to an end.

## 7. Findings

Each is shown by a run that TLC ends with a counterexample; the quotations are in
`PROJECT.json`.

1. `optimus_buffer_manager.c:219`: a last transfer of a whole slot that does not
   complete a unit is written as a whole unit, stale bytes included.
2. `optimus_simg2img.c:262`: a failed write of a fill chunk is not an error, and
   verification reads one word of the chunk only.
3. `optimus_simg2img.c:283`: a window that ends between the header and the value
   of a fill chunk makes the unparsed length wrap. The buffer manager refuses it,
   so a well-formed image fails.
4. `optimus_sdc_burn.c:165`: an item that ends before the first cluster boundary
   is not burned, and without a VERIFY item success is reported.
5. `optimus_download.c:716`: the storage counts as initialised before its device
   tree is saved. When that fails the call fails, and the next one returns success
   at once with no device tree on the medium.
6. `hashtable.c:336`: when every slot is used or deleted, the search for a new name ends
   where it began, and the entry is made there, over a live one, unless that slot is a
   deleted one. The count of entries does not prevent it: it is below the size, since
   some are deleted.
7. `tftp.c:284`: a second copy of the block with number 0, arriving behind a later block,
   counts the wrap once more. The rest of the file is stored a round too far, and the
   transfer is reported as complete.

Seen while modelling, and without a run of their own. Where the models have them,
the properties that meet them are restricted by a constant or a history variable.
The escapes of an export are not in the model.

* `optimus_fat.c:397`: the results of a disk read are tested for being negative,
  but a failed read returns 0. It counts as done and the caller gets what the
  memory held (`RightBytes` holds while `clean`).
* `optimus_sdc_burn.c:95`: a VERIFY item is read into a local array. Whether the
  read is refused depends on where the packer put the item and on the stack.
* `km_efuse_key.c:114`: a fuse read that fails counts as "not there", so the key is
  burned again. `storagekey.c:219`: without a buffer, after an initialisation that
  failed behind the parsing of the device tree (`key_unify.c:167`, `storagekey.c:76`),
  a key is written to memory only and reported as burned (`adrift`).
  `storagekey.c:90`: a store that cannot be read counts as empty, and the next key
  written replaces all others.
* `mmc.c:1680`: of the two copies of the key store only the first is ever read; it
  is rewritten in place, so a cut there loses the keys although the second is
  whole. `mmc.c:1713`: a failed write leaves the area's protection lifted.
* `emmc_partitions.c:298`: the checksum of the table covers the first entry only,
  so a table cut between two blocks is read as valid; the comparison with the
  computed layout repairs it. `:563`: a device tree in memory wins over the one
  just written. `:167`: a size that a tree overrides stays in a static table for
  the next tree that does not name the partition.
  An unprotected erase that is to keep the loader begins at block 0 when no table is
  known (`cmd_aml_mmc.c:286`), and an erase the card refuses is answered well
  (`mmc_write.c:98`).
* `optimus_simg2img.c:152`, `:338`: the length of a chunk is a product in a u32. A chunk
  of 4 GB and more is cut, and what follows it is placed too low (`Oversized`).
* `hashtable.c:920`: an import into a full table drops the names it has no room for
  and still succeeds. `hashtable.c:628`: the escapes written by an export are not
  counted when its size is checked.
* `env_mmc.c:291`: a failed save has counted the serial up; copies that are not
  neighbours can be compared the wrong way at the wrap (`TwoCopies` excludes it).
* `optimus_sdc_burn.c:646` and the failures of LED, screen or storage return
  without the final report. The recovery ignores the results of the storage
  initialisation and of the clearing; a cut while it burns the bootloader
  (`aml_sysrecovery.c:146`) leaves none. A cut between burning the bootloader and
  saving the environment leaves a new u-boot on the old environment. A package
  without a bootloader leaves a device whose old one was erased without any.

## 8. Not modelled

* Configuration file: text parsing; its result is the configuration record of
  `PackageBurn`. Package head checks end before anything is burned.
* FAT: finding a file in the directories, probing the device and its partition
  table; they happen before the burn starts.
* Keys: reading back and queries, which change nothing, and `amlkey_del`, which
  nothing calls. Keys from a card are compiled out (`CONFIG_SUPPORT_SDC_KEYBURN`).
* USB device controller (`dwc_pcd*.c`, `platform.c`): registers of the DWC core. Its
  interrupt dispatch and the connection timeout of `aml_v2_burning.c` could be
  modelled and are not.
* The remaining vendor requests and commands of `optimus_working`: memory access,
  identification, descriptors.
* Storage: NAND and SPI, boot areas, plain block reads and writes.
* Environment: editing and asking at the prompt, flags and callbacks of single
  variables, storage other than eMMC.
* TFTP: sending a file, the server mode and multicast.
* Progress and LED: output only. USB disk: a second door to the modelled flow.
  Recovery key detection: polls a key and starts the modelled recovery.
* The rest of the tree: outside this development. The models cover about 6,000
  source lines, a quarter of the files of section 1. The tree has 1.8 million
  lines, nearly all of them generic U-Boot: other boards, other processors,
  drivers, headers and tables. They are not part of burning this board.

## 9. Plan

Interrupt dispatch and the connection timeout of the USB controller; the other
commands of `optimus_working`; the composition of `KeyStore` with the "key" medium
of `ImgDownload`; the composition of `EmmcParts` with the storage initialisation in
`PackageBurn`; proofs about `EnvTable`.
