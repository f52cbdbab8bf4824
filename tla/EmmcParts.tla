----------------------------- MODULE EmmcParts -----------------------------
(***************************************************************************)
(* The partitions of the eMMC: how emmc_partitions.c lays them out from    *)
(* the device tree, how the table is kept on the medium, how the erase     *)
(* command spares what is protected, and how the burning stack brings a    *)
(* new device tree in (optimus_storage_init).                              *)
(*                                                                         *)
(* The table is several blocks long and is rewritten in place; the power   *)
(* may be cut, and a write may fail, before any of them.  A device tree    *)
(* whose writing was cut is one that get_partition_from_dts refuses.       *)
(***************************************************************************)
EXTENDS Integers, Sequences

CONSTANTS Dtbs,                    \* device trees: sequences of [name, size]
          Capacity,                \* mmc->capacity
          W,                       \* one more than the largest u64
          Gap,                     \* PARTITION_RESERVED
          BootGap,                 \* MMC_BOOT_PARTITION_RESERVED
          Inherent,                \* emmc_partition_table: a sequence of [name, size]
          MaxParts,                \* MAX_MMC_PART_NUM
          PerBlock,                \* entries in one block of the stored table
          TableBlocks,             \* blocks of the stored table
          ReservedAt,              \* MMC_RESERVED_OFFSET, where the key code looks
          DtbAt,                   \* DTB_ADDR_SIZE, where the device tree is kept
          MaxCrashes, MaxOps,
          TableFaults, DtbFaults,  \* whether these writes may fail
          EraseFaults,             \* whether an erase may fail
          ErasedParts,             \* partitions that are erased by name
          DtbCommand,              \* whether "store dtb write" is used
          Images                   \* partitions images are burned to

Full == W - 1   \* NAND_PART_SIZE_FULL
None == <<>>    \* no table, no device tree
NoPart == [name |-> "", size |-> 0, offset |-> 0]
Range1(s) == {s[i] : i \in 1 .. Len(s)}
Final(s) == s[Len(s)]
InherentNames == {p.name : p \in Range1(Inherent)}
Names == InherentNames \union {p.name : p \in UNION {Range1(d) : d \in Dtbs}}

PartEntry == [name : STRING, size : 0 .. Full]
GapBehind(p) == IF p.name = "bootloader" THEN BootGap ELSE Gap

\* The sizes the inherent partitions can have: the built-in ones and those that
\* device trees give.
Given(n) ==
    {p.size : p \in {q \in Range1(Inherent) \union UNION {Range1(d) : d \in Dtbs} : q.name = n}}
Sizes == {sz \in [InherentNames -> UNION {Given(n) : n \in InherentNames}] :
             \A n \in InherentNames : sz[n] \in Given(n)}

\* Where the first k inherent partitions and the gaps behind them end, and how
\* many of the first k partitions of a device tree are not inherent.
Behind(sz) ==
    LET b[k \in 0 .. Len(Inherent)] ==
            IF k = 0 THEN 0 ELSE b[k - 1] + sz[Inherent[k].name] + GapBehind(Inherent[k])
    IN b
Others(d) ==
    LET c[k \in 0 .. Len(d)] ==
            IF k = 0 THEN 0 ELSE c[k - 1] + (IF d[k].name \in InherentNames THEN 0 ELSE 1)
    IN c

\* What the constants are.  A device tree ends in a partition that takes what is
\* left, as the table in the head of emmc_partitions.c does; its partitions and
\* the inherent ones have room in the table, which no line checks.
ASSUME PartsAssumption ==
    /\ {Capacity, W, Gap, BootGap, MaxParts, PerBlock, TableBlocks} \subseteq Nat \ {0}
    /\ {Inherent} \union Dtbs \subseteq Seq(PartEntry)
    /\ \A d \in Dtbs : d # None /\ Final(d).size = Full /\ Final(d).name \notin InherentNames
    /\ \A d \in Dtbs : Len(Inherent) + Others(d)[Len(d)] <= MaxParts
    /\ TableBlocks * PerBlock >= MaxParts
    /\ {TableFaults, DtbFaults, EraseFaults, DtbCommand} \subseteq BOOLEAN
    /\ ErasedParts \subseteq Names

\* What the layout relies on: no name twice; the inherent table begins as the one
\* in emmc_partitions.c does and fits on the medium, whatever sizes device trees
\* give; other sizes are far below the width of a u64; and no device tree moves
\* the reserved partition.
ASSUME FitsAssumption ==
    /\ \A s \in {Inherent} \union Dtbs :
          \A i, j \in 1 .. Len(s) : s[i].name = s[j].name => i = j
    /\ Len(Inherent) > 2 /\ "cache" \in InherentNames
    /\ Inherent[1].name = "bootloader" /\ Inherent[2].name = "reserved"
    /\ \A sz \in Sizes : \A k \in 1 .. Len(Inherent) : Behind(sz)[k] <= Capacity
    /\ \A d \in Dtbs : \A i \in 1 .. Len(d) : d[i].size = Full \/ Capacity + Gap + d[i].size < W
    /\ Gap <= BootGap /\ Capacity + Gap < W
    /\ \A b \in Given("bootloader") : b <= Gap /\ b + BootGap = ReservedAt
    /\ \A r \in Given("reserved") : ReservedAt < DtbAt /\ DtbAt < ReservedAt + r

VARIABLES disk,      \* per block, the table its content was written from
          dtb,       \* the device tree on the medium
          table,     \* part_table, from a device tree read or downtree
          sizes,     \* the sizes in emmc_partition_table
          conf,      \* mmc_partition_config_of
          checked,   \* is_partition_checked
          tree,      \* the device tree that was downloaded, or that a command brings
          inited,    \* _disk_intialed_ok
          todo, at,  \* what the running command still does; where mmc_device_init is
          reply,     \* what the last command answered
          hit,       \* the partitions the last erase touched
          image,     \* where each partition's image was burned
          ops, crashes

emmcVars == <<disk, dtb, table, sizes, conf, checked, tree, inited, todo, at, reply, hit,
              image, ops, crashes>>
-----------------------------------------------------------------------------
(* The layout. *)

\* find_partition_by_name: the first of that name.
Has(parts, n) == \E i \in 1 .. Len(parts) : parts[i].name = n
Find(parts, n) ==
    parts[CHOOSE i \in 1 .. Len(parts) :
              parts[i].name = n /\ \A j \in 1 .. i - 1 : parts[j].name # n]

\* overide_emmc_partition_table: sizes that the device tree does not give stay.
Override(old, tab) == [n \in InherentNames |-> IF Has(tab, n) THEN Find(tab, n).size ELSE old[n]]

\* Mutant: the next partition starts where the previous one starts.
Place_AtStart(parts, p) ==
    Append(parts, [name |-> p.name, size |-> p.size, offset |->
        IF parts = <<>> THEN 0 ELSE (Final(parts).offset + GapBehind(Final(parts))) % W])

\* A partition is put behind the last one.
Place(parts, p) ==
    Append(parts, [name |-> p.name, size |-> p.size, offset |->
        IF parts = <<>> THEN 0
        ELSE (Final(parts).offset + Final(parts).size + GapBehind(Final(parts))) % W])

\* The first loop of mmc_get_partition_table, after each number of turns.
Inherited(sz) ==
    LET parts[k \in 0 .. Len(Inherent)] ==
            IF k = 0 THEN <<>>
            ELSE Place(parts[k - 1], [name |-> Inherent[k].name, size |-> sz[Inherent[k].name]])
    IN parts

\* One turn of the second loop: a partition of the first is skipped, the first
\* that does not fit gets the rest of the medium and ends the loop.
Turn(s, p) ==
    LET parts == Place(s.parts, p)
        q == Final(parts)
        cut == p.size = Full \/ (q.offset + q.size) % W > Capacity
    IN IF s.done \/ p.name \in InherentNames THEN s
       ELSE [parts |-> IF cut THEN [parts EXCEPT ![Len(parts)].size = (Capacity - q.offset) % W]
                       ELSE parts,
             done |-> cut]

\* mmc_get_partition_table, after each number of turns of the second loop.
Turns(sz, tab) ==
    LET s[k \in 0 .. Len(tab)] ==
            IF k = 0 THEN [parts |-> Inherited(sz)[Len(Inherent)], done |-> FALSE]
            ELSE Turn(s[k - 1], tab[k])
    IN s

Layout(sz, tab) == Turns(sz, tab)[Len(tab)].parts
-----------------------------------------------------------------------------
(* The table on the medium. *)

\* mmc_partition_tbl_checksum_calc: the pointer never leaves the first entry.
Checksum(parts, num) == [i \in 1 .. num |-> parts[1]]

\* What a read of the blocks gives; the first block also has the header.
Entries(num) ==
    [i \in 1 .. num |-> LET t == disk[(i - 1) \div PerBlock + 1]
                        IN IF i <= Len(t) THEN t[i] ELSE NoPart]
StoredNum == Len(disk[1])

\* mmc_read_partition_tbl
ReadOK ==
    /\ disk[1] # None /\ StoredNum <= MaxParts
    /\ Checksum(disk[1], StoredNum) = Checksum(Entries(StoredNum), StoredNum)

\* Mutant: only the number of partitions is compared.
Verify_Num(c) == Len(c) = StoredNum

\* mmc_partition_verify
Verify(c) == Len(c) = StoredNum /\ Entries(StoredNum) = c
-----------------------------------------------------------------------------
EmmcPartsInit ==
    /\ disk = [b \in 1 .. TableBlocks |-> None]
    /\ dtb = None /\ table = None /\ conf = None /\ tree = None
    /\ sizes = [n \in InherentNames |-> Find(Inherent, n).size]
    /\ checked = FALSE /\ inited = FALSE
    /\ todo = <<"init">> /\ at = 0
    /\ reply = "none"
    /\ hit = {}
    /\ image = [n \in Images |-> NoPart]
    /\ ops = 0 /\ crashes = 0

Stage(s) == todo # <<>> /\ Head(todo) = s
Idle == todo = <<>> /\ ops < MaxOps
Answers(r) == reply' = r /\ todo' = <<>>

\* mmc_device_init returned: mmc_init notes a success and goes on in any case,
\* the dtb_write command returns it.
DeviceInitReturns(ok) ==
    /\ at' = 0
    /\ checked' = (checked \/ (ok /\ Stage("init")))
    /\ IF ok \/ Stage("init")
       THEN /\ todo' = Tail(todo)
            /\ reply' = IF Len(todo) > 1 THEN reply ELSE IF ok THEN "ok" ELSE "failed"
       ELSE Answers("failed")

\* mmc_init when the table has been checked before.
InitAgain ==
    /\ Stage("init") /\ checked
    /\ todo' = Tail(todo)
    /\ reply' = IF Len(todo) > 1 THEN reply ELSE "none"
    /\ UNCHANGED <<disk, dtb, table, sizes, conf, checked, tree, inited, at, hit, image, ops, crashes>>

\* get_dtb_struct: a table from a downtree device tree comes first.
GetTable(tab, saved) == IF tab # None THEN tab ELSE saved

\* mmc_device_init up to the decision to write: without a device tree there
\* is no layout; a table that cannot be read or differs is written.
DeviceInit ==
    /\ (Stage("init") /\ ~checked) \/ Stage("table")
    /\ at = 0
    /\ table' = GetTable(table, dtb)
    /\ IF table' = None
       THEN conf' = None /\ DeviceInitReturns(FALSE) /\ UNCHANGED sizes
       ELSE /\ sizes' = Override(sizes, table')
            /\ conf' = Layout(sizes', table')
            /\ \/ ReadOK /\ Verify(conf') /\ DeviceInitReturns(TRUE)
               \/ (TableFaults \/ ~ReadOK \/ ~Verify(conf')) /\ at' = 1 /\ UNCHANGED <<checked, todo, reply>>
    /\ UNCHANGED <<disk, dtb, tree, inited, hit, image, ops, crashes>>

\* mmc_write_partition_tbl, one block.
WriteBlock ==
    /\ at > 0
    /\ \/ /\ disk' = [disk EXCEPT ![at] = conf]
          /\ IF at < TableBlocks THEN at' = at + 1 /\ UNCHANGED <<checked, todo, reply>>
             ELSE DeviceInitReturns(TRUE)
       \/ TableFaults /\ DeviceInitReturns(FALSE) /\ UNCHANGED disk
    /\ UNCHANGED <<dtb, table, sizes, conf, tree, inited, hit, image, ops, crashes>>
-----------------------------------------------------------------------------
(* Erasing. *)

End(p) == p.offset + p.size
Touches(p, from, to) == p.offset < to /\ from < End(p)

\* Mutant: the gap in front of the reserved partition is not kept.
EraseEnd_NoGap(from) == from + Find(conf, "reserved").offset

\* The end of the first erase: the count is that from the start of the medium.
EraseEnd(from) == from + Find(conf, "reserved").offset - Gap

\* "amlmmc erase" with a device number, or with one of these words.
EraseModes == {"device", "whole", "non_cache", "non_loader"}

\* It returns before it erases anything: the device is found by the partition
\* "logo" or by the one that is named, and the reserved one is protected.
EraseRefused(what, protected) ==
    \/ what \in {"whole", "non_cache"} /\ ~Has(conf, "logo")
    \/ what \in EraseModes /\ protected /\ ~Has(conf, "reserved")
    \/ what \notin EraseModes /\ (~Has(conf, what) \/ (protected /\ what = "reserved"))

\* What is erased: one partition, the parts of the medium around the reserved
\* partition, or everything.
Erased(what, protected) ==
    LET from == IF what = "non_loader" /\ Has(conf, "bootloader") THEN End(Find(conf, "bootloader")) ELSE 0
        kept == Find(conf, IF what = "non_cache" THEN "cache" ELSE "reserved")
    IN {p.name : p \in {q \in Range1(conf) :
           IF what \notin EraseModes THEN Touches(q, Find(conf, what).offset, End(Find(conf, what)))
           ELSE IF protected
           THEN Touches(q, from, EraseEnd(from)) \/ Touches(q, End(kept) + Gap, Capacity - 1)
           ELSE Touches(q, from, Capacity)}}

\* What is in partitions: the reserved one holds the table and the device tree.
\* Without a table the erase begins at the start of the medium.
ContentOf(parts) ==
    {n \in Images \union {"reserved"} : conf = None \/ n \in parts}
        \union (IF conf = None \/ "reserved" \in parts THEN {"dtb"} ELSE {})

\* mmc_berase answers well when the card refuses and ill when it stays busy; either
\* may leave some of it.
Erase(what, protected) ==
    /\ Stage("erase")
    /\ IF EraseRefused(what, protected)
       THEN hit' = {} /\ Answers("failed") /\ UNCHANGED <<disk, dtb, image>>
       ELSE /\ hit' = Erased(what, protected)
            /\ \/ todo' = Tail(todo) /\ reply' = IF Len(todo) > 1 THEN reply ELSE "erased"
               \/ EraseFaults /\ Answers("failed")
            /\ \E gone \in IF EraseFaults THEN SUBSET ContentOf(hit') ELSE {ContentOf(hit')} :
                  /\ disk' = IF "reserved" \in gone THEN [b \in 1 .. TableBlocks |-> None] ELSE disk
                  /\ dtb' = IF "dtb" \in gone THEN None ELSE dtb
                  /\ image' = [n \in Images |-> IF n \in gone THEN NoPart ELSE image[n]]
    /\ UNCHANGED <<table, sizes, conf, checked, tree, inited, at, ops, crashes>>
-----------------------------------------------------------------------------
(* Commands. *)

\* Without a downloaded tree none is saved.
InitSteps(d, erase) ==
    IF d = None THEN IF erase THEN <<"init", "erase", "answer">> ELSE <<"init", "answer">>
    ELSE IF erase THEN <<"init", "erase", "undtb", "dtb", "table", "answer">>
    ELSE <<"init", "undtb", "dtb", "table", "answer">>

\* Mutant: a table that is already in memory is kept.
StorageInit_KeepsTable(d, erase) ==
    /\ Idle /\ ops' = ops + 1
    /\ inited => d = tree
    /\ d = None => tree = None
    /\ IF inited
       THEN reply' = "inited" /\ UNCHANGED <<table, tree, todo, image>>
       ELSE /\ table' = IF table = None THEN d ELSE table
            /\ tree' = d
            /\ todo' = InitSteps(d, erase)
            /\ image' = IF d = None THEN image ELSE [n \in Images |-> NoPart]
            /\ reply' = "none"
    /\ UNCHANGED <<disk, dtb, sizes, conf, checked, inited, at, hit, crashes>>

\* optimus_storage_init: a downloaded device tree replaces the table in memory
\* first and is saved at the end; what was downloaded stays.  A second call in
\* the same session, with the same tree, does nothing.
StorageInit(d, erase) ==
    /\ Idle /\ ops' = ops + 1
    /\ inited => d = tree
    /\ d = None => tree = None
    /\ IF inited
       THEN reply' = "inited" /\ UNCHANGED <<table, tree, todo, image>>
       ELSE /\ table' = IF d = None THEN table ELSE d
            /\ tree' = d
            /\ todo' = InitSteps(d, erase)
            /\ image' = IF d = None THEN image ELSE [n \in Images |-> NoPart]
            /\ reply' = "none"
    /\ UNCHANGED <<disk, dtb, sizes, conf, checked, inited, at, hit, crashes>>

\* The flag of the initialised storage, and optimus_save_loaded_dtb_to_flash
\* erasing the tree; whether that worked is not looked at.
UndoDtb ==
    /\ Stage("undtb")
    /\ inited' = TRUE
    /\ dtb' \in {None} \union (IF DtbFaults THEN {dtb} ELSE {})
    /\ todo' = Tail(todo)
    /\ UNCHANGED <<disk, table, sizes, conf, checked, tree, at, reply, hit, image, ops, crashes>>

\* The write of "emmc dtb_write"; a failure ends the command.
WriteDtb ==
    /\ Stage("dtb")
    /\ \/ dtb' = tree /\ todo' = Tail(todo) /\ UNCHANGED reply
       \/ DtbFaults /\ dtb' \in {dtb, None} /\ Answers("failed")
    /\ UNCHANGED <<disk, table, sizes, conf, checked, tree, inited, at, hit, image, ops, crashes>>

\* The flag is set, if it is not yet; the header of the tree is checked last.
Answer ==
    /\ Stage("answer")
    /\ inited' = TRUE
    /\ Answers("inited") \/ (tree # None /\ Answers("failed"))
    /\ UNCHANGED <<disk, dtb, table, sizes, conf, checked, tree, at, hit, image, ops, crashes>>

\* "store dtb write" and "amlmmc erase" at the prompt, where mmc_init returns at
\* once since the device is initialised, and optimus_storage_exit.
Command(steps, d) ==
    /\ Idle /\ ops' = ops + 1
    /\ todo' = steps
    /\ tree' = d
    /\ reply' = "none"
    /\ UNCHANGED <<disk, dtb, table, sizes, conf, checked, inited, at, hit, image, crashes>>

StorageExit ==
    /\ Idle /\ inited /\ ops' = ops + 1
    /\ inited' = FALSE
    /\ reply' = "none"
    /\ UNCHANGED <<disk, dtb, table, sizes, conf, checked, tree, todo, at, hit, image, crashes>>

\* An image is burned to a partition, over whatever was there.
Burn(n) ==
    /\ todo = <<>> /\ inited /\ conf # None /\ Has(conf, n)
    /\ LET p == Find(conf, n)
       IN image' = [m \in Images |-> IF m = n THEN p
                                     ELSE IF Touches(image[m], p.offset, End(p)) THEN NoPart
                                     ELSE image[m]]
    /\ UNCHANGED <<disk, dtb, table, sizes, conf, checked, tree, inited, todo, at, reply, hit, ops, crashes>>

\* The power is cut, or the device restarts, and mmc_init runs again.
PowerCut ==
    /\ crashes < MaxCrashes
    /\ crashes' = crashes + 1
    /\ dtb' \in {dtb} \union (IF Stage("dtb") THEN {None, tree} ELSE {})
    /\ table' = None /\ conf' = None /\ tree' = None
    /\ sizes' = [n \in InherentNames |-> Find(Inherent, n).size]
    /\ checked' = FALSE /\ inited' = FALSE
    /\ todo' = <<"init">> /\ at' = 0
    /\ reply' = "none" /\ hit' = {}
    /\ UNCHANGED <<disk, image, ops>>

EmmcPartsNext ==
    \/ InitAgain \/ DeviceInit \/ WriteBlock \/ UndoDtb \/ WriteDtb \/ Answer
    \/ \E what \in EraseModes \union ErasedParts, protected \in BOOLEAN : Erase(what, protected)
    \/ \E d \in Dtbs \union {None}, erase \in BOOLEAN : StorageInit(d, erase)
    \/ DtbCommand /\ \E d \in Dtbs : Command(<<"dtb", "table">>, d)
    \/ Command(<<"erase">>, tree)
    \/ StorageExit
    \/ \E n \in Images : Burn(n)
    \/ PowerCut

EmmcPartsSpec == EmmcPartsInit /\ [][EmmcPartsNext]_emmcVars
-----------------------------------------------------------------------------
(* The state stays within its types. *)
EmmcPartsTypeOK ==
    /\ {dtb, table, tree} \subseteq Dtbs \union {None}
    /\ \A t \in Range1(disk) \union {conf} : Len(t) <= MaxParts
    /\ at \in 0 .. TableBlocks
    /\ hit \subseteq Names
    /\ reply \in {"none", "ok", "failed", "inited", "erased"}

(* Every partition begins behind the end of the one before and the gap, none
   but the last can reach over the end of the medium, the last one ends there,
   and no two have the same name.  With device trees that do not move the reserved
   partition (FitsAssumption) it is where the key code expects it by a constant of
   its own, and the tree itself lies in it behind the table.                 *)
LayoutSound ==
    conf # None =>
        /\ \A i \in 1 .. Len(conf) - 1 :
            conf[i + 1].offset >= End(conf[i]) + Gap /\ End(conf[i]) <= Capacity
        /\ End(Final(conf)) % W = Capacity
        /\ \A i, j \in 1 .. Len(conf) : conf[i].name = conf[j].name => i = j
        /\ LET r == Find(conf, "reserved")
           IN r.offset = ReservedAt /\ r.offset < DtbAt /\ DtbAt < End(r)

\* The command that wrote the device tree goes on after mmc_device_init.
TableSucceeds == Stage("table") /\ todo' = Tail(todo) /\ reply' # "failed"

(* mmc_device_init succeeds only with the table of this layout on the medium,
   by writing it or by having compared all of it, whatever interrupted writes
   had left there.                                                           *)
TableStored ==
    [][(~checked /\ checked') \/ TableSucceeds => (StoredNum = Len(conf) /\ Entries(StoredNum) = conf)']_emmcVars

(* A protected erase never reaches the reserved partition, one that protects
   the cache never the cache, one that keeps the loader never the loader, and
   one of a partition never another.                                         *)
EraseSpares ==
    [][\A what \in EraseModes \union ErasedParts :
         /\ Erase(what, TRUE) =>
               /\ "reserved" \notin hit'
               /\ what = "non_cache" => "cache" \notin hit'
               /\ what = "non_loader" => "bootloader" \notin hit'
         /\ what \notin EraseModes /\ Erase(what, FALSE) => hit' \subseteq {what}]_emmcVars

(* An image that was burned is found in its partition after any number of
   restarts, unless it was erased: the layout it was burned by is the one the
   next start computes from the saved device tree.                           *)
ImageFound ==
    todo = <<>> /\ conf # None =>
        \A n \in Images : image[n] # NoPart => Has(conf, n) /\ Find(conf, n) = image[n]

(* "init dest burning staorge": a storage initialisation that succeeds has
   saved the device tree, if one was downloaded.                             *)
InitSaved == reply = "inited" => dtb = tree \/ tree = None
=============================================================================
