------------------------------ MODULE FatFile ------------------------------
(***************************************************************************)
(* Reading one file of the card: do_fat_fopen, do_fat_fseek, do_fat_fread  *)
(* and do_fat_fclose of optimus_fat.c over the two caches of an open file, *)
(* the block of FAT entries and the cluster that was last read in part.    *)
(*                                                                         *)
(* A byte of the disk is named by its place <<cluster, index>>, so a copy  *)
(* from the wrong cluster, or from a cache that holds another one, shows   *)
(* in the data.  A read of the card may fail: block_read then returns 0,   *)
(* which no caller takes for a failure, and the memory it should have      *)
(* filled keeps what it held from some block on.                           *)
(***************************************************************************)
EXTENDS Integers, Sequences

CONSTANTS BPC,       \* bytes in a cluster
          SECTOR,    \* bytes in a sector; divides BPC
          FATBUF,    \* FAT entries in the buffered block
          EOC,       \* the first entry that CHECK_CLUST takes for a chain's end
          Clusters,  \* cluster numbers of the disk, all above 1 and below EOC
          Layouts,   \* files: [chain |-> their clusters, size |-> bytes]
          MaxErrors  \* failed card reads in a behaviour

\* What the constants are.
ASSUME FatAssumption ==
    /\ SECTOR \in Nat \ {0} /\ FATBUF \in Nat \ {0}
    /\ BPC \in Nat \ {0} /\ BPC % SECTOR = 0
    /\ EOC \in Nat /\ Clusters \subseteq 2 .. EOC - 1
    /\ MaxErrors \in Nat
    /\ \A l \in Layouts :
        /\ l.chain \in Seq(Clusters) /\ l.size \in Nat \ {0}
        /\ \A i, j \in 1 .. Len(l.chain) : l.chain[i] = l.chain[j] => i = j
        /\ l.size <= Len(l.chain) * BPC /\ l.size > (Len(l.chain) - 1) * BPC

VARIABLES layout,    \* the file on the card
          offset,    \* files[fd].offset
          curclust,  \* files[fd].curclust
          cached,    \* fat_buf_cluster_index
          cache,     \* fat_buf
          fatnum,    \* fatbufnum
          fatbuf,    \* the buffered FAT entries
          op,        \* the call in progress and its locals
          out,       \* what the last call returned
          errors,    \* failed card reads so far
          clean      \* no card read failed since the file was opened

fatVars == <<layout, offset, curclust, cached, cache, fatnum, fatbuf, op, out, errors, clean>>

Junk == <<0, 0>>                 \* what fresh memory holds
FatEntries == Clusters \union {0, EOC}
NoCall == [at |-> "idle"]
Done == [got |-> <<>>, ok |-> TRUE]
Refused == [got |-> <<>>, ok |-> FALSE]

\* The entry of the FAT on the card: the cluster that follows c in its file.
FatOnDisk(c) ==
    IF \E i \in 1 .. Len(layout.chain) : layout.chain[i] = c
    THEN LET i == CHOOSE j \in 1 .. Len(layout.chain) : layout.chain[j] = c
         IN  IF i < Len(layout.chain) THEN layout.chain[i + 1] ELSE EOC
    ELSE 0

CheckClust(c) == c <= 1 \/ c >= EOC       \* CHECK_CLUST: not a data cluster

\* The bytes of a cluster run of n clusters that starts at cluster c.
RunBytes(c, n) == [i \in 1 .. n * BPC |-> <<c + ((i - 1) \div BPC), (i - 1) % BPC>>]

\* get_fatent: entry c, through the buffered block.  When the block must be
\* read and the read fails, the entries of the old block, or whatever the
\* memory held before the first one, pass for those of the new block.
GetFatent(c, entry) ==
    LET num == c \div FATBUF
        slot == c % FATBUF
    IN  \/ /\ num = fatnum
           /\ entry = fatbuf[slot]
           /\ UNCHANGED <<fatnum, fatbuf, errors, clean>>
        \/ /\ num # fatnum
           /\ fatbuf' = [s \in 0 .. FATBUF - 1 |-> FatOnDisk(num * FATBUF + s)]
           /\ fatnum' = num
           /\ entry = FatOnDisk(c)
           /\ UNCHANGED <<errors, clean>>
        \/ /\ num # fatnum
           /\ errors < MaxErrors
           /\ fatbuf' = IF fatnum # -1 THEN fatbuf ELSE [s \in 0 .. FATBUF - 1 |-> entry]
           /\ fatnum' = num
           /\ entry = fatbuf'[slot]
           /\ errors' = errors + 1
           /\ clean' = FALSE

\* get_cluster: n clusters from c on into memory that held old.  A failed
\* read has brought the first k sectors only.
ReadTo(c, n, old, k) == [i \in 1 .. n * BPC |-> IF i <= k * SECTOR THEN RunBytes(c, n)[i] ELSE old[i]]

GetCluster(c, n, old, new) ==
    \/ /\ new = RunBytes(c, n)
       /\ UNCHANGED <<errors, clean>>
    \/ /\ errors < MaxErrors
       /\ \E k \in 0 .. n * (BPC \div SECTOR) - 1 : new = ReadTo(c, n, old, k)
       /\ errors' = errors + 1
       /\ clean' = FALSE

FreshMemory(n) == [i \in 1 .. n |-> Junk]
-----------------------------------------------------------------------------
FatFileInit ==
    /\ layout \in Layouts
    /\ offset = 0
    /\ curclust = layout.chain[1]
    /\ cached = 0
    /\ cache = FreshMemory(BPC)
    /\ fatnum = -1
    /\ fatbuf = [s \in 0 .. FATBUF - 1 |-> 0]
    /\ op = NoCall
    /\ out = Done
    /\ errors = 0
    /\ clean = TRUE

Reopen_KeepIndex ==
    /\ op = NoCall
    /\ offset' = 0
    /\ curclust' = layout.chain[1]
    /\ cache' = FreshMemory(BPC)
    /\ fatnum' = -1
    /\ fatbuf' = [s \in 0 .. FATBUF - 1 |-> 0]
    /\ clean' = TRUE
    /\ out' = Done
    /\ UNCHANGED <<layout, cached, op, errors>>

\* do_fat_fclose and do_fat_fopen of the same file: memory is fresh again.
Reopen ==
    /\ op = NoCall
    /\ offset' = 0
    /\ curclust' = layout.chain[1]
    /\ cached' = 0
    /\ cache' = FreshMemory(BPC)
    /\ fatnum' = -1
    /\ fatbuf' = [s \in 0 .. FATBUF - 1 |-> 0]
    /\ clean' = TRUE
    /\ out' = Done
    /\ UNCHANGED <<layout, op, errors>>
-----------------------------------------------------------------------------
\* do_fat_fseek, from the start of the file
ClustOffset(o) == o - (o % BPC)

SeekRefused(to) ==
    /\ op = NoCall
    /\ to > layout.size
    /\ out' = Refused
    /\ UNCHANGED <<layout, offset, curclust, cached, cache, fatnum, fatbuf, op, errors, clean>>

\* Mutant: the end of the file is not looked for.
SeekInCluster_NoEnd(to) ==
    /\ op = NoCall
    /\ offset <= to
    /\ to < ClustOffset(offset) + BPC
    /\ offset' = to
    /\ out' = Done
    /\ UNCHANGED <<layout, curclust, cached, cache, fatnum, fatbuf, op, errors, clean>>

\* Already in the right cluster: only the position moves.
SeekInCluster(to) ==
    /\ op = NoCall
    /\ to <= layout.size
    /\ offset <= to
    /\ to < ClustOffset(offset) + BPC
    /\ offset' = to
    /\ out' = Done
    /\ UNCHANGED <<layout, curclust, cached, cache, fatnum, fatbuf, op, errors, clean>>

\* Backwards the walk starts at the head, forwards at the current cluster.
SeekStart(to) ==
    /\ op = NoCall
    /\ to <= layout.size
    /\ \/ /\ to < offset
          /\ op' = [at |-> "seek", to |-> to, clust |-> layout.chain[1], seeked |-> 0]
       \/ /\ ClustOffset(offset) + BPC <= to
          /\ op' = [at |-> "seek", to |-> to, clust |-> curclust, seeked |-> ClustOffset(offset)]
    /\ UNCHANGED <<layout, offset, curclust, cached, cache, fatnum, fatbuf, out, errors, clean>>

SeekWalk_Stays ==
    /\ op.at = "seek"
    /\ op.seeked + BPC <= op.to
    /\ \E entry \in FatEntries :
        /\ GetFatent(op.clust, entry)
        /\ op' = [op EXCEPT !.clust = entry]
    /\ UNCHANGED <<layout, offset, curclust, cached, cache, out>>

SeekWalk ==
    /\ op.at = "seek"
    /\ op.seeked + BPC <= op.to
    /\ \E entry \in FatEntries :
        /\ GetFatent(op.clust, entry)
        /\ op' = [op EXCEPT !.clust = entry, !.seeked = @ + BPC]
    /\ UNCHANGED <<layout, offset, curclust, cached, cache, out>>

\* Arrived: a position inside a cluster also brings the cluster to the cache.
SeekArrive ==
    /\ op.at = "seek"
    /\ op.seeked + BPC > op.to
    /\ curclust' = op.clust
    /\ offset' = op.to
    /\ \/ /\ op.to % BPC # 0 /\ op.clust # cached
          /\ GetCluster(op.clust, 1, cache, cache')
          /\ cached' = op.clust
       \/ /\ op.to % BPC = 0 \/ op.clust = cached
          /\ UNCHANGED <<cached, cache, errors, clean>>
    /\ op' = NoCall
    /\ out' = Done
    /\ UNCHANGED <<layout, fatnum, fatbuf>>
-----------------------------------------------------------------------------
\* do_fat_fread of n bytes into memory at address a, counted modulo a sector

\* The position and the cluster are written back only on the normal way out.
Commit(got, off, clust) ==
    /\ offset' = off
    /\ curclust' = clust
    /\ op' = NoCall
    /\ out' = [got |-> got, ok |-> TRUE]

GiveUp ==
    /\ op' = NoCall
    /\ out' = Refused
    /\ UNCHANGED <<offset, curclust>>

ReadRefused(n) ==
    /\ op = NoCall
    /\ offset + n > layout.size
    /\ GiveUp
    /\ UNCHANGED <<layout, cached, cache, fatnum, fatbuf, errors, clean>>

\* The position is inside a cluster: its rest comes from the cached cluster.
ReadFirst(n, a) ==
    LET inClust == offset % BPC
        first == BPC - inClust
    IN  /\ op = NoCall
        /\ offset + n <= layout.size
        /\ inClust # 0
        /\ \/ /\ curclust # cached
              /\ GetCluster(curclust, 1, cache, cache')
              /\ cached' = curclust
           \/ /\ curclust = cached
              /\ UNCHANGED <<cached, cache, errors, clean>>
        /\ \/ /\ n < first
              /\ Commit(SubSeq(cache', inClust + 1, inClust + n), offset + n, curclust)
           \/ /\ n >= first
              /\ op' = [at |-> "next", then |-> "align", got |-> SubSeq(cache', inClust + 1, BPC),
                        act |-> n - first, off |-> offset + first, clust |-> curclust,
                        end |-> curclust, run |-> 0, addr |-> a, want |-> n]
              /\ UNCHANGED <<offset, curclust, out>>
        /\ UNCHANGED <<layout, fatnum, fatbuf>>

ReadAligned(n, a) ==
    /\ op = NoCall
    /\ offset + n <= layout.size
    /\ offset % BPC = 0
    /\ op' = [at |-> "align", then |-> "loop", got |-> <<>>, act |-> n, off |-> offset,
              clust |-> curclust, end |-> curclust, run |-> 0, addr |-> a, want |-> n]
    /\ UNCHANGED <<layout, offset, curclust, cached, cache, fatnum, fatbuf, out, errors, clean>>

\* Mutant: the next cluster is looked up at the end of the file as well.
ReadNext_Always ==
    /\ op.at = "next"
    /\ \E entry \in FatEntries :
        /\ GetFatent(op.end, entry)
        /\ \/ /\ CheckClust(entry)
              /\ GiveUp
           \/ /\ ~CheckClust(entry)
              /\ op' = [op EXCEPT !.at = op.then, !.clust = entry]
              /\ UNCHANGED <<offset, curclust, out>>
    /\ UNCHANGED <<layout, cached, cache>>

\* optimus_fat_get_fat_next_entry: at the end of the file there is none.
ReadNext ==
    /\ op.at = "next"
    /\ \/ /\ op.off >= layout.size
          /\ op' = [op EXCEPT !.at = op.then]
          /\ UNCHANGED <<offset, curclust, out, fatnum, fatbuf, errors, clean>>
       \/ /\ op.off < layout.size
          /\ \E entry \in FatEntries :
                /\ GetFatent(op.end, entry)
                /\ \/ /\ CheckClust(entry)
                      /\ GiveUp
                   \/ /\ ~CheckClust(entry)
                      /\ op' = [op EXCEPT !.at = op.then, !.clust = entry]
                      /\ UNCHANGED <<offset, curclust, out>>
    /\ UNCHANGED <<layout, cached, cache>>

\* The rest is read straight into the caller's memory, which must be aligned.
ReadAlign ==
    /\ op.at = "align"
    /\ \/ /\ (op.addr + Len(op.got)) % SECTOR # 0
          /\ GiveUp
       \/ /\ (op.addr + Len(op.got)) % SECTOR = 0
          /\ op' = [op EXCEPT !.at = "loop"]
          /\ UNCHANGED <<offset, curclust, out>>
    /\ UNCHANGED <<layout, cached, cache, fatnum, fatbuf, errors, clean>>

\* A run of consecutive clusters starts with the current one ...
ReadLoop ==
    /\ op.at = "loop"
    /\ op.act >= BPC
    /\ op' = [op EXCEPT !.at = "scan", !.end = op.clust, !.run = 1, !.act = @ - BPC]
    /\ UNCHANGED <<layout, offset, curclust, cached, cache, fatnum, fatbuf, out, errors, clean>>

\* ... and goes on while the FAT names the following cluster number.
ReadScan ==
    /\ op.at = "scan"
    /\ \/ /\ op.act < BPC
          /\ op' = [op EXCEPT !.at = "load"]
          /\ UNCHANGED <<offset, curclust, out, fatnum, fatbuf, errors, clean>>
       \/ /\ op.act >= BPC
          /\ \E entry \in FatEntries :
                /\ GetFatent(op.end, entry)
                /\ \/ /\ CheckClust(entry)
                      /\ Commit(op.got, op.off, op.clust)
                   \/ /\ ~CheckClust(entry)
                      /\ op' = IF entry = op.end + 1
                               THEN [op EXCEPT !.end = entry, !.run = @ + 1, !.act = @ - BPC]
                               ELSE [op EXCEPT !.at = "load"]
                      /\ UNCHANGED <<offset, curclust, out>>
    /\ UNCHANGED <<layout, cached, cache>>

ReadLoad ==
    /\ op.at = "load"
    /\ \E data \in {ReadTo(op.clust, op.run, FreshMemory(op.run * BPC), k) :
                     k \in 0 .. op.run * (BPC \div SECTOR)} :
        /\ GetCluster(op.clust, op.run, FreshMemory(op.run * BPC), data)
        /\ op' = [op EXCEPT !.at = "next", !.then = "loop", !.got = @ \o data,
                            !.off = @ + op.run * BPC]
    /\ UNCHANGED <<layout, offset, curclust, cached, cache, fatnum, fatbuf, out>>

\* Mutant: which cluster was kept is not noted.
ReadTail_NoIndex ==
    /\ op.at = "loop"
    /\ op.act < BPC
    /\ \/ /\ op.act > 0
          /\ GetCluster(op.clust, 1, cache, cache')
          /\ Commit(op.got \o SubSeq(cache', 1, op.act), op.off + op.act, op.clust)
       \/ /\ op.act = 0
          /\ Commit(op.got, op.off, op.clust)
          /\ UNCHANGED <<cache, errors, clean>>
    /\ UNCHANGED <<layout, cached, fatnum, fatbuf>>

\* What is left is less than a cluster and goes through the cache.
ReadTail ==
    /\ op.at = "loop"
    /\ op.act < BPC
    /\ \/ /\ op.act > 0
          /\ GetCluster(op.clust, 1, cache, cache')
          /\ cached' = op.clust
          /\ Commit(op.got \o SubSeq(cache', 1, op.act), op.off + op.act, op.clust)
       \/ /\ op.act = 0
          /\ Commit(op.got, op.off, op.clust)
          /\ UNCHANGED <<cached, cache, errors, clean>>
    /\ UNCHANGED <<layout, fatnum, fatbuf>>
-----------------------------------------------------------------------------
Step == SeekWalk \/ SeekArrive \/ ReadNext \/ ReadAlign \/ ReadLoop \/ ReadScan \/ ReadLoad \/ ReadTail

Seek == \E to \in 0 .. layout.size + 1 : SeekRefused(to) \/ SeekInCluster(to) \/ SeekStart(to)

Read ==
    \E n \in 1 .. layout.size + 1 :
        \/ ReadRefused(n)
        \/ \E a \in 0 .. SECTOR - 1 : ReadFirst(n, a) \/ ReadAligned(n, a)

FatFileNext == Reopen \/ Seek \/ Read \/ Step

FatFileSpec == FatFileInit /\ [][FatFileNext]_fatVars

\* The reader is called by one thread and runs until it returns.
FatFairness == WF_fatVars(Step)
-----------------------------------------------------------------------------
FileBytes == [i \in 1 .. layout.size |->
                <<layout.chain[((i - 1) \div BPC) + 1], (i - 1) % BPC>>]

SeqF == INSTANCE SeqFile WITH content <- FileBytes, pos <- offset

(* The state of an open file keeps its shape, and a cache is a whole cluster.  *)
FatFileTypeOK ==
    /\ layout \in Layouts
    /\ offset \in 0 .. layout.size
    /\ curclust \in FatEntries /\ cached \in FatEntries
    /\ Len(cache) = BPC
    /\ fatnum \in -1 .. (EOC \div FATBUF)
    /\ fatbuf \in [0 .. FATBUF - 1 -> FatEntries]
    /\ op.at \in {"idle", "seek", "next", "align", "loop", "scan", "load"}
    /\ errors \in 0 .. MaxErrors

(* While no card read fails, any sequence of seeks and reads of a fragmented
   file behaves as the plain file of SeqFile: the walks through the FAT, the
   runs of consecutive clusters and both caches are invisible.               *)
ImplementsSeqFile == SeqF!Spec

(* A read that returns bytes returns the bytes that follow the position in the
   file, unless a card read failed since the file was opened: opening the file
   again drops whatever a failed read left in the two caches.                *)
RightBytes ==
    [][ (out' # out /\ clean')
            => out'.got = SubSeq(FileBytes, offset + 1, offset + Len(out'.got)) ]_fatVars

(* Between two calls the current cluster is the one that holds the position;
   only at the end of the file, where there is nothing to read, may it lag.  *)
AtCluster ==
    (clean /\ op = NoCall /\ offset < layout.size) => curclust = layout.chain[offset \div BPC + 1]

(* A read that fits in the file is refused only when the caller's memory is
   not sector aligned at the first cluster boundary, and is never cut short. *)
WholeReads ==
    [][ (op.at \notin {"idle", "seek"} /\ op' = NoCall /\ clean')
            => \/ out'.ok /\ Len(out'.got) = op.want
               \/ ~out'.ok /\ op.at = "align" /\ (op.addr + Len(op.got)) % SECTOR # 0 ]_fatVars

(* Every call returns, whatever the FAT buffer holds after a failed read.     *)
CallsReturn == [](op # NoCall => <>(op = NoCall))
=============================================================================
