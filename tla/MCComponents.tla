---------------------------- MODULE MCComponents ----------------------------
(***************************************************************************)
(* The components at work, each on its own instance: files on a card and   *)
(* items of a package, keys, partitions, variables, a saved environment    *)
(* and a file from the network.                                            *)
(***************************************************************************)
EXTENDS FatFile, ImgItem, KeyStore, EmmcParts, EnvStore, Tftp

VARIABLES who,  \* the component that runs
          tableTab, tableRes,  \* of two tables of variables
          tightTab, tightRes

It(m, s, i, o, n) == [main |-> m, sub |-> s, id |-> i, off |-> o, size |-> n]
Part(n, s) == [name |-> n, size |-> s]
Entry(k, v) == [key |-> k, val |-> v]

\* A disk of six data clusters in two and a half FAT buffers.  The long file is
\* fragmented: a run of two, a jump back and a jump ahead, with a partial last
\* cluster; the short one fills its last cluster exactly.
MCClusters == 2 .. 7
MCLayouts == {[chain |-> <<4, 5, 2, 7>>, size |-> 14], [chain |-> <<3, 4, 6>>, size |-> 12]}

\* Clusters of four bytes, two sectors each, slots of two clusters.  Items start
\* at every place in a cluster; some fill slots exactly, some leave a rest, one
\* ends in its first cluster, and VERIFY items lie inside, up to and across a
\* cluster end; some files end before their package does.
Packed(a) ==
    <<It("PARTITION", "boot", 0, a, 11), It("VERIFY", "boot", 1, a + 11, 2),
      It("PARTITION", "system", 2, a + 13, 24), It("dtb", "meson1", 3, a + 37, 7),
      It("VERIFY", "system", 4, a + 44, 1), It("PARTITION", "tiny", 5, a + 45, 1),
      It("PARTITION", "logo", 6, a + 46, 9), It("PARTITION", "empty", 7, a + 55, 0),
      It("VERIFY", "logo", 8, a + 13, 24), It("PARTITION", "misnumbered", 8, a, 11)>>
MCPackages ==
    {[src |-> s, size |-> a + 55, items |-> Packed(a)] : s \in {"fat", "store"}, a \in 0 .. 3}
    \union {[src |-> s, size |-> 56, items |-> <<It("PARTITION", "boot", 0, 1, 55), It("dtb", "meson1", 1, 9, n)>>] :
                s \in {"fat", "store"}, n \in 0 .. 1}
    \union {[src |-> "fat", size |-> n, items |-> Packed(2)] : n \in {20, 42, 45}}
    \union {[src |-> s, size |-> 56, items |-> <<It("PARTITION", "boot", 0, 0, 56)>>] : s \in {"fat", "store"}}

\* Sizes in units of 4 MB, gaps and inherent partitions as in the headers.  The
\* last partition has the rest; in the second tree "data" does not fit on the
\* medium, is cut and is the last.
MCInherent == <<Part("bootloader", 1), Part("reserved", 16), Part("cache", 0), Part("env", 2)>>
MCDtbs == {<<Part("logo", 2), Part("cache", 8), Part("system", 10), Part("data", 1023)>>,
           <<Part("logo", 2), Part("cache", 12), Part("system", 10), Part("data", 60), Part("extra", 1023)>>}

\* Three names that begin at the same slot of a table of five; another table has
\* only three slots for them and a fourth.
MCKeys == {"a", "b", "c", "d"}
MCHash == [k \in MCKeys |-> CASE k = "a" -> 6 [] k = "b" -> 11 [] k = "c" -> 10 [] OTHER -> 3]
MCLists == {<<Entry("b", "x"), Entry("a", "y"), Entry("b", "unset")>>, <<Entry("d", "x"), Entry("c", "x")>>}
MCFew == {"a", "b", "c"}
MCFewHash == [k \in MCFew |-> MCHash[k]]
MCFewLists == {<<Entry("b", "x"), Entry("a", "y"), Entry("b", "unset")>>, <<Entry("c", "x")>>}
MCLen(n) == [v \in {"x", "y"} |-> n]

\* The names of the keys that are written in parts.
MCHdcp2 == <<"hdcp2lc128", "hdcp2key", "hdcp2">>
MCHdcp22 == <<"hdcp22_rx_private", "hdcp22_rx_fw">>

Table == INSTANCE EnvTable WITH
    Keys <- MCFew, Values <- {"x", "y"}, NoValue <- "unset",
    Hash <- MCFewHash, Size <- 5, Order <- <<"a", "b", "c">>,
    Lists <- MCFewLists, KeyLen <- [k \in MCFew |-> 1], ValLen <- MCLen(3),
    Buffer <- 24, Rejects <- FALSE, tab <- tableTab, res <- tableRes
tableVars == <<tableTab, tableRes>>

Tight == INSTANCE EnvTable WITH
    Keys <- MCKeys, Values <- {"x", "y"}, NoValue <- "unset",
    Hash <- MCHash, Size <- 3, Order <- <<"a", "b", "c", "d">>,
    Lists <- MCLists, KeyLen <- [k \in MCKeys |-> 1], ValLen <- MCLen(3),
    Buffer <- 26, Rejects <- TRUE, tab <- tightTab, res <- tightRes
tightVars == <<tightTab, tightRes>>

ASSUME Table!TableAssumption /\ Tight!TableAssumption

vars == <<who, fatVars, itemVars, keyVars, emmcVars, tableVars, tightVars, storeVars, netVars>>

\* The components share nothing, so one runs while the others rest.
Init ==
    /\ who \in {"fat", "item", "key", "emmc", "table", "tight", "store", "net"}
    /\ FatFileInit /\ (who # "fat" => layout.size = 12)
    /\ ImgItemInit /\ (who # "item" => pkg.size = 20)
    /\ KeyStoreInit
    /\ EmmcPartsInit
    /\ Table!Init
    /\ Tight!Init
    /\ EnvStoreInit
    /\ TftpInit

FatStep == who = "fat" /\ FatFileNext /\ UNCHANGED <<who, itemVars, keyVars, emmcVars, tableVars, tightVars, storeVars, netVars>>
ItemStep == who = "item" /\ ImgItemNext /\ UNCHANGED <<who, fatVars, keyVars, emmcVars, tableVars, tightVars, storeVars, netVars>>
KeyStep == who = "key" /\ KeyStoreNext /\ UNCHANGED <<who, fatVars, itemVars, emmcVars, tableVars, tightVars, storeVars, netVars>>
EmmcStep == who = "emmc" /\ EmmcPartsNext /\ UNCHANGED <<who, fatVars, itemVars, keyVars, tableVars, tightVars, storeVars, netVars>>
TableStep == who = "table" /\ Table!Next /\ UNCHANGED <<who, fatVars, itemVars, keyVars, emmcVars, tightVars, storeVars, netVars>>
TightStep == who = "tight" /\ Tight!Next /\ UNCHANGED <<who, fatVars, itemVars, keyVars, emmcVars, tableVars, storeVars, netVars>>
StoreStep == who = "store" /\ EnvStoreNext /\ UNCHANGED <<who, fatVars, itemVars, keyVars, emmcVars, tableVars, tightVars, netVars>>
NetStep == who = "net" /\ TftpNext /\ UNCHANGED <<who, fatVars, itemVars, keyVars, emmcVars, tableVars, tightVars, storeVars>>

Next == FatStep \/ ItemStep \/ KeyStep \/ EmmcStep \/ TableStep \/ TightStep \/ StoreStep \/ NetStep

Spec == Init /\ [][Next]_vars
-----------------------------------------------------------------------------
(* The running component is of its type, and the parts of its state that say the
   same agree: the current cluster and the position, the slots and the count. *)
StateOK == 
    /\ who = "fat" => FatFileTypeOK /\ AtCluster
    /\ who = "item" => ImgItemTypeOK
    /\ who = "key" => KeyStoreTypeOK
    /\ who = "emmc" => EmmcPartsTypeOK
    /\ who = "table" => Table!TypeOK /\ Table!FoundIfThere /\ Table!FilledCounts
    /\ who = "tight" => Tight!TypeOK /\ Tight!FoundIfThere /\ Tight!FilledCounts
    /\ who = "store" => EnvStoreTypeOK
    /\ who = "net" => TftpTypeOK

(* The table of variables is the map its users see, until a new entry takes the
   slot of another: with deleted slots on the search paths, and with more names
   than slots, where it refuses a new one.                                   *)
ImplementsEnvMap == 
    /\ Table!Map!Init /\ [][who = "table" /\ ~tableTab'.over => Table!Map!Next]_(Table!Map!vars)
    /\ Tight!Map!Init /\ [][who = "tight" /\ ~tightTab'.over => Tight!Map!Next]_(Tight!Map!vars)
=============================================================================
