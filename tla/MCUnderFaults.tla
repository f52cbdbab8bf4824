---------------------------- MODULE MCUnderFaults ---------------------------
(***************************************************************************)
(* The components under faults and at their limits: a card that fails to   *)
(* read, a medium that fails to write, power cuts, and a network that      *)
(* loses, doubles and overtakes.                                           *)
(***************************************************************************)
EXTENDS FatFile, EmmcParts, EnvStore, Tftp

VARIABLE who  \* the component that runs

Part(n, s) == [name |-> n, size |-> s]

MCInherent == <<Part("bootloader", 1), Part("reserved", 16), Part("cache", 0), Part("env", 2)>>
MCDtbs == {<<Part("logo", 2), Part("cache", 8), Part("system", 10), Part("data", 1023)>>,
           <<Part("logo", 2), Part("cache", 12), Part("system", 10), Part("data", 60), Part("extra", 1023)>>}

MCLayouts == {[chain |-> <<3, 4, 2>>, size |-> 10]}

vars == <<who, fatVars, emmcVars, storeVars, netVars>>

\* The components share nothing, so one runs while the others rest.
Init ==
    /\ who \in {"fat", "emmc", "store", "net"}
    /\ FatFileInit
    /\ EmmcPartsInit
    /\ EnvStoreInit
    /\ TftpInit

FatStep == who = "fat" /\ FatFileNext /\ UNCHANGED <<who, emmcVars, storeVars, netVars>>
EmmcStep == who = "emmc" /\ EmmcPartsNext /\ UNCHANGED <<who, fatVars, storeVars, netVars>>
StoreStep == who = "store" /\ EnvStoreNext /\ UNCHANGED <<who, fatVars, emmcVars, netVars>>
NetStep == who = "net" /\ TftpNext /\ UNCHANGED <<who, fatVars, emmcVars, storeVars>>

Next == FatStep \/ EmmcStep \/ StoreStep \/ NetStep

Spec == Init /\ [][Next]_vars /\ (who = "fat" => FatFairness) /\ (who = "net" => TftpFairness)
-----------------------------------------------------------------------------
(* A transfer ends, if there is one. *)
TransferEnds == who = "net" => Ends
=============================================================================
