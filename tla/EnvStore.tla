------------------------------ MODULE EnvStore -----------------------------
(***************************************************************************)
(* The environment on the eMMC: saving and loading it, env_mmc.c and       *)
(* env_common.c, with one copy or, with CONFIG_ENV_OFFSET_REDUND, with two *)
(* that are written in turn and carry a serial number of eight bits.       *)
(* The whole environment is one value here; EnvTable has its parts.        *)
(***************************************************************************)
EXTENDS Integers

CONSTANTS Environments,  \* what the environment can be
          Default,       \* default_environment
          Serials,       \* how many serial numbers there are (256)
          Redundant,     \* CONFIG_ENV_OFFSET_REDUND
          MaxSaves, MaxCuts,
          StoreWriteFaults, StoreReadFaults

Bad == [data |-> "bad", flags |-> 0]   \* a copy with a wrong checksum

\* What the constants are.
ASSUME EnvAssumption ==
    /\ Default \in Environments /\ Bad.data \notin Environments
    /\ Serials \in Nat /\ Serials > 2
    /\ MaxSaves \in Nat /\ MaxCuts \in Nat
    /\ {Redundant, StoreWriteFaults, StoreReadFaults} \subseteq BOOLEAN

VARIABLES env,        \* the environment in memory
          storeCopy,  \* the copies on the medium
          valid,      \* gd->env_valid: the copy in use
          serial,     \* env_flags
          storeAt,    \* "off", "idle", or "write" while a copy is written
          new,        \* what is being written
          saved,      \* the environment of the last save that succeeded
          tried,      \* environments whose saving was begun after that
          saves, cuts

storeVars == <<env, storeCopy, valid, serial, storeAt, new, saved, tried, saves, cuts>>

Copies == [data : Environments, flags : 0 .. Serials - 1] \union {Bad}

EnvStoreInit ==
    /\ env = Default
    /\ storeCopy = <<Bad, Bad>>
    /\ valid = 1
    /\ serial = 0
    /\ storeAt = "off"
    /\ new = Bad
    /\ saved = Bad.data
    /\ tried = {Default}
    /\ saves = 0
    /\ cuts = 0

\* The copy that mmc_saveenv writes.
Target == IF Redundant /\ valid = 1 THEN 2 ELSE 1

\* setenv
Change(v) ==
    /\ storeAt = "idle" /\ saves < MaxSaves
    /\ env' = v
    /\ UNCHANGED <<storeCopy, valid, serial, storeAt, new, saved, tried, saves, cuts>>

\* mmc_saveenv up to the write: the environment is exported and numbered.
Export(e) ==
    /\ serial' = IF Redundant THEN (serial + 1) % Serials ELSE serial
    /\ new' = [data |-> e, flags |-> serial']
    /\ storeAt' = "write"

Save ==
    /\ storeAt = "idle" /\ saves < MaxSaves
    /\ saves' = saves + 1
    /\ Export(env)
    /\ tried' = tried \union {env}
    /\ UNCHANGED <<env, storeCopy, valid, saved, cuts>>

\* The save was asked for, or replaced one that was lost.
Succeeded ==
    /\ saved' = IF tried # {} THEN new.data ELSE saved
    /\ tried' = {}

\* The copy is written, and the other one is next.
SaveDone ==
    /\ storeAt = "write"
    /\ storeCopy' = [storeCopy EXCEPT ![Target] = new]
    /\ valid' = IF ~Redundant THEN valid ELSE IF valid = 2 THEN 1 ELSE 2
    /\ storeAt' = "idle"
    /\ Succeeded
    /\ UNCHANGED <<env, serial, new, saves, cuts>>

Left == {storeCopy[Target], Bad, new}

\* A write that fails leaves the old copy, the new one or a mixture, and the
\* serial number counted up.
SaveFails ==
    /\ storeAt = "write" /\ StoreWriteFaults
    /\ \E left \in Left : storeCopy' = [storeCopy EXCEPT ![Target] = left]
    /\ storeAt' = "idle"
    /\ UNCHANGED <<env, valid, serial, new, saved, tried, saves, cuts>>

\* The power is cut or the device restarts.
StorePowerCut ==
    /\ storeAt # "off" /\ cuts < MaxCuts
    /\ cuts' = cuts + 1
    /\ IF storeAt = "write" THEN \E left \in Left : storeCopy' = [storeCopy EXCEPT ![Target] = left]
       ELSE UNCHANGED storeCopy
    /\ storeAt' = "off"
    /\ UNCHANGED <<env, valid, serial, new, saved, tried, saves>>
-----------------------------------------------------------------------------
(* Loading. *)

\* Mutant: the wrap of the serial number is forgotten.
Newer_NoWrap(a, b) == IF b.flags > a.flags THEN 2 ELSE 1

\* mmc_env_relocate_spec with two good copies.
Newer(a, b) ==
    IF a.flags = Serials - 1 /\ b.flags = 0 THEN 2
    ELSE IF b.flags = Serials - 1 /\ a.flags = 0 THEN 1
    ELSE IF b.flags > a.flags THEN 2 ELSE 1

Choose(a, b) == IF b = Bad THEN 1 ELSE IF a = Bad THEN 2 ELSE Newer(a, b)

\* What is read of a copy: a failed read counts like a wrong checksum.
Reads(i) == {storeCopy[i]} \union (IF StoreReadFaults THEN {Bad} ELSE {})

\* With two copies; without a good one the default environment is used.
RelocateTwo ==
    /\ storeAt = "off" /\ Redundant
    /\ \E a \in Reads(1), b \in Reads(2) :
        IF a = Bad /\ b = Bad
        THEN env' = Default /\ valid' = 1 /\ serial' = 0
        ELSE /\ valid' = Choose(a, b)
             /\ env' = (IF valid' = 1 THEN a ELSE b).data
             /\ serial' = (IF valid' = 1 THEN a ELSE b).flags
    /\ storeAt' = "idle"
    /\ UNCHANGED <<storeCopy, new, saved, tried, saves, cuts>>

\* Mutant: the default environment is saved after a failed read, too.
RelocateOne_Saves ==
    /\ storeAt = "off" /\ ~Redundant
    /\ \E a \in Reads(1) :
        IF a = Bad THEN env' = Default /\ Export(Default)
        ELSE env' = a.data /\ storeAt' = "idle" /\ serial' = 0 /\ UNCHANGED new
    /\ valid' = 1
    /\ UNCHANGED <<storeCopy, saved, tried, saves, cuts>>

\* With one copy: a wrong checksum has the default environment saved, a failed
\* read has not.
RelocateOne ==
    /\ storeAt = "off" /\ ~Redundant
    /\ \/ storeCopy[1] = Bad /\ env' = Default /\ Export(Default)
       \/ /\ \/ storeCopy[1] # Bad /\ env' = storeCopy[1].data
             \/ StoreReadFaults /\ env' = Default
          /\ storeAt' = "idle" /\ serial' = 0
          /\ UNCHANGED new
    /\ valid' = 1
    /\ UNCHANGED <<storeCopy, saved, tried, saves, cuts>>

EnvStoreNext ==
    \/ \E v \in Environments : Change(v)
    \/ Save \/ SaveDone \/ SaveFails \/ StorePowerCut \/ RelocateTwo \/ RelocateOne

EnvStoreSpec == EnvStoreInit /\ [][EnvStoreNext]_storeVars
-----------------------------------------------------------------------------
(* The state stays within its types. *)
EnvStoreTypeOK ==
    /\ env \in Environments /\ tried \subseteq Environments
    /\ saved \in Environments \union {Bad.data}
    /\ storeCopy \in [1 .. 2 -> Copies] /\ new \in Copies
    /\ valid \in 1 .. 2 /\ serial \in 0 .. Serials - 1
    /\ storeAt \in {"off", "idle", "write"}

(* "both ok - check serial": of two copies the next start would take the one
   of the last save that succeeded, or one whose saving was begun after it,
   however many saves there were and wherever they were cut.                 *)
NewestStored == Redundant => storeCopy[Choose(storeCopy[1], storeCopy[2])].data \in {saved} \union tried

(* With one copy, a save that succeeded stays on the medium until another save
   is asked for; a start that cannot read it does not overwrite it.           *)
SaveKept == ~Redundant /\ tried = {} => storeCopy[1].data = saved
=============================================================================
