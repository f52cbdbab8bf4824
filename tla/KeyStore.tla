----------------------------- MODULE KeyStore ------------------------------
(***************************************************************************)
(* Burning keys: the commands of optimus_download_key.c, the formats of    *)
(* key_manage.c, the choice of the device in key_unify.c, the store kept   *)
(* in memory by storagekey.c with its two copies on the eMMC, and the      *)
(* one-time programmable keys of km_efuse_key.c.                           *)
(*                                                                         *)
(* Every write of a stored key changes the store in memory and then writes *)
(* the whole of it twice; the power may be cut between and within these    *)
(* steps, and each of them may fail.  Keeping the store in its memory is   *)
(* the part of the secure firmware behind secure_storage_write; it    *)
(* takes a write or refuses it, and sees no keys in a store it was not     *)
(* given whole.                                                            *)
(***************************************************************************)
EXTENDS Integers, Sequences

CONSTANTS Plain,           \* names of keys that are stored as one
          Hdcp2,           \* the names _burn_key_in_type_hdcp2 writes, in order
          Hdcp22,          \* the names of the packed key, in order
          Otp,             \* names of keys in the efuse
          KeyValues,       \* what a key can be
          MaxWrites,       \* commands that write
          MaxKeyCrashes,   \* power cuts
          KeyWriteFaults,  \* whether these
          KeyReadFaults,   \* may fail
          FuseFaults

NoKey == "none"    \* a key that is not there
Cut == "cut"      \* every key of a copy whose writing did not end well

Parts == {Hdcp2[i] : i \in 1 .. Len(Hdcp2)} \union {Hdcp22[i] : i \in 1 .. Len(Hdcp22)}
KeyNames == Plain \union Parts
Empty == [k \in KeyNames |-> NoKey]
Torn == [k \in KeyNames |-> Cut]
Stores == [KeyNames -> KeyValues \union {NoKey}]

\* What the constants are.
ASSUME KeyAssumption ==
    /\ NoKey \notin KeyValues /\ Cut \notin KeyValues
    /\ Hdcp2 \in Seq(STRING) /\ Hdcp22 \in Seq(STRING) /\ Hdcp2 # <<>> /\ Hdcp22 # <<>>
    /\ LET name == Hdcp2[Len(Hdcp2)]
       IN /\ name \notin Plain
          /\ \A i \in 1 .. Len(Hdcp22) : Hdcp22[i] # name
          /\ \A i \in 1 .. Len(Hdcp2) - 1 : Hdcp2[i] # name
    /\ MaxWrites \in Nat /\ MaxKeyCrashes \in Nat
    /\ {KeyWriteFaults, KeyReadFaults, FuseFaults} \subseteq BOOLEAN

VARIABLES parsed,    \* keymanage_dts_parse has succeeded: the keys are configured
          buffer,    \* storagekey_info.buffer has been set
          ram,       \* the store in memory
          keyCopy,   \* the two copies on the medium
          open,      \* info_disprotect & DISPROTECT_KEY
          efuse,     \* per name, the values whose bits have been burned
          cmd, nth,  \* the names the running command writes, and which is next
          val,       \* the value it writes
          keyAt,     \* the step it is at
          keyReply,  \* what the last command answered
          told,      \* the values the host was told are burned
          adrift,    \* the names that were told burned while there was no buffer
          lost,      \* the store in memory was started without the told keys
          writes, keyCrashes

keyVars == <<parsed, buffer, ram, keyCopy, open, efuse, cmd, nth, val, keyAt, keyReply,
             told, adrift, lost, writes, keyCrashes>>

KeyStoreInit ==
    /\ parsed = FALSE
    /\ buffer = FALSE
    /\ ram = Empty
    /\ keyCopy = <<Empty, Empty>>
    /\ open = FALSE
    /\ efuse = [k \in Otp |-> {}]
    /\ cmd = <<>>
    /\ nth = 1
    /\ val = NoKey
    /\ keyAt = "idle"
    /\ keyReply = "none"
    /\ told = Empty
    /\ adrift = {}
    /\ lost = FALSE
    /\ writes = 0
    /\ keyCrashes = 0

Asked(c) == {c[i] : i \in 1 .. Len(c)}
Set(store, names, v) == [k \in KeyNames |-> IF k \in names THEN v ELSE store[k]]
Holds(store, keys) == store # Torn /\ \A k \in KeyNames : keys[k] # NoKey => store[k] = keys[k]
-----------------------------------------------------------------------------
(* The store on the medium. *)

\* What should be stored of what was told.
Due == [k \in KeyNames |-> IF k \in adrift THEN NoKey ELSE told[k]]

\* mmc_key_read reads the first copy only.
KeyRead == IF keyCopy[1] = Torn THEN Empty ELSE keyCopy[1]

\* amlkey_init: only the first call reads.  When the read fails the head of
\* the store is cleared, and the call still succeeds.
StoreInit ==
    IF buffer THEN UNCHANGED <<buffer, ram, open, lost>>
    ELSE /\ buffer' = TRUE
         /\ open' = FALSE
         /\ ram' \in {KeyRead} \union (IF KeyReadFaults THEN {Empty} ELSE {})
         /\ lost' = (lost \/ ~Holds(ram', Due))

\* key_unify_init: the configuration is parsed, then the store is initialised,
\* then the efuse, and the first failure ends it.  A bad seed, and a store
\* whose buffer the secure firmware does not give, leave no buffer.
KeyInit ==
    /\ keyAt = "idle"
    /\ \/ /\ parsed' \in {parsed, TRUE}
          /\ keyReply' = "failed"
          /\ UNCHANGED <<buffer, ram, open, lost>>
       \/ /\ parsed' = TRUE
          /\ StoreInit
          /\ keyReply' \in {"ok", "failed"}
    /\ UNCHANGED <<keyCopy, efuse, cmd, nth, val, keyAt, told, adrift, writes, keyCrashes>>

\* mmc_key_erase, which does not notice a failing erase.
KeyErase ==
    /\ keyAt = "idle"
    /\ \/ keyCopy' = <<Empty, Empty>>
       \/ /\ KeyWriteFaults
          /\ \E a \in {Empty, Torn, keyCopy[1]}, b \in {Torn, keyCopy[2]} : keyCopy' = <<a, b>>
    /\ open' = FALSE
    /\ told' = Empty
    /\ keyReply' = "ok"
    /\ UNCHANGED <<parsed, buffer, ram, efuse, cmd, nth, val, keyAt, adrift, lost, writes, keyCrashes>>
-----------------------------------------------------------------------------
(* Writing a key. *)

\* Mutant: the key's own name is written before its parts.
Hdcp2Names_NameFirst == <<Hdcp2[Len(Hdcp2)]>> \o SubSeq(Hdcp2, 1, Len(Hdcp2) - 1)

\* _burn_key_in_type_hdcp2: the parts, and last the key's own name.
Hdcp2Names == Hdcp2

\* v2_key_burn and key_manage_write: one name, or several one after the other.
Commands == {<<k>> : k \in Plain} \union {Hdcp2Names, Hdcp22}

KeyBurn(c, v) ==
    /\ keyAt = "idle" /\ parsed /\ writes < MaxWrites
    /\ writes' = writes + 1
    /\ cmd' = c
    /\ nth' = 1
    /\ val' = v
    /\ keyAt' = "ram"
    /\ keyReply' = "none"
    /\ told' = Set(told, Asked(c), NoKey)
    /\ adrift' = adrift \ Asked(c)
    /\ UNCHANGED <<parsed, buffer, ram, keyCopy, open, efuse, lost, keyCrashes>>

Return(r) ==
    /\ keyAt' = "idle"
    /\ keyReply' = r

\* A value of the wrong format, or a packed key with a wrong sum, is refused
\* before anything is written.
KeyMalformed ==
    /\ keyAt = "idle" /\ parsed
    /\ Return("failed")
    /\ UNCHANGED <<parsed, buffer, ram, keyCopy, open, efuse, cmd, nth, val, told, adrift, lost, writes, keyCrashes>>

\* amlkey_write, its first half: secure_storage_write.  Without a buffer there
\* is no second half, and the write counts as done.
RamWrite ==
    /\ keyAt = "ram"
    /\ \/ /\ ram' = [ram EXCEPT ![cmd[nth]] = val]
          /\ keyAt' = IF buffer THEN "first" ELSE "named"
          /\ UNCHANGED keyReply
       \/ /\ KeyWriteFaults
          /\ Return("failed")
          /\ UNCHANGED ram
    /\ UNCHANGED <<parsed, buffer, keyCopy, open, efuse, cmd, nth, val, told, adrift, lost, writes, keyCrashes>>

Which == IF keyAt = "first" THEN 1 ELSE 2

\* mmc_key_write, one turn of its loop.
CopyWrite ==
    /\ keyAt \in {"first", "second"}
    /\ keyCopy' = [keyCopy EXCEPT ![Which] = ram]
    /\ open' = (keyAt = "first")
    /\ keyAt' = IF keyAt = "first" THEN "second" ELSE "named"
    /\ UNCHANGED <<parsed, buffer, ram, efuse, cmd, nth, val, keyReply, told, adrift, lost, writes, keyCrashes>>

\* A turn whose write fails returns at once, without protecting the area.
CopyFails ==
    /\ keyAt \in {"first", "second"}
    /\ KeyWriteFaults
    /\ \E left \in {keyCopy[Which], Torn, ram} : keyCopy' = [keyCopy EXCEPT ![Which] = left]
    /\ open' = TRUE
    /\ Return("failed")
    /\ UNCHANGED <<parsed, buffer, ram, efuse, cmd, nth, val, told, adrift, lost, writes, keyCrashes>>

\* The command has succeeded, and the host is told.
TellBurned ==
    /\ Return("burned")
    /\ told' = Set(told, Asked(cmd), val)
    /\ adrift' = IF buffer THEN adrift ELSE adrift \union Asked(cmd)
    /\ UNCHANGED nth

\* Mutant: the first name's success ends the command.
NameDone_First ==
    /\ keyAt = "named"
    /\ TellBurned
    /\ UNCHANGED <<parsed, buffer, ram, keyCopy, open, efuse, cmd, val, lost, writes, keyCrashes>>

\* The next name of the command, or its success.
NameDone ==
    /\ keyAt = "named"
    /\ IF nth < Len(cmd)
       THEN nth' = nth + 1 /\ keyAt' = "ram" /\ UNCHANGED <<keyReply, told, adrift>>
       ELSE TellBurned
    /\ UNCHANGED <<parsed, buffer, ram, keyCopy, open, efuse, cmd, val, lost, writes, keyCrashes>>
-----------------------------------------------------------------------------
(* Efuse keys, and the power. *)

\* keymanage_efuse_exist: a key that cannot be read is not there.
OtpExists(k, readable) == readable /\ efuse[k] # {}

\* key_unify_write for a key that cannot be overwritten; the bits that are
\* burned stay burned.
OtpBurn(k, v) ==
    /\ keyAt = "idle" /\ parsed /\ writes < MaxWrites
    /\ writes' = writes + 1
    /\ \E readable \in {TRUE} \union (IF FuseFaults THEN {FALSE} ELSE {}) :
        IF OtpExists(k, readable)
        THEN Return("failed") /\ UNCHANGED efuse
        ELSE \/ Return("burned") /\ efuse' = [efuse EXCEPT ![k] = @ \union {v}]
             \/ /\ KeyWriteFaults
                /\ Return("failed")
                /\ \E more \in {{}, {v}} : efuse' = [efuse EXCEPT ![k] = @ \union more]
    /\ UNCHANGED <<parsed, buffer, ram, keyCopy, open, cmd, nth, val, told, adrift, lost, keyCrashes>>

\* The power is cut and comes back; a copy being written is cut with it.
KeyPowerCut ==
    /\ keyCrashes < MaxKeyCrashes
    /\ keyCrashes' = keyCrashes + 1
    /\ IF keyAt \in {"first", "second"}
       THEN \E left \in {keyCopy[Which], Torn, ram} : keyCopy' = [keyCopy EXCEPT ![Which] = left]
       ELSE UNCHANGED keyCopy
    /\ parsed' = FALSE
    /\ buffer' = FALSE
    /\ ram' = Empty
    /\ open' = FALSE
    /\ Return("none")
    /\ UNCHANGED <<efuse, cmd, nth, val, told, adrift, lost, writes>>

KeyStoreNext ==
    \/ KeyInit \/ KeyErase \/ KeyMalformed
    \/ \E c \in Commands, v \in KeyValues : KeyBurn(c, v)
    \/ RamWrite \/ CopyWrite \/ CopyFails \/ NameDone
    \/ \E k \in Otp, v \in KeyValues : OtpBurn(k, v)
    \/ KeyPowerCut

KeyStoreSpec == KeyStoreInit /\ [][KeyStoreNext]_keyVars
-----------------------------------------------------------------------------
(* The state stays within its types.                                         *)
KeyStoreTypeOK ==
    /\ parsed \in BOOLEAN /\ buffer \in BOOLEAN /\ open \in BOOLEAN /\ lost \in BOOLEAN
    /\ ram \in Stores /\ told \in Stores /\ adrift \subseteq KeyNames
    /\ keyCopy \in [1 .. 2 -> Stores \union {Torn}]
    /\ efuse \in [Otp -> SUBSET KeyValues]
    /\ cmd \in Commands \union {<<>>} /\ (nth = 1 \/ nth \in 1 .. Len(cmd))
    /\ keyAt \in {"idle", "ram", "first", "second", "named"}
    /\ keyReply \in {"none", "ok", "failed", "burned"}

(* Every key the host was told is burned, each part of a packed one included,
   is in memory and on the medium, through failed and interrupted writes of
   other keys: unless the first copy is torn, until a start that did not
   find it there, and unless it was burned after an initialisation that
   failed before there was a buffer, when amlkey_write stores nothing.       *)
ToldStored ==
    ~lost => /\ buffer => Holds(ram, Due)
             /\ keyCopy[1] # Torn => Holds(keyCopy[1], Due)

(* "hdcp2" is there, in memory or on the medium, only together with the other
   parts of the key: its name is written last.                               *)
Hdcp2Whole ==
    \A store \in {ram, keyCopy[1], keyCopy[2]} \ {Torn} :
        store[Hdcp2[Len(Hdcp2)]] # NoKey => \A i \in 1 .. Len(Hdcp2) : store[Hdcp2[i]] # NoKey
=============================================================================
