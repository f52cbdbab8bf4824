---------------------------- MODULE MediumProofs ----------------------------
(***************************************************************************)
(* What the device puts on its medium and keeps there, proved for every    *)
(* instance: the burned keys (KeyStore), the saved environment (EnvStore)  *)
(* and the images of a download (ImgDownload).                             *)
(***************************************************************************)
EXTENDS KeyStore, EnvStore, ImgDownload, TLAPS

-----------------------------------------------------------------------------
(* The keys.                                                                 *)

\* The key's own name.
Name2 == Hdcp2[Len(Hdcp2)]

\* Hdcp2Whole for one store.
Whole(s) == s[Name2] # NoKey => \A i \in 1 .. Len(Hdcp2) : s[Hdcp2[i]] # NoKey

\* A command that runs has written the names before the one it is at, and none
\* of its names counts as told.
RunInv ==
    keyAt # "idle" =>
           /\ val \in KeyValues /\ cmd \in Commands /\ nth \in 1 .. Len(cmd)
           /\ keyAt \in {"first", "second"} => buffer
           /\ \A i \in 1 .. nth - 1 : ram[cmd[i]] = val
           /\ keyAt # "ram" => ram[cmd[nth]] = val
           /\ buffer /\ keyAt \in {"second", "named"} => keyCopy[1] = ram
           /\ \A i \in 1 .. Len(cmd) : told[cmd[i]] = NoKey

WholeInv == Whole(ram) /\ \A j \in 1 .. 2 : keyCopy[j] # Torn => Whole(keyCopy[j])

KeyInv == KeyStoreTypeOK /\ RunInv /\ WholeInv /\ ToldStored

-----------------------------------------------------------------------------
(* Names and stores.                                                         *)

\* The names of a command; the own name of "hdcp2" is the last of its command
\* and in no other.
LEMMA CommandNames ==
    ASSUME NEW c \in Commands
    PROVE  /\ Len(c) \in Nat /\ Len(c) > 0
           /\ \A i \in 1 .. Len(c) : c[i] \in KeyNames
           /\ \A i \in 1 .. Len(c) : c[i] = Name2 => c = Hdcp2 /\ i = Len(Hdcp2)
<1>1. /\ Len(Hdcp2) \in Nat /\ Len(Hdcp2) > 0 /\ Len(Hdcp22) \in Nat /\ Len(Hdcp22) > 0
  BY KeyAssumption
<1>2. CASE c = Hdcp2
  BY <1>1, <1>2, KeyAssumption DEF KeyNames, Parts, Name2
<1>3. CASE c = Hdcp22
  BY <1>1, <1>3, KeyAssumption DEF KeyNames, Parts, Name2
<1>4. CASE \E k \in Plain : c = <<k>>
  <2>1. PICK k \in Plain : c = <<k>>
    BY <1>4
  <2>2. Len(c) = 1 /\ c[1] = k
    BY <2>1
  <2>3. \A i \in 1 .. 1 : i = 1
    OBVIOUS
  <2> QED
    BY <2>1, <2>2, <2>3, KeyAssumption DEF KeyNames, Name2
<1> QED
  BY <1>2, <1>3, <1>4 DEF Commands, Hdcp2Names

\* The own name is a name, and so are the parts.
LEMMA HdcpParts ==
    /\ Name2 \in KeyNames /\ Hdcp2 \in Commands
    /\ \A i \in 1 .. Len(Hdcp2) : Hdcp2[i] \in KeyNames
<1>1. Len(Hdcp2) \in Nat /\ Len(Hdcp2) > 0
  BY KeyAssumption
<1> QED
  BY <1>1, KeyAssumption DEF KeyNames, Parts, Name2, Commands, Hdcp2Names

\* A store that is not cut off has no cut key.
LEMMA NotTorn ==
    ASSUME NEW s \in Stores
    PROVE  s # Torn
<1>1. s[Name2] \in KeyValues \union {NoKey} /\ Torn[Name2] = Cut
  BY HdcpParts DEF Stores, Torn
<1> QED
  BY <1>1, KeyAssumption DEF Cut, NoKey

\* The empty store.
LEMMA EmptyStore ==
    Empty \in Stores /\ Whole(Empty) /\ \A k \in KeyNames : Empty[k] = NoKey
  BY HdcpParts DEF Empty, Stores, Whole

\* What is due is what was told, but for the names adrift.
LEMMA DueStore ==
    ASSUME told \in Stores
    PROVE  Due \in Stores /\ \A k \in KeyNames : Due[k] = IF k \in adrift THEN NoKey ELSE told[k]
  BY DEF Due, Stores

\* Setting names.
LEMMA SetStore ==
    ASSUME NEW s \in Stores, NEW names, NEW v \in KeyValues \union {NoKey}
    PROVE  /\ Set(s, names, v) \in Stores
           /\ \A k \in KeyNames : Set(s, names, v)[k] = IF k \in names THEN v ELSE s[k]
  BY DEF Set, Stores

-----------------------------------------------------------------------------
(* The steps.                                                                *)

\* Nothing is stored and nothing told.
LEMMA KeyStart == KeyStoreInit => KeyInv
<1> SUFFICES ASSUME KeyStoreInit PROVE KeyInv
  OBVIOUS
<1>1. Empty \in Stores /\ Whole(Empty) /\ Empty # Torn
  BY EmptyStore, NotTorn
<1>2. /\ ram = Empty /\ told = Empty /\ keyCopy = <<Empty, Empty>> /\ keyAt = "idle"
      /\ parsed = FALSE /\ buffer = FALSE /\ open = FALSE /\ lost = FALSE /\ adrift = {}
      /\ cmd = <<>> /\ nth = 1 /\ keyReply = "none"
  BY DEF KeyStoreInit
<1>3. keyCopy \in [1 .. 2 -> Stores \union {Torn}] /\ \A j \in 1 .. 2 : keyCopy[j] = Empty
  BY <1>1, <1>2
<1>4. parsed \in BOOLEAN /\ buffer \in BOOLEAN /\ open \in BOOLEAN /\ lost \in BOOLEAN
  BY <1>2, Zenon
<1>5. efuse \in [Otp -> SUBSET KeyValues]
  BY DEF KeyStoreInit
<1>6. KeyStoreTypeOK
  BY <1>1, <1>2, <1>3, <1>4, <1>5 DEF KeyStoreTypeOK
<1>7. RunInv /\ WholeInv
  BY <1>1, <1>2, <1>3 DEF RunInv, WholeInv
<1>8. ToldStored
  <2>1. Holds(Empty, Due)
    BY <1>1, <1>2, EmptyStore, DueStore DEF Holds
  <2> QED
    BY <1>2, <1>3, <2>1 DEF ToldStored
<1> QED
  BY <1>6, <1>7, <1>8 DEF KeyInv

\* What the first copy gives.
LEMMA ReadStore ==
    ASSUME KeyInv
    PROVE  KeyRead \in Stores /\ Whole(KeyRead)
<1>1. keyCopy[1] \in Stores \union {Torn} /\ (keyCopy[1] # Torn => Whole(keyCopy[1]))
  BY DEF KeyInv, KeyStoreTypeOK, WholeInv
<1> QED
  BY <1>1, EmptyStore DEF KeyRead

\* Reading the store, or doing nothing.
LEMMA KeyInitInv ==
    ASSUME KeyInv, KeyInit
    PROVE  KeyInv'
<1>1. /\ keyAt = "idle" /\ keyReply' \in {"ok", "failed"} /\ parsed' \in {parsed, TRUE}
      /\ UNCHANGED <<keyCopy, efuse, cmd, nth, val, keyAt, told, adrift, writes, keyCrashes>>
  BY DEF KeyInit
<1>2. parsed' \in BOOLEAN
  <2>1. parsed \in BOOLEAN
    BY DEF KeyInv, KeyStoreTypeOK
  <2> QED
    BY <1>1, <2>1, Zenon
<1>3. Due' = Due
  BY <1>1, Zenon DEF Due
<1>4. CASE UNCHANGED <<buffer, ram, open, lost>>
  <2>1. KeyStoreTypeOK' /\ RunInv'
    BY <1>1, <1>2, <1>4 DEF KeyInv, KeyStoreTypeOK, RunInv
  <2>2. WholeInv'
    BY <1>1, <1>4 DEF KeyInv, WholeInv, Whole
  <2>3. ToldStored'
    BY <1>1, <1>3, <1>4 DEF KeyInv, ToldStored, Holds
  <2> QED
    BY <2>1, <2>2, <2>3 DEF KeyInv
<1>5. CASE StoreInit /\ ~buffer
  <2>1. /\ buffer' = TRUE /\ open' = FALSE
        /\ ram' \in {KeyRead} \union (IF KeyReadFaults THEN {Empty} ELSE {})
        /\ lost' = (lost \/ ~Holds(ram', Due))
    BY <1>5 DEF StoreInit
  <2>2. ram' \in Stores /\ Whole(ram')
    BY <2>1, ReadStore, EmptyStore
  <2>3. buffer' \in BOOLEAN /\ open' \in BOOLEAN /\ lost' \in BOOLEAN
    BY <2>1, Zenon
  <2>4. KeyStoreTypeOK'
    BY <1>1, <1>2, <2>2, <2>3 DEF KeyInv, KeyStoreTypeOK
  <2>5. RunInv' /\ WholeInv'
    BY <1>1, <2>2 DEF KeyInv, RunInv, WholeInv, Whole
  <2>6. ~lost' => ~lost /\ Holds(ram', Due)
    BY <2>1, Zenon
  <2>7. ToldStored'
    BY <1>1, <1>3, <2>6 DEF KeyInv, ToldStored, Holds
  <2> QED
    BY <2>4, <2>5, <2>7 DEF KeyInv
<1> QED
  BY <1>4, <1>5 DEF KeyInit, StoreInit

\* After an erase nothing counts as told.
LEMMA KeyEraseInv ==
    ASSUME KeyInv, KeyErase
    PROVE  KeyInv'
<1>1. /\ keyAt = "idle" /\ keyAt' = keyAt /\ keyReply' = "ok" /\ told' = Empty /\ open' = FALSE
      /\ UNCHANGED <<parsed, buffer, ram, efuse, cmd, nth, val, adrift, lost, writes, keyCrashes>>
  BY DEF KeyErase
<1>2. PICK a \in {Empty, Torn, keyCopy[1]}, b \in {Empty, Torn, keyCopy[2]} : keyCopy' = <<a, b>>
  BY DEF KeyErase
<1>3. /\ keyCopy[1] \in Stores \union {Torn} /\ keyCopy[2] \in Stores \union {Torn}
      /\ ram \in Stores /\ Empty \in Stores /\ Whole(Empty)
  BY EmptyStore DEF KeyInv, KeyStoreTypeOK
<1>4. keyCopy' \in [1 .. 2 -> Stores \union {Torn}] /\ keyCopy'[1] = a /\ keyCopy'[2] = b
  BY <1>2, <1>3
<1>5. open' \in BOOLEAN
  BY <1>1, Zenon
<1>6. KeyStoreTypeOK'
  BY <1>1, <1>3, <1>4, <1>5 DEF KeyInv, KeyStoreTypeOK
<1>7. RunInv'
  BY <1>1 DEF RunInv
<1>8. WholeInv'
  <2>1. Whole(ram) /\ (a # Torn => Whole(a)) /\ (b # Torn => Whole(b))
    BY <1>2, <1>3 DEF KeyInv, WholeInv
  <2>2. ram' = ram
    BY <1>1
  <2>3. \A j \in 1 .. 2 : j = 1 \/ j = 2
    OBVIOUS
  <2> QED
    BY <1>4, <2>1, <2>2, <2>3 DEF WholeInv
<1>9. ToldStored'
  <2>1. \A s : s # Torn => Holds(s, Due')
    BY <1>1, EmptyStore DEF Holds, Due
  <2>2. ram # Torn
    BY <1>3, NotTorn
  <2> QED
    BY <1>1, <2>1, <2>2 DEF ToldStored
<1> QED
  BY <1>6, <1>7, <1>8, <1>9 DEF KeyInv

\* A command begins.
LEMMA KeyBurnInv ==
    ASSUME KeyInv, NEW c \in Commands, NEW v \in KeyValues, KeyBurn(c, v)
    PROVE  KeyInv'
<1>1. /\ keyAt = "idle" /\ cmd' = c /\ nth' = 1 /\ val' = v /\ keyAt' = "ram"
      /\ keyReply' = "none" /\ told' = Set(told, Asked(c), NoKey)
      /\ adrift' = adrift \ Asked(c)
      /\ UNCHANGED <<parsed, buffer, ram, keyCopy, open, efuse, lost, keyCrashes>>
  BY DEF KeyBurn
<1>2. told \in Stores /\ Len(c) \in Nat /\ Len(c) > 0 /\ \A i \in 1 .. Len(c) : c[i] \in KeyNames
  BY CommandNames DEF KeyInv, KeyStoreTypeOK
<1>3. /\ told' \in Stores
      /\ \A k \in KeyNames : told'[k] = IF k \in Asked(c) THEN NoKey ELSE told[k]
  BY <1>1, <1>2, SetStore
<1>4. KeyStoreTypeOK'
  BY <1>1, <1>3 DEF KeyInv, KeyStoreTypeOK
<1>5. RunInv'
  <2>1. \A i \in 1 .. Len(c) : told'[c[i]] = NoKey
    BY <1>2, <1>3 DEF Asked
  <2> QED
    BY <1>1, <1>2, <2>1 DEF RunInv
<1>6. WholeInv'
  BY <1>1 DEF KeyInv, WholeInv, Whole
<1>7. ToldStored'
  <2>1. \A k \in KeyNames : Due'[k] = IF k \in Asked(c) THEN NoKey ELSE Due[k]
    BY <1>1, <1>3 DEF Due
  <2>2. \A s : Holds(s, Due) => Holds(s, Due')
    BY <2>1 DEF Holds
  <2> QED
    BY <1>1, <2>2 DEF KeyInv, ToldStored
<1> QED
  BY <1>4, <1>5, <1>6, <1>7 DEF KeyInv

\* A key is refused, or the efuse is burned: the store is left alone.
LEMMA AsideInv ==
    ASSUME KeyInv, keyAt = "idle", keyAt' = "idle", keyReply' \in {"none", "ok", "failed", "burned"},
           efuse' \in [Otp -> SUBSET KeyValues],
           UNCHANGED <<parsed, buffer, ram, keyCopy, open, cmd, nth, val, told, adrift, lost, keyCrashes>>
    PROVE  KeyInv'
<1>1. KeyStoreTypeOK' /\ RunInv'
  BY DEF KeyInv, KeyStoreTypeOK, RunInv
<1>2. WholeInv' /\ ToldStored'
  BY DEF KeyInv, WholeInv, Whole, ToldStored, Holds, Due
<1> QED
  BY <1>1, <1>2 DEF KeyInv

\* The bits of the efuse.
LEMMA OtpBurnInv ==
    ASSUME KeyInv, NEW k \in Otp, NEW v \in KeyValues, OtpBurn(k, v)
    PROVE  KeyInv'
<1>1. efuse \in [Otp -> SUBSET KeyValues]
  BY DEF KeyInv, KeyStoreTypeOK
<1>2. /\ keyAt = "idle" /\ keyAt' = "idle" /\ keyReply' \in {"failed", "burned"}
      /\ UNCHANGED <<parsed, buffer, ram, keyCopy, open, cmd, nth, val, told, adrift, lost, keyCrashes>>
  BY DEF OtpBurn, Return
<1>3. \/ efuse' = efuse
      \/ \E more \in {{}, {v}} : efuse' = [efuse EXCEPT ![k] = @ \union more]
  BY DEF OtpBurn
<1>4. efuse' \in [Otp -> SUBSET KeyValues]
  BY <1>1, <1>3
<1> QED
  BY <1>2, <1>4, AsideInv

\* The key is set in memory, or refused.
LEMMA RamWriteInv ==
    ASSUME KeyInv, RamWrite
    PROVE  KeyInv'
<1>1. /\ keyAt = "ram"
      /\ UNCHANGED <<parsed, buffer, keyCopy, open, efuse, cmd, nth, val, told, adrift, lost>>
  BY DEF RamWrite
<1>2. /\ val \in KeyValues /\ cmd \in Commands /\ nth \in 1 .. Len(cmd)
      /\ \A i \in 1 .. nth - 1 : ram[cmd[i]] = val
      /\ \A i \in 1 .. Len(cmd) : told[cmd[i]] = NoKey
  BY <1>1 DEF KeyInv, RunInv
<1>3. CASE ram' = ram /\ keyAt' = "idle" /\ keyReply' = "failed"
  <2>1. KeyStoreTypeOK' /\ RunInv'
    BY <1>1, <1>3 DEF KeyInv, KeyStoreTypeOK, RunInv
  <2>2. WholeInv' /\ ToldStored'
    BY <1>1, <1>3 DEF KeyInv, WholeInv, Whole, ToldStored, Holds, Due
  <2> QED
    BY <2>1, <2>2 DEF KeyInv
<1>4. CASE /\ ram' = [ram EXCEPT ![cmd[nth]] = val] /\ keyReply' = keyReply
           /\ keyAt' = IF buffer THEN "first" ELSE "named"
  <2>1. /\ Len(cmd) \in Nat /\ \A i \in 1 .. Len(cmd) : cmd[i] \in KeyNames
        /\ cmd[nth] = Name2 => cmd = Hdcp2 /\ nth = Len(Hdcp2)
    BY <1>2, CommandNames
  <2>2. ram \in Stores /\ val # NoKey
    BY <1>2, KeyAssumption DEF KeyInv, KeyStoreTypeOK
  <2>3. /\ ram' \in Stores /\ ram'[cmd[nth]] = val
        /\ \A k \in KeyNames : ram'[k] = val \/ ram'[k] = ram[k]
        /\ \A k \in KeyNames : k # cmd[nth] => ram'[k] = ram[k]
    BY <1>2, <1>4, <2>1, <2>2 DEF Stores
  <2>4. KeyStoreTypeOK'
    BY <1>1, <1>4, <2>3 DEF KeyInv, KeyStoreTypeOK
  <2>5. RunInv'
    <3>1. \A i \in 1 .. nth - 1 : cmd[i] \in KeyNames
      BY <1>2, <2>1
    <3>2. \A i \in 1 .. nth - 1 : ram'[cmd[i]] = val
      BY <1>2, <2>3, <3>1
    <3> QED
      BY <1>1, <1>2, <1>4, <2>3, <3>2 DEF RunInv
  <2>6. Whole(ram')
    <3> SUFFICES ASSUME ram'[Name2] # NoKey, NEW i \in 1 .. Len(Hdcp2)
                 PROVE  ram'[Hdcp2[i]] # NoKey
      BY DEF Whole
    <3>1. Hdcp2[i] \in KeyNames /\ Name2 \in KeyNames
      BY HdcpParts
    <3>2. CASE cmd[nth] = Name2
      <4>1. i = nth \/ i \in 1 .. nth - 1
        BY <1>2, <2>1, <3>2
      <4>2. ram'[cmd[i]] = val
        BY <1>2, <2>3, <3>1, <3>2, <4>1, <2>1
      <4> QED
        BY <2>1, <2>2, <3>2, <4>2
    <3>3. CASE cmd[nth] # Name2
      <4>1. ram[Name2] # NoKey
        BY <2>3, <3>1, <3>3
      <4>2. ram[Hdcp2[i]] # NoKey
        BY <4>1 DEF KeyInv, WholeInv, Whole
      <4> QED
        BY <2>2, <2>3, <3>1, <4>2
    <3> QED
      BY <3>2, <3>3
  <2>7. WholeInv'
    BY <1>1, <2>6 DEF KeyInv, WholeInv, Whole
  <2>8. ToldStored'
    <3>1. ASSUME Holds(ram, Due) PROVE Holds(ram', Due)
      <4>1. ram' # Torn
        BY <2>3, NotTorn
      <4>2. ASSUME NEW k \in KeyNames, Due[k] # NoKey PROVE ram'[k] = Due[k]
        <5>1. k # cmd[nth]
          BY <1>2, <4>2, DueStore DEF KeyInv, KeyStoreTypeOK
        <5> QED
          BY <2>3, <3>1, <4>2, <5>1 DEF Holds
      <4> QED
        BY <4>1, <4>2 DEF Holds
    <3>2. Due' = Due
      BY <1>1, Zenon DEF Due
    <3> QED
      BY <1>1, <3>1, <3>2 DEF KeyInv, ToldStored, Holds
  <2> QED
    BY <2>4, <2>5, <2>7, <2>8 DEF KeyInv
<1> QED
  BY <1>3, <1>4 DEF RamWrite, Return

\* What the writing of a copy leaves, whole or cut.
LEMMA CopyLeaves ==
    ASSUME KeyInv, keyAt \in {"first", "second"},
           NEW left \in {keyCopy[Which], Torn, ram}, keyCopy' = [keyCopy EXCEPT ![Which] = left]
    PROVE  /\ keyCopy' \in [1 .. 2 -> Stores \union {Torn}]
           /\ \A j \in 1 .. 2 : keyCopy'[j] # Torn => Whole(keyCopy'[j])
           /\ ~lost /\ keyCopy'[1] # Torn => Holds(keyCopy'[1], Due)
           /\ keyAt = "second" => keyCopy'[1] = ram
           /\ keyAt = "first" /\ left = ram => keyCopy'[1] = ram
<1>1. /\ keyCopy \in [1 .. 2 -> Stores \union {Torn}] /\ ram \in Stores /\ Whole(ram)
      /\ \A j \in 1 .. 2 : keyCopy[j] # Torn => Whole(keyCopy[j])
      /\ buffer /\ (keyAt = "second" => keyCopy[1] = ram)
  BY DEF KeyInv, KeyStoreTypeOK, WholeInv, RunInv
<1>2. Which \in 1 .. 2 /\ (Which = 1 <=> keyAt = "first")
  BY DEF Which
<1>3. left \in Stores \union {Torn} /\ (left # Torn => Whole(left))
  BY <1>1, <1>2
<1>4. /\ keyCopy' \in [1 .. 2 -> Stores \union {Torn}]
      /\ \A j \in 1 .. 2 : keyCopy'[j] = IF j = Which THEN left ELSE keyCopy[j]
  BY <1>1, <1>2, <1>3
<1>5. \A j \in 1 .. 2 : keyCopy'[j] # Torn => Whole(keyCopy'[j])
  BY <1>1, <1>3, <1>4
<1>6. keyCopy'[1] \in {keyCopy[1], Torn, ram}
  BY <1>2, <1>4
<1>7. ~lost /\ keyCopy'[1] # Torn => Holds(keyCopy'[1], Due)
  BY <1>1, <1>6 DEF KeyInv, ToldStored
<1> QED
  BY <1>1, <1>2, <1>4, <1>5, <1>7

\* A turn of mmc_key_write that succeeds.
LEMMA CopyWriteInv ==
    ASSUME KeyInv, CopyWrite
    PROVE  KeyInv'
<1>1. /\ keyAt \in {"first", "second"} /\ keyCopy' = [keyCopy EXCEPT ![Which] = ram]
      /\ open' = (keyAt = "first") /\ keyAt' = IF keyAt = "first" THEN "second" ELSE "named"
      /\ UNCHANGED <<parsed, buffer, ram, efuse, cmd, nth, val, keyReply, told, adrift, lost, writes, keyCrashes>>
  BY DEF CopyWrite
<1>2. /\ keyCopy' \in [1 .. 2 -> Stores \union {Torn}]
      /\ \A j \in 1 .. 2 : keyCopy'[j] # Torn => Whole(keyCopy'[j])
      /\ ~lost /\ keyCopy'[1] # Torn => Holds(keyCopy'[1], Due)
      /\ keyCopy'[1] = ram
  BY <1>1, CopyLeaves
<1>3. open' \in BOOLEAN
  BY <1>1, Zenon
<1>4. KeyStoreTypeOK'
  BY <1>1, <1>2, <1>3 DEF KeyInv, KeyStoreTypeOK
<1>5. RunInv'
  BY <1>1, <1>2, SMTT(60) DEF KeyInv, RunInv
<1>6. WholeInv'
  BY <1>1, <1>2 DEF KeyInv, WholeInv, Whole
<1>7. ToldStored'
  <2>1. Due' = Due
    BY <1>1, Zenon DEF Due
  <2> QED
    BY <1>1, <1>2, <2>1 DEF KeyInv, ToldStored, Holds
<1> QED
  BY <1>4, <1>5, <1>6, <1>7 DEF KeyInv

\* A command that ends without success, the copies as CopyLeaves says.
LEMMA EndInv ==
    ASSUME KeyInv, keyAt' = "idle", keyReply' \in {"none", "ok", "failed", "burned"},
           open' \in BOOLEAN, buffer' \in BOOLEAN,
           ram' \in Stores, Whole(ram'), buffer' => ram' = ram /\ buffer,
           keyCopy' \in [1 .. 2 -> Stores \union {Torn}],
           \A j \in 1 .. 2 : keyCopy'[j] # Torn => Whole(keyCopy'[j]),
           ~lost /\ keyCopy'[1] # Torn => Holds(keyCopy'[1], Due), parsed' \in BOOLEAN,
           UNCHANGED <<efuse, cmd, nth, val, told, adrift, lost>>
    PROVE  KeyInv'
<1>1. KeyStoreTypeOK'
  BY DEF KeyInv, KeyStoreTypeOK
<1>2. RunInv'
  BY DEF RunInv
<1>3. WholeInv'
  BY DEF WholeInv, Whole
<1>4. ToldStored'
  <2>1. Due' = Due
    BY Zenon DEF Due
  <2> QED
    BY <2>1 DEF KeyInv, ToldStored, Holds
<1> QED
  BY <1>1, <1>2, <1>3, <1>4 DEF KeyInv

\* A turn that fails.
LEMMA CopyFailsInv ==
    ASSUME KeyInv, CopyFails
    PROVE  KeyInv'
<1>1. /\ keyAt \in {"first", "second"} /\ open' = TRUE /\ keyAt' = "idle" /\ keyReply' = "failed"
      /\ UNCHANGED <<parsed, buffer, ram, efuse, cmd, nth, val, told, adrift, lost, writes, keyCrashes>>
  BY DEF CopyFails, Return
<1>2. PICK left \in {keyCopy[Which], Torn, ram} : keyCopy' = [keyCopy EXCEPT ![Which] = left]
  BY Zenon DEF CopyFails
<1>3. /\ keyCopy' \in [1 .. 2 -> Stores \union {Torn}]
      /\ \A j \in 1 .. 2 : keyCopy'[j] # Torn => Whole(keyCopy'[j])
      /\ ~lost /\ keyCopy'[1] # Torn => Holds(keyCopy'[1], Due)
  BY <1>1, <1>2, CopyLeaves, Zenon
<1>4. open' \in BOOLEAN
  BY <1>1, Zenon
<1>5. ram \in Stores /\ Whole(ram) /\ buffer \in BOOLEAN /\ parsed \in BOOLEAN
  BY DEF KeyInv, KeyStoreTypeOK, WholeInv
<1> QED
  BY <1>1, <1>3, <1>4, <1>5, EndInv

\* The power is cut.
LEMMA KeyPowerCutInv ==
    ASSUME KeyInv, KeyPowerCut
    PROVE  KeyInv'
<1>1. /\ buffer' = FALSE /\ ram' = Empty /\ open' = FALSE /\ keyAt' = "idle" /\ keyReply' = "none"
      /\ parsed' = FALSE /\ UNCHANGED <<efuse, cmd, nth, val, told, adrift, lost, writes>>
  BY DEF KeyPowerCut, Return
<1>2. /\ keyCopy' \in [1 .. 2 -> Stores \union {Torn}]
      /\ \A j \in 1 .. 2 : keyCopy'[j] # Torn => Whole(keyCopy'[j])
      /\ ~lost /\ keyCopy'[1] # Torn => Holds(keyCopy'[1], Due)
  <2>1. CASE keyAt \in {"first", "second"}
    <3>1. PICK left \in {keyCopy[Which], Torn, ram} : keyCopy' = [keyCopy EXCEPT ![Which] = left]
      BY <2>1 DEF KeyPowerCut
    <3> QED
      BY <2>1, <3>1, CopyLeaves, Zenon
  <2>2. CASE keyAt \notin {"first", "second"}
    <3>1. keyCopy' = keyCopy
      BY <2>2 DEF KeyPowerCut
    <3> QED
      BY <3>1 DEF KeyInv, KeyStoreTypeOK, WholeInv, ToldStored
  <2> QED
    BY <2>1, <2>2
<1>3. open' \in BOOLEAN /\ buffer' \in BOOLEAN /\ parsed' \in BOOLEAN
  BY <1>1, Zenon
<1>4. ram' \in Stores /\ Whole(ram') /\ ~buffer'
  BY <1>1, EmptyStore
<1> QED
  BY <1>1, <1>2, <1>3, <1>4, EndInv

\* The next name, or all names are stored.
LEMMA NameDoneInv ==
    ASSUME KeyInv, NameDone
    PROVE  KeyInv'
<1>1. /\ keyAt = "named" /\ UNCHANGED <<parsed, buffer, ram, keyCopy, open, efuse, cmd, val, lost>>
  BY DEF NameDone
<1>2. /\ val \in KeyValues /\ cmd \in Commands /\ nth \in 1 .. Len(cmd)
      /\ \A i \in 1 .. nth - 1 : ram[cmd[i]] = val
      /\ ram[cmd[nth]] = val /\ (buffer => keyCopy[1] = ram)
      /\ \A i \in 1 .. Len(cmd) : told[cmd[i]] = NoKey
  BY <1>1 DEF KeyInv, RunInv
<1>3. Len(cmd) \in Nat /\ \A i \in 1 .. Len(cmd) : cmd[i] \in KeyNames
  BY <1>2, CommandNames
<1>4. WholeInv'
  BY <1>1 DEF KeyInv, WholeInv, Whole
<1>5. \A i \in 1 .. nth : ram[cmd[i]] = val
  <2>1. \A i \in 1 .. nth : i \in 1 .. nth - 1 \/ i = nth
    BY <1>2, <1>3
  <2> QED
    BY <1>2, <2>1
<1>6. CASE nth < Len(cmd)
  <2>1. nth' = nth + 1 /\ keyAt' = "ram" /\ keyReply' = keyReply /\ told' = told /\ adrift' = adrift
    BY <1>6 DEF NameDone
  <2>2. KeyStoreTypeOK'
    BY <1>1, <1>2, <1>3, <1>6, <2>1 DEF KeyInv, KeyStoreTypeOK
  <2>3. nth' \in 1 .. Len(cmd) /\ nth' - 1 = nth
    BY <1>2, <1>3, <1>6, <2>1
  <2>4. RunInv'
    BY <1>1, <1>2, <1>5, <2>1, <2>3, SMTT(60) DEF RunInv
  <2>5. ToldStored'
    BY <1>1, <2>1 DEF KeyInv, ToldStored, Holds, Due
  <2> QED
    BY <1>4, <2>2, <2>4, <2>5 DEF KeyInv
<1>7. CASE ~(nth < Len(cmd))
  <2>1. /\ keyAt' = "idle" /\ keyReply' = "burned" /\ told' = Set(told, Asked(cmd), val)
        /\ nth' = nth /\ adrift' = IF buffer THEN adrift ELSE adrift \union Asked(cmd)
    BY <1>7 DEF NameDone, TellBurned, Return
  <2>2. told \in Stores /\ ram \in Stores
    BY DEF KeyInv, KeyStoreTypeOK
  <2>3. /\ told' \in Stores
        /\ \A k \in KeyNames : told'[k] = IF k \in Asked(cmd) THEN val ELSE told[k]
    BY <1>2, <2>1, <2>2, SetStore
  <2>4. \A k \in Asked(cmd) : ram[k] = val
    <3>1. nth = Len(cmd)
      BY <1>2, <1>3, <1>7
    <3> QED
      BY <1>5, <3>1 DEF Asked
  <2>5. KeyStoreTypeOK'
    <3>1. adrift' \subseteq KeyNames
      BY <1>3, <2>1 DEF KeyInv, KeyStoreTypeOK, Asked
    <3> QED
      BY <1>1, <2>1, <2>3, <3>1 DEF KeyInv, KeyStoreTypeOK
  <2>6. RunInv'
    BY <2>1 DEF RunInv
  <2>7. \A k \in KeyNames : Due'[k] = IF k \in adrift' THEN NoKey ELSE told'[k]
    BY DEF Due
  <2>8. \A k \in KeyNames : Due[k] = IF k \in adrift THEN NoKey ELSE told[k]
    BY DEF Due
  <2>9. ToldStored'
    <3>1. CASE buffer
      <4>1. Holds(ram, Due) => Holds(ram, Due')
        BY <2>1, <2>3, <2>4, <2>7, <2>8, <3>1 DEF Holds
      <4> QED
        BY <1>1, <1>2, <3>1, <4>1 DEF KeyInv, ToldStored
    <3>2. CASE ~buffer
      <4>1. \A s : Holds(s, Due) => Holds(s, Due')
        BY <2>1, <2>3, <2>7, <2>8, <3>2 DEF Holds
      <4> QED
        BY <1>1, <3>2, <4>1 DEF KeyInv, ToldStored
    <3> QED
      BY <3>1, <3>2
  <2> QED
    BY <1>4, <2>5, <2>6, <2>9 DEF KeyInv
<1> QED
  BY <1>6, <1>7

\* Every step keeps the invariant.
LEMMA KeyStep ==
    KeyInv /\ [KeyStoreNext]_keyVars => KeyInv'
<1> SUFFICES ASSUME KeyInv, [KeyStoreNext]_keyVars PROVE KeyInv'
  OBVIOUS
<1>1. CASE UNCHANGED keyVars
  <2>1. KeyStoreTypeOK' /\ RunInv'
    BY <1>1 DEF keyVars, KeyInv, KeyStoreTypeOK, RunInv
  <2>2. WholeInv' /\ ToldStored'
    BY <1>1 DEF keyVars, KeyInv, WholeInv, Whole, ToldStored, Holds, Due
  <2> QED
    BY <2>1, <2>2 DEF KeyInv
<1>2. CASE KeyMalformed
  <2>1. efuse' \in [Otp -> SUBSET KeyValues]
    BY <1>2 DEF KeyMalformed, KeyInv, KeyStoreTypeOK
  <2> QED
    BY <1>2, <2>1, AsideInv DEF KeyMalformed, Return
<1> QED
  BY <1>1, <1>2, KeyInitInv, KeyEraseInv, KeyBurnInv, RamWriteInv, CopyWriteInv,
     CopyFailsInv, NameDoneInv, OtpBurnInv, KeyPowerCutInv DEF KeyStoreNext

-----------------------------------------------------------------------------
(* The results.                                                              *)

\* The inductive invariant holds in every behaviour.
LEMMA KeyInvariance ==
    KeyStoreSpec => []KeyInv
<1>1. KeyStoreInit => KeyInv
  BY KeyStart
<1>2. KeyInv /\ [KeyStoreNext]_keyVars => KeyInv'
  BY KeyStep
<1> QED
  BY <1>1, <1>2, PTL DEF KeyStoreSpec

\* v2_key_burn: a key the host was told is burned, with all its parts, is in
\* memory and in the first copy on the medium, unless that copy is torn, until a
\* start that did not find it, and unless it was burned without a buffer;
\* whatever writes fail or are cut.
THEOREM ToldSafe == KeyStoreSpec => []ToldStored
<1>1. KeyInv => ToldStored
  BY DEF KeyInv
<1> QED
  BY <1>1, KeyInvariance, PTL

\* _burn_key_in_type_hdcp2 writes the key's own name last: no failure and no power
\* cut leaves the name without its parts, in memory or on the medium.
THEOREM Hdcp2Safe == KeyStoreSpec => []Hdcp2Whole
<1>1. KeyInv => Hdcp2Whole
  <2> SUFFICES ASSUME KeyInv, NEW store \in {ram, keyCopy[1], keyCopy[2]} \ {Torn}
               PROVE  Whole(store)
    BY DEF Hdcp2Whole, Whole, Name2
  <2> QED
    BY DEF KeyInv, WholeInv
<1> QED
  BY <1>1, KeyInvariance, PTL

-----------------------------------------------------------------------------
(* The environment, with two copies.                                         *)

\* The serial number after x.
Succ(x) == (x + 1) % Serials

\* The other copy.
Other(i) == IF i = 1 THEN 2 ELSE 1

\* Copy i of c is the newest: good, the other one bad or one save older.
Newest(c, i) ==
    /\ c[i] # Bad
    /\ c[Other(i)] # Bad => c[i].flags = Succ(c[Other(i)].flags)

NoCopy(c) == c[1] = Bad /\ c[2] = Bad

\* While the device runs, the copy in use is the newest and has the serial
\* number in memory; while a copy is written, its number is the next one.
CopyInv ==
    /\ NoCopy(storeCopy) \/ Newest(storeCopy, 1) \/ Newest(storeCopy, 2)
    /\ storeAt = "idle" => \/ NoCopy(storeCopy) /\ valid = 1
                           \/ Newest(storeCopy, valid) /\ storeCopy[valid].flags = serial
    /\ storeAt = "write" => /\ new.flags = serial /\ new.data \in tried /\ new # Bad
                            /\ \/ NoCopy(storeCopy) /\ valid = 1
                               \/ Newest(storeCopy, valid) /\ serial = Succ(storeCopy[valid].flags)

CopiesInv == EnvStoreTypeOK /\ CopyInv /\ NewestStored

\* Two copies, and no faults but power cuts.
TwoCopies == Redundant /\ ~StoreWriteFaults /\ ~StoreReadFaults

-----------------------------------------------------------------------------
(* The serial numbers.                                                       *)

\* The number wraps at its last value.
LEMMA SuccIs ==
    ASSUME NEW x \in 0 .. Serials - 1
    PROVE  /\ Succ(x) \in 0 .. Serials - 1
           /\ Succ(x) = IF x = Serials - 1 THEN 0 ELSE x + 1
<1>1. CASE x = Serials - 1
  <2>1. x + 1 = Serials /\ Serials % Serials = 0
    BY <1>1, EnvAssumption
  <2> QED
    BY <1>1, <2>1, EnvAssumption DEF Succ
<1>2. CASE x # Serials - 1
  <2>1. x + 1 \in 0 .. Serials - 1 /\ (x + 1) % Serials = x + 1
    BY <1>2, EnvAssumption
  <2> QED
    BY <1>2, <2>1, EnvAssumption DEF Succ
<1> QED
  BY <1>1, <1>2

\* A good copy has a serial number.
LEMMA GoodCopy ==
    ASSUME NEW k \in Copies, k # Bad
    PROVE  k.data \in Environments /\ k.flags \in 0 .. Serials - 1
  BY DEF Copies

\* mmc_env_relocate_spec chooses the newest copy.
LEMMA ChoosesNewest ==
    ASSUME NEW c \in [1 .. 2 -> Copies], NEW i \in 1 .. 2, Newest(c, i)
    PROVE  Choose(c[1], c[2]) = i
<1>1. c[1] \in Copies /\ c[2] \in Copies
  OBVIOUS
<1>2. CASE c[Other(i)] = Bad
  BY <1>2 DEF Choose, Newest, Other
<1>3. CASE c[Other(i)] # Bad
  <2> DEFINE a == c[1].flags
             b == c[2].flags
  <2>1. c[1] # Bad /\ c[2] # Bad
    BY <1>3 DEF Newest, Other
  <2>2. a \in 0 .. Serials - 1 /\ b \in 0 .. Serials - 1
    BY <1>1, <2>1, GoodCopy
  <2>3. Choose(c[1], c[2]) = Newer(c[1], c[2])
    BY <2>1 DEF Choose
  <2>4. CASE i = 1
    <3>1. a = Succ(b)
      BY <1>3, <2>4 DEF Newest, Other
    <3>2. a = IF b = Serials - 1 THEN 0 ELSE b + 1
      BY <2>2, <3>1, SuccIs
    <3> QED
      BY <2>2, <2>3, <2>4, <3>2, EnvAssumption DEF Newer
  <2>5. CASE i = 2
    <3>1. b = Succ(a)
      BY <1>3, <2>5 DEF Newest, Other
    <3>2. b = IF a = Serials - 1 THEN 0 ELSE a + 1
      BY <2>2, <3>1, SuccIs
    <3> QED
      BY <2>2, <2>3, <2>5, <3>2, EnvAssumption DEF Newer
  <2> QED
    BY <2>4, <2>5
<1> QED
  BY <1>2, <1>3

-----------------------------------------------------------------------------
(* The steps.                                                                *)

\* The medium without a copy.
LEMMA CopiesStart == TwoCopies /\ EnvStoreInit => CopiesInv
<1> SUFFICES ASSUME TwoCopies, EnvStoreInit PROVE CopiesInv
  OBVIOUS
<1>1. EnvStoreTypeOK
  <2>1. Bad \in Copies
    BY DEF Copies
  <2>2. storeCopy \in [1 .. 2 -> Copies]
    BY <2>1 DEF EnvStoreInit
  <2> QED
    BY <2>1, <2>2, EnvAssumption DEF EnvStoreInit, EnvStoreTypeOK, TwoCopies
<1>2. storeCopy[1] = Bad /\ storeCopy[2] = Bad /\ storeAt = "off"
  BY DEF EnvStoreInit
<1>3. CopyInv
  BY <1>2 DEF CopyInv, NoCopy
<1>4. NewestStored
  BY <1>2, SMTT(60) DEF EnvStoreInit, NewestStored, Choose, Bad
<1> QED
  BY <1>1, <1>3, <1>4 DEF CopiesInv

\* The environment changes in memory only.
LEMMA ChangeInv ==
    ASSUME CopiesInv, NEW v \in Environments, Change(v)
    PROVE  CopiesInv'
  BY DEF CopiesInv, Change, EnvStoreTypeOK, CopyInv, NewestStored, NoCopy, Newest

\* The exported copy has the number behind the newest's.
LEMMA SaveInv ==
    ASSUME TwoCopies, CopiesInv, Save
    PROVE  CopiesInv'
<1>1. serial' = Succ(serial) /\ new' = [data |-> env, flags |-> serial'] /\ storeAt' = "write"
  BY DEF Save, Export, TwoCopies, Succ
<1>2. UNCHANGED <<env, storeCopy, valid, saved, cuts>> /\ tried' = tried \union {env} /\ storeAt = "idle"
  BY DEF Save
<1>3. env \in Environments /\ serial' \in 0 .. Serials - 1
  BY <1>1, SuccIs DEF CopiesInv, EnvStoreTypeOK, TwoCopies
<1>4. new' \in Copies /\ new' # Bad
  BY <1>1, <1>3, EnvAssumption DEF Copies, Bad, TwoCopies
<1>5. EnvStoreTypeOK'
  BY <1>1, <1>2, <1>3, <1>4, SMTT(60) DEF CopiesInv, EnvStoreTypeOK
<1>6. CopyInv'
  BY <1>1, <1>2, <1>4 DEF CopiesInv, CopyInv, NoCopy, Newest
<1>7. NewestStored'
  BY <1>2 DEF CopiesInv, NewestStored
<1> QED
  BY <1>5, <1>6, <1>7 DEF CopiesInv

\* What a write leaves, whole or cut: the new copy is the newest, or the one in
\* use still is.
LEMMA WriteLeaves ==
    ASSUME TwoCopies, CopiesInv, storeAt = "write", NEW left \in Left,
           storeCopy' = [storeCopy EXCEPT ![Target] = left]
    PROVE  /\ storeCopy' \in [1 .. 2 -> Copies]
           /\ Target \in 1 .. 2 /\ Target = Other(valid)
           /\ left = new => Newest(storeCopy', Target) /\ storeCopy'[Target] = new
           /\ left # new => /\ NoCopy(storeCopy) => NoCopy(storeCopy')
                            /\ ~NoCopy(storeCopy) => Newest(storeCopy', valid) /\ storeCopy'[valid] = storeCopy[valid]
<1>1. /\ storeCopy \in [1 .. 2 -> Copies] /\ new \in Copies /\ valid \in 1 .. 2
      /\ new.flags = serial /\ new # Bad
  BY DEF CopiesInv, EnvStoreTypeOK, CopyInv
<1>2. Target \in 1 .. 2 /\ Target = Other(valid) /\ Other(Target) = valid
      /\ Target # valid
  BY <1>1 DEF Target, Other, TwoCopies
<1>3. left \in Copies
  BY <1>1, <1>2 DEF Left, Copies
<1>4. /\ storeCopy' \in [1 .. 2 -> Copies] /\ storeCopy'[Target] = left
      /\ storeCopy'[valid] = storeCopy[valid]
  BY <1>1, <1>2, <1>3
<1>5. ASSUME left = new PROVE Newest(storeCopy', Target)
  <2>1. storeCopy'[valid] # Bad => new.flags = Succ(storeCopy'[valid].flags)
    BY <1>1, <1>4 DEF CopiesInv, CopyInv, NoCopy
  <2>2. storeCopy'[Target] # Bad /\ (storeCopy'[Other(Target)] # Bad =>
                                       storeCopy'[Target].flags = Succ(storeCopy'[Other(Target)].flags))
    BY <1>1, <1>2, <1>4, <1>5, <2>1
  <2> QED
    BY <2>2 DEF Newest
<1>6. ASSUME left # new, NoCopy(storeCopy) PROVE NoCopy(storeCopy')
  BY <1>1, <1>2, <1>4, <1>6, SMTT(60) DEF Left, NoCopy
<1>7. ASSUME left # new, ~NoCopy(storeCopy) PROVE Newest(storeCopy', valid)
  BY <1>1, <1>2, <1>4, <1>7 DEF CopiesInv, CopyInv, Left, Newest, Other
<1> QED
  BY <1>2, <1>4, <1>5, <1>6, <1>7

\* The new copy is the one in use.
LEMMA SaveDoneInv ==
    ASSUME TwoCopies, CopiesInv, SaveDone
    PROVE  CopiesInv'
<1>1. storeAt = "write" /\ storeCopy' = [storeCopy EXCEPT ![Target] = new] /\ new \in Left
  BY DEF SaveDone, Left
<1>2. /\ storeCopy' \in [1 .. 2 -> Copies] /\ Target \in 1 .. 2 /\ Target = Other(valid)
      /\ Newest(storeCopy', Target) /\ storeCopy'[Target] = new
  BY <1>1, WriteLeaves, Zenon
<1>3. /\ valid \in 1 .. 2 /\ new.flags = serial /\ new.data \in tried /\ new # Bad
      /\ new \in Copies
  BY <1>1 DEF CopiesInv, EnvStoreTypeOK, CopyInv
<1>4. /\ valid' = Target /\ storeAt' = "idle" /\ saved' = new.data /\ tried' = {}
      /\ UNCHANGED <<env, serial, new, saves, cuts>>
  BY <1>2, <1>3 DEF SaveDone, Succeeded, Other, TwoCopies
<1>5. EnvStoreTypeOK'
  BY <1>2, <1>3, <1>4, GoodCopy DEF CopiesInv, EnvStoreTypeOK
<1>6. CopyInv'
  BY <1>2, <1>3, <1>4 DEF CopyInv
<1>7. NewestStored'
  <2>1. Choose(storeCopy'[1], storeCopy'[2]) = Target
    BY <1>2, ChoosesNewest DEF TwoCopies
  <2> QED
    BY <1>2, <1>4, <2>1 DEF NewestStored
<1> QED
  BY <1>5, <1>6, <1>7 DEF CopiesInv

\* A cut leaves a newest copy, of the last save or of one begun after it.
LEMMA StorePowerCutInv ==
    ASSUME TwoCopies, CopiesInv, StorePowerCut
    PROVE  CopiesInv'
<1>1. storeAt' = "off" /\ UNCHANGED <<env, valid, serial, new, saved, tried, saves>>
  BY DEF StorePowerCut
<1>2. /\ storeCopy \in [1 .. 2 -> Copies] /\ valid \in 1 .. 2
      /\ storeCopy[Choose(storeCopy[1], storeCopy[2])].data \in {saved} \union tried
  BY DEF CopiesInv, EnvStoreTypeOK, NewestStored, TwoCopies
<1>3. SUFFICES ASSUME storeCopy' # storeCopy PROVE CopiesInv'
  <2>1. ASSUME storeCopy' = storeCopy PROVE CopiesInv'
    BY <1>1, <2>1 DEF CopiesInv, EnvStoreTypeOK, CopyInv, NewestStored
  <2> QED
    BY <2>1, SMTT(60)
<1>4. storeAt = "write" /\ \E left \in Left : storeCopy' = [storeCopy EXCEPT ![Target] = left]
  BY <1>3 DEF StorePowerCut
<1>5. PICK left \in Left : storeCopy' = [storeCopy EXCEPT ![Target] = left]
  BY <1>4, Zenon
<1>6. /\ storeCopy' \in [1 .. 2 -> Copies] /\ Target \in 1 .. 2
      /\ left = new => Newest(storeCopy', Target) /\ storeCopy'[Target] = new
      /\ left # new => /\ NoCopy(storeCopy) => NoCopy(storeCopy')
                       /\ ~NoCopy(storeCopy) => Newest(storeCopy', valid) /\ storeCopy'[valid] = storeCopy[valid]
  BY <1>4, <1>5, WriteLeaves, Zenon
<1>7. EnvStoreTypeOK'
  BY <1>1, <1>6, SMTT(60) DEF CopiesInv, EnvStoreTypeOK
<1>8. CopyInv'
  BY <1>1, <1>2, <1>6 DEF CopyInv
<1>9. NewestStored'
  <2>1. CASE left = new
    <3>1. Choose(storeCopy'[1], storeCopy'[2]) = Target /\ storeCopy'[Target] = new
      BY <1>6, <2>1, ChoosesNewest, SMTT(60) DEF TwoCopies
    <3>2. new.data \in tried
      BY <1>4 DEF CopiesInv, CopyInv
    <3> QED
      BY <1>1, <3>1, <3>2 DEF NewestStored
  <2>2. CASE left # new /\ NoCopy(storeCopy)
    <3>1. storeCopy' = storeCopy
      BY <1>2, <1>6, <2>2 DEF NoCopy
    <3> QED
      BY <1>3, <3>1
  <2>3. CASE left # new /\ ~NoCopy(storeCopy)
    <3>1. Choose(storeCopy'[1], storeCopy'[2]) = valid /\ storeCopy'[valid] = storeCopy[valid]
      BY <1>2, <1>6, <2>3, ChoosesNewest DEF TwoCopies
    <3>2. Newest(storeCopy, valid)
      BY <1>4, <2>3 DEF CopiesInv, CopyInv
    <3>3. Choose(storeCopy[1], storeCopy[2]) = valid
      BY <1>2, <3>2, ChoosesNewest DEF TwoCopies
    <3> QED
      BY <1>1, <1>2, <3>1, <3>3 DEF NewestStored
  <2> QED
    BY <2>1, <2>2, <2>3
<1> QED
  BY <1>7, <1>8, <1>9 DEF CopiesInv

\* A start uses the newest copy and goes on from its number.
LEMMA RelocateInv ==
    ASSUME TwoCopies, CopiesInv, RelocateTwo
    PROVE  CopiesInv'
<1>1. storeCopy \in [1 .. 2 -> Copies] /\ storeCopy[1] \in Copies /\ storeCopy[2] \in Copies
  BY DEF CopiesInv, EnvStoreTypeOK
<1>2. storeAt' = "idle" /\ UNCHANGED <<storeCopy, new, saved, tried, saves, cuts>>
  BY DEF RelocateTwo
<1>3. /\ NoCopy(storeCopy) => env' = Default /\ valid' = 1 /\ serial' = 0
      /\ ~NoCopy(storeCopy) => /\ valid' = Choose(storeCopy[1], storeCopy[2])
                               /\ env' = (IF valid' = 1 THEN storeCopy[1] ELSE storeCopy[2]).data
                               /\ serial' = (IF valid' = 1 THEN storeCopy[1] ELSE storeCopy[2]).flags
  BY DEF RelocateTwo, Reads, TwoCopies, NoCopy
<1>4. NewestStored'
  BY <1>2 DEF CopiesInv, NewestStored
<1>5. CASE NoCopy(storeCopy)
  <2>1. EnvStoreTypeOK'
    BY <1>2, <1>3, <1>5, EnvAssumption DEF CopiesInv, EnvStoreTypeOK, TwoCopies
  <2>2. CopyInv'
    BY <1>2, <1>3, <1>5 DEF CopyInv
  <2> QED
    BY <1>4, <2>1, <2>2, SMTT(60) DEF CopiesInv
<1>6. CASE ~NoCopy(storeCopy)
  <2>1. PICK i \in 1 .. 2 : Newest(storeCopy, i)
    BY <1>6 DEF CopiesInv, CopyInv
  <2>2. Choose(storeCopy[1], storeCopy[2]) = i
    BY <1>1, <2>1, ChoosesNewest DEF TwoCopies
  <2>3. valid' = i /\ env' = storeCopy[i].data /\ serial' = storeCopy[i].flags
    BY <1>3, <1>6, <2>2
  <2>4. storeCopy[i].data \in Environments /\ storeCopy[i].flags \in 0 .. Serials - 1
    BY <1>1, <2>1, GoodCopy DEF Newest
  <2>5. EnvStoreTypeOK'
    BY <1>2, <2>3, <2>4, SMTT(60) DEF CopiesInv, EnvStoreTypeOK
  <2>6. CopyInv'
    BY <1>2, <2>1, <2>3 DEF CopyInv
  <2> QED
    BY <1>4, <2>5, <2>6 DEF CopiesInv
<1> QED
  BY <1>5, <1>6

\* Every step keeps the invariant.
LEMMA CopiesStep ==
    ASSUME TwoCopies
    PROVE  CopiesInv /\ [EnvStoreNext]_storeVars => CopiesInv'
<1> SUFFICES ASSUME CopiesInv, [EnvStoreNext]_storeVars PROVE CopiesInv'
  BY SMTT(60)
<1>1. CASE UNCHANGED storeVars
  BY <1>1 DEF storeVars, CopiesInv, EnvStoreTypeOK, CopyInv, NewestStored
<1>2. ~SaveFails /\ ~RelocateOne
  BY DEF SaveFails, RelocateOne, TwoCopies
<1> QED
  BY <1>1, <1>2, ChangeInv, SaveInv, SaveDoneInv, StorePowerCutInv, RelocateInv DEF EnvStoreNext

-----------------------------------------------------------------------------
(* The result.                                                               *)

\* mmc_env_relocate_spec with two copies: whatever number of saves there were,
\* through every wrap of the serial number, and wherever the power was cut, the
\* copy the next start takes is that of the last save that succeeded, or of one
\* that was begun after it.  (A write that fails counts the number up without
\* leaving a copy; around the wrap the claim is then false, so it is excluded.)
THEOREM NewestSafe == TwoCopies => (EnvStoreSpec => []NewestStored)
<1> SUFFICES ASSUME TwoCopies PROVE EnvStoreSpec => []NewestStored
  OBVIOUS
<1>1. EnvStoreInit => CopiesInv
  BY CopiesStart
<1>2. CopiesInv /\ [EnvStoreNext]_storeVars => CopiesInv'
  BY CopiesStep
<1>3. CopiesInv => NewestStored
  BY DEF CopiesInv
<1> QED
  BY <1>1, <1>2, <1>3, PTL DEF EnvStoreSpec

-----------------------------------------------------------------------------
(* The environment, with one copy.                                           *)

\* What is saved is an environment, and no write is under way when it stays;
\* what is being written is one, too.
OneInv ==
    /\ EnvStoreTypeOK
    /\ storeAt = "write" => new # Bad
    /\ tried = {} => saved # Bad.data /\ storeCopy[1].data = saved /\ storeAt # "write"

\* A copy is bad or holds an environment, never both.
LEMMA DataOf ==
    ASSUME NEW r \in Copies
    PROVE  r = Bad <=> r.data \notin Environments
  BY EnvAssumption DEF Copies, Bad

\* Writing the copy, wholly or not, leaves a copy.
LEMMA CopyWritten ==
    ASSUME EnvStoreTypeOK, NEW r \in Copies, storeCopy' = [storeCopy EXCEPT ![1] = r]
    PROVE  storeCopy' \in [1 .. 2 -> Copies] /\ storeCopy'[1] = r
  BY DEF EnvStoreTypeOK

\* The empty medium.
LEMMA OneStart == EnvStoreInit => OneInv
<1> SUFFICES ASSUME EnvStoreInit PROVE OneInv
  OBVIOUS
<1>1. Bad \in Copies /\ storeCopy = [i \in 1 .. 2 |-> Bad]
  BY DEF EnvStoreInit, Copies
<1> QED
  BY <1>1, EnvAssumption DEF EnvStoreInit, OneInv, EnvStoreTypeOK

\* Every step keeps the invariant.
LEMMA OneStep ==
    ASSUME ~Redundant
    PROVE  OneInv /\ [EnvStoreNext]_storeVars => OneInv'
<1> SUFFICES ASSUME OneInv, [EnvStoreNext]_storeVars PROVE OneInv'
  OBVIOUS
<1>t. EnvStoreTypeOK /\ Target = 1
  BY DEF OneInv, Target
<1>1. CASE UNCHANGED storeVars
  BY <1>1 DEF storeVars, OneInv, EnvStoreTypeOK
<1>2. ASSUME NEW v \in Environments, Change(v) PROVE OneInv'
  BY <1>2, SMTT(60) DEF Change, OneInv, EnvStoreTypeOK
<1>3. CASE Save
  <2>1. new' = [data |-> env, flags |-> serial] /\ serial' = serial /\ storeAt' = "write"
    BY <1>3 DEF Save, Export
  <2>2. new' \in Copies /\ new' # Bad
    <3>1. new' \in Copies /\ new'.data \in Environments
      BY <1>t, <2>1, SMTT(60) DEF EnvStoreTypeOK, Copies
    <3> QED
      BY <3>1, DataOf
  <2> QED
    BY <1>3, <1>t, <2>1, <2>2 DEF Save, OneInv, EnvStoreTypeOK
<1>4. CASE SaveDone
  <2>1. new # Bad /\ new \in Copies /\ new.data \in Environments /\ tried # {}
    BY <1>4, <1>t, DataOf DEF SaveDone, OneInv, EnvStoreTypeOK
  <2>2. storeCopy' = [storeCopy EXCEPT ![1] = new] /\ saved' = new.data
    BY <1>4, <1>t, <2>1 DEF SaveDone, Succeeded
  <2>3. storeCopy' \in [1 .. 2 -> Copies] /\ storeCopy'[1] = new
    BY <1>t, <2>1, <2>2, CopyWritten, Zenon
  <2>4. saved' # Bad.data
    BY <2>1, <2>2, EnvAssumption
  <2> QED
    BY <1>4, <1>t, <2>1, <2>2, <2>3, <2>4 DEF SaveDone, Succeeded, OneInv, EnvStoreTypeOK
<1>5. ASSUME storeAt = "write", NEW left \in Left,
             storeCopy' = [storeCopy EXCEPT ![Target] = left],
             storeAt' # "write", storeAt' \in {"off", "idle"},
             UNCHANGED <<env, valid, serial, new, saved, tried>>
      PROVE  OneInv'
  <2>1. left \in Copies
    BY <1>5, <1>t DEF Left, EnvStoreTypeOK, Copies
  <2>2. storeCopy' \in [1 .. 2 -> Copies]
    BY <1>5, <1>t, <2>1, CopyWritten, Zenon
  <2> QED
    BY <1>5, <1>t, <2>2 DEF OneInv, EnvStoreTypeOK
<1>6. CASE SaveFails
  BY <1>5, <1>6, Zenon DEF SaveFails
<1>7. CASE StorePowerCut
  <2>1. CASE storeAt = "write"
    BY <1>5, <1>7, <2>1 DEF StorePowerCut
  <2>2. CASE storeAt # "write"
    BY <1>7, <1>t, <2>2 DEF StorePowerCut, OneInv, EnvStoreTypeOK
  <2> QED
    BY <2>1, <2>2
<1>8. CASE RelocateOne
  <2>1. storeCopy[1] \in Copies
    BY <1>t, SMTT(60) DEF EnvStoreTypeOK
  <2>2. CASE storeCopy[1] = Bad /\ env' = Default /\ Export(Default)
    <3>1. tried # {}
      BY <2>2 DEF OneInv
    <3>2. new' = [data |-> Default, flags |-> serial] /\ serial' = serial /\ storeAt' = "write"
      BY <2>2 DEF Export
    <3>3. new' \in Copies /\ new'.data \in Environments
      BY <1>t, <3>2, EnvAssumption DEF EnvStoreTypeOK, Copies
    <3>4. new' # Bad
      BY <3>3, DataOf, SMTT(60)
    <3> QED
      BY <1>8, <1>t, <2>2, <3>1, <3>2, <3>3, <3>4, EnvAssumption
         DEF RelocateOne, OneInv, EnvStoreTypeOK
  <2>3. CASE /\ (storeCopy[1] # Bad /\ env' = storeCopy[1].data) \/ env' = Default
             /\ storeAt' = "idle" /\ serial' = 0 /\ UNCHANGED new
    <3>1. env' \in Environments
      BY <2>1, <2>3, DataOf, EnvAssumption
    <3>2. serial' \in 0 .. Serials - 1
      BY <2>3, EnvAssumption
    <3> QED
      BY <1>8, <1>t, <2>3, <3>1, <3>2 DEF RelocateOne, OneInv, EnvStoreTypeOK
  <2> QED
    BY <1>8, <2>2, <2>3 DEF RelocateOne
<1>9. ~RelocateTwo
  BY DEF RelocateTwo
<1> QED
  BY <1>1, <1>2, <1>3, <1>4, <1>6, <1>7, <1>8, <1>9 DEF EnvStoreNext

\* mmc_env_relocate_spec with one copy: whatever writes and reads fail and wherever
\* the power is cut, the environment of a save that succeeded stays on the medium
\* until another save is asked for.
THEOREM SaveKeptSafe == EnvStoreSpec => []SaveKept
<1>1. CASE Redundant
  <2>1. SaveKept
    BY <1>1 DEF SaveKept
  <2> QED
    BY <2>1, PTL
<1>2. CASE ~Redundant
  <2>1. OneInv /\ [EnvStoreNext]_storeVars => OneInv'
    BY <1>2, OneStep
  <2>2. OneInv => SaveKept
    BY DEF OneInv, SaveKept
  <2> QED
    BY <2>1, <2>2, OneStart, PTL DEF EnvStoreSpec
<1> QED
  BY <1>1, <1>2

-----------------------------------------------------------------------------
(* The download.                                                             *)

Infos == [imgType : {"sparse", "bootloader", "normal"}, imgBurnSta : BurnSta,
          storageMediaType : {"store", "key", "mem", "spiflash"},
          nextMediaOffset : Nat, imgPktSz : Nat, imgSzDisposed : Nat,
          devHdle : BOOLEAN, partName : PartNames]

\* The bytes below n are those of the image i.
Prefix(i, m, n) == \A o \in 0..(n - 1) : InPlace(i, o, m[o])

\* While an image is burned without a failure, what was disposed of lies on the
\* media, and the next chunk goes behind it.  Only a partition image takes more
\* than one chunk.
BurnInv ==
    Burning /\ ~img.isUpload =>
        /\ Prefix(info, media, info.imgSzDisposed)
        /\ ~IsSparse(info) => info.nextMediaOffset = info.imgSzDisposed
        /\ info.imgSzDisposed = 0 \/ (OnStore(info) /\ info.imgType # "bootloader")

\* The size is that of the command, and what is uploaded is never written.
SizeInv ==
    /\ info.imgPktSz \in {0, img.total} /\ info.imgPktSz <= MaxSz
    /\ img.isUpload => Intact

IInv == ImgDownloadTypeOK /\ SizeInv /\ BurnInv /\ CompleteIntact

-----------------------------------------------------------------------------
(* The two functions that move the state of an image.                        *)

\* What optimus_storage_open leaves alone, and the state it sets.
LEMMA OpenFields ==
    ASSUME NEW i \in Infos
    PROVE  /\ StorageOpen(i) \in Infos
           /\ StorageOpen(i).imgType = i.imgType
           /\ StorageOpen(i).storageMediaType = i.storageMediaType
           /\ StorageOpen(i).nextMediaOffset = i.nextMediaOffset
           /\ StorageOpen(i).imgPktSz = i.imgPktSz
           /\ StorageOpen(i).imgSzDisposed = i.imgSzDisposed
           /\ StorageOpen(i).imgBurnSta = "BURN_ING" => i.imgBurnSta \in {"PRE_BURN", "BURN_ING"}
           /\ i.imgBurnSta \in {"PRE_BURN", "BURN_ING"} =>
                StorageOpen(i).imgBurnSta \in {"PRE_BURN", "BURN_ING"}
           /\ i.imgBurnSta \in {"EMPTY", "BURN_FAILED"} => StorageOpen(i).imgBurnSta = i.imgBurnSta
  BY Zenon DEF StorageOpen, Infos, BurnSta, OnStore

\* What optimus_storage_close leaves alone, and the state it sets.
LEMMA CloseFields ==
    ASSUME NEW i \in Infos
    PROVE  /\ StorageClose(i) \in Infos
           /\ StorageClose(i).imgType = i.imgType
           /\ StorageClose(i).storageMediaType = i.storageMediaType
           /\ StorageClose(i).nextMediaOffset = i.nextMediaOffset
           /\ StorageClose(i).imgPktSz = i.imgPktSz
           /\ StorageClose(i).imgSzDisposed = i.imgSzDisposed
           /\ i.imgBurnSta = "BURN_ING" =>
                StorageClose(i).imgBurnSta = IF i.imgSzDisposed = i.imgPktSz
                                             THEN "BURN_COMPLETE" ELSE "BURN_ING"
           /\ i.imgBurnSta = "BURN_FAILED" => StorageClose(i).imgBurnSta = "BURN_FAILED"
  BY DEF StorageClose, Infos, BurnSta

\* The struct after b bytes were written.
Taken(i, b) == [i EXCEPT !.imgSzDisposed = @ + b,
                         !.nextMediaOffset = IF OnStore(i) /\ i.imgType = "normal"
                                             THEN @ + b ELSE @]

\* The offsets that follow a write.
LEMMA TakenFields ==
    ASSUME NEW i \in Infos, NEW b \in Nat
    PROVE  /\ Taken(i, b) \in Infos
           /\ Taken(i, b).imgType = i.imgType
           /\ Taken(i, b).imgBurnSta = i.imgBurnSta
           /\ Taken(i, b).storageMediaType = i.storageMediaType
           /\ Taken(i, b).nextMediaOffset = IF OnStore(i) /\ i.imgType = "normal"
                                            THEN i.nextMediaOffset + b ELSE i.nextMediaOffset
           /\ Taken(i, b).imgPktSz = i.imgPktSz
           /\ Taken(i, b).imgSzDisposed = i.imgSzDisposed + b
<1> DEFINE next == IF OnStore(i) /\ i.imgType = "normal"
                   THEN i.nextMediaOffset + b ELSE i.nextMediaOffset
           t == [i EXCEPT !.imgSzDisposed = @ + b, !.nextMediaOffset = next]
<1>1. Taken(i, b) = t
  BY DEF Taken, Infos
<1>2. next \in Nat /\ i.imgSzDisposed + b \in Nat
  BY DEF Infos
<1> HIDE DEF next
<1>3. /\ t \in Infos /\ t.imgType = i.imgType /\ t.imgBurnSta = i.imgBurnSta
      /\ t.storageMediaType = i.storageMediaType /\ t.nextMediaOffset = next
      /\ t.imgPktSz = i.imgPktSz /\ t.imgSzDisposed = i.imgSzDisposed + b
  BY <1>2, Zenon DEF Infos
<1> QED
  BY <1>1, <1>3 DEF next

\* A struct marked as failed.
LEMMA FailedFields ==
    ASSUME NEW i \in Infos
    PROVE  LET f == [StorageClose(i) EXCEPT !.imgBurnSta = "BURN_FAILED"]
           IN /\ f \in Infos /\ f.imgBurnSta = "BURN_FAILED"
              /\ f.imgPktSz = i.imgPktSz /\ f.imgSzDisposed = i.imgSzDisposed
<1> DEFINE c == StorageClose(i)
<1>1. c \in Infos /\ c.imgPktSz = i.imgPktSz /\ c.imgSzDisposed = i.imgSzDisposed
  BY CloseFields
<1> HIDE DEF c
<1>2. LET f == [c EXCEPT !.imgBurnSta = "BURN_FAILED"]
      IN /\ f \in Infos /\ f.imgBurnSta = "BURN_FAILED"
         /\ f.imgPktSz = c.imgPktSz /\ f.imgSzDisposed = c.imgSzDisposed
  BY <1>1 DEF Infos, BurnSta
<1> QED
  BY <1>1, <1>2 DEF c

\* A write puts n bytes of data at its place and leaves the others.
LEMMA WrittenPrefix ==
    ASSUME NEW i, NEW at \in Nat, NEW n \in Nat, NEW data, at + n <= MaxSz,
           Prefix(i, media, at), MaxSz \in Nat,
           \A k \in 1..n : InPlace(i, at + k - 1, data[k])
    PROVE  Prefix(i, Written(at, n, data), at + n)
<1> SUFFICES ASSUME NEW o \in 0..(at + n - 1)
             PROVE  InPlace(i, o, Written(at, n, data)[o])
  BY DEF Prefix
<1>1. o \in Offset
  BY DEF Offset
<1>2. Written(at, n, data)[o] = IF o \in at..(at + n - 1) THEN data[o - at + 1] ELSE media[o]
  BY <1>1 DEF Written
<1>3. CASE o \in at..(at + n - 1)
  <2>1. o - at + 1 \in 1..n
    BY <1>3
  <2>2. at + (o - at + 1) - 1 = o
    BY <1>3
  <2>3. InPlace(i, o, data[o - at + 1])
    BY <2>1, <2>2
  <2> QED
    BY <1>2, <1>3, <2>3
<1>4. CASE o \notin at..(at + n - 1)
  <2>1. o \in 0..(at - 1)
    BY <1>4
  <2> QED
    BY <1>2, <1>4, <2>1 DEF Prefix
<1> QED
  BY <1>3, <1>4

\* The media keep their type when data are written.
LEMMA WrittenType ==
    ASSUME NEW at \in Nat, NEW n \in Nat, NEW data,
           media \in [Offset -> Nat \cup {Blank, Lost}],
           \A k \in 1..n : data[k] \in Nat \cup {Blank, Lost}
    PROVE  Written(at, n, data) \in [Offset -> Nat \cup {Blank, Lost}]
<1> SUFFICES ASSUME NEW o \in Offset
             PROVE  (IF o \in at..(at + n - 1) THEN data[o - at + 1] ELSE media[o])
                        \in Nat \cup {Blank, Lost}
  BY DEF Written
<1>1. o \in Int
  BY ImageAssumption DEF Offset
<1>2. CASE o \in at..(at + n - 1)
  <2>1. o - at + 1 \in 1..n
    BY <1>1, <1>2
  <2> QED
    BY <1>2, <2>1
<1>3. CASE o \notin at..(at + n - 1)
  BY <1>3
<1> QED
  BY <1>2, <1>3

-----------------------------------------------------------------------------
(* The steps.                                                                *)

\* The cleared struct.
LEMMA EmptyFields ==
    /\ EmptyInfo \in Infos /\ EmptyInfo.imgSzDisposed = 0 /\ EmptyInfo.nextMediaOffset = 0
    /\ EmptyInfo.imgBurnSta = "EMPTY" /\ EmptyInfo.imgPktSz = 0
<1> DEFINE closed == FALSE
           none == ""
           e == [imgType |-> "normal", imgBurnSta |-> "EMPTY", storageMediaType |-> "store",
                 nextMediaOffset |-> 0, imgPktSz |-> 0, imgSzDisposed |-> 0,
                 devHdle |-> closed, partName |-> none]
<1>0. none \in PartNames
  BY Zenon DEF PartNames
<1>1. closed \in BOOLEAN
  BY Zenon
<1>2. EmptyInfo = e
  BY Zenon DEF EmptyInfo
<1> HIDE DEF closed, none
<1>3. /\ e \in Infos /\ e.imgSzDisposed = 0 /\ e.nextMediaOffset = 0
      /\ e.imgBurnSta = "EMPTY" /\ e.imgPktSz = 0
  BY <1>0, <1>1 DEF Infos, BurnSta
<1> QED
  BY <1>2, <1>3, Zenon

\* The state of an image while nothing has been disposed of.
LEMMA InitInv == ImgDownloadInit => IInv
<1> SUFFICES ASSUME ImgDownloadInit PROVE IInv
  OBVIOUS
<1>1. ImgDownloadTypeOK
  <2>1. info \in Infos /\ info.imgSzDisposed <= info.imgPktSz
    BY EmptyFields DEF ImgDownloadInit
  <2>2. chunksLeft \in BOOLEAN /\ img \in Images \cup {NoImage}
    BY Zenon DEF ImgDownloadInit
  <2>3. media \in [Offset -> Nat \cup {Blank, Lost}] /\ rc \in {"ok", "fail", "verified"}
    BY DEF ImgDownloadInit
  <2> QED
    BY <2>1, <2>2, <2>3 DEF ImgDownloadTypeOK, Infos
<1>2. SizeInv
  <2>1. ~img.isUpload
    BY Zenon DEF ImgDownloadInit, NoImage
  <2>2. info.imgPktSz = 0
    BY EmptyFields DEF ImgDownloadInit
  <2> QED
    BY <2>1, <2>2, ImageAssumption DEF SizeInv
<1>3. BurnInv /\ CompleteIntact
  BY DEF ImgDownloadInit, BurnInv, Burning, CompleteIntact
<1> QED
  BY <1>1, <1>2, <1>3 DEF IInv

\* The struct a command leaves.
LEMMA ParsedInfo ==
    ASSUME NEW m \in Images, NEW partOk \in BOOLEAN, ParseImgDownloadInfo(m, partOk)
    PROVE  /\ info' \in Infos /\ info'.imgSzDisposed = 0 /\ info'.nextMediaOffset = 0
           /\ \/ info'.imgBurnSta = "EMPTY" /\ info'.imgPktSz = 0
              \/ info'.imgBurnSta = "PRE_BURN" /\ info'.imgPktSz = m.total
<1> DEFINE t == ImgType(m)
           typed == [EmptyInfo EXCEPT !.imgType = t]
           placed == [typed EXCEPT !.storageMediaType = m.media]
           named == [placed EXCEPT !.partName = m.part]
           ready == [named EXCEPT !.imgPktSz = m.total, !.imgBurnSta = "PRE_BURN"]
           Q(i) == /\ i \in Infos /\ i.imgSzDisposed = 0 /\ i.nextMediaOffset = 0
                   /\ \/ i.imgBurnSta = "EMPTY" /\ i.imgPktSz = 0
                      \/ i.imgBurnSta = "PRE_BURN" /\ i.imgPktSz = m.total
<1>1. t \in {"sparse", "bootloader", "normal"}
  BY DEF ImgType
<1>0. m.part \in PartNames
  BY Zenon DEF PartNames
<1>2. /\ m.part \in PartNames /\ m.total \in Nat
      /\ m.media # "other" => m.media \in {"store", "key", "mem", "spiflash"}
  BY <1>0, ImageAssumption
<1> HIDE DEF t
<1>3. Q(EmptyInfo) /\ Q(typed)
  <2> DEFINE e == EmptyInfo
  <2>1. Q(e)
    BY EmptyFields
  <2> HIDE DEF e
  <2>2. Q([e EXCEPT !.imgType = t])
    BY <1>1, <2>1 DEF Infos
  <2> QED
    BY <2>1, <2>2 DEF e
<1> HIDE DEF typed
<1>4. m.media # "other" => Q(placed) /\ Q(named) /\ Q(ready)
  BY <1>2, <1>3, Zenon DEF Infos, BurnSta
<1>5. \/ info' = EmptyInfo \/ info' = typed
      \/ m.media # "other" /\ info' \in {placed, named, ready}
  <2> DEFINE fmtUnknown == m.fmt = "other" /\ m.part # "bootloader"
             keyTooLarge == m.media = "key" /\ SlotSz <= m.total
             partRefused == /\ m.media \in {"store", "spiflash"} /\ m.part # "bootloader"
                            /\ ~partOk
             other == m.media = "other"
             refused == fmtUnknown \/ other \/ keyTooLarge \/ partRefused
  <2>1. info' = CASE fmtUnknown -> EmptyInfo
                  [] ~fmtUnknown /\ other -> typed
                  [] ~fmtUnknown /\ keyTooLarge -> placed
                  [] ~fmtUnknown /\ partRefused -> named
                  [] ~refused -> ready
    BY DEF ParseImgDownloadInfo, t, typed
  <2>2. (keyTooLarge \/ partRefused \/ ~refused) => ~other
    OBVIOUS
  <2>3. other => m.media = "other"
    OBVIOUS
  <2> HIDE DEF fmtUnknown, keyTooLarge, partRefused, other, typed, placed, named, ready
  <2> QED
    BY <2>1, <2>2, <2>3, Zenon DEF other
<1> HIDE DEF typed, placed, named, ready
<1>6. Q(info')
  BY <1>3, <1>4, <1>5
<1> QED
  BY <1>6

\* A command starts anew: nothing is disposed of, or the struct is empty.
LEMMA CommandInv == IInv /\ Command => IInv'
<1> SUFFICES ASSUME IInv, NEW m \in Images, NEW partOk \in BOOLEAN,
                    ParseImgDownloadInfo(m, partOk)
             PROVE  IInv'
  BY DEF Command
<1>1. /\ info' \in Infos /\ info'.imgSzDisposed = 0 /\ info'.nextMediaOffset = 0
      /\ \/ info'.imgBurnSta = "EMPTY" /\ info'.imgPktSz = 0
         \/ info'.imgBurnSta = "PRE_BURN" /\ info'.imgPktSz = m.total
  BY ParsedInfo
<1>2. /\ img' = m /\ chunksLeft' = chunksLeft /\ rc' \in {"ok", "fail"}
      /\ media' = [o \in Offset |-> IF m.isUpload /\ o < m.total THEN o ELSE Blank]
  BY DEF ParseImgDownloadInfo
<1>3. m.total \in 1..MaxSz /\ MaxSz \in Nat
  BY ImageAssumption
<1>4. media' \in [Offset -> Nat \cup {Blank, Lost}]
  BY <1>2, <1>3 DEF Offset
<1>5. ImgDownloadTypeOK'
  BY <1>1, <1>2, <1>3, <1>4 DEF IInv, ImgDownloadTypeOK, Infos
<1>6. SizeInv'
  <2>1. ASSUME m.isUpload, NEW o \in 0..(m.total - 1)
        PROVE  media'[o] = o
    BY <1>2, <1>3, <2>1 DEF Offset
  <2>2. m.isUpload => Intact'
    BY <1>1, <1>3, <2>1 DEF Intact
  <2> QED
    BY <1>1, <1>2, <1>3, <2>2 DEF SizeInv
<1>7. BurnInv'
  BY <1>1 DEF BurnInv, Prefix
<1>8. CompleteIntact'
  BY <1>1 DEF CompleteIntact
<1> QED
  BY <1>5, <1>6, <1>7, <1>8 DEF IInv

\* A call that fails leaves the size, what is disposed of and the image alone:
\* after it nothing is claimed of the media but of an upload's.
LEMMA FailInv ==
    ASSUME IInv, rc' = "fail", img' = img, chunksLeft' \in BOOLEAN,
           info' \in Infos, info'.imgPktSz = info.imgPktSz,
           info'.imgSzDisposed <= info'.imgPktSz,
           media' \in [Offset -> Nat \cup {Blank, Lost}], img.isUpload => media' = media
    PROVE  IInv'
<1>1. ImgDownloadTypeOK'
  BY DEF IInv, ImgDownloadTypeOK, Infos
<1>2. SizeInv'
  BY DEF IInv, SizeInv, Intact
<1>3. BurnInv' /\ CompleteIntact'
  BY DEF BurnInv, Burning, CompleteIntact
<1> QED
  BY <1>1, <1>2, <1>3 DEF IInv

\* An image whose storage does not open.
LEMMA NotOpenedInv ==
    ASSUME IInv, info' = StorageOpen(info), rc' = "fail", UNCHANGED <<chunksLeft, img, media>>
    PROVE  IInv'
<1>1. info \in Infos /\ chunksLeft \in BOOLEAN /\ info.imgSzDisposed <= info.imgPktSz
      /\ media \in [Offset -> Nat \cup {Blank, Lost}]
  BY DEF IInv, ImgDownloadTypeOK, Infos
<1>2. info' \in Infos /\ info'.imgPktSz = info.imgPktSz
      /\ info'.imgSzDisposed = info.imgSzDisposed
  BY <1>1, OpenFields
<1> QED
  BY <1>1, <1>2, FailInv

\* An image whose write failed.
LEMMA MarkedInv ==
    ASSUME IInv, info' = [StorageClose(StorageOpen(info)) EXCEPT !.imgBurnSta = "BURN_FAILED"],
           rc' = "fail", img' = img, chunksLeft' \in BOOLEAN,
           media' \in [Offset -> Nat \cup {Blank, Lost}], img.isUpload => media' = media
    PROVE  IInv'
<1>1. info \in Infos /\ info.imgSzDisposed <= info.imgPktSz
  BY DEF IInv, ImgDownloadTypeOK, Infos
<1>2. StorageOpen(info) \in Infos /\ StorageOpen(info).imgPktSz = info.imgPktSz
      /\ StorageOpen(info).imgSzDisposed = info.imgSzDisposed
  BY <1>1, OpenFields
<1>3. info' \in Infos /\ info'.imgPktSz = info.imgPktSz
      /\ info'.imgSzDisposed = info.imgSzDisposed
  BY <1>2, FailedFields
<1> QED
  BY <1>1, <1>3, FailInv

\* The state after burnSz bytes of an image were written behind the others.
LEMMA WrittenInv ==
    ASSUME IInv, NEW n \in Nat, NEW burnSz \in Nat, Burning, ~img.isUpload,
           ~IsSparse(info) => n <= Remaining,
           ~OnStore(info) => n = Remaining,
           WriteAllowed(StorageOpen(info), n),
           burnSz \in Takes(StorageOpen(info), n),
           info' = StorageClose(Taken(StorageOpen(info), burnSz)),
           chunksLeft' \in BOOLEAN, img' = img,
           NEW gone \in Losses(StorageOpen(info), Chunk(n)),
           media' = Written(ChunkOffset(info), burnSz,
                            [k \in 1..burnSz |-> IF k \in gone THEN Lost
                                                 ELSE IF k <= n THEN Chunk(n)[k] ELSE Blank]),
           rc' = IF burnSz <= n THEN "ok" ELSE "fail"
    PROVE  IInv'
<1> DEFINE opened == StorageOpen(info)
           taken == Taken(opened, burnSz)
           at == info.imgSzDisposed
           data == [k \in 1..burnSz |-> IF k \in gone THEN Lost
                                        ELSE IF k <= n THEN Chunk(n)[k] ELSE Blank]
<1>1. /\ info \in Infos /\ at \in Nat /\ info.imgPktSz \in Nat /\ at <= info.imgPktSz
      /\ media \in [Offset -> Nat \cup {Blank, Lost}] /\ info.imgPktSz <= MaxSz
      /\ MaxSz \in Nat /\ info.nextMediaOffset \in Nat
  BY ImageAssumption DEF IInv, ImgDownloadTypeOK, SizeInv, Infos
<1>2. /\ opened \in Infos /\ opened.imgType = info.imgType /\ opened.imgPktSz = info.imgPktSz
      /\ opened.storageMediaType = info.storageMediaType
      /\ opened.nextMediaOffset = info.nextMediaOffset /\ opened.imgSzDisposed = at
  BY <1>1, OpenFields
<1>3. opened.imgBurnSta = "BURN_ING"
  BY Zenon DEF WriteAllowed
<1>4. IsSparse(opened) = IsSparse(info) /\ OnStore(opened) = OnStore(info)
  BY <1>2, Zenon DEF IsSparse, OnStore
<1>5. at + burnSz <= info.imgPktSz
  <2>1. CASE IsSparse(info)
    BY <1>2, <1>4, <2>1 DEF Takes
  <2>2. CASE ~IsSparse(info)
    BY <1>1, <1>2, <1>4, <2>2 DEF Takes, Remaining
  <2> QED
    BY <2>1, <2>2
<1>6. /\ Prefix(info, media, at)
      /\ ~IsSparse(info) => info.nextMediaOffset = at
      /\ at = 0 \/ (OnStore(info) /\ info.imgType # "bootloader")
  BY DEF IInv, BurnInv
<1>7. ChunkOffset(info) = at
  BY <1>6 DEF ChunkOffset
<1>8. \A k \in 1..burnSz :
         /\ data[k] \in {Lost, IF k <= n THEN at + k - 1 ELSE Blank}
         /\ data[k] = Lost => IsSparse(info) /\ at + k - 1 \in FillBytes
  <2> TAKE k \in 1..burnSz
  <2>1. k <= Remaining /\ k \in Nat
    BY <1>1, <1>5 DEF Remaining
  <2>2. data[k] = IF k \in gone THEN Lost ELSE IF k <= n THEN Chunk(n)[k] ELSE Blank
    OBVIOUS
  <2>3. k <= n => Chunk(n)[k] = at + k - 1
    BY <2>1 DEF Chunk
  <2>4. at + k - 1 # Lost /\ Blank # Lost
    BY <1>1 DEF Lost, Blank
  <2>5. k \in gone => IsSparse(info) /\ k <= n /\ Chunk(n)[k] \in FillBytes
    <3>1. k \in gone => IsSparse(info) /\ k \in DOMAIN Chunk(n) /\ Chunk(n)[k] \in FillBytes
      BY <1>4, Zenon DEF Losses
    <3>2. DOMAIN Chunk(n) = 1..n
      BY DEF Chunk
    <3> QED
      BY <3>1, <3>2
  <2> HIDE DEF data, at
  <2> QED
    BY <2>2, <2>3, <2>4, <2>5
<1>9. media' \in [Offset -> Nat \cup {Blank, Lost}]
  <2>1. \A k \in 1..burnSz : data[k] \in Nat \cup {Blank, Lost}
    <3> HIDE DEF data, at
    <3> QED
      BY <1>1, <1>8
  <2> HIDE DEF data
  <2> QED
    BY <1>1, <1>7, <2>1, WrittenType DEF data
<1>10. /\ taken \in Infos /\ taken.imgType = info.imgType /\ taken.imgBurnSta = "BURN_ING"
       /\ taken.storageMediaType = info.storageMediaType /\ taken.imgPktSz = info.imgPktSz
       /\ taken.nextMediaOffset = IF OnStore(info) /\ info.imgType = "normal"
                                  THEN info.nextMediaOffset + burnSz ELSE info.nextMediaOffset
       /\ taken.imgSzDisposed = at + burnSz
  <2> HIDE DEF opened, at
  <2>1. /\ taken \in Infos /\ taken.imgType = opened.imgType
        /\ taken.imgBurnSta = opened.imgBurnSta
        /\ taken.storageMediaType = opened.storageMediaType
        /\ taken.nextMediaOffset = IF OnStore(opened) /\ opened.imgType = "normal"
                                   THEN opened.nextMediaOffset + burnSz ELSE opened.nextMediaOffset
        /\ taken.imgPktSz = opened.imgPktSz
        /\ taken.imgSzDisposed = opened.imgSzDisposed + burnSz
    BY <1>2, TakenFields, ZenonT(60)
  <2> HIDE DEF taken
  <2> QED
    BY <1>2, <1>3, <1>4, <2>1, ZenonT(60)
<1>11. /\ info' \in Infos /\ info'.imgType = info.imgType
       /\ info'.storageMediaType = info.storageMediaType /\ info'.imgPktSz = info.imgPktSz
       /\ info'.nextMediaOffset = taken.nextMediaOffset /\ info'.imgSzDisposed = at + burnSz
       /\ info'.imgBurnSta = IF at + burnSz = info.imgPktSz THEN "BURN_COMPLETE" ELSE "BURN_ING"
  <2>1. info' = StorageClose(taken)
    BY Zenon
  <2> HIDE DEF taken, at, opened
  <2>2. /\ info' \in Infos /\ info'.imgType = taken.imgType
        /\ info'.storageMediaType = taken.storageMediaType
        /\ info'.imgPktSz = taken.imgPktSz
        /\ info'.nextMediaOffset = taken.nextMediaOffset
        /\ info'.imgSzDisposed = taken.imgSzDisposed
        /\ info'.imgBurnSta = IF taken.imgSzDisposed = taken.imgPktSz
                              THEN "BURN_COMPLETE" ELSE "BURN_ING"
    BY <1>10, <2>1, CloseFields, ZenonT(60)
  <2> QED
    BY <1>10, <2>2, ZenonT(60)
<1>12. CASE burnSz > n
  BY <1>1, <1>5, <1>9, <1>11, <1>12, FailInv
<1>13. CASE burnSz <= n
  <2>1. Prefix(info, media', at + burnSz)
    <3>1. \A k \in 1..burnSz : InPlace(info, at + k - 1, data[k])
      <4> HIDE DEF data, at
      <4> QED
        BY <1>1, <1>8, <1>13 DEF InPlace
    <3>2. at + burnSz <= MaxSz
      BY <1>1, <1>5
    <3> HIDE DEF data, at
    <3> QED
      BY <1>1, <1>6, <1>7, <3>1, <3>2, WrittenPrefix, Zenon DEF data
  <2>2. ImgDownloadTypeOK'
    BY <1>1, <1>5, <1>9, <1>11 DEF IInv, ImgDownloadTypeOK, Infos
  <2>3. SizeInv'
    BY <1>1, <1>11 DEF IInv, SizeInv
  <2>a. \A o, b : InPlace(info', o, b) = InPlace(info, o, b)
    BY <1>11, Zenon DEF InPlace, IsSparse, OnStore
  <2>b. Prefix(info', media', at + burnSz)
    BY <2>1, <2>a, Zenon DEF Prefix
  <2>4. CompleteIntact'
    BY <1>1, <1>11, <2>b DEF CompleteIntact, Placed, Prefix
  <2>5. BurnInv'
    <3> SUFFICES ASSUME at + burnSz # info.imgPktSz
                 PROVE  /\ Prefix(info', media', info'.imgSzDisposed)
                        /\ ~IsSparse(info') => info'.nextMediaOffset = info'.imgSzDisposed
                        /\ OnStore(info') /\ info'.imgType # "bootloader"
      BY <1>11 DEF BurnInv, Burning
    <3>1. OnStore(info)
      <4> SUFFICES ASSUME ~OnStore(info) PROVE FALSE
        OBVIOUS
      <4>1. burnSz = n /\ n = info.imgPktSz - at
        BY <1>4 DEF Takes, IsSparse, Remaining
      <4> QED
        BY <1>1, <4>1
    <3>2. info.imgType # "bootloader"
      <4> SUFFICES ASSUME info.imgType = "bootloader" PROVE FALSE
        OBVIOUS
      <4>1. info.imgPktSz <= n /\ burnSz = n /\ ~IsSparse(info)
        BY <1>2, <1>4, <3>1 DEF WriteAllowed, Takes, IsSparse
      <4>2. n <= info.imgPktSz - at
        BY <4>1 DEF Remaining
      <4> QED
        BY <1>1, <4>1, <4>2
    <3>3. info.imgType \in {"sparse", "normal"}
      BY <1>1, <3>2 DEF Infos
    <3>4. ~IsSparse(info') => info'.nextMediaOffset = info'.imgSzDisposed
      BY <1>1, <1>6, <1>10, <1>11, <3>1, <3>3 DEF IsSparse, OnStore
    <3> QED
      BY <1>11, <2>b, <3>1, <3>2, <3>4 DEF OnStore, Prefix
  <2> QED
    BY <2>2, <2>3, <2>4, <2>5 DEF IInv
<1> QED
  BY <1>12, <1>13, <1>1

\* Any call of optimus_func_download_image with n bytes that a caller makes.
LEMMA DataInv ==
    ASSUME IInv, ~img.isUpload, NEW data \in Seq(Nat \cup {Blank}), NEW burnSz \in Nat,
           DownloadImgData(data, burnSz),
           info.imgBurnSta \in {"PRE_BURN", "BURN_ING"} =>
              /\ Burning /\ data = Chunk(Len(data))
              /\ ~IsSparse(info) => Len(data) <= Remaining
              /\ ~OnStore(info) => Len(data) = Remaining
    PROVE  IInv'
<1> DEFINE opened == StorageOpen(info)
           n == Len(data)
<1>1. /\ info \in Infos /\ chunksLeft \in BOOLEAN /\ n \in Nat
      /\ media \in [Offset -> Nat \cup {Blank, Lost}]
  BY DEF IInv, ImgDownloadTypeOK, Infos
<1>2. CASE /\ info' = opened /\ rc' = "fail" /\ UNCHANGED <<chunksLeft, img, media>>
  BY <1>2, NotOpenedInv
<1>3. CASE /\ info' = [StorageClose(opened) EXCEPT !.imgBurnSta = "BURN_FAILED"]
           /\ chunksLeft' = (chunksLeft \/ FirstSparseOpen(info))
           /\ media' \in IF WriteAllowed(opened, n)
                         THEN {media, Written(ChunkOffset(info), n, [k \in 1..n |-> Blank])}
                         ELSE {media}
           /\ rc' = "fail" /\ UNCHANGED img
  <2>1. chunksLeft' \in BOOLEAN
    BY <1>3, Zenon
  <2>2. ChunkOffset(info) \in Nat
    BY <1>1 DEF ChunkOffset, Infos
  <2>3. Written(ChunkOffset(info), n, [k \in 1..n |-> Blank]) \in [Offset -> Nat \cup {Blank, Lost}]
    <3> DEFINE blanks == [k \in 1..n |-> Blank]
    <3>1. \A k \in 1..n : blanks[k] \in Nat \cup {Blank, Lost}
      OBVIOUS
    <3> HIDE DEF blanks
    <3>2. Written(ChunkOffset(info), n, blanks) \in [Offset -> Nat \cup {Blank, Lost}]
      BY <1>1, <2>2, <3>1, WrittenType
    <3> QED
      BY <3>2, Zenon DEF blanks
  <2>4. media' \in [Offset -> Nat \cup {Blank, Lost}]
    BY <1>1, <1>3, <2>3, Zenon
  <2> QED
    BY <1>3, <2>1, <2>4, MarkedInv
<1>4. CASE /\ WriteAllowed(opened, n) /\ burnSz \in Takes(opened, n)
           /\ info' = StorageClose(Taken(opened, burnSz))
           /\ chunksLeft' \in BOOLEAN
           /\ \E gone \in Losses(opened, data) :
                 media' = Written(ChunkOffset(info), burnSz,
                                  [k \in 1..burnSz |-> IF k \in gone THEN Lost
                                                       ELSE IF k <= n THEN data[k] ELSE Blank])
           /\ rc' = IF burnSz <= n THEN "ok" ELSE "fail"
           /\ UNCHANGED img
  <2>1. opened.imgBurnSta = "BURN_ING"
    BY <1>4 DEF WriteAllowed
  <2>2. info.imgBurnSta \in {"PRE_BURN", "BURN_ING"}
    BY <1>1, <2>1, OpenFields
  <2>3. Burning /\ data = Chunk(n)
    BY <2>2
  <2>4. PICK gone \in Losses(opened, Chunk(n)) :
           media' = Written(ChunkOffset(info), burnSz,
                            [k \in 1..burnSz |-> IF k \in gone THEN Lost
                                                 ELSE IF k <= n THEN Chunk(n)[k] ELSE Blank])
    BY <1>4, <2>3, Zenon
  <2>5. (~IsSparse(info) => n <= Remaining) /\ (~OnStore(info) => n = Remaining)
    BY <2>2
  <2> QED
    BY <1>1, <1>4, <2>3, <2>4, <2>5, WrittenInv
<1>5. \/ /\ info' = opened /\ rc' = "fail" /\ UNCHANGED <<chunksLeft, img, media>>
      \/ /\ info' = [StorageClose(opened) EXCEPT !.imgBurnSta = "BURN_FAILED"]
         /\ chunksLeft' = (chunksLeft \/ FirstSparseOpen(info))
         /\ media' \in IF WriteAllowed(opened, n)
                       THEN {media, Written(ChunkOffset(info), n, [k \in 1..n |-> Blank])}
                       ELSE {media}
         /\ rc' = "fail" /\ UNCHANGED img
      \/ /\ WriteAllowed(opened, n) /\ burnSz \in Takes(opened, n)
         /\ info' = StorageClose(Taken(opened, burnSz))
         /\ chunksLeft' \in BOOLEAN
         /\ \E gone \in Losses(opened, data) :
               media' = Written(ChunkOffset(info), burnSz,
                                [k \in 1..burnSz |-> IF k \in gone THEN Lost
                                                     ELSE IF k <= n THEN data[k] ELSE Blank])
         /\ rc' = IF burnSz <= n THEN "ok" ELSE "fail"
         /\ UNCHANGED img
  BY ZenonT(30) DEF DownloadImgData, Taken
<1> QED
  BY <1>2, <1>3, <1>4, <1>5

\* The chunks of the buffer manager.
LEMMA DownloadInv == IInv /\ Download => IInv'
<1> SUFFICES ASSUME IInv, Download PROVE IInv'
  OBVIOUS
<1>1. Burning /\ ~img.isUpload
  BY DEF Download
<1>2. PICK n \in IF IsSparse(info) THEN 1..MaxSz
                 ELSE IF OnStore(info) THEN 1..Remaining ELSE {Remaining} :
        \E burnSz \in 0..(n + FillOverrun) : DownloadImgData(Chunk(n), burnSz)
  BY DEF Download
<1>3. /\ Remaining \in Nat /\ MaxSz \in Nat /\ info.imgSzDisposed \in Nat
  BY ImageAssumption DEF IInv, ImgDownloadTypeOK, Remaining
<1>4. n \in Nat /\ (~IsSparse(info) => n <= Remaining) /\ (~OnStore(info) => n = Remaining)
  BY <1>2, <1>3 DEF IsSparse
<1>5. PICK burnSz \in 0..(n + FillOverrun) : DownloadImgData(Chunk(n), burnSz)
  BY <1>2
<1>6. burnSz \in Nat
  BY <1>4, <1>5 DEF FillOverrun
<1>7. Chunk(n) \in Seq(Nat \cup {Blank}) /\ Len(Chunk(n)) = n
  <2>1. \A k \in 1..n : (IF k <= Remaining THEN info.imgSzDisposed + k - 1 ELSE Blank)
                          \in Nat \cup {Blank}
    BY <1>3, <1>4
  <2> QED
    BY <1>4, <2>1 DEF Chunk
<1> DEFINE c == Chunk(n)
<1>8. c \in Seq(Nat \cup {Blank}) /\ Len(c) = n /\ c = Chunk(Len(c))
  BY <1>7
<1>9. DownloadImgData(c, burnSz)
  BY <1>5
<1> HIDE DEF c
<1> QED
  BY <1>1, <1>4, <1>6, <1>8, <1>9, DataInv

\* Data that come too late.
LEMMA LateDataInv == IInv /\ LateData => IInv'
<1> SUFFICES ASSUME IInv, LateData PROVE IInv'
  OBVIOUS
<1>1. PICK burnSz \in 0..1 : DownloadImgData(<<Blank>>, burnSz)
  BY DEF LateData
<1> DEFINE d == <<Blank>>
<1>2. d \in Seq(Nat \cup {Blank})
  OBVIOUS
<1>3. DownloadImgData(d, burnSz) /\ burnSz \in Nat
  BY <1>1
<1>4. info.imgBurnSta \notin {"PRE_BURN", "BURN_ING"} /\ ~img.isUpload
  BY DEF LateData
<1> HIDE DEF d
<1> QED
  BY <1>2, <1>3, <1>4, DataInv

\* A read moves both offsets.
LEMMA DumpedFields ==
    ASSUME NEW i \in Infos, NEW n \in Nat
    PROVE  /\ Dumped(i, n) \in Infos /\ Dumped(i, n).imgPktSz = i.imgPktSz
           /\ Dumped(i, n).imgSzDisposed = i.imgSzDisposed + n
<1> DEFINE a == i.imgSzDisposed + n
           b == i.nextMediaOffset + n
           d == [i EXCEPT !.imgSzDisposed = a, !.nextMediaOffset = b]
<1>1. a \in Nat /\ b \in Nat
  BY DEF Infos
<1>2. Dumped(i, n) = d
  BY DEF Dumped, Infos
<1> HIDE DEF a, b
<1>3. d \in Infos /\ d.imgPktSz = i.imgPktSz /\ d.imgSzDisposed = a
  BY <1>1, Zenon DEF Infos
<1> QED
  BY <1>2, <1>3 DEF a

\* An upload only reads.
LEMMA UploadInv == IInv /\ Upload => IInv'
<1> SUFFICES ASSUME IInv, Upload PROVE IInv'
  OBVIOUS
<1>1. PICK n \in 1..Remaining : DumpStorageData(n)
  BY DEF Upload
<1>2. /\ img.isUpload /\ info \in Infos /\ chunksLeft \in BOOLEAN
      /\ info.imgSzDisposed \in Nat /\ info.imgPktSz \in Nat
      /\ info.imgSzDisposed <= info.imgPktSz
      /\ media \in [Offset -> Nat \cup {Blank, Lost}] /\ Intact
  BY DEF Upload, IInv, ImgDownloadTypeOK, SizeInv, Infos
<1>3. UNCHANGED <<chunksLeft, img, media>>
  BY <1>1 DEF DumpStorageData
<1>4. CASE info' = StorageOpen(info) /\ rc' = "fail"
  BY <1>3, <1>4, NotOpenedInv
<1>5. CASE /\ info' = [StorageClose(StorageOpen(info)) EXCEPT !.imgBurnSta = "BURN_FAILED"]
           /\ rc' = "fail"
  BY <1>2, <1>3, <1>5, MarkedInv
<1>6. CASE info' = StorageClose(Dumped(StorageOpen(info), n)) /\ rc' = "ok"
  <2>1. /\ StorageOpen(info) \in Infos /\ StorageOpen(info).imgPktSz = info.imgPktSz
        /\ StorageOpen(info).imgSzDisposed = info.imgSzDisposed
    BY <1>2, OpenFields
  <2>2. n \in Nat /\ info.imgSzDisposed + n <= info.imgPktSz
    BY <1>1, <1>2 DEF Remaining
  <2>3. /\ Dumped(StorageOpen(info), n) \in Infos
        /\ Dumped(StorageOpen(info), n).imgPktSz = info.imgPktSz
        /\ Dumped(StorageOpen(info), n).imgSzDisposed = info.imgSzDisposed + n
    BY <2>1, <2>2, DumpedFields
  <2>4. /\ info' \in Infos /\ info'.imgPktSz = info.imgPktSz
        /\ info'.imgSzDisposed = info.imgSzDisposed + n
    BY <1>6, <2>3, CloseFields
  <2>5. ImgDownloadTypeOK'
    BY <1>2, <1>3, <1>6, <2>2, <2>4 DEF IInv, ImgDownloadTypeOK, Infos
  <2>6. SizeInv' /\ Intact'
    BY <1>2, <1>3, <2>4 DEF IInv, SizeInv, Intact
  <2>7. BurnInv' /\ CompleteIntact'
    BY <1>2, <1>3, <2>6 DEF BurnInv, CompleteIntact, Intact, Placed, InPlace
  <2> QED
    BY <2>5, <2>6, <2>7 DEF IInv
<1> QED
  BY <1>1, <1>4, <1>5, <1>6, Zenon DEF DumpStorageData

\* What a verification leaves of the struct.
LEMMA VerifiedInfo ==
    ASSUME NEW rest \in Nat, NEW readOk \in BOOLEAN, info \in Infos, Verify(rest, readOk)
    PROVE  \/ info' = info
           \/ /\ info' \in Infos /\ info'.imgPktSz = info.imgPktSz
              /\ info'.imgSzDisposed = rest /\ info'.imgType = info.imgType
              /\ info'.storageMediaType = info.storageMediaType
<1> DEFINE o == StorageOpen(info)
           l == [o EXCEPT !.imgSzDisposed = rest]
<1>1. /\ o \in Infos /\ o.imgPktSz = info.imgPktSz
      /\ o.imgType = info.imgType /\ o.storageMediaType = info.storageMediaType
  BY OpenFields
<1>2. info' = info \/ info' = StorageClose(l)
  BY Zenon DEF Verify
<1> HIDE DEF o
<1>3. /\ l \in Infos /\ l.imgPktSz = info.imgPktSz /\ l.imgSzDisposed = rest
      /\ l.imgType = info.imgType /\ l.storageMediaType = info.storageMediaType
  BY <1>1 DEF Infos
<1> HIDE DEF l
<1>4. /\ StorageClose(l) \in Infos /\ StorageClose(l).imgPktSz = info.imgPktSz
      /\ StorageClose(l).imgSzDisposed = rest /\ StorageClose(l).imgType = info.imgType
      /\ StorageClose(l).storageMediaType = info.storageMediaType
  BY <1>3, CloseFields
<1> QED
  BY <1>2, <1>4

\* A verification answers "verified" only for an image that is whole.
LEMMA VerifyCallInv ==
    ASSUME IInv, NEW rest \in 0..info.imgPktSz, NEW readOk \in BOOLEAN, Verify(rest, readOk)
    PROVE  IInv'
<1>1. /\ info \in Infos /\ chunksLeft \in BOOLEAN /\ info.imgPktSz \in Nat
      /\ info.imgSzDisposed <= info.imgPktSz /\ media \in [Offset -> Nat \cup {Blank, Lost}]
  BY DEF IInv, ImgDownloadTypeOK, Infos
<1>2. UNCHANGED <<chunksLeft, img, media>>
  BY DEF Verify
<1>3. rc' = "fail" \/ (rc' = "verified" /\ Placed)
  BY Zenon DEF Verify
<1>4. /\ info' \in Infos /\ info'.imgPktSz = info.imgPktSz
      /\ info'.imgSzDisposed <= info'.imgPktSz /\ info'.imgType = info.imgType
      /\ info'.storageMediaType = info.storageMediaType
  <2>1. rest \in Nat /\ rest <= info.imgPktSz
    BY <1>1
  <2>2. \/ info' = info
        \/ /\ info' \in Infos /\ info'.imgPktSz = info.imgPktSz
           /\ info'.imgSzDisposed = rest /\ info'.imgType = info.imgType
           /\ info'.storageMediaType = info.storageMediaType
    BY <1>1, <2>1, VerifiedInfo
  <2> QED
    BY <1>1, <2>1, <2>2
<1>7. \A o, b : InPlace(info', o, b) = InPlace(info, o, b)
  BY <1>4, Zenon DEF InPlace, IsSparse, OnStore
<1>5. CASE rc' = "fail"
  BY <1>1, <1>2, <1>4, <1>5, FailInv
<1>6. CASE rc' = "verified" /\ Placed
  <2>1. ImgDownloadTypeOK'
    BY <1>1, <1>2, <1>4, <1>6 DEF IInv, ImgDownloadTypeOK, Infos
  <2>2. SizeInv'
    BY <1>2, <1>4, <1>6 DEF IInv, SizeInv, Intact
  <2>a. Placed'
    BY <1>2, <1>4, <1>6, <1>7, Zenon DEF Placed
  <2>3. BurnInv' /\ CompleteIntact'
    BY <1>6, <2>a DEF BurnInv, Burning, CompleteIntact
  <2> QED
    BY <2>1, <2>2, <2>3 DEF IInv
<1> QED
  BY <1>3, <1>5, <1>6

\* The same for each of the readings VerifyMedia allows.
LEMMA VerifyInv == IInv /\ VerifyMedia => IInv'
<1> SUFFICES ASSUME IInv, VerifyMedia PROVE IInv'
  OBVIOUS
<1>1. 0 \in 0..info.imgPktSz
  BY DEF IInv, ImgDownloadTypeOK
<1>2. CASE Verify(0, TRUE)
  BY <1>1, <1>2, VerifyCallInv, Zenon
<1>3. CASE \E rest \in 0..info.imgPktSz : Verify(rest, FALSE)
  BY <1>3, VerifyCallInv, Zenon
<1> QED
  BY <1>2, <1>3, Zenon DEF VerifyMedia

\* Every step keeps the invariant.
LEMMA StepInv == IInv /\ [ImgDownloadNext]_imgVars => IInv'
<1>1. IInv /\ UNCHANGED imgVars => IInv'
  BY DEF imgVars, IInv, ImgDownloadTypeOK, SizeInv, BurnInv, CompleteIntact, Burning, Intact, Placed,
         InPlace, Prefix, IsSparse, OnStore
<1> QED
  BY <1>1, CommandInv, DownloadInv, UploadInv, LateDataInv, VerifyInv DEF ImgDownloadNext

-----------------------------------------------------------------------------
(* The results.                                                              *)

\* The inductive invariant of the image state machine holds in every behaviour:
\* the struct has its type, and what it counts as disposed of lies on the media.
THEOREM Invariance == ImgDownloadSpec => []IInv
  BY InitInv, StepInv, PTL DEF ImgDownloadSpec

\* An image the state machine calls complete lies on the media whole, for every
\* size and every cut into chunks.
THEOREM CompleteSafe == ImgDownloadSpec => []CompleteIntact
<1>1. IInv => CompleteIntact
  BY DEF IInv
<1> QED
  BY <1>1, Invariance, PTL

\* optimus_storage_write takes data only while a command is being burned: what
\* comes before, after or during verification never reaches the media.
THEOREM WrittenSafe == ImgDownloadSpec => WrittenWhileBurning
<1>1. ASSUME IInv, ImgDownloadNext, media' # media
      PROVE  (info.imgBurnSta \in {"PRE_BURN", "BURN_ING"} /\ rc = "ok") \/ Command
  <2>1. ~Upload /\ ~VerifyMedia
    <3>1. (\A n : ~DumpStorageData(n)) /\ (\A rest, readOk : ~Verify(rest, readOk))
      BY <1>1, Zenon DEF DumpStorageData, Verify
    <3> QED
      BY <3>1, Zenon DEF Upload, VerifyMedia
  <2>2. Download => info.imgBurnSta \in {"PRE_BURN", "BURN_ING"} /\ rc = "ok"
    BY DEF Download, Burning
  <2>3. ~LateData
    <3> SUFFICES ASSUME LateData PROVE FALSE
      OBVIOUS
    <3>1. PICK burnSz \in 0..1 : DownloadImgData(<<Blank>>, burnSz)
      BY DEF LateData
    <3>2. WriteAllowed(StorageOpen(info), Len(<<Blank>>))
      BY <1>1, <3>1, Zenon DEF DownloadImgData
    <3>3. info \in Infos
      BY <1>1 DEF IInv, ImgDownloadTypeOK, Infos
    <3>4. info.imgBurnSta \in {"PRE_BURN", "BURN_ING"}
      BY <3>2, <3>3, OpenFields DEF WriteAllowed
    <3> QED
      BY <3>4 DEF LateData
  <2> QED
    BY <1>1, <2>1, <2>2, <2>3 DEF ImgDownloadNext
<1>2. ASSUME IInv, [ImgDownloadNext]_imgVars
      PROVE  [media' # media => \/ info.imgBurnSta \in {"PRE_BURN", "BURN_ING"} /\ rc = "ok"
                                \/ Command]_imgVars
  BY <1>1, <1>2
<1> QED
  BY <1>2, Invariance, PTL DEF ImgDownloadSpec, WrittenWhileBurning

\* Only a new command leaves BURN_FAILED: no chunk, read or verification makes a
\* failed image complete.
THEOREM FailedSafe == ImgDownloadSpec => FailedSticks
<1>1. ASSUME IInv, ImgDownloadNext, info.imgBurnSta = "BURN_FAILED"
      PROVE  (info'.imgBurnSta = "BURN_FAILED" /\ rc' = "fail") \/ Command
  <2>1. ~Upload /\ ~Download
    BY <1>1 DEF Upload, Download, Burning
  <2>2. info \in Infos
    BY <1>1 DEF IInv, ImgDownloadTypeOK, Infos
  <2>3. StorageOpen(info) \in Infos /\ StorageOpen(info).imgBurnSta = "BURN_FAILED"
    BY <1>1, <2>2, OpenFields
  <2>4. LateData => info'.imgBurnSta = "BURN_FAILED" /\ rc' = "fail"
    <3> SUFFICES ASSUME LateData
                 PROVE  info'.imgBurnSta = "BURN_FAILED" /\ rc' = "fail"
      OBVIOUS
    <3>1. PICK burnSz \in 0..1 : DownloadImgData(<<Blank>>, burnSz)
      BY DEF LateData
    <3>2. ~WriteAllowed(StorageOpen(info), Len(<<Blank>>))
      BY <2>3 DEF WriteAllowed
    <3>3. /\ rc' = "fail"
          /\ \/ info' = StorageOpen(info)
             \/ info' = [StorageClose(StorageOpen(info)) EXCEPT !.imgBurnSta = "BURN_FAILED"]
      BY <3>1, <3>2, Zenon DEF DownloadImgData
    <3> QED
      BY <2>3, <3>3, FailedFields, Zenon
  <2>5. VerifyMedia => info' = info /\ rc' = "fail"
    <3>1. ASSUME NEW rest, NEW readOk, Verify(rest, readOk)
          PROVE  info' = info /\ rc' = "fail"
      <4>1. info.imgBurnSta # "BURN_COMPLETE"
        BY <1>1
      <4> QED
        BY <3>1, <4>1, Zenon DEF Verify
    <3> QED
      BY <3>1, Zenon DEF VerifyMedia
  <2> QED
    BY <1>1, <2>1, <2>4, <2>5 DEF ImgDownloadNext
<1>2. ASSUME IInv, [ImgDownloadNext]_imgVars
      PROVE  [info.imgBurnSta = "BURN_FAILED" =>
                (info'.imgBurnSta = "BURN_FAILED" /\ rc' = "fail") \/ Command]_imgVars
  BY <1>1, <1>2
<1> QED
  BY <1>2, Invariance, PTL DEF ImgDownloadSpec, FailedSticks
=============================================================================
