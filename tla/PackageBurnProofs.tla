------------------------- MODULE PackageBurnProofs -------------------------
(***************************************************************************)
(* For every set of partitions, every set of packages and any number of    *)
(* power cuts: the inductive invariant of PackageBurn, and the properties  *)
(* that follow from it.                                                    *)
(***************************************************************************)
EXTENDS PackageBurn, TLAPS

\* t is the concatenation of a, b and d: its type, and where its elements are.
Joins(S, t, a, b, d) ==
    /\ t \in Seq(S)
    /\ Len(t) = Len(a) + Len(b) + Len(d)
    /\ \A k \in 1 .. Len(a) : t[k] = a[k]
    /\ \A k \in 1 .. Len(b) : t[Len(a) + k] = b[k]
    /\ \A k \in 1 .. Len(d) : t[Len(a) + Len(b) + k] = d[k]

\* A concatenation of three sequences is one.
LEMMA Concat3 ==
    ASSUME NEW S, NEW a \in Seq(S), NEW b \in Seq(S), NEW d \in Seq(S)
    PROVE  Joins(S, a \o b \o d, a, b, d)
<1>1. /\ a \o b \in Seq(S)
      /\ Len(a \o b) = Len(a) + Len(b)
      /\ \A i \in 1 .. Len(a) : (a \o b)[i] = a[i]
      /\ \A i \in 1 .. Len(b) : (a \o b)[Len(a) + i] = b[i]
  OBVIOUS
<1> DEFINE e == a \o b
<1>2. /\ e \o d \in Seq(S)
      /\ Len(e \o d) = Len(e) + Len(d)
      /\ \A i \in 1 .. Len(e) : (e \o d)[i] = e[i]
      /\ \A i \in 1 .. Len(d) : (e \o d)[Len(e) + i] = d[i]
  BY <1>1
<1> HIDE DEF e
<1>3. /\ e \in Seq(S)
      /\ Len(e) = Len(a) + Len(b)
      /\ \A i \in 1 .. Len(a) : e[i] = a[i]
      /\ \A i \in 1 .. Len(b) : e[Len(a) + i] = b[i]
  BY <1>1 DEF e
<1>4. Len(a) \in Nat /\ Len(b) \in Nat /\ Len(d) \in Nat
  OBVIOUS
<1>5. \A i \in 1 .. Len(a) : (e \o d)[i] = a[i]
  BY <1>2, <1>3, <1>4
<1>6. \A i \in 1 .. Len(b) : (e \o d)[Len(a) + i] = b[i]
  BY <1>2, <1>3, <1>4
<1>7. \A i \in 1 .. Len(d) : (e \o d)[Len(a) + Len(b) + i] = d[i]
  BY <1>2, <1>3, <1>4
<1>8. Joins(S, e \o d, a, b, d)
  BY <1>2, <1>3, <1>5, <1>6, <1>7, SMTT(60) DEF Joins
<1> QED
  BY <1>8 DEF e


\* Every element of t is one of a, of b or, at the end, of d.
InOneOf(t, a, b, d) ==
    \A i \in DOMAIN t :
      \/ \E j \in DOMAIN a : t[i] = a[j]
      \/ \E j \in DOMAIN b : t[i] = b[j]
      \/ \E j \in DOMAIN d : i = Len(a) + Len(b) + j /\ t[i] = d[j]

\* What a concatenation of three sequences holds is in one of them.
LEMMA Concat3Elements ==
    ASSUME NEW S, NEW a \in Seq(S), NEW b \in Seq(S), NEW d \in Seq(S),
           NEW t, Joins(S, t, a, b, d)
    PROVE  InOneOf(t, a, b, d)
<1> SUFFICES ASSUME NEW i \in DOMAIN t
             PROVE  \/ \E j \in DOMAIN a : t[i] = a[j]
                    \/ \E j \in DOMAIN b : t[i] = b[j]
                    \/ \E j \in DOMAIN d : i = Len(a) + Len(b) + j /\ t[i] = d[j]
  BY DEF InOneOf
<1>1. /\ t \in Seq(S)
      /\ Len(t) = Len(a) + Len(b) + Len(d)
      /\ \A k \in 1 .. Len(a) : t[k] = a[k]
      /\ \A k \in 1 .. Len(b) : t[Len(a) + k] = b[k]
      /\ \A k \in 1 .. Len(d) : t[Len(a) + Len(b) + k] = d[k]
  BY DEF Joins
<1>2. Len(a) \in Nat /\ Len(b) \in Nat /\ Len(d) \in Nat
  OBVIOUS
<1>3. i \in 1 .. Len(t)
  BY <1>1
<1>4. DOMAIN a = 1 .. Len(a) /\ DOMAIN b = 1 .. Len(b) /\ DOMAIN d = 1 .. Len(d)
  OBVIOUS
<1>5. CASE i <= Len(a)
  BY <1>1, <1>2, <1>3, <1>4, <1>5, SMTT(60)
<1>6. CASE i > Len(a) /\ i <= Len(a) + Len(b)
  <2>1. i - Len(a) \in 1 .. Len(b) /\ Len(a) + (i - Len(a)) = i
    BY <1>2, <1>3, <1>6, <1>1, SMTT(60)
  <2> QED
    BY <2>1, <1>1, <1>4
<1>7. CASE i > Len(a) + Len(b)
  <2>1. i - (Len(a) + Len(b)) \in 1 .. Len(d) /\ Len(a) + Len(b) + (i - (Len(a) + Len(b))) = i
    BY <1>2, <1>3, <1>7, <1>1, SMTT(60)
  <2> QED
    BY <2>1, <1>1, <1>4
<1> QED
  BY <1>5, <1>6, <1>7, <1>2, <1>3, SMTT(60)

\* A slice of a sequence: its type, its length and its elements.
LEMMA SliceFacts ==
    ASSUME NEW S, NEW q \in Seq(S), NEW m \in Nat, NEW n \in Nat, m + n <= Len(q)
    PROVE  /\ SubSeq(q, m + 1, m + n) \in Seq(S)
           /\ Len(SubSeq(q, m + 1, m + n)) = n
           /\ \A i \in 1 .. n : SubSeq(q, m + 1, m + n)[i] = q[m + i]
<1>1. SubSeq(q, m + 1, m + n) \in Seq(S)
  OBVIOUS
<1>2. Len(SubSeq(q, m + 1, m + n)) = n
  OBVIOUS
<1>3. \A i \in 1 .. n : SubSeq(q, m + 1, m + n)[i] = q[m + i]
  BY SMTT(60)
<1> QED
  BY <1>1, <1>2, <1>3

\* The parts to burn are data partitions, and a recovery leaves the
\* partition of its own package out (get_burn_parts_from_img).
LEMMA PartsFacts ==
    ASSUME NEW c \in Configs
    PROVE  /\ PartsToBurn(c) \in Seq(Data)
           /\ c.source = "store" =>
                \A i \in DOMAIN PartsToBurn(c) : PartsToBurn(c)[i] # Recovery
<1>1. c.items \in Seq(Data) /\ c.burn_parts \in Seq(Data)
  BY PackageAssumption DEF Config
<1> DEFINE s == c.items
<1>2. \A i, j \in DOMAIN s : s[i] = s[j] => i = j
  BY PackageAssumption
<1> HIDE DEF s
<1>3. s \in Seq(Data)
  BY <1>1 DEF s
<1>4. CASE c.source # "store"
  BY <1>1, <1>4 DEF PartsToBurn
<1>5. CASE c.source = "store" /\ ~ \E i \in 1 .. Len(s) : s[i] = Recovery
  <2>1. PartsToBurn(c) = s
    BY <1>5 DEF PartsToBurn, RemoveFirst, s
  <2> QED
    BY <2>1, <1>3, <1>5
<1>6. ASSUME c.source = "store", NEW k \in 1 .. Len(s), s[k] = Recovery
      PROVE  /\ PartsToBurn(c) \in Seq(Data)
             /\ \A i \in DOMAIN PartsToBurn(c) : PartsToBurn(c)[i] # Recovery
  <2>0. DOMAIN s = 1 .. Len(s) /\ Len(s) \in Nat
    BY <1>3
  <2>1. {i \in 1 .. Len(s) : s[i] = Recovery} = {k}
    BY <1>2, <1>6, <2>0
  <2>2. SelectInSeq(s, LAMBDA v : v = Recovery) = k
    <3>1. Min({k}) = k
      BY DEF Min
    <3> QED
      BY <2>1, <3>1, ZenonT(60) DEF SelectInSeq
  <2> DEFINE u == SubSeq(s, 1, k - 1)
             v == SubSeq(s, k + 1, Len(s))
  <2>3. PartsToBurn(c) = u \o v
    BY <1>6, <2>2, ZenonT(60) DEF PartsToBurn, RemoveFirst, RemoveAt, s
  <2>4. u \in Seq(Data) /\ Len(u) = k - 1 /\ \A i \in 1 .. k - 1 : u[i] = s[i]
    <3>1. u \in Seq(Data)
      BY <1>3, <2>0
    <3>2. Len(u) = k - 1
      BY <1>3, <2>0
    <3>3. \A i \in 1 .. k - 1 : u[i] = s[i]
      BY <1>3, <2>0
    <3> QED
      BY <3>1, <3>2, <3>3, ZenonT(60)
  <2>5. /\ v \in Seq(Data) /\ Len(v) = Len(s) - k
        /\ \A i \in 1 .. (Len(s) - k) : v[i] = s[k + i]
    <3>1. k \in Nat /\ Len(s) - k \in Nat /\ k + (Len(s) - k) = Len(s) /\ Len(s) <= Len(s)
      BY <2>0
    <3>2. v = SubSeq(s, k + 1, k + (Len(s) - k))
      BY <3>1, Zenon
    <3> HIDE DEF v
    <3> QED
      BY <1>3, <3>1, <3>2, SliceFacts, ZenonT(30)
  <2> HIDE DEF u, v
  <2>6. \A i \in 1 .. Len(u) : u[i] # Recovery
    BY <2>4, <2>0, <1>2, <1>6
  <2>7. \A i \in 1 .. Len(v) : v[i] # Recovery
    BY <2>5, <2>0, <1>2, <1>6
  <2> DEFINE t == u \o v
  <2>a. u \in Seq(Data) /\ v \in Seq(Data)
    BY <2>4, <2>5
  <2>8. /\ t \in Seq(Data) /\ Len(t) = Len(u) + Len(v)
        /\ \A i \in 1 .. Len(u) : t[i] = u[i]
        /\ \A i \in 1 .. Len(v) : t[Len(u) + i] = v[i]
    BY <2>a
  <2> HIDE DEF t
  <2>9. ASSUME NEW i \in 1 .. Len(t) PROVE t[i] # Recovery
    <3>1. Len(u) \in Nat /\ Len(v) \in Nat
      BY <2>4, <2>5
    <3>2. CASE i <= Len(u)
      BY <2>6, <2>8, <3>1, <3>2, SMTT(60)
    <3>3. CASE ~(i <= Len(u))
      <4>1. i - Len(u) \in 1 .. Len(v) /\ Len(u) + (i - Len(u)) = i
        BY <2>8, <3>1, <3>3
      <4> QED
        BY <4>1, <2>7, <2>8, <3>3
    <3> QED
      BY <3>2, <3>3
  <2> QED
    BY <2>3, <2>8, <2>9 DEF t
<1> QED
  BY <1>4, <1>5, <1>6

Burnable == Names \cup {"clear"}
IsWanted(c, n) == \E j \in DOMAIN Todo(c) : Todo(c)[j] = n

\* What Todo lists and in which order: steps of the recovery flow only there,
\* never the recovery package's partition, every part, the media image and
\* the bootloader, the latter last.
LEMMA TodoFacts ==
    ASSUME NEW c \in Configs
    PROVE  /\ Todo(c) \in Seq(Burnable)
           /\ \A i \in DOMAIN Todo(c) : Todo(c)[i] = "bootloader" => i = Len(Todo(c))
           /\ c.source = "sdmmc" =>
                \A i \in DOMAIN Todo(c) : Todo(c)[i] # "dtb" /\ Todo(c)[i] # "clear"
           /\ c.source = "store" /\ Recovery \in Data =>
                \A i \in DOMAIN Todo(c) : Todo(c)[i] # Recovery
           /\ c.items # <<>> =>
                \A i \in DOMAIN PartsToBurn(c) : IsWanted(c, PartsToBurn(c)[i])
           /\ c.hasBootloader => IsWanted(c, "bootloader")
           /\ c.source = "sdmmc" /\ c.media => IsWanted(c, "media")
<1> DEFINE a == IF c.items = <<>> THEN <<>> ELSE PartsToBurn(c)
           b == IF c.source = "store" THEN <<"dtb", "clear">>
                ELSE IF c.media THEN <<"media">> ELSE <<>>
           d == IF c.hasBootloader THEN <<"bootloader">> ELSE <<>>
           t == a \o b \o d
<1>1. Todo(c) = t
  BY DEF Todo
<1>2. /\ c.source \in {"sdmmc", "store"} /\ c.media \in BOOLEAN
      /\ c.hasBootloader \in BOOLEAN
  BY PackageAssumption DEF Config, Source
<1>3. Data \subseteq Burnable /\ "bootloader" \in Burnable /\ "dtb" \in Burnable
      /\ "clear" \in Burnable /\ "media" \in Burnable
  BY DEF Burnable, Names
<1>4. /\ a \in Seq(Data) /\ a \in Seq(Burnable)
      /\ c.items # <<>> => a = PartsToBurn(c)
  BY PartsFacts, <1>3
<1>5. /\ b \in Seq(Burnable)
      /\ \A i \in DOMAIN b : b[i] \in {"dtb", "clear", "media"}
      /\ c.source = "sdmmc" => \A i \in DOMAIN b : b[i] = "media"
      /\ c.source = "sdmmc" /\ c.media => Len(b) = 1 /\ b[1] = "media"
  BY <1>2, <1>3
<1>6. /\ d \in Seq(Burnable)
      /\ Len(d) <= 1
      /\ \A i \in DOMAIN d : d[i] = "bootloader"
      /\ c.hasBootloader => Len(d) = 1 /\ d[1] = "bootloader"
  BY <1>2, <1>3
<1>7. c.source = "store" => \A i \in DOMAIN a : a[i] # Recovery
  BY PartsFacts
<1> HIDE DEF a, b, d
<1>a. Joins(Burnable, t, a, b, d)
  BY <1>4, <1>5, <1>6, Concat3
<1> HIDE DEF t
<1>8. /\ t \in Seq(Burnable)
      /\ Len(t) = Len(a) + Len(b) + Len(d)
      /\ \A k \in 1 .. Len(a) : t[k] = a[k]
      /\ \A k \in 1 .. Len(b) : t[Len(a) + k] = b[k]
      /\ \A k \in 1 .. Len(d) : t[Len(a) + Len(b) + k] = d[k]
  BY <1>a DEF Joins
<1>9. ASSUME NEW i \in DOMAIN t
      PROVE  \/ t[i] \in Data /\ (c.source = "store" => t[i] # Recovery)
             \/ t[i] \in {"dtb", "clear", "media"} /\ (c.source = "sdmmc" => t[i] = "media")
             \/ t[i] = "bootloader" /\ i = Len(t)
  <2>0. a \in Seq(Burnable) /\ b \in Seq(Burnable) /\ d \in Seq(Burnable)
    BY <1>4, <1>5, <1>6
  <2>b. InOneOf(t, a, b, d)
    BY <2>0, <1>a, Concat3Elements
  <2>1. \/ \E j \in DOMAIN a : t[i] = a[j]
        \/ \E j \in DOMAIN b : t[i] = b[j]
        \/ \E j \in DOMAIN d : i = Len(a) + Len(b) + j /\ t[i] = d[j]
    BY <2>b, <1>9 DEF InOneOf
  <2>2. \A j \in DOMAIN a : a[j] \in Data
    BY <1>4
  <2>3. ASSUME NEW j \in DOMAIN d, i = Len(a) + Len(b) + j, t[i] = d[j]
        PROVE  t[i] = "bootloader" /\ i = Len(t)
    <3>1. j \in 1 .. Len(d) /\ Len(d) \in Nat
      BY <1>6
    <3>2. j = Len(d)
      BY <3>1, <1>6
    <3> QED
      BY <3>2, <2>3, <1>6, <1>8
  <2>4. CASE \E j \in DOMAIN a : t[i] = a[j]
    BY <2>2, <2>4, <1>7
  <2>5. CASE \E j \in DOMAIN b : t[i] = b[j]
    BY <2>5, <1>5
  <2>6. CASE \E j \in DOMAIN d : i = Len(a) + Len(b) + j /\ t[i] = d[j]
    BY <2>6, <2>3
  <2> QED
    BY <2>1, <2>4, <2>5, <2>6, SMTT(60)
<1>10. /\ "bootloader" \notin Data /\ "dtb" \notin Data /\ "clear" \notin Data
       /\ "media" \notin Data /\ Recovery \notin {"dtb", "clear", "media", "bootloader"}
  BY PackageAssumption DEF Recovery
<1>11. Len(a) \in Nat /\ Len(b) \in Nat /\ Len(d) \in Nat
  BY <1>4, <1>5, <1>6
<1>12. DOMAIN t = 1 .. Len(t) /\ DOMAIN a = 1 .. Len(a)
  BY <1>4, <1>8
<1>13. \A i \in DOMAIN a : \E j \in DOMAIN t : t[j] = a[i]
  <2> TAKE i \in DOMAIN a
  <2>1. i \in 1 .. Len(t)
    BY <1>8, <1>11, <1>12
  <2> QED
    BY <2>1, <1>8, <1>12
<1>14. c.hasBootloader => \E j \in DOMAIN t : t[j] = "bootloader"
  <2> HAVE c.hasBootloader
  <2>1. Len(d) = 1 /\ d[1] = "bootloader"
    BY <1>6
  <2>2. Len(a) + Len(b) + 1 \in 1 .. Len(t)
    BY <2>1, <1>8, <1>11
  <2>3. t[Len(a) + Len(b) + 1] = "bootloader"
    BY <2>1, <1>8
  <2> QED
    BY <2>2, <2>3, <1>12
<1>15. c.source = "sdmmc" /\ c.media => \E j \in DOMAIN t : t[j] = "media"
  <2> HAVE c.source = "sdmmc" /\ c.media
  <2>1. Len(b) = 1 /\ b[1] = "media"
    BY <1>5
  <2>2. Len(a) + 1 \in 1 .. Len(t)
    BY <2>1, <1>8, <1>11
  <2>3. t[Len(a) + 1] = "media"
    BY <2>1, <1>8
  <2> QED
    BY <2>2, <2>3, <1>12
<1>16. \A i \in DOMAIN t : t[i] = "bootloader" => i = Len(t)
  BY <1>9, <1>10
<1>17. c.source = "sdmmc" => \A i \in DOMAIN t : t[i] # "dtb" /\ t[i] # "clear"
  BY <1>9, <1>10
<1>18. c.source = "store" /\ Recovery \in Data => \A i \in DOMAIN t : t[i] # Recovery
  BY <1>9, <1>10
<1> QED
  BY <1>1, <1>4, <1>8, <1>13, <1>14, <1>15, <1>16, <1>17, <1>18, SMTT(60) DEF IsWanted

\* The last conjunct of the inductive invariant: get_burn_parts_from_img
\* leaves the recovery package alone.
RecoveryKept == cfg.source = "store" /\ Recovery \in Data => flash[Recovery] = "old"

\* A step that leaves the flash alone and ends outside the burning loop:
\* what is left to show is the type, what a finished burn has, and which
\* u-boot runs.
LEMMA Outside ==
    ASSUME PackageInv, cfg' = cfg, flash' = flash, PackageTypeOK', DoneInv', ~InSession',
           cfg.source = "sdmmc" /\ cfg.eraseBootloader =>
             /\ pc' \in {"open", "init"} => boot' = "sd"
             /\ boot' = "sd" /\ pc' \in {"idle", "parse", "open", "init"} => ~Bootable
    PROVE  PackageInv'
<1>1. TodoInv' /\ ProgressInv'
  BY DEF TodoInv, ProgressInv
<1>2. CardInv'
  BY DEF CardInv, Bootable, InSession
<1>3. NewBootloaderHasData'
  BY DEF PackageInv, NewBootloaderHasData, DataBurned, Burned, Verified
<1>4. (cfg.source = "store" /\ Recovery \in Data => flash[Recovery] = "old")'
  BY DEF PackageInv
<1> QED
  BY <1>1, <1>2, <1>3, <1>4 DEF PackageInv

\* When no burn has been reported before and none is now, there is nothing
\* to show about finished burns.
LEMMA NotDone ==
    ASSUME PackageInv, InSession \/ pc \in {"parse", "erase", "open", "init", "failed"}
    PROVE  ~done
BY DEF PackageInv, DoneInv, InSession

\* PowerOn preserves the inductive invariant: after a finished burn the new
\* bootloader finds, or makes, its own environment.
LEMMA PowerOnIInv ==
    ASSUME PackageInv, PowerOn
    PROVE  PackageInv'
<1> USE DEF PowerOn, stable, volatile
<1>1. cfg \in Configs /\ cfg \in Config
  BY PackageAssumption DEF PackageInv, PackageTypeOK
<1>2. PackageTypeOK'
  BY DEF PackageInv, PackageTypeOK, Bootable, Contents
<1>3. DoneInv'
  <2> SUFFICES ASSUME done PROVE DoneInv'
    BY DEF DoneInv
  <2>1. Bootable /\ pc' = "idle"
    OBVIOUS
  <2>2. \A n \in Names \ {"dtb"} : Wanted(n) => Settled(n)
    BY DEF PackageInv, DoneInv
  <2>3. \A n \in Names \ {"dtb"} : (Wanted(n) => Settled(n))'
    BY <2>2 DEF Wanted, Settled, Burned, Verified
  <2>4. cfg.hasBootloader => env'.owner = "new"
    <3> HAVE cfg.hasBootloader
    <3>1. Wanted("bootloader") /\ "bootloader" \in Names \ {"dtb"}
      BY <1>1, TodoFacts DEF Wanted, IsWanted, Names
    <3>2. Burned("bootloader")
      BY <2>2, <3>1 DEF Settled
    <3>3. "bootloader" \notin cfg.small
      BY <1>1, PackageAssumption DEF Config
    <3>4. flash["bootloader"] = "new"
      BY <2>1, <3>2, <3>3 DEF Burned, Bootable
    <3>5. env.owner = "new" \/ env.step = 1
      BY DEF PackageInv, DoneInv
    <3> QED
      BY <2>1, <3>4, <3>5
  <2> QED
    BY <2>1, <2>3, <2>4 DEF DoneInv
<1>4. ~InSession'
  BY DEF InSession
<1> QED
  BY <1>2, <1>3, <1>4, Outside DEF Bootable

\* Without power the state has its type.
LEMMA PowerOffType ==
    ASSUME PackageTypeOK, PowerOff, cfg' = cfg, flash' \in [Names -> Contents],
           env' = env, done' = done, cuts' \in 0 .. MaxCuts
    PROVE  PackageTypeOK'
<1>1. diskInited' \in BOOLEAN /\ dtbLoaded' \in BOOLEAN
  BY Zenon DEF PowerOff
<1>2. todo' \in Seq(Names \cup {"clear"})
  BY DEF PowerOff
<1>3. /\ boot' \in {"off", "flash", "sd"}
      /\ pc' \in {"off", "idle", "parse", "erase", "open", "init", "burn", "write",
                  "verify", "success", "failed"}
      /\ (boot' = "off") <=> (pc' = "off")
      /\ report' \in {"none", "success", "failed"}
  BY DEF PowerOff
<1> QED
  BY <1>1, <1>2, <1>3, ZenonT(60) DEF PackageTypeOK

\* PowerCut preserves the inductive invariant: what the flash holds is all
\* that is left.
LEMMA PowerCutIInv ==
    ASSUME PackageInv, PowerCut
    PROVE  PackageInv'
<1> USE DEF PowerCut, PowerOff, flashVars
<1>1. PackageTypeOK'
  <2>1. cuts' \in 0 .. MaxCuts /\ flash' \in [Names -> Contents]
    BY PackageAssumption DEF PackageInv, PackageTypeOK
  <2> QED
    BY <2>1, PowerOffType, ZenonT(60) DEF PackageInv
<1>2. DoneInv'
  BY DEF PackageInv, DoneInv, Wanted, Settled, Burned, Verified
<1> QED
  BY <1>1, <1>2, Outside, SMTT(60) DEF InSession

\* BurnComplete preserves the inductive invariant.
LEMMA BurnCompleteIInv ==
    ASSUME PackageInv, BurnComplete
    PROVE  PackageInv'
<1> USE DEF BurnComplete, PowerOff, flashVars, stable
<1>1. PackageTypeOK'
  <2>1. cuts' \in 0 .. MaxCuts /\ flash' \in [Names -> Contents]
    BY DEF PackageInv, PackageTypeOK
  <2> QED
    BY <2>1, PowerOffType, ZenonT(60) DEF PackageInv
<1>2. DoneInv'
  BY DEF PackageInv, DoneInv, Wanted, Settled, Burned, Verified
<1> QED
  BY <1>1, <1>2, Outside DEF InSession

\* BurnCmd preserves the inductive invariant.
LEMMA BurnCmdIInv ==
    ASSUME PackageInv, BurnCmd
    PROVE  PackageInv'
<1> USE DEF BurnCmd, flashVars, stable, volatile
<1>1. PackageTypeOK'
  BY DEF PackageInv, PackageTypeOK
<1>2. DoneInv'
  BY DEF DoneInv
<1>3. cfg.source = "sdmmc" /\ cfg.eraseBootloader => (boot' = "sd" => ~Bootable) /\ pc' = "parse"
  BY DEF PackageInv, CardInv
<1> QED
  BY <1>1, <1>2, <1>3, Outside, SMTT(60) DEF InSession

\* The ways a step of the flow ends keep the types.
LEMMA FlowType ==
    ASSUME PackageTypeOK, pc # "off", cfg' = cfg, cuts' = cuts, boot' = boot,
           flash' \in [Names -> Contents],
           env' \in [owner : {"old", "none", "new"}, step : 0 .. 2],
           diskInited' \in BOOLEAN, dtbLoaded' \in BOOLEAN,
           \/ Finish("ok") \/ Finish("fail") \/ Return
           \/ Goto("erase") \/ Goto("open") \/ Goto("init")
           \/ Goto("write") \/ Goto("verify")
           \/ /\ pc' = "burn" /\ todo' \in Seq(Names \cup {"clear"})
              /\ UNCHANGED <<report, done>>
    PROVE  PackageTypeOK'
<1>1. todo' \in Seq(Names \cup {"clear"})
  <2>1. todo' = <<>> \/ todo' = todo \/ todo' \in Seq(Names \cup {"clear"})
    BY Zenon DEF Finish, Return, Goto
  <2>2. todo \in Seq(Names \cup {"clear"})
    BY DEF PackageTypeOK
  <2>3. <<>> \in Seq(Names \cup {"clear"})
    OBVIOUS
  <2> QED
    BY <2>1, <2>2, <2>3, ZenonT(60)
<1>2. done' \in BOOLEAN
  <2>1. done \in BOOLEAN
    BY DEF PackageTypeOK
  <2>2. CASE done' = done
    BY <2>1, <2>2
  <2>3. CASE Finish("ok") \/ Finish("fail")
    BY <2>3, ZenonT(60) DEF Finish
  <2> QED
    BY <2>2, <2>3 DEF Return, Goto
<1>3. /\ pc' \in {"off", "idle", "parse", "erase", "open", "init", "burn", "write",
                  "verify", "success", "failed"}
      /\ pc' # "off"
  BY DEF Finish, Return, Goto
<1>4. report' \in {"none", "success", "failed"}
  BY DEF Finish, Return, Goto, PackageTypeOK
<1>5. /\ cfg' \in Configs /\ cuts' \in 0 .. MaxCuts /\ boot' \in {"off", "flash", "sd"}
      /\ boot' # "off"
  BY DEF PackageTypeOK
<1>6. (boot' = "off") <=> (pc' = "off")
  BY <1>3, <1>5
<1> QED
  BY <1>1, <1>2, <1>3, <1>4, <1>5, <1>6, ZenonT(60) DEF PackageTypeOK

\* A step that ends outside the burning loop, with no burn reported as
\* successful and no new bootloader in the flash.
LEMMA OutsideUnburned ==
    ASSUME PackageInv, cfg' = cfg, PackageTypeOK', ~done', ~InSession',
           cfg.source = "sdmmc" /\ cfg.eraseBootloader =>
             /\ flash'["bootloader"] # "new"
             /\ pc' \in {"open", "init"} => boot' = "sd"
             /\ boot' = "sd" /\ pc' \in {"idle", "parse", "open", "init"} => ~Bootable',
           RecoveryKept'
    PROVE  PackageInv'
<1>1. TodoInv' /\ ProgressInv' /\ DoneInv'
  BY DEF TodoInv, ProgressInv, DoneInv
<1>2. CardInv'
  BY DEF CardInv, InSession
<1>3. NewBootloaderHasData'
  BY DEF NewBootloaderHasData
<1> QED
  BY <1>1, <1>2, <1>3 DEF PackageInv, RecoveryKept

\* ParseIniCfgFile preserves the inductive invariant: with erase_bootloader,
\* a u-boot from the flash goes no further than the erasing.
LEMMA ParseIniCfgFileIInv ==
    ASSUME PackageInv, ParseIniCfgFile
    PROVE  PackageInv'
<1> USE DEF ParseIniCfgFile, stable, volatile
<1>1. ~done /\ PackageTypeOK
  BY NotDone DEF PackageInv
<1>2. CASE Finish("fail") /\ UNCHANGED flash
  <2>1. PackageTypeOK'
    BY <1>1, <1>2, FlowType DEF PackageTypeOK
  <2>2. ~done' /\ pc' = "failed"
    BY <1>1, <1>2, ZenonT(60) DEF Finish
  <2> QED
    BY <1>2, <2>1, <2>2, Outside, SMTT(60) DEF DoneInv, InSession
<1>3. CASE /\ MustErase /\ Goto("erase")
           /\ flash' = [flash EXCEPT !["bootloader"] = "part"]
  <2>1. flash' \in [Names -> Contents] /\ flash'["bootloader"] = "part"
    BY <1>1, <1>3 DEF PackageTypeOK, Names, Contents
  <2>2. PackageTypeOK'
    BY <1>1, <1>3, <2>1, FlowType, SMTT(60) DEF PackageTypeOK
  <2>3. RecoveryKept'
    BY <1>1, <1>3 DEF RecoveryKept, PackageInv, PackageTypeOK, Recovery
  <2> QED
    BY <1>1, <1>3, <2>1, <2>2, <2>3, OutsideUnburned, SMTT(60) DEF Goto, InSession
<1>4. CASE ~MustErase /\ Goto("open") /\ UNCHANGED flash
  <2>1. PackageTypeOK'
    BY <1>1, <1>4, FlowType DEF PackageTypeOK
  <2>2. ~done' /\ pc' = "open"
    BY <1>1, <1>4 DEF Goto
  <2>3. cfg.source = "sdmmc" /\ cfg.eraseBootloader => boot' = "sd" /\ ~Bootable
    BY <1>4 DEF MustErase, PackageInv, CardInv
  <2> QED
    BY <1>4, <2>1, <2>2, <2>3, Outside, SMTT(60) DEF DoneInv, InSession
<1> QED
  BY <1>2, <1>3, <1>4

\* EraseBootloader preserves the inductive invariant.
LEMMA EraseBootloaderIInv ==
    ASSUME PackageInv, EraseBootloader
    PROVE  PackageInv'
<1> USE DEF EraseBootloader, stable, volatile
<1>1. ~done /\ PackageTypeOK
  BY NotDone DEF PackageInv
<1>2. CASE Finish("fail") /\ UNCHANGED <<flash, boot, volatile>>
  <2>1. PackageTypeOK'
    BY <1>1, <1>2, FlowType DEF PackageTypeOK
  <2>2. ~done' /\ pc' = "failed"
    BY <1>1, <1>2, ZenonT(60) DEF Finish
  <2> QED
    BY <1>2, <2>1, <2>2, Outside, SMTT(60) DEF DoneInv, InSession
<1>3. CASE /\ flash' = [flash EXCEPT !["bootloader"] = "none"]
           /\ PowerOff /\ UNCHANGED done
  <2>1. flash' \in [Names -> Contents] /\ flash'["bootloader"] = "none"
    BY <1>1, <1>3 DEF PackageTypeOK, Names, Contents
  <2>2. PackageTypeOK'
    BY <1>1, <1>3, <2>1, PowerOffType, SMTT(60) DEF PackageTypeOK
  <2>3. RecoveryKept'
    BY <1>1, <1>3 DEF RecoveryKept, PackageInv, PackageTypeOK, Recovery
  <2> QED
    BY <1>1, <1>3, <2>1, <2>2, <2>3, OutsideUnburned, SMTT(60) DEF PowerOff, InSession
<1> QED
  BY <1>2, <1>3

\* The burning loop starts with everything to do.
LEMMA SessionStart ==
    ASSUME PackageInv, cfg' = cfg, pc' = "burn", todo' = Todo(cfg), PackageTypeOK', ~done',
           cfg.source = "sdmmc" /\ cfg.eraseBootloader => boot' = "sd" /\ ~Bootable',
           RecoveryKept'
    PROVE  PackageInv'
<1>1. cfg \in Configs
  BY DEF PackageInv, PackageTypeOK
<1>2. TodoInv'
  <2>1. \A i \in DOMAIN todo' : Wanted(todo[i])'
    BY DEF Wanted
  <2>2. \A i \in DOMAIN todo' : todo'[i] = "bootloader" => i = Len(todo')
    BY <1>1, TodoFacts
  <2> QED
    BY <2>1, <2>2 DEF TodoInv
<1>3. ProgressInv'
  BY DEF ProgressInv, Wanted, InTodo
<1>4. CardInv'
  BY DEF CardInv, InSession
<1>5. NewBootloaderHasData'
  BY DEF NewBootloaderHasData, Bootable
<1>6. DoneInv'
  BY DEF DoneInv
<1> QED
  BY <1>2, <1>3, <1>4, <1>5, <1>6, SMTT(60) DEF PackageInv, RecoveryKept

\* OpenImage preserves the inductive invariant.
LEMMA OpenImageIInv ==
    ASSUME PackageInv, OpenImage
    PROVE  PackageInv'
<1> USE DEF OpenImage, stable, flashVars
<1>1. ~done /\ PackageTypeOK /\ cfg \in Configs /\ cfg \in Config
  BY NotDone, PackageAssumption DEF PackageInv, PackageTypeOK
<1>2. dtbLoaded' \in BOOLEAN
  <2>1. dtbLoaded \in BOOLEAN /\ cfg.dtb \in BOOLEAN
    BY <1>1 DEF PackageTypeOK, Config
  <2>2. dtbLoaded' = dtbLoaded \/ dtbLoaded' = (dtbLoaded \/ cfg.dtb)
    BY Zenon
  <2> QED
    BY <2>1, <2>2, ZenonT(60)
<1>3. cfg.source = "sdmmc" /\ cfg.eraseBootloader => boot' = "sd" /\ ~Bootable
  BY DEF PackageInv, CardInv
<1>4. CASE Finish("fail")
  <2>1. PackageTypeOK'
    BY <1>1, <1>2, <1>4, FlowType, SMTT(60) DEF PackageTypeOK
  <2>2. ~done' /\ pc' = "failed"
    BY <1>1, <1>4, ZenonT(60) DEF Finish
  <2> QED
    BY <2>1, <2>2, Outside, SMTT(60) DEF DoneInv, InSession
<1>5. CASE Return \/ Goto("init")
  <2>1. PackageTypeOK'
    BY <1>1, <1>2, <1>5, FlowType, SMTT(60) DEF PackageTypeOK
  <2>2. ~done' /\ pc' \in {"idle", "init"}
    BY <1>1, <1>5 DEF Return, Goto
  <2> QED
    BY <1>3, <2>1, <2>2, Outside, SMTT(60) DEF DoneInv, InSession
<1>6. CASE /\ cfg.source = "store" /\ pc' = "burn" /\ todo' = Todo(cfg)
           /\ UNCHANGED <<dtbLoaded, report, done>>
  <2>1. todo' \in Seq(Names \cup {"clear"})
    BY <1>1, <1>6, TodoFacts, SMTT(60) DEF Burnable
  <2>2. PackageTypeOK'
    BY <1>1, <1>2, <1>6, <2>1, FlowType, SMTT(60) DEF PackageTypeOK
  <2>3. RecoveryKept'
    BY DEF PackageInv, RecoveryKept
  <2> QED
    BY <1>1, <1>6, <2>2, <2>3, SessionStart, SMTT(60)
<1> QED
  BY <1>4, <1>5, <1>6, SMTT(60)

\* StorageInit preserves the inductive invariant: an erase comes when the
\* flash has no new bootloader.
LEMMA StorageInitIInv ==
    ASSUME PackageInv, StorageInit
    PROVE  PackageInv'
<1> USE DEF StorageInit, stable, flashVars
<1>1. ~done /\ PackageTypeOK /\ cfg \in Configs /\ cfg \in Config
  BY NotDone, PackageAssumption DEF PackageInv, PackageTypeOK
<1>2. diskInited' \in BOOLEAN /\ dtbLoaded' \in BOOLEAN
  <2>1. dtbLoaded \in BOOLEAN /\ diskInited \in BOOLEAN
    BY <1>1 DEF PackageTypeOK
  <2>2. dtbLoaded' = dtbLoaded /\ (diskInited' = diskInited \/ diskInited' = TRUE)
    BY ZenonT(60)
  <2> QED
    BY <2>1, <2>2, ZenonT(60)
<1>3. cfg.source = "sdmmc" /\ cfg.eraseBootloader => boot' = "sd" /\ ~Bootable
  BY DEF PackageInv, CardInv
<1>4. UNCHANGED flashVars \/ \E d \in {"unsaved", "new", "part"} : StoreInit(d)
  BY ZenonT(60)
<1>5. /\ flash' \in [Names -> Contents]
      /\ env' \in [owner : {"old", "none", "new"}, step : 0 .. 2]
      /\ flash'["bootloader"] \in {flash["bootloader"], "none"}
      /\ RecoveryKept'
  <2>1. CASE UNCHANGED flashVars
    BY <1>1, <2>1, SMTT(60) DEF PackageTypeOK, PackageInv, RecoveryKept
  <2>2. ASSUME NEW d \in {"unsaved", "new", "part"}, StoreInit(d)
        PROVE  <1>5!:
    <3>1. PICK b \in {flash["bootloader"], IF Erased THEN "none" ELSE flash["bootloader"]} :
            flash' = [n \in Names |->
                        IF n = "bootloader" THEN b
                        ELSE IF n = "dtb" /\ dtbLoaded /\ d # "unsaved" THEN d
                        ELSE IF Erased THEN "none" ELSE flash[n]]
      BY <2>2 DEF StoreInit
    <3>2. flash \in [Names -> Contents] /\ "bootloader" \in Names
      BY <1>1 DEF PackageTypeOK, Names
    <3>3. b \in Contents /\ b \in {flash["bootloader"], "none"}
      BY <3>2 DEF Contents
    <3>4. flash' \in [Names -> Contents]
      BY <3>1, <3>2, <3>3, <2>2, SMTT(60) DEF Contents
    <3>5. flash'["bootloader"] = b
      BY <3>1, <3>2, SMTT(60)
    <3>6. env' \in {env, NoEnv}
      BY <2>2 DEF StoreInit
    <3>7. env' \in [owner : {"old", "none", "new"}, step : 0 .. 2]
      BY <1>1, <3>6, SMTT(60) DEF PackageTypeOK, NoEnv
    <3>8. RecoveryKept'
      <4> SUFFICES ASSUME cfg.source = "store", Recovery \in Data
                   PROVE  flash'[Recovery] = "old"
        BY DEF RecoveryKept
      <4>1. Recovery \in Names /\ Recovery # "bootloader" /\ Recovery # "dtb" /\ ~Erased
        BY DEF Names, Recovery, Erased
      <4>2. flash[Recovery] = "old"
        BY DEF PackageInv
      <4> QED
        BY <3>1, <4>1, <4>2, SMTT(60)
    <3> QED
      BY <3>3, <3>4, <3>5, <3>7, <3>8, SMTT(60)
  <2> QED
    BY <1>4, <2>1, <2>2, SMTT(60)
<1>6. cfg.source = "sdmmc" /\ cfg.eraseBootloader => ~Bootable'
  BY <1>3, <1>5 DEF Bootable
<1>7. AfterInit \/ InitFailed
  BY ZenonT(60)
<1>8. CASE pc' = "burn" /\ todo' = Todo(cfg) /\ UNCHANGED <<report, done>>
  <2>1. todo' \in Seq(Names \cup {"clear"})
    BY <1>1, <1>8, TodoFacts, SMTT(60) DEF Burnable
  <2>2. PackageTypeOK'
    BY <1>1, <1>2, <1>5, <1>8, <2>1, FlowType, SMTT(60)
  <2> QED
    BY <1>1, <1>3, <1>5, <1>6, <1>8, <2>2, SessionStart, SMTT(60)
<1>9. CASE cfg.source = "store" /\ Goto("open")
  <2>1. PackageTypeOK'
    BY <1>1, <1>2, <1>5, <1>9, FlowType, SMTT(60)
  <2>2. ~done' /\ pc' = "open"
    BY <1>1, <1>9, SMTT(60) DEF Goto
  <2> QED
    BY <1>5, <1>9, <2>1, <2>2, OutsideUnburned, SMTT(60) DEF InSession
<1>10. CASE Return
  <2>1. PackageTypeOK'
    BY <1>1, <1>2, <1>5, <1>10, FlowType, SMTT(60)
  <2>2. ~done' /\ pc' = "idle"
    BY <1>1, <1>10, SMTT(60) DEF Return
  <2>3. cfg.source = "sdmmc" /\ cfg.eraseBootloader => flash'["bootloader"] # "new"
    BY <1>6 DEF Bootable
  <2> QED
    BY <1>5, <1>6, <2>1, <2>2, <2>3, OutsideUnburned, SMTT(60) DEF InSession
<1> QED
  BY <1>7, <1>8, <1>9, <1>10, <1>1, SMTT(60) DEF AfterInit, InitFailed, Config, Source

\* The head of what is to do, in the burning loop.
LEMMA ItemFacts ==
    ASSUME PackageInv, InSession, todo # <<>>
    PROVE  /\ DOMAIN todo = 1 .. Len(todo) /\ Len(todo) \in Nat /\ 1 \in DOMAIN todo
           /\ Item = todo[1] /\ Item \in Burnable /\ InTodo(Item) /\ Wanted(Item)
           /\ Item = "bootloader" => \A i \in DOMAIN todo : todo[i] = "bootloader"
           /\ cfg \in Configs /\ cfg \in Config
           /\ cfg.source = "store" /\ Recovery \in Data => Item # Recovery
           /\ cfg.source = "sdmmc" => Item # "dtb" /\ Item # "clear"
<1>1. todo \in Seq(Burnable) /\ cfg \in Configs /\ cfg \in Config
  BY PackageAssumption DEF PackageInv, PackageTypeOK, Burnable
<1>2. /\ DOMAIN todo = 1 .. Len(todo) /\ Len(todo) \in Nat /\ 1 \in DOMAIN todo
      /\ Item = todo[1] /\ Item \in Burnable
  BY <1>1 DEF Item
<1>3. InTodo(Item) /\ Wanted(Item)
  BY <1>2 DEF InTodo, PackageInv, TodoInv
<1>4. Item = "bootloader" => \A i \in DOMAIN todo : todo[i] = "bootloader"
  <2> HAVE Item = "bootloader"
  <2>1. 1 = Len(todo)
    BY <1>2 DEF PackageInv, TodoInv
  <2> QED
    BY <2>1, <1>2
<1>5. /\ cfg.source = "store" /\ Recovery \in Data => Item # Recovery
      /\ cfg.source = "sdmmc" => Item # "dtb" /\ Item # "clear"
  BY <1>1, <1>3, TodoFacts, SMTT(60) DEF Wanted
<1> QED
  BY <1>1, <1>2, <1>3, <1>4, <1>5, SMTT(60)

\* A step of writing the item at the head: everything before it stays burned,
\* it is still to do, and the new bootloader comes when all data is there.
LEMMA ItemStep ==
    ASSUME PackageInv, InSession, todo # <<>>, Item \in Names \ {"dtb"}, NEW v \in Contents,
           cfg' = cfg, todo' = todo, boot' = boot, ~done', PackageTypeOK',
           flash' = [flash EXCEPT ![Item] = v], pc' \in {"write", "verify"},
           pc' = "verify" => Item \in cfg.small \/ v \in BurnResults(Item)
    PROVE  PackageInv'
<1>1. flash \in [Names -> Contents] /\ Item \in Names /\ "bootloader" \in Names \ {"dtb"}
  BY DEF PackageInv, PackageTypeOK, Names
<1>2. /\ flash'[Item] = v
      /\ \A n \in Names : n # Item => flash'[n] = flash[n]
  BY <1>1
<1>3. \A n \in Names : n # Item /\ Settled(n) => Settled(n)'
  BY <1>2 DEF Settled, Burned, Verified
<1>4. Item' = Item /\ BurnResults(Item)' = BurnResults(Item)
  BY DEF Item, BurnResults
<1>5. TodoInv'
  <2>1. \A i \in DOMAIN todo' : Wanted(todo[i])'
    BY DEF PackageInv, TodoInv, Wanted
  <2>2. \A i \in DOMAIN todo' : todo'[i] = "bootloader" => i = Len(todo')
    BY DEF PackageInv, TodoInv
  <2>3. pc' = "verify" => Item \in cfg'.small \/ flash'[Item] \in BurnResults(Item)
    BY <1>2
  <2> QED
    BY <1>4, <2>1, <2>2, <2>3, SMTT(60) DEF TodoInv, Names
<1>6. ProgressInv'
  <2> SUFFICES ASSUME NEW n \in Names \ {"dtb"}, Wanted(n)
               PROVE  InTodo(n)' \/ Settled(n)'
    BY DEF ProgressInv, Wanted, Names
  <2>1. InTodo(n) \/ Settled(n)
    BY DEF PackageInv, ProgressInv
  <2>2. InTodo(n) => InTodo(n)'
    BY DEF InTodo
  <2>3. InTodo(Item)
    BY ItemFacts
  <2> QED
    BY <1>3, <2>1, <2>2, <2>3, SMTT(60)
<1>7. DoneInv'
  BY DEF DoneInv
<1>8. CardInv'
  <2> SUFFICES ASSUME cfg.source = "sdmmc", cfg.eraseBootloader
               PROVE  /\ boot = "sd"
                      /\ Bootable' => \A i \in DOMAIN todo : todo[i] = "bootloader"
    BY DEF CardInv, InSession
  <2>1. boot = "sd"
    BY DEF PackageInv, CardInv
  <2>2. ASSUME Bootable' PROVE \A i \in DOMAIN todo : todo[i] = "bootloader"
    <3>1. CASE Item = "bootloader"
      BY <3>1, ItemFacts
    <3>2. CASE Item # "bootloader"
      <4>1. Bootable
        BY <1>1, <1>2, <2>2, <3>2, SMTT(60) DEF Bootable
      <4> QED
        BY <4>1 DEF PackageInv, CardInv
    <3> QED
      BY <3>1, <3>2
  <2> QED
    BY <2>1, <2>2
<1>9. NewBootloaderHasData'
  <2> SUFFICES ASSUME cfg.source = "sdmmc", cfg.eraseBootloader, cfg.items # <<>>,
                      flash'["bootloader"] = "new"
               PROVE  DataBurned'
    BY DEF NewBootloaderHasData
  <2>1. Item = "bootloader"
    <3> SUFFICES ASSUME Item # "bootloader" PROVE FALSE
      OBVIOUS
    <3>1. Bootable
      BY <1>1, <1>2 DEF Bootable
    <3>2. \A i \in DOMAIN todo : todo[i] = "bootloader"
      BY <3>1 DEF PackageInv, CardInv
    <3> QED
      BY <3>2, ItemFacts
  <2>2. \A i \in DOMAIN todo : todo[i] = "bootloader"
    BY <2>1, ItemFacts
  <2>3. ASSUME NEW i \in DOMAIN PartsToBurn(cfg)
        PROVE  Burned(PartsToBurn(cfg)[i])'
    <3>0. PICK n \in Data : n = PartsToBurn(cfg)[i]
      BY ItemFacts, PartsFacts
    <3>1. n # "bootloader" /\ n \in Names \ {"dtb"}
      BY PackageAssumption, SMTT(60) DEF Names
    <3>2. Wanted(n)
      BY <3>0, ItemFacts, TodoFacts, SMTT(60) DEF Wanted, IsWanted
    <3>3. ~InTodo(n)
      BY <2>2, <3>1, SMTT(60) DEF InTodo
    <3>4. Settled(n)
      BY <3>1, <3>2, <3>3, SMTT(60) DEF PackageInv, ProgressInv
    <3>5. Settled(n)'
      BY <1>3, <2>1, <3>1, <3>4, SMTT(60)
    <3>6. Burned(n)'
      BY <3>5 DEF Settled
    <3> QED
      BY <3>0, <3>6
  <2> QED
    BY <2>3 DEF DataBurned
<1>10. RecoveryKept'
  <2> SUFFICES ASSUME cfg.source = "store", Recovery \in Data
               PROVE  flash'[Recovery] = "old"
    BY DEF RecoveryKept
  <2>1. Recovery \in Names /\ Item # Recovery
    BY ItemFacts DEF Names
  <2> QED
    BY <1>2, <2>1 DEF PackageInv
<1> QED
  BY <1>5, <1>6, <1>7, <1>8, <1>9, <1>10, SMTT(60) DEF PackageInv, RecoveryKept

\* A step that is done with the head of the list: what it was is settled, and
\* what was settled before stays so.
LEMMA PopStep ==
    ASSUME PackageInv, InSession, todo # <<>>,
           cfg' = cfg, todo' = Tail(todo), pc' = "burn", boot' = boot, ~done', PackageTypeOK',
           \A n \in Names \ {"dtb"} : n # Item /\ Settled(n) => Settled(n)',
           Item \in Names \ {"dtb"} => \A n \in Names \ {"dtb"} : n = Item => Settled(n)',
           Bootable' = Bootable, NewBootloaderHasData', RecoveryKept'
    PROVE  PackageInv'
<1>1. /\ todo \in Seq(Burnable) /\ DOMAIN todo = 1 .. Len(todo) /\ Len(todo) \in Nat
      /\ Item = todo[1]
  BY ItemFacts DEF PackageInv, PackageTypeOK, Burnable
<1>2. /\ DOMAIN todo' = 1 .. (Len(todo) - 1) /\ Len(todo') = Len(todo) - 1
      /\ \A i \in 1 .. (Len(todo) - 1) : todo'[i] = todo[i + 1]
  BY <1>1
<1>3. \A i \in DOMAIN todo' : i + 1 \in DOMAIN todo /\ todo'[i] = todo[i + 1]
  BY <1>1, <1>2
<1>4. TodoInv'
  <2>1. \A i \in DOMAIN todo' : Wanted(todo[i])'
    BY <1>3 DEF PackageInv, TodoInv, Wanted
  <2>2. ASSUME NEW i \in DOMAIN todo', todo'[i] = "bootloader" PROVE i = Len(todo')
    <3>1. i + 1 = Len(todo)
      BY <1>3, <2>2, SMTT(60) DEF PackageInv, TodoInv
    <3> QED
      BY <1>1, <1>2, <3>1, SMTT(60)
  <2> QED
    BY <2>1, <2>2, SMTT(60) DEF TodoInv
<1>5. ProgressInv'
  <2> SUFFICES ASSUME NEW n \in Names \ {"dtb"}, Wanted(n)
               PROVE  InTodo(n)' \/ Settled(n)'
    BY DEF ProgressInv, Wanted, Names
  <2>1. InTodo(n) \/ Settled(n)
    BY DEF PackageInv, ProgressInv
  <2>2. CASE n = Item
    BY <2>2
  <2>3. CASE n # Item /\ Settled(n)
    BY <2>3
  <2>4. CASE n # Item /\ InTodo(n)
    <3>1. PICK k \in 1 .. Len(todo) : todo[k] = n
      BY <1>1, <2>4, SMTT(60) DEF InTodo
    <3>2. k - 1 \in 1 .. (Len(todo) - 1) /\ (k - 1) + 1 = k
      BY <1>1, <2>4, <3>1, SMTT(60)
    <3>3. k - 1 \in DOMAIN todo' /\ todo'[k - 1] = n
      BY <1>2, <3>1, <3>2, SMTT(60)
    <3> QED
      BY <3>3, ZenonT(60) DEF InTodo
  <2> QED
    BY <2>1, <2>2, <2>3, <2>4, SMTT(60)
<1>6. DoneInv'
  BY DEF DoneInv
<1>7. CardInv'
  <2> SUFFICES ASSUME cfg.source = "sdmmc", cfg.eraseBootloader
               PROVE  /\ boot = "sd"
                      /\ Bootable => \A i \in DOMAIN todo' : todo'[i] = "bootloader"
    BY DEF CardInv, InSession
  <2> QED
    BY <1>3 DEF PackageInv, CardInv
<1> QED
  BY <1>4, <1>5, <1>6, <1>7, SMTT(60) DEF PackageInv, RecoveryKept

\* Leaving the burning loop with an error and the flash as it is.
LEMMA SessionFails ==
    ASSUME PackageInv, InSession, Finish("fail"), cfg' = cfg, cuts' = cuts, boot' = boot,
           flash' = flash, env' = env, diskInited' \in BOOLEAN, dtbLoaded' \in BOOLEAN
    PROVE  PackageInv'
<1>1. ~done /\ PackageTypeOK /\ pc # "off"
  BY NotDone, SMTT(60) DEF PackageInv, InSession
<1>2. PackageTypeOK'
  BY <1>1, FlowType, SMTT(60) DEF PackageTypeOK
<1>3. ~done' /\ pc' = "failed"
  BY <1>1, ZenonT(60) DEF Finish
<1> QED
  BY <1>2, <1>3, Outside, SMTT(60) DEF DoneInv, InSession

\* BurnBegin preserves the inductive invariant.
LEMMA BurnBeginIInv ==
    ASSUME PackageInv, BurnBegin
    PROVE  PackageInv'
<1> USE DEF BurnBegin, BurningItem, stable, volatile
<1>1. ~done /\ PackageTypeOK /\ InSession /\ pc # "off"
  BY NotDone, SMTT(60) DEF PackageInv, InSession
<1>2. diskInited' \in BOOLEAN /\ dtbLoaded' \in BOOLEAN
  BY <1>1 DEF PackageTypeOK
<1>3. flash \in [Names -> Contents] /\ Item \in Names \ {"dtb"} /\ "part" \in Contents
  BY <1>1 DEF PackageTypeOK, Contents
<1>4. CASE Finish("fail") /\ UNCHANGED flash
  BY <1>1, <1>2, <1>4, SessionFails, SMTT(60)
<1>5. CASE Skipped /\ Goto("verify") /\ UNCHANGED flash
  <2>1. PackageTypeOK'
    BY <1>1, <1>2, <1>3, <1>5, FlowType, SMTT(60) DEF PackageTypeOK
  <2>2. flash' = [flash EXCEPT ![Item] = flash[Item]] /\ flash[Item] \in Contents
    BY <1>3, <1>5, SMTT(60)
  <2>3. pc' = "verify" /\ todo' = todo /\ ~done' /\ Item \in cfg.small
    BY <1>1, <1>5, SMTT(60) DEF Goto, Skipped
  <2> QED
    BY <1>1, <1>3, <2>1, <2>2, <2>3, ItemStep, ZenonT(60)
<1>6. CASE Goto("write") /\ flash' = [flash EXCEPT ![Item] = "part"]
  <2>1. flash' \in [Names -> Contents]
    BY <1>3, <1>6, SMTT(60)
  <2>2. PackageTypeOK'
    BY <1>1, <1>2, <1>6, <2>1, FlowType, SMTT(60) DEF PackageTypeOK
  <2>3. pc' = "write" /\ todo' = todo /\ ~done'
    BY <1>1, <1>6, SMTT(60) DEF Goto
  <2> QED
    BY <1>1, <1>3, <1>6, <2>2, <2>3, ItemStep, ZenonT(60)
<1> QED
  BY <1>4, <1>5, <1>6, SMTT(60)

\* BurnEnd preserves the inductive invariant.
LEMMA BurnEndIInv ==
    ASSUME PackageInv, BurnEnd
    PROVE  PackageInv'
<1> USE DEF BurnEnd, stable
<1>1. ~done /\ PackageTypeOK /\ InSession /\ pc # "off" /\ todo # <<>> /\ Item \in Names \ {"dtb"}
  BY NotDone DEF PackageInv, InSession, TodoInv
<1>2. diskInited' \in BOOLEAN /\ dtbLoaded' \in BOOLEAN
  <2>1. dtbLoaded \in BOOLEAN /\ diskInited \in BOOLEAN
    BY <1>1 DEF PackageTypeOK
  <2>2. /\ dtbLoaded' = dtbLoaded
        /\ diskInited' = diskInited \/ diskInited' = (diskInited /\ Item # "media")
    BY ZenonT(60)
  <2> QED
    BY <2>1, <2>2, ZenonT(60)
<1>3. flash \in [Names -> Contents] /\ BurnResults(Item) \subseteq Contents
  BY <1>1, SMTT(60) DEF PackageTypeOK, Contents, BurnResults
<1>4. CASE Finish("fail") /\ UNCHANGED flash
  BY <1>1, <1>2, <1>4, SessionFails, SMTT(60)
<1>5. ASSUME Goto("verify"), NEW r \in BurnResults(Item), flash' = [flash EXCEPT ![Item] = r]
      PROVE  PackageInv'
  <2>1. flash' \in [Names -> Contents]
    BY <1>3, <1>5, ZenonT(60)
  <2>2. PackageTypeOK'
    BY <1>1, <1>2, <1>5, <2>1, FlowType, SMTT(60) DEF PackageTypeOK
  <2>3. pc' = "verify" /\ todo' = todo /\ ~done'
    BY <1>1, <1>5, SMTT(60) DEF Goto
  <2> QED
    BY <1>1, <1>3, <1>5, <2>2, <2>3, ItemStep, ZenonT(60)
<1> QED
  BY <1>4, <1>5, SMTT(60)

\* VerifyPartition preserves the inductive invariant: an item that passes is
\* burned.
LEMMA VerifyPartitionIInv ==
    ASSUME PackageInv, VerifyPartition
    PROVE  PackageInv'
<1> USE DEF VerifyPartition, stable, flashVars, volatile
<1>1. ~done /\ PackageTypeOK /\ InSession /\ pc # "off" /\ todo # <<>> /\ Item \in Names \ {"dtb"}
  BY NotDone, SMTT(60) DEF PackageInv, InSession, TodoInv
<1>2. diskInited' \in BOOLEAN /\ dtbLoaded' \in BOOLEAN
  BY <1>1, SMTT(60) DEF PackageTypeOK
<1>3. CASE Finish("fail")
  BY <1>1, <1>2, <1>3, SessionFails, SMTT(60)
<1>4. CASE VerifyPasses(Item) /\ pc' = "burn" /\ todo' = Tail(todo) /\ UNCHANGED <<report, done>>
  <2>1. todo' \in Seq(Names \cup {"clear"})
    BY <1>1, <1>4, SMTT(60) DEF PackageTypeOK
  <2>2. PackageTypeOK'
    BY <1>1, <1>2, <1>4, <2>1, FlowType, SMTT(60) DEF PackageTypeOK
  <2>3. Item \in cfg.small \/ flash[Item] \in BurnResults(Item)
    BY SMTT(60) DEF PackageInv, TodoInv, InSession
  <2>4. Settled(Item)
    BY <1>4, <2>3, SMTT(60) DEF VerifyPasses, Settled, Burned, BurnResults
  <2>5. \A n \in Names \ {"dtb"} : Settled(n) => Settled(n)'
    BY DEF Settled, Burned, Verified
  <2>6. \A n \in Names \ {"dtb"} : n = Item => Settled(n)'
    BY <2>4, <2>5, SMTT(60)
  <2>7. NewBootloaderHasData'
    BY DEF PackageInv, NewBootloaderHasData, DataBurned, Burned, Verified
  <2>8. RecoveryKept' /\ Bootable' = Bootable
    BY DEF PackageInv, RecoveryKept, Bootable
  <2> QED
    BY <1>1, <1>4, <2>2, <2>5, <2>6, <2>7, <2>8, PopStep, SMTT(60)
<1> QED
  BY <1>3, <1>4, SMTT(60)

\* SaveDtb preserves the inductive invariant: it touches the device tree only.
LEMMA SaveDtbIInv ==
    ASSUME PackageInv, SaveDtb
    PROVE  PackageInv'
<1> USE DEF SaveDtb, stable
<1>1. ~done /\ PackageTypeOK /\ InSession /\ pc # "off" /\ cfg.source = "store"
  <2>1. ~done /\ PackageTypeOK /\ InSession /\ pc # "off"
    BY NotDone DEF PackageInv, InSession
  <2> QED
    BY <2>1, ItemFacts, SMTT(60) DEF Config, Source
<1>2. diskInited' \in BOOLEAN /\ dtbLoaded' \in BOOLEAN
  <2>1. dtbLoaded \in BOOLEAN /\ diskInited \in BOOLEAN
    BY <1>1 DEF PackageTypeOK
  <2>2. diskInited' = diskInited /\ dtbLoaded' = (dtbLoaded \/ cfg.dtb)
    BY ZenonT(60)
  <2> QED
    BY <2>1, <2>2, ZenonT(60)
<1>3. flash \in [Names -> Contents] /\ {"new", "part"} \subseteq Contents /\ "dtb" \in Names
  BY <1>1 DEF PackageTypeOK, Contents, Names
<1>4. CASE Finish("fail") /\ UNCHANGED flash
  BY <1>1, <1>2, <1>4, SessionFails, SMTT(60)
<1>5. CASE Return /\ flash' = [flash EXCEPT !["dtb"] = "part"]
  <2>1. flash' \in [Names -> Contents]
    BY <1>3, <1>5, SMTT(60)
  <2>2. PackageTypeOK'
    BY <1>1, <1>2, <1>5, <2>1, FlowType, SMTT(60) DEF PackageTypeOK
  <2>3. ~done' /\ pc' = "idle"
    BY <1>1, <1>5, SMTT(60) DEF Return
  <2>4. RecoveryKept'
    BY <1>3, <1>5, SMTT(60) DEF PackageInv, RecoveryKept, Recovery
  <2> QED
    BY <1>1, <2>2, <2>3, <2>4, OutsideUnburned, SMTT(60) DEF InSession
<1>6. CASE /\ todo' = Tail(todo) /\ UNCHANGED <<pc, report, done>>
           /\ flash' = IF dtbLoaded' THEN [flash EXCEPT !["dtb"] = "new"] ELSE flash
  <2>1. flash' = flash \/ flash' = [flash EXCEPT !["dtb"] = "new"]
    BY <1>6, ZenonT(60)
  <2>2. flash' \in [Names -> Contents] /\ \A n \in Names \ {"dtb"} : flash'[n] = flash[n]
    BY <1>3, <2>1, SMTT(60)
  <2>3. todo' \in Seq(Names \cup {"clear"})
    BY <1>1, <1>6, SMTT(60) DEF PackageTypeOK
  <2>4. PackageTypeOK'
    BY <1>1, <1>2, <1>6, <2>2, <2>3, FlowType, SMTT(60) DEF PackageTypeOK
  <2>5. \A n \in Names \ {"dtb"} : Settled(n) => Settled(n)'
    BY <2>2 DEF Settled, Burned, Verified
  <2>6. "bootloader" \in Names \ {"dtb"}
    BY DEF Names
  <2>7. NewBootloaderHasData'
    BY <1>1 DEF NewBootloaderHasData
  <2>8. Bootable' = Bootable
    BY <2>2, <2>6, SMTT(60) DEF Bootable
  <2>9. RecoveryKept'
    BY <2>2 DEF PackageInv, RecoveryKept, Recovery, Names
  <2>10. pc' = "burn" /\ ~done' /\ boot' = boot /\ todo' = Tail(todo)
    BY <1>1, <1>6, SMTT(60)
  <2> QED
    BY <1>1, <2>4, <2>5, <2>7, <2>8, <2>9, <2>10, PopStep, SMTT(60)
<1> QED
  BY <1>4, <1>5, <1>6, SMTT(60)

\* ClearUsrData preserves the inductive invariant.
LEMMA ClearUsrDataIInv ==
    ASSUME PackageInv, ClearUsrData
    PROVE  PackageInv'
<1> USE DEF ClearUsrData, stable, volatile
<1>1. ~done /\ PackageTypeOK /\ InSession /\ pc # "off" /\ cfg.source = "store"
  <2>1. ~done /\ PackageTypeOK /\ InSession /\ pc # "off"
    BY NotDone DEF PackageInv, InSession
  <2> QED
    BY <2>1, ItemFacts DEF Config, Source
<1>2. diskInited' \in BOOLEAN /\ dtbLoaded' \in BOOLEAN
  BY <1>1 DEF PackageTypeOK
<1>3. flash \in [Names -> Contents] /\ "none" \in Contents /\ "bootloader" \in Names
  BY <1>1, SMTT(60) DEF PackageTypeOK, Contents, Names
<1>4. flash' \in [Names -> Contents] /\ \A n \in Names : n # "data" => flash'[n] = flash[n]
  BY <1>3
<1>5. todo' \in Seq(Names \cup {"clear"})
  BY <1>1, SMTT(60) DEF PackageTypeOK
<1>6. PackageTypeOK'
  BY <1>1, <1>2, <1>4, <1>5, FlowType, SMTT(60) DEF PackageTypeOK
<1>7. \A n \in Names \ {"dtb"} : Settled(n) => Settled(n)'
  BY <1>1, <1>4, SMTT(60) DEF Settled, Burned, Verified
<1>8. Item \notin Names
  BY PackageAssumption DEF Names
<1>9. NewBootloaderHasData'
  BY <1>1 DEF NewBootloaderHasData
<1>10. Bootable' = Bootable
  BY <1>3, <1>4, SMTT(60) DEF Bootable
<1>11. RecoveryKept'
  BY <1>4, SMTT(60) DEF PackageInv, RecoveryKept, Recovery, Names
<1> QED
  BY <1>1, <1>6, <1>7, <1>8, <1>9, <1>10, <1>11, PopStep, SMTT(60)

\* SetBurnCompleteFlag preserves the inductive invariant: nothing is left to
\* burn when success is reported.
LEMMA SetBurnCompleteFlagIInv ==
    ASSUME PackageInv, SetBurnCompleteFlag
    PROVE  PackageInv'
<1> USE DEF SetBurnCompleteFlag, stable, volatile
<1>1. ~done /\ PackageTypeOK /\ InSession /\ pc # "off"
  BY NotDone, SMTT(60) DEF PackageInv, InSession
<1>2. diskInited' \in BOOLEAN /\ dtbLoaded' \in BOOLEAN
  BY <1>1 DEF PackageTypeOK
<1>3. env' \in {env, NoEnv, SavedEnv}
  OBVIOUS
<1>4. env' \in [owner : {"old", "none", "new"}, step : 0 .. 2]
  BY <1>1, <1>3, SMTT(60) DEF PackageTypeOK, NoEnv, SavedEnv
<1>5. PackageTypeOK'
  BY <1>1, <1>2, <1>4, FlowType, SMTT(60) DEF PackageTypeOK
<1>6. pc' \in {"success", "failed"} /\ (pc' = "failed" => ~done')
  BY <1>1, ZenonT(60) DEF Finish
<1>7. DoneInv'
  <2> SUFFICES ASSUME done' PROVE DoneInv'
    BY DEF DoneInv
  <2>1. pc' = "success"
    BY <1>6, SMTT(60)
  <2>2. ASSUME NEW n \in Names \ {"dtb"}, Wanted(n) PROVE Settled(n)'
    <3>1. ~InTodo(n)
      BY DEF InTodo
    <3>2. Settled(n)
      BY <1>1, <2>2, <3>1, SMTT(60) DEF PackageInv, ProgressInv
    <3> QED
      BY <3>2, SMTT(60) DEF Settled, Burned, Verified
  <2>3. cfg.hasBootloader => env' = SavedEnv
    BY <2>1, SMTT(60) DEF Finish
  <2>4. SavedEnv.owner = "new" \/ SavedEnv.step = 1
    BY DEF SavedEnv
  <2> QED
    BY <2>1, <2>2, <2>3, <2>4, SMTT(60) DEF DoneInv, Wanted, Names
<1>8. ~InSession'
  BY <1>6, SMTT(60) DEF InSession
<1> QED
  BY <1>5, <1>6, <1>7, <1>8, Outside, SMTT(60)

\* The initial states satisfy the inductive invariant.
LEMMA InitIInv == PackageInit => PackageInv
<1> SUFFICES ASSUME PackageInit PROVE PackageInv
  OBVIOUS
<1> USE DEF PackageInit
<1>1. PackageTypeOK
  <2>1. diskInited \in BOOLEAN /\ dtbLoaded \in BOOLEAN /\ done \in BOOLEAN
    BY ZenonT(60)
  <2>2. flash \in [Names -> Contents] /\ cuts \in 0 .. MaxCuts
    BY PackageAssumption, SMTT(60) DEF Contents
  <2>3. todo \in Seq(Names \cup {"clear"})
    OBVIOUS
  <2>4. /\ cfg \in Configs
        /\ env \in [owner : {"old", "none", "new"}, step : 0 .. 2]
        /\ boot \in {"off", "flash", "sd"}
        /\ pc \in {"off", "idle", "parse", "erase", "open", "init", "burn", "write",
                   "verify", "success", "failed"}
        /\ (boot = "off") <=> (pc = "off")
        /\ report \in {"none", "success", "failed"}
    OBVIOUS
  <2> QED
    BY <2>1, <2>2, <2>3, <2>4, ZenonT(60) DEF PackageTypeOK
<1>2. ~done
  OBVIOUS
<1>3. flash["bootloader"] = "old" /\ (Recovery \in Data => flash[Recovery] = "old")
  BY DEF Names
<1> QED
  BY <1>1, <1>2, <1>3, SMTT(60)
  DEF PackageInv, TodoInv, ProgressInv, DoneInv, CardInv, NewBootloaderHasData, InSession

\* Every step, and every stuttering step, preserves the inductive invariant.
LEMMA NextIInv == PackageInv /\ [PackageNext]_packageVars => PackageInv'
<1> SUFFICES ASSUME PackageInv, [PackageNext]_packageVars PROVE PackageInv'
  OBVIOUS
<1>1. CASE UNCHANGED packageVars
  <2>1. PackageTypeOK'
    BY <1>1, SMTT(60) DEF packageVars, PackageInv, PackageTypeOK
  <2>2. TodoInv'
    BY <1>1, SMTT(60) DEF packageVars, PackageInv, TodoInv, InSession, BurnResults, Wanted, Item
  <2>3. ProgressInv'
    BY <1>1, SMTT(60) DEF packageVars, PackageInv, ProgressInv, InSession, Wanted, InTodo, Settled, Burned, Verified
  <2>4. DoneInv'
    BY <1>1, SMTT(60) DEF packageVars, PackageInv, DoneInv, Wanted, Settled, Burned, Verified
  <2>5. CardInv'
    BY <1>1, SMTT(60) DEF packageVars, PackageInv, CardInv, InSession, Bootable
  <2>6. NewBootloaderHasData'
    <3>1. cfg' = cfg /\ flash' = flash
      BY <1>1, SMTT(60) DEF packageVars
    <3>2. DataBurned' <=> DataBurned
      BY <3>1, SMTT(60) DEF DataBurned, Burned, Verified
    <3> QED
      BY <3>1, <3>2, SMTT(60) DEF PackageInv, NewBootloaderHasData
  <2>7. (cfg.source = "store" /\ Recovery \in Data => flash[Recovery] = "old")'
    BY <1>1, SMTT(60) DEF packageVars, PackageInv
  <2> QED
    BY <2>1, <2>2, <2>3, <2>4, <2>5, <2>6, <2>7, SMTT(60) DEF PackageInv
<1>2. CASE PackageNext
  BY <1>2, PowerOnIInv, PowerCutIInv, BurnCmdIInv, BurnCompleteIInv, ParseIniCfgFileIInv,
     EraseBootloaderIInv, OpenImageIInv, StorageInitIInv, BurnBeginIInv, BurnEndIInv,
     VerifyPartitionIInv, SaveDtbIInv, ClearUsrDataIInv, SetBurnCompleteFlagIInv, SMTT(60), SMTT(60)
  DEF PackageNext, Step
<1> QED
  BY <1>1, <1>2, SMTT(60)

\* The inductive invariant holds in every reachable state, for all partitions
\* and packages and any number of power cuts.
THEOREM Invariance == PackageSpec => []PackageInv
BY InitIInv, NextIInv, PTL DEF PackageSpec

\* The state of the package burn always has its type.
THEOREM TypeCorrect == PackageSpec => []PackageTypeOK
<1>1. PackageInv => PackageTypeOK
  BY SMTT(60) DEF PackageInv
<1> QED
  BY <1>1, Invariance, PTL

\* optimus_burn_with_cfg_file with erase_bootloader: wherever the power was
\* cut, a flash with the new bootloader has all the data partitions.
THEOREM NewBootloaderSafe == PackageSpec => []NewBootloaderHasData
<1>1. PackageInv => NewBootloaderHasData
  BY SMTT(60) DEF PackageInv
<1> QED
  BY <1>1, Invariance, PTL

\* A burn reported as successful has burned every partition, the media image
\* and the bootloader, verified where the package has a sum.
THEOREM SuccessSafe == PackageSpec => []SuccessIntact
<1>1. PackageInv => SuccessIntact
  <2> SUFFICES ASSUME PackageInv, done PROVE SuccessIntact
    BY DEF SuccessIntact
  <2>1. cfg \in Configs /\ cfg \in Config
    BY PackageAssumption DEF PackageInv, PackageTypeOK
  <2>2. \A n \in Names \ {"dtb"} : Wanted(n) => Settled(n)
    BY DEF PackageInv, DoneInv
  <2>3. ASSUME cfg.items # <<>>, NEW i \in DOMAIN PartsToBurn(cfg)
        PROVE  \/ Burned(PartsToBurn(cfg)[i])
               \/ cfg.source = "store" /\ PartsToBurn(cfg)[i] = "data"
    <3>1. PartsToBurn(cfg)[i] \in Names \ {"dtb"}
      BY <2>1, PartsFacts, PackageAssumption, SMTT(60) DEF Names
    <3>2. Wanted(PartsToBurn(cfg)[i])
      BY <2>1, <2>3, TodoFacts, SMTT(60) DEF Wanted, IsWanted
    <3> QED
      BY <2>2, <3>1, <3>2, SMTT(60) DEF Settled
  <2>4. cfg.hasBootloader => Burned("bootloader")
    BY <2>1, <2>2, TodoFacts, SMTT(60) DEF Wanted, IsWanted, Settled, Names
  <2>5. cfg.source = "sdmmc" /\ cfg.media => Burned("media")
    BY <2>1, <2>2, TodoFacts, SMTT(60) DEF Wanted, IsWanted, Settled, Names
  <2> QED
    BY <2>3, <2>4, <2>5, SMTT(60) DEF SuccessIntact
<1> QED
  BY <1>1, Invariance, PTL

\* After a successful burn the new u-boot never runs on an older environment.
THEOREM EnvSafe == PackageSpec => []EnvFresh
<1>1. PackageInv => EnvFresh
  BY SMTT(60) DEF PackageInv, DoneInv, EnvFresh
<1> QED
  BY <1>1, Invariance, PTL

\* As long as the flash has a bootloader, an interrupted recovery finds its
\* package where it was.
THEOREM RecoverySafe == PackageSpec => []RecoveryCanRestart
<1>1. PackageInv => RecoveryCanRestart
  BY DEF PackageInv, RecoveryCanRestart
<1> QED
  BY <1>1, Invariance, PTL
=============================================================================
