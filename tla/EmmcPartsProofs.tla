-------------------------- MODULE EmmcPartsProofs --------------------------
(***************************************************************************)
(* The partitions of the eMMC, proved for every inherent table, every size *)
(* of the medium and of the stored table, every set of device trees within *)
(* the assumptions of EmmcParts, and any number of faults and restarts.    *)
(*                                                                         *)
(* PartsInv is the inductive invariant: the layout in use is one of a      *)
(* device tree, and the blocks written so far hold it.  What the loops of  *)
(* mmc_get_partition_table compute is shown by counting up their turns,    *)
(* which rests on every set of numbers having a least one.                 *)
(***************************************************************************)
EXTENDS EmmcParts, TLAPS, WellFoundedInduction

-----------------------------------------------------------------------------
(* Counting.                                                                 *)

\* Every set of numbers that is not empty has a least one.
LEMMA Least ==
    ASSUME NEW T \in SUBSET Nat, T # {}
    PROVE  \E x \in T : \A y \in T : x <= y
<1> DEFINE R == OpToRel(<, Nat)
<1>1. IsWellFoundedOn(R, Nat)
  BY NatLessThanWellFounded, Zenon
<1>2. \A y, x \in Nat : y < x => <<y, x>> \in R
  BY DEF OpToRel
<1> HIDE DEF R
<1>3. PICK x \in T : \A y \in T : ~ (<<y, x>> \in R)
  BY <1>1, WFMin, ZenonT(60)
<1>4. ASSUME NEW y \in T PROVE x <= y
  <2>1. x \in Nat /\ y \in Nat /\ ~(y < x)
    BY <1>2, <1>3, ZenonT(60)
  <2> QED
    BY <2>1
<1> QED
  BY <1>3, <1>4

\* Counting up to a number.
LEMMA CountUp ==
    ASSUME NEW n \in Nat, NEW S, 0 \in S, \A k \in 1 .. n : k - 1 \in S => k \in S
    PROVE  \A k \in 0 .. n : k \in S
<1> DEFINE T == (0 .. n) \ S
<1>1. SUFFICES ASSUME T # {} PROVE FALSE
  OBVIOUS
<1>2. T \in SUBSET Nat
  OBVIOUS
<1>3. PICK x \in T : \A y \in T : x <= y
  BY <1>1, <1>2, Least, Zenon
<1>4. x \in 1 .. n /\ x - 1 \in 0 .. n
  OBVIOUS
<1>5. x - 1 \notin T
  BY <1>3, <1>4
<1> QED
  BY <1>4, <1>5

\* What a device tree and the inherent table are.
LEMMA TreesAre ==
    /\ Inherent \in Seq(PartEntry) /\ Len(Inherent) \in Nat
    /\ \A i \in 1 .. Len(Inherent) : Inherent[i] \in PartEntry /\ Inherent[i].name \in InherentNames
    /\ \A d \in Dtbs : /\ d \in Seq(PartEntry) /\ Len(d) \in Nat \ {0}
                       /\ \A i \in 1 .. Len(d) : d[i] \in PartEntry
<1>1. Inherent \in Seq(PartEntry) /\ Dtbs \subseteq Seq(PartEntry)
  BY PartsAssumption
<1>2. \A i \in 1 .. Len(Inherent) : Inherent[i] \in PartEntry /\ Inherent[i].name \in InherentNames
  BY <1>1 DEF InherentNames, Range1
<1>3. ASSUME NEW d \in Dtbs
      PROVE  d \in Seq(PartEntry) /\ Len(d) \in Nat \ {0} /\ \A i \in 1 .. Len(d) : d[i] \in PartEntry
  <2>1. d # <<>>
    BY PartsAssumption DEF None
  <2>2. d \in Seq(PartEntry)
    BY <1>1
  <2> QED
    BY <2>1, <2>2
<1> QED
  BY <1>1, <1>2, <1>3

\* The loop over the inherent table: one Place a turn.
LEMMA InheritedIs ==
    ASSUME NEW sz
    PROVE  LET f == Inherited(sz)
               e(k) == [name |-> Inherent[k].name, size |-> sz[Inherent[k].name]]
           IN f[0] = <<>> /\ \A k \in 1 .. Len(Inherent) : f[k] = Place(f[k - 1], e(k))
<1> DEFINE n == Len(Inherent)
           e(k) == [name |-> Inherent[k].name, size |-> sz[Inherent[k].name]]
           a == <<>>
           Step(k, v) == Place(v, e(k))
           Is(g, m) == g = [k \in 0 .. m |-> IF k = 0 THEN a ELSE Step(k, g[k - 1])]
           S == {m \in 0 .. n : \E g : Is(g, m)}
<1>1. n \in Nat
  BY TreesAre
<1>2. Inherited(sz) = CHOOSE g : Is(g, n)
  BY Zenon DEF Inherited
<1> HIDE DEF n, a, Step
<1>3. 0 \in S
  <2>1. Is([k \in 0 .. 0 |-> a], 0)
    OBVIOUS
  <2>2. 0 \in 0 .. n
    BY <1>1
  <2> HIDE DEF Is
  <2> QED
    BY <2>1, <2>2, Zenon
<1>4. ASSUME NEW m \in 1 .. n, m - 1 \in S PROVE m \in S
  <2>1. PICK g : Is(g, m - 1)
    BY <1>4
  <2> DEFINE h == [k \in 0 .. m |-> IF k = m THEN Step(m, g[m - 1]) ELSE g[k]]
  <2>2. \A k \in 0 .. m : h[k] = IF k = 0 THEN a ELSE Step(k, h[k - 1])
    BY <1>1, <2>1
  <2>3. Is(h, m)
    BY <2>2
  <2>4. m \in 0 .. n
    BY <1>1
  <2> HIDE DEF Is, h
  <2> QED
    BY <2>3, <2>4, Zenon
<1>5. n \in S
  <2> HIDE DEF S
  <2>1. \A k \in 0 .. n : k \in S
    BY <1>1, <1>3, <1>4, CountUp, Zenon
  <2> QED
    BY <1>1, <2>1
<1>6. PICK g : Is(g, n)
  BY <1>5
<1> HIDE DEF Is
<1>7. Is(Inherited(sz), n)
  BY <1>2, <1>6, Zenon
<1> USE DEF Is
<1>8. /\ Inherited(sz)[0] = a
      /\ \A k \in 1 .. n : Inherited(sz)[k] = Step(k, Inherited(sz)[k - 1])
  BY <1>1, <1>7
<1> QED
  BY <1>8, Zenon DEF n, a, Step

\* The loop over the device tree: one Turn a turn.
LEMMA TurnsAre ==
    ASSUME NEW sz, NEW d \in Dtbs
    PROVE  LET f == Turns(sz, d)
           IN /\ f[0] = [parts |-> Inherited(sz)[Len(Inherent)], done |-> FALSE]
              /\ \A k \in 1 .. Len(d) : f[k] = Turn(f[k - 1], d[k])
<1> DEFINE n == Len(d)
           a == [parts |-> Inherited(sz)[Len(Inherent)], done |-> FALSE]
           Step(k, v) == Turn(v, d[k])
           Is(g, m) == g = [k \in 0 .. m |-> IF k = 0 THEN a ELSE Step(k, g[k - 1])]
           S == {m \in 0 .. n : \E g : Is(g, m)}
<1>1. n \in Nat
  BY TreesAre
<1>2. Turns(sz, d) = CHOOSE g : Is(g, n)
  BY Zenon DEF Turns
<1> HIDE DEF n, a, Step
<1>3. 0 \in S
  <2>1. Is([k \in 0 .. 0 |-> a], 0)
    OBVIOUS
  <2>2. 0 \in 0 .. n
    BY <1>1
  <2> HIDE DEF Is
  <2> QED
    BY <2>1, <2>2, Zenon
<1>4. ASSUME NEW m \in 1 .. n, m - 1 \in S PROVE m \in S
  <2>1. PICK g : Is(g, m - 1)
    BY <1>4
  <2> DEFINE h == [k \in 0 .. m |-> IF k = m THEN Step(m, g[m - 1]) ELSE g[k]]
  <2>2. \A k \in 0 .. m : h[k] = IF k = 0 THEN a ELSE Step(k, h[k - 1])
    BY <1>1, <2>1
  <2>3. Is(h, m)
    BY <2>2
  <2>4. m \in 0 .. n
    BY <1>1
  <2> HIDE DEF Is, h
  <2> QED
    BY <2>3, <2>4, Zenon
<1>5. n \in S
  <2> HIDE DEF S
  <2>1. \A k \in 0 .. n : k \in S
    BY <1>1, <1>3, <1>4, CountUp, Zenon
  <2> QED
    BY <1>1, <2>1
<1>6. PICK g : Is(g, n)
  BY <1>5
<1> HIDE DEF Is
<1>7. Is(Turns(sz, d), n)
  BY <1>2, <1>6, Zenon
<1> USE DEF Is
<1>8. /\ Turns(sz, d)[0] = a
      /\ \A k \in 1 .. n : Turns(sz, d)[k] = Step(k, Turns(sz, d)[k - 1])
  BY <1>1, <1>7
<1> QED
  BY <1>8, Zenon DEF n, a, Step

\* Where the inherent partitions end.
LEMMA BehindIs ==
    ASSUME NEW sz
    PROVE  LET f == Behind(sz)
           IN /\ f[0] = 0
              /\ \A k \in 1 .. Len(Inherent) :
                    f[k] = f[k - 1] + sz[Inherent[k].name] + GapBehind(Inherent[k])
<1> DEFINE n == Len(Inherent)
           a == 0
           Step(k, v) == v + sz[Inherent[k].name] + GapBehind(Inherent[k])
           Is(g, m) == g = [k \in 0 .. m |-> IF k = 0 THEN a ELSE Step(k, g[k - 1])]
           S == {m \in 0 .. n : \E g : Is(g, m)}
<1>1. n \in Nat
  BY TreesAre
<1>2. Behind(sz) = CHOOSE g : Is(g, n)
  BY Zenon DEF Behind
<1> HIDE DEF n, a, Step
<1>3. 0 \in S
  <2>1. Is([k \in 0 .. 0 |-> a], 0)
    OBVIOUS
  <2>2. 0 \in 0 .. n
    BY <1>1
  <2> HIDE DEF Is
  <2> QED
    BY <2>1, <2>2, Zenon
<1>4. ASSUME NEW m \in 1 .. n, m - 1 \in S PROVE m \in S
  <2>1. PICK g : Is(g, m - 1)
    BY <1>4
  <2> DEFINE h == [k \in 0 .. m |-> IF k = m THEN Step(m, g[m - 1]) ELSE g[k]]
  <2>2. \A k \in 0 .. m : h[k] = IF k = 0 THEN a ELSE Step(k, h[k - 1])
    BY <1>1, <2>1
  <2>3. Is(h, m)
    BY <2>2
  <2>4. m \in 0 .. n
    BY <1>1
  <2> HIDE DEF Is, h
  <2> QED
    BY <2>3, <2>4, Zenon
<1>5. n \in S
  <2> HIDE DEF S
  <2>1. \A k \in 0 .. n : k \in S
    BY <1>1, <1>3, <1>4, CountUp, Zenon
  <2> QED
    BY <1>1, <2>1
<1>6. PICK g : Is(g, n)
  BY <1>5
<1> HIDE DEF Is
<1>7. Is(Behind(sz), n)
  BY <1>2, <1>6, Zenon
<1> USE DEF Is
<1>8. /\ Behind(sz)[0] = a
      /\ \A k \in 1 .. n : Behind(sz)[k] = Step(k, Behind(sz)[k - 1])
  BY <1>1, <1>7
<1> QED
  BY <1>8, Zenon DEF n, a, Step

\* How many partitions of a device tree are its own.
LEMMA OthersAre ==
    ASSUME NEW d \in Dtbs
    PROVE  LET f == Others(d)
           IN /\ f[0] = 0
              /\ \A k \in 1 .. Len(d) :
                    f[k] = f[k - 1] + (IF d[k].name \in InherentNames THEN 0 ELSE 1)
<1> DEFINE n == Len(d)
           a == 0
           Step(k, v) == v + (IF d[k].name \in InherentNames THEN 0 ELSE 1)
           Is(g, m) == g = [k \in 0 .. m |-> IF k = 0 THEN a ELSE Step(k, g[k - 1])]
           S == {m \in 0 .. n : \E g : Is(g, m)}
<1>1. n \in Nat
  BY TreesAre
<1>2. Others(d) = CHOOSE g : Is(g, n)
  BY Zenon DEF Others
<1> HIDE DEF n, a, Step
<1>3. 0 \in S
  <2>1. Is([k \in 0 .. 0 |-> a], 0)
    OBVIOUS
  <2>2. 0 \in 0 .. n
    BY <1>1
  <2> HIDE DEF Is
  <2> QED
    BY <2>1, <2>2, Zenon
<1>4. ASSUME NEW m \in 1 .. n, m - 1 \in S PROVE m \in S
  <2>1. PICK g : Is(g, m - 1)
    BY <1>4
  <2> DEFINE h == [k \in 0 .. m |-> IF k = m THEN Step(m, g[m - 1]) ELSE g[k]]
  <2>2. \A k \in 0 .. m : h[k] = IF k = 0 THEN a ELSE Step(k, h[k - 1])
    BY <1>1, <2>1
  <2>3. Is(h, m)
    BY <2>2
  <2>4. m \in 0 .. n
    BY <1>1
  <2> HIDE DEF Is, h
  <2> QED
    BY <2>3, <2>4, Zenon
<1>5. n \in S
  <2> HIDE DEF S
  <2>1. \A k \in 0 .. n : k \in S
    BY <1>1, <1>3, <1>4, CountUp, Zenon
  <2> QED
    BY <1>1, <2>1
<1>6. PICK g : Is(g, n)
  BY <1>5
<1> HIDE DEF Is
<1>7. Is(Others(d), n)
  BY <1>2, <1>6, Zenon
<1> USE DEF Is
<1>8. /\ Others(d)[0] = a
      /\ \A k \in 1 .. n : Others(d)[k] = Step(k, Others(d)[k - 1])
  BY <1>1, <1>7
<1> QED
  BY <1>8, Zenon DEF n, a, Step

-----------------------------------------------------------------------------
(* The layout. *)

\* A partition with its place.
Placed == [name : STRING, size : 0 .. Full, offset : 0 .. Full]

\* What every size of an inherent partition is.
LEMMA SizesAre ==
    ASSUME NEW sz \in Sizes, NEW n \in InherentNames
    PROVE  sz[n] \in Given(n) /\ sz[n] \in 0 .. Full
<1>1. sz[n] \in Given(n)
  BY DEF Sizes
<1>2. PICK q \in Range1(Inherent) \union UNION {Range1(d) : d \in Dtbs} : sz[n] = q.size
  BY <1>1 DEF Given
<1>3. q \in PartEntry
  BY <1>2, TreesAre DEF Range1
<1> QED
  BY <1>1, <1>2, <1>3 DEF PartEntry

\* Where the next partition begins.
NextOffset(parts) ==
    IF parts = <<>> THEN 0
    ELSE (Final(parts).offset + Final(parts).size + GapBehind(Final(parts))) % W

\* Place puts one partition behind what is there.
LEMMA PlaceIs ==
    ASSUME NEW parts \in Seq(Placed), NEW p, p.name \in STRING, p.size \in 0 .. Full
    PROVE  /\ Place(parts, p) \in Seq(Placed) /\ Len(Place(parts, p)) = Len(parts) + 1
           /\ \A i \in 1 .. Len(parts) : Place(parts, p)[i] = parts[i]
           /\ Place(parts, p)[Len(Place(parts, p))] =
                 [name |-> p.name, size |-> p.size, offset |-> NextOffset(parts)]
           /\ NextOffset(parts) \in 0 .. Full
<1> DEFINE o == NextOffset(parts)
           r == [name |-> p.name, size |-> p.size, offset |-> o]
<1>1. W \in Nat \ {0} /\ Gap \in Nat /\ BootGap \in Nat
  BY PartsAssumption
<1>2. o \in 0 .. Full
  <2>1. CASE parts = <<>>
    BY <1>1, <2>1 DEF Full, NextOffset
  <2>2. CASE parts # <<>>
    <3>1. Final(parts) \in Placed
      BY <2>2 DEF Final
    <3>2. Final(parts).offset \in Nat /\ Final(parts).size \in Nat /\ GapBehind(Final(parts)) \in Nat
      BY <1>1, <3>1 DEF Placed, GapBehind, Full
    <3> QED
      BY <1>1, <2>2, <3>2 DEF Full, NextOffset
  <2> QED
    BY <2>1, <2>2
<1>3. Place(parts, p) = Append(parts, r)
  BY DEF Place, NextOffset
<1> HIDE DEF o
<1>4. r \in Placed
  BY <1>2 DEF Placed
<1> HIDE DEF r
<1>5. /\ Append(parts, r) \in Seq(Placed) /\ Len(Append(parts, r)) = Len(parts) + 1
      /\ \A i \in 1 .. Len(parts) : Append(parts, r)[i] = parts[i]
      /\ Append(parts, r)[Len(parts) + 1] = r
  BY <1>4
<1> QED
  BY <1>2, <1>3, <1>5 DEF r, o

\* The first loop puts as many partitions as it makes turns.
LEMMA InheritedSeq ==
    ASSUME NEW sz \in Sizes, NEW k \in 0 .. Len(Inherent)
    PROVE  Inherited(sz)[k] \in Seq(Placed) /\ Len(Inherited(sz)[k]) = k
<1> DEFINE n == Len(Inherent)
           f == Inherited(sz)
           e(j) == [name |-> Inherent[j].name, size |-> sz[Inherent[j].name]]
           S == {j \in 0 .. n : f[j] \in Seq(Placed) /\ Len(f[j]) = j}
<1>1. n \in Nat /\ \A i \in 1 .. n : Inherent[i] \in PartEntry /\ Inherent[i].name \in InherentNames
  BY TreesAre
<1>2. f[0] = <<>> /\ \A j \in 1 .. n : f[j] = Place(f[j - 1], e(j))
  BY InheritedIs, Zenon
<1> HIDE DEF n, f
<1>3. 0 \in S
  <2>1. f[0] = <<>>
    BY <1>2
  <2>2. <<>> \in Seq(Placed) /\ Len(<<>>) = 0
    OBVIOUS
  <2>3. f[0] \in Seq(Placed) /\ Len(f[0]) = 0
    BY <2>1, <2>2, Zenon
  <2>4. 0 \in 0 .. n
    BY <1>1
  <2> QED
    BY <2>3, <2>4, Zenon
<1>4. ASSUME NEW j \in 1 .. n, j - 1 \in S PROVE j \in S
  <2>1. f[j - 1] \in Seq(Placed) /\ Len(f[j - 1]) = j - 1
    BY <1>4
  <2>2. e(j).name \in STRING /\ e(j).size \in 0 .. Full
    BY <1>1, SizesAre DEF PartEntry
  <2>3. f[j] = Place(f[j - 1], e(j))
    BY <1>2
  <2> HIDE DEF e
  <2>4. f[j] \in Seq(Placed) /\ Len(f[j]) = Len(f[j - 1]) + 1
    <3>1. /\ Place(f[j - 1], e(j)) \in Seq(Placed)
          /\ Len(Place(f[j - 1], e(j))) = Len(f[j - 1]) + 1
      BY <2>1, <2>2, PlaceIs, ZenonT(60)
    <3> QED
      BY <2>3, <3>1
  <2> QED
    BY <1>1, <2>1, <2>4
<1>5. \A j \in 0 .. n : j \in S
  <2> HIDE DEF S
  <2> QED
    BY <1>1, <1>3, <1>4, CountUp, Zenon
<1> QED
  BY <1>5 DEF n, f

\* A state of the second loop.
Laid == [parts : Seq(Placed), done : BOOLEAN]

\* What a turn that does not skip the partition p makes of s.
Puts(s, p, t) ==
    LET o == NextOffset(s.parts)
        cut == p.size = Full \/ (o + p.size) % W > Capacity
    IN /\ t.done = cut
       /\ Len(t.parts) = Len(s.parts) + 1
       /\ \A i \in 1 .. Len(s.parts) : t.parts[i] = s.parts[i]
       /\ t.parts[Len(t.parts)] =
             [name |-> p.name, offset |-> o, size |-> IF cut THEN (Capacity - o) % W ELSE p.size]

Skips(s, p) == s.done \/ p.name \in InherentNames

\* One turn skips a partition or puts it, cut to the rest or whole.
LEMMA TurnIs ==
    ASSUME NEW s \in Laid, NEW p \in PartEntry
    PROVE  /\ Turn(s, p) \in Laid
           /\ Skips(s, p) => Turn(s, p) = s
           /\ ~Skips(s, p) => Puts(s, p, Turn(s, p))
<1> DEFINE q == Place(s.parts, p)
           l == Len(q)
           o == NextOffset(s.parts)
           cut == p.size = Full \/ (o + p.size) % W > Capacity
           c == (Capacity - o) % W
           u == IF cut THEN [q EXCEPT ![l].size = c] ELSE q
<1>1. s.parts \in Seq(Placed) /\ s.done \in BOOLEAN /\ p.name \in STRING /\ p.size \in 0 .. Full
  BY DEF Laid, PartEntry
<1>2. W \in Nat \ {0} /\ Capacity \in Nat
  BY PartsAssumption
<1>3. /\ q \in Seq(Placed) /\ l = Len(s.parts) + 1
      /\ \A i \in 1 .. Len(s.parts) : q[i] = s.parts[i]
      /\ q[l] = [name |-> p.name, size |-> p.size, offset |-> o] /\ o \in 0 .. Full
  BY <1>1, PlaceIs, Zenon
<1>4. Turn(s, p) = IF s.done \/ p.name \in InherentNames THEN s
                   ELSE [parts |-> u, done |-> cut]
  <2>1. Final(q).offset = o /\ Final(q).size = p.size /\ Len(q) = l
    BY <1>3 DEF Final
  <2> QED
    BY <2>1, Zenon DEF Turn
<1> HIDE DEF q, l, o
<1>5. Len(s.parts) \in Nat /\ l \in 1 .. Len(q)
  BY <1>1, <1>3 DEF l
<1>6. q[l] \in Placed
  BY <1>3, <1>5
<1>7. c \in 0 .. Full
  BY <1>2, <1>3 DEF Full
<1> HIDE DEF c
<1>8. /\ u \in Seq(Placed) /\ Len(u) = l
      /\ \A i \in 1 .. Len(s.parts) : u[i] = s.parts[i]
      /\ u[l] = [name |-> p.name, offset |-> o, size |-> IF cut THEN c ELSE p.size]
  <2>1. CASE cut
    <3> DEFINE r == [q EXCEPT ![l].size = c]
    <3>1. [q[l] EXCEPT !.size = c] = [name |-> p.name, offset |-> o, size |-> c]
      BY <1>3
    <3>2. [q[l] EXCEPT !.size = c] \in Placed
      BY <1>3, <1>1, <1>7, <3>1 DEF Placed
    <3>3. r \in Seq(Placed) /\ Len(r) = Len(q) /\ r[l] = [q[l] EXCEPT !.size = c]
      BY <1>3, <1>5, <3>2
    <3>4. \A i \in 1 .. Len(s.parts) : r[i] = q[i]
      BY <1>3, <1>5
    <3>5. u = r
      BY <2>1
    <3> HIDE DEF cut, r, u
    <3> QED
      BY <1>3, <2>1, <3>1, <3>3, <3>4, <3>5 DEF l
  <2>2. CASE ~cut
    <3>1. u = q
      BY <2>2
    <3> HIDE DEF cut, u
    <3> QED
      BY <1>3, <1>6, <2>2, <3>1 DEF l
  <2> QED
    BY <2>1, <2>2
<1>9. cut \in BOOLEAN
  OBVIOUS
<1> HIDE DEF cut, u
<1>10. CASE Skips(s, p)
  <2>1. Turn(s, p) = s
    BY <1>4, <1>10 DEF Skips
  <2> QED
    BY <1>10, <2>1
<1>11. CASE ~Skips(s, p)
  <2>1. Turn(s, p) = [parts |-> u, done |-> cut]
    BY <1>4, <1>11 DEF Skips
  <2>2. Turn(s, p) \in Laid
    BY <1>8, <1>9, <2>1 DEF Laid
  <2>3. Turn(s, p).parts = u /\ Turn(s, p).done = cut
    BY <2>1
  <2>4. /\ Len(Turn(s, p).parts) = Len(s.parts) + 1
        /\ \A i \in 1 .. Len(s.parts) : Turn(s, p).parts[i] = s.parts[i]
        /\ Turn(s, p).parts[Len(Turn(s, p).parts)] =
              [name |-> p.name, offset |-> o, size |-> IF cut THEN c ELSE p.size]
    BY <1>3, <1>8, <2>3
  <2>5. Puts(s, p, Turn(s, p))
    BY <2>3, <2>4, Zenon DEF Puts, cut, c, o
  <2> QED
    BY <1>11, <2>2, <2>5
<1> QED
  BY <1>10, <1>11

\* After each turn of the second loop: how many partitions there are, and what
\* stays as it was.
LEMMA TurnsLaid ==
    ASSUME NEW sz \in Sizes, NEW d \in Dtbs, NEW k \in 0 .. Len(d)
    PROVE  /\ Turns(sz, d)[k] \in Laid
           /\ Others(d)[k] \in Nat
           /\ Len(Turns(sz, d)[k].parts) \in Len(Inherent) .. Len(Inherent) + Others(d)[k]
<1> DEFINE n == Len(Inherent)
           m == Len(d)
           f == Turns(sz, d)
           c == Others(d)
           S == {j \in 0 .. m : /\ f[j] \in Laid /\ c[j] \in Nat
                                /\ Len(f[j].parts) \in n .. n + c[j]}
<1>1. n \in Nat /\ m \in Nat /\ \A i \in 1 .. m : d[i] \in PartEntry
  BY TreesAre
<1>2. /\ f[0] = [parts |-> Inherited(sz)[n], done |-> FALSE]
      /\ \A j \in 1 .. m : f[j] = Turn(f[j - 1], d[j])
  BY TurnsAre, Zenon
<1>3. c[0] = 0 /\ \A j \in 1 .. m : c[j] = c[j - 1] + (IF d[j].name \in InherentNames THEN 0 ELSE 1)
  BY OthersAre, Zenon
<1>4. Inherited(sz)[n] \in Seq(Placed) /\ Len(Inherited(sz)[n]) = n
  BY <1>1, InheritedSeq
<1> HIDE DEF n, m, f, c
<1>5. 0 \in S
  <2>1. f[0] \in Laid /\ Len(f[0].parts) = n
    BY <1>2, <1>4 DEF Laid
  <2>2. c[0] = 0
    BY <1>3
  <2>3. 0 \in 0 .. m /\ c[0] \in Nat /\ n \in n .. n + c[0]
    BY <1>1, <2>2
  <2> QED
    BY <2>1, <2>3, Zenon
<1>6. ASSUME NEW j \in 1 .. m, j - 1 \in S PROVE j \in S
  <2>1. f[j - 1] \in Laid /\ c[j - 1] \in Nat /\ Len(f[j - 1].parts) \in n .. n + c[j - 1]
    BY <1>6
  <2>2. f[j] = Turn(f[j - 1], d[j]) /\ d[j] \in PartEntry
    BY <1>1, <1>2
  <2>3. c[j] = c[j - 1] + (IF d[j].name \in InherentNames THEN 0 ELSE 1)
    BY <1>3
  <2>4. /\ f[j] \in Laid
        /\ Skips(f[j - 1], d[j]) => f[j] = f[j - 1]
        /\ ~Skips(f[j - 1], d[j]) => Puts(f[j - 1], d[j], f[j])
    BY <2>1, <2>2, TurnIs, Zenon
  <2>7. j \in 0 .. m /\ c[j - 1] \in Nat
    BY <1>1, <2>1
  <2> DEFINE x == Len(f[j - 1].parts)
             y == Len(f[j].parts)
  <2>5. CASE Skips(f[j - 1], d[j])
    <3>1. y = x
      BY <2>4, <2>5
    <3> HIDE DEF x, y
    <3>2. c[j] \in Nat /\ y \in n .. n + c[j]
      BY <1>1, <2>1, <2>3, <3>1 DEF x
    <3> QED
      BY <2>4, <2>7, <3>2, Zenon DEF y
  <2>6. CASE ~Skips(f[j - 1], d[j])
    <3>1. y = x + 1
      BY <2>4, <2>6, Zenon DEF Puts
    <3>2. c[j] = c[j - 1] + 1
      BY <2>3, <2>6 DEF Skips
    <3>3. x \in n .. n + c[j - 1]
      BY <2>1
    <3> HIDE DEF x, y
    <3>4. c[j] \in Nat /\ y \in n .. n + c[j]
      <4>1. n \in Nat /\ c[j - 1] \in Nat
        BY <1>1, <2>7
      <4> QED
        BY <3>1, <3>2, <3>3, <4>1
    <3> QED
      BY <2>4, <2>7, <3>4, Zenon DEF y
  <2> QED
    BY <2>5, <2>6
<1>7. \A j \in 0 .. m : j \in S
  <2> HIDE DEF S
  <2> QED
    BY <1>1, <1>5, <1>6, CountUp, Zenon
<1> QED
  BY <1>7 DEF n, m, f, c

\* The tables the code can build and store.
Tables == {t \in Seq(Placed) : Len(t) <= MaxParts}

\* mmc_get_partition_table stays within the table.
LEMMA LayoutFits ==
    ASSUME NEW sz \in Sizes, NEW d \in Dtbs
    PROVE  Layout(sz, d) \in Tables /\ Len(Layout(sz, d)) >= Len(Inherent)
<1>1. Len(d) \in Nat /\ Len(Inherent) \in Nat
  BY TreesAre
<1>2. Len(d) \in 0 .. Len(d)
  BY <1>1
<1>3. /\ Turns(sz, d)[Len(d)] \in Laid
      /\ Others(d)[Len(d)] \in Nat
      /\ Len(Turns(sz, d)[Len(d)].parts) \in Len(Inherent) .. Len(Inherent) + Others(d)[Len(d)]
  BY <1>2, TurnsLaid, Zenon
<1>4. Len(Inherent) + Others(d)[Len(d)] <= MaxParts /\ MaxParts \in Nat
  BY PartsAssumption
<1>5. Layout(sz, d) \in Seq(Placed)
  BY <1>3 DEF Layout, Laid
<1>6. Len(Layout(sz, d)) \in Len(Inherent) .. Len(Inherent) + Others(d)[Len(d)]
  BY <1>3 DEF Layout
<1> QED
  BY <1>1, <1>3, <1>4, <1>5, <1>6 DEF Tables

-----------------------------------------------------------------------------
(* The table on the medium. *)

\* What is left of a storage initialisation, of the device tree command, of a
\* start and of the erase command.
Todos ==
    {<<>>, <<"init">>, <<"erase">>,
     <<"table">>, <<"dtb", "table">>,
     <<"init", "answer">>, <<"erase", "answer">>, <<"init", "erase", "answer">>,
     <<"answer">>, <<"table", "answer">>, <<"dtb", "table", "answer">>,
     <<"undtb", "dtb", "table", "answer">>,
     <<"erase", "undtb", "dtb", "table", "answer">>,
     <<"init", "undtb", "dtb", "table", "answer">>,
     <<"init", "erase", "undtb", "dtb", "table", "answer">>}

\* The table in memory is a layout of a device tree.
DataInv ==
    /\ disk \in [1 .. TableBlocks -> Tables]
    /\ dtb \in Dtbs \union {None} /\ table \in Dtbs \union {None} /\ tree \in Dtbs \union {None}
    /\ sizes \in Sizes
    /\ conf \in Tables
    /\ conf # None => \E sz \in Sizes, d \in Dtbs : conf = Layout(sz, d)
    /\ todo \in Todos /\ checked \in BOOLEAN

\* While it is written, the blocks before the next one hold it.
AtInv ==
    /\ at \in 0 .. TableBlocks
    /\ at > 0 => (Stage("init") /\ ~checked) \/ Stage("table")
    /\ \A b \in 1 .. at - 1 : disk[b] = conf

\* The inductive invariant.
PartsInv == DataInv /\ AtInv

\* A step ends with fewer steps to do.
LEMMA TodoTail ==
    ASSUME NEW t \in Todos, t # <<>>
    PROVE  /\ Tail(t) \in Todos /\ Tail(t) # t
           /\ Head(t) = "table" => Tail(t) # <<"init">>
<1>1. CASE t = <<"init">>
  BY <1>1 DEF Todos
<1>2. CASE t = <<"erase">>
  BY <1>2 DEF Todos
<1>3. CASE t = <<"table">>
  BY <1>3 DEF Todos
<1>4. CASE t = <<"answer">>
  BY <1>4 DEF Todos
<1>5. CASE t = <<"dtb", "table">>
  BY <1>5 DEF Todos
<1>6. CASE t = <<"init", "answer">>
  BY <1>6 DEF Todos
<1>7. CASE t = <<"table", "answer">>
  BY <1>7 DEF Todos
<1>8. CASE t = <<"dtb", "table", "answer">>
  BY <1>8 DEF Todos
<1>9. CASE t = <<"undtb", "dtb", "table", "answer">>
  BY <1>9 DEF Todos
<1>10. CASE t = <<"erase", "undtb", "dtb", "table", "answer">>
  BY <1>10 DEF Todos
<1>11. CASE t = <<"init", "undtb", "dtb", "table", "answer">>
  BY <1>11 DEF Todos
<1>12. CASE t = <<"init", "erase", "undtb", "dtb", "table", "answer">>
  BY <1>12 DEF Todos
<1>13. CASE t = <<"erase", "answer">>
  BY <1>13 DEF Todos
<1>14. CASE t = <<"init", "erase", "answer">>
  BY <1>14 DEF Todos
<1> QED
  BY <1>1, <1>2, <1>3, <1>4, <1>5, <1>6, <1>7, <1>8, <1>9, <1>10, <1>11, <1>12, <1>13, <1>14,
     Zenon DEF Todos

\* What a storage initialisation does is such a list.
LEMMA TodoInit ==
    ASSUME NEW d, NEW erase \in BOOLEAN
    PROVE  InitSteps(d, erase) \in Todos /\ InitSteps(d, erase) # <<>>
<1>1. InitSteps(d, erase) \in {<<"init", "answer">>, <<"init", "erase", "answer">>,
                              <<"init", "undtb", "dtb", "table", "answer">>,
                              <<"init", "erase", "undtb", "dtb", "table", "answer">>}
  BY DEF InitSteps
<1> QED
  BY <1>1 DEF Todos

\* find_partition_by_name returns an entry of that name when there is one.
LEMMA FindIs ==
    ASSUME NEW parts, Len(parts) \in Nat, NEW n, Has(parts, n)
    PROVE  Find(parts, n) \in Range1(parts) /\ Find(parts, n).name = n
<1> DEFINE T == {i \in 1 .. Len(parts) : parts[i].name = n}
           First(i) == parts[i].name = n /\ \A j \in 1 .. i - 1 : parts[j].name # n
           c == CHOOSE i \in 1 .. Len(parts) : First(i)
<1>1. T \in SUBSET Nat /\ T # {}
  BY DEF Has
<1>2. PICK x \in T : \A y \in T : x <= y
  BY <1>1, Least, Zenon
<1>3. x \in 1 .. Len(parts) /\ First(x)
  BY <1>2
<1> HIDE DEF First
<1>4. c \in 1 .. Len(parts) /\ First(c)
  BY <1>3, Zenon
<1>5. Find(parts, n) = parts[c]
  BY Zenon DEF Find, First
<1> HIDE DEF c
<1> QED
  BY <1>4, <1>5 DEF First, Range1

\* Overriding keeps the sizes within what is given.
LEMMA OverrideIs ==
    ASSUME NEW sz \in Sizes, NEW d \in Dtbs
    PROVE  Override(sz, d) \in Sizes
<1>1. ASSUME NEW n \in InherentNames PROVE Override(sz, d)[n] \in Given(n)
  <2>1. CASE Has(d, n)
    <3>1. Find(d, n) \in Range1(d) /\ Find(d, n).name = n
      BY <2>1, FindIs, TreesAre
    <3>2. Find(d, n) \in UNION {Range1(e) : e \in Dtbs}
      BY <3>1
    <3>3. Find(d, n).size \in Given(n)
      BY <3>1, <3>2 DEF Given
    <3> QED
      BY <2>1, <3>3 DEF Override
  <2>2. CASE ~Has(d, n)
    BY <2>2, SizesAre DEF Override
  <2> QED
    BY <2>1, <2>2
<1>2. Override(sz, d) = [n \in InherentNames |-> Override(sz, d)[n]]
  BY DEF Override
<1> QED
  BY <1>1, <1>2, Zenon DEF Sizes

\* The sizes in emmc_partition_table.
LEMMA StartSizes ==
    [n \in InherentNames |-> Find(Inherent, n).size] \in Sizes
<1> DEFINE z == [n \in InherentNames |-> Find(Inherent, n).size]
<1>1. ASSUME NEW n \in InherentNames PROVE Find(Inherent, n).size \in Given(n)
  <2>1. PICK i \in 1 .. Len(Inherent) : Inherent[i].name = n
    BY DEF InherentNames, Range1
  <2>2. Find(Inherent, n) \in Range1(Inherent) /\ Find(Inherent, n).name = n
    <3>1. Has(Inherent, n) /\ Len(Inherent) \in Nat
      BY <2>1, TreesAre DEF Has
    <3> QED
      BY <3>1, FindIs, Zenon
  <2> QED
    BY <2>2 DEF Given
<1> HIDE DEF z
<1> QED
  BY <1>1, Zenon DEF Sizes, z

\* The constants that count.
LEMMA CountsAre ==
    /\ TableBlocks \in Nat \ {0} /\ PerBlock \in Nat \ {0} /\ MaxParts \in Nat \ {0}
    /\ TableBlocks * PerBlock >= MaxParts
    /\ None \in Tables
    /\ [b \in 1 .. TableBlocks |-> None] \in [1 .. TableBlocks -> Tables]
<1>1. /\ TableBlocks \in Nat \ {0} /\ PerBlock \in Nat \ {0} /\ MaxParts \in Nat \ {0}
      /\ TableBlocks * PerBlock >= MaxParts
  BY PartsAssumption
<1>2. None \in Seq(Placed) /\ Len(None) = 0
  BY DEF None
<1>3. None \in Tables
  BY <1>1, <1>2 DEF Tables
<1> QED
  BY <1>1, <1>3

\* No table is being written.
LEMMA NotWriting ==
    ASSUME at = 0
    PROVE  AtInv
BY CountsAre DEF AtInv

LEMMA InitParts ==
    ASSUME EmmcPartsInit
    PROVE  PartsInv
<1>1. AtInv
  BY NotWriting DEF EmmcPartsInit
<1>2. sizes \in Sizes
  BY StartSizes DEF EmmcPartsInit
<1>3. DataInv
  BY <1>2, CountsAre, Zenon DEF EmmcPartsInit, DataInv, Todos
<1> QED
  BY <1>1, <1>3 DEF PartsInv

\* mmc_device_init returned.
LEMMA Returned ==
    ASSUME todo \in Todos, checked \in BOOLEAN, NEW s, Stage(s),
           NEW ok \in BOOLEAN, DeviceInitReturns(ok)
    PROVE  todo' \in Todos /\ at' = 0 /\ checked' \in BOOLEAN
<1>1. todo # <<>>
  BY DEF Stage
<1>2. Tail(todo) \in Todos
  BY <1>1, TodoTail, Zenon
<1>3. <<>> \in Todos
  BY DEF Todos
<1>4. todo' = Tail(todo) \/ todo' = <<>>
  BY DEF DeviceInitReturns, Answers
<1> QED
  BY <1>2, <1>3, <1>4, Zenon DEF DeviceInitReturns

\* The next step of a command.
LEMMA NextTodo ==
    ASSUME todo \in Todos, NEW s, Stage(s)
    PROVE  todo # <<>> /\ Head(todo) = s /\ Tail(todo) \in Todos
<1>1. todo # <<>> /\ Head(todo) = s
  BY DEF Stage
<1> QED
  BY <1>1, TodoTail, Zenon

LEMMA DeviceInitParts ==
    ASSUME PartsInv, DeviceInit
    PROVE  PartsInv'
<1> USE DEF PartsInv
<1>1. /\ table' \in Dtbs \union {None}
      /\ UNCHANGED <<disk, dtb, tree>>
  BY DEF DeviceInit, GetTable, DataInv
<1>2. PICK s : Stage(s) /\ ((s = "init" /\ ~checked) \/ s = "table") /\ at = 0
  BY DEF DeviceInit
<1>3. CASE table' = None
  <2>1. conf' = None /\ DeviceInitReturns(FALSE) /\ sizes' = sizes
    BY <1>3, Zenon DEF DeviceInit
  <2>2. todo' \in Todos /\ at' = 0 /\ checked' \in BOOLEAN
    BY <1>2, <2>1, Returned, Zenon DEF DataInv
  <2>3. DataInv'
    BY <1>1, <2>1, <2>2, CountsAre DEF DataInv
  <2>4. AtInv'
    BY <2>2, CountsAre DEF AtInv
  <2> QED
    BY <2>3, <2>4
<1>4. CASE table' # None
  <2>1. /\ sizes' = Override(sizes, table')
        /\ conf' = Layout(sizes', table')
        /\ \/ DeviceInitReturns(TRUE)
           \/ at' = 1 /\ UNCHANGED <<checked, todo>>
    BY <1>4, Zenon DEF DeviceInit
  <2>2. table' \in Dtbs
    BY <1>1, <1>4
  <2>3. sizes' \in Sizes
    BY <2>1, <2>2, OverrideIs DEF DataInv
  <2>4. conf' \in Tables
    BY <2>1, <2>2, <2>3, LayoutFits
  <2>5. \E sz \in Sizes, d \in Dtbs : conf' = Layout(sz, d)
    BY <2>1, <2>2, <2>3
  <2>6. CASE DeviceInitReturns(TRUE)
    <3>1. todo' \in Todos /\ at' = 0 /\ checked' \in BOOLEAN
      BY <1>2, <2>6, Returned, Zenon DEF DataInv
    <3>2. DataInv'
      BY <1>1, <2>3, <2>4, <2>5, <3>1 DEF DataInv
    <3>3. AtInv'
      BY <3>1, CountsAre DEF AtInv
    <3> QED
      BY <3>2, <3>3
  <2>7. CASE at' = 1 /\ UNCHANGED <<checked, todo>>
    <3>1. DataInv'
      BY <1>1, <2>3, <2>4, <2>5, <2>7 DEF DataInv
    <3>2. ((Stage("init") /\ ~checked) \/ Stage("table"))'
      BY <1>2, <2>7 DEF Stage
    <3>3. AtInv'
      BY <2>7, <3>2, CountsAre DEF AtInv
    <3> QED
      BY <3>1, <3>3
  <2> QED
    BY <2>1, <2>6, <2>7, Zenon
<1> QED
  BY <1>3, <1>4

LEMMA WriteBlockParts ==
    ASSUME PartsInv, WriteBlock
    PROVE  PartsInv'
<1> USE DEF PartsInv
<1>1. at \in 1 .. TableBlocks /\ TableBlocks \in Nat
  BY CountsAre DEF WriteBlock, AtInv
<1>2. PICK s : Stage(s) /\ ((s = "init" /\ ~checked) \/ s = "table")
  BY <1>1 DEF AtInv
<1>3. UNCHANGED <<dtb, table, sizes, conf, tree>>
  BY DEF WriteBlock
<1>4. disk' \in [1 .. TableBlocks -> Tables]
  BY Zenon DEF WriteBlock, DataInv
<1>5. CASE DeviceInitReturns(TRUE) \/ DeviceInitReturns(FALSE)
  <2>1. todo' \in Todos /\ at' = 0 /\ checked' \in BOOLEAN
    BY <1>2, <1>5, Returned, Zenon DEF DataInv
  <2>2. DataInv'
    BY <1>3, <1>4, <2>1 DEF DataInv
  <2>3. AtInv'
    BY <2>1, CountsAre DEF AtInv
  <2> QED
    BY <2>2, <2>3
<1>6. CASE /\ disk' = [disk EXCEPT ![at] = conf]
           /\ at < TableBlocks /\ at' = at + 1 /\ UNCHANGED <<checked, todo, reply>>
  <2>1. DataInv'
    BY <1>3, <1>4, <1>6 DEF DataInv
  <2>2. ((Stage("init") /\ ~checked) \/ Stage("table"))'
    BY <1>2, <1>6 DEF Stage
  <2>3. \A b \in 1 .. at : disk'[b] = conf'
    BY <1>1, <1>3, <1>6 DEF AtInv, DataInv
  <2>4. AtInv'
    BY <1>1, <1>6, <2>2, <2>3 DEF AtInv
  <2> QED
    BY <2>1, <2>4
<1> QED
  BY <1>5, <1>6, Zenon DEF WriteBlock

\* Whatever an erase leaves, each thing is there or is gone.
LEMMA EraseLeaves ==
    ASSUME NEW what, NEW protected, Erase(what, protected)
    PROVE  /\ disk' \in {disk, [b \in 1 .. TableBlocks |-> None]} /\ dtb' \in {dtb, None}
           /\ \A n \in Images : image'[n] = image[n] \/ image'[n] = NoPart
           /\ todo' = Tail(todo) \/ todo' = <<>>
<1>1. CASE EraseRefused(what, protected)
  BY <1>1 DEF Erase, Answers
<1>2. CASE ~EraseRefused(what, protected)
  <2>1. PICK gone : /\ disk' = IF "reserved" \in gone THEN [b \in 1 .. TableBlocks |-> None] ELSE disk
                    /\ dtb' = IF "dtb" \in gone THEN None ELSE dtb
                    /\ image' = [n \in Images |-> IF n \in gone THEN NoPart ELSE image[n]]
    BY <1>2, Zenon DEF Erase
  <2>2. todo' = Tail(todo) \/ todo' = <<>>
    BY <1>2, Zenon DEF Erase, Answers
  <2> QED
    BY <2>1, <2>2
<1> QED
  BY <1>1, <1>2

\* Every step keeps the invariant.
LEMMA NextParts ==
    ASSUME PartsInv, [EmmcPartsNext]_emmcVars
    PROVE  PartsInv'
<1>1. DataInv /\ AtInv
  BY DEF PartsInv
<1>2. ASSUME NEW s, Stage(s), s \notin {"init", "table"} PROVE at = 0
  BY <1>1, <1>2 DEF AtInv, Stage
<1>3. ASSUME todo = <<>> PROVE at = 0
  BY <1>1, <1>3 DEF AtInv, Stage
<1>4. CASE InitAgain
  <2>1. at = 0
    BY <1>1, <1>4 DEF InitAgain, AtInv, Stage
  <2>2. Tail(todo) \in Todos
    BY <1>1, <1>4, NextTodo DEF InitAgain, DataInv
  <2>3. DataInv'
    BY <1>1, <1>4, <2>2 DEF InitAgain, DataInv
  <2>4. AtInv'
    BY <1>4, <2>1, CountsAre DEF InitAgain, AtInv
  <2> QED
    BY <2>3, <2>4 DEF PartsInv
<1>5. CASE UndoDtb
  <2>1. at = 0 /\ Tail(todo) \in Todos
    BY <1>1, <1>2, <1>5, NextTodo DEF UndoDtb, DataInv
  <2>2. DataInv'
    BY <1>1, <1>5, <2>1 DEF UndoDtb, DataInv
  <2>3. AtInv'
    BY <1>5, <2>1, CountsAre DEF UndoDtb, AtInv
  <2> QED
    BY <2>2, <2>3 DEF PartsInv
<1>6. CASE WriteDtb
  <2>1. at = 0 /\ Tail(todo) \in Todos /\ <<>> \in Todos
    BY <1>1, <1>2, <1>6, NextTodo DEF WriteDtb, DataInv, Todos
  <2>2. DataInv'
    BY <1>1, <1>6, <2>1, Zenon DEF WriteDtb, DataInv, Answers
  <2>3. AtInv'
    BY <1>6, <2>1, CountsAre DEF WriteDtb, AtInv
  <2> QED
    BY <2>2, <2>3 DEF PartsInv
<1>7. CASE Answer
  <2>1. at = 0 /\ <<>> \in Todos
    BY <1>1, <1>2, <1>7 DEF Answer, Todos
  <2>2. DataInv'
    BY <1>1, <1>7, <2>1 DEF Answer, DataInv, Answers
  <2>3. AtInv'
    BY <1>7, <2>1, CountsAre DEF Answer, AtInv
  <2> QED
    BY <2>2, <2>3 DEF PartsInv
<1>8. ASSUME NEW what, NEW protected, Erase(what, protected)
      PROVE  PartsInv'
  <2>1. at = 0 /\ Tail(todo) \in Todos /\ <<>> \in Todos
    BY <1>1, <1>2, <1>8, NextTodo DEF Erase, DataInv, Todos
  <2>2. UNCHANGED <<table, sizes, conf, checked, tree, at>>
    BY <1>8 DEF Erase
  <2>3. todo' \in Todos
    BY <1>8, <2>1, Zenon DEF Erase, Answers
  <2>4. disk' \in {disk, [b \in 1 .. TableBlocks |-> None]} /\ dtb' \in {dtb, None}
    BY <1>8, EraseLeaves
  <2>5. DataInv'
    BY <1>1, <2>2, <2>3, <2>4, CountsAre DEF DataInv
  <2>6. AtInv'
    BY <2>1, <2>2, CountsAre DEF AtInv
  <2> QED
    BY <2>5, <2>6 DEF PartsInv
<1>9. ASSUME NEW d \in Dtbs \union {None}, NEW erase \in BOOLEAN, StorageInit(d, erase)
      PROVE  PartsInv'
  <2>1. at = 0 /\ InitSteps(d, erase) \in Todos
    BY <1>3, <1>9, TodoInit DEF StorageInit, Idle
  <2>2. UNCHANGED <<disk, dtb, sizes, conf, checked, at>>
    BY <1>9 DEF StorageInit
  <2>3. todo' \in Todos /\ table' \in Dtbs \union {None} /\ tree' \in Dtbs \union {None}
    BY <1>1, <1>9, <2>1 DEF StorageInit, DataInv
  <2>4. DataInv'
    BY <1>1, <2>2, <2>3 DEF DataInv
  <2>5. AtInv'
    BY <2>1, <2>2, CountsAre DEF AtInv
  <2> QED
    BY <2>4, <2>5 DEF PartsInv
<1>10. ASSUME NEW steps \in Todos, NEW d \in Dtbs \union {None}, Command(steps, d)
       PROVE  PartsInv'
  <2>1. at = 0
    BY <1>3, <1>10 DEF Command, Idle
  <2>2. DataInv'
    BY <1>1, <1>10 DEF Command, DataInv
  <2>3. AtInv'
    BY <1>10, <2>1, CountsAre DEF Command, AtInv
  <2> QED
    BY <2>2, <2>3 DEF PartsInv
<1>11. CASE StorageExit \/ \E n \in Images : Burn(n)
  <2>1. at = 0
    BY <1>3, <1>11 DEF StorageExit, Burn, Idle
  <2>2. UNCHANGED <<disk, dtb, table, sizes, conf, checked, tree, todo, at>>
    BY <1>11 DEF StorageExit, Burn
  <2>3. DataInv'
    BY <1>1, <2>2 DEF DataInv
  <2>4. AtInv'
    BY <2>1, <2>2, CountsAre DEF AtInv
  <2> QED
    BY <2>3, <2>4 DEF PartsInv
<1>12. CASE PowerCut
  <2>1. dtb' \in Dtbs \union {None}
    BY <1>1, <1>12 DEF PowerCut, DataInv
  <2>2. sizes' \in Sizes
    BY <1>12, StartSizes DEF PowerCut
  <2>3. DataInv'
    BY <1>1, <1>12, <2>1, <2>2, CountsAre, Zenon DEF PowerCut, DataInv, Todos
  <2>4. AtInv'
    BY <1>12, CountsAre DEF PowerCut, AtInv
  <2> QED
    BY <2>3, <2>4 DEF PartsInv
<1>13. CASE UNCHANGED emmcVars
  <2>1. DataInv'
    BY <1>1, <1>13 DEF emmcVars, DataInv
  <2>2. AtInv'
    BY <1>1, <1>13 DEF emmcVars, AtInv, Stage
  <2> QED
    BY <2>1, <2>2 DEF PartsInv
<1>14. <<"dtb", "table">> \in Todos /\ <<"erase">> \in Todos /\ tree \in Dtbs \union {None}
  BY <1>1 DEF Todos, DataInv
<1>15. EmmcPartsNext \/ UNCHANGED emmcVars
  OBVIOUS
<1> QED
  BY <1>4, <1>5, <1>6, <1>7, <1>8, <1>9, <1>10, <1>11, <1>12, <1>13, <1>14, <1>15,
     DeviceInitParts, WriteBlockParts, ZenonT(60) DEF EmmcPartsNext

\* The blocks of the table hold the table in memory.
Stored(dk, cf) ==
    /\ Len(dk[1]) = Len(cf)
    /\ [i \in 1 .. Len(dk[1]) |-> LET t == dk[(i - 1) \div PerBlock + 1]
                                  IN IF i <= Len(t) THEN t[i] ELSE NoPart] = cf

\* A number of entries that the blocks have room for lies in the blocks.
LEMMA BlockOf ==
    ASSUME NEW i \in Nat, NEW p \in Nat \ {0}, NEW t \in Nat, i >= 1, i <= t * p
    PROVE  (i - 1) \div p + 1 \in 1 .. t
<1> DEFINE q == (i - 1) \div p
           r == (i - 1) % p
<1>1. i - 1 \in Nat
  OBVIOUS
<1>2. q \in Nat /\ r \in 0 .. p - 1 /\ i - 1 = p * q + r
  BY <1>1
<1> HIDE DEF q, r
<1>3. SUFFICES ASSUME q >= t PROVE FALSE
  BY <1>2 DEF q
<1>4. PICK x \in Nat : q = t + x
  <2>1. q - t \in Nat /\ q = t + (q - t)
    BY <1>2, <1>3
  <2> QED
    BY <2>1
<1>5. p * q = t * p + p * x
  BY <1>4
<1>6. p * x \in Nat /\ t * p \in Nat
  BY <1>4
<1> QED
  BY <1>2, <1>5, <1>6

LEMMA AllBlocks ==
    ASSUME NEW dk, NEW cf \in Tables, \A b \in 1 .. TableBlocks : dk[b] = cf
    PROVE  Stored(dk, cf)
<1>1. Len(cf) \in Nat /\ Len(cf) <= MaxParts /\ cf \in Seq(Placed)
  BY DEF Tables
<1>2. dk[1] = cf
  BY CountsAre
<1>3. ASSUME NEW i \in 1 .. Len(cf) PROVE dk[(i - 1) \div PerBlock + 1] = cf
  <2>1. TableBlocks * PerBlock \in Nat
    BY CountsAre
  <2>2. i \in Nat /\ i >= 1 /\ i <= TableBlocks * PerBlock
    BY <1>1, <2>1, CountsAre
  <2>3. (i - 1) \div PerBlock + 1 \in 1 .. TableBlocks
    BY <2>2, CountsAre, BlockOf
  <2> QED
    BY <2>3
<1>4. cf = [i \in 1 .. Len(cf) |-> cf[i]]
  BY <1>1
<1>5. \A i \in 1 .. Len(cf) : LET t == dk[(i - 1) \div PerBlock + 1]
                              IN (IF i <= Len(t) THEN t[i] ELSE NoPart) = cf[i]
  BY <1>1, <1>3
<1> DEFINE e(i) == LET t == dk[(i - 1) \div PerBlock + 1] IN IF i <= Len(t) THEN t[i] ELSE NoPart
<1>6. \A i \in 1 .. Len(cf) : e(i) = cf[i]
  BY <1>5
<1>7. Stored(dk, cf) <=> [i \in 1 .. Len(cf) |-> e(i)] = cf
  BY <1>2, Zenon DEF Stored
<1> HIDE DEF e
<1> QED
  BY <1>4, <1>6, <1>7

\* Whatever else a step is, it neither checks the table nor goes on behind it.
LEMMA OtherSteps ==
    ASSUME PartsInv, [EmmcPartsNext]_emmcVars, ~DeviceInit, ~WriteBlock
    PROVE  ~((~checked /\ checked') \/ TableSucceeds)
<1>1. DataInv
  BY DEF PartsInv
<1>2. checked' => checked
  BY Zenon DEF EmmcPartsNext, emmcVars, InitAgain, UndoDtb, WriteDtb, Answer, Erase, StorageInit,
         Command, StorageExit, Burn, PowerCut
<1>3. SUFFICES ASSUME TableSucceeds PROVE FALSE
  BY <1>2
<1>4. Stage("table") /\ todo' = Tail(todo)
  BY <1>3 DEF TableSucceeds
<1>5. todo # <<>> /\ Head(todo) = "table"
  BY <1>4 DEF Stage
<1>6. Tail(todo) # todo /\ Tail(todo) # <<"init">>
  BY <1>1, <1>5, TodoTail, Zenon DEF DataInv
<1>7. PowerCut \/ UNCHANGED emmcVars
  BY <1>5 DEF EmmcPartsNext, InitAgain, UndoDtb, WriteDtb, Answer, Erase, StorageInit,
              Command, StorageExit, Burn, Stage, Idle
<1> QED
  BY <1>4, <1>6, <1>7 DEF PowerCut, emmcVars

\* A comparison that finds no difference.
LEMMA VerifiedStored ==
    ASSUME NEW c, Verify(c)
    PROVE  Stored(disk, c)
BY DEF Verify, Stored, StoredNum, Entries

\* A step that succeeds leaves the layout on the medium.
LEMMA StepStores ==
    ASSUME PartsInv, [EmmcPartsNext]_emmcVars, (~checked /\ checked') \/ TableSucceeds
    PROVE  Stored(disk', conf')
<1>1. DataInv /\ AtInv
  BY DEF PartsInv
<1>2. ASSUME DeviceInitReturns(FALSE) PROVE FALSE
  <2>1. checked' = checked
    BY <1>1, <1>2 DEF DeviceInitReturns, DataInv
  <2>2. TableSucceeds
    BY <2>1
  <2>3. ~Stage("init")
    BY <2>2 DEF TableSucceeds, Stage
  <2>4. reply' = "failed"
    BY <1>2, <2>3 DEF DeviceInitReturns, Answers
  <2> QED
    BY <2>2, <2>4 DEF TableSucceeds
<1>3. ASSUME UNCHANGED <<checked, todo>> PROVE FALSE
  <2>1. TableSucceeds
    BY <1>3
  <2>2. todo # <<>> /\ todo' = Tail(todo)
    BY <2>1 DEF TableSucceeds, Stage
  <2>3. Tail(todo) # todo
    BY <1>1, <2>2, TodoTail, Zenon DEF DataInv
  <2> QED
    BY <1>3, <2>2, <2>3
<1>4. CASE DeviceInit
  <2>1. Verify(conf') /\ disk' = disk
    BY <1>2, <1>3, <1>4, Zenon DEF DeviceInit
  <2> QED
    BY <2>1, VerifiedStored
<1>5. CASE WriteBlock
  <2>1. at \in 1 .. TableBlocks /\ TableBlocks \in Nat
    BY <1>1, <1>5, CountsAre DEF WriteBlock, AtInv
  <2>2. at = TableBlocks /\ disk' = [disk EXCEPT ![at] = conf] /\ conf' = conf
    <3>1. ~(at < TableBlocks) /\ disk' = [disk EXCEPT ![at] = conf] /\ conf' = conf
      BY <1>2, <1>3, <1>5, Zenon DEF WriteBlock
    <3> QED
      BY <2>1, <3>1
  <2>3. \A b \in 1 .. TableBlocks : disk'[b] = conf
    BY <1>1, <2>1, <2>2 DEF AtInv, DataInv
  <2>4. conf' \in Tables
    BY <1>1, <2>2 DEF DataInv
  <2> QED
    BY <2>2, <2>3, <2>4, AllBlocks, Zenon
<1> QED
  BY <1>4, <1>5, OtherSteps

(* For every set of device trees, every size of the medium and of the table and
   every number of faults and restarts: mmc_device_init succeeds only with the
   table of its layout on the medium (TableStored).                          *)
THEOREM TableStoredSafe == EmmcPartsSpec => TableStored
<1>1. EmmcPartsInit => PartsInv
  BY InitParts
<1>2. PartsInv /\ [EmmcPartsNext]_emmcVars => PartsInv'
  BY NextParts
<1>3. ASSUME PartsInv, [EmmcPartsNext]_emmcVars
      PROVE  [(~checked /\ checked') \/ TableSucceeds
                => (StoredNum = Len(conf) /\ Entries(StoredNum) = conf)']_emmcVars
  <2>1. SUFFICES ASSUME (~checked /\ checked') \/ TableSucceeds
                 PROVE  (StoredNum = Len(conf) /\ Entries(StoredNum) = conf)'
    OBVIOUS
  <2>2. Stored(disk', conf')
    BY <1>3, <2>1, StepStores
  <2> QED
    BY <2>2 DEF Stored, StoredNum, Entries
<1> QED
  BY <1>1, <1>2, <1>3, PTL DEF EmmcPartsSpec, TableStored

-----------------------------------------------------------------------------
(* Images and layouts. *)

\* The sizes a device is built with, and the layout of a device tree on a device
\* that has just started.
BuiltIn == [n \in InherentNames |-> Find(Inherent, n).size]
LayoutOf(d) == Layout(Override(BuiltIn, d), d)

\* All device trees give the sizes of the same inherent partitions.
TreesAlike == \A d, e \in Dtbs : \A n \in InherentNames : Has(d, n) <=> Has(e, n)

\* Sizes that no device tree gives are as built.
SizesInv == \A n \in InherentNames : (\A d \in Dtbs : ~Has(d, n)) => sizes[n] = BuiltIn[n]

\* The steps of a storage initialisation that are left, with a downloaded tree
\* and without one.
Ans == <<"answer">>
Tab == <<"table", "answer">>
Sav == <<"dtb", "table", "answer">>
Und == <<"undtb", "dtb", "table", "answer">>
Era == <<"erase", "undtb", "dtb", "table", "answer">>
Ini == <<"init", "undtb", "dtb", "table", "answer">>
IniEra == <<"init", "erase", "undtb", "dtb", "table", "answer">>
Renewing == {Ans, Tab, Sav, Und, Era, Ini, IniEra}
Reopening == {Ans, <<"init", "answer">>, <<"erase", "answer">>, <<"init", "erase", "answer">>}

NoImage(im) == \A n \in Images : im[n] = NoPart
Matches(c, n, p) == Has(c, n) /\ Find(c, n) = p
ImagesMatch(im, c) == \A n \in Images : im[n] # NoPart => Matches(c, n, im[n])

\* The saved tree is the one the layout in memory is of, unless it was erased.
InStep ==
    IF table = None THEN conf = None /\ dtb = None
    ELSE conf = LayoutOf(table) /\ dtb \in {None, table} /\ ImagesMatch(image, conf)

\* No tree was downloaded since the start; before mmc_device_init there is no layout.
Booted ==
    /\ todo \in Reopening \union {<<>>, <<"init">>, <<"erase">>}
    /\ \/ InStep
       \/ todo = <<"init">> /\ ~checked /\ at = 0 /\ table = None /\ conf = None

\* A tree was downloaded: while the storage is initialised there is no image.
Renewed ==
    /\ todo \in Renewing \union {<<>>, <<"erase">>}
    /\ todo \in Renewing => NoImage(image) /\ table = tree
    /\ todo \in {Tab, Ans} => dtb = tree
    /\ todo = Ans \/ (at > 0 /\ todo = Tab) => conf = LayoutOf(tree)
    /\ todo \in {Era, Ini, IniEra} => ~inited
    /\ todo \in {<<>>, <<"erase">>} /\ conf # None /\ dtb # None =>
          conf = LayoutOf(dtb) \/ (~inited /\ NoImage(image))

\* The inductive invariant: the layout in memory, if there is one, and that of the
\* saved tree, if there is one, are the one the images were burned by.
ImageInv ==
    /\ SizesInv
    /\ dtb # None => ImagesMatch(image, LayoutOf(dtb))
    /\ conf # None => ImagesMatch(image, conf)
    /\ tree = None => Booted
    /\ tree # None => Renewed

\* What the faults that are left out and the trees have to be like.
Steady == ~DtbFaults /\ ~DtbCommand /\ TreesAlike

\* Then it does not matter which trees came before.
LEMMA SameLayout ==
    ASSUME TreesAlike, SizesInv, NEW d \in Dtbs
    PROVE  /\ Override(sizes, d) = Override(BuiltIn, d)
           /\ \A n \in InherentNames :
                 (\A e \in Dtbs : ~Has(e, n)) => Override(sizes, d)[n] = BuiltIn[n]
<1>1. ASSUME NEW n \in InherentNames, ~Has(d, n) PROVE sizes[n] = BuiltIn[n]
  BY <1>1, Zenon DEF TreesAlike, SizesInv
<1>2. Override(sizes, d) = Override(BuiltIn, d)
  BY <1>1 DEF Override
<1>3. ASSUME NEW n \in InherentNames, \A e \in Dtbs : ~Has(e, n)
      PROVE  Override(sizes, d)[n] = BuiltIn[n]
  BY <1>1, <1>3 DEF Override
<1> QED
  BY <1>2, <1>3

LEMMA NoImageMatches ==
    ASSUME NEW im, NoImage(im), NEW c
    PROVE  ImagesMatch(im, c)
BY DEF NoImage, ImagesMatch

\* The lists of steps are different.
LEMMA PlansDiffer ==
    /\ Ans # Tab /\ {Sav, Und, Era, Ini, IniEra} \intersect {Ans, Tab} = {}
    /\ {Ans, Tab, Sav, Und} \intersect {Era, Ini, IniEra} = {}
    /\ {Ans, Tab, Sav, Und, Era, Ini, IniEra} \subseteq Renewing
    /\ Renewing \intersect {<<>>, <<"init">>, <<"erase">>} = {}
    /\ <<>> # <<"init">> /\ <<>> # <<"erase">> /\ <<"init">> # <<"erase">>
BY DEF Ans, Tab, Sav, Und, Era, Ini, IniEra, Renewing

\* What comes behind each step, with a downloaded tree.
LEMMA RenewedStages ==
    ASSUME Renewed, NEW s, Stage(s)
    PROVE  /\ s = "init" => todo \in {Ini, IniEra} /\ Tail(todo) \in {Und, Era}
           /\ s = "erase" => \/ todo = <<"erase">> /\ Tail(todo) = <<>>
                             \/ todo = Era /\ Tail(todo) = Und
           /\ s = "undtb" => todo = Und /\ Tail(todo) = Sav
           /\ s = "dtb" => todo = Sav /\ Tail(todo) = Tab
           /\ s = "table" => todo = Tab /\ Tail(todo) = Ans
           /\ s = "answer" => todo = Ans
<1>1. todo # <<>> /\ Head(todo) = s
  BY DEF Stage
<1>2. todo \in Renewing \union {<<>>, <<"erase">>}
  BY DEF Renewed
<1>3. CASE todo = <<"erase">>
  BY <1>1, <1>3
<1>4. CASE todo = Ans
  BY <1>1, <1>4 DEF Ans
<1>5. CASE todo = Tab
  BY <1>1, <1>5 DEF Tab, Ans
<1>6. CASE todo = Sav
  BY <1>1, <1>6 DEF Sav, Tab
<1>7. CASE todo = Und
  BY <1>1, <1>7 DEF Und, Sav
<1>8. CASE todo = Era
  BY <1>1, <1>8 DEF Era, Und
<1>9. CASE todo = Ini
  <2>1. Head(Ini) = "init" /\ Tail(Ini) = Und
    BY DEF Ini, Und
  <2> QED
    BY <1>1, <1>9, <2>1
<1>10. CASE todo = IniEra
  <2>1. Head(IniEra) = "init" /\ Tail(IniEra) = Era
    BY DEF IniEra, Era
  <2> QED
    BY <1>1, <1>10, <2>1
<1> QED
  BY <1>1, <1>2, <1>3, <1>4, <1>5, <1>6, <1>7, <1>8, <1>9, <1>10 DEF Renewing

\* And without one.
LEMMA BootedStages ==
    ASSUME Booted, NEW s, Stage(s)
    PROVE  s \in {"init", "erase", "answer"} /\ Tail(todo) \in Reopening \union {<<>>}
           /\ (s # "init" => InStep)
<1>1. todo # <<>> /\ Head(todo) = s
  BY DEF Stage
<1>2. todo \in Reopening \union {<<>>, <<"init">>, <<"erase">>}
  BY DEF Booted
<1>3. CASE todo = <<"init">>
  BY <1>1, <1>3
<1>4. CASE todo = <<"erase">>
  BY <1>1, <1>4 DEF Booted
<1>5. CASE todo = Ans
  BY <1>1, <1>5 DEF Ans, Booted
<1>6. CASE todo = <<"init", "answer">>
  BY <1>1, <1>6 DEF Reopening, Ans
<1>7. CASE todo = <<"erase", "answer">>
  BY <1>1, <1>7 DEF Reopening, Ans, Booted
<1>8. CASE todo = <<"init", "erase", "answer">>
  BY <1>1, <1>8 DEF Reopening
<1> QED
  BY <1>1, <1>2, <1>3, <1>4, <1>5, <1>6, <1>7, <1>8 DEF Reopening

LEMMA InitImages ==
    ASSUME EmmcPartsInit
    PROVE  ImageInv
<1>1. SizesInv
  BY DEF EmmcPartsInit, SizesInv, BuiltIn
<1> QED
  BY <1>1, PlansDiffer DEF EmmcPartsInit, ImageInv, Booted

\* What the rest of the proof needs of mmc_device_init up to its decision.
LEMMA DeviceInitIs ==
    ASSUME Steady, PartsInv, SizesInv, DeviceInit
    PROVE  /\ UNCHANGED <<dtb, tree, inited, image>> /\ at = 0 /\ SizesInv'
           /\ table' = GetTable(table, dtb)
           /\ table' = None => conf' = None /\ DeviceInitReturns(FALSE)
           /\ table' # None => /\ conf' = LayoutOf(table')
                               /\ \/ DeviceInitReturns(TRUE)
                                  \/ at' = 1 /\ todo' = todo
           /\ Stage("init") \/ Stage("table")
<1>1. DataInv /\ TreesAlike
  BY DEF PartsInv, Steady
<1>2. UNCHANGED <<dtb, tree, inited, image>> /\ at = 0 /\ (Stage("init") \/ Stage("table"))
  BY DEF DeviceInit
<1>3. table \in Dtbs \union {None} /\ dtb \in Dtbs \union {None}
  BY <1>1 DEF DataInv
<1>4. \/ table' = None /\ conf' = None /\ DeviceInitReturns(FALSE) /\ sizes' = sizes
      \/ /\ table' # None /\ sizes' = Override(sizes, table') /\ conf' = Layout(sizes', table')
         /\ \/ DeviceInitReturns(TRUE)
            \/ at' = 1 /\ todo' = todo
  BY Zenon DEF DeviceInit
<1>5. table' = GetTable(table, dtb)
  BY DEF DeviceInit
<1>6. table' # None => conf' = LayoutOf(table') /\ SizesInv'
  <2>1. SUFFICES ASSUME table' # None PROVE conf' = LayoutOf(table') /\ SizesInv'
    OBVIOUS
  <2>2. table' \in Dtbs
    BY <1>3, <1>5, <2>1 DEF GetTable
  <2>3. sizes' = Override(sizes, table') /\ conf' = Layout(sizes', table')
    BY <1>4, <2>1, Zenon
  <2>4. /\ sizes' = Override(BuiltIn, table')
        /\ \A n \in InherentNames : (\A e \in Dtbs : ~Has(e, n)) => sizes'[n] = BuiltIn[n]
    BY <1>1, <2>2, <2>3, SameLayout, Zenon
  <2> QED
    BY <2>3, <2>4, Zenon DEF LayoutOf, SizesInv
<1>7. SizesInv'
  <2>1. CASE table' = None
    BY <1>4, <2>1 DEF SizesInv
  <2> QED
    BY <1>6, <2>1
<1> QED
  BY <1>2, <1>4, <1>5, <1>6, <1>7, Zenon

\* mmc_device_init computes the layout that a start computes.
LEMMA DeviceInitImages ==
    ASSUME Steady, PartsInv, ImageInv, DeviceInit
    PROVE  ImageInv'
<1>1. SizesInv /\ DataInv /\ (tree = None => Booted) /\ (tree # None => Renewed)
  BY DEF ImageInv, PartsInv
<1>2. /\ UNCHANGED <<dtb, tree, inited, image>> /\ at = 0 /\ SizesInv'
      /\ table' = GetTable(table, dtb)
      /\ table' = None => conf' = None /\ DeviceInitReturns(FALSE)
      /\ table' # None => /\ conf' = LayoutOf(table')
                          /\ \/ DeviceInitReturns(TRUE)
                             \/ at' = 1 /\ todo' = todo
      /\ Stage("init") \/ Stage("table")
  BY <1>1, DeviceInitIs
<1>3. dtb' # None => ImagesMatch(image', LayoutOf(dtb'))
  BY <1>2 DEF ImageInv
<1>4. CASE tree = None
  <2>1. Stage("init") /\ Tail(todo) \in Reopening \union {<<>>}
    <3>1. "table" \notin {"init", "erase", "answer"}
      OBVIOUS
    <3> QED
      BY <1>1, <1>2, <1>4, <3>1, BootedStages, Zenon
  <2>2. todo' = Tail(todo) \/ todo' = todo
    BY <1>2, <2>1 DEF DeviceInitReturns
  <2>3. todo' \in Reopening \union {<<>>, <<"init">>, <<"erase">>}
    BY <1>1, <1>4, <2>1, <2>2 DEF Booted
  <2>4. InStep'
    <3>1. CASE table' = None
      BY <1>2, <3>1 DEF InStep, GetTable
    <3>2. CASE table' # None
      <4>1. conf' = LayoutOf(table')
        BY <1>2, <3>2
      <4>2. CASE table = None
        <5>1. table' = dtb
          BY <1>2, <4>2 DEF GetTable
        <5> QED
          BY <1>2, <1>3, <3>2, <4>1, <5>1 DEF InStep
      <4>3. CASE table # None
        <5>1. table' = table /\ InStep
          BY <1>1, <1>2, <1>4, <4>3 DEF GetTable, Booted
        <5> QED
          BY <1>2, <3>2, <4>1, <4>3, <5>1 DEF InStep
      <4> QED
        BY <4>2, <4>3
    <3> QED
      BY <3>1, <3>2
  <2>5. conf' # None => ImagesMatch(image', conf')
    BY <2>4 DEF InStep
  <2>6. Booted'
    BY <2>3, <2>4, Zenon DEF Booted
  <2> QED
    BY <1>2, <1>3, <1>4, <2>5, <2>6, Zenon DEF ImageInv
<1>5. CASE tree # None
  <2>1. todo \in Renewing /\ NoImage(image) /\ table = tree
    <3>1. todo \in {Ini, IniEra, Tab}
      BY <1>1, <1>2, <1>5, RenewedStages, Zenon
    <3> QED
      BY <1>1, <1>5, <3>1, PlansDiffer DEF Renewed
  <2>2. table' = tree /\ conf' = LayoutOf(tree)
    BY <1>2, <1>5, <2>1 DEF GetTable
  <2>3. NoImage(image') /\ ImagesMatch(image', conf')
    BY <1>2, <2>1, NoImageMatches
  <2>4. todo' = Tail(todo) \/ todo' = todo
    BY <1>2, <1>5, <2>2, Zenon DEF DeviceInitReturns
  <2>5. CASE Stage("table")
    <3>1. todo' \in {Tab, Ans} /\ dtb = tree
      BY <1>1, <1>5, <2>4, <2>5, RenewedStages, Zenon DEF Renewed
    <3>2. Renewed'
      BY <1>2, <2>2, <2>3, <3>1, PlansDiffer DEF Renewed
    <3> QED
      BY <1>2, <1>3, <1>5, <2>3, <3>2, Zenon DEF ImageInv
  <2>6. CASE Stage("init")
    <3>1. todo \in {Ini, IniEra} /\ todo' \in {Und, Era, Ini, IniEra} /\ ~inited
      BY <1>1, <1>5, <2>4, <2>6, RenewedStages, Zenon DEF Renewed
    <3>2. Renewed'
      BY <1>2, <2>2, <2>3, <3>1, PlansDiffer DEF Renewed
    <3> QED
      BY <1>2, <1>3, <1>5, <2>3, <3>2, Zenon DEF ImageInv
  <2> QED
    BY <1>2, <2>5, <2>6
<1> QED
  BY <1>4, <1>5

LEMMA WriteBlockImages ==
    ASSUME Steady, PartsInv, ImageInv, WriteBlock
    PROVE  ImageInv'
<1>1. UNCHANGED <<dtb, table, sizes, conf, tree, inited, image>> /\ at > 0
  BY DEF WriteBlock
<1>2. /\ SizesInv' /\ (tree = None => Booted) /\ (tree # None => Renewed)
      /\ dtb' # None => ImagesMatch(image', LayoutOf(dtb'))
      /\ conf' # None => ImagesMatch(image', conf')
  BY <1>1 DEF ImageInv, SizesInv
<1>3. Stage("init") \/ Stage("table")
  BY <1>1 DEF PartsInv, AtInv
<1>4. \/ UNCHANGED todo
      \/ DeviceInitReturns(TRUE)
      \/ DeviceInitReturns(FALSE)
  BY Zenon DEF WriteBlock
<1>5. CASE tree = None
  <2>1. Stage("init") /\ Tail(todo) \in Reopening \union {<<>>} /\ InStep
    <3>1. InStep
      BY <1>1, <1>2, <1>5 DEF Booted
    <3>2. "table" \notin {"init", "erase", "answer"}
      OBVIOUS
    <3> QED
      BY <1>2, <1>3, <1>5, <3>1, <3>2, BootedStages, Zenon
  <2>2. todo' = Tail(todo) \/ todo' = todo
    BY <1>4, <2>1 DEF DeviceInitReturns
  <2>3. todo' \in Reopening \union {<<>>, <<"init">>, <<"erase">>}
    BY <1>2, <1>5, <2>1, <2>2 DEF Booted
  <2>4. InStep'
    BY <1>1, <2>1 DEF InStep
  <2>5. Booted'
    BY <2>3, <2>4, Zenon DEF Booted
  <2> QED
    BY <1>1, <1>2, <1>5, <2>5, Zenon DEF ImageInv
<1>6. CASE tree # None
  <2>1. CASE Stage("table")
    <3>1. todo = Tab /\ Tail(todo) = Ans
      BY <1>2, <1>6, <2>1, RenewedStages, Zenon
    <3>2. NoImage(image) /\ table = tree /\ dtb = tree /\ conf = LayoutOf(tree)
      BY <1>1, <1>2, <1>6, <3>1, PlansDiffer DEF Renewed
    <3>3. todo' \in {Tab, Ans, <<>>}
      BY <1>4, <3>1, Zenon DEF DeviceInitReturns, Answers
    <3>4. Renewed'
      BY <1>1, <3>2, <3>3, PlansDiffer, Zenon DEF Renewed
    <3> QED
      BY <1>1, <1>2, <1>6, <3>4, Zenon DEF ImageInv
  <2>2. CASE Stage("init")
    <3>1. todo \in {Ini, IniEra} /\ Tail(todo) \in {Und, Era}
      BY <1>2, <1>6, <2>2, RenewedStages, Zenon
    <3>2. NoImage(image) /\ table = tree /\ ~inited
      BY <1>2, <1>6, <3>1, PlansDiffer DEF Renewed
    <3>3. todo' \in {Und, Era, Ini, IniEra}
      BY <1>4, <2>2, <3>1, Zenon DEF DeviceInitReturns
    <3>4. Renewed'
      BY <1>1, <3>2, <3>3, PlansDiffer DEF Renewed
    <3> QED
      BY <1>1, <1>2, <1>6, <3>4, Zenon DEF ImageInv
  <2> QED
    BY <1>3, <2>1, <2>2
<1> QED
  BY <1>5, <1>6

\* What an erase leaves of the images.
LEMMA EraseImages ==
    ASSUME Steady, PartsInv, ImageInv, NEW what, NEW protected, Erase(what, protected)
    PROVE  ImageInv'
<1>1. UNCHANGED <<table, sizes, conf, tree, inited, at>> /\ Stage("erase")
  BY DEF Erase
<1>2. SizesInv' /\ (tree = None => Booted) /\ (tree # None => Renewed)
  BY <1>1 DEF ImageInv, SizesInv
<1>3. /\ dtb' = dtb \/ dtb' = None
      /\ \A n \in Images : image'[n] = image[n] \/ image'[n] = NoPart
      /\ todo' = Tail(todo) \/ todo' = <<>>
  BY EraseLeaves
<1>4. NoImage(image) => NoImage(image')
  BY <1>3 DEF NoImage
<1>5. \A c : ImagesMatch(image, c) => ImagesMatch(image', c)
  BY <1>3 DEF ImagesMatch
<1>6. /\ dtb' # None => ImagesMatch(image', LayoutOf(dtb'))
      /\ conf' # None => ImagesMatch(image', conf')
  BY <1>1, <1>3, <1>5 DEF ImageInv
<1>7. CASE tree = None
  <2>1. Tail(todo) \in Reopening \union {<<>>} /\ InStep
    <3>1. "erase" # "init"
      OBVIOUS
    <3> QED
      BY <1>1, <1>2, <1>7, <3>1, BootedStages, Zenon
  <2>2. InStep'
    BY <1>1, <1>3, <1>5, <2>1 DEF InStep
  <2>3. todo' \in Reopening \union {<<>>, <<"init">>, <<"erase">>}
    BY <1>3, <2>1
  <2>4. Booted'
    BY <2>2, <2>3, Zenon DEF Booted
  <2> QED
    BY <1>1, <1>2, <1>6, <1>7, <2>4, Zenon DEF ImageInv
<1>8. CASE tree # None
  <2>1. CASE todo = <<"erase">> /\ Tail(todo) = <<>>
    <3>1. conf # None /\ dtb # None => conf = LayoutOf(dtb) \/ (~inited /\ NoImage(image))
      BY <1>2, <1>8, <2>1 DEF Renewed
    <3>2. todo' = <<>>
      BY <1>3, <2>1
    <3>3. Renewed'
      BY <1>1, <1>3, <1>4, <3>1, <3>2, PlansDiffer, Zenon DEF Renewed
    <3> QED
      BY <1>1, <1>2, <1>6, <1>8, <3>3, Zenon DEF ImageInv
  <2>2. CASE todo = Era /\ Tail(todo) = Und
    <3>1. NoImage(image) /\ table = tree /\ ~inited
      BY <1>2, <1>8, <2>2, PlansDiffer, Zenon DEF Renewed
    <3>2. todo' \in {Und, <<>>}
      BY <1>3, <2>2, Zenon
    <3>3. Renewed'
      BY <1>1, <1>4, <3>1, <3>2, PlansDiffer DEF Renewed
    <3> QED
      BY <1>1, <1>2, <1>6, <1>8, <3>3, Zenon DEF ImageInv
  <2> QED
    BY <1>1, <1>2, <1>8, <2>1, <2>2, RenewedStages, Zenon
<1> QED
  BY <1>7, <1>8

\* A storage initialisation with a new tree starts with no image.
LEMMA StorageInitImages ==
    ASSUME Steady, PartsInv, ImageInv, NEW d \in Dtbs \union {None}, NEW erase \in BOOLEAN,
           StorageInit(d, erase)
    PROVE  ImageInv'
<1>1. UNCHANGED <<dtb, sizes, conf, checked, inited, at>> /\ todo = <<>> /\ (d = None => tree = None)
  BY DEF StorageInit, Idle
<1>2. SizesInv' /\ (tree = None => Booted) /\ (tree # None => Renewed)
  BY <1>1, Zenon DEF ImageInv, SizesInv
<1>3. CASE inited
  <2>1. UNCHANGED <<table, tree, todo, image>>
    BY <1>3, Zenon DEF StorageInit
  <2>2. (Booted => Booted') /\ (Renewed => Renewed')
    BY <1>1, <2>1, Zenon DEF Booted, Renewed, InStep
  <2> QED
    BY <1>1, <1>2, <2>1, <2>2, Zenon DEF ImageInv
<1>4. CASE ~inited /\ d = None
  <2>1. /\ UNCHANGED <<table, image>> /\ tree' = None /\ tree = None
        /\ todo' = InitSteps(None, erase)
    BY <1>1, <1>4 DEF StorageInit
  <2>2. todo' \in Reopening
    BY <2>1 DEF InitSteps, Reopening
  <2>3. InStep
    BY <1>1, <1>2, <2>1 DEF Booted
  <2>4. InStep'
    BY <1>1, <2>1, <2>3 DEF InStep
  <2>5. Booted'
    BY <2>2, <2>4 DEF Booted
  <2> QED
    BY <1>1, <1>2, <2>1, <2>5, Zenon DEF ImageInv
<1>5. CASE ~inited /\ d # None
  <2>1. /\ table' = d /\ tree' = d /\ todo' = InitSteps(d, erase)
        /\ image' = [n \in Images |-> NoPart]
    BY <1>5 DEF StorageInit
  <2>2. todo' \in {Ini, IniEra}
    BY <1>5, <2>1 DEF InitSteps, Ini, IniEra
  <2>3. NoImage(image')
    BY <2>1 DEF NoImage
  <2>4. ImagesMatch(image', conf') /\ ImagesMatch(image', LayoutOf(dtb'))
    BY <2>3, NoImageMatches
  <2>5. Renewed'
    BY <1>1, <1>5, <2>1, <2>2, <2>3, PlansDiffer DEF Renewed
  <2> QED
    BY <1>2, <1>5, <2>1, <2>4, <2>5, Zenon DEF ImageInv
<1> QED
  BY <1>3, <1>4, <1>5

\* Burning and switching the power off.
LEMMA BurnImages ==
    ASSUME Steady, PartsInv, ImageInv, NEW n \in Images, Burn(n)
    PROVE  ImageInv'
<1>1. /\ UNCHANGED <<dtb, table, sizes, conf, checked, tree, inited, todo, at>>
      /\ todo = <<>> /\ inited /\ conf # None /\ Has(conf, n)
  BY DEF Burn
<1>2. SizesInv' /\ (tree = None => Booted) /\ (tree # None => Renewed)
  BY <1>1, Zenon DEF ImageInv, SizesInv
<1>3. \A m \in Images : \/ m = n /\ image'[m] = Find(conf, n)
                        \/ image'[m] = image[m] \/ image'[m] = NoPart
  BY DEF Burn
<1>4. ImagesMatch(image, conf)
  BY <1>1 DEF ImageInv
<1>5. ImagesMatch(image', conf)
  BY <1>1, <1>3, <1>4, ZenonT(60) DEF ImagesMatch, Matches
<1>6. CASE tree = None
  <2>1. InStep
    BY <1>1, <1>2, <1>6 DEF Booted
  <2>2. InStep' /\ (dtb # None => conf = LayoutOf(dtb))
    BY <1>1, <1>5, <2>1 DEF InStep
  <2>3. Booted'
    BY <1>1, <1>2, <1>6, <2>2, Zenon DEF Booted
  <2> QED
    BY <1>1, <1>2, <1>5, <1>6, <2>2, <2>3, Zenon DEF ImageInv
<1>7. CASE tree # None
  <2>1. dtb # None => conf = LayoutOf(dtb)
    BY <1>1, <1>2, <1>7 DEF Renewed
  <2>2. Renewed'
    BY <1>1, <2>1, PlansDiffer DEF Renewed
  <2> QED
    BY <1>1, <1>2, <1>5, <1>7, <2>1, <2>2, Zenon DEF ImageInv
<1> QED
  BY <1>6, <1>7

LEMMA PowerCutImages ==
    ASSUME Steady, PartsInv, ImageInv, PowerCut
    PROVE  ImageInv'
<1>1. /\ table' = None /\ conf' = None /\ tree' = None /\ todo' = <<"init">> /\ image' = image
      /\ sizes' = BuiltIn /\ at' = 0 /\ checked' = FALSE
  BY DEF PowerCut, BuiltIn
<1>2. SizesInv'
  BY <1>1 DEF SizesInv
<1>3. dtb' # None => ImagesMatch(image', LayoutOf(dtb'))
  <2>1. CASE Stage("dtb")
    <3>1. tree # None /\ Renewed
      BY <2>1, BootedStages DEF ImageInv
    <3>2. todo = Sav
      BY <2>1, <3>1, RenewedStages, Zenon
    <3>3. NoImage(image)
      BY <3>1, <3>2, PlansDiffer DEF Renewed
    <3> QED
      BY <1>1, <3>3, NoImageMatches
  <2>2. CASE ~Stage("dtb")
    <3>1. dtb' = dtb
      BY <2>2 DEF PowerCut
    <3> QED
      BY <1>1, <3>1 DEF ImageInv
  <2> QED
    BY <2>1, <2>2
<1>4. Booted'
  BY <1>1 DEF Booted
<1> QED
  BY <1>1, <1>2, <1>3, <1>4 DEF ImageInv

\* The steps of a storage initialisation that save the tree.
LEMMA SaveImages ==
    ASSUME Steady, PartsInv, ImageInv, UndoDtb \/ WriteDtb
    PROVE  ImageInv'
<1>1. /\ UNCHANGED <<table, sizes, conf, tree, at, image>> /\ todo' = Tail(todo)
      /\ \/ Stage("undtb") /\ dtb' = None
         \/ Stage("dtb") /\ dtb' = tree
  BY DEF Steady, UndoDtb, WriteDtb
<1>2. SizesInv' /\ (conf' # None => ImagesMatch(image', conf'))
  BY <1>1 DEF ImageInv, SizesInv
<1>3. at = 0
  BY <1>1 DEF PartsInv, AtInv, Stage
<1>4. tree # None /\ Renewed
  BY <1>1, BootedStages DEF ImageInv
<1>5. \/ todo = Und /\ todo' = Sav /\ dtb' = None
      \/ todo = Sav /\ todo' = Tab /\ dtb' = tree
  BY <1>1, <1>4, RenewedStages, Zenon
<1>6. NoImage(image') /\ table' = tree' /\ ImagesMatch(image', LayoutOf(dtb'))
  <2>1. NoImage(image) /\ table = tree
    BY <1>4, <1>5, PlansDiffer DEF Renewed
  <2> QED
    BY <1>1, <2>1, NoImageMatches
<1>7. Renewed'
  <2>1. ~(at' > 0)
    BY <1>1, <1>3
  <2>2. CASE todo' = Sav
    BY <1>6, <2>1, <2>2, PlansDiffer DEF Renewed
  <2>3. CASE todo' = Tab /\ dtb' = tree
    BY <1>1, <1>6, <2>1, <2>3, PlansDiffer DEF Renewed
  <2> QED
    BY <1>5, <2>2, <2>3
<1> QED
  BY <1>1, <1>2, <1>4, <1>6, <1>7, Zenon DEF ImageInv

\* The other steps, which change neither the tree nor the layout.
LEMMA QuietImages ==
    ASSUME Steady, PartsInv, ImageInv,
           InitAgain \/ Answer \/ Command(<<"erase">>, tree) \/ StorageExit \/ UNCHANGED emmcVars
    PROVE  ImageInv'
<1>1. UNCHANGED <<dtb, table, sizes, conf, checked, tree, at, image>>
  BY Zenon DEF InitAgain, Answer, Command, StorageExit, emmcVars
<1>2. /\ SizesInv' /\ (tree = None => Booted) /\ (tree # None => Renewed)
      /\ dtb' # None => ImagesMatch(image', LayoutOf(dtb'))
      /\ conf' # None => ImagesMatch(image', conf')
  BY <1>1, Zenon DEF ImageInv, SizesInv
<1>3. \/ Stage("init") /\ checked /\ todo' = Tail(todo) /\ inited' = inited
      \/ Stage("answer") /\ todo' = <<>> /\ inited' = TRUE
      \/ todo = <<>> /\ todo' = <<"erase">> /\ inited' = inited
      \/ todo = <<>> /\ todo' = <<>> /\ inited' = FALSE
      \/ todo' = todo /\ inited' = inited
  BY Zenon DEF InitAgain, Answer, Answers, Command, StorageExit, Idle, emmcVars
<1>4. CASE tree = None
  <2>1. InStep => InStep'
    BY <1>1 DEF InStep
  <2>2. CASE todo' = todo
    BY <1>1, <1>2, <1>4, <2>1, <2>2, Zenon DEF ImageInv, Booted
  <2>3. CASE todo' # todo
    <3>1. InStep
      BY <1>2, <1>3, <1>4, <2>3, PlansDiffer DEF Booted, Stage
    <3>2. todo' \in Reopening \union {<<>>, <<"init">>, <<"erase">>}
      BY <1>2, <1>3, <1>4, <2>3, BootedStages
    <3>3. Booted'
      BY <2>1, <3>1, <3>2, Zenon DEF Booted
    <3> QED
      BY <1>1, <1>2, <1>4, <3>3, Zenon DEF ImageInv
  <2> QED
    BY <2>2, <2>3
<1>5. CASE tree # None
  <2>1. Renewed'
    <3>1. CASE Stage("init") /\ todo' = Tail(todo) /\ inited' = inited
      <4>1. todo \in {Ini, IniEra} /\ todo' \in {Und, Era}
        BY <1>2, <1>5, <3>1, RenewedStages, Zenon
      <4>2. NoImage(image) /\ table = tree /\ ~inited
        BY <1>2, <1>5, <4>1, PlansDiffer DEF Renewed
      <4> QED
        BY <1>1, <3>1, <4>1, <4>2, PlansDiffer DEF Renewed
    <3>2. CASE Stage("answer") /\ todo' = <<>>
      <4>1. todo = Ans
        BY <1>2, <1>5, <3>2, RenewedStages, Zenon
      <4>2. dtb = tree /\ conf = LayoutOf(tree)
        BY <1>2, <1>5, <4>1 DEF Renewed
      <4> QED
        BY <1>1, <3>2, <4>2, PlansDiffer DEF Renewed
    <3>3. CASE todo = <<>> /\ todo' \in {<<>>, <<"erase">>} /\ (inited' = inited \/ ~inited')
      <4>1. conf # None /\ dtb # None => conf = LayoutOf(dtb) \/ (~inited /\ NoImage(image))
        BY <1>2, <1>5, <3>3 DEF Renewed
      <4>2. conf' # None /\ dtb' # None => conf' = LayoutOf(dtb') \/ (~inited' /\ NoImage(image'))
        BY <1>1, <3>3, <4>1, Zenon
      <4> QED
        BY <3>3, <4>2, PlansDiffer, Zenon DEF Renewed
    <3>4. CASE todo' = todo /\ inited' = inited
      BY <1>1, <1>2, <1>5, <3>4, Zenon DEF Renewed
    <3> QED
      BY <1>3, <3>1, <3>2, <3>3, <3>4
  <2> QED
    BY <1>1, <1>2, <1>5, <2>1, Zenon DEF ImageInv
<1> QED
  BY <1>4, <1>5

\* Every step keeps the invariant.
LEMMA NextImages ==
    ASSUME Steady, PartsInv, ImageInv, [EmmcPartsNext]_emmcVars
    PROVE  ImageInv'
<1>1. ~DtbCommand
  BY DEF Steady
<1>2. EmmcPartsNext \/ UNCHANGED emmcVars
  OBVIOUS
<1> QED
  BY <1>1, <1>2, DeviceInitImages, WriteBlockImages, EraseImages, StorageInitImages, BurnImages,
     PowerCutImages, SaveImages, QuietImages, ZenonT(60) DEF EmmcPartsNext

(* For every set of device trees that give the sizes of the same inherent
   partitions, when the device tree's own writes succeed and it is written by
   the burning stack only: an image is where the partition of its name is,
   after any number of restarts, failed table writes, erases that work or fail
   and storage initialisations with a tree or without (ImageFound).          *)
THEOREM ImageFoundSafe ==
    ASSUME TreesAlike, ~DtbFaults, ~DtbCommand
    PROVE  EmmcPartsSpec => []ImageFound
<1>1. Steady
  BY DEF Steady
<1>2. EmmcPartsInit => PartsInv /\ ImageInv
  BY InitParts, InitImages
<1>3. PartsInv /\ ImageInv /\ [EmmcPartsNext]_emmcVars => PartsInv' /\ ImageInv'
  BY <1>1, NextParts, NextImages
<1>4. ImageInv => ImageFound
  BY Zenon DEF ImageInv, ImageFound, ImagesMatch, Matches
<1> QED
  BY <1>2, <1>3, <1>4, PTL DEF EmmcPartsSpec

-----------------------------------------------------------------------------
(* The layout is sound. *)

\* What FitsAssumption and PartsAssumption say of the numbers.
LEMMA NumbersAre ==
    /\ Capacity \in Nat /\ W \in Nat \ {0} /\ Gap \in Nat /\ BootGap \in Nat
    /\ Gap <= BootGap /\ Capacity + Gap < W
    /\ Full = W - 1
    /\ Len(Inherent) \in Nat /\ Len(Inherent) > 2
    /\ Inherent[1].name = "bootloader" /\ Inherent[2].name = "reserved"
    /\ "bootloader" \in InherentNames /\ "reserved" \in InherentNames /\ "cache" \in InherentNames
<1>1. /\ Capacity \in Nat /\ W \in Nat \ {0} /\ Gap \in Nat /\ BootGap \in Nat
  BY PartsAssumption
<1>2. /\ Gap <= BootGap /\ Capacity + Gap < W /\ Len(Inherent) > 2 /\ "cache" \in InherentNames
      /\ Inherent[1].name = "bootloader" /\ Inherent[2].name = "reserved"
  BY FitsAssumption
<1>3. Len(Inherent) \in Nat /\ \A i \in 1 .. Len(Inherent) : Inherent[i].name \in InherentNames
  BY TreesAre
<1>4. 1 \in 1 .. Len(Inherent) /\ 2 \in 1 .. Len(Inherent)
  BY <1>2, <1>3
<1>5. "bootloader" \in InherentNames /\ "reserved" \in InherentNames
  BY <1>2, <1>3, <1>4, Zenon
<1> QED
  BY <1>1, <1>2, <1>3, <1>5 DEF Full

\* A partition of the first loop.
InhEntry(sz, i) ==
    [name |-> Inherent[i].name, size |-> sz[Inherent[i].name], offset |-> Behind(sz)[i - 1]]

\* No sum of the first loop is too large.
LEMMA BehindFits ==
    ASSUME NEW sz \in Sizes, NEW k \in 0 .. Len(Inherent)
    PROVE  Behind(sz)[k] \in Nat /\ Behind(sz)[k] <= Capacity
<1> DEFINE n == Len(Inherent)
           f == Behind(sz)
           S == {j \in 0 .. n : f[j] \in Nat}
<1>1. n \in Nat /\ Capacity \in Nat /\ Gap \in Nat /\ BootGap \in Nat
  BY NumbersAre
<1>2. f[0] = 0 /\ \A j \in 1 .. n : f[j] = f[j - 1] + sz[Inherent[j].name] + GapBehind(Inherent[j])
  BY BehindIs, Zenon
<1>3. \A j \in 1 .. n : f[j] <= Capacity
  BY FitsAssumption
<1>4. \A j \in 1 .. n : Inherent[j].name \in InherentNames
  BY TreesAre
<1> HIDE DEF n, f
<1>5. 0 \in S
  BY <1>1, <1>2
<1>6. ASSUME NEW j \in 1 .. n, j - 1 \in S PROVE j \in S
  <2>1. sz[Inherent[j].name] \in 0 .. Full
    BY <1>4, SizesAre
  <2>2. sz[Inherent[j].name] \in Nat
    BY <2>1, NumbersAre
  <2>3. GapBehind(Inherent[j]) \in Nat
    BY <1>1, ZenonT(60) DEF GapBehind
  <2>4. f[j] = f[j - 1] + sz[Inherent[j].name] + GapBehind(Inherent[j]) /\ f[j - 1] \in Nat
    BY <1>2, <1>6
  <2>5. f[j] \in Nat
    BY <2>2, <2>3, <2>4
  <2>6. j \in 0 .. n
    BY <1>1
  <2> QED
    BY <2>5, <2>6
<1>7. \A j \in 0 .. n : j \in S
  <2> HIDE DEF S
  <2> QED
    BY <1>1, <1>5, <1>6, CountUp, Zenon
<1>8. f[k] \in Nat
  BY <1>7 DEF n
<1>9. f[k] <= Capacity
  <2>1. CASE k = 0
    BY <1>1, <1>2, <2>1
  <2>2. CASE k # 0
    BY <1>1, <1>3, <2>2 DEF n
  <2> QED
    BY <2>1, <2>2
<1> QED
  BY <1>8, <1>9 DEF f

\* The first loop puts every inherent partition behind the one before.
LEMMA InheritedSound ==
    ASSUME NEW sz \in Sizes, NEW k \in 0 .. Len(Inherent)
    PROVE  \A i \in 1 .. k : Inherited(sz)[k][i] = InhEntry(sz, i)
<1> DEFINE n == Len(Inherent)
           f == Inherited(sz)
           e(j) == [name |-> Inherent[j].name, size |-> sz[Inherent[j].name]]
           S == {j \in 0 .. n : \A i \in 1 .. j : f[j][i] = InhEntry(sz, i)}
<1>1. n \in Nat /\ \A i \in 1 .. n : Inherent[i] \in PartEntry /\ Inherent[i].name \in InherentNames
  BY TreesAre
<1>2. f[0] = <<>> /\ \A j \in 1 .. n : f[j] = Place(f[j - 1], e(j))
  BY InheritedIs, Zenon
<1>3. \A j \in 0 .. n : f[j] \in Seq(Placed) /\ Len(f[j]) = j
  BY InheritedSeq, Zenon
<1>4. /\ Behind(sz)[0] = 0
      /\ \A j \in 1 .. n :
            Behind(sz)[j] = Behind(sz)[j - 1] + sz[Inherent[j].name] + GapBehind(Inherent[j])
  BY BehindIs, Zenon
<1> HIDE DEF n, f
<1>5. 0 \in S
  BY <1>1
<1>6. ASSUME NEW j \in 1 .. n, j - 1 \in S PROVE j \in S
  <2> DEFINE p == f[j - 1]
             o == NextOffset(p)
  <2>1. e(j).name \in STRING /\ e(j).size \in 0 .. Full
    BY <1>1, SizesAre DEF PartEntry
  <2>2. j - 1 \in 0 .. n /\ j \in 0 .. n /\ j \in Nat
    BY <1>1
  <2>3. p \in Seq(Placed) /\ Len(p) = j - 1 /\ Len(f[j]) = j
    BY <1>3, <2>2
  <2>4. f[j] = Place(p, e(j))
    BY <1>2
  <2>5. \A i \in 1 .. j - 1 : p[i] = InhEntry(sz, i)
    BY <1>6
  <2> HIDE DEF p, e
  <2>6. /\ \A i \in 1 .. Len(p) : f[j][i] = p[i]
        /\ f[j][Len(f[j])] = [name |-> e(j).name, size |-> e(j).size, offset |-> o]
    <3>1. /\ \A i \in 1 .. Len(p) : Place(p, e(j))[i] = p[i]
          /\ Place(p, e(j))[Len(Place(p, e(j)))] =
                [name |-> e(j).name, size |-> e(j).size, offset |-> o]
      BY <2>1, <2>3, PlaceIs, Zenon
    <3> QED
      BY <2>4, <3>1, Zenon
  <2>7. o = Behind(sz)[j - 1]
    <3>1. CASE j = 1
      <4>1. p = <<>>
        BY <2>3, <3>1
      <4> QED
        BY <1>4, <3>1, <4>1 DEF NextOffset
    <3>2. CASE j # 1
      <4> DEFINE h == j - 1
      <4>1. h \in 1 .. n /\ h \in 0 .. n /\ p # <<>> /\ Final(p) = p[h]
        BY <2>2, <2>3, <3>2, <1>1 DEF Final
      <4> HIDE DEF h
      <4>2. p[h] = InhEntry(sz, h)
        BY <2>5, <4>1 DEF h
      <4>3. /\ Final(p).offset = Behind(sz)[h - 1] /\ Final(p).size = sz[Inherent[h].name]
            /\ GapBehind(Final(p)) = GapBehind(Inherent[h])
        BY <4>1, <4>2 DEF InhEntry, GapBehind
      <4>4. o = Behind(sz)[h] % W
        BY <1>4, <4>1, <4>3 DEF NextOffset
      <4>5. Behind(sz)[h] \in Nat /\ Behind(sz)[h] < W
        <5>1. Behind(sz)[h] \in Nat /\ Behind(sz)[h] <= Capacity
          BY <4>1, BehindFits DEF n
        <5> QED
          BY <5>1, NumbersAre
      <4>6. Behind(sz)[h] % W = Behind(sz)[h]
        BY <4>5, NumbersAre
      <4> QED
        BY <4>4, <4>6 DEF h
    <3> QED
      BY <3>1, <3>2
  <2> HIDE DEF o
  <2>8. f[j][j] = InhEntry(sz, j)
    BY <2>3, <2>6, <2>7 DEF InhEntry, e
  <2>9. \A i \in 1 .. j : f[j][i] = InhEntry(sz, i)
    <3>1. \A i \in 1 .. j : i = j \/ i \in 1 .. j - 1
      BY <2>2
    <3>2. \A i \in 1 .. j - 1 : f[j][i] = InhEntry(sz, i)
      BY <2>3, <2>5, <2>6
    <3> QED
      BY <2>8, <3>1, <3>2
  <2> QED
    BY <2>2, <2>9
<1>7. \A j \in 0 .. n : j \in S
  <2> HIDE DEF S
  <2> QED
    BY <1>1, <1>5, <1>6, CountUp, Zenon
<1> QED
  BY <1>7 DEF n, f

\* Partitions in order: none reaches into the gap in front of the next or over the
\* end of the medium, and no name comes twice.
Orderly(parts) ==
    /\ \A i \in 1 .. Len(parts) - 1 :
          parts[i + 1].offset >= End(parts[i]) + Gap /\ End(parts[i]) <= Capacity
    /\ \A i, j \in 1 .. Len(parts) : parts[i].name = parts[j].name => i = j

\* What holds after k turns of the second loop.
Sound(s, sz, d, k) ==
    /\ Orderly(s.parts)
    /\ \A i \in 1 .. Len(Inherent) : s.parts[i] = InhEntry(sz, i)
    /\ \A i \in Len(Inherent) + 1 .. Len(s.parts) :
          s.parts[i].name \notin InherentNames /\ \E m \in 1 .. k : s.parts[i].name = d[m].name
    /\ ~s.done => End(Final(s.parts)) + GapBehind(Final(s.parts)) <= Capacity + Gap
    /\ s.done => End(Final(s.parts)) % W = Capacity

\* The sizes that matter for the sums.
LEMMA UnitsAre ==
    /\ Capacity \in Nat /\ W \in Nat \ {0} /\ Gap \in Nat /\ BootGap \in Nat
    /\ Gap <= BootGap /\ Capacity + Gap < W /\ Full = W - 1
BY NumbersAre

\* What ends with its gap ends before the gap.
LEMMA EndsBefore ==
    ASSUME NEW e \in Nat, NEW g \in Nat, NEW x \in Nat, e + g = x, x <= Capacity, g >= Gap
    PROVE  x >= e + Gap /\ e <= Capacity
BY UnitsAre

\* The partitions of a layout.
LEMMA EachPlaced ==
    ASSUME NEW c \in Seq(Placed), NEW i \in 1 .. Len(c)
    PROVE  c[i] \in Placed
OBVIOUS

\* A sum below W is not cut.
LEMMA NoWrap ==
    ASSUME NEW x \in Nat, x < W
    PROVE  x % W = x
BY UnitsAre

\* The rest of the medium ends where the medium ends.
LEMMA CutEnds ==
    ASSUME NEW o \in Nat, o <= Capacity + Gap
    PROVE  (o + ((Capacity - o) % W)) % W = Capacity
<1>1. Capacity \in Nat /\ Gap \in Nat /\ W \in Nat \ {0} /\ Capacity + Gap < W
  BY NumbersAre
<1>2. CASE o <= Capacity
  <2>1. Capacity - o \in 0 .. W - 1
    BY <1>1, <1>2
  <2>2. (Capacity - o) % W = Capacity - o
    BY <1>1, <2>1
  <2>3. Capacity % W = Capacity
    BY <1>1
  <2> QED
    BY <1>1, <2>2, <2>3
<1>3. CASE o > Capacity
  <2> DEFINE x == Capacity - o
  <2>1. x \in Int /\ x < 0 /\ x + W > 0
    BY <1>1, <1>3
  <2>2. x % W = x + W
    <3> HIDE DEF x
    <3> QED
      BY <1>1, <2>1
  <2>3. o + (x % W) = Capacity + W
    BY <1>1, <2>2
  <2>4. (Capacity + W) % W = Capacity
    BY <1>1
  <2> QED
    BY <2>3, <2>4
<1> QED
  BY <1>1, <1>2, <1>3

\* There is room for the gap behind the partition, at least behind the medium.
Room(g) == End(g) + GapBehind(g) <= Capacity + Gap

\* Where a partition is put.
LEMMA PutOffset ==
    ASSUME NEW parts \in Seq(Placed), parts # <<>>, Room(Final(parts))
    PROVE  /\ NextOffset(parts) \in Nat /\ NextOffset(parts) <= Capacity + Gap
           /\ End(Final(parts)) <= Capacity
           /\ NextOffset(parts) >= End(Final(parts)) + Gap
<1> DEFINE g == Final(parts)
           x == End(g) + GapBehind(g)
<1>1. g \in Placed
  BY DEF Final
<1>2. g.offset \in Nat /\ g.size \in Nat
  <2> HIDE DEF g
  <2> QED
    BY <1>1, UnitsAre DEF Placed
<1>3. GapBehind(g) \in Nat /\ GapBehind(g) >= Gap
  BY UnitsAre DEF GapBehind
<1>4. NextOffset(parts) = (g.offset + g.size + GapBehind(g)) % W
  BY Zenon DEF NextOffset
<1>5. x <= Capacity + Gap
  BY DEF Room
<1>6. End(g) = g.offset + g.size
  BY DEF End
<1> HIDE DEF g
<1>7. End(g) \in Nat
  BY <1>2, <1>6
<1>8. NextOffset(parts) = x % W
  BY <1>4, <1>6
<1>9. x \in Nat /\ x < W
  BY <1>3, <1>5, <1>7, UnitsAre
<1>10. End(g) <= Capacity /\ x >= End(g) + Gap
  BY <1>3, <1>5, <1>7, UnitsAre
<1> HIDE DEF x
<1>11. NextOffset(parts) = x
  BY <1>8, <1>9, NoWrap
<1> QED
  BY <1>5, <1>9, <1>10, <1>11 DEF g

\* Where a partition that is put ends.
LEMMA PutEnd ==
    ASSUME NEW o \in Nat, o <= Capacity + Gap,
           NEW y \in 0 .. Full, y = Full \/ Capacity + Gap + y < W,
           NEW cut \in BOOLEAN, cut <=> y = Full \/ (o + y) % W > Capacity,
           NEW q, q.offset = o, q.size = (IF cut THEN (Capacity - o) % W ELSE y),
           q.name # "bootloader"
    PROVE  /\ ~cut => Room(q)
           /\ cut => End(q) % W = Capacity
<1>1. ASSUME ~cut PROVE Room(q)
  <2>1. y # Full /\ ~((o + y) % W > Capacity) /\ q.size = y
    BY <1>1
  <2>2. End(q) = o + y
    BY <2>1 DEF End
  <2>3. o + y \in Nat /\ o + y < W
    BY <2>1, UnitsAre
  <2>4. (o + y) % W = o + y
    BY <2>3, NoWrap
  <2>5. o + y <= Capacity
    BY <2>1, <2>3, <2>4, UnitsAre
  <2>6. GapBehind(q) = Gap
    BY DEF GapBehind
  <2> QED
    BY <2>2, <2>3, <2>5, <2>6, UnitsAre DEF Room
<1>2. ASSUME cut PROVE End(q) % W = Capacity
  <2>1. End(q) = o + ((Capacity - o) % W)
    BY <1>2, Zenon DEF End
  <2> QED
    BY <2>1, CutEnds, Zenon
<1> QED
  BY <1>1, <1>2

\* A partition of a new name, put behind the last one, leaves them in order.
LEMMA PutOrder ==
    ASSUME NEW a \in Seq(Placed), a # <<>>, Orderly(a),
           NEW b, Len(b) = Len(a) + 1, \A i \in 1 .. Len(a) : b[i] = a[i],
           b[Len(b)].offset >= End(Final(a)) + Gap, End(Final(a)) <= Capacity,
           \A i \in 1 .. Len(a) : a[i].name # b[Len(b)].name
    PROVE  Orderly(b)
<1> DEFINE l == Len(a)
           q == b[l + 1]
<1>1. l \in Nat /\ l >= 1
  OBVIOUS
<1>2. Final(a) = a[l] /\ b[Len(b)] = q
  BY DEF Final
<1>3. \A i \in 1 .. l - 1 : a[i + 1].offset >= End(a[i]) + Gap /\ End(a[i]) <= Capacity
  BY DEF Orderly
<1>4. \A i, j \in 1 .. l : a[i].name = a[j].name => i = j
  BY DEF Orderly
<1>5. \A i \in 1 .. l : b[i] = a[i] /\ a[i].name # q.name
  BY <1>2
<1>6. q.offset >= End(a[l]) + Gap /\ End(a[l]) <= Capacity
  BY <1>2
<1>7. Len(b) = l + 1 /\ Len(b) - 1 = l
  BY <1>1
<1> HIDE DEF l, q
<1>8. ASSUME NEW i \in 1 .. l
      PROVE  b[i + 1].offset >= End(b[i]) + Gap /\ End(b[i]) <= Capacity
  <2>1. b[i] = a[i]
    BY <1>5
  <2>2. CASE i = l
    BY <1>6, <2>1, <2>2 DEF q
  <2>3. CASE i # l
    <3>1. i \in 1 .. l - 1 /\ i + 1 \in 1 .. l
      BY <1>1, <2>3
    <3>2. b[i + 1] = a[i + 1]
      BY <1>5, <3>1
    <3> QED
      BY <1>3, <2>1, <3>1, <3>2
  <2> QED
    BY <2>2, <2>3
<1>9. ASSUME NEW i \in 1 .. l + 1, NEW j \in 1 .. l + 1, b[i].name = b[j].name
      PROVE  i = j
  <2>1. (i \in 1 .. l \/ i = l + 1) /\ (j \in 1 .. l \/ j = l + 1)
    BY <1>1
  <2>2. CASE i \in 1 .. l /\ j \in 1 .. l
    <3>1. a[i].name = a[j].name
      BY <1>5, <1>9, <2>2
    <3> QED
      BY <1>4, <2>2, <3>1
  <2>3. ASSUME NEW m \in 1 .. l PROVE b[m].name # b[l + 1].name
    BY <1>5 DEF q
  <2> QED
    BY <1>9, <2>1, <2>2, <2>3
<1> QED
  BY <1>7, <1>8, <1>9, Zenon DEF Orderly

\* Its name is new.
LEMMA PutNames ==
    ASSUME NEW sz \in Sizes, NEW d \in Dtbs, NEW k \in 1 .. Len(d), NEW s \in Laid,
           Sound(s, sz, d, k - 1), d[k].name \notin InherentNames,
           NEW i \in 1 .. Len(s.parts)
    PROVE  s.parts[i].name # d[k].name
<1>1. Len(Inherent) \in Nat /\ Len(d) \in Nat /\ Len(s.parts) \in Nat
  BY NumbersAre, TreesAre DEF Laid
<1>2. CASE i \in 1 .. Len(Inherent)
  <2>1. s.parts[i] = InhEntry(sz, i)
    BY <1>2, Zenon DEF Sound
  <2>2. InhEntry(sz, i).name = Inherent[i].name
    BY DEF InhEntry
  <2>3. Inherent[i].name \in InherentNames
    BY <1>2, TreesAre
  <2> QED
    BY <2>1, <2>2, <2>3
<1>3. CASE i \notin 1 .. Len(Inherent)
  <2>1. i \in Len(Inherent) + 1 .. Len(s.parts)
    BY <1>1, <1>3
  <2>2. PICK m \in 1 .. k - 1 : s.parts[i].name = d[m].name
    BY <2>1, Zenon DEF Sound
  <2>3. m \in 1 .. Len(d) /\ m # k
    BY <1>1
  <2>4. d[m].name # d[k].name
    BY <2>3, FitsAssumption
  <2> QED
    BY <2>2, <2>4
<1> QED
  BY <1>2, <1>3

\* A partition that is put.
LEMMA PutSound ==
    ASSUME NEW sz \in Sizes, NEW d \in Dtbs, NEW k \in 1 .. Len(d), NEW s \in Laid, NEW t \in Laid,
           Len(s.parts) >= Len(Inherent), Sound(s, sz, d, k - 1),
           ~Skips(s, d[k]), Puts(s, d[k], t)
    PROVE  Sound(t, sz, d, k)
<1> DEFINE n == Len(Inherent)
           l == Len(s.parts)
           p == d[k]
           o == NextOffset(s.parts)
           cut == p.size = Full \/ (o + p.size) % W > Capacity
           z == IF cut THEN (Capacity - o) % W ELSE p.size
           q == t.parts[Len(t.parts)]
<1>1. n \in Nat /\ n > 2 /\ p \in PartEntry
  BY NumbersAre, TreesAre
<1>2. s.parts \in Seq(Placed) /\ l \in Nat /\ l >= n
  BY DEF Laid
<1>3. ~s.done /\ p.name \notin InherentNames
  BY DEF Skips
<1>4. /\ t.done = cut /\ Len(t.parts) = l + 1
      /\ \A i \in 1 .. l : t.parts[i] = s.parts[i]
      /\ q = [name |-> p.name, offset |-> o, size |-> z]
  BY Zenon DEF Puts
<1>5. Room(Final(s.parts)) /\ Orderly(s.parts)
  BY <1>3, Zenon DEF Sound, Room
<1>6. s.parts # <<>>
  BY <1>1, <1>2
<1>7. /\ o \in Nat /\ o <= Capacity + Gap /\ End(Final(s.parts)) <= Capacity
      /\ o >= End(Final(s.parts)) + Gap
  BY <1>2, <1>5, <1>6, PutOffset, ZenonT(60)
<1>8. q.name = p.name /\ q.offset = o /\ q.size = z
  <2> HIDE DEF o, z, q, cut
  <2> QED
    BY <1>4, Zenon
<1> HIDE DEF o, q
<1>9. (~t.done => Room(q)) /\ (t.done => End(q) % W = Capacity)
  <2>1. p.size \in 0 .. Full /\ (p.size = Full \/ Capacity + Gap + p.size < W)
    BY <1>1, FitsAssumption, Zenon DEF PartEntry
  <2>2. q.name # "bootloader"
    BY <1>3, <1>8, NumbersAre, Zenon
  <2>3. cut \in BOOLEAN
    OBVIOUS
  <2> QED
    BY <1>4, <1>7, <1>8, <2>1, <2>2, <2>3, PutEnd, ZenonT(60)
<1> HIDE DEF n, l, cut, z
<1>10. Orderly(t.parts)
  <2>1. \A i \in 1 .. l : s.parts[i].name # q.name
    BY <1>3, <1>8, PutNames DEF l
  <2>2. q.offset >= End(Final(s.parts)) + Gap
    BY <1>7, <1>8, Zenon
  <2> QED
    BY <1>2, <1>4, <1>5, <1>6, <1>7, <2>1, <2>2, PutOrder, ZenonT(60) DEF l, q
<1>11. \A i \in 1 .. n : t.parts[i] = InhEntry(sz, i)
  <2>1. \A i \in 1 .. n : s.parts[i] = InhEntry(sz, i)
    BY Zenon DEF Sound, n
  <2>2. \A i \in 1 .. n : i \in 1 .. l
    BY <1>1, <1>2
  <2> QED
    BY <1>4, <2>1, <2>2, Zenon
<1>12. \A i \in n + 1 .. Len(t.parts) :
          t.parts[i].name \notin InherentNames /\ \E m \in 1 .. k : t.parts[i].name = d[m].name
  <2>1. ASSUME NEW i \in n + 1 .. l
        PROVE  t.parts[i].name \notin InherentNames /\ \E m \in 1 .. k : t.parts[i].name = d[m].name
    <3>1. /\ s.parts[i].name \notin InherentNames
          /\ \E m \in 1 .. k - 1 : s.parts[i].name = d[m].name
      BY Zenon DEF Sound, n, l
    <3>2. i \in 1 .. l
      BY <1>1, <1>2
    <3>3. t.parts[i] = s.parts[i]
      BY <1>4, <3>2
    <3>4. \A m \in 1 .. k - 1 : m \in 1 .. k
      OBVIOUS
    <3> QED
      BY <3>1, <3>3, <3>4, Zenon
  <2>2. q.name \notin InherentNames /\ \E m \in 1 .. k : q.name = d[m].name
    <3>1. k \in 1 .. k
      OBVIOUS
    <3> QED
      BY <1>3, <1>8, <3>1
  <2>3. \A i \in n + 1 .. Len(t.parts) : i \in n + 1 .. l \/ i = Len(t.parts)
    BY <1>1, <1>2, <1>4
  <2> QED
    BY <2>1, <2>2, <2>3, Zenon DEF q
<1>13. Final(t.parts) = q
  BY DEF Final, q
<1> QED
  BY <1>9, <1>10, <1>11, <1>12, <1>13, Zenon DEF Sound, Room, n

\* What holds after each turn of the second loop.
LEMMA TurnsSound ==
    ASSUME NEW sz \in Sizes, NEW d \in Dtbs, NEW k \in 0 .. Len(d)
    PROVE  Sound(Turns(sz, d)[k], sz, d, k)
<1> DEFINE n == Len(Inherent)
           m == Len(d)
           f == Turns(sz, d)
           S == {j \in 0 .. m : Sound(f[j], sz, d, j)}
<1>1. n \in Nat /\ n > 2 /\ m \in Nat /\ \A i \in 1 .. m : d[i] \in PartEntry
  BY TreesAre, NumbersAre
<1>2. /\ f[0] = [parts |-> Inherited(sz)[n], done |-> FALSE]
      /\ \A j \in 1 .. m : f[j] = Turn(f[j - 1], d[j])
  BY TurnsAre, Zenon
<1>3. \A j \in 0 .. m : f[j] \in Laid /\ Len(f[j].parts) \in n .. n + Others(d)[j] /\ Others(d)[j] \in Nat
  BY TurnsLaid, Zenon
<1>4. /\ Inherited(sz)[n] \in Seq(Placed) /\ Len(Inherited(sz)[n]) = n
      /\ \A i \in 1 .. n : Inherited(sz)[n][i] = InhEntry(sz, i)
  BY <1>1, InheritedSeq, InheritedSound
<1> HIDE DEF n, m, f
<1>5. Sound(f[0], sz, d, 0)
  <2> DEFINE q == Inherited(sz)[n]
  <2>1. f[0].parts = q /\ f[0].done = FALSE
    BY <1>2
  <2> HIDE DEF q
  <2>2. ASSUME NEW i \in 1 .. n
        PROVE  /\ q[i] = InhEntry(sz, i) /\ q[i].name = Inherent[i].name
               /\ q[i].offset = Behind(sz)[i - 1]
               /\ End(q[i]) + GapBehind(q[i]) = Behind(sz)[i]
               /\ Behind(sz)[i] \in Nat /\ Behind(sz)[i] <= Capacity
               /\ GapBehind(q[i]) >= Gap /\ GapBehind(q[i]) \in Nat
               /\ End(q[i]) \in Nat
    <3>1. q[i] = InhEntry(sz, i)
      BY <1>4 DEF q
    <3>2. /\ q[i].name = Inherent[i].name /\ q[i].offset = Behind(sz)[i - 1]
          /\ q[i].size = sz[Inherent[i].name]
      BY <3>1 DEF InhEntry
    <3>3. GapBehind(q[i]) = GapBehind(Inherent[i])
      BY <3>2 DEF GapBehind
    <3>4. Behind(sz)[i] = Behind(sz)[i - 1] + sz[Inherent[i].name] + GapBehind(Inherent[i])
      BY BehindIs, Zenon DEF n
    <3>5. i \in 0 .. n /\ i - 1 \in 0 .. n
      BY <1>1
    <3>6. Behind(sz)[i] \in Nat /\ Behind(sz)[i] <= Capacity /\ Behind(sz)[i - 1] \in Nat
      BY <3>5, BehindFits DEF n
    <3>7. sz[Inherent[i].name] \in 0 .. Full
      BY TreesAre, SizesAre DEF n
    <3>8. GapBehind(q[i]) >= Gap /\ GapBehind(q[i]) \in Nat
      BY UnitsAre DEF GapBehind
    <3>9. End(q[i]) = Behind(sz)[i - 1] + sz[Inherent[i].name]
      BY <3>2, Zenon DEF End
    <3>10. sz[Inherent[i].name] \in Nat
      BY <3>7, UnitsAre
    <3>11. End(q[i]) \in Nat /\ End(q[i]) + GapBehind(q[i]) = Behind(sz)[i]
      BY <3>3, <3>4, <3>6, <3>8, <3>9, <3>10
    <3> QED
      BY <3>1, <3>2, <3>6, <3>8, <3>11, Zenon
  <2>3. Len(q) = n
    BY <1>4 DEF q
  <2>4. ASSUME NEW i \in 1 .. Len(q) - 1
        PROVE  q[i + 1].offset >= End(q[i]) + Gap /\ End(q[i]) <= Capacity
    <3>1. i \in 1 .. n /\ i + 1 \in 1 .. n /\ i + 1 - 1 = i
      BY <1>1, <2>3
    <3>2. q[i + 1].offset = Behind(sz)[i]
      BY <2>2, <3>1
    <3>3. /\ End(q[i]) + GapBehind(q[i]) = Behind(sz)[i]
          /\ Behind(sz)[i] \in Nat /\ Behind(sz)[i] <= Capacity
          /\ GapBehind(q[i]) >= Gap /\ GapBehind(q[i]) \in Nat
          /\ End(q[i]) \in Nat
      BY <2>2, <3>1, Zenon
    <3> QED
      BY <3>2, <3>3, EndsBefore, Zenon
  <2>5. ASSUME NEW i \in 1 .. Len(q), NEW j \in 1 .. Len(q), q[i].name = q[j].name
        PROVE  i = j
    <3>1. Inherent[i].name = Inherent[j].name
      BY <2>2, <2>3, <2>5
    <3> QED
      BY <2>3, <3>1, FitsAssumption DEF n
  <2>6. Orderly(q)
    BY <2>4, <2>5 DEF Orderly
  <2>7. End(Final(q)) + GapBehind(Final(q)) <= Capacity + Gap
    <3>1. n \in 1 .. n /\ Final(q) = q[n]
      BY <1>1, <2>3 DEF Final
    <3>2. End(q[n]) + GapBehind(q[n]) = Behind(sz)[n] /\ Behind(sz)[n] \in Nat /\ Behind(sz)[n] <= Capacity
      BY <2>2, <3>1
    <3> QED
      BY <3>1, <3>2, UnitsAre
  <2>8. \A i \in n + 1 .. Len(q) : FALSE
    BY <1>1, <2>3
  <2>9. \A i \in 1 .. n : q[i] = InhEntry(sz, i)
    BY <2>2
  <2> QED
    BY <2>1, <2>6, <2>7, <2>8, <2>9 DEF Sound, n
<1>6. 0 \in S
  BY <1>1, <1>5
<1>7. ASSUME NEW j \in 1 .. m, j - 1 \in S PROVE j \in S
  <2>1. Sound(f[j - 1], sz, d, j - 1) /\ j \in 0 .. m /\ j - 1 \in 0 .. m
    BY <1>1, <1>7
  <2>2. f[j - 1] \in Laid /\ f[j] \in Laid /\ d[j] \in PartEntry
    BY <1>1, <1>3, <2>1
  <2>3. Len(f[j - 1].parts) >= n
    <3>1. Len(f[j - 1].parts) \in n .. n + Others(d)[j - 1] /\ Others(d)[j - 1] \in Nat
      BY <1>3, <2>1, Zenon
    <3> QED
      BY <1>1, <3>1
  <2>4. f[j] = Turn(f[j - 1], d[j])
    BY <1>2
  <2>5. /\ Skips(f[j - 1], d[j]) => f[j] = f[j - 1]
        /\ ~Skips(f[j - 1], d[j]) => Puts(f[j - 1], d[j], f[j])
    BY <2>2, <2>4, TurnIs, Zenon
  <2>6. Sound(f[j], sz, d, j)
    <3>1. CASE Skips(f[j - 1], d[j])
      <4>1. Sound(f[j], sz, d, j - 1)
        BY <2>1, <2>5, <3>1
      <4>2. \A i \in 1 .. j - 1 : i \in 1 .. j
        OBVIOUS
      <4> QED
        BY <4>1, <4>2, Zenon DEF Sound
    <3>2. CASE ~Skips(f[j - 1], d[j])
      BY <2>1, <2>2, <2>3, <2>5, <3>2, PutSound, Zenon DEF n, m
    <3> QED
      BY <3>1, <3>2
  <2> QED
    BY <2>1, <2>6
<1>8. \A j \in 0 .. m : j \in S
  <2> HIDE DEF S
  <2> QED
    BY <1>1, <1>6, <1>7, CountUp, Zenon
<1> QED
  BY <1>8 DEF m, f

\* The second loop ends by giving a partition the rest of the medium.
LEMMA LoopEnds ==
    ASSUME NEW sz \in Sizes, NEW d \in Dtbs
    PROVE  Turns(sz, d)[Len(d)].done
<1> DEFINE m == Len(d)
           f == Turns(sz, d)
<1>1. m \in Nat \ {0} /\ m \in 1 .. m /\ m - 1 \in 0 .. m /\ d[m] \in PartEntry
  BY TreesAre
<1>2. f[m] = Turn(f[m - 1], d[m])
  BY <1>1, TurnsAre, Zenon
<1>3. f[m - 1] \in Laid
  BY <1>1, TurnsLaid, Zenon
<1>4. d[m].size = Full /\ d[m].name \notin InherentNames
  BY PartsAssumption DEF Final
<1> HIDE DEF m, f
<1>5. /\ Skips(f[m - 1], d[m]) => f[m] = f[m - 1]
      /\ ~Skips(f[m - 1], d[m]) => Puts(f[m - 1], d[m], f[m])
  BY <1>1, <1>2, <1>3, TurnIs, Zenon
<1>6. f[m].done
  <2>1. CASE Skips(f[m - 1], d[m])
    BY <1>4, <1>5, <2>1 DEF Skips
  <2>2. CASE ~Skips(f[m - 1], d[m])
    BY <1>4, <1>5, <2>2, Zenon DEF Puts
  <2> QED
    BY <2>1, <2>2
<1> QED
  BY <1>6 DEF m, f

\* A finished layout.
WellLaid(c, sz) ==
    /\ c \in Seq(Placed) /\ Len(c) >= Len(Inherent)
    /\ Orderly(c)
    /\ \A i \in 1 .. Len(Inherent) : c[i] = InhEntry(sz, i)
    /\ End(Final(c)) % W = Capacity

\* mmc_get_partition_table gives one, whatever the sizes and the device tree.
LEMMA LayoutWellLaid ==
    ASSUME NEW sz \in Sizes, NEW d \in Dtbs
    PROVE  WellLaid(Layout(sz, d), sz)
<1> DEFINE s == Turns(sz, d)[Len(d)]
<1>1. Len(d) \in 0 .. Len(d)
  BY TreesAre
<1>2. Sound(s, sz, d, Len(d))
  BY <1>1, TurnsSound, Zenon
<1>3. s.done
  BY LoopEnds
<1>4. Layout(sz, d) = s.parts
  BY Zenon DEF Layout
<1> HIDE DEF s
<1>5. /\ Orderly(s.parts) /\ End(Final(s.parts)) % W = Capacity
      /\ \A i \in 1 .. Len(Inherent) : s.parts[i] = InhEntry(sz, i)
  BY <1>2, <1>3, Zenon DEF Sound
<1>6. Layout(sz, d) \in Seq(Placed) /\ Len(Layout(sz, d)) >= Len(Inherent)
  BY LayoutFits DEF Tables
<1> QED
  BY <1>4, <1>5, <1>6, Zenon DEF WellLaid

\* The layout in use is one.
LEMMA ConfWellLaid ==
    ASSUME PartsInv, conf # None
    PROVE  \E sz \in Sizes : WellLaid(conf, sz)
<1>1. PICK sz \in Sizes, d \in Dtbs : conf = Layout(sz, d)
  BY Zenon DEF PartsInv, DataInv
<1>2. WellLaid(conf, sz)
  BY <1>1, LayoutWellLaid
<1> QED
  BY <1>2

\* A name leads to the one partition that has it.
LEMMA NamedOnce ==
    ASSUME NEW c \in Seq(Placed), Orderly(c), NEW i \in 1 .. Len(c)
    PROVE  /\ Find(c, c[i].name) = c[i]
           /\ \A q \in Range1(c) : q.name = c[i].name => q = c[i]
<1>1. Len(c) \in Nat /\ Has(c, c[i].name)
  BY DEF Has
<1>2. \A j \in 1 .. Len(c) : c[j].name = c[i].name => j = i
  BY ZenonT(60) DEF Orderly
<1>3. \A q \in Range1(c) : q.name = c[i].name => q = c[i]
  BY <1>2 DEF Range1
<1>4. Find(c, c[i].name) \in Range1(c) /\ Find(c, c[i].name).name = c[i].name
  BY <1>1, FindIs, Zenon
<1> QED
  BY <1>3, <1>4

\* What is behind a partition is behind what that one is behind.
LEMMA Onward ==
    ASSUME NEW x \in Nat, NEW o \in Nat, NEW z \in Nat, NEW e \in Nat, NEW g \in Nat,
           x >= (o + z) + g, o >= e + g
    PROVE  x >= e + g
OBVIOUS

\* A partition begins behind all those before it.
LEMMA FurtherBehind ==
    ASSUME NEW c \in Seq(Placed), Orderly(c), NEW k \in 1 .. Len(c), NEW i \in 1 .. k - 1
    PROVE  c[k].offset >= End(c[i]) + Gap
<1> DEFINE l == Len(c)
           S == {j \in 0 .. l : \A m \in 1 .. j - 1 : c[j].offset >= End(c[m]) + Gap}
<1>1. l \in Nat /\ Gap \in Nat
  BY UnitsAre
<1>2. ASSUME NEW j \in 1 .. l
      PROVE  c[j].offset \in Nat /\ c[j].size \in Nat /\ End(c[j]) = c[j].offset + c[j].size
  <2>1. c[j] \in Placed
    BY EachPlaced, Zenon
  <2> QED
    BY <2>1, UnitsAre DEF Placed, End
<1>3. \A j \in 1 .. l - 1 : c[j + 1].offset >= End(c[j]) + Gap
  BY DEF Orderly
<1> HIDE DEF l
<1>4. 0 \in S
  BY <1>1
<1>5. ASSUME NEW j \in 1 .. l, j - 1 \in S PROVE j \in S
  <2>1. ASSUME NEW m \in 1 .. j - 1 PROVE c[j].offset >= End(c[m]) + Gap
    <3>1. /\ j - 1 \in 1 .. l /\ j - 1 \in 1 .. l - 1 /\ j - 1 + 1 = j /\ m \in 1 .. l
          /\ m = j - 1 \/ m \in 1 .. (j - 1) - 1
      BY <1>1
    <3>2. c[j].offset >= End(c[j - 1]) + Gap
      BY <1>3, <3>1
    <3>3. CASE m = j - 1
      BY <3>2, <3>3
    <3>4. CASE m \in 1 .. (j - 1) - 1
      <4>1. c[j - 1].offset >= End(c[m]) + Gap
        BY <1>5, <3>4
      <4>2. /\ c[j - 1].offset \in Nat /\ c[j - 1].size \in Nat
            /\ End(c[j - 1]) = c[j - 1].offset + c[j - 1].size
        BY <1>2, <3>1
      <4>3. /\ c[m].offset \in Nat /\ c[m].size \in Nat
            /\ End(c[m]) = c[m].offset + c[m].size
        BY <1>2, <3>1
      <4>4. c[j].offset \in Nat
        BY <1>2
      <4> QED
        <5>1. End(c[m]) \in Nat
          BY <4>3
        <5>2. c[j].offset >= (c[j - 1].offset + c[j - 1].size) + Gap
          BY <3>2, <4>2
        <5> QED
          BY <1>1, <4>1, <4>2, <4>4, <5>1, <5>2, Onward, Zenon
    <3> QED
      BY <3>1, <3>3, <3>4
  <2>2. j \in 0 .. l
    BY <1>1
  <2> QED
    BY <2>1, <2>2
<1>6. \A j \in 0 .. l : j \in S
  <2> HIDE DEF S
  <2> QED
    BY <1>1, <1>4, <1>5, CountUp, Zenon
<1>7. k \in S
  BY <1>1, <1>6 DEF l
<1> QED
  BY <1>7

\* Where the first two partitions are.
LEMMA FirstTwo ==
    ASSUME NEW sz \in Sizes, NEW c, WellLaid(c, sz)
    PROVE  /\ c[1] \in Range1(c) /\ c[1].name = "bootloader" /\ c[1].offset = 0
           /\ c[1].size \in Nat /\ c[1].size <= Gap
           /\ c[2].name = "reserved" /\ c[2].offset = c[1].size + BootGap
           /\ c[2].offset = ReservedAt /\ c[2].size \in Nat
           /\ ReservedAt < DtbAt /\ DtbAt < ReservedAt + c[2].size
<1>1. Len(Inherent) \in Nat /\ 1 \in 1 .. Len(Inherent) /\ 2 \in 1 .. Len(Inherent)
  BY NumbersAre
<1>2. c[1] = InhEntry(sz, 1) /\ c[2] = InhEntry(sz, 2) /\ 1 \in 1 .. Len(c)
  BY <1>1 DEF WellLaid
<1>3. /\ c[1].name = "bootloader" /\ c[1].size = sz["bootloader"] /\ c[1].offset = Behind(sz)[0]
      /\ c[2].name = "reserved" /\ c[2].size = sz["reserved"] /\ c[2].offset = Behind(sz)[1]
  <2>1. /\ InhEntry(sz, 1).name = Inherent[1].name /\ InhEntry(sz, 1).size = sz[Inherent[1].name]
        /\ InhEntry(sz, 1).offset = Behind(sz)[1 - 1]
    BY DEF InhEntry
  <2>2. /\ InhEntry(sz, 2).name = Inherent[2].name /\ InhEntry(sz, 2).size = sz[Inherent[2].name]
        /\ InhEntry(sz, 2).offset = Behind(sz)[2 - 1]
    BY DEF InhEntry
  <2>3. Inherent[1].name = "bootloader" /\ Inherent[2].name = "reserved" /\ 1 - 1 = 0 /\ 2 - 1 = 1
    BY NumbersAre
  <2> QED
    BY <1>2, <2>1, <2>2, <2>3, ZenonT(60)
<1>4. sz["bootloader"] \in Given("bootloader") /\ sz["bootloader"] \in 0 .. Full
  BY NumbersAre, SizesAre
<1>5. sz["reserved"] \in Given("reserved") /\ sz["reserved"] \in 0 .. Full
  BY NumbersAre, SizesAre
<1>6. sz["bootloader"] \in Nat /\ sz["reserved"] \in Nat
  BY <1>4, <1>5, UnitsAre
<1>7. sz["bootloader"] <= Gap /\ sz["bootloader"] + BootGap = ReservedAt
  BY <1>4, FitsAssumption, Zenon
<1>8. ReservedAt < DtbAt /\ DtbAt < ReservedAt + sz["reserved"]
  BY <1>5, FitsAssumption, Zenon
<1>9. Behind(sz)[0] = 0
  BY BehindIs, Zenon
<1>10. Behind(sz)[1] = Behind(sz)[1 - 1] + sz[Inherent[1].name] + GapBehind(Inherent[1])
  BY <1>1, BehindIs, Zenon
<1>11. GapBehind(Inherent[1]) = BootGap /\ Inherent[1].name = "bootloader" /\ 1 - 1 = 0
  BY NumbersAre DEF GapBehind
<1>12. Behind(sz)[1] = sz["bootloader"] + BootGap
  BY <1>6, <1>9, <1>10, <1>11, UnitsAre
<1>13. c[1] \in Range1(c)
  BY <1>2 DEF Range1
<1> QED
  BY <1>3, <1>6, <1>7, <1>8, <1>9, <1>12, <1>13

(* For every set of device trees within the assumptions: the layout in use has
   its partitions one behind the other with the gaps between them, ends where
   the medium ends, has no name twice, and has the reserved partition where the
   key code looks (LayoutSound).                                             *)
THEOREM LayoutSoundSafe == EmmcPartsSpec => []LayoutSound
<1>1. EmmcPartsInit => PartsInv
  BY InitParts
<1>2. PartsInv /\ [EmmcPartsNext]_emmcVars => PartsInv'
  BY NextParts
<1>3. ASSUME PartsInv PROVE LayoutSound
  <2>1. SUFFICES ASSUME conf # None
                 PROVE  /\ Orderly(conf) /\ End(Final(conf)) % W = Capacity
                        /\ LET r == Find(conf, "reserved")
                           IN r.offset = ReservedAt /\ r.offset < DtbAt /\ DtbAt < End(r)
    BY Zenon DEF LayoutSound, Orderly
  <2>2. PICK sz \in Sizes : WellLaid(conf, sz)
    BY <1>3, <2>1, ConfWellLaid
  <2>3. conf \in Seq(Placed) /\ Orderly(conf) /\ End(Final(conf)) % W = Capacity
    BY <2>2, Zenon DEF WellLaid
  <2>4. 2 \in 1 .. Len(conf)
    BY <2>2, NumbersAre DEF WellLaid
  <2>5. /\ conf[2].name = "reserved" /\ conf[2].offset = ReservedAt
        /\ ReservedAt < DtbAt /\ DtbAt < ReservedAt + conf[2].size
    BY <2>2, FirstTwo, Zenon
  <2>6. Find(conf, "reserved") = conf[2]
    <3>1. Find(conf, conf[2].name) = conf[2]
      BY <2>3, <2>4, NamedOnce, Zenon
    <3> QED
      BY <2>5, <3>1
  <2> QED
    BY <2>3, <2>5, <2>6 DEF End
<1> QED
  BY <1>1, <1>2, <1>3, PTL DEF EmmcPartsSpec

\* What a protected erase leaves out.
LEMMA Spared ==
    ASSUME PartsInv, conf # None, NEW what \in EraseModes
    PROVE  /\ "reserved" \notin Erased(what, TRUE)
           /\ what = "non_cache" => "cache" \notin Erased(what, TRUE)
           /\ what = "non_loader" => "bootloader" \notin Erased(what, TRUE)
<1> DEFINE b == conf[1]
           r == conf[2]
           from == IF what = "non_loader" /\ Has(conf, "bootloader")
                   THEN End(Find(conf, "bootloader")) ELSE 0
           kept == Find(conf, IF what = "non_cache" THEN "cache" ELSE "reserved")
           to == from + r.offset - Gap
           Out(q) == ~(Touches(q, from, to) \/ Touches(q, End(kept) + Gap, Capacity - 1))
<1>1. PICK sz \in Sizes : WellLaid(conf, sz)
  BY ConfWellLaid
<1>2. /\ conf \in Seq(Placed) /\ Orderly(conf) /\ Len(conf) >= Len(Inherent)
      /\ \A i \in 1 .. Len(Inherent) : conf[i] = InhEntry(sz, i)
  BY <1>1, Zenon DEF WellLaid
<1>3. Len(Inherent) \in Nat /\ Len(conf) \in Nat /\ 1 \in 1 .. Len(conf) /\ 2 \in 1 .. Len(conf)
  BY <1>2, NumbersAre
<1>4. /\ b.name = "bootloader" /\ b.offset = 0 /\ b.size \in Nat /\ b.size <= Gap
      /\ r.name = "reserved" /\ r.offset = b.size + BootGap /\ r.size \in Nat
  BY <1>1, FirstTwo, Zenon
<1>5. PICK c \in 1 .. Len(Inherent) : Inherent[c].name = "cache"
  BY NumbersAre DEF InherentNames, Range1
<1>6. conf[c].name = "cache" /\ c \in 1 .. Len(conf)
  <2>1. conf[c] = InhEntry(sz, c)
    BY <1>2, <1>5
  <2> QED
    BY <1>2, <1>3, <1>5, <2>1 DEF InhEntry
<1>7. c # 1 /\ c # 2
  BY <1>4, <1>6
<1>8. /\ Find(conf, "bootloader") = b /\ \A q \in Range1(conf) : q.name = "bootloader" => q = b
      /\ Find(conf, "reserved") = r /\ \A q \in Range1(conf) : q.name = "reserved" => q = r
      /\ Find(conf, "cache") = conf[c] /\ \A q \in Range1(conf) : q.name = "cache" => q = conf[c]
  <2>1. Find(conf, b.name) = b /\ \A q \in Range1(conf) : q.name = b.name => q = b
    BY <1>2, <1>3, NamedOnce, Zenon
  <2>2. Find(conf, r.name) = r /\ \A q \in Range1(conf) : q.name = r.name => q = r
    BY <1>2, <1>3, NamedOnce, Zenon
  <2>3. Find(conf, conf[c].name) = conf[c] /\ \A q \in Range1(conf) : q.name = conf[c].name => q = conf[c]
    BY <1>2, <1>6, NamedOnce, Zenon
  <2> QED
    BY <1>4, <1>6, <2>1, <2>2, <2>3, Zenon
<1>9. conf[c].offset >= End(r) + Gap
  <2>1. 2 \in 1 .. c - 1
    BY <1>6, <1>7
  <2> QED
    BY <1>2, <1>6, <2>1, FurtherBehind, Zenon
<1>10. conf[c].offset \in Nat /\ conf[c].size \in Nat
  <2>1. conf[c] \in Placed
    BY <1>2, <1>6, EachPlaced, Zenon
  <2> QED
    BY <2>1, UnitsAre DEF Placed
<1>11. Erased(what, TRUE) = {p.name : p \in {q \in Range1(conf) : ~Out(q)}}
  BY <1>8 DEF Erased, EraseEnd
<1> DEFINE k == conf[c]
<1>12. /\ from = IF what = "non_loader" THEN End(b) ELSE 0
       /\ kept = IF what = "non_cache" THEN k ELSE r
  <2>1. Has(conf, "bootloader")
    BY <1>3, <1>4 DEF Has
  <2> QED
    BY <1>8, <2>1
<1>13. End(b) = b.size /\ End(r) = r.offset + r.size /\ End(k) = k.offset + k.size
  BY <1>4 DEF End
<1> HIDE DEF b, r, k, from, kept
<1>14. from \in Nat /\ from <= Gap /\ Gap \in Nat /\ BootGap \in Nat /\ Capacity \in Nat
  BY <1>4, <1>12, <1>13, UnitsAre
<1>15. End(kept) >= End(r) /\ End(kept) \in Nat /\ End(r) \in Nat /\ r.offset \in Nat
  <2>1. r.offset \in Nat
    BY <1>4, <1>14
  <2>2. End(r) \in Nat
    BY <1>4, <1>13, <2>1
  <2>3. End(k) \in Nat /\ End(k) >= End(r)
    <3>1. k.offset \in Nat /\ k.size \in Nat /\ k.offset >= End(r) + Gap
      BY <1>9, <1>10 DEF k
    <3> QED
      BY <1>13, <1>14, <2>2, <3>1
  <2>4. End(r) >= End(r)
    BY <2>2
  <2> QED
    BY <1>12, <2>1, <2>2, <2>3, <2>4
<1>16. Out(r)
  BY <1>4, <1>13, <1>14, <1>15 DEF Touches
<1>17. what = "non_cache" => Out(k)
  <2>1. SUFFICES ASSUME what = "non_cache" PROVE Out(k)
    OBVIOUS
  <2>2. kept = k /\ from = 0
    BY <1>12, <2>1
  <2>3. k.offset \in Nat /\ k.size \in Nat /\ k.offset >= End(r) + Gap
    BY <1>9, <1>10 DEF k
  <2>4. ~(k.offset < 0 + r.offset - Gap)
    <3>1. k.offset >= (r.offset + r.size) + Gap
      BY <1>13, <2>3
    <3>2. r.offset \in Nat /\ r.size \in Nat /\ k.offset \in Nat /\ Gap \in Nat
      BY <1>4, <1>14, <1>15, <2>3
    <3> QED
      BY <3>1, <3>2
  <2>5. ~(End(k) + Gap < End(k))
    BY <1>14, <1>15, <2>2
  <2> QED
    BY <2>2, <2>4, <2>5, Zenon DEF Touches
<1>18. what = "non_loader" => Out(b)
  <2>1. SUFFICES ASSUME what = "non_loader" PROVE Out(b)
    OBVIOUS
  <2>2. from = End(b)
    BY <1>12, <2>1
  <2> QED
    BY <1>4, <1>13, <1>14, <1>15, <2>2 DEF Touches
<1> HIDE DEF Out
<1> QED
  BY <1>8, <1>11, <1>16, <1>17, <1>18, Zenon DEF k

\* An erase of one partition leaves out the others.
LEMMA NamedErase ==
    ASSUME PartsInv, conf # None, NEW what, what \notin EraseModes, Has(conf, what), NEW protected
    PROVE  Erased(what, protected) \subseteq {what}
<1>1. PICK sz \in Sizes : WellLaid(conf, sz)
  BY ConfWellLaid
<1>2. conf \in Seq(Placed) /\ Orderly(conf)
  BY <1>1, Zenon DEF WellLaid
<1>3. PICK i \in 1 .. Len(conf) : conf[i].name = what
  BY DEF Has
<1>4. Find(conf, what) = conf[i]
  BY <1>2, <1>3, NamedOnce, Zenon
<1>5. ASSUME NEW j \in 1 .. Len(conf)
      PROVE  conf[j].offset \in Nat /\ conf[j].size \in Nat /\ End(conf[j]) \in Nat
  <2>1. conf[j] \in Placed
    BY <1>2, EachPlaced, Zenon
  <2> QED
    BY <2>1, UnitsAre DEF Placed, End
<1>6. ASSUME NEW j \in 1 .. Len(conf), j # i
      PROVE  ~Touches(conf[j], conf[i].offset, End(conf[i]))
  <2>1. Gap \in Nat /\ Len(conf) \in Nat
    BY <1>2, UnitsAre
  <2>2. CASE j < i
    <3>1. j \in 1 .. i - 1
      BY <2>1, <2>2
    <3>2. conf[i].offset >= End(conf[j]) + Gap
      BY <1>2, <3>1, FurtherBehind, Zenon
    <3> QED
      BY <1>5, <2>1, <3>2 DEF Touches
  <2>3. CASE i < j
    <3>1. i \in 1 .. j - 1
      BY <2>1, <2>3
    <3>2. conf[j].offset >= End(conf[i]) + Gap
      BY <1>2, <3>1, FurtherBehind, Zenon
    <3> QED
      BY <1>5, <2>1, <3>2 DEF Touches
  <2> QED
    BY <1>6, <2>1, <2>2, <2>3
<1>7. Erased(what, protected) =
          {p.name : p \in {q \in Range1(conf) : Touches(q, conf[i].offset, End(conf[i]))}}
  BY <1>4 DEF Erased
<1>8. \A q \in Range1(conf) : Touches(q, conf[i].offset, End(conf[i])) => q = conf[i]
  BY <1>6, Zenon DEF Range1
<1> QED
  BY <1>3, <1>7, <1>8, Zenon

\* Without a layout no partition is known to be touched.
LEMMA NoneErased ==
    ASSUME conf = None, NEW what, NEW protected
    PROVE  Erased(what, protected) = {}
<1>1. Range1(conf) = {}
  BY DEF Range1, None
<1> QED
  BY <1>1 DEF Erased

(* For every set of device trees within the assumptions: no protected erase
   reaches what it spares, and an erase of one partition reaches no other
   (EraseSpares).                                                            *)
THEOREM EraseSparesSafe == EmmcPartsSpec => EraseSpares
<1>1. EmmcPartsInit => PartsInv
  BY InitParts
<1>2. PartsInv /\ [EmmcPartsNext]_emmcVars => PartsInv'
  BY NextParts
<1>3. ASSUME PartsInv
      PROVE  \A what \in EraseModes \union ErasedParts :
                 /\ Erase(what, TRUE) =>
                       /\ "reserved" \notin hit'
                       /\ what = "non_cache" => "cache" \notin hit'
                       /\ what = "non_loader" => "bootloader" \notin hit'
                 /\ what \notin EraseModes /\ Erase(what, FALSE) => hit' \subseteq {what}
  <2>1. TAKE what \in EraseModes \union ErasedParts
  <2>2. ASSUME NEW protected, Erase(what, protected)
        PROVE  \/ hit' = {}
               \/ /\ hit' = Erased(what, protected) /\ conf # None
                  /\ ~EraseRefused(what, protected)
    <3>1. hit' = {} \/ (hit' = Erased(what, protected) /\ ~EraseRefused(what, protected))
      BY <2>2, Zenon DEF Erase
    <3>2. conf = None => Erased(what, protected) = {}
      BY NoneErased
    <3> QED
      BY <3>1, <3>2
  <2>3. ASSUME what \notin EraseModes, NEW protected, Erase(what, protected)
        PROVE  hit' \subseteq {what} /\ (protected => hit' = {} \/ what # "reserved")
    <3>1. CASE hit' = {}
      BY <3>1
    <3>2. CASE hit' # {}
      <4>1. hit' = Erased(what, protected) /\ conf # None /\ ~EraseRefused(what, protected)
        BY <2>2, <2>3, <3>2
      <4>2. Has(conf, what) /\ ~(protected /\ what = "reserved")
        BY <2>3, <4>1 DEF EraseRefused
      <4>3. Erased(what, protected) \subseteq {what}
        BY <1>3, <2>3, <4>1, <4>2, NamedErase
      <4> QED
        BY <4>1, <4>2, <4>3
    <3> QED
      BY <3>1, <3>2
  <2>4. ASSUME Erase(what, TRUE)
        PROVE  /\ "reserved" \notin hit'
               /\ what = "non_cache" => "cache" \notin hit'
               /\ what = "non_loader" => "bootloader" \notin hit'
    <3>1. CASE what \in EraseModes
      <4>1. hit' = {} \/ (hit' = Erased(what, TRUE) /\ conf # None)
        BY <2>2, <2>4
      <4> QED
        BY <1>3, <3>1, <4>1, Spared
    <3>2. CASE what \notin EraseModes
      <4>1. hit' \subseteq {what} /\ (hit' = {} \/ what # "reserved")
        BY <2>3, <2>4, <3>2
      <4>2. what # "non_cache" /\ what # "non_loader"
        BY <3>2 DEF EraseModes
      <4> QED
        BY <4>1, <4>2
    <3> QED
      BY <3>1, <3>2
  <2> QED
    BY <2>3, <2>4
<1> QED
  BY <1>1, <1>2, <1>3, PTL DEF EmmcPartsSpec, EraseSpares
=============================================================================
