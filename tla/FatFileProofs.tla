---------------------------- MODULE FatFileProofs ----------------------------
(***************************************************************************)
(* The file on the card, for every layout of its clusters: the FAT reader  *)
(* reads the bytes that were asked for, and is a plain file.               *)
(***************************************************************************)
EXTENDS FatFile, TLAPS, WellFoundedInduction

-----------------------------------------------------------------------------
(* Multiples, quotients and remainders.                                      *)

\* One multiple more.
LEMMA MulNext ==
    ASSUME NEW a \in Int, NEW b \in Int, NEW w \in Nat, a < b
    PROVE  a * w + w <= b * w
<1>1. (b - a - 1) * w >= 0
  BY SMT
<1>2. (b - a - 1) * w = b * w - a * w - w
  BY SMT
<1> QED
  BY <1>1, <1>2

\* Multiples are ordered as their factors.
LEMMA MulMonotone ==
    ASSUME NEW a \in Nat, NEW b \in Nat, NEW w \in Nat, a <= b
    PROVE  a * w \in Nat /\ b * w \in Nat /\ a * w <= b * w
<1>1. a * w \in Nat /\ b * w \in Nat
  BY SMT
<1>2. CASE a = b
  BY <1>1, <1>2
<1>3. CASE a < b
  BY <1>1, <1>3, MulNext
<1> QED
  BY <1>1, <1>2, <1>3

\* Quotient and remainder are determined by the decomposition.
LEMMA DivModIs ==
    ASSUME NEW q \in Nat, NEW w \in Nat \ {0}, NEW r \in 0 .. w - 1
    PROVE  /\ (q * w + r) % w = r
           /\ (q * w + r) \div w = q
<1> DEFINE x == q * w + r
           d == x \div w
           m == x % w
<1>1. x \in Int /\ q * w \in Int
  BY SMT
<1>2. d \in Int /\ m \in 0 .. w - 1 /\ x = d * w + m
  BY <1>1, SMT
<1>3. d * w \in Int
  BY <1>2, SMT
<1>4. x = q * w + r
  OBVIOUS
<1> HIDE DEF x, d, m
<1>5. CASE q > d
  <2>1. d * w + w <= q * w
    BY <1>2, <1>5, MulNext
  <2> QED
    BY <1>1, <1>2, <1>3, <1>4, <2>1
<1>6. CASE d > q
  <2>1. q * w + w <= d * w
    BY <1>2, <1>6, MulNext
  <2> QED
    BY <1>1, <1>2, <1>3, <1>4, <2>1
<1>7. CASE q = d
  <2>1. m = r
    BY <1>1, <1>2, <1>3, <1>4, <1>7
  <2> QED
    BY <1>7, <2>1 DEF x, d, m
<1> QED
  BY <1>2, <1>5, <1>6, <1>7

\* Every number is a multiple and a remainder.
LEMMA DivMod ==
    ASSUME NEW x \in Nat, NEW w \in Nat \ {0}
    PROVE  /\ x \div w \in Nat /\ x % w \in 0 .. w - 1
           /\ (x \div w) * w \in Nat
           /\ x = (x \div w) * w + (x % w)
<1> DEFINE d == x \div w
           m == x % w
<1>1. d \in Int /\ m \in 0 .. w - 1 /\ x = d * w + m
  BY SMT
<1>2. d * w \in Int
  BY <1>1, SMT
<1> HIDE DEF d, m
<1>3. ~(d < 0)
  <2> SUFFICES ASSUME d < 0 PROVE FALSE
    OBVIOUS
  <2>1. d * w + w <= 0 * w
    BY <1>1, MulNext
  <2> QED
    BY <1>1, <1>2, <2>1
<1>4. d \in Nat
  BY <1>1, <1>3
<1>5. d * w \in Nat
  BY <1>4, MulMonotone
<1> QED
  BY <1>1, <1>4, <1>5 DEF d, m

\* A multiple leaves no remainder.
LEMMA MulMod ==
    ASSUME NEW q \in Nat, NEW w \in Nat \ {0}
    PROVE  (q * w) % w = 0 /\ (q * w) \div w = q /\ q * w \in Nat
<1>1. (q * w + 0) % w = 0 /\ (q * w + 0) \div w = q
  BY DivModIs
<1>2. q * w \in Nat
  BY MulMonotone
<1> QED
  BY <1>1, <1>2

\* What leaves no remainder is a multiple.
LEMMA ModMul ==
    ASSUME NEW x \in Nat, NEW w \in Nat \ {0}, x % w = 0
    PROVE  x \div w \in Nat /\ x = (x \div w) * w
<1> DEFINE p == (x \div w) * w
<1>1. x \div w \in Nat /\ p \in Nat /\ x = p + 0
  BY DivMod
<1> HIDE DEF p
<1>2. x = p
  BY <1>1
<1> QED
  BY <1>1, <1>2 DEF p

\* Sums and differences of multiples are multiples.
LEMMA ModSum ==
    ASSUME NEW x \in Nat, NEW y \in Nat, NEW w \in Nat \ {0}, x % w = 0, y % w = 0
    PROVE  (x + y) % w = 0 /\ (x <= y => (y - x) % w = 0)
<1>1. PICK a \in Nat : x = a * w
  BY ModMul
<1>2. PICK b \in Nat : y = b * w
  BY ModMul
<1>3. x + y = (a + b) * w
  BY <1>1, <1>2, SMT
<1>4. (x + y) % w = 0
  <2>1. ((a + b) * w) % w = 0
    BY MulMod
  <2> QED
    BY <1>3, <2>1
<1>5. ASSUME x <= y PROVE (y - x) % w = 0
  <2>1. ~(b < a)
    <3> SUFFICES ASSUME b < a PROVE FALSE
      OBVIOUS
    <3>1. y + w <= x
      BY <1>1, <1>2, MulNext
    <3> QED
      BY <1>5, <3>1
  <2>2. y - x = (b - a) * w /\ b - a \in Nat
    BY <1>1, <1>2, <2>1, SMT
  <2> QED
    BY <2>2, MulMod
<1> QED
  BY <1>4, <1>5

\* A multiple of a multiple is a multiple.
LEMMA ModTrans ==
    ASSUME NEW x \in Nat, NEW v \in Nat \ {0}, NEW w \in Nat \ {0}, x % v = 0, v % w = 0
    PROVE  x % w = 0
<1>1. PICK a \in Nat : x = a * v
  BY ModMul
<1>2. PICK b \in Nat : v = b * w
  BY ModMul
<1>3. x = (a * b) * w /\ a * b \in Nat
  BY <1>1, <1>2, SMT
<1> QED
  BY <1>3, MulMod

-----------------------------------------------------------------------------
(* Runs of bytes.                                                            *)

\* Two sequences after each other.
LEMMA JoinIs ==
    ASSUME NEW S, NEW s \in Seq(S), NEW t \in Seq(S)
    PROVE  /\ s \o t \in Seq(S) /\ Len(s \o t) = Len(s) + Len(t)
           /\ \A i \in 1 .. Len(s) : (s \o t)[i] = s[i]
           /\ \A i \in 1 .. Len(t) : (s \o t)[Len(s) + i] = t[i]
  OBVIOUS

\* Sequences of the same length and elements are the same.
LEMMA SameSeq ==
    ASSUME NEW S, NEW s \in Seq(S), NEW T, NEW t \in Seq(T), Len(s) = Len(t),
           \A i \in 1 .. Len(s) : s[i] = t[i]
    PROVE  s = t
  OBVIOUS

-----------------------------------------------------------------------------
(* The file on the card.                                                     *)

Places == Nat \X Nat
SeekOps == [at : {"seek"}, to : Nat, clust : FatEntries, seeked : Nat]
ReadOps == [at : {"next", "align", "loop", "scan", "load"}, then : {"align", "loop"},
            got : Seq(Places), act : Nat, off : Nat, clust : FatEntries, end : FatEntries,
            run : Nat, addr : Nat, want : Nat]

\* The state has its types.
FatTypes ==
    /\ layout \in Layouts
    /\ offset \in Nat /\ offset <= layout.size
    /\ curclust \in FatEntries /\ cached \in FatEntries
    /\ cache \in [1 .. BPC -> Places]
    /\ fatnum \in Int /\ fatbuf \in [0 .. FATBUF - 1 -> FatEntries]
    /\ op \in {NoCall} \union SeekOps \union ReadOps
    /\ errors \in Nat /\ clean \in BOOLEAN

\* What a call that began at position p has counted: whole clusters, up to what
\* was asked for.
Counted(o, p) ==
    /\ o.at = "seek" => o.to <= layout.size /\ o.seeked <= o.to /\ o.seeked % BPC = 0
    /\ o.at \notin {"idle", "seek"} =>
        /\ p + o.want <= layout.size
        /\ o.off = p + Len(o.got) /\ o.off % BPC = 0
    /\ o.at \in {"next", "align", "loop"} => Len(o.got) + o.act = o.want
    /\ o.at \in {"scan", "load"} => o.run > 0 /\ Len(o.got) + o.run * BPC + o.act = o.want

\* Cluster c holds the position x, if there is anything at x.
Holds(x, c) == x < layout.size => c = layout.chain[(x \div BPC) + 1]

\* The r clusters from position x on follow each other, from c on.
Run(x, c, r) == \A j \in 1 .. r : layout.chain[(x \div BPC) + j] = c + j - 1

\* What a call that began at position p has found.
Found(o, p) ==
    /\ o.at = "seek" => Holds(o.seeked, o.clust)
    /\ o.at \notin {"idle", "seek"} => o.got = SubSeq(FileBytes, p + 1, o.off)
    /\ o.at = "next" => o.off \div BPC > 0 /\ o.end = layout.chain[o.off \div BPC]
    /\ o.at \in {"align", "loop"} => Holds(o.off, o.clust)
    /\ o.at \in {"scan", "load"} => Run(o.off, o.clust, o.run) /\ o.end = o.clust + o.run - 1

\* Block n of the FAT is what b holds, and cluster c is what k holds.
FatRight(n, b) ==
    n # -1 => n \in Nat /\ \A s \in 0 .. FATBUF - 1 : b[s] = FatOnDisk(n * FATBUF + s)
CacheRight(c, k) == c # 0 => k = RunBytes(c, 1)

\* The inductive invariant: a call has counted right in any case, and found what
\* is on the card as long as the card was read without a failure.
FatInv ==
    /\ FatTypes
    /\ Counted(op, offset)
    /\ clean => /\ FatRight(fatnum, fatbuf) /\ CacheRight(cached, cache)
                /\ Holds(offset, curclust) /\ Found(op, offset)

\* A part of a sequence.
LEMMA SubSeqIs ==
    ASSUME NEW S, NEW s \in Seq(S), NEW a \in Nat, NEW b \in Nat, a <= b, b <= Len(s)
    PROVE  /\ SubSeq(s, a + 1, b) \in Seq(S) /\ Len(SubSeq(s, a + 1, b)) = b - a
           /\ \A i \in 1 .. b - a : SubSeq(s, a + 1, b)[i] = s[a + i]
<1>1. \A i \in a + 1 .. b : s[i] \in S
  OBVIOUS
<1>2. Len(SubSeq(s, a + 1, b)) = b - a /\ SubSeq(s, a + 1, b) \in Seq(S)
  BY <1>1
<1>3. ASSUME NEW i \in 1 .. b - a PROVE SubSeq(s, a + 1, b)[i] = s[a + i]
  OBVIOUS
<1> QED
  BY <1>2, <1>3

\* Parts that follow each other.
LEMMA SubSeqJoin ==
    ASSUME NEW S, NEW s \in Seq(S), NEW a \in Nat, NEW b \in Nat, NEW c \in Nat,
           a <= b, b <= c, c <= Len(s)
    PROVE  SubSeq(s, a + 1, b) \o SubSeq(s, b + 1, c) = SubSeq(s, a + 1, c)
<1> DEFINE t == SubSeq(s, a + 1, b)
           u == SubSeq(s, b + 1, c)
           v == SubSeq(s, a + 1, c)
           w == t \o u
<1>1. t \in Seq(S) /\ Len(t) = b - a /\ \A i \in 1 .. b - a : t[i] = s[a + i]
  <2>1. b <= Len(s)
    OBVIOUS
  <2> QED
    BY <2>1, SubSeqIs
<1>2. u \in Seq(S) /\ Len(u) = c - b /\ \A i \in 1 .. c - b : u[i] = s[b + i]
  BY SubSeqIs
<1>3. v \in Seq(S) /\ Len(v) = c - a /\ \A i \in 1 .. c - a : v[i] = s[a + i]
  <2>1. a <= c
    OBVIOUS
  <2> QED
    BY <2>1, SubSeqIs
<1> HIDE DEF t, u, v
<1>4. w \in Seq(S) /\ Len(w) = Len(t) + Len(u)
  BY <1>1, <1>2, JoinIs, ZenonT(60)
<1>5. (\A i \in 1 .. Len(t) : w[i] = t[i]) /\ (\A i \in 1 .. Len(u) : w[Len(t) + i] = u[i])
  BY <1>1, <1>2, JoinIs
<1> HIDE DEF w
<1>6. ASSUME NEW i \in 1 .. c - a PROVE w[i] = v[i]
  <2>1. CASE i <= b - a
    <3>1. i \in 1 .. b - a
      BY <2>1
    <3> QED
      BY <1>1, <1>3, <1>5, <3>1
  <2>2. CASE i > b - a
    <3> DEFINE j == i - (b - a)
    <3>1. j \in 1 .. c - b /\ (b - a) + j = i /\ b + j = a + i
      BY <2>2
    <3> HIDE DEF j
    <3>2. w[(b - a) + j] = s[b + j]
      BY <1>1, <1>2, <1>5, <3>1, ZenonT(60)
    <3> QED
      BY <1>3, <3>1, <3>2
  <2> QED
    BY <2>1, <2>2
<1>7. Len(w) = c - a
  BY <1>1, <1>2, <1>4
<1>8. w = v
  BY <1>3, <1>4, <1>6, <1>7, SameSeq
<1> QED
  BY <1>8 DEF t, u, v, w

\* The card.
LEMMA CardIs ==
    /\ BPC \in Nat \ {0} /\ SECTOR \in Nat \ {0} /\ FATBUF \in Nat \ {0} /\ EOC \in Nat
    /\ BPC % SECTOR = 0
    /\ FatEntries \subseteq Nat /\ Clusters \subseteq FatEntries
    /\ \A c \in Clusters : ~CheckClust(c) /\ c # 0
    /\ CheckClust(EOC)
  BY FatAssumption DEF FatEntries, CheckClust

\* The file of the card.
LEMMA LayoutIs ==
    ASSUME layout \in Layouts
    PROVE  /\ layout.size \in Nat /\ layout.size > 0
           /\ layout.chain \in Seq(Clusters) /\ Len(layout.chain) \in Nat
           /\ \A i \in 1 .. Len(layout.chain) : layout.chain[i] \in Clusters
           /\ \A i, j \in 1 .. Len(layout.chain) : layout.chain[i] = layout.chain[j] => i = j
           /\ layout.size <= Len(layout.chain) * BPC
<1>1. layout.chain \in Seq(Clusters) /\ layout.size \in Nat \ {0}
  BY FatAssumption
<1>2. \A i, j \in 1 .. Len(layout.chain) : layout.chain[i] = layout.chain[j] => i = j
  BY FatAssumption
<1>3. layout.size <= Len(layout.chain) * BPC
  BY FatAssumption
<1> QED
  BY <1>1, <1>2, <1>3

\* A position in the file lies in a cluster of its chain.
LEMMA InChain ==
    ASSUME layout \in Layouts, NEW x \in Nat, x < layout.size
    PROVE  /\ x \div BPC \in Nat /\ (x \div BPC) + 1 \in 1 .. Len(layout.chain)
           /\ layout.chain[(x \div BPC) + 1] \in Clusters
<1> DEFINE q == x \div BPC
           L == Len(layout.chain)
           p == q * BPC
           r == L * BPC
<1>1. q \in Nat /\ p \in Nat /\ x % BPC \in 0 .. BPC - 1 /\ x = p + (x % BPC)
  BY CardIs, DivMod, ZenonT(60)
<1>2. L \in Nat /\ layout.size \in Nat /\ layout.size <= r
  BY LayoutIs
<1>3. L <= q => r <= p /\ r \in Nat
  BY <1>1, <1>2, CardIs, MulMonotone, ZenonT(60)
<1> HIDE DEF q, L, p, r
<1>4. ~(L <= q)
  BY <1>1, <1>2, <1>3
<1>5. q + 1 \in 1 .. L
  BY <1>1, <1>2, <1>4
<1> QED
  BY <1>1, <1>5, LayoutIs DEF q, L

\* The FAT names the next cluster of the chain.
LEMMA NextInFat ==
    ASSUME layout \in Layouts, NEW k \in 1 .. Len(layout.chain)
    PROVE  FatOnDisk(layout.chain[k])
             = IF k < Len(layout.chain) THEN layout.chain[k + 1] ELSE EOC
<1> DEFINE c == layout.chain[k]
           i == CHOOSE j \in 1 .. Len(layout.chain) : layout.chain[j] = c
<1>1. i \in 1 .. Len(layout.chain) /\ layout.chain[i] = c
  OBVIOUS
<1>2. i = k
  BY <1>1, LayoutIs
<1>3. FatOnDisk(c) = IF i < Len(layout.chain) THEN layout.chain[i + 1] ELSE EOC
  BY DEF FatOnDisk
<1> QED
  BY <1>2, <1>3, ZenonT(60)

\* An entry of the FAT on the card is one of the entries.
LEMMA FatEntryIs ==
    ASSUME layout \in Layouts, NEW c
    PROVE  FatOnDisk(c) \in FatEntries
<1> DEFINE i == CHOOSE j \in 1 .. Len(layout.chain) : layout.chain[j] = c
<1>1. CASE \E j \in 1 .. Len(layout.chain) : layout.chain[j] = c
  <2>1. i \in 1 .. Len(layout.chain)
    BY <1>1
  <2>2. FatOnDisk(c) = IF i < Len(layout.chain) THEN layout.chain[i + 1] ELSE EOC
    BY <1>1 DEF FatOnDisk
  <2> HIDE DEF i
  <2>3. i < Len(layout.chain) => i + 1 \in 1 .. Len(layout.chain)
    BY <2>1, LayoutIs
  <2> QED
    BY <2>2, <2>3, LayoutIs DEF FatEntries
<1>2. CASE ~ \E j \in 1 .. Len(layout.chain) : layout.chain[j] = c
  BY <1>2 DEF FatOnDisk, FatEntries
<1> QED
  BY <1>1, <1>2

\* The bytes of the file.
LEMMA FileIs ==
    ASSUME layout \in Layouts
    PROVE  /\ FileBytes \in Seq(Places) /\ Len(FileBytes) = layout.size
           /\ \A i \in 1 .. layout.size :
                FileBytes[i] = <<layout.chain[((i - 1) \div BPC) + 1], (i - 1) % BPC>>
<1>1. ASSUME NEW i \in 1 .. layout.size
      PROVE  <<layout.chain[((i - 1) \div BPC) + 1], (i - 1) % BPC>> \in Places
  <2> DEFINE x == i - 1
  <2>1. x \in Nat /\ x < layout.size
    BY LayoutIs
  <2> HIDE DEF x
  <2>2. layout.chain[(x \div BPC) + 1] \in Nat
    BY <2>1, InChain, CardIs, ZenonT(60)
  <2>3. x % BPC \in Nat
    BY <2>1, DivMod, CardIs
  <2> QED
    BY <2>2, <2>3 DEF x, Places
<1>2. layout.size \in Nat
  BY LayoutIs
<1> DEFINE f == FileBytes
<1>3. f \in [1 .. layout.size -> Places]
  BY <1>1, Zenon DEF FileBytes
<1>4. \A i \in 1 .. layout.size : f[i] = <<layout.chain[((i - 1) \div BPC) + 1], (i - 1) % BPC>>
  BY Zenon DEF FileBytes
<1> HIDE DEF f
<1>5. f \in Seq(Places) /\ Len(f) = layout.size
  BY <1>2, <1>3
<1> QED
  BY <1>4, <1>5 DEF f

\* The bytes of a run of clusters.
LEMMA RunIs ==
    ASSUME NEW c \in Nat, NEW n \in Nat
    PROVE  /\ n * BPC \in Nat
           /\ RunBytes(c, n) \in [1 .. n * BPC -> Places]
           /\ RunBytes(c, n) \in Seq(Places) /\ Len(RunBytes(c, n)) = n * BPC
           /\ \A i \in 1 .. n * BPC : RunBytes(c, n)[i] = <<c + ((i - 1) \div BPC), (i - 1) % BPC>>
<1> DEFINE m == n * BPC
           f == RunBytes(c, n)
<1>1. m \in Nat
  BY CardIs, MulMonotone
<1>2. ASSUME NEW i \in 1 .. m PROVE <<c + ((i - 1) \div BPC), (i - 1) % BPC>> \in Places
  <2> DEFINE x == i - 1
             q == x \div BPC
             r == x % BPC
  <2>1. x \in Nat
    BY <1>1
  <2> HIDE DEF x
  <2>2. q \in Nat /\ r \in Nat
    BY <2>1, DivMod, CardIs
  <2> HIDE DEF q, r
  <2>3. c + q \in Nat
    BY <2>2
  <2> QED
    BY <2>2, <2>3 DEF x, q, r, Places
<1>3. f \in [1 .. m -> Places] /\ \A i \in 1 .. m : f[i] = <<c + ((i - 1) \div BPC), (i - 1) % BPC>>
  BY <1>2, Zenon DEF RunBytes
<1> HIDE DEF m, f
<1>4. f \in Seq(Places) /\ Len(f) = m
  BY <1>1, <1>3
<1> QED
  BY <1>1, <1>3, <1>4 DEF m, f

\* Where a byte of the run lies, and where it lies in the file.
LEMMA PlaceIs ==
    ASSUME NEW k \in Nat, NEW r \in Nat, NEW x \in Nat, x < r * BPC
    PROVE  /\ x \div BPC \in 0 .. r - 1 /\ x % BPC \in Nat
           /\ k * BPC \in Nat /\ k * BPC + x \in Nat
           /\ (k * BPC + x) \div BPC = k + (x \div BPC) /\ (k * BPC + x) % BPC = x % BPC
<1> DEFINE q == x \div BPC
           m == x % BPC
           p == q * BPC
           l == k * BPC
           e == r * BPC
<1>1. q \in Nat /\ p \in Nat /\ m \in 0 .. BPC - 1 /\ x = p + m
  BY CardIs, DivMod, ZenonT(60)
<1>2. l \in Nat /\ e \in Nat
  BY CardIs, MulMonotone
<1>3. (k + q) * BPC = l + p
  BY <1>1, CardIs, SMT
<1>4. r <= q => e <= p
  BY <1>1, CardIs, MulMonotone
<1>5. ((k + q) * BPC + m) \div BPC = k + q /\ ((k + q) * BPC + m) % BPC = m
  <2>1. k + q \in Nat
    BY <1>1
  <2> HIDE DEF q, m
  <2> QED
    BY <1>1, <2>1, CardIs, DivModIs
<1>6. x < e
  OBVIOUS
<1> HIDE DEF q, m, p, l, e
<1>7. q \in 0 .. r - 1
  BY <1>1, <1>2, <1>4, <1>6
<1>8. (k + q) * BPC + m = l + x /\ l + x \in Nat /\ m \in Nat
  BY <1>1, <1>2, <1>3
<1>9. (l + x) \div BPC = k + q /\ (l + x) % BPC = m
  BY <1>5, <1>8
<1> QED
  BY <1>2, <1>7, <1>8, <1>9 DEF q, m, l

\* The clusters of the chain hold the bytes of the file.
LEMMA SameByte ==
    ASSUME layout \in Layouts, NEW off \in Nat, off % BPC = 0, NEW c \in Nat, NEW r \in Nat,
           Run(off, c, r), NEW x \in Nat, x < r * BPC, off + x < layout.size
    PROVE  RunBytes(c, r)[x + 1] = FileBytes[off + x + 1]
<1> DEFINE k == off \div BPC
           q == x \div BPC
<1>1. k \in Nat /\ off = k * BPC
  BY CardIs, ModMul
<1>2. /\ q \in 0 .. r - 1 /\ off + x \in Nat
      /\ (off + x) \div BPC = k + q /\ (off + x) % BPC = x % BPC
  <2> HIDE DEF k
  <2> QED
    BY <1>1, PlaceIs
<1>3. FileBytes[off + x + 1] = <<layout.chain[(k + q) + 1], x % BPC>>
  <2>1. off + x + 1 \in 1 .. layout.size /\ (off + x + 1) - 1 = off + x
    BY <1>2, LayoutIs
  <2>2. FileBytes[off + x + 1] = <<layout.chain[((off + x) \div BPC) + 1], (off + x) % BPC>>
    BY <2>1, FileIs
  <2> QED
    BY <1>2, <2>2
<1>4. RunBytes(c, r)[x + 1] = <<c + q, x % BPC>>
  <2>1. r * BPC \in Nat
    BY CardIs, MulMonotone
  <2>2. x + 1 \in 1 .. r * BPC /\ (x + 1) - 1 = x
    BY <2>1
  <2>3. \A i \in 1 .. r * BPC : RunBytes(c, r)[i] = <<c + ((i - 1) \div BPC), (i - 1) % BPC>>
    BY RunIs, ZenonT(60)
  <2> QED
    BY <2>2, <2>3
<1>5. layout.chain[(k + q) + 1] = c + q
  <2> HIDE DEF q
  <2>1. q + 1 \in 1 .. r /\ k + (q + 1) = (k + q) + 1 /\ c + (q + 1) - 1 = c + q
    BY <1>1, <1>2
  <2>2. layout.chain[k + (q + 1)] = c + (q + 1) - 1
    BY <2>1 DEF Run
  <2> QED
    BY <2>1, <2>2
<1> QED
  BY <1>3, <1>4, <1>5

\* A part of the run is that part of the file.
LEMMA PartOfRun ==
    ASSUME layout \in Layouts, NEW off \in Nat, off % BPC = 0, NEW c \in Nat, NEW r \in Nat,
           Run(off, c, r), NEW a \in Nat, NEW b \in Nat, a <= b, b <= r * BPC,
           off + b <= layout.size
    PROVE  SubSeq(RunBytes(c, r), a + 1, b) = SubSeq(FileBytes, (off + a) + 1, off + b)
<1> DEFINE f == FileBytes
           g == RunBytes(c, r)
           s == SubSeq(g, a + 1, b)
           t == SubSeq(f, (off + a) + 1, off + b)
<1>1. g \in Seq(Places) /\ Len(g) = r * BPC /\ r * BPC \in Nat
  BY RunIs
<1>2. f \in Seq(Places) /\ Len(f) = layout.size /\ layout.size \in Nat
  BY FileIs, LayoutIs
<1>3. \A x \in Nat : x < r * BPC /\ off + x < layout.size => g[x + 1] = f[off + x + 1]
  BY SameByte
<1> HIDE DEF f, g
<1>4. s \in Seq(Places) /\ Len(s) = b - a /\ \A i \in 1 .. b - a : s[i] = g[a + i]
  BY <1>1, SubSeqIs
<1>5. /\ t \in Seq(Places) /\ Len(t) = (off + b) - (off + a)
      /\ \A i \in 1 .. (off + b) - (off + a) : t[i] = f[(off + a) + i]
  <2>1. off + a \in Nat /\ off + b \in Nat /\ off + a <= off + b /\ off + b <= Len(f)
    BY <1>2
  <2> QED
    BY <1>2, <2>1, SubSeqIs
<1> HIDE DEF s, t
<1>6. Len(s) = Len(t) /\ Len(s) = b - a
  BY <1>4, <1>5
<1>7. ASSUME NEW i \in 1 .. b - a PROVE s[i] = t[i]
  <2> DEFINE x == (a + i) - 1
             e == r * BPC
  <2>1. x \in Nat /\ x < b /\ x + 1 = a + i /\ off + x + 1 = (off + a) + i
    OBVIOUS
  <2> HIDE DEF x, e
  <2>2. x < e /\ off + x < layout.size
    BY <1>1, <1>2, <2>1 DEF e
  <2>3. g[a + i] = f[(off + a) + i]
    BY <1>3, <2>1, <2>2 DEF e
  <2>4. i \in 1 .. (off + b) - (off + a)
    OBVIOUS
  <2> QED
    BY <1>4, <1>5, <2>3, <2>4
<1>8. s = t
  BY <1>4, <1>5, <1>6, <1>7, SameSeq
<1> QED
  BY <1>8 DEF s, t, f, g

\* The whole run.
LEMMA RunIsFile ==
    ASSUME layout \in Layouts, NEW off \in Nat, off % BPC = 0, NEW c \in Nat, NEW r \in Nat,
           Run(off, c, r), off + r * BPC <= layout.size
    PROVE  RunBytes(c, r) = SubSeq(FileBytes, off + 1, off + r * BPC)
<1> DEFINE e == r * BPC
           g == RunBytes(c, r)
           z == 0
<1>1. g \in Seq(Places) /\ Len(g) = e /\ e \in Nat
  BY RunIs
<1>2. SubSeq(g, z + 1, e) = SubSeq(FileBytes, (off + z) + 1, off + e)
  <2>1. z \in Nat /\ z <= e /\ e <= r * BPC /\ off + e <= layout.size
    BY <1>1
  <2>2. ASSUME NEW a \in Nat, NEW b \in Nat, a <= b, b <= r * BPC, off + b <= layout.size
        PROVE  SubSeq(g, a + 1, b) = SubSeq(FileBytes, (off + a) + 1, off + b)
    BY <2>2, PartOfRun, SMT
  <2> HIDE DEF e, z, g
  <2> QED
    BY <1>1, <2>1, <2>2, Zenon
<1> HIDE DEF g, e
<1>3. SubSeq(g, z + 1, e) = g
  <2>1. /\ SubSeq(g, z + 1, e) \in Seq(Places) /\ Len(SubSeq(g, z + 1, e)) = e - z
        /\ \A i \in 1 .. e - z : SubSeq(g, z + 1, e)[i] = g[z + i]
    <3>1. z \in Nat /\ z <= e
      BY <1>1
    <3> HIDE DEF z
    <3> QED
      BY <1>1, <3>1, SubSeqIs
  <2> DEFINE h == SubSeq(g, z + 1, e)
  <2> HIDE DEF h
  <2>2. h \in Seq(Places) /\ Len(h) = e /\ \A i \in 1 .. e : h[i] = g[i]
    BY <1>1, <2>1 DEF h
  <2>3. h = g
    BY <1>1, <2>2, SameSeq
  <2> QED
    BY <2>3 DEF h
<1>4. (off + z) + 1 = off + 1
  OBVIOUS
<1> QED
  BY <1>2, <1>3, <1>4, ZenonT(60) DEF g, e

\* One cluster is a run of one.
LEMMA OneRun ==
    ASSUME NEW x \in Nat, NEW c \in Nat, c = layout.chain[(x \div BPC) + 1]
    PROVE  Run(x, c, 1)
<1>1. c + 1 - 1 = c
  OBVIOUS
<1> QED
  BY <1>1 DEF Run

-----------------------------------------------------------------------------
(* Reading the card.                                                         *)

\* The file stays, and with it what the card holds.
LEMMA FileStays ==
    ASSUME layout' = layout
    PROVE  /\ FileBytes' = FileBytes
           /\ \A c : FatOnDisk(c)' = FatOnDisk(c)
<1>1. FileBytes' = FileBytes
  BY DEF FileBytes
<1>2. ASSUME NEW c PROVE FatOnDisk(c)' = FatOnDisk(c)
  BY DEF FatOnDisk
<1> QED
  BY <1>1, <1>2

\* The invariant after a step, in terms of the file before it.
LEMMA FatInvNext ==
    ASSUME layout' = layout, layout \in Layouts,
           offset' \in Nat, offset' <= layout.size,
           curclust' \in FatEntries, cached' \in FatEntries,
           cache' \in [1 .. BPC -> Places],
           fatnum' \in Int, fatbuf' \in [0 .. FATBUF - 1 -> FatEntries],
           op' \in {NoCall} \union SeekOps \union ReadOps,
           errors' \in Nat, clean' \in BOOLEAN,
           Counted(op', offset'),
           clean' => /\ FatRight(fatnum', fatbuf') /\ CacheRight(cached', cache')
                     /\ Holds(offset', curclust') /\ Found(op', offset')
    PROVE  FatInv'
<1>1. FatTypes'
  BY DEF FatTypes
<1>2. Counted(op, offset)'
  BY DEF Counted
<1>3. FatRight(fatnum, fatbuf)' = FatRight(fatnum', fatbuf')
  BY FileStays DEF FatRight
<1>4. CacheRight(cached, cache)' = CacheRight(cached', cache')
  BY DEF CacheRight, RunBytes
<1>5. Holds(offset, curclust)' = Holds(offset', curclust')
  BY DEF Holds
<1>6. Found(op', offset') => Found(op, offset)'
  BY FileStays, ZenonT(60) DEF Found, Holds, Run
<1> QED
  BY <1>1, <1>2, <1>3, <1>4, <1>5, <1>6 DEF FatInv

\* get_fatent brings the entry of the card, unless the card fails.
LEMMA FatentIs ==
    ASSUME FatTypes, layout' = layout, NEW c \in FatEntries, NEW entry \in FatEntries,
           GetFatent(c, entry)
    PROVE  /\ fatnum' \in Int /\ fatbuf' \in [0 .. FATBUF - 1 -> FatEntries]
           /\ errors' \in Nat /\ clean' \in BOOLEAN /\ (clean' => clean)
           /\ clean' /\ FatRight(fatnum, fatbuf)
                => FatRight(fatnum', fatbuf') /\ entry = FatOnDisk(c)
<1> DEFINE num == c \div FATBUF
           slot == c % FATBUF
           base == num * FATBUF
<1>1. c \in Nat /\ FATBUF \in Nat \ {0}
  BY CardIs
<1>2. num \in Nat /\ base \in Nat /\ slot \in 0 .. FATBUF - 1 /\ c = base + slot
  BY <1>1, DivMod, ZenonT(60)
<1>3. /\ fatnum \in Int /\ fatbuf \in [0 .. FATBUF - 1 -> FatEntries]
      /\ errors \in Nat /\ clean \in BOOLEAN /\ layout \in Layouts
  BY DEF FatTypes
<1>4. \/ /\ num = fatnum
         /\ entry = fatbuf[slot]
         /\ UNCHANGED <<fatnum, fatbuf, errors, clean>>
      \/ /\ num # fatnum
         /\ fatbuf' = [s \in 0 .. FATBUF - 1 |-> FatOnDisk(base + s)]
         /\ fatnum' = num
         /\ entry = FatOnDisk(c)
         /\ UNCHANGED <<errors, clean>>
      \/ /\ num # fatnum
         /\ errors < MaxErrors
         /\ fatbuf' = IF fatnum # -1 THEN fatbuf ELSE [s \in 0 .. FATBUF - 1 |-> entry]
         /\ fatnum' = num
         /\ entry = fatbuf'[slot]
         /\ errors' = errors + 1
         /\ clean' = FALSE
  BY DEF GetFatent
<1> HIDE DEF num, slot
<1>5. CASE /\ num = fatnum
           /\ entry = fatbuf[slot]
           /\ UNCHANGED <<fatnum, fatbuf, errors, clean>>
  <2>1. FatRight(fatnum, fatbuf) => fatbuf[slot] = FatOnDisk(base + slot)
    BY <1>2, <1>5 DEF FatRight
  <2> QED
    BY <1>2, <1>3, <1>5, <2>1
<1>6. CASE /\ fatbuf' = [s \in 0 .. FATBUF - 1 |-> FatOnDisk(base + s)]
           /\ fatnum' = num
           /\ entry = FatOnDisk(c)
           /\ UNCHANGED <<errors, clean>>
  <2>1. \A s \in 0 .. FATBUF - 1 : FatOnDisk(base + s) \in FatEntries
    BY <1>3, FatEntryIs
  <2>2. fatbuf' \in [0 .. FATBUF - 1 -> FatEntries]
    BY <1>6, <2>1
  <2>3. FatRight(fatnum', fatbuf')
    BY <1>2, <1>6 DEF FatRight
  <2> QED
    BY <1>2, <1>3, <1>6, <2>2, <2>3
<1>7. CASE /\ fatbuf' = IF fatnum # -1 THEN fatbuf ELSE [s \in 0 .. FATBUF - 1 |-> entry]
           /\ fatnum' = num
           /\ errors' = errors + 1
           /\ clean' = FALSE
  <2>1. fatnum' \in Int /\ fatbuf' \in [0 .. FATBUF - 1 -> FatEntries] /\ errors' \in Nat
    BY <1>2, <1>3, <1>7
  <2> QED
    BY <1>7, <2>1, Zenon
<1> QED
  BY <1>4, <1>5, <1>6, <1>7, ZenonT(60)

\* get_cluster brings the clusters of the card, unless the card fails.
LEMMA ClusterIs ==
    ASSUME FatTypes, NEW c \in FatEntries, NEW n \in Nat,
           NEW old \in [1 .. n * BPC -> Places], NEW new, GetCluster(c, n, old, new)
    PROVE  /\ new \in [1 .. n * BPC -> Places]
           /\ errors' \in Nat /\ clean' \in BOOLEAN /\ (clean' => clean)
           /\ clean' => new = RunBytes(c, n)
<1>1. c \in Nat
  BY CardIs
<1>2. RunBytes(c, n) \in [1 .. n * BPC -> Places]
  BY <1>1, RunIs
<1>3. errors \in Nat /\ clean \in BOOLEAN
  BY DEF FatTypes
<1>4. CASE new = RunBytes(c, n) /\ UNCHANGED <<errors, clean>>
  BY <1>2, <1>3, <1>4
<1>5. CASE /\ \E k \in 0 .. n * (BPC \div SECTOR) - 1 : new = ReadTo(c, n, old, k)
           /\ errors' = errors + 1
           /\ clean' = FALSE
  <2>1. PICK k : new = ReadTo(c, n, old, k)
    BY <1>5
  <2>2. new \in [1 .. n * BPC -> Places]
    BY <1>2, <2>1 DEF ReadTo
  <2>3. errors' \in Nat
    BY <1>3, <1>5
  <2> QED
    BY <1>5, <2>2, <2>3, Zenon
<1> QED
  BY <1>4, <1>5, ZenonT(60) DEF GetCluster

\* Fresh memory.
LEMMA FreshIs ==
    ASSUME NEW n \in Nat
    PROVE  FreshMemory(n) \in [1 .. n -> Places]
  BY DEF FreshMemory, Junk, Places

\* A call in progress has its fields.
LEMMA OpIs ==
    ASSUME FatTypes
    PROVE  /\ op.at = "seek" => op \in SeekOps
           /\ op.at \in {"next", "align", "loop", "scan", "load"} => op \in ReadOps
           /\ op = NoCall => op.at = "idle"
           /\ op.at \in {"idle", "seek", "next", "align", "loop", "scan", "load"}
  BY DEF FatTypes, SeekOps, ReadOps, NoCall

\* get_cluster of one cluster into the cache.
LEMMA CachedIs ==
    ASSUME FatTypes, NEW c \in FatEntries, GetCluster(c, 1, cache, cache')
    PROVE  /\ cache' \in [1 .. BPC -> Places]
           /\ errors' \in Nat /\ clean' \in BOOLEAN /\ (clean' => clean)
           /\ clean' => cache' = RunBytes(c, 1) /\ CacheRight(c, cache')
<1> DEFINE n == 1
<1>1. n \in Nat /\ n * BPC = BPC
  BY CardIs
<1>2. cache \in [1 .. n * BPC -> Places] /\ GetCluster(c, n, cache, cache')
  BY <1>1 DEF FatTypes
<1> HIDE DEF n
<1>3. /\ cache' \in [1 .. n * BPC -> Places]
      /\ errors' \in Nat /\ clean' \in BOOLEAN /\ (clean' => clean)
      /\ clean' => cache' = RunBytes(c, n)
  BY <1>1, <1>2, ClusterIs
<1>4. cache' \in [1 .. BPC -> Places]
  BY <1>1, <1>3
<1> QED
  BY <1>3, <1>4 DEF CacheRight, n

\* Positions of one cluster.
LEMMA SameCluster ==
    ASSUME NEW x \in Nat, NEW d \in Nat, (x % BPC) + d < BPC
    PROVE  /\ x \div BPC \in Nat /\ x % BPC \in 0 .. BPC - 1
           /\ (x + d) \div BPC = x \div BPC /\ (x + d) % BPC = (x % BPC) + d
<1> DEFINE q == x \div BPC
           r == x % BPC
<1>1. q \in Nat /\ q * BPC \in Nat /\ r \in 0 .. BPC - 1 /\ x = q * BPC + r
  BY CardIs, DivMod, ZenonT(60)
<1> HIDE DEF q, r
<1>2. r + d \in 0 .. BPC - 1 /\ x + d = q * BPC + (r + d)
  <2>1. r + d < BPC
    BY DEF r
  <2> DEFINE p == q * BPC
  <2>2. x = p + r /\ p \in Nat
    BY <1>1
  <2> HIDE DEF p
  <2>3. r + d \in 0 .. BPC - 1 /\ x + d = p + (r + d)
    BY <1>1, <2>1, <2>2, CardIs
  <2> QED
    BY <2>3 DEF p
<1> DEFINE t == r + d
<1>3. (q * BPC + t) \div BPC = q /\ (q * BPC + t) % BPC = t
  <2>1. t \in 0 .. BPC - 1
    BY <1>2
  <2> HIDE DEF t
  <2> QED
    BY <1>1, <2>1, CardIs, DivModIs
<1> QED
  BY <1>1, <1>2, <1>3 DEF q, r

\* The start of the cluster of a position.
LEMMA ClusterStart ==
    ASSUME NEW x \in Nat
    PROVE  /\ ClustOffset(x) \in Nat /\ ClustOffset(x) % BPC = 0
           /\ ClustOffset(x) \div BPC = x \div BPC /\ x \div BPC \in Nat
           /\ ClustOffset(x) <= x /\ x < ClustOffset(x) + BPC
           /\ x = ClustOffset(x) + (x % BPC) /\ x % BPC \in 0 .. BPC - 1
<1> DEFINE q == x \div BPC
           r == x % BPC
           p == q * BPC
           z == 0
<1>1. q \in Nat /\ p \in Nat /\ r \in 0 .. BPC - 1 /\ x = p + r
  BY CardIs, DivMod, ZenonT(60)
<1>2. (q * BPC + z) \div BPC = q /\ (q * BPC + z) % BPC = z
  <2>1. z \in 0 .. BPC - 1
    BY CardIs
  <2> HIDE DEF q, z
  <2> QED
    BY <1>1, <2>1, CardIs, DivModIs, ZenonT(60)
<1>3. ClustOffset(x) = x - r
  BY DEF ClustOffset
<1> HIDE DEF p, q, r
<1>4. x - r = p /\ p <= x /\ x < p + BPC
  BY <1>1, CardIs
<1>5. p + z = p
  BY <1>1
<1>6. p \div BPC = q /\ p % BPC = 0
  BY <1>2, <1>5 DEF p
<1> QED
  BY <1>1, <1>3, <1>4, <1>6 DEF q, r

\* The start of a later cluster.
LEMMA LaterCluster ==
    ASSUME NEW x \in Nat, x % BPC = 0, NEW r \in Nat
    PROVE  /\ x \div BPC \in Nat /\ r * BPC \in Nat
           /\ (x + r * BPC) \div BPC = (x \div BPC) + r /\ (x + r * BPC) % BPC = 0
<1> DEFINE q == x \div BPC
           z == 0
<1>1. q \in Nat /\ x = q * BPC
  BY CardIs, ModMul
<1>2. r * BPC \in Nat
  BY CardIs, MulMonotone
<1> HIDE DEF q
<1>3. x + r * BPC = (q + r) * BPC + z
  BY <1>1, CardIs, SMT
<1>4. ((q + r) * BPC + z) \div BPC = q + r /\ ((q + r) * BPC + z) % BPC = z
  <2>1. q + r \in Nat /\ z \in 0 .. BPC - 1
    BY <1>1, CardIs
  <2> HIDE DEF z
  <2> QED
    BY <2>1, CardIs, DivModIs, ZenonT(60)
<1> QED
  BY <1>1, <1>2, <1>3, <1>4 DEF q

\* The FAT leads from a cluster of the file to the one after it.
LEMMA NextHolds ==
    ASSUME layout \in Layouts, NEW y \in Nat, y \div BPC > 0, y < layout.size
    PROVE  /\ FatOnDisk(layout.chain[y \div BPC]) = layout.chain[(y \div BPC) + 1]
           /\ layout.chain[(y \div BPC) + 1] \in Clusters
<1> DEFINE k == y \div BPC
<1>1. k \in Nat /\ k + 1 \in 1 .. Len(layout.chain) /\ layout.chain[k + 1] \in Clusters
  BY InChain
<1>2. Len(layout.chain) \in Nat
  BY LayoutIs
<1>3. k > 0
  OBVIOUS
<1> HIDE DEF k
<1>4. k \in 1 .. Len(layout.chain) /\ k < Len(layout.chain)
  BY <1>1, <1>2, <1>3
<1>5. FatOnDisk(layout.chain[k]) = layout.chain[k + 1]
  BY <1>4, NextInFat
<1> QED
  BY <1>1, <1>5 DEF k

-----------------------------------------------------------------------------
(* The steps of a seek.                                                      *)

\* The first cluster holds the start of the file.
LEMMA HeadHolds ==
    ASSUME layout \in Layouts
    PROVE  layout.chain[1] \in FatEntries /\ Holds(0, layout.chain[1])
<1> DEFINE z == 0
<1>1. z \in Nat /\ z < layout.size
  BY LayoutIs
<1>2. (z * BPC + z) \div BPC = z
  <2>1. z \in 0 .. BPC - 1
    BY CardIs
  <2> HIDE DEF z
  <2> QED
    BY <1>1, <2>1, CardIs, DivModIs
<1>3. z * BPC + z = z
  BY CardIs
<1>4. z \div BPC = 0
  BY <1>2, <1>3
<1> HIDE DEF z
<1>5. (z \div BPC) + 1 = 1
  BY <1>4
<1>6. layout.chain[1] \in Clusters
  BY <1>1, <1>5, InChain
<1>7. Holds(z, layout.chain[1])
  BY <1>5 DEF Holds
<1> QED
  BY <1>6, <1>7, CardIs, ZenonT(60) DEF z

\* The file is opened right.
LEMMA FatStart == FatFileInit => FatInv
<1> SUFFICES ASSUME FatFileInit PROVE FatInv
  OBVIOUS
<1>1. layout \in Layouts /\ layout.size \in Nat
  BY LayoutIs DEF FatFileInit
<1>2. FreshMemory(BPC) \in [1 .. BPC -> Places]
  BY FreshIs, CardIs
<1>3. FatTypes
  <2>1. [s \in 0 .. FATBUF - 1 |-> 0] \in [0 .. FATBUF - 1 -> FatEntries] /\ 0 \in FatEntries
    BY DEF FatEntries
  <2> QED
    BY <1>1, <1>2, <2>1, HeadHolds DEF FatFileInit, FatTypes
<1>4. op.at = "idle"
  BY DEF FatFileInit, NoCall
<1>5. Counted(op, offset) /\ Found(op, offset)
  BY <1>4 DEF Counted, Found
<1>6. FatRight(fatnum, fatbuf) /\ CacheRight(cached, cache)
  BY DEF FatFileInit, FatRight, CacheRight
<1>7. Holds(offset, curclust)
  BY <1>1, HeadHolds DEF FatFileInit
<1> QED
  BY <1>3, <1>5, <1>6, <1>7 DEF FatInv

\* Between calls there is nothing to count or to find.
LEMMA IdleIs ==
    ASSUME NEW p
    PROVE  Counted(NoCall, p) /\ Found(NoCall, p)
  BY DEF Counted, Found, NoCall

\* Opening the file again starts from nothing.
LEMMA ReopenInv ==
    ASSUME FatInv, Reopen
    PROVE  FatInv'
<1>1. FatTypes /\ layout \in Layouts /\ layout.size \in Nat
  BY LayoutIs DEF FatInv, FatTypes
<1>2. cache' \in [1 .. BPC -> Places]
  BY FreshIs, CardIs DEF Reopen
<1>3. 0 \in FatEntries /\ fatbuf' \in [0 .. FATBUF - 1 -> FatEntries]
  BY DEF FatEntries, Reopen
<1>4. FatRight(fatnum', fatbuf') /\ CacheRight(cached', cache')
  BY DEF Reopen, FatRight, CacheRight
<1>5. curclust' \in FatEntries /\ Holds(offset', curclust')
  BY <1>1, HeadHolds DEF Reopen
<1>6. op' = NoCall
  BY DEF Reopen
<1>7. /\ layout' = layout /\ offset' = 0 /\ cached' = 0 /\ fatnum' = -1
      /\ errors' \in Nat /\ clean' \in BOOLEAN
  BY <1>1 DEF Reopen, FatTypes
<1> QED
  BY <1>1, <1>2, <1>3, <1>4, <1>5, <1>6, <1>7, IdleIs, FatInvNext

\* A refused seek changes nothing.
LEMMA SeekRefusedInv ==
    ASSUME FatInv, NEW to \in Nat, SeekRefused(to)
    PROVE  FatInv'
<1>1. UNCHANGED <<layout, offset, curclust, cached, cache, fatnum, fatbuf, op, errors, clean>>
  BY DEF SeekRefused
<1> QED
  BY <1>1, FatInvNext DEF FatInv, FatTypes

\* What holds a position holds the rest of its cluster.
LEMMA HoldsOn ==
    ASSUME layout \in Layouts, NEW x \in Nat, NEW c, Holds(x, c),
           NEW y \in Nat, x <= y, y < ClustOffset(x) + BPC
    PROVE  Holds(y, c)
<1> DEFINE d == y - x
           r == x % BPC
           p == ClustOffset(x)
<1>1. p \in Nat /\ r \in Nat /\ x = p + r
  BY ClusterStart
<1>2. y < p + BPC
  OBVIOUS
<1> HIDE DEF p, r
<1>3. d \in Nat /\ x + d = y /\ r + d < BPC
  BY <1>1, <1>2, CardIs
<1> HIDE DEF d
<1>4. (x + d) \div BPC = x \div BPC
  BY <1>3, SameCluster DEF r
<1>5. y \div BPC = x \div BPC
  BY <1>3, <1>4
<1>6. y < layout.size => x < layout.size
  BY LayoutIs
<1> QED
  BY <1>5, <1>6 DEF Holds

\* A seek inside the current cluster.
LEMMA SeekInClusterInv ==
    ASSUME FatInv, NEW to \in Nat, SeekInCluster(to)
    PROVE  FatInv'
<1>1. /\ UNCHANGED <<layout, curclust, cached, cache, fatnum, fatbuf, op, errors, clean>>
      /\ offset' = to /\ to <= layout.size /\ op = NoCall
      /\ offset <= to /\ to < ClustOffset(offset) + BPC
  BY DEF SeekInCluster
<1>2. layout \in Layouts /\ offset \in Nat
  BY DEF FatInv, FatTypes
<1>3. clean => Holds(to, curclust)
  BY <1>1, <1>2, HoldsOn, ZenonT(60) DEF FatInv
<1> QED
  BY <1>1, <1>3, IdleIs, FatInvNext DEF FatInv, FatTypes

\* A seek elsewhere starts at a cluster it knows.
LEMMA SeekStartInv ==
    ASSUME FatInv, NEW to \in Nat, SeekStart(to)
    PROVE  FatInv'
<1> DEFINE p == ClustOffset(offset)
<1>1. FatTypes /\ layout \in Layouts /\ layout.size \in Nat /\ offset \in Nat
  BY LayoutIs, ZenonT(60) DEF FatInv, FatTypes
<1>2. /\ UNCHANGED <<layout, offset, curclust, cached, cache, fatnum, fatbuf, errors, clean>>
      /\ to <= layout.size
      /\ \/ /\ to < offset
            /\ op' = [at |-> "seek", to |-> to, clust |-> layout.chain[1], seeked |-> 0]
         \/ /\ p + BPC <= to
            /\ op' = [at |-> "seek", to |-> to, clust |-> curclust, seeked |-> p]
  BY ZenonT(60) DEF SeekStart
<1>3. p \in Nat /\ p % BPC = 0 /\ p \div BPC = offset \div BPC /\ p <= offset /\ offset < p + BPC
  BY <1>1, ClusterStart
<1> HIDE DEF p
<1>4. p + BPC <= to => p <= to /\ offset < layout.size
  BY <1>1, <1>2, <1>3, CardIs
<1>5. p + BPC <= to /\ Holds(offset, curclust) => Holds(p, curclust)
  BY <1>3, <1>4 DEF Holds
<1>6. 0 % BPC = 0
  BY CardIs
<1>7. /\ op' \in SeekOps /\ op'.at = "seek" /\ op'.to <= layout.size
      /\ op'.seeked <= op'.to /\ op'.seeked % BPC = 0
      /\ Holds(offset, curclust) => Holds(op'.seeked, op'.clust)
  <2>1. CASE op' = [at |-> "seek", to |-> to, clust |-> layout.chain[1], seeked |-> 0]
    BY <1>1, <1>2, <1>6, <2>1, HeadHolds DEF SeekOps
  <2>2. CASE /\ p + BPC <= to
             /\ op' = [at |-> "seek", to |-> to, clust |-> curclust, seeked |-> p]
    BY <1>1, <1>2, <1>3, <1>4, <1>5, <2>2 DEF SeekOps, FatTypes
  <2> QED
    BY <1>2, <2>1, <2>2
<1>8. Counted(op', offset')
  BY <1>7 DEF Counted
<1>9. Holds(offset, curclust) => Found(op', offset')
  BY <1>7 DEF Found
<1> QED
  BY <1>2, <1>7, <1>8, <1>9, FatInvNext, ZenonT(60) DEF FatInv, FatTypes

\* Each turn of the walk goes one cluster on.
LEMMA SeekWalkInv ==
    ASSUME FatInv, SeekWalk
    PROVE  FatInv'
<1> DEFINE y == op.seeked + BPC
           k == op.seeked \div BPC
           n == 1
<1>1. FatTypes /\ layout \in Layouts /\ layout.size \in Nat /\ op.at = "seek" /\ op \in SeekOps
  BY LayoutIs, OpIs DEF FatInv, FatTypes, SeekWalk
<1>2. /\ op.to \in Nat /\ op.seeked \in Nat /\ op.clust \in FatEntries
      /\ op.to <= layout.size /\ op.seeked <= op.to /\ op.seeked % BPC = 0
      /\ y <= op.to
  BY <1>1, ZenonT(60) DEF FatInv, SeekOps, Counted, SeekWalk
<1>3. PICK entry \in FatEntries :
        /\ GetFatent(op.clust, entry)
        /\ op' = [op EXCEPT !.clust = entry, !.seeked = @ + BPC]
  BY ZenonT(60) DEF SeekWalk
<1>4. UNCHANGED <<layout, offset, curclust, cached, cache>>
  BY DEF SeekWalk
<1>5. /\ op' \in SeekOps /\ op'.at = "seek" /\ op'.clust = entry
      /\ op'.seeked = y /\ op'.to = op.to /\ y \in Nat
  <2>1. y \in Nat
    BY <1>2, CardIs
  <2>2. op' = [[op EXCEPT !.clust = entry] EXCEPT !.seeked = y]
    BY <1>3
  <2> HIDE DEF y
  <2> QED
    BY <1>1, <1>2, <2>1, <2>2, ZenonT(60) DEF SeekOps
<1>6. k \in Nat /\ y \div BPC = k + 1 /\ y % BPC = 0
  <2>1. n \in Nat /\ n * BPC = BPC
    BY CardIs
  <2> HIDE DEF n
  <2>2. /\ k \in Nat /\ (op.seeked + n * BPC) \div BPC = k + n
        /\ (op.seeked + n * BPC) % BPC = 0
    BY <1>2, <2>1, LaterCluster
  <2>3. op.seeked + n * BPC = y
    BY <2>1
  <2> QED
    BY <2>2, <2>3 DEF n
<1>7. /\ fatnum' \in Int /\ fatbuf' \in [0 .. FATBUF - 1 -> FatEntries]
      /\ errors' \in Nat /\ clean' \in BOOLEAN /\ (clean' => clean)
      /\ clean' /\ FatRight(fatnum, fatbuf)
           => FatRight(fatnum', fatbuf') /\ entry = FatOnDisk(op.clust)
  BY <1>1, <1>2, <1>3, <1>4, FatentIs
<1> HIDE DEF y, k
<1>8. Counted(op', offset')
  BY <1>2, <1>5, <1>6 DEF Counted
<1>9. Holds(op.seeked, op.clust) /\ entry = FatOnDisk(op.clust) => Holds(y, entry)
  <2> SUFFICES ASSUME Holds(op.seeked, op.clust), entry = FatOnDisk(op.clust), y < layout.size
               PROVE  entry = layout.chain[(y \div BPC) + 1]
    BY DEF Holds
  <2>1. op.seeked < layout.size /\ y \div BPC > 0
    BY <1>1, <1>2, <1>6, CardIs DEF y
  <2>2. op.clust = layout.chain[y \div BPC]
    BY <1>6, <2>1 DEF Holds, k
  <2> QED
    BY <1>1, <1>5, <2>1, <2>2, NextHolds
<1>10. Holds(op.seeked, op.clust) /\ entry = FatOnDisk(op.clust) => Found(op', offset')
  BY <1>5, <1>9 DEF Found
<1>11. clean => /\ FatRight(fatnum, fatbuf) /\ CacheRight(cached, cache)
                /\ Holds(offset, curclust) /\ Holds(op.seeked, op.clust)
  BY <1>1 DEF FatInv, Found
<1>12. clean' => /\ FatRight(fatnum', fatbuf') /\ CacheRight(cached', cache')
                 /\ Holds(offset', curclust') /\ Found(op', offset')
  BY <1>4, <1>7, <1>10, <1>11
<1> QED
  BY <1>1, <1>4, <1>5, <1>7, <1>8, <1>12, FatInvNext DEF FatTypes

\* The walk ends at the cluster of the position.
LEMMA SeekArriveInv ==
    ASSUME FatInv, SeekArrive
    PROVE  FatInv'
<1>1. FatTypes /\ layout \in Layouts /\ layout.size \in Nat /\ op.at = "seek" /\ op \in SeekOps
  BY LayoutIs, OpIs DEF FatInv, FatTypes, SeekArrive
<1>2. /\ op.to \in Nat /\ op.seeked \in Nat /\ op.clust \in FatEntries
      /\ op.to <= layout.size /\ op.seeked <= op.to /\ op.seeked % BPC = 0
      /\ op.to < op.seeked + BPC
  BY <1>1, CardIs DEF FatInv, SeekOps, Counted, SeekArrive
<1>3. /\ curclust' = op.clust /\ offset' = op.to /\ op' = NoCall
      /\ UNCHANGED <<layout, fatnum, fatbuf>>
  BY DEF SeekArrive
<1>4. ClustOffset(op.seeked) = op.seeked
  BY <1>2 DEF ClustOffset
<1>5. Holds(op.seeked, op.clust) => Holds(op.to, op.clust)
  BY <1>1, <1>2, <1>4, HoldsOn
<1>6. /\ cache' \in [1 .. BPC -> Places] /\ cached' \in FatEntries
      /\ errors' \in Nat /\ clean' \in BOOLEAN /\ (clean' => clean)
      /\ clean' /\ CacheRight(cached, cache) => CacheRight(cached', cache')
  <2>1. CASE GetCluster(op.clust, 1, cache, cache') /\ cached' = op.clust
    BY <1>1, <1>2, <2>1, CachedIs
  <2>2. CASE UNCHANGED <<cached, cache, errors, clean>>
    BY <1>1, <2>2 DEF FatTypes
  <2> QED
    BY <2>1, <2>2 DEF SeekArrive
<1>7. clean => /\ FatRight(fatnum, fatbuf) /\ CacheRight(cached, cache)
               /\ Holds(op.seeked, op.clust)
  BY <1>1 DEF FatInv, Found
<1>8. clean' => /\ FatRight(fatnum', fatbuf') /\ CacheRight(cached', cache')
                /\ Holds(offset', curclust')
  BY <1>3, <1>5, <1>6, <1>7
<1> QED
  BY <1>1, <1>2, <1>3, <1>6, <1>8, IdleIs, FatInvNext, ZenonT(60) DEF FatTypes

-----------------------------------------------------------------------------
(* The steps of a read.                                                      *)

\* A part of a cluster of the file is that part of the file.
LEMMA PartOfCluster ==
    ASSUME layout \in Layouts, NEW x \in Nat, x < layout.size, NEW c \in Nat, Holds(x, c),
           NEW b \in Nat, x % BPC <= b, b <= BPC, ClustOffset(x) + b <= layout.size
    PROVE  SubSeq(RunBytes(c, 1), (x % BPC) + 1, b) = SubSeq(FileBytes, x + 1, ClustOffset(x) + b)
<1> DEFINE p == ClustOffset(x)
           m == x % BPC
           n == 1
<1>1. /\ p \in Nat /\ p % BPC = 0 /\ p \div BPC = x \div BPC
      /\ x = p + m /\ m \in Nat
  BY ClusterStart
<1>2. n \in Nat /\ n * BPC = BPC
  BY CardIs
<1>3. c = layout.chain[(p \div BPC) + 1]
  BY <1>1 DEF Holds
<1>4. Run(p, c, n)
  <2> HIDE DEF p
  <2> QED
    BY <1>1, <1>3, OneRun
<1>5. m <= b /\ p + b <= layout.size
  OBVIOUS
<1> HIDE DEF p, m, n
<1>6. SubSeq(RunBytes(c, n), m + 1, b) = SubSeq(FileBytes, (p + m) + 1, p + b)
  BY <1>1, <1>2, <1>4, <1>5, PartOfRun
<1> QED
  BY <1>1, <1>6, ZenonT(60) DEF p, m, n

\* A read beyond the end changes nothing.
LEMMA ReadRefusedInv ==
    ASSUME FatInv, NEW n, ReadRefused(n)
    PROVE  FatInv'
<1>1. UNCHANGED <<layout, offset, curclust, cached, cache, fatnum, fatbuf, op, errors, clean>>
  BY DEF ReadRefused, GiveUp
<1> QED
  BY <1>1, FatInvNext DEF FatInv, FatTypes

\* A read at the start of a cluster.
LEMMA ReadAlignedInv ==
    ASSUME FatInv, NEW n \in Nat, NEW a \in Nat, ReadAligned(n, a)
    PROVE  FatInv'
<1>1. FatTypes /\ layout \in Layouts /\ layout.size \in Nat /\ offset \in Nat
  BY LayoutIs DEF FatInv, FatTypes
<1>2. /\ UNCHANGED <<layout, offset, curclust, cached, cache, fatnum, fatbuf, errors, clean>>
      /\ offset + n <= layout.size /\ offset % BPC = 0
      /\ op' = [at |-> "align", then |-> "loop", got |-> <<>>, act |-> n, off |-> offset,
                clust |-> curclust, end |-> curclust, run |-> 0, addr |-> a, want |-> n]
  BY DEF ReadAligned
<1>3. op' \in ReadOps
  BY <1>1, <1>2 DEF ReadOps, FatTypes
<1>4. Counted(op', offset')
  BY <1>1, <1>2 DEF Counted
<1>5. SubSeq(FileBytes, offset + 1, offset) = <<>>
  BY <1>1, FileIs
<1>6. Holds(offset, curclust) => Found(op', offset')
  BY <1>2, <1>5, ZenonT(60) DEF Found
<1> QED
  BY <1>2, <1>3, <1>4, <1>6, FatInvNext DEF FatInv, FatTypes

\* The cluster of the position is in the cache.
LEMMA FirstCached ==
    ASSUME FatInv,
           \/ /\ curclust # cached
              /\ GetCluster(curclust, 1, cache, cache')
              /\ cached' = curclust
           \/ /\ curclust = cached
              /\ UNCHANGED <<cached, cache, errors, clean>>
    PROVE  /\ cache' \in [1 .. BPC -> Places] /\ cached' \in FatEntries
           /\ errors' \in Nat /\ clean' \in BOOLEAN /\ (clean' => clean)
           /\ clean' => CacheRight(cached', cache')
           /\ clean' /\ offset < layout.size => cache' = RunBytes(curclust, 1)
<1>1. FatTypes /\ curclust \in FatEntries /\ layout \in Layouts /\ offset \in Nat
  BY DEF FatInv, FatTypes
<1>2. CASE GetCluster(curclust, 1, cache, cache') /\ cached' = curclust
  BY <1>1, <1>2, CachedIs
<1>3. CASE curclust = cached /\ UNCHANGED <<cached, cache, errors, clean>>
  <2>1. clean /\ offset < layout.size => curclust \in Clusters
    BY <1>1, InChain DEF FatInv, Holds
  <2>2. clean /\ offset < layout.size => cached # 0
    BY <1>3, <2>1, CardIs
  <2>3. clean /\ offset < layout.size => cache = RunBytes(curclust, 1)
    BY <1>3, <2>2 DEF FatInv, CacheRight
  <2> QED
    BY <1>1, <1>3, <2>3 DEF FatInv, FatTypes
<1> QED
  BY <1>2, <1>3

\* What a read hands out.
Handed(n) ==
    /\ n \in 0 .. layout.size - offset
    /\ offset' = offset + n
    /\ out' = [got |-> SubSeq(FileBytes, offset + 1, offset + n), ok |-> TRUE]

\* A read inside a cluster takes its rest from the cache.
LEMMA ReadFirstInv ==
    ASSUME FatInv, NEW n \in Nat \ {0}, NEW a \in Nat, ReadFirst(n, a)
    PROVE  /\ FatInv'
           /\ clean' /\ n < BPC - (offset % BPC) => Handed(n)
<1> DEFINE m == offset % BPC
           p == ClustOffset(offset)
           k == offset \div BPC
           first == BPC - m
           small == SubSeq(cache', m + 1, m + n)
           big == SubSeq(cache', m + 1, BPC)
<1>1. FatTypes /\ layout \in Layouts /\ layout.size \in Nat /\ offset \in Nat
  BY LayoutIs DEF FatInv, FatTypes
<1>2. curclust \in FatEntries /\ curclust \in Nat
  BY CardIs, ZenonT(60) DEF FatInv, FatTypes
<1>3. /\ offset + n <= layout.size
      /\ \/ /\ curclust # cached
            /\ GetCluster(curclust, 1, cache, cache')
            /\ cached' = curclust
         \/ /\ curclust = cached
            /\ UNCHANGED <<cached, cache, errors, clean>>
      /\ \/ /\ n < first
            /\ Commit(small, offset + n, curclust)
         \/ /\ n >= first
            /\ op' = [at |-> "next", then |-> "align", got |-> big,
                      act |-> n - first, off |-> offset + first, clust |-> curclust,
                      end |-> curclust, run |-> 0, addr |-> a, want |-> n]
            /\ UNCHANGED <<offset, curclust, out>>
      /\ UNCHANGED <<layout, fatnum, fatbuf>>
  BY ZenonT(60) DEF ReadFirst
<1>4. /\ cache' \in [1 .. BPC -> Places] /\ cached' \in FatEntries
      /\ errors' \in Nat /\ clean' \in BOOLEAN /\ (clean' => clean)
      /\ clean' => CacheRight(cached', cache')
      /\ clean' /\ offset < layout.size => cache' = RunBytes(curclust, 1)
  BY <1>3, FirstCached
<1>5. /\ p \in Nat /\ p % BPC = 0 /\ p \div BPC = k /\ k \in Nat
      /\ offset = p + m /\ m \in 0 .. BPC - 1
  BY <1>1, ClusterStart
<1>6. offset < layout.size
  BY <1>1, <1>3
<1>7. clean => FatRight(fatnum, fatbuf) /\ Holds(offset, curclust)
  BY DEF FatInv
<1> HIDE DEF k, p
<1>8. ASSUME n < first, Commit(small, offset + n, curclust)
      PROVE  FatInv' /\ (clean' => Handed(n))
  <2>1. /\ offset' = offset + n /\ curclust' = curclust /\ op' = NoCall
        /\ out' = [got |-> small, ok |-> TRUE]
    BY <1>8 DEF Commit
  <2>2. offset <= offset + n /\ offset + n < p + BPC /\ offset + n \in Nat
    BY <1>1, <1>5, <1>8, CardIs
  <2>3. clean' => Holds(offset + n, curclust)
    BY <1>1, <1>4, <1>7, <2>2, HoldsOn DEF p
  <2>4. clean' => /\ FatRight(fatnum', fatbuf') /\ CacheRight(cached', cache')
                  /\ Holds(offset', curclust')
    BY <1>3, <1>4, <1>7, <2>1, <2>3, ZenonT(60)
  <2>5. FatInv'
    BY <1>1, <1>2, <1>3, <1>4, <2>1, <2>2, <2>4, IdleIs, FatInvNext DEF FatTypes
  <2>6. ASSUME clean' PROVE small = SubSeq(FileBytes, offset + 1, offset + n)
    <3> DEFINE b == m + n
    <3>1. b \in Nat /\ m <= b /\ b <= BPC /\ p + b = offset + n /\ p + b <= layout.size
      BY <1>1, <1>3, <1>5, <1>8, CardIs
    <3> HIDE DEF b
    <3>2. SubSeq(RunBytes(curclust, 1), m + 1, b) = SubSeq(FileBytes, offset + 1, p + b)
      BY <1>1, <1>2, <1>4, <1>6, <1>7, <2>6, <3>1, PartOfCluster, ZenonT(60) DEF p
    <3> QED
      BY <1>4, <1>6, <2>6, <3>1, <3>2, ZenonT(60) DEF b
  <2>7. n \in 0 .. layout.size - offset
    BY <1>1, <1>3
  <2> QED
    BY <2>1, <2>5, <2>6, <2>7, ZenonT(60) DEF Handed
<1>9. ASSUME n >= first,
             op' = [at |-> "next", then |-> "align", got |-> big,
                    act |-> n - first, off |-> offset + first, clust |-> curclust,
                    end |-> curclust, run |-> 0, addr |-> a, want |-> n],
             UNCHANGED <<offset, curclust, out>>
      PROVE  FatInv'
  <2>1. /\ first \in Nat /\ n - first \in Nat /\ offset + first = p + BPC /\ p + BPC \in Nat
        /\ p + BPC <= layout.size
    <3>1. offset + n <= layout.size /\ n >= first
      BY <1>3, <1>9
    <3> HIDE DEF m
    <3> QED
      BY <1>1, <1>5, <3>1, CardIs
  <2>2. (p + BPC) \div BPC = k + 1 /\ (p + BPC) % BPC = 0
    <3> DEFINE w == 1
    <3>1. w \in Nat /\ w * BPC = BPC
      BY CardIs
    <3> HIDE DEF w
    <3>2. (p + w * BPC) \div BPC = (p \div BPC) + w /\ (p + w * BPC) % BPC = 0
      BY <1>5, <3>1, LaterCluster
    <3> QED
      BY <1>5, <3>1, <3>2 DEF w
  <2>3. big \in Seq(Places) /\ Len(big) = first
    <3> DEFINE f == cache'
    <3>1. f \in Seq(Places) /\ Len(f) = BPC
      BY <1>4, CardIs
    <3>3. m \in Nat /\ BPC \in Nat /\ m <= BPC
      BY <1>5, CardIs
    <3> HIDE DEF f, m
    <3>2. SubSeq(f, m + 1, BPC) \in Seq(Places) /\ Len(SubSeq(f, m + 1, BPC)) = BPC - m
      BY <3>1, <3>3, SubSeqIs
    <3> QED
      BY <3>2 DEF f
  <2> HIDE DEF big, first
  <2>4. op' \in ReadOps
    BY <1>2, <1>9, <2>1, <2>3 DEF ReadOps
  <2>5. /\ op'.at = "next" /\ op'.got = big /\ op'.act = n - first /\ op'.off = p + BPC
        /\ op'.end = curclust /\ op'.want = n
    BY <1>9, <2>1
  <2>6. Len(big) + (n - first) = n /\ p + BPC = offset + Len(big)
    BY <1>1, <2>1, <2>3
  <2>7. Counted(op', offset)
    BY <1>3, <2>2, <2>5, <2>6 DEF Counted
  <2>8. ASSUME clean' PROVE Found(op', offset)
    <3>1. big = SubSeq(FileBytes, offset + 1, p + BPC)
      <4>1. BPC \in Nat /\ m <= BPC /\ BPC <= BPC
        BY <1>5, CardIs
      <4>2. SubSeq(RunBytes(curclust, 1), m + 1, BPC) = SubSeq(FileBytes, offset + 1, p + BPC)
        BY <1>1, <1>2, <1>4, <1>6, <1>7, <2>1, <2>8, <4>1, PartOfCluster, ZenonT(60) DEF p
      <4> QED
        BY <1>4, <1>6, <2>8, <4>2, ZenonT(60) DEF big
    <3>2. curclust = layout.chain[k + 1]
      BY <1>4, <1>6, <1>7, <2>8 DEF Holds, k
    <3>3. k + 1 > 0
      BY <1>5
    <3> QED
      BY <2>2, <2>5, <3>1, <3>2, <3>3 DEF Found
  <2>9. clean' => /\ FatRight(fatnum', fatbuf') /\ CacheRight(cached', cache')
                  /\ Holds(offset', curclust') /\ Found(op', offset')
    BY <1>3, <1>4, <1>7, <1>9, <2>8
  <2>10. Counted(op', offset') /\ offset' \in Nat /\ offset' <= layout.size
    BY <1>1, <1>9, <2>7 DEF FatTypes
  <2> QED
    BY <1>1, <1>2, <1>3, <1>4, <1>9, <2>4, <2>9, <2>10, FatInvNext DEF FatTypes
<1>10. n >= first => ~(n < first)
  <2> HIDE DEF m
  <2> QED
    BY <1>5, CardIs
<1> HIDE DEF small, big
<1> QED
  BY <1>3, <1>8, <1>9, <1>10, Zenon

\* A read in progress.
LEMMA ReadIs ==
    ASSUME FatInv, op.at \in {"next", "align", "loop", "scan", "load"}
    PROVE  /\ FatTypes /\ layout \in Layouts /\ layout.size \in Nat /\ offset \in Nat
           /\ op \in ReadOps
           /\ op.got \in Seq(Places) /\ Len(op.got) \in Nat /\ op.act \in Nat /\ op.off \in Nat
           /\ op.clust \in FatEntries /\ op.end \in FatEntries
           /\ op.clust \in Nat /\ op.end \in Nat
           /\ op.run \in Nat /\ op.addr \in Nat /\ op.want \in Nat
           /\ op.then \in {"align", "loop"}
           /\ offset + op.want <= layout.size /\ op.off = offset + Len(op.got)
           /\ op.off % BPC = 0
           /\ op.at \in {"next", "align", "loop"} => Len(op.got) + op.act = op.want
           /\ op.at \in {"scan", "load"}
                => op.run > 0 /\ Len(op.got) + op.run * BPC + op.act = op.want
           /\ clean => /\ FatRight(fatnum, fatbuf) /\ CacheRight(cached, cache)
                       /\ Holds(offset, curclust)
                       /\ op.got = SubSeq(FileBytes, offset + 1, op.off)
<1>1. FatTypes /\ layout \in Layouts /\ layout.size \in Nat /\ offset \in Nat /\ op \in ReadOps
  BY LayoutIs, OpIs DEF FatInv, FatTypes
<1>2. /\ op.got \in Seq(Places) /\ Len(op.got) \in Nat /\ op.act \in Nat /\ op.off \in Nat
      /\ op.clust \in FatEntries /\ op.end \in FatEntries
      /\ op.run \in Nat /\ op.addr \in Nat /\ op.want \in Nat /\ op.then \in {"align", "loop"}
  BY <1>1 DEF ReadOps
<1>3. op.clust \in Nat /\ op.end \in Nat
  BY <1>2, CardIs, ZenonT(60)
<1>4. op.at \notin {"idle", "seek"}
  OBVIOUS
<1>5. /\ offset + op.want <= layout.size /\ op.off = offset + Len(op.got)
      /\ op.off % BPC = 0
      /\ op.at \in {"next", "align", "loop"} => Len(op.got) + op.act = op.want
      /\ op.at \in {"scan", "load"}
           => op.run > 0 /\ Len(op.got) + op.run * BPC + op.act = op.want
  BY <1>4 DEF FatInv, Counted
<1>6. clean => /\ FatRight(fatnum, fatbuf) /\ CacheRight(cached, cache)
               /\ Holds(offset, curclust)
               /\ op.got = SubSeq(FileBytes, offset + 1, op.off)
  BY <1>4, ZenonT(60) DEF FatInv, Found
<1> QED
  BY <1>1, <1>2, <1>3, <1>5, <1>6, ZenonT(60)

\* A read that gives up leaves the file as it was.
LEMMA GiveUpInv ==
    ASSUME FatInv, GiveUp, UNCHANGED <<layout, cached, cache>>,
           fatnum' \in Int, fatbuf' \in [0 .. FATBUF - 1 -> FatEntries],
           errors' \in Nat, clean' \in BOOLEAN, clean' => clean,
           clean' /\ FatRight(fatnum, fatbuf) => FatRight(fatnum', fatbuf')
    PROVE  FatInv'
<1>1. op' = NoCall /\ UNCHANGED <<layout, offset, curclust, cached, cache>>
  BY DEF GiveUp
<1>2. clean' => /\ FatRight(fatnum', fatbuf') /\ CacheRight(cached', cache')
                /\ Holds(offset', curclust')
  BY <1>1 DEF FatInv
<1> QED
  BY <1>1, <1>2, IdleIs, FatInvNext DEF FatInv, FatTypes

\* A read into memory that is not aligned gives up.
LEMMA ReadAlignInv ==
    ASSUME FatInv, ReadAlign
    PROVE  FatInv'
<1>1. /\ UNCHANGED <<layout, cached, cache, fatnum, fatbuf, errors, clean>>
      /\ op.at = "align"
      /\ \/ GiveUp
         \/ op' = [op EXCEPT !.at = "loop"] /\ UNCHANGED <<offset, curclust, out>>
  BY DEF ReadAlign
<1>2. FatTypes
  BY DEF FatInv
<1>3. CASE GiveUp
  BY <1>1, <1>2, <1>3, GiveUpInv DEF FatTypes
<1>4. CASE op' = [op EXCEPT !.at = "loop"] /\ UNCHANGED <<offset, curclust, out>>
  <2>1. op \in ReadOps
    BY <1>1, <1>2, OpIs
  <2>2. /\ op' \in ReadOps /\ op'.at = "loop"
        /\ op'.got = op.got /\ op'.act = op.act /\ op'.off = op.off
        /\ op'.clust = op.clust /\ op'.want = op.want
    BY <1>4, <2>1 DEF ReadOps
  <2>3. Counted(op', offset')
    BY <1>1, <1>4, <2>2 DEF FatInv, Counted
  <2>4. Found(op, offset) => Found(op', offset')
    BY <1>1, <1>4, <2>2, ZenonT(60) DEF Found
  <2> QED
    BY <1>1, <1>2, <1>4, <2>2, <2>3, <2>4, FatInvNext DEF FatInv, FatTypes
<1> QED
  BY <1>1, <1>3, <1>4

\* While the card is read without a failure, there is a next cluster.
LEMMA ReadNextInv ==
    ASSUME FatInv, ReadNext
    PROVE  FatInv' /\ (clean' => op'.at # "idle" /\ UNCHANGED <<offset, out>>)
<1> DEFINE y == op.off
<1>1. op.at = "next" /\ UNCHANGED <<layout, cached, cache>>
  BY ZenonT(60) DEF ReadNext
<1>2. /\ FatTypes /\ layout \in Layouts /\ layout.size \in Nat /\ offset \in Nat
      /\ op \in ReadOps /\ y \in Nat
      /\ op.end \in FatEntries /\ op.clust \in FatEntries /\ op.then \in {"align", "loop"}
      /\ clean => /\ FatRight(fatnum, fatbuf) /\ CacheRight(cached, cache)
                  /\ Holds(offset, curclust)
                  /\ op.got = SubSeq(FileBytes, offset + 1, op.off)
  BY <1>1, ReadIs
<1>3. clean => y \div BPC > 0 /\ op.end = layout.chain[y \div BPC]
  BY <1>1 DEF FatInv, Found
<1>4. ASSUME UNCHANGED <<offset, curclust, out>>,
             NEW c \in FatEntries, op' = [op EXCEPT !.at = op.then, !.clust = c],
             fatnum' \in Int, fatbuf' \in [0 .. FATBUF - 1 -> FatEntries],
             errors' \in Nat, clean' \in BOOLEAN, clean' => clean,
             clean' => FatRight(fatnum', fatbuf') /\ Holds(y, c)
      PROVE  FatInv' /\ (clean' => op'.at # "idle" /\ UNCHANGED <<offset, out>>)
  <2>1. /\ op' \in ReadOps /\ op'.at = op.then
        /\ op'.got = op.got /\ op'.act = op.act /\ op'.off = op.off
        /\ op'.clust = c /\ op'.want = op.want
    BY <1>2, <1>4, ZenonT(60) DEF ReadOps
  <2>2. Counted(op', offset')
    BY <1>1, <1>2, <1>4, <2>1 DEF FatInv, Counted
  <2>3. clean' => Found(op', offset')
    BY <1>2, <1>4, <2>1 DEF Found
  <2>4. clean' => CacheRight(cached', cache') /\ Holds(offset', curclust')
    BY <1>1, <1>2, <1>4
  <2>5. FatInv'
    BY <1>1, <1>2, <1>4, <2>1, <2>2, <2>3, <2>4, FatInvNext DEF FatTypes
  <2> QED
    BY <1>2, <1>4, <2>1, <2>5
<1>5. CASE /\ y >= layout.size
           /\ op' = [op EXCEPT !.at = op.then]
           /\ UNCHANGED <<offset, curclust, out, fatnum, fatbuf, errors, clean>>
  <2>1. Holds(y, op.clust)
    BY <1>2, <1>5 DEF Holds
  <2>2. op' = [op EXCEPT !.at = op.then, !.clust = op.clust]
    BY <1>2, <1>5, ZenonT(60) DEF ReadOps
  <2> QED
    BY <1>2, <1>4, <1>5, <2>1, <2>2, ZenonT(60) DEF FatTypes
<1>6. ASSUME y < layout.size, NEW entry \in FatEntries, GetFatent(op.end, entry),
             \/ CheckClust(entry) /\ GiveUp
             \/ /\ ~CheckClust(entry)
                /\ op' = [op EXCEPT !.at = op.then, !.clust = entry]
                /\ UNCHANGED <<offset, curclust, out>>
      PROVE  FatInv' /\ (clean' => op'.at # "idle" /\ UNCHANGED <<offset, out>>)
  <2>1. /\ fatnum' \in Int /\ fatbuf' \in [0 .. FATBUF - 1 -> FatEntries]
        /\ errors' \in Nat /\ clean' \in BOOLEAN /\ (clean' => clean)
        /\ clean' /\ FatRight(fatnum, fatbuf)
             => FatRight(fatnum', fatbuf') /\ entry = FatOnDisk(op.end)
    BY <1>1, <1>2, <1>6, FatentIs
  <2>2. clean' => entry = layout.chain[(y \div BPC) + 1] /\ entry \in Clusters
    BY <1>2, <1>3, <1>6, <2>1, NextHolds
  <2>3. clean' => Holds(y, entry) /\ ~CheckClust(entry)
    BY <2>2, CardIs DEF Holds
  <2>4. CASE CheckClust(entry) /\ GiveUp
    BY <1>1, <2>1, <2>3, <2>4, GiveUpInv, ZenonT(60)
  <2>5. CASE /\ op' = [op EXCEPT !.at = op.then, !.clust = entry]
             /\ UNCHANGED <<offset, curclust, out>>
    BY <1>2, <1>4, <2>1, <2>3, <2>5, ZenonT(60)
  <2> QED
    BY <1>6, <2>4, <2>5
<1> QED
  BY <1>5, <1>6, ZenonT(60) DEF ReadNext

\* A cluster more lies in the file.
LEMMA RoomLeft ==
    ASSUME NEW size \in Nat, NEW o \in Nat, NEW w \in Nat, NEW l \in Nat, NEW t \in Nat,
           o + w <= size, l + t = w, t >= BPC
    PROVE  o + l < size /\ t - BPC \in Nat
  BY CardIs

\* A run of clusters starts with the current one.
LEMMA ReadLoopInv ==
    ASSUME FatInv, ReadLoop
    PROVE  FatInv'
<1> DEFINE e == op.act - BPC
           n == 1
<1>1. /\ UNCHANGED <<layout, offset, curclust, cached, cache, fatnum, fatbuf, errors, clean>>
      /\ op.at = "loop" /\ op.act >= BPC
      /\ op' = [op EXCEPT !.at = "scan", !.end = op.clust, !.run = 1, !.act = op.act - BPC]
  BY DEF ReadLoop
<1>2. /\ FatTypes /\ layout \in Layouts /\ layout.size \in Nat /\ offset \in Nat
      /\ op \in ReadOps /\ op.act \in Nat /\ op.off \in Nat
      /\ op.clust \in FatEntries /\ op.clust \in Nat
      /\ op.want \in Nat /\ Len(op.got) \in Nat
      /\ offset + op.want <= layout.size /\ op.off = offset + Len(op.got)
      /\ op.off % BPC = 0 /\ Len(op.got) + op.act = op.want
  BY <1>1, ReadIs
<1>3. e \in Nat /\ n \in Nat /\ n > 0 /\ n * BPC = BPC
  BY <1>1, <1>2, CardIs
<1>4. Len(op.got) + n * BPC + e = op.want /\ op.off < layout.size /\ op.clust + n - 1 = op.clust
  <2> DEFINE l == Len(op.got)
  <2>1. op.clust + n - 1 = op.clust
    BY <1>2
  <2>2. l \in Nat /\ l + op.act = op.want /\ op.off = offset + l
    BY <1>2
  <2> HIDE DEF l
  <2>3. /\ layout.size \in Nat /\ offset \in Nat /\ op.want \in Nat /\ op.act \in Nat
        /\ offset + op.want <= layout.size /\ op.act >= BPC
    BY <1>1, <1>2
  <2>4. offset + l < layout.size
    BY <2>2, <2>3, RoomLeft, ZenonT(60)
  <2>5. l + BPC + e = op.want
    BY <2>2, <2>3, CardIs
  <2> QED
    BY <1>3, <2>1, <2>2, <2>4, <2>5 DEF l
<1>5. /\ op' = [[[[op EXCEPT !.at = "scan"] EXCEPT !.end = op.clust] EXCEPT !.run = n]
                  EXCEPT !.act = e]
  BY <1>1
<1> HIDE DEF n, e
<1>6. /\ op' \in ReadOps /\ op'.at = "scan"
      /\ op'.got = op.got /\ op'.act = e /\ op'.off = op.off /\ op'.run = n
      /\ op'.clust = op.clust /\ op'.end = op.clust /\ op'.want = op.want
  BY <1>2, <1>3, <1>5, ZenonT(60) DEF ReadOps
<1>7. Counted(op', offset')
  BY <1>1, <1>2, <1>3, <1>4, <1>6 DEF Counted
<1>8. Holds(op.off, op.clust) => Run(op.off, op.clust, n)
  BY <1>2, <1>4, OneRun DEF Holds, n
<1>9. clean => Found(op', offset')
  BY <1>1, <1>4, <1>6, <1>8, ZenonT(60) DEF FatInv, Found
<1> QED
  BY <1>1, <1>2, <1>6, <1>7, <1>9, FatInvNext DEF FatInv, FatTypes

\* The scan of the FAT for a run: while the card is read without a failure it
\* neither leaves the file nor ends the read.
LEMMA ReadScanInv ==
    ASSUME FatInv, ReadScan
    PROVE  FatInv' /\ (clean' => op'.at # "idle" /\ UNCHANGED <<offset, out>>)
<1> DEFINE r == op.run
           l == Len(op.got)
           y == op.off + r * BPC
           e == op.act - BPC
           k == op.off \div BPC
<1>1. op.at = "scan" /\ UNCHANGED <<layout, cached, cache>>
  BY ZenonT(60) DEF ReadScan
<1>2. /\ FatTypes /\ layout \in Layouts /\ layout.size \in Nat /\ offset \in Nat
      /\ op \in ReadOps /\ op.act \in Nat /\ op.off \in Nat
      /\ op.clust \in FatEntries /\ op.clust \in Nat /\ op.end \in FatEntries /\ op.end \in Nat
      /\ op.want \in Nat /\ l \in Nat /\ r \in Nat /\ r > 0
      /\ offset + op.want <= layout.size /\ op.off = offset + l
      /\ op.off % BPC = 0 /\ l + r * BPC + op.act = op.want
      /\ clean => /\ FatRight(fatnum, fatbuf) /\ CacheRight(cached, cache)
                  /\ Holds(offset, curclust)
                  /\ op.got = SubSeq(FileBytes, offset + 1, op.off)
  BY <1>1, ReadIs, ZenonT(60)
<1>3. clean => Run(op.off, op.clust, r) /\ op.end = op.clust + r - 1
  BY <1>1 DEF FatInv, Found
<1>4. k \in Nat /\ r * BPC \in Nat /\ y \div BPC = k + r /\ y % BPC = 0 /\ y \in Nat
  <2>1. k \in Nat /\ r * BPC \in Nat /\ y \div BPC = k + r /\ y % BPC = 0
    <3> HIDE DEF r
    <3> QED
      BY <1>2, LaterCluster
  <2> DEFINE x == r * BPC
  <2>2. x \in Nat /\ op.off \in Nat
    BY <1>2, <2>1
  <2> HIDE DEF x
  <2>3. op.off + x \in Nat
    BY <2>2
  <2> QED
    BY <2>1, <2>3 DEF x
\* Going on to read the run.
<1>5. ASSUME op' = [op EXCEPT !.at = "load"], UNCHANGED <<offset, curclust, out>>,
             fatnum' \in Int, fatbuf' \in [0 .. FATBUF - 1 -> FatEntries],
             errors' \in Nat, clean' \in BOOLEAN, clean' => clean,
             clean' => FatRight(fatnum', fatbuf')
      PROVE  FatInv' /\ (clean' => op'.at # "idle" /\ UNCHANGED <<offset, out>>)
  <2>1. /\ op' \in ReadOps /\ op'.at = "load"
        /\ op'.got = op.got /\ op'.act = op.act /\ op'.off = op.off /\ op'.run = r
        /\ op'.clust = op.clust /\ op'.end = op.end /\ op'.want = op.want
    BY <1>2, <1>5, ZenonT(60) DEF ReadOps
  <2>2. Counted(op', offset')
    BY <1>2, <1>5, <2>1 DEF Counted
  <2>3. clean' => Found(op', offset')
    BY <1>2, <1>3, <1>5, <2>1, ZenonT(60) DEF Found
  <2>4. clean' => CacheRight(cached', cache') /\ Holds(offset', curclust')
    BY <1>1, <1>2, <1>5
  <2>5. FatInv'
    BY <1>1, <1>2, <1>5, <2>1, <2>2, <2>3, <2>4, FatInvNext DEF FatTypes
  <2> QED
    BY <1>5, <2>1, <2>5
<1>6. CASE /\ op' = [op EXCEPT !.at = "load"]
           /\ UNCHANGED <<offset, curclust, out, fatnum, fatbuf, errors, clean>>
  BY <1>2, <1>5, <1>6 DEF FatTypes
<1>7. ASSUME op.act >= BPC, NEW entry \in FatEntries, GetFatent(op.end, entry),
             \/ /\ CheckClust(entry)
                /\ Commit(op.got, op.off, op.clust)
             \/ /\ ~CheckClust(entry)
                /\ op' = IF entry = op.end + 1
                         THEN [op EXCEPT !.end = entry, !.run = @ + 1, !.act = @ - BPC]
                         ELSE [op EXCEPT !.at = "load"]
                /\ UNCHANGED <<offset, curclust, out>>
      PROVE  FatInv' /\ (clean' => op'.at # "idle" /\ UNCHANGED <<offset, out>>)
  <2>1. /\ fatnum' \in Int /\ fatbuf' \in [0 .. FATBUF - 1 -> FatEntries]
        /\ errors' \in Nat /\ clean' \in BOOLEAN /\ (clean' => clean)
        /\ clean' /\ FatRight(fatnum, fatbuf)
             => FatRight(fatnum', fatbuf') /\ entry = FatOnDisk(op.end)
    BY <1>1, <1>2, <1>7, FatentIs
  <2>2. e \in Nat /\ y < layout.size /\ op.off <= layout.size /\ y \div BPC > 0
    <3> DEFINE x == r * BPC
    <3>1. x \in Nat /\ l + x + op.act = op.want
      BY <1>2, <1>4
    <3>2. y = op.off + x
      OBVIOUS
    <3>3. y \div BPC > 0
      BY <1>2, <1>4
    <3>4. l \in Nat /\ op.off = offset + l
      BY <1>2
    <3> HIDE DEF x, l, y
    <3> DEFINE h == l + x
    <3>5. h \in Nat /\ h + op.act = op.want /\ y = offset + h /\ op.off <= y
      BY <1>2, <3>1, <3>2, <3>4
    <3> HIDE DEF h
    <3>6. offset + h < layout.size /\ op.act - BPC \in Nat
      BY <1>2, <1>7, <3>5, RoomLeft, ZenonT(60)
    <3>7. op.off <= layout.size
      BY <1>2, <3>5, <3>6
    <3> QED
      BY <3>3, <3>5, <3>6, <3>7
  <2>3. clean' => op.end = layout.chain[y \div BPC]
    <3> HIDE DEF r, y
    <3>1. r \in 1 .. r
      BY <1>2
    <3>2. Run(op.off, op.clust, r) => layout.chain[k + r] = op.clust + r - 1
      BY <3>1, ZenonT(60) DEF Run, k
    <3> QED
      BY <1>3, <1>4, <2>1, <3>2
  <2>4. clean' => entry = layout.chain[(k + r) + 1] /\ entry \in Clusters
    <3> HIDE DEF y
    <3> QED
      BY <1>2, <1>4, <2>1, <2>2, <2>3, NextHolds, ZenonT(60)
  <2>5. clean' => ~CheckClust(entry)
    BY <2>4, CardIs
  <2>6. CASE CheckClust(entry) /\ Commit(op.got, op.off, op.clust)
    <3>1. offset' = op.off /\ curclust' = op.clust /\ op' = NoCall /\ ~clean'
      BY <2>5, <2>6 DEF Commit
    <3> QED
      BY <1>1, <1>2, <2>1, <2>2, <3>1, IdleIs, FatInvNext DEF FatTypes
  <2>7. CASE op' = [op EXCEPT !.at = "load"] /\ UNCHANGED <<offset, curclust, out>>
    BY <1>2, <1>5, <2>1, <2>7
  <2>8. ASSUME entry = op.end + 1,
               op' = [op EXCEPT !.end = entry, !.run = op.run + 1, !.act = op.act - BPC],
               UNCHANGED <<offset, curclust, out>>
        PROVE  FatInv' /\ (clean' => op'.at # "idle" /\ UNCHANGED <<offset, out>>)
    <3> DEFINE s == r + 1
    <3>1. s \in Nat /\ s > 0
      BY <1>2
    <3>2. op' = [[[op EXCEPT !.end = entry] EXCEPT !.run = s] EXCEPT !.act = e]
      BY <2>8
    <3>3. l + s * BPC + e = op.want
      <4> DEFINE x == r * BPC
      <4>1. x \in Nat /\ l + x + op.act = op.want
        BY <1>2, <1>4
      <4>2. s * BPC = x + BPC
        BY <1>2, CardIs, MulNext
      <4> HIDE DEF x, l, s
      <4>3. l + (x + BPC) + e = op.want
        BY <1>2, <1>7, <4>1, CardIs
      <4> QED
        BY <4>2, <4>3
    <3> HIDE DEF s, e
    <3>4. /\ op' \in ReadOps /\ op'.at = "scan"
          /\ op'.got = op.got /\ op'.act = e /\ op'.off = op.off /\ op'.run = s
          /\ op'.clust = op.clust /\ op'.end = entry /\ op'.want = op.want
      BY <1>1, <1>2, <2>2, <3>1, <3>2, ZenonT(60) DEF ReadOps
    <3>5. Counted(op', offset')
      BY <1>2, <2>8, <3>1, <3>3, <3>4, ZenonT(60) DEF Counted
    <3>6. ASSUME clean' PROVE Run(op.off, op.clust, s) /\ entry = op.clust + s - 1
      <4> HIDE DEF r, k
      <4>1. /\ Run(op.off, op.clust, r) /\ op.end = op.clust + r - 1
            /\ entry = layout.chain[(k + r) + 1]
        BY <1>3, <2>1, <2>4, <3>6
      <4>2. entry = op.clust + s - 1
        BY <1>2, <2>8, <4>1 DEF s
      <4>3. ASSUME NEW j \in 1 .. s PROVE layout.chain[k + j] = op.clust + j - 1
        <5>1. CASE j = s
          <6>1. k + j = (k + r) + 1
            BY <1>2, <1>4, <5>1 DEF s
          <6> QED
            BY <4>1, <4>2, <5>1, <6>1, ZenonT(60)
        <5>2. CASE j # s
          <6>1. j \in 1 .. r
            BY <1>2, <5>2 DEF s
          <6> QED
            BY <4>1, <6>1 DEF Run, k
        <5> QED
          BY <5>1, <5>2
      <4> QED
        BY <4>2, <4>3 DEF Run, k
    <3>7. clean' => Found(op', offset')
      BY <1>2, <2>1, <2>8, <3>4, <3>6, ZenonT(60) DEF Found
    <3>8. clean' => CacheRight(cached', cache') /\ Holds(offset', curclust')
      BY <1>1, <1>2, <2>1, <2>8
    <3>9. FatInv'
      BY <1>1, <1>2, <2>1, <2>8, <3>4, <3>5, <3>7, <3>8, FatInvNext DEF FatTypes
    <3> QED
      BY <2>8, <3>4, <3>9
  <2> QED
    BY <1>7, <2>6, <2>7, <2>8
<1> QED
  BY <1>6, <1>7, ZenonT(60) DEF ReadScan

\* Parts of the file that follow each other.
LEMMA FileJoin ==
    ASSUME layout \in Layouts, NEW a \in Nat, NEW b \in Nat, NEW c \in Nat,
           a <= b, b <= c, c <= layout.size
    PROVE  SubSeq(FileBytes, a + 1, b) \o SubSeq(FileBytes, b + 1, c) = SubSeq(FileBytes, a + 1, c)
<1>1. FileBytes \in Seq(Places) /\ Len(FileBytes) = layout.size
  BY FileIs, ZenonT(60)
<1> QED
  BY <1>1, SubSeqJoin

\* The run is read behind what came before it.
LEMMA ReadLoadInv ==
    ASSUME FatInv, ReadLoad
    PROVE  FatInv'
<1> DEFINE r == op.run
           x == r * BPC
           l == Len(op.got)
           y == op.off + x
           k == op.off \div BPC
<1>1. /\ op.at = "load"
      /\ UNCHANGED <<layout, offset, curclust, cached, cache, fatnum, fatbuf>>
  BY DEF ReadLoad
<1>2. /\ FatTypes /\ layout \in Layouts /\ layout.size \in Nat /\ offset \in Nat
      /\ op \in ReadOps /\ op.got \in Seq(Places) /\ op.act \in Nat /\ op.off \in Nat
      /\ op.clust \in FatEntries /\ op.clust \in Nat /\ op.end \in FatEntries
      /\ op.want \in Nat /\ l \in Nat /\ r \in Nat /\ r > 0
      /\ offset + op.want <= layout.size /\ op.off = offset + l
      /\ op.off % BPC = 0 /\ l + x + op.act = op.want
      /\ clean => /\ FatRight(fatnum, fatbuf) /\ CacheRight(cached, cache)
                  /\ Holds(offset, curclust)
                  /\ op.got = SubSeq(FileBytes, offset + 1, op.off)
  BY <1>1, ReadIs, ZenonT(60)
<1>3. clean => Run(op.off, op.clust, r) /\ op.end = op.clust + r - 1
  BY <1>1 DEF FatInv, Found
<1>4. k \in Nat /\ x \in Nat /\ y \div BPC = k + r /\ y % BPC = 0
  <2> HIDE DEF r
  <2> QED
    BY <1>2, LaterCluster, ZenonT(60)
<1>5. PICK data :
        /\ GetCluster(op.clust, r, FreshMemory(x), data)
        /\ op' = [op EXCEPT !.at = "next", !.then = "loop", !.got = op.got \o data,
                            !.off = op.off + x]
  BY ZenonT(60) DEF ReadLoad
<1>6. /\ data \in [1 .. x -> Places]
      /\ errors' \in Nat /\ clean' \in BOOLEAN /\ (clean' => clean)
      /\ clean' => data = RunBytes(op.clust, r)
  BY <1>2, <1>4, <1>5, FreshIs, ClusterIs, ZenonT(60)
<1> HIDE DEF k, x
<1>7. data \in Seq(Places) /\ Len(data) = x
  BY <1>4, <1>6
<1> DEFINE g == op.got \o data
<1>8. g \in Seq(Places) /\ Len(g) = l + x
  BY <1>2, <1>7, JoinIs, ZenonT(60)
<1>9. y \in Nat /\ y = offset + (l + x) /\ (l + x) + op.act = op.want /\ y <= layout.size
  <2> HIDE DEF l
  <2>1. /\ x \in Nat /\ l \in Nat /\ offset \in Nat /\ op.act \in Nat /\ op.want \in Nat
        /\ layout.size \in Nat
        /\ offset + op.want <= layout.size /\ op.off = offset + l /\ l + x + op.act = op.want
    BY <1>2, <1>4
  <2> QED
    BY <2>1
<1>10. op' = [[[[op EXCEPT !.at = "next"] EXCEPT !.then = "loop"] EXCEPT !.got = g]
                EXCEPT !.off = y]
  BY <1>5
<1> HIDE DEF g, y
<1>11. /\ op' \in ReadOps /\ op'.at = "next"
       /\ op'.got = g /\ op'.act = op.act /\ op'.off = y
       /\ op'.end = op.end /\ op'.want = op.want
  BY <1>2, <1>8, <1>9, <1>10, ZenonT(60) DEF ReadOps
<1>12. Counted(op', offset)
  BY <1>2, <1>4, <1>8, <1>9, <1>11, ZenonT(60) DEF Counted
<1>13. ASSUME clean' PROVE Found(op', offset)
  <2>1. /\ Run(op.off, op.clust, r) /\ op.end = op.clust + r - 1
        /\ op.got = SubSeq(FileBytes, offset + 1, op.off)
    BY <1>2, <1>3, <1>6, <1>13
  <2>2. data = SubSeq(FileBytes, op.off + 1, y)
    <3>1. RunBytes(op.clust, r) = SubSeq(FileBytes, op.off + 1, op.off + r * BPC)
      <4>1. /\ layout \in Layouts /\ op.off \in Nat /\ op.clust \in Nat /\ r \in Nat
            /\ op.off % BPC = 0 /\ op.off + r * BPC <= layout.size
            /\ Run(op.off, op.clust, r)
        BY <1>2, <1>9, <2>1 DEF x, y
      <4> HIDE DEF r
      <4> QED
        BY <4>1, RunIsFile
    <3> QED
      BY <1>6, <1>13, <3>1 DEF x, y
  <2>3. g = SubSeq(FileBytes, offset + 1, y)
    <3>1. layout \in Layouts /\ offset \in Nat /\ op.off \in Nat /\ y \in Nat /\ y <= layout.size
      BY <1>2, <1>9
    <3>2. offset <= op.off /\ op.off <= y
      BY <1>2, <1>4 DEF y
    <3>3. SubSeq(FileBytes, offset + 1, op.off) \o SubSeq(FileBytes, op.off + 1, y)
            = SubSeq(FileBytes, offset + 1, y)
      BY <3>1, <3>2, FileJoin, ZenonT(60)
    <3> QED
      BY <2>1, <2>2, <3>3, ZenonT(60) DEF g
  <2>4. op.end = layout.chain[k + r] /\ k + r > 0
    <3> HIDE DEF r
    <3>1. r \in 1 .. r /\ k + r > 0
      BY <1>2, <1>4
    <3> QED
      BY <2>1, <3>1 DEF Run, k
  <2> QED
    BY <1>4, <1>11, <2>3, <2>4 DEF Found
<1>14. clean' => /\ FatRight(fatnum', fatbuf') /\ CacheRight(cached', cache')
                 /\ Holds(offset', curclust') /\ Found(op', offset')
  BY <1>1, <1>2, <1>6, <1>13
<1>15. Counted(op', offset')
  BY <1>1, <1>12
<1> QED
  BY <1>1, <1>2, <1>6, <1>11, <1>14, <1>15, FatInvNext DEF FatTypes

\* The last step of a read hands out all of it.
LEMMA ReadTailInv ==
    ASSUME FatInv, ReadTail
    PROVE  FatInv' /\ op' = NoCall /\ (clean' => Handed(op.want))
<1> DEFINE l == Len(op.got)
           y == op.off + op.act
           last == SubSeq(cache', 1, op.act)
<1>1. op.at = "loop" /\ op.act < BPC /\ UNCHANGED <<layout, fatnum, fatbuf>>
  BY DEF ReadTail
<1>2. /\ FatTypes /\ layout \in Layouts /\ layout.size \in Nat /\ offset \in Nat
      /\ op.got \in Seq(Places) /\ op.act \in Nat /\ op.off \in Nat
      /\ op.clust \in FatEntries /\ op.clust \in Nat
      /\ op.want \in Nat /\ l \in Nat
      /\ offset + op.want <= layout.size /\ op.off = offset + l
      /\ op.off % BPC = 0 /\ l + op.act = op.want
      /\ clean => /\ FatRight(fatnum, fatbuf) /\ CacheRight(cached, cache)
                  /\ Holds(offset, curclust)
                  /\ op.got = SubSeq(FileBytes, offset + 1, op.off)
  BY <1>1, ReadIs, ZenonT(60)
<1>3. clean => Holds(op.off, op.clust)
  BY <1>1 DEF FatInv, Found
<1>4. /\ y \in Nat /\ y = offset + op.want /\ op.off <= y /\ y < op.off + BPC
      /\ y <= layout.size /\ op.want \in 0 .. layout.size - offset
  <2>1. /\ layout.size \in Nat /\ offset \in Nat /\ op.act \in Nat /\ op.off \in Nat
        /\ op.want \in Nat /\ l \in Nat /\ op.act < BPC
        /\ offset + op.want <= layout.size /\ op.off = offset + l /\ l + op.act = op.want
    BY <1>1, <1>2
  <2> HIDE DEF l
  <2> QED
    BY <2>1, CardIs
<1>5. ClustOffset(op.off) = op.off
  BY <1>2 DEF ClustOffset
<1>6. clean => Holds(y, op.clust)
  <2> HIDE DEF y
  <2> QED
    BY <1>2, <1>3, <1>4, <1>5, HoldsOn
<1>7. ASSUME NEW got, Commit(got, y, op.clust),
             cache' \in [1 .. BPC -> Places], cached' \in FatEntries,
             errors' \in Nat, clean' \in BOOLEAN, clean' => clean,
             clean' => CacheRight(cached', cache') /\ got = SubSeq(FileBytes, offset + 1, y)
      PROVE  FatInv' /\ op' = NoCall /\ (clean' => Handed(op.want))
  <2>1. /\ offset' = y /\ curclust' = op.clust /\ op' = NoCall
        /\ out' = [got |-> got, ok |-> TRUE]
    BY <1>7 DEF Commit
  <2>2. clean' => /\ FatRight(fatnum', fatbuf') /\ CacheRight(cached', cache')
                  /\ Holds(offset', curclust')
    BY <1>1, <1>2, <1>6, <1>7, <2>1, ZenonT(60)
  <2> HIDE DEF y
  <2>3. FatInv'
    BY <1>1, <1>2, <1>4, <1>7, <2>1, <2>2, IdleIs, FatInvNext, ZenonT(60) DEF FatTypes
  <2>4. clean' => Handed(op.want)
    BY <1>4, <1>7, <2>1, ZenonT(60) DEF Handed
  <2> QED
    BY <2>1, <2>3, <2>4
<1>8. ASSUME op.act > 0, GetCluster(op.clust, 1, cache, cache'), cached' = op.clust,
             Commit(op.got \o last, y, op.clust)
      PROVE  FatInv' /\ op' = NoCall /\ (clean' => Handed(op.want))
  <2>1. /\ cache' \in [1 .. BPC -> Places]
        /\ errors' \in Nat /\ clean' \in BOOLEAN /\ (clean' => clean)
        /\ clean' => cache' = RunBytes(op.clust, 1) /\ CacheRight(op.clust, cache')
    BY <1>2, <1>8, CachedIs
  <2>2. ASSUME clean' PROVE op.got \o last = SubSeq(FileBytes, offset + 1, y)
    <3> DEFINE z == op.off % BPC
    <3>1. z = 0 /\ z + 1 = 1 /\ z <= op.act /\ op.act <= BPC /\ op.off < layout.size
      <4>1. z = 0 /\ op.off \in Nat /\ op.act \in Nat /\ layout.size \in Nat
        BY <1>2
      <4>2. op.off + op.act <= layout.size /\ op.act > 0 /\ op.act < BPC
        BY <1>1, <1>4, <1>8
      <4> HIDE DEF z
      <4> QED
        BY <4>1, <4>2, CardIs
    <3>2. /\ layout \in Layouts /\ op.off \in Nat /\ op.clust \in Nat /\ op.act \in Nat
          /\ Holds(op.off, op.clust) /\ ClustOffset(op.off) + op.act <= layout.size
      BY <1>2, <1>3, <1>4, <1>5, <2>1, <2>2
    <3>3. SubSeq(RunBytes(op.clust, 1), z + 1, op.act)
            = SubSeq(FileBytes, op.off + 1, ClustOffset(op.off) + op.act)
      BY <3>1, <3>2, PartOfCluster, ZenonT(60)
    <3>4. last = SubSeq(FileBytes, op.off + 1, y)
      BY <1>5, <2>1, <2>2, <3>1, <3>3, ZenonT(60)
    <3>5. /\ layout \in Layouts /\ offset \in Nat /\ op.off \in Nat /\ y \in Nat
          /\ offset <= op.off /\ op.off <= y /\ y <= layout.size
      BY <1>2, <1>4
    <3> HIDE DEF last, y
    <3>6. SubSeq(FileBytes, offset + 1, op.off) \o SubSeq(FileBytes, op.off + 1, y)
            = SubSeq(FileBytes, offset + 1, y)
      BY <3>5, FileJoin, ZenonT(60)
    <3> QED
      BY <1>2, <2>1, <2>2, <3>4, <3>6, ZenonT(60)
  <2> HIDE DEF last
  <2> QED
    BY <1>2, <1>7, <1>8, <2>1, <2>2, ZenonT(60)
<1>9. ASSUME op.act = 0, Commit(op.got, op.off, op.clust),
             UNCHANGED <<cached, cache, errors, clean>>
      PROVE  FatInv' /\ op' = NoCall /\ (clean' => Handed(op.want))
  <2>1. op.off = y
    BY <1>2, <1>9
  <2>2. clean' => clean /\ CacheRight(cached', cache') /\ op.got = SubSeq(FileBytes, offset + 1, y)
    BY <1>2, <1>9, <2>1
  <2>3. /\ cache' \in [1 .. BPC -> Places] /\ cached' \in FatEntries
        /\ errors' \in Nat /\ clean' \in BOOLEAN
    BY <1>2, <1>9 DEF FatTypes
  <2> QED
    BY <1>7, <1>9, <2>1, <2>2, <2>3
<1> QED
  BY <1>8, <1>9 DEF ReadTail

-----------------------------------------------------------------------------
(* What the reader of the card promises.                                     *)

\* One step of one call.
FatActions(to, n, a) ==
    \/ Reopen \/ SeekRefused(to) \/ SeekInCluster(to) \/ SeekStart(to)
    \/ ReadRefused(n) \/ ReadFirst(n, a) \/ ReadAligned(n, a)
    \/ SeekWalk \/ SeekArrive \/ ReadNext \/ ReadAlign \/ ReadLoop \/ ReadScan \/ ReadLoad
    \/ ReadTail

\* The next-state relation, action by action.
LEMMA ActionIs ==
    ASSUME FatInv, FatFileNext
    PROVE  \E to \in Nat, n \in Nat \ {0}, a \in Nat : FatActions(to, n, a)
<1>1. layout.size \in Nat /\ SECTOR \in Nat \ {0}
  BY LayoutIs, CardIs DEF FatInv, FatTypes
<1>2. CASE Seek
  <2>1. PICK to \in 0 .. layout.size + 1 :
               SeekRefused(to) \/ SeekInCluster(to) \/ SeekStart(to)
    BY <1>2 DEF Seek
  <2>2. to \in Nat /\ 1 \in Nat \ {0}
    BY <1>1, <2>1
  <2> QED
    BY <2>1, <2>2 DEF FatActions
<1>3. CASE Read
  <2>1. PICK n \in 1 .. layout.size + 1 :
               \/ ReadRefused(n)
               \/ \E a \in 0 .. SECTOR - 1 : ReadFirst(n, a) \/ ReadAligned(n, a)
    BY <1>3 DEF Read
  <2>2. n \in Nat \ {0}
    BY <1>1, <2>1
  <2>3. CASE ReadRefused(n)
    BY <2>2, <2>3 DEF FatActions
  <2>4. ASSUME NEW a \in 0 .. SECTOR - 1, ReadFirst(n, a) \/ ReadAligned(n, a)
        PROVE  \E to \in Nat, m \in Nat \ {0}, b \in Nat : FatActions(to, m, b)
    <3>1. a \in Nat
      BY <1>1
    <3> QED
      BY <2>2, <2>4, <3>1 DEF FatActions
  <2> QED
    BY <2>1, <2>3, <2>4
<1>4. CASE Reopen \/ Step
  <2>1. 1 \in Nat \ {0}
    OBVIOUS
  <2> QED
    BY <1>4, <2>1 DEF Step, FatActions
<1> QED
  BY <1>2, <1>3, <1>4 DEF FatFileNext

\* Every step keeps the invariant.
LEMMA FatStep == FatInv /\ [FatFileNext]_fatVars => FatInv'
<1> SUFFICES ASSUME FatInv, [FatFileNext]_fatVars PROVE FatInv'
  OBVIOUS
<1>1. CASE FatFileNext
  <2>1. PICK to \in Nat, n \in Nat \ {0}, a \in Nat : FatActions(to, n, a)
    BY <1>1, ActionIs, ZenonT(60)
  <2> QED
    BY <2>1, ReopenInv, SeekRefusedInv, SeekInClusterInv, SeekStartInv, ReadRefusedInv,
       ReadFirstInv, ReadAlignedInv, SeekWalkInv, SeekArriveInv, ReadNextInv, ReadAlignInv,
       ReadLoopInv, ReadScanInv, ReadLoadInv, ReadTailInv DEF FatActions
<1>2. CASE UNCHANGED fatVars
  BY <1>2, FatInvNext DEF fatVars, FatInv, FatTypes
<1> QED
  BY <1>1, <1>2

\* The invariant holds in every behaviour.
LEMMA FatInvariance == FatFileSpec => []FatInv
  BY FatStart, FatStep, PTL DEF FatFileSpec

\* Between two calls the current cluster is the one that holds the position:
\* what do_fat_fseek leaves for do_fat_fread to start from.
THEOREM AtClusterSafe == FatFileSpec => []AtCluster
<1>1. FatInv => AtCluster
  BY DEF FatInv, AtCluster, Holds
<1> QED
  BY <1>1, FatInvariance, PTL

\* A read of the plain file.
LEMMA HandedIs ==
    ASSUME layout \in Layouts, offset \in Nat, NEW n, Handed(n), layout' = layout
    PROVE  /\ n \in Nat /\ out'.ok /\ Len(out'.got) = n
           /\ out'.got = SubSeq(FileBytes, offset + 1, offset + n)
           /\ SeqF!Read
<1>1. /\ FileBytes \in Seq(Places) /\ Len(FileBytes) = layout.size /\ layout.size \in Nat
      /\ FileBytes' = FileBytes
  BY FileIs, LayoutIs, FileStays, ZenonT(60)
<1>2. /\ n \in 0 .. layout.size - offset /\ offset' = offset + n
      /\ out' = [got |-> SubSeq(FileBytes, offset + 1, offset + n), ok |-> TRUE]
  BY DEF Handed
<1>3. n \in Nat /\ offset + n \in Nat /\ offset <= offset + n /\ offset + n <= layout.size
  BY <1>1, <1>2
<1> DEFINE e == offset + n
<1>4. Len(SubSeq(FileBytes, offset + 1, e)) = e - offset
  <2>1. e \in Nat /\ offset <= e /\ e <= Len(FileBytes)
    BY <1>1, <1>3
  <2> HIDE DEF e
  <2> QED
    BY <1>1, <2>1, SubSeqIs
<1>5. e - offset = n
  BY <1>3
<1>6. SeqF!Read
  BY <1>1, <1>2, ZenonT(60) DEF SeqF!Read
<1> QED
  BY <1>2, <1>3, <1>4, <1>5, <1>6, ZenonT(60)

\* Without a failure of the card every step is one of the plain file, or none.
LEMMA PlainStep ==
    ASSUME FatInv, [FatFileNext]_fatVars, clean'
    PROVE  SeqF!Next \/ UNCHANGED SeqF!vars
<1>1. layout \in Layouts /\ layout.size \in Nat /\ offset \in Nat
  BY LayoutIs DEF FatInv, FatTypes
<1>2. layout' = layout => FileBytes' = FileBytes /\ Len(FileBytes) = layout.size
  BY <1>1, FileIs, FileStays
<1>3. UNCHANGED <<layout, offset, out>> => UNCHANGED SeqF!vars
  BY <1>2 DEF SeqF!vars
<1>4. UNCHANGED fatVars => UNCHANGED <<layout, offset, out>>
  BY DEF fatVars
<1>5. ASSUME FatFileNext PROVE SeqF!Next \/ UNCHANGED SeqF!vars
  <2>1. PICK to \in Nat, n \in Nat \ {0}, a \in Nat : FatActions(to, n, a)
    BY <1>5, ActionIs
  <2>2. Reopen => SeqF!Open
    BY <1>2 DEF Reopen, Done, SeqF!Open, SeqF!Done
  <2>3. SeekRefused(to) => SeqF!Refuse
    BY <1>2 DEF SeekRefused, Refused, SeqF!Refuse, SeqF!Refused
  <2>4. SeekInCluster(to) => SeqF!Seek
    BY <1>1, <1>2 DEF SeekInCluster, Done, SeqF!Seek, SeqF!Done
  <2>5. SeekStart(to) \/ ReadAligned(n, a) \/ SeekWalk \/ ReadLoop \/ ReadLoad
          => UNCHANGED <<layout, offset, out>>
    BY ZenonT(60) DEF SeekStart, ReadAligned, SeekWalk, ReadLoop, ReadLoad
  <2>6. ReadRefused(n) => SeqF!Refuse
    BY <1>2 DEF ReadRefused, GiveUp, Refused, SeqF!Refuse, SeqF!Refused
  <2>7. ReadFirst(n, a) => SeqF!Read \/ UNCHANGED <<layout, offset, out>>
    <3> SUFFICES ASSUME ReadFirst(n, a) PROVE SeqF!Read \/ UNCHANGED <<layout, offset, out>>
      OBVIOUS
    <3>1. CASE n < BPC - (offset % BPC)
      <4>1. Handed(n) /\ layout' = layout
        BY <3>1, ReadFirstInv, ZenonT(60) DEF ReadFirst
      <4> QED
        BY <1>1, <4>1, HandedIs, ZenonT(60)
    <3>2. CASE ~(n < BPC - (offset % BPC))
      BY <3>2 DEF ReadFirst
    <3> QED
      BY <3>1, <3>2
  <2>8. SeekArrive => SeqF!Seek
    <3> SUFFICES ASSUME SeekArrive PROVE SeqF!Seek
      OBVIOUS
    <3>1. op.at = "seek" /\ op \in SeekOps
      BY OpIs, ZenonT(60) DEF SeekArrive, FatInv
    <3>2. op.to \in 0 .. layout.size
      BY <1>1, <3>1 DEF FatInv, Counted, SeekOps
    <3> QED
      BY <1>2, <3>2 DEF SeekArrive, Done, SeqF!Seek, SeqF!Done
  <2>9. ReadNext => UNCHANGED <<layout, offset, out>>
    BY ReadNextInv, ZenonT(60) DEF ReadNext
  <2>10. ReadScan => UNCHANGED <<layout, offset, out>>
    BY ReadScanInv, ZenonT(60) DEF ReadScan
  <2>11. ReadAlign => SeqF!Refuse \/ UNCHANGED <<layout, offset, out>>
    BY <1>2 DEF ReadAlign, GiveUp, Refused, SeqF!Refuse, SeqF!Refused
  <2>12. ReadTail => SeqF!Read
    <3> SUFFICES ASSUME ReadTail PROVE SeqF!Read
      OBVIOUS
    <3>1. Handed(op.want) /\ layout' = layout
      BY ReadTailInv, ZenonT(60) DEF ReadTail
    <3> QED
      BY <1>1, <3>1, HandedIs
  <2>13. \/ SeqF!Open \/ SeqF!Seek \/ SeqF!Read \/ SeqF!Refuse
         \/ UNCHANGED <<layout, offset, out>>
    BY <2>1, <2>2, <2>3, <2>4, <2>5, <2>6, <2>7, <2>8, <2>9, <2>10, <2>11, <2>12, Zenon
       DEF FatActions
  <2> QED
    BY <1>3, <2>13 DEF SeqF!Next
<1> QED
  BY <1>3, <1>4, <1>5

\* A step of the plain file hands out the bytes that follow the position.
LEMMA PlainBytes ==
    ASSUME FatInv, SeqF!Next \/ UNCHANGED SeqF!vars, out' # out
    PROVE  out'.got = SubSeq(FileBytes, offset + 1, offset + Len(out'.got))
<1>1. layout \in Layouts /\ layout.size \in Nat /\ offset \in Nat
  BY LayoutIs, ZenonT(60) DEF FatInv, FatTypes
<1>2. FileBytes \in Seq(Places) /\ Len(FileBytes) = layout.size
  BY <1>1, FileIs, ZenonT(60)
<1>3. CASE SeqF!Read
  <2>1. PICK n \in 0 .. (Len(FileBytes) - offset) :
               out' = [got |-> SubSeq(FileBytes, offset + 1, offset + n), ok |-> TRUE]
    BY <1>3, ZenonT(60) DEF SeqF!Read
  <2> DEFINE e == offset + n
  <2>2. e \in Nat /\ offset <= e /\ e <= Len(FileBytes) /\ n = e - offset
    BY <1>1, <1>2, <2>1
  <2>3. out'.got = SubSeq(FileBytes, offset + 1, e)
    BY <2>1, ZenonT(60)
  <2> HIDE DEF e
  <2>4. Len(SubSeq(FileBytes, offset + 1, e)) = e - offset
    BY <1>1, <1>2, <2>2, SubSeqIs
  <2>5. offset + (e - offset) = e
    BY <1>1, <2>2
  <2> QED
    BY <2>3, <2>4, <2>5, ZenonT(60)
<1>4. CASE SeqF!Open \/ SeqF!Seek \/ SeqF!Refuse
  <2>1. out'.got = <<>>
    BY <1>4 DEF SeqF!Open, SeqF!Seek, SeqF!Refuse, SeqF!Done, SeqF!Refused
  <2>2. SubSeq(FileBytes, offset + 1, offset) = <<>>
    BY <1>1, <1>2
  <2>3. Len(out'.got) = 0 /\ offset + Len(out'.got) = offset
    BY <1>1, <2>1
  <2> QED
    BY <2>1, <2>2, <2>3, ZenonT(60)
<1> QED
  BY <1>3, <1>4 DEF SeqF!Next, SeqF!vars

\* A read hands out the bytes of the file that follow the position, whatever
\* seeks and reads came before it, as long as do_fat_fopen was not followed by a
\* failed read of the card: through fragmented chains, runs and both caches.
THEOREM RightBytesSafe == FatFileSpec => RightBytes
<1>1. FatInv /\ [FatFileNext]_fatVars
        => [ (out' # out /\ clean')
               => out'.got = SubSeq(FileBytes, offset + 1, offset + Len(out'.got)) ]_fatVars
  BY PlainStep, PlainBytes
<1> QED
  BY <1>1, FatInvariance, PTL DEF FatFileSpec, RightBytes

\* One step of a read that ends it.
LEMMA WholeStep ==
    ASSUME FatInv, FatFileNext, op.at \notin {"idle", "seek"}, op' = NoCall, clean'
    PROVE  \/ out'.ok /\ Len(out'.got) = op.want
           \/ ~out'.ok /\ op.at = "align" /\ (op.addr + Len(op.got)) % SECTOR # 0
<1>1. PICK to \in Nat, n \in Nat \ {0}, a \in Nat : FatActions(to, n, a)
  BY ActionIs
<1>2. op # NoCall /\ op'.at = "idle" /\ op.at # "seek" /\ layout \in Layouts /\ offset \in Nat
  BY OpIs, ZenonT(60) DEF FatInv, FatTypes, NoCall
<1>3. ~(\/ Reopen \/ SeekRefused(to) \/ SeekInCluster(to) \/ SeekStart(to)
        \/ ReadRefused(n) \/ ReadFirst(n, a) \/ ReadAligned(n, a) \/ SeekWalk \/ SeekArrive)
  BY <1>2, ZenonT(60) DEF Reopen, SeekRefused, SeekInCluster, SeekStart, ReadRefused, ReadFirst,
              ReadAligned, SeekWalk, SeekArrive
<1>4. ~(ReadNext \/ ReadScan)
  BY <1>2, ReadNextInv, ReadScanInv
<1>5. ~ReadLoop
  <2> SUFFICES ASSUME ReadLoop PROVE FALSE
    OBVIOUS
  <2>1. op \in ReadOps
    BY OpIs DEF FatInv, ReadLoop
  <2>2. op'.at = "scan"
    BY <2>1 DEF ReadLoop, ReadOps
  <2> QED
    BY <1>2, <2>2
<1>6. ~ReadLoad
  <2> SUFFICES ASSUME ReadLoad PROVE FALSE
    OBVIOUS
  <2>1. op \in ReadOps
    BY OpIs, ZenonT(60) DEF FatInv, ReadLoad
  <2>2. PICK data : op' = [op EXCEPT !.at = "next", !.then = "loop", !.got = op.got \o data,
                                     !.off = op.off + op.run * BPC]
    BY ZenonT(60) DEF ReadLoad
  <2>3. op'.at = "next"
    BY <2>1, <2>2 DEF ReadOps
  <2> QED
    BY <1>2, <2>3
<1>7. CASE ReadAlign
  <2>1. op.at = "align" /\ op \in ReadOps
    BY <1>7, OpIs DEF FatInv, ReadAlign
  <2>2. op' # [op EXCEPT !.at = "loop"]
    BY <1>2, <2>1 DEF ReadOps
  <2> QED
    BY <1>7, <2>1, <2>2 DEF ReadAlign, GiveUp, Refused
<1>8. CASE ReadTail
  <2>1. Handed(op.want) /\ layout' = layout
    BY <1>8, ReadTailInv, ZenonT(60) DEF ReadTail
  <2> QED
    BY <1>2, <2>1, HandedIs
<1> QED
  BY <1>1, <1>3, <1>4, <1>5, <1>6, <1>7, <1>8, Zenon DEF FatActions

\* A read that fits in the file is handed out whole, and refused only where the
\* caller's memory is not aligned: do_fat_fread never takes the end of a chain,
\* or a stale entry of the FAT, for the end of the data.
THEOREM WholeReadsSafe == FatFileSpec => WholeReads
<1>1. FatInv /\ [FatFileNext]_fatVars
        => [ (op.at \notin {"idle", "seek"} /\ op' = NoCall /\ clean')
               => \/ out'.ok /\ Len(out'.got) = op.want
                  \/ ~out'.ok /\ op.at = "align" /\ (op.addr + Len(op.got)) % SECTOR # 0 ]_fatVars
  BY WholeStep
<1> QED
  BY <1>1, FatInvariance, PTL DEF FatFileSpec, WholeReads

\* A card that never fails.
LEMMA NoFailure ==
    ASSUME MaxErrors = 0, FatInv, clean, [FatFileNext]_fatVars
    PROVE  clean'
<1>1. ~(errors < MaxErrors)
  BY DEF FatInv, FatTypes
<1>2. ASSUME NEW c, NEW entry, GetFatent(c, entry) PROVE clean'
  BY <1>1, <1>2, ZenonT(60) DEF GetFatent
<1>3. ASSUME NEW c, NEW n, NEW old, NEW new, GetCluster(c, n, old, new) PROVE clean'
  BY <1>1, <1>3, ZenonT(60) DEF GetCluster
<1>4. CASE UNCHANGED fatVars
  BY <1>4 DEF fatVars
<1>5. CASE FatFileNext
  <2>1. PICK to \in Nat, n \in Nat \ {0}, a \in Nat : FatActions(to, n, a)
    BY <1>5, ActionIs
  <2>2. (\/ Reopen \/ SeekRefused(to) \/ SeekInCluster(to) \/ SeekStart(to) \/ ReadRefused(n)
         \/ ReadAligned(n, a) \/ ReadAlign \/ ReadLoop)
          => clean'
    BY ZenonT(60) DEF Reopen, SeekRefused, SeekInCluster, SeekStart, ReadRefused, ReadAligned,
           ReadAlign, ReadLoop
  <2>3. ReadFirst(n, a) \/ SeekArrive \/ ReadTail => clean'
    BY <1>3, ZenonT(60) DEF ReadFirst, SeekArrive, ReadTail
  <2>4. ReadLoad => clean'
    BY <1>3, ZenonT(60) DEF ReadLoad
  <2>5. SeekWalk \/ ReadNext \/ ReadScan => clean'
    BY <1>2, ZenonT(60) DEF SeekWalk, ReadNext, ReadScan
  <2> QED
    BY <2>1, <2>2, <2>3, <2>4, <2>5, Zenon DEF FatActions
<1> QED
  BY <1>4, <1>5

\* On a card that does not fail, the reader implements the plain file of SeqFile:
\* do_fat_fopen, do_fat_fseek and do_fat_fread are its Open, Seek and Read, and
\* the walks through the FAT and the fills of the caches are invisible.
THEOREM PlainFile ==
    ASSUME MaxErrors = 0
    PROVE  FatFileSpec => ImplementsSeqFile
<1>1. FatFileInit => FatInv /\ clean
  BY FatStart DEF FatFileInit
<1>2. (FatInv /\ clean) /\ [FatFileNext]_fatVars => (FatInv /\ clean)'
  BY FatStep, NoFailure
<1>3. FatFileInit => SeqF!Init
  BY DEF FatFileInit, SeqF!Init, Done, SeqF!Done
<1>4. (FatInv /\ clean) /\ (FatInv /\ clean)' /\ [FatFileNext]_fatVars => [SeqF!Next]_(SeqF!vars)
  BY PlainStep
<1> QED
  BY <1>1, <1>2, <1>3, <1>4, PTL DEF FatFileSpec, ImplementsSeqFile, SeqF!Spec
=============================================================================
