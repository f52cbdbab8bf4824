-------------------------- MODULE SparseImageProofs --------------------------
(***************************************************************************)
(* Proofs about the sparse image parser, for every image, every size of    *)
(* window, slot, block and fill buffer, and every place a window may be    *)
(* cut at.                                                                 *)
(***************************************************************************)
EXTENDS SparseImage, TLAPS, WellFoundedInduction

-----------------------------------------------------------------------------
(* Induction over the natural numbers, for sets.                            *)

(* A set of natural numbers that is not empty has a least element.           *)
LEMMA Least ==
    ASSUME NEW T \in SUBSET Nat, T # {}
    PROVE  \E x \in T : \A y \in T : x <= y
<1> DEFINE R == OpToRel(<, Nat)
<1>1. IsWellFoundedOn(R, Nat)
  BY NatLessThanWellFounded, Zenon
<1>2. \A y, x \in Nat : y < x => <<y, x>> \in R
  BY DEF OpToRel
<1> HIDE DEF R
<1>3. PICK x \in T : \A y \in T : ~ (<<y, x>> \in R)
  BY <1>1, WFMin, Zenon
<1>4. ASSUME NEW y \in T PROVE x <= y
  <2>1. x \in Nat /\ y \in Nat /\ ~(y < x)
    BY <1>2, <1>3, Zenon
  <2> QED
    BY <2>1
<1> QED
  BY <1>3, <1>4

(* A set that holds 0 and with every number the next one holds them all.    *)
LEMMA Induct ==
    ASSUME NEW S, 0 \in S, \A n \in Nat : n \in S => n + 1 \in S
    PROVE  Nat \subseteq S
<1> DEFINE T == Nat \ S
<1> SUFFICES ASSUME T # {} PROVE FALSE
  OBVIOUS
<1>1. PICK x \in T : \A y \in T : x <= y
  BY Least, Zenon
<1>2. x # 0 /\ x - 1 \in Nat /\ x - 1 \in S
  BY <1>1
<1> QED
  BY <1>1, <1>2

-----------------------------------------------------------------------------
(* Multiples and remainders.                                                *)

(* Multiples of a positive number are ordered as their factors are.         *)
LEMMA MulOrder ==
    ASSUME NEW a \in Int, NEW b \in Int, NEW w \in Nat \ {0}
    PROVE  (a < b => a * w + w <= b * w) /\ (a * w < b * w => a < b)
<1>1. ASSUME NEW c \in Int, NEW d \in Int, c < d PROVE c * w + w <= d * w
  <2>1. (d - c) * w >= w
    BY <1>1, SMT
  <2> QED BY <2>1, SMT
<1>2. ASSUME a * w < b * w PROVE a < b
  <2>1. CASE b < a
    <3>1. b * w + w <= a * w
      BY <1>1, <2>1
    <3> QED BY <3>1, <1>2
  <2> QED BY <2>1, <1>2
<1> QED BY <1>1, <1>2

(* A remainder is determined by the decomposition it belongs to.            *)
LEMMA ModUnique ==
    ASSUME NEW q \in Int, NEW w \in Nat \ {0}, NEW r \in 0..(w - 1)
    PROVE  (q * w + r) % w = r
<1> DEFINE x == q * w + r
           d == x \div w
           m == x % w
<1>1. x \in Int
  OBVIOUS
<1>2. d \in Int /\ m \in 0..(w - 1) /\ x = d * w + m
  BY <1>1, SMT
<1>3. CASE q > d
  <2>1. d * w + w <= q * w
    BY <1>2, <1>3, MulOrder
  <2> QED BY <2>1, <1>2
<1>4. CASE d > q
  <2>1. q * w + w <= d * w
    BY <1>2, <1>4, MulOrder
  <2> QED BY <2>1, <1>2
<1>5. CASE q = d
  BY <1>2, <1>5, SMT
<1> QED BY <1>2, <1>3, <1>4, <1>5

(* A number below w is its own remainder.                                   *)
LEMMA ModSmall ==
    ASSUME NEW w \in Nat \ {0}, NEW x \in 0..(w - 1)
    PROVE  x % w = x
<1>1. (0 * w + x) % w = x
  BY ModUnique
<1> QED BY <1>1

(* What is left of n words after whole slots is less than a slot.            *)
LEMMA AlignedBound ==
    ASSUME NEW n \in Nat, Slot \in Nat \ {0}
    PROVE  Aligned(n) \in 0..n /\ n - Aligned(n) < Slot
<1>1. n \div Slot \in Int /\ n % Slot \in 0..(Slot - 1) /\ n = (n \div Slot) * Slot + (n % Slot)
  BY SMT
<1>2. n \div Slot >= 0
  <2>1. CASE n \div Slot < 0
    <3>1. (n \div Slot) * Slot + Slot <= 0 * Slot
      BY <1>1, <2>1, MulOrder
    <3> QED BY <3>1, <1>1
  <2> QED BY <2>1, <1>1
<1> QED BY <1>1, <1>2 DEF Aligned

(* The unsigned count one below 0.                                           *)
LEMMA WrapsOnce ==
    ASSUME NEW w \in Nat \ {0}
    PROVE  (-1) % w = w - 1
<1>1. ((-1) * w + (w - 1)) % w = w - 1
  BY ModUnique
<1> QED BY <1>1

-----------------------------------------------------------------------------
(* The offsets of an image.                                                  *)

(* f adds up the first m costs, from a on.                                   *)
AddsUp(f, cost, a, m) ==
    f = [i \in 1..(m + 1) |-> IF i = 1 THEN a ELSE f[i - 1] + cost[i - 1]]

(* The costs of a sequence can be added up as far as one likes.              *)
LEMMA SumExists ==
    ASSUME NEW cost, NEW a
    PROVE  \A m \in Nat : \E f : AddsUp(f, cost, a, m)
<1> DEFINE S == {m \in Nat : \E f : AddsUp(f, cost, a, m)}
<1>1. 0 \in S
  <2> DEFINE f == [i \in 1..1 |-> a]
  <2>1. f = [i \in 1..(0 + 1) |-> IF i = 1 THEN a ELSE f[i - 1] + cost[i - 1]]
    OBVIOUS
  <2>2. AddsUp(f, cost, a, 0)
    BY <2>1 DEF AddsUp
  <2> QED
    BY <2>2
<1>2. ASSUME NEW m \in Nat, m \in S PROVE m + 1 \in S
  <2>1. PICK f : AddsUp(f, cost, a, m)
    BY <1>2
  <2> DEFINE g == [i \in 1..(m + 2) |-> IF i = m + 2 THEN f[m + 1] + cost[m + 1] ELSE f[i]]
  <2>2. \A i \in 1..(m + 1) : f[i] = IF i = 1 THEN a ELSE f[i - 1] + cost[i - 1]
    BY <2>1 DEF AddsUp
  <2>3. g = [i \in 1..((m + 1) + 1) |-> IF i = 1 THEN a ELSE g[i - 1] + cost[i - 1]]
    BY <2>2
  <2> HIDE DEF g
  <2> QED
    BY <2>3 DEF AddsUp
<1> HIDE DEF S
<1>3. Nat \subseteq S
  BY <1>1, <1>2, Induct
<1> QED
  BY <1>3 DEF S

(* SumsOf adds up.                                                           *)
LEMMA SumsAddUp ==
    ASSUME NEW n \in Nat, NEW a, NEW cost
    PROVE  AddsUp(SumsOf(n, a, cost), cost, a, n)
<1>1. PICK f : AddsUp(f, cost, a, n)
  BY SumExists, Zenon
<1>2. f = [i \in 1..(n + 1) |-> IF i = 1 THEN a ELSE f[i - 1] + cost[i - 1]]
  BY <1>1, Zenon DEF AddsUp
<1> QED
  BY <1>2, Zenon DEF SumsOf, AddsUp

(* Sizes of a chunk.                                                         *)
LEMMA ChunkSizes ==
    ASSUME NEW c \in Chunks
    PROVE  /\ ChunkDataLen(c) \in Nat /\ TotalSz(c) \in Nat /\ TotalSz(c) >= ChunkHead
           /\ c.type = "raw" => TotalSz(c) = ChunkHead + ChunkDataLen(c)
           /\ c.type = "fill" => TotalSz(c) = ChunkHead + 1
           /\ c.type \notin {"raw", "fill"} => TotalSz(c) = ChunkHead
           /\ c.type \in {"raw", "fill", "dontcare", "bad"} /\ c.val \in Int
<1>1. Blk \in Nat \ {0} /\ ChunkHead \in Nat \ {0} /\ U32 \in Nat \ {0}
  BY SparseAssumption
<1>2. c.blks \in Nat /\ c.type \in {"raw", "fill", "dontcare", "bad"} /\ c.val \in Int
  BY DEF Chunks
<1>3. c.blks * Blk \in Nat
  BY <1>1, <1>2
<1>4. ChunkDataLen(c) \in Nat
  BY <1>1, <1>3 DEF ChunkDataLen, DataLen
<1> QED
  BY <1>1, <1>2, <1>4 DEF TotalSz, FillSz

(* The recursion of HeadsOf and AddrsOf.                                     *)
LEMMA OffsetsUnfold ==
    ASSUME NEW im, im \in Seq(Chunks)
    PROVE  /\ HeadsOf(im) = [i \in 1..(Len(im) + 1) |->
                IF i = 1 THEN FileHead ELSE HeadsOf(im)[i - 1] + TotalSz(im[i - 1])]
           /\ AddrsOf(im) = [i \in 1..(Len(im) + 1) |->
                IF i = 1 THEN 0 ELSE AddrsOf(im)[i - 1] + ChunkDataLen(im[i - 1])]
<1>1. Len(im) \in Nat
  OBVIOUS
<1> DEFINE T == [i \in 1..Len(im) |-> TotalSz(im[i])]
           L == [i \in 1..Len(im) |-> ChunkDataLen(im[i])]
<1>2. AddsUp(HeadsOf(im), T, FileHead, Len(im)) /\ AddsUp(AddrsOf(im), L, 0, Len(im))
  <2> HIDE DEF T, L
  <2>1. /\ AddsUp(SumsOf(Len(im), FileHead, T), T, FileHead, Len(im))
        /\ AddsUp(SumsOf(Len(im), 0, L), L, 0, Len(im))
    BY <1>1, SumsAddUp, Zenon
  <2> QED
    BY <2>1, Zenon DEF HeadsOf, AddrsOf, T, L
<1>3. \A i \in 1..(Len(im) + 1) : i # 1 => /\ T[i - 1] = TotalSz(im[i - 1])
                                          /\ L[i - 1] = ChunkDataLen(im[i - 1])
  BY <1>1
<1> HIDE DEF T, L
<1> DEFINE h == HeadsOf(im)
           a == AddrsOf(im)
<1>4. /\ h = [i \in 1..(Len(im) + 1) |-> IF i = 1 THEN FileHead ELSE h[i - 1] + T[i - 1]]
      /\ a = [i \in 1..(Len(im) + 1) |-> IF i = 1 THEN 0 ELSE a[i - 1] + L[i - 1]]
  BY <1>2, Zenon DEF AddsUp
<1> HIDE DEF h, a
<1>5. /\ h = [i \in 1..(Len(im) + 1) |-> IF i = 1 THEN FileHead ELSE h[i - 1] + TotalSz(im[i - 1])]
      /\ a = [i \in 1..(Len(im) + 1) |-> IF i = 1 THEN 0 ELSE a[i - 1] + ChunkDataLen(im[i - 1])]
  BY <1>3, <1>4
<1> QED
  BY <1>5, Zenon DEF h, a

(* What the proofs use of an image: its offsets h in the image and a on the  *)
(* medium are numbers that grow by the sizes of the chunks.                  *)
Laid(im, h, a) ==
    /\ Len(im) \in Nat
    /\ \A i \in 1..(Len(im) + 1) : h[i] \in Nat /\ a[i] \in Nat
    /\ h[1] = FileHead /\ a[1] = 0 /\ a[Len(im) + 1] <= MaxAddr
    /\ \A i \in 1..Len(im) : /\ im[i] \in Chunks
                             /\ h[i + 1] = h[i] + TotalSz(im[i])
                             /\ a[i + 1] = a[i] + ChunkDataLen(im[i])
    /\ \A i, j \in 1..(Len(im) + 1) : i <= j => h[i] <= h[j] /\ a[i] <= a[j]

(* Offsets grow along every image.                                           *)
LEMMA ImagesLaid ==
    ASSUME NEW im \in Images
    PROVE  Laid(im, HeadsOf(im), AddrsOf(im))
<1> DEFINE h == HeadsOf(im)
           a == AddrsOf(im)
           n == Len(im)
<1>1. im \in Seq(Chunks) /\ a[n + 1] <= MaxAddr /\ FileHead \in Nat
  BY SparseAssumption
<1>2. n \in Nat /\ \A i \in 1..n : im[i] \in Chunks
  BY <1>1
<1>3. /\ h = [i \in 1..(n + 1) |-> IF i = 1 THEN FileHead ELSE h[i - 1] + TotalSz(im[i - 1])]
      /\ a = [i \in 1..(n + 1) |-> IF i = 1 THEN 0 ELSE a[i - 1] + ChunkDataLen(im[i - 1])]
  BY <1>1, OffsetsUnfold
<1> HIDE DEF h, a, n
<1>4. h[1] = FileHead /\ a[1] = 0
  BY <1>2, <1>3
<1>5. ASSUME NEW i \in 1..n
      PROVE  h[i + 1] = h[i] + TotalSz(im[i]) /\ a[i + 1] = a[i] + ChunkDataLen(im[i])
  <2>1. i + 1 \in 1..(n + 1) /\ i + 1 # 1 /\ (i + 1) - 1 = i
    BY <1>2
  <2> QED
    BY <1>3, <2>1, ZenonT(60)
<1>6. \A i \in 1..n : ChunkDataLen(im[i]) \in Nat /\ TotalSz(im[i]) \in Nat
  BY <1>2, ChunkSizes
<1> DEFINE G == {m \in Nat : m <= n => \A i \in 1..(m + 1) : /\ h[i] \in Nat /\ a[i] \in Nat
                                                          /\ h[i] <= h[m + 1] /\ a[i] <= a[m + 1]}
<1>7. 0 \in G
  BY <1>1, <1>4
<1>8. ASSUME NEW m \in Nat, m \in G PROVE m + 1 \in G
  <2> SUFFICES ASSUME m + 1 <= n
               PROVE  \A i \in 1..(m + 2) : /\ h[i] \in Nat /\ a[i] \in Nat
                                            /\ h[i] <= h[m + 2] /\ a[i] <= a[m + 2]
    OBVIOUS
  <2>0. m + 1 \in 1..n /\ (m + 1) + 1 = m + 2
    BY <1>2
  <2>1. h[m + 2] = h[m + 1] + TotalSz(im[m + 1]) /\ a[m + 2] = a[m + 1] + ChunkDataLen(im[m + 1])
    BY <1>5, <2>0
  <2>2. \A i \in 1..(m + 1) : /\ h[i] \in Nat /\ a[i] \in Nat
                              /\ h[i] <= h[m + 1] /\ a[i] <= a[m + 1]
    BY <1>2, <1>8, <2>0
  <2>3. h[m + 2] \in Nat /\ a[m + 2] \in Nat /\ h[m + 1] <= h[m + 2] /\ a[m + 1] <= a[m + 2]
    BY <1>6, <2>0, <2>1, <2>2
  <2>4. ASSUME NEW i \in 1..(m + 2)
        PROVE  h[i] \in Nat /\ a[i] \in Nat /\ h[i] <= h[m + 2] /\ a[i] <= a[m + 2]
    <3>1. CASE i = m + 2
      BY <2>3, <3>1
    <3>2. CASE i \in 1..(m + 1)
      <4>1. m + 1 \in 1..(m + 1)
        OBVIOUS
      <4> QED
        BY <2>2, <2>3, <3>2, <4>1
    <3> QED
      BY <3>1, <3>2
  <2> QED
    BY <2>4
<1> HIDE DEF G
<1>9. Nat \subseteq G
  BY <1>7, <1>8, Induct
<1>10. ASSUME NEW j \in 1..(n + 1)
       PROVE  /\ h[j] \in Nat /\ a[j] \in Nat
              /\ \A i \in 1..j : h[i] <= h[j] /\ a[i] <= a[j]
  <2>1. j - 1 \in Nat /\ j - 1 <= n /\ (j - 1) + 1 = j
    BY <1>2
  <2> QED
    BY <1>9, <2>1 DEF G
<1>11. ASSUME NEW i \in 1..(n + 1), NEW j \in 1..(n + 1), i <= j
       PROVE  h[i] <= h[j] /\ a[i] <= a[j]
  <2>1. i \in 1..j
    BY <1>2, <1>11
  <2> QED
    BY <1>10, <2>1
<1> QED
  BY <1>1, <1>2, <1>4, <1>5, <1>10, <1>11 DEF Laid, h, a, n

-----------------------------------------------------------------------------
(* The inductive invariant, in four parts: where the parser is, the fill     *)
(* buffer, the medium, and what the verification hashed.                     *)

(* The most a call leaves behind, and a little more.                         *)
MaxLeft == IF Slot > ChunkHead THEN Slot ELSE ChunkHead

(* The first word of the image the parser has not taken.                     *)
Taken == HeadAt[Cur] - notWrBackSz4LongChunk

(* The parser took the value of a fill chunk that was not received.          *)
Wrapped == Taken = to + 1

Types ==
    /\ TypeOK
    /\ media \in [0..(MaxAddr - 1) -> Int]
    /\ fillValBuf \in [0..(FillBufSz - 1) -> Int]

(* Before the first call nothing is known of an image.                       *)
Fresh == pc = "idle" /\ to = 0
FreshInv ==
    Fresh => /\ from = 0 /\ nextMediaOffset = 0
             /\ media = [a \in 0..(MaxAddr - 1) |-> IF erased THEN Erased ELSE Garbage]

Parsing == pc \in {"long", "chunks"} \/ (pc = "idle" /\ to > 0)

(* A long chunk that is open is the last one parsed, and its rest belongs    *)
(* right before the next chunk, in the image and on the medium.              *)
LongInv ==
    notWrBackSz4LongChunk > 0 =>
        /\ leftChunkNum < Len(img) /\ img[Cur - 1].type = "raw"
        /\ notWrBackSz4LongChunk <= ChunkDataLen(img[Cur - 1])
        /\ nextFlashAddr4LastLongChunk + notWrBackSz4LongChunk = AddrOf[Cur]

(* What was taken ends in the window, or one word behind it; the window is   *)
(* small, and ends with the image unless it was padded.                      *)
WindowInv ==
    /\ to > 0 /\ from <= Taken /\ Taken <= to + 1 /\ to - from < Window + MaxLeft
    /\ to > ImgSz => "padded" \in faults
    /\ backChunkNum = Len(img) - leftChunkNum /\ chunkOffset = 0

(* Between two calls.                                                        *)
AtIdle ==
    /\ Taken = from /\ nextMediaOffset = AddrOf[Cur] /\ from <= to /\ to <= ImgSz
    /\ from < ImgSz => to - from < MaxLeft

(* A call that starts inside a long chunk.                                   *)
AtLong ==
    /\ notWrBackSz4LongChunk > 0 /\ Taken = from /\ from <= to /\ unParsedBufLen = to - from
    /\ flashAddrStart = AddrOf[Cur] /\ nextMediaOffset = AddrOf[Cur]

(* Before a chunk, or after the last one that can be taken.                  *)
AtChunks ==
    /\ flashAddrStart = AddrOf[Cur] /\ pChunk = HeadAt[Cur]
    /\ Wrapped => unParsedBufLen = U32 - 1 /\ notWrBackSz4LongChunk = 0 /\ "fillCut" \in faults
    /\ ~Wrapped => unParsedBufLen = to - Taken
    /\ notWrBackSz4LongChunk > 0 => to - Taken < Slot /\ to < HeadAt[Cur]

PlaceInv ==
    Parsing => /\ LongInv /\ WindowInv
               /\ pc = "idle" => AtIdle
               /\ pc = "long" => AtLong
               /\ pc = "chunks" => AtChunks

(* The words that were hashed; leftChunkNum counts the chunks again.         *)
Hashed == IF leftChunkNum = 0 THEN 0 ELSE HeadAt[leftChunkNum + 1]
VerifyInv ==
    /\ pc \in {"verify", "ended"} => to > 0 /\ from = ImgSz /\ backChunkNum = Len(img)
    /\ pc = "verify" => /\ chunkOffset = AddrOf[leftChunkNum + 1]
                        /\ leftLen = ImgSz - Hashed /\ leftLen > 0

Control == Types /\ FreshInv /\ PlaceInv /\ VerifyInv /\ NoneLost

(* The valid part of the fill buffer holds one value.                        *)
BufInv == \A k \in 0..(filledBufValidLen - 1) : fillValBuf[k] = fillValBuf[0]

(* Word k of chunk c, whose header is at offset h, reads as v on the medium.  *)
Holds(c, h, k, v) ==
    CASE c.type = "raw"  -> v = h + ChunkHead + k
      [] c.type = "fill" -> v = c.val
      [] OTHER -> TRUE
CellOK(i, k) == Holds(img[i], HeadAt[i], k, media[AddrOf[i] + k])

(* All chunks are on the medium, where the parser puts them.                 *)
ChunkPut(i) == \A k \in 0..(ChunkDataLen(img[i]) - 1) : CellOK(i, k)
AllPut == \A i \in 1..Len(img) : ChunkPut(i)

(* What was taken is on the medium, and behind it nothing was written.       *)
Reached == AddrOf[Cur] - notWrBackSz4LongChunk
WrittenSoFar ==
    \A i \in 1..(Cur - 1) : \A k \in 0..(ChunkDataLen(img[i]) - 1) :
        AddrOf[i] + k < Reached => CellOK(i, k)
CleanBehind == \A a \in 0..(MaxAddr - 1) : a >= Reached => media[a] = Erased
MediaInv ==
    /\ Parsing /\ ~Wrapped => /\ "fillLost" \notin faults => WrittenSoFar
                              /\ erased => CleanBehind
    /\ pc \in {"verify", "ended"} /\ "fillLost" \notin faults => AllPut

(* No fill chunk is empty to the parser.  The verification reads a word of   *)
(* the medium for each of them, which only a chunk of some block has written. *)
FillsWhole ==
    \A im \in Images : \A i \in 1..Len(im) : im[i].type = "fill" => ChunkDataLen(im[i]) > 0

(* What is hashed is the image as far as it was put together again.          *)
SumInv ==
    /\ pc \in {"idle", "long", "chunks"} => sum = <<>>
    /\ pc = "verify" /\ "fillLost" \notin faults => sum = Words(0, Hashed)

(* The parser's own bookkeeping, and with the medium.                         *)
ParserInv == Control /\ BufInv
IInv == ParserInv /\ MediaInv

(* The constants.                                                            *)
LEMMA Sizes ==
    /\ FileHead \in Nat /\ FileHead > 0 /\ ChunkHead \in Nat /\ ChunkHead > 0
    /\ Slot \in Nat /\ Slot > 0 /\ Window \in Nat /\ Window > 0
    /\ FillBufSz \in Nat /\ FillBufSz > 0 /\ MaxAddr \in Nat /\ U32 \in Nat
    /\ FileHead <= Window /\ MaxLeft \in Nat /\ Slot <= MaxLeft /\ ChunkHead <= MaxLeft
    /\ Window + MaxLeft < U32
  BY SparseAssumption DEF MaxLeft

(* Where the parser is in the image.                                         *)
LEMMA Placed ==
    ASSUME img \in Images, leftChunkNum \in 0..Len(img)
    PROVE  /\ Len(img) \in Nat /\ Cur \in 1..(Len(img) + 1)
           /\ HeadAt[Cur] \in Nat /\ AddrOf[Cur] \in Nat /\ ImgSz \in Nat
           /\ FileHead <= ImgSz /\ HeadAt[Cur] <= ImgSz /\ AddrOf[Cur] <= MaxAddr
           /\ leftChunkNum = 0 => HeadAt[Cur] = ImgSz
           /\ leftChunkNum = Len(img) => HeadAt[Cur] = FileHead /\ AddrOf[Cur] = 0
           /\ leftChunkNum > 0 =>
                 /\ Cur \in 1..Len(img) /\ img[Cur] \in Chunks
                 /\ HeadAt[Cur + 1] = HeadAt[Cur] + TotalSz(img[Cur])
                 /\ AddrOf[Cur + 1] = AddrOf[Cur] + ChunkDataLen(img[Cur])
                 /\ HeadAt[Cur] + TotalSz(img[Cur]) <= ImgSz
           /\ leftChunkNum < Len(img) =>
                 /\ Cur - 1 \in 1..Len(img) /\ img[Cur - 1] \in Chunks
                 /\ HeadAt[Cur] = HeadAt[Cur - 1] + TotalSz(img[Cur - 1])
                 /\ AddrOf[Cur] = AddrOf[Cur - 1] + ChunkDataLen(img[Cur - 1])
                 /\ HeadAt[Cur - 1] \in Nat /\ AddrOf[Cur - 1] \in Nat
<1>1. Laid(img, HeadAt, AddrOf)
  BY ImagesLaid DEF HeadAt, AddrOf
<1>2. Len(img) \in Nat
  BY <1>1 DEF Laid
<1>3. Cur \in 1..(Len(img) + 1) /\ Len(img) + 1 \in 1..(Len(img) + 1) /\ 1 \in 1..(Len(img) + 1)
      /\ (leftChunkNum = 0 => Cur = Len(img) + 1) /\ (leftChunkNum = Len(img) => Cur = 1)
  BY <1>2 DEF Cur
<1>4. MaxAddr \in Nat
  BY SparseAssumption
<1>5. /\ HeadAt[Cur] \in Nat /\ AddrOf[Cur] \in Nat /\ ImgSz \in Nat
      /\ FileHead <= ImgSz /\ HeadAt[Cur] <= ImgSz /\ AddrOf[Cur] <= MaxAddr
      /\ leftChunkNum = 0 => HeadAt[Cur] = ImgSz
      /\ leftChunkNum = Len(img) => HeadAt[Cur] = FileHead /\ AddrOf[Cur] = 0
  <2> DEFINE e == Len(img) + 1
  <2>1. /\ HeadAt[Cur] \in Nat /\ AddrOf[Cur] \in Nat /\ HeadAt[e] \in Nat /\ AddrOf[e] \in Nat
        /\ HeadAt[Cur] <= HeadAt[e] /\ AddrOf[Cur] <= AddrOf[e] /\ HeadAt[1] <= HeadAt[e]
        /\ AddrOf[e] <= MaxAddr /\ HeadAt[1] = FileHead /\ AddrOf[1] = 0
    BY <1>1, <1>2, <1>3 DEF Laid
  <2> QED
    BY <1>3, <1>4, <2>1 DEF ImgSz
<1>6. ASSUME leftChunkNum > 0
      PROVE  /\ Cur \in 1..Len(img) /\ img[Cur] \in Chunks
             /\ HeadAt[Cur + 1] = HeadAt[Cur] + TotalSz(img[Cur])
             /\ AddrOf[Cur + 1] = AddrOf[Cur] + ChunkDataLen(img[Cur])
             /\ HeadAt[Cur] + TotalSz(img[Cur]) <= ImgSz
  <2>1. Cur \in 1..Len(img) /\ Cur + 1 \in 1..(Len(img) + 1) /\ Cur + 1 <= Len(img) + 1
    BY <1>2, <1>6 DEF Cur
  <2>2. /\ img[Cur] \in Chunks /\ HeadAt[Cur + 1] = HeadAt[Cur] + TotalSz(img[Cur])
        /\ AddrOf[Cur + 1] = AddrOf[Cur] + ChunkDataLen(img[Cur])
        /\ HeadAt[Cur + 1] <= HeadAt[Len(img) + 1]
    BY <1>1, <1>3, <2>1, Zenon DEF Laid
  <2> QED
    BY <2>1, <2>2 DEF ImgSz
<1>7. ASSUME leftChunkNum < Len(img)
      PROVE  /\ Cur - 1 \in 1..Len(img) /\ img[Cur - 1] \in Chunks
             /\ HeadAt[Cur] = HeadAt[Cur - 1] + TotalSz(img[Cur - 1])
             /\ AddrOf[Cur] = AddrOf[Cur - 1] + ChunkDataLen(img[Cur - 1])
             /\ HeadAt[Cur - 1] \in Nat /\ AddrOf[Cur - 1] \in Nat
  <2>1. Cur - 1 \in 1..Len(img) /\ Cur - 1 \in 1..(Len(img) + 1) /\ (Cur - 1) + 1 = Cur
    BY <1>2, <1>7 DEF Cur
  <2>2. /\ img[Cur - 1] \in Chunks
        /\ HeadAt[(Cur - 1) + 1] = HeadAt[Cur - 1] + TotalSz(img[Cur - 1])
        /\ AddrOf[(Cur - 1) + 1] = AddrOf[Cur - 1] + ChunkDataLen(img[Cur - 1])
        /\ HeadAt[Cur - 1] \in Nat /\ AddrOf[Cur - 1] \in Nat
    BY <1>1, <2>1 DEF Laid
  <2> QED
    BY <2>1, <2>2
<1> QED
  BY <1>2, <1>3, <1>5, <1>6, <1>7

(* The image and its offsets never change.                                   *)
LEMMA SameImage ==
    ASSUME img' = img
    PROVE  /\ HeadAt' = HeadAt /\ AddrOf' = AddrOf /\ ImgSz' = ImgSz
           /\ Cur' = Len(img) - leftChunkNum' + 1
  BY DEF HeadAt, AddrOf, ImgSz, Cur

(* A place in the same image where the count of chunks left is the same.     *)
LEMMA SamePlace ==
    ASSUME img' = img, leftChunkNum' = leftChunkNum
    PROVE  Cur' = Cur
  BY DEF Cur

-----------------------------------------------------------------------------
(* The parser's place, action by action.                                     *)

(* At the start the medium is as disk_initial left it, and no image is       *)
(* known.                                                                    *)
LEMMA ControlInit == Init => Control
<1> SUFFICES ASSUME Init PROVE Control
  OBVIOUS
<1>1. img \in Images /\ Len(img) \in Nat
  BY ImagesLaid DEF Init, Laid
<1>2. FillBufSz \div 2 \in 0..FillBufSz
  <2>1. FillBufSz \in Nat
    BY Sizes
  <2> QED
    BY <2>1
<1>3. TypeOK
  BY <1>1, <1>2, Sizes DEF Init, TypeOK, Garbage, Erased
<1>4. Types
  BY <1>3 DEF Types, Init, Garbage, Erased
<1> QED
  BY <1>4 DEF Control, Init, FreshInv, Fresh, PlaceInv, Parsing, VerifyInv, NoneLost

(* The image and its offsets are as before, and nothing is known once it     *)
(* failed.                                                                   *)
LEMMA ControlFailed ==
    ASSUME Types', pc' = "failed", NoneLost'
    PROVE  Control'
  BY DEF Control, FreshInv, Fresh, PlaceInv, Parsing, VerifyInv

(* A parser in the middle of an image is neither fresh nor verifying.        *)
LEMMA ControlParsing ==
    ASSUME Types', pc' \in {"idle", "long", "chunks"}, LongInv', WindowInv',
           pc' = "idle" => AtIdle', pc' = "long" => AtLong', pc' = "chunks" => AtChunks'
    PROVE  Control'
  BY DEF Control, FreshInv, Fresh, PlaceInv, Parsing, VerifyInv, NoneLost, WindowInv

(* A new window ends further on, with the image or padded.                   *)
LEMMA Windows ==
    ASSUME Control, NextWindow, to <= ImgSz
    PROVE  /\ to' \in Nat /\ to <= to' /\ to' <= to + Window
           /\ to' > ImgSz => "padded" \in faults'
           /\ to' = to + Window \/ to' = ImgSz
           /\ faults' \subseteq {"io", "fillCut", "fillLost", "padded"}
<1>1. to \in Nat /\ img \in Images /\ leftChunkNum \in 0..Len(img)
      /\ faults \subseteq {"io", "fillCut", "fillLost", "padded"}
  BY DEF Control, Types, TypeOK
<1>2. ImgSz \in Nat /\ Window \in Nat
  BY <1>1, Placed, Sizes
<1>3. to' \in {Lesser(to + Window, ImgSz), to + Window}
      /\ faults' = IF to' > ImgSz THEN faults \cup {"padded"} ELSE faults
  BY DEF NextWindow
<1>4. to' = to + Window \/ (to' = ImgSz /\ ImgSz <= to + Window)
  BY <1>1, <1>2, <1>3 DEF Lesser
<1>5. to' \in Nat /\ to <= to' /\ to' <= to + Window
  BY <1>1, <1>2, <1>4
<1>6. /\ to' > ImgSz => "padded" \in faults'
      /\ faults' \subseteq {"io", "fillCut", "fillLost", "padded"}
  BY <1>1, <1>3
<1> QED
  BY <1>4, <1>5, <1>6

(* The first call takes the file header and starts at the first chunk.       *)
LEMMA ControlFirst ==
    ASSUME Control, FirstCall
    PROVE  Control' /\ pc' = "chunks" /\ leftChunkNum' = Len(img) /\ notWrBackSz4LongChunk' = 0
<1>1. Types /\ TypeOK
  BY DEF Control, Types
<1>2. img \in Images /\ leftChunkNum \in 0..Len(img) /\ pc = "idle" /\ to = 0 /\ to \in Nat
  BY <1>1 DEF TypeOK, FirstCall
<1>3. from = 0 /\ nextMediaOffset = 0
  BY <1>2 DEF Control, FreshInv, Fresh
<1>4. ImgSz \in Nat /\ FileHead <= ImgSz /\ Len(img) \in Nat
  BY <1>2, Placed
<1>5. /\ to' \in Nat /\ to' <= Window /\ (to' > ImgSz => "padded" \in faults') /\ to' >= FileHead
      /\ faults' \subseteq {"io", "fillCut", "fillLost", "padded"}
  <2>1. NextWindow /\ to <= ImgSz
    BY <1>2, <1>4 DEF FirstCall
  <2>2. /\ to' \in Nat /\ to' <= to + Window /\ (to' > ImgSz => "padded" \in faults')
        /\ to' = to + Window \/ to' = ImgSz
        /\ faults' \subseteq {"io", "fillCut", "fillLost", "padded"}
    BY <2>1, Windows
  <2> QED
    BY <1>2, <1>4, <2>2, Sizes
<1>6. /\ leftChunkNum' = Len(img) /\ pktHeadLen' = FileHead
      /\ notWrBackSz4LongChunk' = 0 /\ nextFlashAddr4LastLongChunk' = 0
      /\ backChunkNum' = 0 /\ chunkOffset' = 0
      /\ unParsedBufLen' = to' - FileHead /\ pChunk' = FileHead
      /\ flashAddrStart' = nextMediaOffset /\ pc' = "chunks"
  <2>1. ~(to' < FileHead)
    BY <1>5, Sizes
  <2> QED
    BY <2>1 DEF FirstCall
<1>7. /\ img' = img /\ erased' = erased /\ media' = media /\ from' = from
      /\ fillValBuf' = fillValBuf /\ filledBufValidLen' = filledBufValidLen
      /\ nextMediaOffset' = nextMediaOffset /\ leftLen' = leftLen /\ sum' = sum
  BY DEF FirstCall, cache
<1>8. Types'
  <2>1. unParsedBufLen' \in 0..(U32 - 1)
    <3> DEFINE t == to'
    <3>1. t \in Nat /\ t <= Window /\ t >= FileHead /\ unParsedBufLen' = t - FileHead
      BY <1>5, <1>6
    <3> HIDE DEF t
    <3>2. t - FileHead \in 0..(U32 - 1)
      BY <3>1, Sizes
    <3> QED
      BY <3>1, <3>2
  <2>2. Len(img) \in 0..Len(img) /\ 0 \in 0..Len(img) /\ 0 \in Nat /\ FileHead \in Nat
    BY <1>4, Sizes
  <2>3. /\ img' \in Images /\ erased' \in BOOLEAN
        /\ \A x \in DOMAIN media' : media'[x] \in Int
        /\ filledBufValidLen' \in 0..FillBufSz /\ leftLen' \in Nat /\ from' \in Nat
    BY <1>1, <1>7, Zenon DEF TypeOK
  <2>4. TypeOK'
    BY <1>3, <1>5, <1>6, <1>7, <2>1, <2>2, <2>3, Zenon DEF TypeOK
  <2> QED
    BY <1>1, <1>7, <2>4 DEF Types
<1>9. /\ HeadAt' = HeadAt /\ AddrOf' = AddrOf /\ ImgSz' = ImgSz
      /\ HeadAt'[Cur'] = FileHead /\ AddrOf'[Cur'] = 0
  <2>1. Laid(img, HeadAt, AddrOf)
    BY <1>2, ImagesLaid DEF HeadAt, AddrOf
  <2>2. HeadAt' = HeadAt /\ AddrOf' = AddrOf /\ ImgSz' = ImgSz /\ Cur' = 1
    BY <1>4, <1>6, <1>7, SameImage
  <2> QED
    BY <2>1, <2>2 DEF Laid
<1>10. LongInv'
  BY <1>6 DEF LongInv
<1>11. Taken' = FileHead
  BY <1>6, <1>9, Sizes DEF Taken
<1>12. to' > 0 /\ 0 <= FileHead /\ FileHead <= to' + 1 /\ to' - 0 < Window + MaxLeft
       /\ FileHead # to' + 1 /\ 0 = Len(img) - Len(img)
  <2> DEFINE t == to'
  <2>1. t \in Nat /\ t <= Window /\ t >= FileHead
    BY <1>5
  <2> HIDE DEF t
  <2>2. t > 0 /\ 0 <= FileHead /\ FileHead <= t + 1 /\ t - 0 < Window + MaxLeft /\ FileHead # t + 1
    BY <2>1, Sizes
  <2> QED
    BY <1>4, <2>2 DEF t
<1>13. WindowInv'
  <2>1. to' > ImgSz' => "padded" \in faults'
    BY <1>5, <1>9, Zenon
  <2>2. backChunkNum' = Len(img') - leftChunkNum' /\ chunkOffset' = 0
    BY <1>6, <1>7, <1>12
  <2>3. to' > 0 /\ from' <= Taken' /\ Taken' <= to' + 1 /\ to' - from' < Window + MaxLeft
    BY <1>3, <1>7, <1>11, <1>12
  <2> QED
    BY <2>1, <2>2, <2>3 DEF WindowInv, MaxLeft
<1>14. AtChunks'
  <2>1. ~Wrapped'
    BY <1>11, <1>12 DEF Wrapped
  <2>2. unParsedBufLen' = to' - Taken' /\ flashAddrStart' = AddrOf'[Cur'] /\ pChunk' = HeadAt'[Cur']
    BY <1>3, <1>6, <1>9, <1>11, Zenon
  <2>3. ~(notWrBackSz4LongChunk' > 0)
    BY <1>6
  <2> QED
    BY <2>1, <2>2, <2>3, Zenon DEF AtChunks
<1>15. Control'
  BY <1>6, <1>8, <1>10, <1>13, <1>14, ControlParsing
<1> QED
  BY <1>6, <1>15

(* The parser's place in the image, and that of the rest of a long chunk, do *)
(* not depend on the window.                                                 *)
LEMMA SameLong ==
    ASSUME img' = img, leftChunkNum' = leftChunkNum,
           notWrBackSz4LongChunk' = notWrBackSz4LongChunk
    PROVE  /\ HeadAt' = HeadAt /\ AddrOf' = AddrOf /\ ImgSz' = ImgSz /\ Cur' = Cur
           /\ Taken' = Taken /\ Reached' = Reached
  BY SameImage, SamePlace DEF Taken, Reached

(* What is known of the parser while it is in the middle of an image.        *)
LEMMA WhereParsing ==
    ASSUME Control, Parsing
    PROVE  /\ TypeOK /\ Types /\ LongInv /\ WindowInv
           /\ pc = "idle" => AtIdle
           /\ pc = "long" => AtLong
           /\ pc = "chunks" => AtChunks
           /\ img \in Images /\ leftChunkNum \in 0..Len(img) /\ Len(img) \in Nat
           /\ Taken \in Int /\ Taken <= HeadAt[Cur] /\ Taken + notWrBackSz4LongChunk = HeadAt[Cur]
           /\ from \in Nat /\ to \in Nat /\ notWrBackSz4LongChunk \in Nat
           /\ unParsedBufLen \in Nat /\ nextFlashAddr4LastLongChunk \in Nat
<1>1. Types /\ TypeOK
  BY DEF Control, Types
<1>2. img \in Images /\ leftChunkNum \in 0..Len(img) /\ notWrBackSz4LongChunk \in Nat
      /\ from \in Nat /\ to \in Nat /\ nextFlashAddr4LastLongChunk \in Nat
      /\ unParsedBufLen \in 0..(U32 - 1)
  BY <1>1 DEF TypeOK
<1>3. HeadAt[Cur] \in Nat /\ Len(img) \in Nat
  BY <1>2, Placed
<1>4. unParsedBufLen \in Nat
  BY <1>2, Sizes
<1>5. Taken \in Int /\ Taken <= HeadAt[Cur] /\ Taken + notWrBackSz4LongChunk = HeadAt[Cur]
  BY <1>2, <1>3 DEF Taken
<1>6. /\ LongInv /\ WindowInv
      /\ pc = "idle" => AtIdle
      /\ pc = "long" => AtLong
      /\ pc = "chunks" => AtChunks
  BY DEF Control, PlaceInv
<1> QED
  BY <1>1, <1>2, <1>3, <1>4, <1>5, <1>6

(* A call goes on at the first word that the one before it left.             *)
LEMMA ControlNextCall ==
    ASSUME Control, NextCall
    PROVE  /\ Control' /\ Parsing' /\ ~Wrapped' /\ leftChunkNum' = leftChunkNum
           /\ notWrBackSz4LongChunk' = notWrBackSz4LongChunk
<1>1. pc = "idle" /\ to > 0 /\ from < ImgSz /\ NextWindow /\ unParsedBufLen' = to' - from
      /\ pChunk' = from /\ flashAddrStart' = nextMediaOffset
      /\ pc' = (IF notWrBackSz4LongChunk > 0 THEN "long" ELSE "chunks")
  BY DEF NextCall
<1>2. /\ img' = img /\ erased' = erased /\ media' = media /\ from' = from
      /\ fillValBuf' = fillValBuf /\ filledBufValidLen' = filledBufValidLen
      /\ nextMediaOffset' = nextMediaOffset /\ leftLen' = leftLen /\ sum' = sum
      /\ leftChunkNum' = leftChunkNum /\ pktHeadLen' = pktHeadLen
      /\ notWrBackSz4LongChunk' = notWrBackSz4LongChunk
      /\ nextFlashAddr4LastLongChunk' = nextFlashAddr4LastLongChunk
      /\ backChunkNum' = backChunkNum /\ chunkOffset' = chunkOffset
  BY DEF NextCall, cache, states
<1>3. Parsing
  BY <1>1 DEF Parsing
<1>4. /\ TypeOK /\ Types /\ LongInv /\ WindowInv /\ AtIdle
      /\ img \in Images /\ leftChunkNum \in 0..Len(img)
      /\ Taken \in Int /\ Taken + notWrBackSz4LongChunk = HeadAt[Cur]
      /\ from \in Nat /\ to \in Nat /\ notWrBackSz4LongChunk \in Nat
  BY <1>1, <1>3, WhereParsing
<1>5. ImgSz \in Nat
  BY <1>4, Placed
<1>6. Taken = from /\ nextMediaOffset = AddrOf[Cur] /\ from <= to /\ to <= ImgSz /\ to - from < MaxLeft
  BY <1>1, <1>4 DEF AtIdle
<1>7. /\ to' \in Nat /\ to <= to' /\ to' <= to + Window /\ (to' > ImgSz => "padded" \in faults')
      /\ faults' \subseteq {"io", "fillCut", "fillLost", "padded"}
  BY <1>1, <1>6, Windows
<1>8. /\ HeadAt' = HeadAt /\ AddrOf' = AddrOf /\ ImgSz' = ImgSz /\ Cur' = Cur /\ Taken' = from
  BY <1>2, <1>6, SameLong
<1>9. /\ to' > 0 /\ from <= from /\ from <= to' + 1 /\ to' - from < Window + MaxLeft
      /\ from # to' + 1 /\ from <= to' /\ to' - from \in 0..(U32 - 1)
  <2> DEFINE t == to'
  <2>1. t \in Nat /\ to <= t /\ t <= to + Window
    BY <1>7
  <2> HIDE DEF t
  <2>2. /\ t > 0 /\ from <= from /\ from <= t + 1 /\ t - from < Window + MaxLeft /\ from # t + 1
        /\ from <= t /\ t - from \in 0..(U32 - 1)
    BY <1>1, <1>4, <1>6, <2>1, Sizes
  <2> QED
    BY <2>2 DEF t
<1>10. Types'
  <2>1. nextMediaOffset \in Nat
    BY <1>4 DEF TypeOK
  <2>2. pc' \in {"idle", "long", "chunks", "verify", "ended", "failed"}
    BY <1>1
  <2>3. /\ img' \in Images /\ erased' \in BOOLEAN
        /\ \A x \in DOMAIN media' : media'[x] \in Int
        /\ filledBufValidLen' \in 0..FillBufSz /\ leftLen' \in Nat /\ from' \in Nat
        /\ leftChunkNum' \in 0..Len(img') /\ backChunkNum' \in 0..Len(img')
        /\ pktHeadLen' \in {0, FileHead} /\ notWrBackSz4LongChunk' \in Nat
        /\ nextFlashAddr4LastLongChunk' \in Nat /\ chunkOffset' \in Nat /\ nextMediaOffset' \in Nat
    BY <1>2, <1>4, Zenon DEF TypeOK
  <2>4. TypeOK'
    BY <1>1, <1>4, <1>7, <1>9, <2>1, <2>2, <2>3, Zenon DEF TypeOK
  <2> QED
    BY <1>2, <1>4, <2>4 DEF Types
<1>11. LongInv'
  BY <1>2, <1>4, <1>8 DEF LongInv, ChunkDataLen, DataLen
<1>12. WindowInv'
  <2>1. to' > ImgSz' => "padded" \in faults'
    BY <1>7, <1>8, Zenon
  <2>2. backChunkNum' = Len(img') - leftChunkNum' /\ chunkOffset' = 0
    BY <1>2, <1>4 DEF WindowInv
  <2>3. to' > 0 /\ from' <= Taken' /\ Taken' <= to' + 1 /\ to' - from' < Window + MaxLeft
    BY <1>2, <1>8, <1>9
  <2> QED
    BY <2>1, <2>2, <2>3 DEF WindowInv, MaxLeft
<1>13. ~Wrapped'
  BY <1>8, <1>9 DEF Wrapped
<1>14. CASE notWrBackSz4LongChunk > 0
  <2>1. pc' = "long"
    BY <1>1, <1>14
  <2>2. AtLong'
    BY <1>1, <1>2, <1>6, <1>8, <1>9, <1>14, Zenon DEF AtLong
  <2> QED
    BY <1>2, <1>10, <1>11, <1>12, <1>13, <2>1, <2>2, ControlParsing DEF Parsing
<1>15. CASE ~(notWrBackSz4LongChunk > 0)
  <2>1. pc' = "chunks" /\ notWrBackSz4LongChunk = 0
    BY <1>1, <1>4, <1>15
  <2>2. HeadAt[Cur] = from
    BY <1>4, <1>6, <2>1
  <2>3. AtChunks'
    BY <1>1, <1>2, <1>6, <1>8, <1>13, <1>15, <2>2, Zenon DEF AtChunks
  <2> QED
    BY <1>2, <1>10, <1>11, <1>12, <1>13, <2>1, <2>3, ControlParsing DEF Parsing
<1> QED
  BY <1>14, <1>15

(* A call that fails.                                                        *)
LEMMA ControlFail ==
    ASSUME Control, NEW f \in SUBSET {"io"}, Fail(f),
           f # {} \/ faults # {} \/ \E i \in 1..Len(img) : img[i].type = "bad"
    PROVE  Control' /\ pc' = "failed"
<1>1. /\ img' = img /\ erased' = erased /\ media' = media /\ from' = from /\ to' = to
      /\ fillValBuf' = fillValBuf /\ filledBufValidLen' = filledBufValidLen
      /\ nextMediaOffset' = nextMediaOffset /\ leftLen' = leftLen /\ sum' = sum
      /\ leftChunkNum' = leftChunkNum /\ pktHeadLen' = pktHeadLen
      /\ notWrBackSz4LongChunk' = notWrBackSz4LongChunk
      /\ nextFlashAddr4LastLongChunk' = nextFlashAddr4LastLongChunk
      /\ backChunkNum' = backChunkNum /\ chunkOffset' = chunkOffset
      /\ unParsedBufLen' = unParsedBufLen /\ pChunk' = pChunk /\ flashAddrStart' = flashAddrStart
      /\ pc' = "failed" /\ faults' = faults \cup f
  BY DEF Fail, cache, states, call
<1>2. Types /\ TypeOK
  BY DEF Control, Types
<1>3. faults' \subseteq {"io", "fillCut", "fillLost", "padded"}
  BY <1>1, <1>2 DEF TypeOK
<1>4. TypeOK'
  BY <1>1, <1>2, <1>3, Zenon DEF TypeOK
<1>5. Types'
  BY <1>1, <1>2, <1>4 DEF Types
<1>6. NoneLost'
  BY <1>1 DEF NoneLost
<1> QED
  BY <1>1, <1>5, <1>6, ControlFailed

(* The end of a call is refused only where the window cut a fill chunk or    *)
(* was padded.                                                               *)
LEMMA ControlLoopEnd ==
    ASSUME Control, LoopEnd
    PROVE  Control' /\ (pc' = "failed" \/ (pc' = "idle" /\ ~Wrapped /\ to' = to))
<1> DEFINE refused == unParsedBufLen > to - from \/ (to >= ImgSz /\ unParsedBufLen > 0)
<1>1. /\ pc = "chunks" /\ (~InLoop \/ HeadCut) /\ pktHeadLen' = 0
      /\ from' = (IF refused THEN from ELSE to - unParsedBufLen)
      /\ nextMediaOffset' = flashAddrStart
      /\ pc' = (IF refused THEN "failed" ELSE "idle")
  BY DEF LoopEnd, Return
<1>2. /\ img' = img /\ erased' = erased /\ media' = media /\ to' = to
      /\ fillValBuf' = fillValBuf /\ filledBufValidLen' = filledBufValidLen
      /\ leftLen' = leftLen /\ sum' = sum /\ faults' = faults
      /\ leftChunkNum' = leftChunkNum
      /\ notWrBackSz4LongChunk' = notWrBackSz4LongChunk
      /\ nextFlashAddr4LastLongChunk' = nextFlashAddr4LastLongChunk
      /\ backChunkNum' = backChunkNum /\ chunkOffset' = chunkOffset
      /\ unParsedBufLen' = unParsedBufLen /\ pChunk' = pChunk /\ flashAddrStart' = flashAddrStart
  BY DEF LoopEnd, cache
<1>3. Parsing
  BY <1>1 DEF Parsing
<1>4. /\ TypeOK /\ Types /\ LongInv /\ WindowInv /\ AtChunks
      /\ img \in Images /\ leftChunkNum \in 0..Len(img) /\ Len(img) \in Nat
      /\ Taken \in Int /\ Taken <= HeadAt[Cur] /\ Taken + notWrBackSz4LongChunk = HeadAt[Cur]
      /\ from \in Nat /\ to \in Nat /\ notWrBackSz4LongChunk \in Nat /\ unParsedBufLen \in Nat
  BY <1>1, <1>3, WhereParsing
<1>5. /\ ImgSz \in Nat /\ HeadAt[Cur] \in Nat /\ HeadAt[Cur] <= ImgSz
      /\ leftChunkNum = 0 => HeadAt[Cur] = ImgSz
      /\ leftChunkNum > 0 => HeadAt[Cur] + ChunkHead <= ImgSz
  <2>1. leftChunkNum > 0 => TotalSz(img[Cur]) \in Nat /\ TotalSz(img[Cur]) >= ChunkHead
    BY <1>4, Placed, ChunkSizes
  <2> QED
    BY <1>4, <2>1, Placed, Sizes
<1>6. /\ from <= Taken /\ Taken <= to + 1 /\ to - from < Window + MaxLeft /\ to > 0
      /\ (to > ImgSz => "padded" \in faults)
      /\ flashAddrStart = AddrOf[Cur]
      /\ notWrBackSz4LongChunk > 0 => to - Taken < Slot /\ to < HeadAt[Cur]
  BY <1>4 DEF WindowInv, AtChunks
<1>7. nextMediaOffset' \in Nat /\ from' \in Nat /\ pktHeadLen' \in {0, FileHead}
  <2>1. flashAddrStart \in Nat
    BY <1>4 DEF TypeOK
  <2>2. ~refused => to - unParsedBufLen \in Nat
    BY <1>4
  <2> HIDE DEF refused
  <2> QED
    BY <1>1, <1>4, <2>1, <2>2
<1>8. Types'
  <2>1. pc' \in {"idle", "long", "chunks", "verify", "ended", "failed"}
    BY <1>1
  <2>2. /\ img' \in Images /\ erased' \in BOOLEAN
        /\ \A x \in DOMAIN media' : media'[x] \in Int
        /\ filledBufValidLen' \in 0..FillBufSz /\ leftLen' \in Nat /\ to' \in Nat
        /\ leftChunkNum' \in 0..Len(img') /\ backChunkNum' \in 0..Len(img')
        /\ notWrBackSz4LongChunk' \in Nat /\ unParsedBufLen' \in 0..(U32 - 1)
        /\ nextFlashAddr4LastLongChunk' \in Nat /\ chunkOffset' \in Nat
        /\ pChunk' \in Nat /\ flashAddrStart' \in Nat
        /\ faults' \subseteq {"io", "fillCut", "fillLost", "padded"}
    BY <1>2, <1>4, Zenon DEF TypeOK
  <2>3. TypeOK'
    BY <1>7, <2>1, <2>2, Zenon DEF TypeOK
  <2> QED
    BY <1>2, <1>4, <2>3 DEF Types
<1>9. CASE Wrapped
  <2>1. unParsedBufLen = U32 - 1 /\ "fillCut" \in faults
    BY <1>4, <1>9 DEF AtChunks
  <2>2. unParsedBufLen > to - from
    BY <1>4, <1>6, <2>1, Sizes
  <2>3. pc' = "failed"
    BY <1>1, <2>2
  <2>4. NoneLost'
    BY <1>2, <2>1 DEF NoneLost
  <2> QED
    BY <1>8, <2>3, <2>4, ControlFailed
<1>10. CASE ~Wrapped
  <2>1. unParsedBufLen = to - Taken /\ unParsedBufLen <= to - from
    <3>1. unParsedBufLen = to - Taken
      BY <1>4, <1>10 DEF AtChunks
    <3> QED
      BY <1>4, <1>6, <3>1
  <2>2. leftChunkNum = 0 \/ notWrBackSz4LongChunk > 0 \/ (leftChunkNum > 0 /\ unParsedBufLen < ChunkHead)
    BY <1>1, <1>4, Sizes DEF InLoop, HeadCut
  <2>3. CASE refused
    <3>1. to >= ImgSz /\ unParsedBufLen > 0
      BY <1>4, <2>1, <2>3
    <3>2. notWrBackSz4LongChunk = 0
      BY <1>4, <1>5, <1>6, <3>1
    <3>3. Taken = HeadAt[Cur]
      BY <1>4, <1>5, <3>2
    <3>4. to # ImgSz
      BY <1>4, <1>5, <2>1, <2>2, <3>1, <3>2, <3>3, Sizes
    <3>5. to > ImgSz
      BY <1>4, <1>5, <3>1, <3>4
    <3>6. NoneLost'
      BY <1>2, <1>6, <3>5 DEF NoneLost
    <3> HIDE DEF refused
    <3> QED
      BY <1>1, <1>8, <2>3, <3>6, ControlFailed
  <2>4. CASE ~refused
    <3>1. pc' = "idle" /\ from' = to - unParsedBufLen
      BY <1>1, <2>4
    <3>2. ~(to >= ImgSz /\ unParsedBufLen > 0)
      BY <2>4
    <3> HIDE DEF refused
    <3>3. from' = Taken
      <4>1. to - unParsedBufLen = Taken
        BY <1>4, <2>1
      <4> QED
        BY <3>1, <4>1
    <3>4. /\ HeadAt' = HeadAt /\ AddrOf' = AddrOf /\ ImgSz' = ImgSz /\ Cur' = Cur /\ Taken' = Taken
      BY <1>2, SameLong
    <3>5. Taken <= to /\ to <= ImgSz /\ to - Taken < Window + MaxLeft
      <4>1. Taken <= to
        BY <1>4, <2>1
      <4>2. to <= ImgSz
        BY <1>4, <1>5, <2>1, <3>2
      <4> QED
        BY <1>4, <1>6, <4>1, <4>2, Sizes
    <3>6. Taken < ImgSz => to - Taken < MaxLeft
      BY <1>4, <1>5, <1>6, <2>1, <2>2, Sizes
    <3>7. LongInv'
      BY <1>2, <1>4, <3>4 DEF LongInv, ChunkDataLen, DataLen
    <3>8. WindowInv'
      <4>1. to' > ImgSz' => "padded" \in faults'
        BY <1>2, <1>6, <3>4, Zenon
      <4>2. backChunkNum' = Len(img') - leftChunkNum' /\ chunkOffset' = 0
        BY <1>2, <1>4 DEF WindowInv
      <4>3. to > 0 /\ Taken <= Taken /\ Taken <= to + 1 /\ to - Taken < Window + MaxLeft
        BY <1>4, <1>6, <3>5
      <4>4. to' > 0 /\ from' <= Taken' /\ Taken' <= to' + 1 /\ to' - from' < Window + MaxLeft
        BY <1>2, <3>3, <3>4, <4>3, Zenon
      <4> QED
        BY <4>1, <4>2, <4>4 DEF WindowInv, MaxLeft
    <3>9. AtIdle'
      <4>1. /\ Taken' = from' /\ nextMediaOffset' = AddrOf'[Cur'] /\ from' <= to' /\ to' <= ImgSz'
        BY <1>1, <1>2, <1>6, <3>3, <3>4, <3>5, Zenon
      <4>2. from' < ImgSz' => to' - from' < MaxLeft
        BY <1>2, <3>3, <3>4, <3>6, Zenon
      <4> QED
        BY <4>1, <4>2 DEF AtIdle, MaxLeft
    <3> QED
      BY <1>2, <1>8, <1>10, <3>1, <3>7, <3>8, <3>9, ControlParsing
  <2> QED
    BY <2>3, <2>4
<1> QED
  BY <1>9, <1>10

(* What is written is words of the image.                                    *)
LEMMA WriteTypes ==
    ASSUME media \in [0..(MaxAddr - 1) -> Int], NEW a \in Int, NEW n \in Int, NEW o \in Int,
           Write(a, n, o)
    PROVE  media' \in [0..(MaxAddr - 1) -> Int]
<1>1. MaxAddr \in Nat
  BY Sizes
<1>2. DOMAIN media = 0..(MaxAddr - 1)
  OBVIOUS
<1>3. media' = [x \in 0..(MaxAddr - 1) |-> IF x \in a..(a + n - 1) THEN o + (x - a) ELSE media[x]]
  BY <1>2 DEF Write
<1>4. \A x \in 0..(MaxAddr - 1) : (IF x \in a..(a + n - 1) THEN o + (x - a) ELSE media[x]) \in Int
  BY <1>1
<1> QED
  BY <1>3, <1>4

(* As much of a long chunk is written as was received, but for less than a   *)
(* slot.                                                                     *)
LEMMA LongLength ==
    ASSUME notWrBackSz4LongChunk \in Nat, NEW p \in Nat
    PROVE  /\ ThisWriteLen(p) \in Nat /\ ThisWriteLen(p) <= notWrBackSz4LongChunk
           /\ notWrBackSz4LongChunk >= p => ThisWriteLen(p) <= p /\ p - ThisWriteLen(p) < Slot
           /\ notWrBackSz4LongChunk <= p => ThisWriteLen(p) = notWrBackSz4LongChunk
<1>1. Aligned(p) \in 0..p /\ p - Aligned(p) < Slot /\ Slot \in Nat /\ Slot > 0
  BY AlignedBound, Sizes
<1> QED
  BY <1>1 DEF ThisWriteLen

(* A long chunk that goes on ends with the window or before it; what is left *)
(* of the window is less than a slot.                                        *)
LEMMA ControlLong ==
    ASSUME Control, LongChunk
    PROVE  /\ Control'
           /\ \/ pc' = "failed"
              \/ /\ Parsing' /\ ~Wrapped' /\ leftChunkNum' = leftChunkNum /\ faults' = faults
                 /\ notWrBackSz4LongChunk' = notWrBackSz4LongChunk - ThisWriteLen(unParsedBufLen)
                 /\ Write(nextFlashAddr4LastLongChunk, ThisWriteLen(unParsedBufLen), from)
<1> DEFINE n == ThisWriteLen(unParsedBufLen)
<1>1. pc = "long" /\ Parsing
  BY DEF LongChunk, Parsing
<1>2. CASE Fail({"io"})
  BY <1>2, ControlFail, Zenon
<1>3. CASE ~Fail({"io"})
  <2>1. /\ Write(nextFlashAddr4LastLongChunk, n, from)
        /\ notWrBackSz4LongChunk' = notWrBackSz4LongChunk - n
        /\ unParsedBufLen' = unParsedBufLen - n
        /\ IF notWrBackSz4LongChunk >= unParsedBufLen
           THEN /\ nextFlashAddr4LastLongChunk' = nextFlashAddr4LastLongChunk + n
                /\ Return(unParsedBufLen', nextMediaOffset)
                /\ UNCHANGED pChunk
           ELSE /\ pChunk' = from + notWrBackSz4LongChunk
                /\ pc' = "chunks"
                /\ UNCHANGED <<nextFlashAddr4LastLongChunk, from, nextMediaOffset>>
    BY <1>3 DEF LongChunk
  <2>2. /\ img' = img /\ erased' = erased /\ to' = to
        /\ fillValBuf' = fillValBuf /\ filledBufValidLen' = filledBufValidLen
        /\ leftLen' = leftLen /\ sum' = sum /\ faults' = faults
        /\ leftChunkNum' = leftChunkNum /\ pktHeadLen' = pktHeadLen
        /\ backChunkNum' = backChunkNum /\ chunkOffset' = chunkOffset
        /\ flashAddrStart' = flashAddrStart
    BY <1>3 DEF LongChunk, cache
  <2>3. /\ TypeOK /\ Types /\ LongInv /\ WindowInv /\ AtLong
        /\ img \in Images /\ leftChunkNum \in 0..Len(img) /\ Len(img) \in Nat
        /\ Taken \in Int /\ Taken + notWrBackSz4LongChunk = HeadAt[Cur]
        /\ from \in Nat /\ to \in Nat /\ notWrBackSz4LongChunk \in Nat /\ unParsedBufLen \in Nat
        /\ nextFlashAddr4LastLongChunk \in Nat
    BY <1>1, WhereParsing
  <2>4. /\ n \in Nat /\ n <= notWrBackSz4LongChunk
        /\ notWrBackSz4LongChunk >= unParsedBufLen =>
               n <= unParsedBufLen /\ unParsedBufLen - n < Slot
        /\ notWrBackSz4LongChunk <= unParsedBufLen => n = notWrBackSz4LongChunk
    BY <2>3, LongLength, Zenon
  <2> HIDE DEF n
  <2>5. ImgSz \in Nat /\ HeadAt[Cur] \in Nat /\ HeadAt[Cur] <= ImgSz
    BY <2>3, Placed
  <2>6. /\ notWrBackSz4LongChunk > 0 /\ Taken = from /\ from <= to /\ unParsedBufLen = to - from
        /\ flashAddrStart = AddrOf[Cur] /\ nextMediaOffset = AddrOf[Cur]
        /\ to > 0 /\ to - from < Window + MaxLeft /\ (to > ImgSz => "padded" \in faults)
        /\ backChunkNum = Len(img) - leftChunkNum /\ chunkOffset = 0
    BY <2>3 DEF AtLong, WindowInv
  <2>7. media' \in [0..(MaxAddr - 1) -> Int]
    BY <2>1, <2>3, <2>4, WriteTypes DEF Types
  <2>8. /\ HeadAt' = HeadAt /\ AddrOf' = AddrOf /\ ImgSz' = ImgSz /\ Cur' = Cur
    BY <2>2, SameImage, SamePlace
  <2>9. Taken' = from + n
    <3>1. Taken' = HeadAt[Cur] - (notWrBackSz4LongChunk - n)
      BY <2>1, <2>8, Zenon DEF Taken
    <3>2. HeadAt[Cur] - (notWrBackSz4LongChunk - n) = from + n
      BY <2>3, <2>4, <2>5, <2>6
    <3> QED
      BY <3>1, <3>2
  <2>10. /\ notWrBackSz4LongChunk - n \in Nat
         /\ unParsedBufLen - n \in 0..(U32 - 1)
         /\ unParsedBufLen - n = to - (from + n)
         /\ from <= from + n /\ from + n <= to
         /\ to - (from + n) < Window + MaxLeft
    <3>1. n <= unParsedBufLen /\ n <= notWrBackSz4LongChunk /\ unParsedBufLen = to - from
      BY <2>3, <2>4, <2>6
    <3>2. unParsedBufLen - n \in 0..(U32 - 1)
      BY <2>3, <2>4, <2>6, <3>1, Sizes
    <3> QED
      BY <2>3, <2>4, <2>6, <3>1, <3>2, Sizes
  <2>11. ASSUME from' = from \/ from' = from + n PROVE WindowInv' /\ ~Wrapped'
    <3>2. to' > ImgSz' => "padded" \in faults'
      BY <2>2, <2>6, <2>8, Zenon
    <3>3. backChunkNum' = Len(img') - leftChunkNum' /\ chunkOffset' = 0
      BY <2>2, <2>6
    <3>4. \A f \in {from, from + n} : /\ to > 0 /\ f <= from + n /\ from + n <= to + 1
                                      /\ to - f < Window + MaxLeft
      BY <2>3, <2>4, <2>6, <2>10
    <3>5. to' > 0 /\ from' <= Taken' /\ Taken' <= to' + 1 /\ to' - from' < Window + MaxLeft
      BY <2>2, <2>9, <2>11, <3>4, Zenon
    <3>6. from + n # to + 1
      BY <2>3, <2>4, <2>10
    <3>7. ~Wrapped'
      BY <2>2, <2>9, <3>6, Zenon DEF Wrapped
    <3> QED
      BY <3>2, <3>3, <3>5, <3>7 DEF WindowInv, MaxLeft
  <2>12. ASSUME nextFlashAddr4LastLongChunk' \in Nat, from' \in Nat, nextMediaOffset' \in Nat,
                pChunk' \in Nat, pc' \in {"idle", "chunks"}
         PROVE  Types'
    <3>1. pc' \in {"idle", "long", "chunks", "verify", "ended", "failed"}
      BY <2>12
    <3>2. /\ img' \in Images /\ erased' \in BOOLEAN
          /\ filledBufValidLen' \in 0..FillBufSz /\ leftLen' \in Nat /\ to' \in Nat
          /\ leftChunkNum' \in 0..Len(img') /\ backChunkNum' \in 0..Len(img')
          /\ pktHeadLen' \in {0, FileHead}
          /\ chunkOffset' \in Nat /\ flashAddrStart' \in Nat
          /\ faults' \subseteq {"io", "fillCut", "fillLost", "padded"}
      BY <2>2, <2>3, Zenon DEF TypeOK
    <3>3. /\ notWrBackSz4LongChunk' \in Nat /\ unParsedBufLen' \in 0..(U32 - 1)
          /\ \A x \in DOMAIN media' : media'[x] \in Int
      BY <2>1, <2>7, <2>10
    <3>4. TypeOK'
      BY <2>12, <3>1, <3>2, <3>3, Zenon DEF TypeOK
    <3> QED
      BY <2>2, <2>3, <2>7, <3>4 DEF Types
  <2>13. CASE notWrBackSz4LongChunk >= unParsedBufLen
    <3>1. /\ nextFlashAddr4LastLongChunk' = nextFlashAddr4LastLongChunk + n
          /\ Return(unParsedBufLen', nextMediaOffset) /\ pChunk' = pChunk
      BY <2>1, <2>13
    <3> DEFINE u == unParsedBufLen'
    <3>2. u = to - (from + n) /\ u \in Nat
      BY <2>1, <2>3, <2>4, <2>10
    <3> HIDE DEF u
    <3>3. to <= ImgSz
      BY <2>3, <2>5, <2>6, <2>13
    <3>4. ~(u > to - from) /\ ~(to >= ImgSz /\ u > 0)
      BY <2>3, <2>4, <2>5, <2>6, <2>13, <3>2, <3>3
    <3>5. pc' = "idle" /\ from' = to - u /\ nextMediaOffset' = nextMediaOffset
      BY <3>1, <3>4 DEF Return, u
    <3>6. to - u = from + n
      BY <2>3, <2>4, <3>2
    <3>7. from' = from + n
      BY <3>5, <3>6
    <3>8. /\ nextFlashAddr4LastLongChunk + n \in Nat /\ from + n \in Nat
          /\ nextMediaOffset \in Nat /\ pChunk \in Nat
      BY <2>3, <2>4 DEF TypeOK
    <3>9. Types'
      BY <2>12, <3>1, <3>5, <3>7, <3>8
    <3>10. LongInv'
      <4> DEFINE w == notWrBackSz4LongChunk - n
                 d == ChunkDataLen(img[Cur - 1])
      <4>1. /\ leftChunkNum < Len(img) /\ img[Cur - 1].type = "raw"
            /\ notWrBackSz4LongChunk <= d
            /\ nextFlashAddr4LastLongChunk + notWrBackSz4LongChunk = AddrOf[Cur]
        BY <2>3, <2>6 DEF LongInv
      <4>2. d \in Nat
        BY <2>3, <4>1, Placed, ChunkSizes
      <4> HIDE DEF d
      <4>3. w <= d /\ (nextFlashAddr4LastLongChunk + n) + w = AddrOf[Cur]
        BY <2>3, <2>4, <4>1, <4>2
      <4> HIDE DEF w
      <4>4. notWrBackSz4LongChunk' = w
        BY <2>1 DEF w
      <4>5. leftChunkNum' < Len(img') /\ img'[Cur' - 1].type = "raw"
        BY <2>2, <2>8, <4>1, Zenon
      <4>6. ChunkDataLen(img[Cur - 1])' = d
        BY <2>2, <2>8 DEF d, ChunkDataLen, DataLen
      <4>7. notWrBackSz4LongChunk' <= ChunkDataLen(img[Cur - 1])'
        BY <4>3, <4>4, <4>6
      <4>8. nextFlashAddr4LastLongChunk' + notWrBackSz4LongChunk' = AddrOf'[Cur']
        BY <2>8, <3>1, <4>3, <4>4, Zenon
      <4> QED
        BY <4>5, <4>7, <4>8 DEF LongInv
    <3>11. AtIdle'
      <4>1. from + n <= to /\ to - (from + n) < MaxLeft
        BY <2>3, <2>4, <2>10, <2>13, Sizes
      <4>2. /\ Taken' = from' /\ nextMediaOffset' = AddrOf'[Cur'] /\ from' <= to' /\ to' <= ImgSz'
            /\ to' - from' < MaxLeft
        BY <2>2, <2>6, <2>8, <2>9, <3>3, <3>5, <3>7, <4>1, Zenon
      <4> QED
        BY <4>2 DEF AtIdle, MaxLeft
    <3>12. Parsing'
      <4>1. to' > 0
        BY <2>2, <2>6
      <4> QED
        BY <3>5, <4>1 DEF Parsing
    <3>13. WindowInv' /\ ~Wrapped'
      BY <2>11, <3>7
    <3>14. Control'
      BY <3>5, <3>9, <3>10, <3>11, <3>13, ControlParsing
    <3> QED
      BY <2>1, <2>2, <3>12, <3>13, <3>14, Zenon DEF n
  <2>14. CASE ~(notWrBackSz4LongChunk >= unParsedBufLen)
    <3>1. /\ pChunk' = from + notWrBackSz4LongChunk /\ pc' = "chunks" /\ from' = from
          /\ nextFlashAddr4LastLongChunk' = nextFlashAddr4LastLongChunk
          /\ nextMediaOffset' = nextMediaOffset
      BY <2>1, <2>14
    <3>2. n = notWrBackSz4LongChunk /\ notWrBackSz4LongChunk - n = 0
      BY <2>3, <2>4, <2>14
    <3>3. /\ pChunk' \in Nat /\ nextMediaOffset \in Nat
      <4>1. from + notWrBackSz4LongChunk \in Nat
        BY <2>3
      <4> QED
        BY <2>3, <3>1, <4>1 DEF TypeOK
    <3>4. Types'
      BY <2>3, <2>12, <3>1, <3>3
    <3>5. notWrBackSz4LongChunk' = 0
      BY <2>1, <3>2
    <3>6. LongInv'
      BY <3>5 DEF LongInv
    <3>7. WindowInv' /\ ~Wrapped'
      BY <2>11, <3>1
    <3>8. AtChunks'
      <4>1. flashAddrStart' = AddrOf'[Cur'] /\ pChunk' = HeadAt'[Cur']
        BY <2>2, <2>3, <2>6, <2>8, <3>1
      <4>2. unParsedBufLen' = to' - Taken'
        BY <2>1, <2>2, <2>9, <2>10, Zenon
      <4>3. ~(notWrBackSz4LongChunk' > 0)
        BY <3>5
      <4> QED
        BY <3>7, <4>1, <4>2, <4>3, Zenon DEF AtChunks
    <3>9. Control' /\ Parsing'
      BY <3>1, <3>4, <3>6, <3>7, <3>8, ControlParsing DEF Parsing
    <3> QED
      BY <2>1, <2>2, <3>7, <3>9, Zenon DEF n
  <2> QED
    BY <2>13, <2>14
<1> QED
  BY <1>2, <1>3

(* Before a chunk whose header was received.                                 *)
LEMMA BeforeChunk ==
    ASSUME Control, InLoop, ~HeadCut, AtHead
    PROVE  /\ pc = "chunks" /\ Parsing /\ leftChunkNum > 0 /\ notWrBackSz4LongChunk = 0 /\ ~Wrapped
           /\ Cur \in 1..Len(img) /\ img[Cur] \in Chunks /\ Cur \in Nat
           /\ pChunk = HeadAt[Cur] /\ flashAddrStart = AddrOf[Cur] /\ Taken = HeadAt[Cur]
           /\ HeadAt[Cur] \in Nat /\ AddrOf[Cur] \in Nat
           /\ unParsedBufLen \in Nat /\ to \in Nat /\ from \in Nat
           /\ unParsedBufLen = to - HeadAt[Cur]
           /\ ChunkHead <= unParsedBufLen /\ unParsedBufLen < U32
           /\ HeadAt[Cur + 1] = HeadAt[Cur] + TotalSz(img[Cur])
           /\ AddrOf[Cur + 1] = AddrOf[Cur] + ChunkDataLen(img[Cur])
           /\ AddrOf[Cur] + ChunkDataLen(img[Cur]) <= MaxAddr
<1>1. pc = "chunks" /\ Parsing /\ leftChunkNum > 0 /\ notWrBackSz4LongChunk = 0
  BY DEF InLoop, Parsing
<1>2. /\ TypeOK /\ AtChunks /\ img \in Images /\ leftChunkNum \in 0..Len(img) /\ Len(img) \in Nat
      /\ Taken \in Int /\ Taken + notWrBackSz4LongChunk = HeadAt[Cur]
      /\ from \in Nat /\ to \in Nat /\ unParsedBufLen \in Nat
  BY <1>1, WhereParsing
<1>3. /\ Cur \in 1..Len(img) /\ img[Cur] \in Chunks /\ HeadAt[Cur] \in Nat /\ AddrOf[Cur] \in Nat
      /\ HeadAt[Cur + 1] = HeadAt[Cur] + TotalSz(img[Cur])
      /\ AddrOf[Cur + 1] = AddrOf[Cur] + ChunkDataLen(img[Cur])
  BY <1>1, <1>2, Placed
<1>4. pChunk = HeadAt[Cur] /\ HeadAt[Cur] + ChunkHead <= to
  BY DEF AtHead
<1>5. Taken = HeadAt[Cur]
  BY <1>1, <1>2, <1>3
<1>6. ~Wrapped
  BY <1>2, <1>3, <1>4, <1>5, Sizes DEF Wrapped
<1>7. flashAddrStart = AddrOf[Cur] /\ unParsedBufLen = to - HeadAt[Cur]
  BY <1>2, <1>5, <1>6 DEF AtChunks
<1>8. unParsedBufLen \in 0..(U32 - 1) /\ unParsedBufLen < U32
  <2>1. unParsedBufLen \in 0..(U32 - 1)
    BY <1>2 DEF TypeOK
  <2> QED
    BY <2>1, Sizes
<1>9. ChunkHead <= unParsedBufLen
  BY <1>2, <1>3, <1>4, <1>7, Sizes
<1>10. AddrOf[Cur] + ChunkDataLen(img[Cur]) <= MaxAddr
  <2>1. Laid(img, HeadAt, AddrOf)
    BY <1>2, ImagesLaid DEF HeadAt, AddrOf
  <2>2. Cur + 1 \in 1..(Len(img) + 1) /\ Len(img) + 1 \in 1..(Len(img) + 1) /\ Cur + 1 <= Len(img) + 1
    BY <1>2, <1>3
  <2>3. /\ AddrOf[Cur + 1] \in Nat /\ AddrOf[Len(img) + 1] \in Nat
        /\ AddrOf[Cur + 1] <= AddrOf[Len(img) + 1] /\ AddrOf[Len(img) + 1] <= MaxAddr
    BY <2>1, <2>2 DEF Laid
  <2> QED
    BY <1>3, <2>3, Sizes
<1>11. Cur \in Nat
  BY <1>2, <1>3
<1> QED
  BY <1>1, <1>2, <1>3, <1>4, <1>5, <1>6, <1>7, <1>8, <1>9, <1>10, <1>11

(* One turn of the loop: the parser took the header of a chunk and m words   *)
(* of its data, and left w words of it.                                      *)
LEMMA ControlTurn ==
    ASSUME Control, InLoop, ~HeadCut, AtHead, NEW m \in Nat, NEW w \in Nat, NextChunk(m),
           notWrBackSz4LongChunk' = w, nextFlashAddr4LastLongChunk' \in Nat,
           media' \in [0..(MaxAddr - 1) -> Int], fillValBuf' \in [0..(FillBufSz - 1) -> Int],
           filledBufValidLen' \in 0..FillBufSz,
           faults \subseteq faults', faults' \subseteq {"io", "fillCut", "fillLost", "padded"},
           ChunkHead + m + w = TotalSz(img[Cur]),
           \/ ChunkHead + m <= unParsedBufLen
           \/ ChunkHead + m = unParsedBufLen + 1 /\ w = 0 /\ "fillCut" \in faults',
           w > 0 => /\ img[Cur].type = "raw" /\ unParsedBufLen < TotalSz(img[Cur])
                    /\ nextFlashAddr4LastLongChunk' + w = AddrOf[Cur] + ChunkDataLen(img[Cur])
                    /\ unParsedBufLen - (ChunkHead + m) < Slot
    PROVE  /\ Control' /\ pc' = "chunks" /\ Cur' = Cur + 1 /\ HeadAt' = HeadAt /\ AddrOf' = AddrOf
           /\ img' = img /\ erased' = erased
           /\ ChunkHead + m <= unParsedBufLen <=> ~Wrapped'
<1> DEFINE h == HeadAt[Cur]
           c == img[Cur]
<1>1. /\ pc = "chunks" /\ Parsing /\ leftChunkNum > 0 /\ notWrBackSz4LongChunk = 0
      /\ Cur \in 1..Len(img) /\ c \in Chunks /\ Cur \in Nat
      /\ pChunk = h /\ flashAddrStart = AddrOf[Cur] /\ Taken = h
      /\ h \in Nat /\ AddrOf[Cur] \in Nat
      /\ unParsedBufLen \in Nat /\ to \in Nat /\ from \in Nat
      /\ unParsedBufLen = to - h /\ ChunkHead <= unParsedBufLen /\ unParsedBufLen < U32
      /\ HeadAt[Cur + 1] = h + TotalSz(c) /\ AddrOf[Cur + 1] = AddrOf[Cur] + ChunkDataLen(c)
  BY BeforeChunk
<1>2. /\ ChunkDataLen(c) \in Nat /\ TotalSz(c) \in Nat
      /\ c.type = "raw" => TotalSz(c) = ChunkHead + ChunkDataLen(c)
  BY <1>1, ChunkSizes, ZenonT(60)
<1>3. /\ TypeOK /\ Types /\ WindowInv /\ img \in Images /\ leftChunkNum \in 0..Len(img)
      /\ Len(img) \in Nat
  BY <1>1, WhereParsing
<1>4. /\ unParsedBufLen' = (unParsedBufLen - (ChunkHead + m)) % U32
      /\ flashAddrStart' = flashAddrStart + ChunkDataLen(c)
      /\ backChunkNum' = backChunkNum + 1
      /\ pChunk' = pChunk + TotalSz(c)
      /\ leftChunkNum' = leftChunkNum - 1
      /\ img' = img /\ erased' = erased /\ pktHeadLen' = pktHeadLen /\ chunkOffset' = chunkOffset
      /\ nextMediaOffset' = nextMediaOffset /\ pc' = pc /\ from' = from /\ to' = to
      /\ leftLen' = leftLen /\ sum' = sum
  BY DEF NextChunk
<1>5. HeadAt' = HeadAt /\ AddrOf' = AddrOf /\ ImgSz' = ImgSz /\ Cur' = Cur + 1
  <2>1. HeadAt' = HeadAt /\ AddrOf' = AddrOf /\ ImgSz' = ImgSz
        /\ Cur' = Len(img) - leftChunkNum' + 1
    BY <1>4, SameImage
  <2>2. Len(img) - (leftChunkNum - 1) + 1 = Cur + 1
    BY <1>3 DEF Cur
  <2> QED
    BY <1>4, <2>1, <2>2
<1>6. /\ from <= h /\ to - from < Window + MaxLeft /\ to > 0 /\ (to > ImgSz => "padded" \in faults)
      /\ backChunkNum = Len(img) - leftChunkNum /\ chunkOffset = 0
  BY <1>1, <1>3 DEF WindowInv
<1> HIDE DEF h, c
<1>7. Taken' = h + ChunkHead + m
  <2>1. Taken' = (h + TotalSz(c)) - w
    BY <1>1, <1>5 DEF Taken
  <2>2. (h + TotalSz(c)) - w = h + ChunkHead + m
    BY <1>1, <1>2, Sizes DEF c
  <2> QED
    BY <2>1, <2>2
<1> DEFINE u == unParsedBufLen'
<1>9. ASSUME ChunkHead + m <= unParsedBufLen
      PROVE  u = to - (h + ChunkHead + m) /\ u \in 0..(U32 - 1)
  <2> DEFINE d == unParsedBufLen - (ChunkHead + m)
  <2>1. d \in 0..(U32 - 1) /\ d = to - (h + ChunkHead + m)
    BY <1>1, <1>9, Sizes
  <2>2. U32 \in Nat \ {0}
    BY <1>1, Sizes
  <2>3. d % U32 = d
    BY <2>1, <2>2, ModSmall
  <2>4. u = d
    BY <1>4, <2>3
  <2> QED
    BY <2>1, <2>4
<1>10. ASSUME ~(ChunkHead + m <= unParsedBufLen)
       PROVE  /\ u = U32 - 1 /\ u \in 0..(U32 - 1) /\ h + ChunkHead + m = to + 1 /\ w = 0
              /\ "fillCut" \in faults'
  <2>1. ChunkHead + m = unParsedBufLen + 1 /\ w = 0 /\ "fillCut" \in faults'
    BY <1>10
  <2>2. unParsedBufLen - (ChunkHead + m) = -1 /\ U32 \in Nat \ {0} /\ U32 - 1 \in 0..(U32 - 1)
        /\ h + ChunkHead + m = to + 1
    BY <1>1, <2>1, Sizes
  <2>3. u = U32 - 1
    BY <1>4, <2>2, WrapsOnce
  <2> QED
    BY <2>1, <2>2, <2>3
<1> HIDE DEF u
<1>11. u \in 0..(U32 - 1)
  BY <1>9, <1>10
<1>12. /\ h <= h + ChunkHead + m /\ h + ChunkHead + m <= to + 1 /\ from <= h + ChunkHead + m
       /\ ChunkHead + m <= unParsedBufLen <=> h + ChunkHead + m # to + 1
  BY <1>1, <1>6, <1>10, Sizes
<1>13. Types'
  <2>1. /\ flashAddrStart + ChunkDataLen(c) \in Nat /\ pChunk + TotalSz(c) \in Nat
        /\ leftChunkNum - 1 \in 0..Len(img) /\ backChunkNum + 1 \in 0..Len(img)
    <3>1. flashAddrStart \in Nat /\ pChunk \in Nat
      BY <1>1
    <3>2. flashAddrStart + ChunkDataLen(c) \in Nat /\ pChunk + TotalSz(c) \in Nat
      BY <1>2, <3>1
    <3>3. leftChunkNum \in Nat /\ leftChunkNum > 0 /\ leftChunkNum <= Len(img) /\ Len(img) \in Nat
      BY <1>1, <1>3
    <3>4. leftChunkNum - 1 \in 0..Len(img)
      BY <3>3
    <3>5. backChunkNum + 1 \in 0..Len(img)
      BY <1>6, <3>3
    <3> QED
      BY <3>2, <3>4, <3>5
  <2>2. /\ flashAddrStart' \in Nat /\ pChunk' \in Nat
        /\ leftChunkNum' \in 0..Len(img') /\ backChunkNum' \in 0..Len(img')
        /\ unParsedBufLen' \in 0..(U32 - 1) /\ notWrBackSz4LongChunk' \in Nat
    BY <1>4, <1>11, <2>1 DEF u
  <2>3. /\ img' \in Images /\ erased' \in BOOLEAN
        /\ leftLen' \in Nat /\ to' \in Nat /\ from' \in Nat
        /\ pktHeadLen' \in {0, FileHead}
        /\ chunkOffset' \in Nat /\ nextMediaOffset' \in Nat
        /\ pc' \in {"idle", "long", "chunks", "verify", "ended", "failed"}
    BY <1>3, <1>4, Zenon DEF TypeOK
  <2>4. \A x \in DOMAIN media' : media'[x] \in Int
    OBVIOUS
  <2>5. TypeOK'
    BY <2>2, <2>3, <2>4, Zenon DEF TypeOK
  <2> QED
    BY <2>5 DEF Types
<1>14. LongInv'
  <2> SUFFICES ASSUME w > 0 PROVE LongInv'
    BY DEF LongInv
  <2>1. /\ img[Cur].type = "raw"
        /\ nextFlashAddr4LastLongChunk' + w = AddrOf[Cur] + ChunkDataLen(img[Cur])
    OBVIOUS
  <2>2. w <= ChunkDataLen(img[Cur])
    BY <1>2, <2>1, Sizes, SMTT(60) DEF c
  <2>3. Cur' - 1 = Cur
    BY <1>1, <1>5
  <2>4. leftChunkNum' < Len(img')
    <3>1. leftChunkNum - 1 < Len(img)
      BY <1>3
    <3> QED
      BY <1>4, <3>1, SMTT(60)
  <2>5. AddrOf'[Cur'] = AddrOf[Cur] + ChunkDataLen(img[Cur])
    BY <1>1, <1>5 DEF c
  <2>6. ChunkDataLen(img[Cur - 1])' = ChunkDataLen(img[Cur])
    BY <1>4, <2>3 DEF ChunkDataLen, DataLen
  <2>7. /\ img'[Cur' - 1].type = "raw"
        /\ notWrBackSz4LongChunk' <= ChunkDataLen(img[Cur - 1])'
        /\ nextFlashAddr4LastLongChunk' + notWrBackSz4LongChunk' = AddrOf'[Cur']
    BY <1>4, <2>1, <2>2, <2>3, <2>5, <2>6, Zenon
  <2> QED
    BY <2>4, <2>7 DEF LongInv
<1>15. WindowInv'
  <2>1. to' > ImgSz' => "padded" \in faults'
    BY <1>4, <1>5, <1>6, Zenon
  <2>2. backChunkNum' = Len(img') - leftChunkNum' /\ chunkOffset' = 0
    <3>1. backChunkNum + 1 = Len(img) - (leftChunkNum - 1)
      BY <1>3, <1>6
    <3> QED
      BY <1>4, <1>6, <3>1
  <2>3. to' > 0 /\ from' <= Taken' /\ Taken' <= to' + 1 /\ to' - from' < Window + MaxLeft
    BY <1>4, <1>6, <1>7, <1>12, Zenon
  <2> QED
    BY <2>1, <2>2, <2>3 DEF WindowInv, MaxLeft
<1>16. ChunkHead + m <= unParsedBufLen <=> ~Wrapped'
  BY <1>4, <1>7, <1>12, Zenon DEF Wrapped
<1>17. AtChunks'
  <2>1. flashAddrStart' = AddrOf'[Cur'] /\ pChunk' = HeadAt'[Cur']
    BY <1>1, <1>4, <1>5, Zenon
  <2>2. Wrapped' => /\ unParsedBufLen' = U32 - 1 /\ notWrBackSz4LongChunk' = 0
                    /\ "fillCut" \in faults'
    BY <1>10, <1>16, Zenon DEF u
  <2>3. ~Wrapped' => unParsedBufLen' = to' - Taken'
    BY <1>4, <1>7, <1>9, <1>16, Zenon DEF u
  <2>4. ASSUME w > 0 PROVE to' - Taken' < Slot /\ to' < HeadAt'[Cur']
    <3>1. to - (h + ChunkHead + m) < Slot /\ to < h + TotalSz(c)
      BY <1>1, <1>2, <2>4, Sizes, SMTT(60) DEF c
    <3>2. HeadAt'[Cur'] = h + TotalSz(c)
      BY <1>1, <1>5
    <3> QED
      BY <1>4, <1>7, <3>1, <3>2, Zenon
  <2>5. notWrBackSz4LongChunk' > 0 => to' - Taken' < Slot /\ to' < HeadAt'[Cur']
    BY <2>4, Zenon
  <2> QED
    BY <2>1, <2>2, <2>3, <2>5, Zenon DEF AtChunks
<1>18. Control' /\ pc' = "chunks"
  BY <1>1, <1>4, <1>13, <1>14, <1>15, <1>17, ControlParsing
<1> QED
  BY <1>4, <1>5, <1>16, <1>18

(* How much of a raw chunk is written.                                       *)
LEMMA RawLength ==
    ASSUME NEW c \in Chunks, c.type = "raw", unParsedBufLen \in Nat, ChunkHead <= unParsedBufLen
    PROVE  /\ WantWrLen(c) \in Nat
           /\ TotalSz(c) > unParsedBufLen =>
                 /\ ChunkHead + WantWrLen(c) <= unParsedBufLen
                 /\ unParsedBufLen - (ChunkHead + WantWrLen(c)) < Slot
                 /\ WantWrLen(c) < ChunkDataLen(c)
           /\ ~(TotalSz(c) > unParsedBufLen) => WantWrLen(c) = ChunkDataLen(c)
<1>1. TotalSz(c) = ChunkHead + ChunkDataLen(c) /\ ChunkDataLen(c) \in Nat /\ TotalSz(c) \in Nat
  BY ChunkSizes
<1> DEFINE p == unParsedBufLen - ChunkHead
<1>2. p \in Nat /\ p + ChunkHead = unParsedBufLen
  BY Sizes
<1>3. Aligned(p) \in 0..p /\ p - Aligned(p) < Slot
  BY <1>2, AlignedBound, Sizes
<1>4. CASE TotalSz(c) > unParsedBufLen
  <2>1. WantWrLen(c) = Aligned(p)
    BY <1>4 DEF WantWrLen
  <2> HIDE DEF p
  <2> QED
    BY <1>1, <1>2, <1>3, <1>4, <2>1, Sizes
<1>5. CASE ~(TotalSz(c) > unParsedBufLen)
  BY <1>1, <1>5, ZenonT(60) DEF WantWrLen
<1> QED
  BY <1>4, <1>5

(* A raw chunk is taken whole, or becomes the long chunk.                    *)
LEMMA ControlRaw ==
    ASSUME Control, RawChunk
    PROVE  /\ Control'
           /\ \/ pc' = "failed"
              \/ /\ InLoop /\ ~HeadCut /\ AtHead /\ img[Cur].type = "raw"
                 /\ pc' = "chunks" /\ Cur' = Cur + 1 /\ HeadAt' = HeadAt /\ AddrOf' = AddrOf
                 /\ img' = img /\ erased' = erased /\ faults' = faults /\ ~Wrapped'
                 /\ \E n \in Nat : /\ Write(flashAddrStart, n, pChunk + ChunkHead)
                                   /\ n <= ChunkDataLen(img[Cur])
                                   /\ notWrBackSz4LongChunk' = ChunkDataLen(img[Cur]) - n
<1> DEFINE c == img[Cur]
           n == WantWrLen(c)
           d == ChunkDataLen(c)
<1>1. InLoop /\ ~HeadCut /\ AtHead /\ c.type = "raw"
  BY DEF RawChunk
<1>2. CASE Fail({"io"})
  BY <1>2, ControlFail, Zenon
<1>3. CASE ~Fail({"io"})
  <2>1. /\ Write(flashAddrStart, n, pChunk + ChunkHead)
        /\ IF TotalSz(c) > unParsedBufLen
           THEN /\ notWrBackSz4LongChunk' = d - n
                /\ nextFlashAddr4LastLongChunk' = flashAddrStart + n
           ELSE UNCHANGED <<notWrBackSz4LongChunk, nextFlashAddr4LastLongChunk>>
        /\ NextChunk(n) /\ fillValBuf' = fillValBuf /\ filledBufValidLen' = filledBufValidLen
        /\ faults' = faults
    BY <1>3, ZenonT(60) DEF RawChunk, cache
  <2>2. /\ notWrBackSz4LongChunk = 0 /\ c \in Chunks /\ pChunk \in Nat /\ flashAddrStart = AddrOf[Cur]
        /\ flashAddrStart \in Nat /\ unParsedBufLen \in Nat /\ ChunkHead <= unParsedBufLen
    BY <1>1, BeforeChunk
  <2>3. TotalSz(c) = ChunkHead + d /\ d \in Nat
    BY <1>1, <2>2, ChunkSizes
  <2>4. /\ n \in Nat
        /\ TotalSz(c) > unParsedBufLen =>
              /\ ChunkHead + n <= unParsedBufLen
              /\ unParsedBufLen - (ChunkHead + n) < Slot
              /\ n < d
        /\ ~(TotalSz(c) > unParsedBufLen) => n = d
    BY <1>1, <2>2, RawLength
  <2>5. /\ Types /\ TypeOK
    BY DEF Control, Types
  <2> HIDE DEF c, n, d
  <2>6. pChunk + ChunkHead \in Int /\ media \in [0..(MaxAddr - 1) -> Int]
    BY <2>2, <2>5, Sizes DEF Types
  <2>7. media' \in [0..(MaxAddr - 1) -> Int]
    BY <2>1, <2>2, <2>4, <2>6, WriteTypes
  <2> DEFINE w == d - n
  <2>8. w \in Nat /\ n <= d /\ ChunkHead + n + w = TotalSz(c) /\ ChunkHead + n <= unParsedBufLen
    <3>1. TotalSz(c) \in Nat
      BY <2>3, Sizes
    <3> QED
      BY <2>2, <2>3, <2>4, <3>1, Sizes
  <2>9. notWrBackSz4LongChunk' = w /\ nextFlashAddr4LastLongChunk' \in Nat
    <3>1. CASE TotalSz(c) > unParsedBufLen
      <4>1. flashAddrStart + n \in Nat
        BY <2>2, <2>4
      <4> QED
        BY <2>1, <3>1, <4>1
    <3>2. CASE ~(TotalSz(c) > unParsedBufLen)
      <4>1. w = 0
        BY <2>3, <2>4, <3>2
      <4>2. nextFlashAddr4LastLongChunk \in Nat
        BY <2>5 DEF TypeOK
      <4> QED
        BY <2>1, <2>2, <3>2, <4>1, <4>2
    <3> QED
      BY <3>1, <3>2
  <2>10. ASSUME w > 0
         PROVE  /\ c.type = "raw" /\ unParsedBufLen < TotalSz(c)
                /\ nextFlashAddr4LastLongChunk' + w = AddrOf[Cur] + d
                /\ unParsedBufLen - (ChunkHead + n) < Slot
    <3>1. TotalSz(c) > unParsedBufLen
      BY <2>3, <2>4, <2>10
    <3>2. (flashAddrStart + n) + w = AddrOf[Cur] + d
      BY <2>2, <2>3, <2>4
    <3>3. unParsedBufLen < TotalSz(c)
      BY <2>2, <2>3, <3>1, Sizes
    <3> QED
      BY <1>1, <2>1, <2>4, <3>1, <3>2, <3>3
  <2>11. /\ fillValBuf' \in [0..(FillBufSz - 1) -> Int] /\ filledBufValidLen' \in 0..FillBufSz
         /\ faults \subseteq faults' /\ faults' \subseteq {"io", "fillCut", "fillLost", "padded"}
    BY <2>1, <2>5 DEF Types, TypeOK
  <2> HIDE DEF w
  <2>12. /\ Control' /\ pc' = "chunks" /\ Cur' = Cur + 1 /\ HeadAt' = HeadAt /\ AddrOf' = AddrOf
         /\ img' = img /\ erased' = erased
         /\ ~Wrapped'
    BY <1>1, <2>1, <2>4, <2>7, <2>8, <2>9, <2>10, <2>11, ControlTurn DEF c, d
  <2>13. /\ n \in Nat /\ Write(flashAddrStart, n, pChunk + ChunkHead)
         /\ n <= d /\ notWrBackSz4LongChunk' = d - n
    BY <2>1, <2>4, <2>8, <2>9 DEF w
  <2> QED
    BY <1>1, <2>1, <2>12, <2>13, Zenon DEF c, d
<1> QED
  BY <1>2, <1>3

(* A chunk without data moves the place on the medium only.                  *)
LEMMA ControlDontCare ==
    ASSUME Control, DontCareChunk
    PROVE  /\ Control' /\ InLoop /\ ~HeadCut /\ AtHead /\ img[Cur].type = "dontcare"
           /\ pc' = "chunks" /\ Cur' = Cur + 1 /\ HeadAt' = HeadAt /\ AddrOf' = AddrOf
           /\ img' = img /\ erased' = erased /\ faults' = faults /\ media' = media /\ ~Wrapped'
           /\ notWrBackSz4LongChunk' = 0
<1>1. /\ InLoop /\ ~HeadCut /\ AtHead /\ img[Cur].type = "dontcare" /\ NextChunk(0)
      /\ media' = media /\ fillValBuf' = fillValBuf /\ filledBufValidLen' = filledBufValidLen
      /\ notWrBackSz4LongChunk' = notWrBackSz4LongChunk
      /\ nextFlashAddr4LastLongChunk' = nextFlashAddr4LastLongChunk /\ faults' = faults
  BY DEF DontCareChunk, cache
<1>2. /\ notWrBackSz4LongChunk = 0 /\ img[Cur] \in Chunks
      /\ unParsedBufLen \in Nat /\ ChunkHead <= unParsedBufLen
  BY <1>1, BeforeChunk
<1>3. TotalSz(img[Cur]) = ChunkHead
  BY <1>1, <1>2, ChunkSizes
<1>4. /\ media' \in [0..(MaxAddr - 1) -> Int] /\ fillValBuf' \in [0..(FillBufSz - 1) -> Int]
      /\ filledBufValidLen' \in 0..FillBufSz /\ nextFlashAddr4LastLongChunk' \in Nat
      /\ faults' \subseteq {"io", "fillCut", "fillLost", "padded"} /\ faults \subseteq faults'
  BY <1>1 DEF Control, Types, TypeOK
<1>5. 0 \in Nat /\ ChunkHead + 0 + 0 = TotalSz(img[Cur]) /\ ChunkHead + 0 <= unParsedBufLen
      /\ ~(0 > 0)
  BY <1>2, <1>3, Sizes
<1>6. notWrBackSz4LongChunk' = 0
  BY <1>1, <1>2
<1>7. /\ Control' /\ pc' = "chunks" /\ Cur' = Cur + 1 /\ HeadAt' = HeadAt /\ AddrOf' = AddrOf
      /\ img' = img /\ erased' = erased /\ ~Wrapped'
  BY <1>1, <1>4, <1>5, <1>6, ControlTurn
<1> QED
  BY <1>1, <1>6, <1>7

(* The header of no chunk is read only behind a fill value that was cut off. *)
LEMMA ControlBad ==
    ASSUME Control, BadChunk
    PROVE  Control' /\ pc' = "failed"
<1>1. InLoop /\ ~HeadCut /\ (~AtHead \/ img[Cur].type = "bad") /\ Fail({})
  BY DEF BadChunk
<1>2. pc = "chunks" /\ Parsing /\ leftChunkNum > 0 /\ notWrBackSz4LongChunk = 0
      /\ ~(ChunkHead > unParsedBufLen)
  BY <1>1 DEF InLoop, Parsing, HeadCut
<1>3. /\ AtChunks /\ img \in Images /\ leftChunkNum \in 0..Len(img) /\ Len(img) \in Nat
      /\ Taken \in Int /\ Taken + notWrBackSz4LongChunk = HeadAt[Cur]
      /\ to \in Nat /\ unParsedBufLen \in Nat
  BY <1>2, WhereParsing
<1>4. Cur \in 1..Len(img) /\ HeadAt[Cur] \in Nat
  BY <1>2, <1>3, Placed
<1>5. CASE AtHead
  BY <1>1, <1>4, <1>5, ControlFail
<1>6. CASE ~AtHead
  <2>1. pChunk = HeadAt[Cur] /\ ~(HeadAt[Cur] + ChunkHead <= to)
    BY <1>3, <1>6 DEF AtChunks, AtHead
  <2>2. unParsedBufLen # to - Taken
    BY <1>2, <1>3, <1>4, <2>1, Sizes
  <2>3. "fillCut" \in faults
    BY <1>3, <2>2 DEF AtChunks
  <2> QED
    BY <1>1, <2>3, ControlFail
<1> QED
  BY <1>5, <1>6

(* The first p words of buffer b are v.                                      *)
Serves(b, p, v) == \A k \in 0..(p - 1) : b[k] = v

(* The medium m is old with the n words at address a replaced by v.           *)
Painted(m, old, a, n, v) ==
    m = [x \in 0..(MaxAddr - 1) |-> IF x \in a..(a + n - 1) THEN v ELSE old[x]]

(* The fill buffer serves the value it is asked for, whatever it held.       *)
LEMMA BufferFilled ==
    ASSUME Types, BufInv, NEW v \in Int, NEW p \in 0..FillBufSz, FillBuffer(v, p)
    PROVE  /\ fillValBuf' \in [0..(FillBufSz - 1) -> Int] /\ filledBufValidLen' \in 0..FillBufSz
           /\ Serves(fillValBuf', p, v) /\ BufInv'
<1> DEFINE valid == StillValid(v)
<1>1. /\ fillValBuf \in [0..(FillBufSz - 1) -> Int] /\ filledBufValidLen \in 0..FillBufSz
      /\ FillBufSz \in Nat /\ FillBufSz > 0 /\ p \in Nat /\ p <= FillBufSz
  BY Sizes DEF Types, TypeOK
<1>2. /\ valid \in 0..FillBufSz /\ valid <= filledBufValidLen
      /\ valid > 0 => v = fillValBuf[0]
  BY <1>1 DEF StillValid
<1>3. \A k \in 0..(valid - 1) : fillValBuf[k] = v
  <2> SUFFICES ASSUME NEW k \in 0..(valid - 1) PROVE fillValBuf[k] = v
    OBVIOUS
  <2>1. valid > 0 /\ k \in 0..(filledBufValidLen - 1)
    BY <1>1, <1>2
  <2> QED
    BY <1>2, <2>1 DEF BufInv
<1>4. IF valid >= p THEN fillValBuf' = fillValBuf /\ filledBufValidLen' = valid
      ELSE /\ fillValBuf' = [k \in DOMAIN fillValBuf |-> IF k \in valid..(p - 1) THEN v ELSE fillValBuf[k]]
           /\ filledBufValidLen' = p
  BY DEF FillBuffer
<1> HIDE DEF valid
<1> DEFINE b == fillValBuf'
           f == filledBufValidLen'
<1>5. b \in [0..(FillBufSz - 1) -> Int] /\ f \in 0..FillBufSz /\ p <= f
      /\ \A k \in 0..(f - 1) : b[k] = v
  <2>1. CASE valid >= p
    BY <1>1, <1>2, <1>3, <1>4, <2>1
  <2>2. CASE ~(valid >= p)
    <3>1. b = [k \in 0..(FillBufSz - 1) |-> IF k \in valid..(p - 1) THEN v ELSE fillValBuf[k]] /\ f = p
      BY <1>1, <1>4, <2>2
    <3> HIDE DEF b, f
    <3>2. \A k \in 0..(p - 1) : k \in 0..(FillBufSz - 1) /\ (k \in valid..(p - 1) \/ k \in 0..(valid - 1))
      BY <1>1, <1>2
    <3>3. \A k \in 0..(p - 1) : b[k] = v
      BY <1>3, <3>1, <3>2
    <3>4. b \in [0..(FillBufSz - 1) -> Int]
      BY <1>1, <3>1
    <3>5. f = p
      BY <3>1
    <3>6. p \in 0..FillBufSz /\ p <= p
      BY <1>1
    <3> QED
      BY <3>3, <3>4, <3>5, <3>6, Zenon
  <2> QED
    BY <2>1, <2>2
<1> HIDE DEF b, f
<1>6. \A k \in 0..(p - 1) : b[k] = v
  BY <1>1, <1>5
<1>7. \A k \in 0..(f - 1) : b[k] = b[0]
  <2> SUFFICES ASSUME NEW k \in 0..(f - 1) PROVE b[k] = b[0]
    OBVIOUS
  <2>1. 0 \in 0..(f - 1)
    BY <1>1, <1>5
  <2> QED
    BY <1>5, <2>1
<1> QED
  BY <1>5, <1>6, <1>7, Zenon DEF b, f, BufInv, Serves

(* What a fill chunk puts on the medium, however it is cut into pieces.      *)
LEMMA FilledCells ==
    ASSUME media \in [0..(MaxAddr - 1) -> Int], NEW a \in Nat, NEW n \in Nat, NEW p \in Nat,
           n > 0 => p > 0, NEW v \in Int, Serves(fillValBuf', p, v),
           Filled(a, n, p)
    PROVE  Painted(media', media, a, n, v)
<1>1. DOMAIN media = 0..(MaxAddr - 1) /\ MaxAddr \in Nat
  BY Sizes
<1> DEFINE b == fillValBuf'
<1>2. media' = [x \in 0..(MaxAddr - 1) |-> IF x \in a..(a + n - 1) THEN b[(x - a) % p] ELSE media[x]]
  BY <1>1 DEF Filled
<1>3. ASSUME NEW x \in 0..(MaxAddr - 1), x \in a..(a + n - 1) PROVE b[(x - a) % p] = v
  <2>1. x - a \in Int /\ p \in Nat \ {0}
    BY <1>1, <1>3
  <2>2. (x - a) % p \in 0..(p - 1)
    BY <2>1
  <2> QED
    BY <2>2 DEF Serves
<1> HIDE DEF b
<1> QED
  BY <1>2, <1>3 DEF Painted

(* A fill chunk is taken whole; if its value was cut off the count wraps.    *)
(* What is written is the value the image gives, as long as it does not      *)
(* wrap.                                                                     *)
LEMMA ControlFill ==
    ASSUME Control, BufInv, FillChunk
    PROVE  /\ Control' /\ BufInv' /\ InLoop /\ ~HeadCut /\ AtHead /\ img[Cur].type = "fill"
           /\ pc' = "chunks" /\ Cur' = Cur + 1 /\ HeadAt' = HeadAt /\ AddrOf' = AddrOf
           /\ img' = img /\ erased' = erased /\ notWrBackSz4LongChunk' = 0
           /\ faults \subseteq faults'
           /\ ~Wrapped' =>
                \/ img[Cur].val = Erased /\ erased /\ media' = media
                \/ \E n \in 0..ChunkDataLen(img[Cur]) :
                      /\ n < ChunkDataLen(img[Cur]) => "fillLost" \in faults'
                      /\ Painted(media', media, AddrOf[Cur], n, img[Cur].val)
<1> DEFINE c == img[Cur]
           d == ChunkDataLen(c)
           cut == pChunk + TotalSz(c) > to
           p == Lesser(d, FillBufSz)
           seen == faults \cup (IF cut THEN {"fillCut"} ELSE {})
<1>1. /\ InLoop /\ ~HeadCut /\ AtHead /\ c.type = "fill" /\ NextChunk(FillSz)
      /\ notWrBackSz4LongChunk' = notWrBackSz4LongChunk
      /\ nextFlashAddr4LastLongChunk' = nextFlashAddr4LastLongChunk
  BY ZenonT(60) DEF FillChunk
<1>2. PICK val \in (IF cut THEN {Garbage, Erased} ELSE {c.val}) :
         IF NeedFill(val)
         THEN /\ FillBuffer(val, p)
              /\ \E n \in 0..d : /\ Filled(flashAddrStart, n, p)
                                 /\ faults' = IF n < d THEN seen \cup {"fillLost"} ELSE seen
         ELSE UNCHANGED <<media, cache>> /\ faults' = seen
  BY ZenonT(60) DEF FillChunk
<1>3. /\ notWrBackSz4LongChunk = 0 /\ c \in Chunks /\ pChunk = HeadAt[Cur] /\ HeadAt[Cur] \in Nat
      /\ flashAddrStart = AddrOf[Cur] /\ AddrOf[Cur] \in Nat /\ to \in Nat
      /\ unParsedBufLen \in Nat /\ unParsedBufLen = to - HeadAt[Cur] /\ ChunkHead <= unParsedBufLen
  BY <1>1, BeforeChunk
<1>4. TotalSz(c) = ChunkHead + 1 /\ d \in Nat /\ c.val \in Int
  BY <1>1, <1>3, ChunkSizes
<1>5. /\ Types /\ TypeOK /\ media \in [0..(MaxAddr - 1) -> Int]
      /\ fillValBuf \in [0..(FillBufSz - 1) -> Int] /\ filledBufValidLen \in 0..FillBufSz
      /\ faults \subseteq {"io", "fillCut", "fillLost", "padded"}
      /\ nextFlashAddr4LastLongChunk \in Nat
  BY DEF Control, Types, TypeOK
<1> HIDE DEF c, d
<1>6. p \in 0..FillBufSz /\ p \in Nat /\ (d > 0 => p > 0)
  BY <1>4, Sizes DEF Lesser
<1>7. val \in Int /\ (~cut => val = c.val)
  BY <1>2, <1>4 DEF Garbage, Erased
<1>8. \/ /\ ~NeedFill(val) /\ media' = media /\ fillValBuf' = fillValBuf
         /\ filledBufValidLen' = filledBufValidLen /\ faults' = seen
      \/ /\ FillBuffer(val, p)
         /\ \E n \in 0..d : /\ Filled(flashAddrStart, n, p)
                            /\ faults' = IF n < d THEN seen \cup {"fillLost"} ELSE seen
  BY <1>2, Zenon DEF cache
<1> HIDE DEF cut, p, seen
<1>9. /\ fillValBuf' \in [0..(FillBufSz - 1) -> Int] /\ filledBufValidLen' \in 0..FillBufSz
      /\ BufInv' /\ media' \in [0..(MaxAddr - 1) -> Int]
      /\ faults' = seen \/ faults' = seen \cup {"fillLost"}
      /\ \/ ~NeedFill(val) /\ media' = media
         \/ \E n \in 0..d : /\ n < d => "fillLost" \in faults'
                            /\ Painted(media', media, AddrOf[Cur], n, val)
  <2>1. CASE /\ ~NeedFill(val) /\ media' = media /\ fillValBuf' = fillValBuf
             /\ filledBufValidLen' = filledBufValidLen /\ faults' = seen
    <3>1. BufInv'
      BY <2>1 DEF BufInv
    <3> QED
      BY <1>5, <2>1, <3>1
  <2>2. CASE /\ FillBuffer(val, p)
             /\ \E n \in 0..d : /\ Filled(flashAddrStart, n, p)
                                /\ faults' = IF n < d THEN seen \cup {"fillLost"} ELSE seen
    <3>1. /\ fillValBuf' \in [0..(FillBufSz - 1) -> Int] /\ filledBufValidLen' \in 0..FillBufSz
          /\ Serves(fillValBuf', p, val) /\ BufInv'
      BY <1>5, <1>6, <1>7, <2>2, BufferFilled, ZenonT(60)
    <3>2. PICK n \in 0..d : /\ Filled(AddrOf[Cur], n, p)
                            /\ faults' = IF n < d THEN seen \cup {"fillLost"} ELSE seen
      BY <1>3, <2>2
    <3>3. n \in Nat /\ (n > 0 => p > 0)
      BY <1>4, <1>6
    <3>4. Painted(media', media, AddrOf[Cur], n, val)
      BY <1>3, <1>5, <1>6, <1>7, <3>1, <3>2, <3>3, FilledCells
    <3>5. media' \in [0..(MaxAddr - 1) -> Int]
      BY <1>5, <1>7, <3>4 DEF Painted
    <3>6. (faults' = seen \/ faults' = seen \cup {"fillLost"}) /\ (n < d => "fillLost" \in faults')
      BY <3>2
    <3> QED
      BY <3>1, <3>4, <3>5, <3>6
  <2> QED
    BY <1>8, <2>1, <2>2
<1>10. /\ faults \subseteq faults' /\ faults' \subseteq {"io", "fillCut", "fillLost", "padded"}
       /\ cut => "fillCut" \in faults'
  BY <1>5, <1>9, Zenon DEF seen
<1>11. notWrBackSz4LongChunk' = 0 /\ nextFlashAddr4LastLongChunk' \in Nat
  BY <1>1, <1>3, <1>5
<1>12. /\ ChunkHead + 1 + 0 = TotalSz(c) /\ 1 \in Nat /\ 0 \in Nat /\ ~(0 > 0)
       /\ ~cut <=> ChunkHead + 1 <= unParsedBufLen
       /\ cut => ChunkHead + 1 = unParsedBufLen + 1
  BY <1>3, <1>4, Sizes DEF cut
<1>13. NextChunk(1)
  BY <1>1, ZenonT(60) DEF FillSz
<1>14. /\ Control' /\ pc' = "chunks" /\ Cur' = Cur + 1 /\ HeadAt' = HeadAt /\ AddrOf' = AddrOf
       /\ img' = img /\ erased' = erased /\ (ChunkHead + 1 <= unParsedBufLen <=> ~Wrapped')
  BY <1>1, <1>9, <1>10, <1>11, <1>12, <1>13, ControlTurn, ZenonT(60) DEF c
<1>15. ~Wrapped' => val = c.val
  BY <1>7, <1>12, <1>14, Zenon
<1>16. ~NeedFill(val) => val = Erased /\ erased
  BY <1>5 DEF NeedFill, TypeOK
<1>17. ASSUME ~Wrapped'
       PROVE  \/ c.val = Erased /\ erased /\ media' = media
              \/ \E n \in 0..d :
                    /\ n < d => "fillLost" \in faults'
                    /\ Painted(media', media, AddrOf[Cur], n, c.val)
  <2>1. val = c.val
    BY <1>15, <1>17
  <2> QED
    BY <1>9, <1>16, <2>1, Zenon
<1> QED
  BY <1>1, <1>9, <1>10, <1>11, <1>14, <1>17, Zenon DEF c, d

-----------------------------------------------------------------------------
(* The verification's place.                                                 *)

(* One pass of the verification: the chunks not yet read that have data, the *)
(* last chunk whose header it collects, and the words of headers and data.   *)
WithData == {i \in (leftChunkNum + 1)..backChunkNum : DataSz(img[i]) > 0}
LastRead == IF WithData = {} THEN backChunkNum
            ELSE CHOOSE i \in WithData : \A j \in WithData : i <= j
HeadWords == (IF leftChunkNum = 0 THEN FileHead ELSE 0) + (LastRead - leftChunkNum) * ChunkHead
DataWords == IF WithData = {} THEN 0 ELSE DataSz(img[LastRead])

(* The step of the verification in these terms.                              *)
LEMMA VerifyStep ==
    ASSUME VerifyChunk
    PROVE  /\ pc = "verify" /\ leftLen > 0
           /\ chunkOffset' = chunkOffset + AddrOf[LastRead + 1] - AddrOf[leftChunkNum + 1]
           /\ leftChunkNum' = LastRead
           /\ leftLen' = leftLen - HeadWords - DataWords
           /\ \/ pc' = "failed" /\ faults' = faults \cup {"io"} /\ sum' = sum
              \/ /\ sum' = sum \o (IF leftChunkNum = 0 THEN Words(0, FileHead) ELSE <<>>)
                            \o Heads(leftChunkNum + 1, LastRead)
                            \o (IF DataWords = 0 THEN <<>>
                                ELSE ReadBack(LastRead, DataOffset(leftChunkNum + 1, LastRead)))
                 /\ pc' = (IF leftLen - HeadWords - DataWords = 0 THEN "ended"
                           ELSE IF HeadWords = 0 THEN "failed" ELSE pc)
                 /\ faults' = faults
           /\ img' = img /\ erased' = erased /\ media' = media /\ pktHeadLen' = pktHeadLen
           /\ notWrBackSz4LongChunk' = notWrBackSz4LongChunk
           /\ nextFlashAddr4LastLongChunk' = nextFlashAddr4LastLongChunk
           /\ backChunkNum' = backChunkNum /\ nextMediaOffset' = nextMediaOffset
           /\ fillValBuf' = fillValBuf /\ filledBufValidLen' = filledBufValidLen
           /\ from' = from /\ to' = to
           /\ unParsedBufLen' = unParsedBufLen /\ pChunk' = pChunk /\ flashAddrStart' = flashAddrStart
  BY Zenon DEF VerifyChunk, WithData, LastRead, HeadWords, DataWords, cache, call

(* A chunk is its header and its data.                                       *)
LEMMA HeadAndData ==
    ASSUME NEW c \in Chunks
    PROVE  TotalSz(c) = ChunkHead + DataSz(c) /\ DataSz(c) \in Nat
<1>1. ChunkDataLen(c) \in Nat
  BY ChunkSizes
<1> QED
  BY <1>1 DEF TotalSz, DataSz, FillSz

(* Headers without data lie one behind the other.                            *)
LEMMA HeadRun ==
    ASSUME img \in Images, NEW f \in 1..(Len(img) + 1), NEW l \in (f - 1)..Len(img),
           \A i \in f..l : DataSz(img[i]) = 0
    PROVE  \A m \in 0..(l - f + 1) : HeadAt[f + m] = HeadAt[f] + m * ChunkHead
<1>1. Laid(img, HeadAt, AddrOf)
  BY ImagesLaid DEF HeadAt, AddrOf
<1>2. Len(img) \in Nat /\ f \in Nat /\ l \in Int /\ HeadAt[f] \in Nat /\ ChunkHead \in Nat
  BY <1>1, Sizes DEF Laid
<1> DEFINE S == {m \in Nat : m <= l - f + 1 => HeadAt[f + m] = HeadAt[f] + m * ChunkHead}
<1>3. 0 \in S
  BY <1>2
<1>4. ASSUME NEW m \in Nat, m \in S PROVE m + 1 \in S
  <2> SUFFICES ASSUME m + 1 <= l - f + 1
               PROVE  HeadAt[f + (m + 1)] = HeadAt[f] + (m + 1) * ChunkHead
    OBVIOUS
  <2>1. HeadAt[f + m] = HeadAt[f] + m * ChunkHead
    BY <1>2, <1>4
  <2>2. f + m \in f..l /\ f + m \in 1..Len(img) /\ (f + m) + 1 = f + (m + 1)
    BY <1>2
  <2>3. img[f + m] \in Chunks /\ HeadAt[(f + m) + 1] = HeadAt[f + m] + TotalSz(img[f + m])
    BY <1>1, <2>2 DEF Laid
  <2>4. TotalSz(img[f + m]) = ChunkHead
    BY <1>2, <2>2, <2>3, HeadAndData
  <2>5. (m + 1) * ChunkHead = m * ChunkHead + ChunkHead /\ m * ChunkHead \in Nat
    BY <1>2
  <2> DEFINE y == m * ChunkHead
             z == (m + 1) * ChunkHead
  <2>6. HeadAt[f + (m + 1)] = HeadAt[f] + y + ChunkHead /\ z = y + ChunkHead /\ y \in Nat
    BY <2>1, <2>2, <2>3, <2>4, <2>5
  <2> HIDE DEF y, z
  <2>7. HeadAt[f + (m + 1)] = HeadAt[f] + z
    BY <1>2, <2>6
  <2> QED
    BY <2>7 DEF z
<1> HIDE DEF S
<1>5. Nat \subseteq S
  BY <1>3, <1>4, Induct, SMTT(60)
<1> QED
  BY <1>2, <1>5 DEF S

(* A pass collects the headers of chunks without data and of one chunk with  *)
(* data, and reads all of that.                                              *)
LEMMA OnePass ==
    ASSUME Control, pc = "verify"
    PROVE  /\ img \in Images /\ Len(img) \in Nat /\ leftChunkNum \in 0..Len(img)
           /\ LastRead \in leftChunkNum..Len(img)
           /\ leftChunkNum # 0 => LastRead > leftChunkNum
           /\ DataWords \in Nat /\ HeadWords \in Nat /\ HeadWords > 0
           /\ HeadAt[leftChunkNum + 1] \in Nat /\ HeadAt[LastRead + 1] \in Nat
           /\ DataWords > 0 => LastRead > leftChunkNum /\ DataWords = DataSz(img[LastRead])
           /\ \A m \in 0..(LastRead - leftChunkNum - 1) :
                 HeadAt[leftChunkNum + 1 + m] = HeadAt[leftChunkNum + 1] + m * ChunkHead
           /\ HeadAt[LastRead + 1] = HeadAt[leftChunkNum + 1]
                                        + (LastRead - leftChunkNum) * ChunkHead + DataWords
           /\ HeadAt[LastRead + 1] <= ImgSz /\ ImgSz \in Nat
           /\ Hashed + HeadWords + DataWords = HeadAt[LastRead + 1]
           /\ AddrOf[LastRead + 1] \in Nat /\ AddrOf[leftChunkNum + 1] \in Nat
<1> DEFINE f == leftChunkNum + 1
           l == LastRead
           n == Len(img)
<1>1. /\ TypeOK /\ img \in Images /\ leftChunkNum \in 0..n
      /\ backChunkNum = n /\ leftLen = ImgSz - Hashed /\ leftLen > 0
  BY DEF Control, Types, TypeOK, VerifyInv
<1>2. Laid(img, HeadAt, AddrOf)
  BY <1>1, ImagesLaid DEF HeadAt, AddrOf
<1>3. /\ n \in Nat /\ f \in 1..(n + 1) /\ HeadAt[f] \in Nat /\ HeadAt[n + 1] \in Nat
      /\ AddrOf[f] \in Nat /\ HeadAt[1] = FileHead
      /\ FileHead \in Nat /\ FileHead > 0 /\ ChunkHead \in Nat /\ ChunkHead > 0
  <2>1. n \in Nat
    BY <1>2 DEF Laid
  <2>2. f \in 1..(n + 1) /\ n + 1 \in 1..(n + 1)
    BY <1>1, <2>1
  <2> QED
    BY <1>2, <2>1, <2>2, Sizes DEF Laid
<1>4. \A i \in 1..n : /\ img[i] \in Chunks /\ DataSz(img[i]) \in Nat
                      /\ HeadAt[i + 1] = HeadAt[i] + ChunkHead + DataSz(img[i])
  <2> SUFFICES ASSUME NEW i \in 1..n
               PROVE  /\ img[i] \in Chunks /\ DataSz(img[i]) \in Nat
                      /\ HeadAt[i + 1] = HeadAt[i] + ChunkHead + DataSz(img[i])
    OBVIOUS
  <2>1. img[i] \in Chunks /\ HeadAt[i + 1] = HeadAt[i] + TotalSz(img[i]) /\ HeadAt[i] \in Nat
    BY <1>2, <1>3 DEF Laid
  <2>2. TotalSz(img[i]) = ChunkHead + DataSz(img[i]) /\ DataSz(img[i]) \in Nat
    BY <2>1, HeadAndData
  <2> QED
    BY <1>3, <2>1, <2>2
<1>5. ASSUME leftChunkNum # 0 PROVE leftChunkNum < n
  <2>1. HeadAt[f] < HeadAt[n + 1]
    BY <1>1, <1>3, <1>5 DEF Hashed, ImgSz
  <2> QED
    BY <1>1, <1>3, <2>1
<1>6. WithData = {i \in f..n : DataSz(img[i]) > 0} /\ WithData \in SUBSET Nat
  BY <1>1, <1>3 DEF WithData
<1>7. /\ l \in leftChunkNum..n /\ (leftChunkNum # 0 => l > leftChunkNum)
      /\ DataWords \in Nat /\ (DataWords > 0 => l > leftChunkNum /\ DataWords = DataSz(img[l]))
      /\ \A m \in 0..(l - leftChunkNum - 1) : HeadAt[f + m] = HeadAt[f] + m * ChunkHead
      /\ HeadAt[l + 1] = HeadAt[f] + (l - leftChunkNum) * ChunkHead + DataWords
  <2>1. CASE WithData = {}
    <3>1. l = n /\ DataWords = 0
      BY <1>1, <2>1 DEF LastRead, DataWords
    <3>2. \A i \in f..n : DataSz(img[i]) = 0
      <4> SUFFICES ASSUME NEW i \in f..n PROVE DataSz(img[i]) = 0
        OBVIOUS
      <4>1. i \in 1..n /\ ~(DataSz(img[i]) > 0)
        BY <1>3, <1>6, <2>1
      <4> QED
        BY <1>4, <4>1
    <3>3. n \in (f - 1)..n
      BY <1>1, <1>3
    <3>4. \A m \in 0..(n - f + 1) : HeadAt[f + m] = HeadAt[f] + m * ChunkHead
      BY <1>1, <1>3, <3>2, <3>3, HeadRun, Zenon
    <3>5. n - f + 1 = n - leftChunkNum /\ n - leftChunkNum \in 0..(n - f + 1)
          /\ f + (n - leftChunkNum) = n + 1
      BY <1>1, <1>3
    <3>6. HeadAt[n + 1] = HeadAt[f] + (n - leftChunkNum) * ChunkHead
      BY <3>4, <3>5
    <3>7. \A m \in 0..(n - leftChunkNum - 1) : m \in 0..(n - f + 1)
      BY <1>1, <1>3
    <3>8. n \in leftChunkNum..n /\ (leftChunkNum # 0 => n > leftChunkNum)
      BY <1>1, <1>3, <1>5
    <3> HIDE DEF l, f, n
    <3>9. HeadAt[n + 1] = HeadAt[f] + (n - leftChunkNum) * ChunkHead + 0
      <4>1. HeadAt[n + 1] + 0 = HeadAt[n + 1]
        BY <1>3
      <4> QED
        BY <3>6, <4>1
    <3>10. ~(0 > 0)
      OBVIOUS
    <3> QED
      BY <3>1, <3>4, <3>7, <3>8, <3>9, <3>10, Zenon
  <2>2. CASE WithData # {}
    <3>1. l \in WithData /\ \A j \in WithData : l <= j
      <4>1. \E i \in WithData : \A j \in WithData : i <= j
        BY <1>6, <2>2, Least
      <4> QED
        BY <2>2, <4>1 DEF LastRead
    <3>2. l \in f..n /\ DataSz(img[l]) > 0 /\ DataWords = DataSz(img[l])
      BY <1>6, <2>2, <3>1 DEF DataWords
    <3> HIDE DEF l
    <3>3. \A i \in f..(l - 1) : DataSz(img[i]) = 0
      <4> SUFFICES ASSUME NEW i \in f..(l - 1) PROVE DataSz(img[i]) = 0
        OBVIOUS
      <4>1. i \in f..n /\ i \in 1..n /\ ~(l <= i)
        BY <1>3, <3>2
      <4>2. i \notin WithData
        BY <3>1, <4>1
      <4> QED
        BY <1>4, <1>6, <4>1, <4>2
    <3>4. l - 1 \in (f - 1)..n
      BY <1>3, <3>2
    <3>5. \A m \in 0..((l - 1) - f + 1) : HeadAt[f + m] = HeadAt[f] + m * ChunkHead
      BY <1>1, <1>3, <3>3, <3>4, HeadRun, ZenonT(60)
    <3>6. (l - 1) - f + 1 = l - leftChunkNum - 1 /\ l \in 1..n /\ l \in Nat
      BY <1>1, <1>3, <3>2
    <3>7. \A m \in 0..(l - leftChunkNum - 1) : HeadAt[f + m] = HeadAt[f] + m * ChunkHead
      BY <3>5, <3>6
    <3>8. HeadAt[l] = HeadAt[f] + (l - leftChunkNum - 1) * ChunkHead
      <4>1. l - leftChunkNum - 1 \in 0..(l - leftChunkNum - 1) /\ f + (l - leftChunkNum - 1) = l
        BY <1>1, <1>3, <3>2, <3>6
      <4> QED
        BY <3>7, <4>1
    <3>9. (l - leftChunkNum) * ChunkHead = (l - leftChunkNum - 1) * ChunkHead + ChunkHead
          /\ (l - leftChunkNum - 1) * ChunkHead \in Int
      BY <1>1, <1>3, <3>6
    <3>10. HeadAt[l + 1] = HeadAt[l] + ChunkHead + DataSz(img[l]) /\ DataSz(img[l]) \in Nat
      BY <1>4, <3>6
    <3>11. HeadAt[l + 1] = HeadAt[f] + (l - leftChunkNum) * ChunkHead + DataWords
      <4> DEFINE y == (l - leftChunkNum - 1) * ChunkHead
                 z == (l - leftChunkNum) * ChunkHead
      <4>1. HeadAt[l] = HeadAt[f] + y /\ z = y + ChunkHead /\ y \in Int
        BY <3>8, <3>9
      <4> HIDE DEF y, z
      <4>2. HeadAt[l + 1] = HeadAt[f] + z + DataWords
        BY <1>3, <3>2, <3>10, <4>1
      <4> QED
        BY <4>2 DEF z
    <3>12. l \in leftChunkNum..n /\ l > leftChunkNum
      BY <1>1, <1>3, <3>2
    <3> QED
      BY <3>2, <3>7, <3>10, <3>11, <3>12
  <2> QED
    BY <2>1, <2>2
<1> HIDE DEF l
<1>8. l + 1 \in 1..(n + 1) /\ l \in Nat
  BY <1>1, <1>3, <1>7
<1>9. HeadAt[l + 1] \in Nat /\ AddrOf[l + 1] \in Nat /\ HeadAt[l + 1] <= HeadAt[n + 1]
  <2>1. n + 1 \in 1..(n + 1) /\ l + 1 <= n + 1
    BY <1>3, <1>8
  <2> QED
    BY <1>2, <1>8, <2>1 DEF Laid
<1> DEFINE y == (l - leftChunkNum) * ChunkHead
<1>10. y \in Nat /\ (l > leftChunkNum => y > 0)
  <2>1. l - leftChunkNum \in Nat /\ (l > leftChunkNum => l - leftChunkNum > 0)
    BY <1>1, <1>3, <1>7
  <2> QED
    BY <1>3, <2>1
<1>11. HeadWords = (IF leftChunkNum = 0 THEN FileHead ELSE 0) + y
       /\ HeadAt[l + 1] = HeadAt[f] + y + DataWords
  BY <1>7 DEF HeadWords, l
<1> HIDE DEF y
<1>12. HeadWords \in Nat /\ HeadWords > 0
  BY <1>3, <1>7, <1>10, <1>11
<1>13. Hashed + HeadWords + DataWords = HeadAt[l + 1]
  <2>1. CASE leftChunkNum = 0
    <3>1. Hashed = 0 /\ HeadAt[f] = FileHead
      BY <1>3, <2>1 DEF Hashed
    <3> QED
      BY <1>3, <1>7, <1>10, <1>11, <2>1, <3>1
  <2>2. CASE leftChunkNum # 0
    <3>1. Hashed = HeadAt[f]
      BY <2>2 DEF Hashed
    <3> QED
      BY <1>3, <1>7, <1>10, <1>11, <2>2, <3>1
  <2> QED
    BY <2>1, <2>2
<1> QED
  BY <1>1, <1>3, <1>7, <1>9, <1>12, <1>13, SMTT(60) DEF l, ImgSz

(* When the whole image was handed over, the parser has taken all of it.     *)
LEMMA AtEnd ==
    ASSUME Control, pc = "idle", to > 0, from = ImgSz
    PROVE  Parsing /\ ~Wrapped /\ leftChunkNum = 0 /\ notWrBackSz4LongChunk = 0 /\ ImgSz > 0
<1>1. Parsing
  BY DEF Parsing
<1>2. /\ TypeOK /\ Types /\ WindowInv /\ AtIdle
      /\ img \in Images /\ leftChunkNum \in 0..Len(img) /\ Len(img) \in Nat
      /\ Taken \in Int /\ Taken + notWrBackSz4LongChunk = HeadAt[Cur]
      /\ from \in Nat /\ to \in Nat /\ notWrBackSz4LongChunk \in Nat
  BY <1>1, WhereParsing
<1>3. Taken = ImgSz /\ Taken <= to
  BY <1>2, SMTT(60) DEF AtIdle
<1>4. /\ ImgSz \in Nat /\ HeadAt[Cur] \in Nat /\ HeadAt[Cur] <= ImgSz /\ FileHead <= ImgSz
      /\ leftChunkNum > 0 => HeadAt[Cur] + ChunkHead <= ImgSz
  <2>1. leftChunkNum > 0 => TotalSz(img[Cur]) \in Nat /\ TotalSz(img[Cur]) >= ChunkHead
    BY <1>2, Placed, ChunkSizes
  <2> QED
    BY <1>2, <2>1, Placed, Sizes, SMTT(60)
<1>5. notWrBackSz4LongChunk = 0 /\ leftChunkNum = 0
  BY <1>2, <1>3, <1>4, Sizes
<1>6. ~Wrapped
  BY <1>2, <1>3, <1>4 DEF Wrapped
<1> QED
  BY <1>1, <1>4, <1>5, <1>6, Sizes

(* The verification starts with all of the image to hash.                    *)
LEMMA ControlVerifyStart ==
    ASSUME Control, VerifyStart
    PROVE  /\ Control' /\ pc' = "verify" /\ leftChunkNum = 0 /\ notWrBackSz4LongChunk = 0
           /\ Parsing /\ ~Wrapped /\ leftChunkNum' = 0
<1>1. pc = "idle" /\ to > 0 /\ from = ImgSz /\ leftLen' = ImgSz
      /\ (IF leftChunkNum # 0 THEN pc' = "failed" ELSE pc' = "verify")
  BY DEF VerifyStart
<1>2. /\ img' = img /\ erased' = erased /\ media' = media /\ from' = from /\ to' = to
      /\ fillValBuf' = fillValBuf /\ filledBufValidLen' = filledBufValidLen
      /\ nextMediaOffset' = nextMediaOffset /\ faults' = faults
      /\ leftChunkNum' = leftChunkNum /\ pktHeadLen' = pktHeadLen
      /\ notWrBackSz4LongChunk' = notWrBackSz4LongChunk
      /\ nextFlashAddr4LastLongChunk' = nextFlashAddr4LastLongChunk
      /\ backChunkNum' = backChunkNum /\ chunkOffset' = chunkOffset
      /\ unParsedBufLen' = unParsedBufLen /\ pChunk' = pChunk /\ flashAddrStart' = flashAddrStart
  BY DEF VerifyStart, cache, states, call
<1>3. Parsing /\ ~Wrapped /\ leftChunkNum = 0 /\ notWrBackSz4LongChunk = 0 /\ ImgSz > 0
  BY <1>1, AtEnd
<1>4. /\ TypeOK /\ Types /\ WindowInv /\ img \in Images /\ Len(img) \in Nat
      /\ leftChunkNum \in 0..Len(img)
  BY <1>3, WhereParsing
<1>5. ImgSz \in Nat
  BY <1>4, Placed
<1>6. pc' = "verify"
  BY <1>1, <1>3
<1>7. Types'
  <2>1. TypeOK'
    BY <1>1, <1>2, <1>4, <1>5, <1>6 DEF TypeOK
  <2> QED
    BY <1>2, <1>4, <2>1, SMTT(60) DEF Types
<1>8. VerifyInv'
  <2>1. /\ HeadAt' = HeadAt /\ AddrOf' = AddrOf /\ ImgSz' = ImgSz
    BY <1>2, SameImage
  <2>2. AddrOf[0 + 1] = 0 /\ backChunkNum = Len(img) /\ chunkOffset = 0
    <3>1. Laid(img, HeadAt, AddrOf)
      BY <1>4, ImagesLaid DEF HeadAt, AddrOf
    <3> QED
      BY <1>3, <1>4, <3>1 DEF Laid, WindowInv
  <2>3. leftChunkNum' = 0
    BY <1>2, <1>3
  <2>4. Hashed' = 0
    BY <2>3 DEF Hashed
  <2>5. ImgSz = ImgSz - 0 /\ ImgSz > 0
    BY <1>3, <1>5
  <2>6. leftLen' = ImgSz' - Hashed' /\ leftLen' > 0
    BY <1>1, <2>1, <2>4, <2>5
  <2>7. chunkOffset' = AddrOf'[leftChunkNum' + 1]
    BY <1>2, <2>1, <2>2, <2>3
  <2>8. to' > 0 /\ from' = ImgSz' /\ backChunkNum' = Len(img')
    BY <1>1, <1>2, <2>1, <2>2, SMTT(60)
  <2> QED
    BY <2>6, <2>7, <2>8 DEF VerifyInv
<1>9. Control'
  BY <1>6, <1>7, <1>8 DEF Control, FreshInv, Fresh, PlaceInv, Parsing, NoneLost
<1> QED
  BY <1>2, <1>3, <1>6, <1>9

(* A pass of the verification ends at a chunk header, or with the image.     *)
LEMMA ControlVerifyChunk ==
    ASSUME Control, VerifyChunk
    PROVE  /\ Control' /\ pc' \in {"failed", "verify", "ended"}
           /\ pc' # "failed" =>
                 /\ HeadAt' = HeadAt /\ ImgSz' = ImgSz
                 /\ pc' = "ended" => HeadAt[LastRead + 1] = ImgSz
                 /\ pc' = "verify" => Hashed' = HeadAt[LastRead + 1]
<1>1. /\ pc = "verify" /\ leftLen > 0
      /\ chunkOffset' = chunkOffset + AddrOf[LastRead + 1] - AddrOf[leftChunkNum + 1]
      /\ leftChunkNum' = LastRead
      /\ leftLen' = leftLen - HeadWords - DataWords
  BY VerifyStep
<1>2. \/ pc' = "failed" /\ faults' = faults \cup {"io"}
      \/ /\ pc' = (IF leftLen - HeadWords - DataWords = 0 THEN "ended"
                   ELSE IF HeadWords = 0 THEN "failed" ELSE pc)
         /\ faults' = faults
  BY VerifyStep, ZenonT(60)
<1>3. /\ img' = img /\ erased' = erased /\ media' = media /\ pktHeadLen' = pktHeadLen
      /\ notWrBackSz4LongChunk' = notWrBackSz4LongChunk
      /\ nextFlashAddr4LastLongChunk' = nextFlashAddr4LastLongChunk
      /\ backChunkNum' = backChunkNum /\ nextMediaOffset' = nextMediaOffset
      /\ fillValBuf' = fillValBuf /\ filledBufValidLen' = filledBufValidLen
      /\ from' = from /\ to' = to
      /\ unParsedBufLen' = unParsedBufLen /\ pChunk' = pChunk /\ flashAddrStart' = flashAddrStart
  BY VerifyStep
<1>4. /\ Len(img) \in Nat /\ leftChunkNum \in 0..Len(img)
      /\ LastRead \in leftChunkNum..Len(img) /\ (leftChunkNum # 0 => LastRead > leftChunkNum)
      /\ DataWords \in Nat /\ HeadWords \in Nat /\ HeadWords > 0
      /\ HeadAt[LastRead + 1] \in Nat
      /\ HeadAt[LastRead + 1] <= ImgSz /\ ImgSz \in Nat
      /\ Hashed + HeadWords + DataWords = HeadAt[LastRead + 1]
      /\ AddrOf[LastRead + 1] \in Nat /\ AddrOf[leftChunkNum + 1] \in Nat
      /\ HeadAt[leftChunkNum + 1] \in Nat
  BY <1>1, OnePass
<1>5. /\ Types /\ TypeOK /\ to > 0 /\ from = ImgSz /\ backChunkNum = Len(img)
      /\ chunkOffset = AddrOf[leftChunkNum + 1] /\ leftLen = ImgSz - Hashed
      /\ faults \subseteq {"io", "fillCut", "fillLost", "padded"}
  BY <1>1 DEF Control, Types, TypeOK, VerifyInv
<1>6. Hashed \in Nat
  BY <1>4 DEF Hashed
<1> DEFINE left == leftLen - HeadWords - DataWords
<1>7. left = ImgSz - HeadAt[LastRead + 1] /\ left \in Nat
  BY <1>4, <1>5, <1>6
<1>8. chunkOffset' = AddrOf[LastRead + 1]
  <2>1. chunkOffset + AddrOf[LastRead + 1] - AddrOf[leftChunkNum + 1] = AddrOf[LastRead + 1]
    BY <1>4, <1>5
  <2> QED
    BY <1>1, <2>1
<1> HIDE DEF left
<1>9. HeadAt' = HeadAt /\ AddrOf' = AddrOf /\ ImgSz' = ImgSz
  BY <1>3, SameImage
<1>10. leftLen' = left
  BY <1>1 DEF left
<1>11. Types'
  <2>1. LastRead \in 0..Len(img)
    BY <1>4
  <2>2. pc' \in {"idle", "long", "chunks", "verify", "ended", "failed"}
        /\ faults' \subseteq {"io", "fillCut", "fillLost", "padded"}
    BY <1>1, <1>2, <1>5, ZenonT(60)
  <2>3. TypeOK'
    BY <1>1, <1>3, <1>4, <1>5, <1>7, <1>8, <1>10, <2>1, <2>2, Zenon DEF TypeOK
  <2> QED
    BY <1>3, <1>5, <2>3 DEF Types
<1>12. CASE pc' = "failed" /\ faults' = faults \cup {"io"}
  <2>1. NoneLost'
    BY <1>12 DEF NoneLost
  <2> QED
    BY <1>11, <1>12, <2>1, ControlFailed
<1>13. CASE /\ pc' = (IF leftLen - HeadWords - DataWords = 0 THEN "ended"
                      ELSE IF HeadWords = 0 THEN "failed" ELSE pc)
            /\ faults' = faults
  <2>1. pc' = IF left = 0 THEN "ended" ELSE "verify"
    BY <1>1, <1>4, <1>13 DEF left
  <2>2. to' > 0 /\ from' = ImgSz' /\ backChunkNum' = Len(img')
    BY <1>3, <1>5, <1>9
  <2>3. CASE left = 0
    <3>1. pc' = "ended" /\ HeadAt[LastRead + 1] = ImgSz
      BY <1>4, <1>7, <2>1, <2>3
    <3>2. VerifyInv'
      BY <2>2, <3>1 DEF VerifyInv
    <3>3. Control'
      BY <1>11, <3>1, <3>2 DEF Control, FreshInv, Fresh, PlaceInv, Parsing, NoneLost
    <3> QED
      BY <1>9, <3>1, <3>3
  <2>4. CASE left # 0
    <3>1. pc' = "verify" /\ left > 0
      BY <1>7, <2>1, <2>4
    <3>2. LastRead # 0
      <4>1. SUFFICES ASSUME LastRead = 0 PROVE FALSE
        OBVIOUS
      <4>2. leftChunkNum = 0
        BY <1>4, <4>1
      <4>3. Len(img) = 0
        <5>1. WithData = {} \/ LastRead \in WithData
          <6>1. WithData \in SUBSET Nat
            BY <1>4, <1>5 DEF WithData
          <6>2. WithData # {} => \E i \in WithData : \A j \in WithData : i <= j
            BY <6>1, Least
          <6> QED
            BY <6>2 DEF LastRead
        <5>2. LastRead \notin WithData
          BY <4>1, <4>2 DEF WithData
        <5>3. LastRead = backChunkNum
          BY <5>1, <5>2 DEF LastRead
        <5> QED
          BY <1>5, <4>1, <5>3
      <4>4. HeadAt[LastRead + 1] = ImgSz
        BY <4>1, <4>3 DEF ImgSz
      <4> QED
        BY <1>4, <1>7, <2>4, <4>4
    <3>3. Hashed' = HeadAt[LastRead + 1]
      BY <1>1, <1>9, <3>2 DEF Hashed
    <3>4. leftLen' = ImgSz' - Hashed' /\ leftLen' > 0
      BY <1>7, <1>9, <1>10, <3>1, <3>3, Zenon
    <3>5. chunkOffset' = AddrOf'[leftChunkNum' + 1]
      BY <1>1, <1>8, <1>9, Zenon
    <3>6. VerifyInv'
      BY <2>2, <3>4, <3>5, SMTT(60) DEF VerifyInv
    <3>7. Control'
      BY <1>11, <3>1, <3>6 DEF Control, FreshInv, Fresh, PlaceInv, Parsing, NoneLost
    <3> QED
      BY <1>9, <3>1, <3>3, <3>7
  <2> QED
    BY <2>3, <2>4
<1> QED
  BY <1>2, <1>12, <1>13

(* The word at offset o of image im with the headers at h.                    *)
WordOf(im, h, o) ==
    LET fills == {i \in 1..Len(im) : im[i].type = "fill" /\ o = h[i] + ChunkHead}
    IN IF fills = {} THEN o ELSE im[CHOOSE i \in fills : TRUE].val

(* The words of the image never change.                                      *)
LEMMA SameWords ==
    ASSUME img' = img
    PROVE  \A o : Word(o)' = Word(o)
<1>1. HeadAt' = HeadAt
  BY SameImage
<1>2. \A o : Word(o) = WordOf(img, HeadAt, o) /\ Word(o)' = WordOf(img', HeadAt', o)
  BY Zenon DEF Word, WordOf
<1> QED
  BY <1>1, <1>2

(* Nothing that the proofs speak of changes in a stuttering step.            *)
LEMMA Stutter ==
    ASSUME UNCHANGED vars
    PROVE  /\ Control => Control'
           /\ BufInv => BufInv'
           /\ MediaInv => MediaInv'
           /\ SumInv => SumInv'
           /\ HashesImage => HashesImage'
<1>1. /\ img' = img /\ erased' = erased /\ media' = media /\ from' = from /\ to' = to
      /\ fillValBuf' = fillValBuf /\ filledBufValidLen' = filledBufValidLen
      /\ nextMediaOffset' = nextMediaOffset /\ faults' = faults
      /\ leftChunkNum' = leftChunkNum /\ pktHeadLen' = pktHeadLen
      /\ notWrBackSz4LongChunk' = notWrBackSz4LongChunk
      /\ nextFlashAddr4LastLongChunk' = nextFlashAddr4LastLongChunk
      /\ backChunkNum' = backChunkNum /\ chunkOffset' = chunkOffset
      /\ unParsedBufLen' = unParsedBufLen /\ pChunk' = pChunk /\ flashAddrStart' = flashAddrStart
      /\ leftLen' = leftLen /\ sum' = sum /\ pc' = pc
  BY DEF vars, cache, states, call
<1>2. /\ HeadAt' = HeadAt /\ AddrOf' = AddrOf /\ ImgSz' = ImgSz /\ Cur' = Cur
      /\ Taken' = Taken /\ Reached' = Reached
  BY <1>1, SameLong
<1>3. (Types => Types') /\ (NoneLost => NoneLost') /\ (FreshInv => FreshInv')
  BY <1>1, Zenon DEF Types, TypeOK, NoneLost, FreshInv, Fresh
<1>4. Wrapped' <=> Wrapped
  BY <1>1, <1>2, Zenon DEF Wrapped
<1>5. Parsing' <=> Parsing
  BY <1>1, Zenon DEF Parsing
<1>6. /\ LongInv => LongInv'
      /\ WindowInv => WindowInv'
      /\ AtIdle => AtIdle'
      /\ AtLong => AtLong'
      /\ AtChunks => AtChunks'
  BY <1>1, <1>2, <1>4, Zenon DEF LongInv, WindowInv, AtIdle, AtLong, AtChunks, ChunkDataLen, DataLen, MaxLeft
<1>7. PlaceInv => PlaceInv'
  BY <1>1, <1>5, <1>6, Zenon DEF PlaceInv
<1>8. VerifyInv => VerifyInv'
  BY <1>1, <1>2, Zenon DEF VerifyInv, Hashed
<1>9. BufInv => BufInv'
  BY <1>1, Zenon DEF BufInv
<1>10. MediaInv => MediaInv'
  <2>1. (WrittenSoFar => WrittenSoFar') /\ (CleanBehind => CleanBehind') /\ (AllPut => AllPut')
    BY <1>1, <1>2, Zenon DEF WrittenSoFar, CleanBehind, AllPut, ChunkPut, CellOK, Holds, ChunkDataLen, DataLen
  <2> QED
    BY <1>1, <1>4, <1>5, <2>1, Zenon DEF MediaInv
<1>11. (SumInv => SumInv') /\ (HashesImage => HashesImage')
  <2>1. Hashed' = Hashed
    BY <1>1, <1>2, Zenon DEF Hashed
  <2>2. Words(0, Hashed)' = Words(0, Hashed) /\ Words(0, ImgSz)' = Words(0, ImgSz)
    BY <1>1, <1>2, <2>1, SameWords DEF Words
  <2> QED
    BY <1>1, <2>2, Zenon DEF SumInv, HashesImage
<1> QED
  BY <1>3, <1>7, <1>8, <1>9, <1>10, <1>11 DEF Control

-----------------------------------------------------------------------------
(* The theorems about the parser's bookkeeping.                              *)

(* ParserInv holds before the first call.                                    *)
LEMMA InitParser == Init => ParserInv
<1> SUFFICES ASSUME Init PROVE Control /\ BufInv
  BY DEF ParserInv
<1>1. Control
  BY ControlInit
<1>2. BufInv
  <2>1. filledBufValidLen \in {0, FillBufSz \div 2} /\ FillBufSz \in Nat /\ FillBufSz > 0
        /\ fillValBuf = [k \in 0..(FillBufSz - 1) |->
                            IF k < filledBufValidLen THEN Erased - 1 ELSE Garbage]
    BY Sizes DEF Init
  <2>2. filledBufValidLen \in Nat /\ filledBufValidLen <= FillBufSz
    BY <2>1
  <2> QED
    BY <2>1, <2>2 DEF BufInv
<1> QED
  BY <1>1, <1>2

(* A step that does not touch the fill buffer.                               *)
LEMMA SameBuffer ==
    ASSUME BufInv, UNCHANGED cache
    PROVE  BufInv'
  BY Zenon DEF BufInv, cache

(* Every step of the parser preserves ParserInv.                             *)
LEMMA NextParser == ParserInv /\ [Next]_vars => ParserInv'
<1> SUFFICES ASSUME Control, BufInv, [Next]_vars PROVE Control' /\ BufInv'
  BY DEF ParserInv
<1>1. CASE FirstCall
  <2>1. UNCHANGED cache
    BY <1>1 DEF FirstCall
  <2> QED
    BY <1>1, <2>1, ControlFirst, SameBuffer, Zenon
<1>2. CASE NextCall
  <2>1. UNCHANGED cache
    BY <1>2 DEF NextCall
  <2> QED
    BY <1>2, <2>1, ControlNextCall, SameBuffer, Zenon
<1>3. CASE LongChunk
  <2>1. UNCHANGED cache
    BY <1>3 DEF LongChunk, Fail
  <2> QED
    BY <1>3, <2>1, ControlLong, SameBuffer, Zenon
<1>4. CASE LoopEnd
  <2>1. UNCHANGED cache
    BY <1>4 DEF LoopEnd
  <2> QED
    BY <1>4, <2>1, ControlLoopEnd, SameBuffer, Zenon
<1>5. CASE BadChunk
  <2>1. UNCHANGED cache
    BY <1>5 DEF BadChunk, Fail
  <2> QED
    BY <1>5, <2>1, ControlBad, SameBuffer, Zenon
<1>6. CASE RawChunk
  <2>1. UNCHANGED cache
    BY <1>6, ZenonT(60) DEF RawChunk, Fail, NextChunk
  <2> QED
    BY <1>6, <2>1, ControlRaw, SameBuffer, Zenon
<1>7. CASE DontCareChunk
  <2>1. UNCHANGED cache
    BY <1>7, ZenonT(60) DEF DontCareChunk
  <2> QED
    BY <1>7, <2>1, ControlDontCare, SameBuffer, Zenon
<1>8. CASE FillChunk
  BY <1>8, ControlFill, Zenon
<1>9. CASE VerifyStart
  <2>1. UNCHANGED cache
    BY <1>9 DEF VerifyStart
  <2> QED
    BY <1>9, <2>1, ControlVerifyStart, SameBuffer, Zenon
<1>10. CASE VerifyChunk
  <2>1. UNCHANGED cache
    BY <1>10, ZenonT(60) DEF VerifyChunk
  <2> QED
    BY <1>10, <2>1, ControlVerifyChunk, SameBuffer, Zenon
<1>11. CASE Ended
  BY <1>11, Stutter, Zenon DEF Ended
<1>12. CASE UNCHANGED vars
  BY <1>12, Stutter, Zenon
<1> QED
  BY <1>1, <1>2, <1>3, <1>4, <1>5, <1>6, <1>7, <1>8, <1>9, <1>10, <1>11, <1>12, ZenonT(60) DEF Next

(* ParserInv gives LeftIsSmall: the window was cut in a header or in a long  *)
(* chunk.                                                                    *)
LEMMA ParserLeftIsSmall == ParserInv => LeftIsSmall
<1> SUFFICES ASSUME Control, pc = "idle", from < ImgSz PROVE to - from < MaxLeft
  BY DEF ParserInv, LeftIsSmall, MaxLeft
<1>1. CASE to = 0
  <2>1. from = 0 /\ to = 0
    BY <1>1 DEF Control, FreshInv, Fresh
  <2> QED
    BY <2>1, Sizes
<1>2. CASE to > 0
  <2>1. Parsing
    BY <1>2 DEF Parsing
  <2> QED
    BY <2>1, WhereParsing DEF AtIdle
<1> QED
  BY <1>1, <1>2 DEF Control, Types, TypeOK

(* The parser's bookkeeping and the fill buffer are always as ParserInv      *)
(* says.                                                                     *)
THEOREM ParserHolds == Spec => []ParserInv
  BY InitParser, NextParser, PTL DEF Spec

(* TypeOK holds, for every set of images and every size of the buffers: in   *)
(* particular the counters stay numbers of their width.                      *)
THEOREM TypeCorrect == Spec => []TypeOK
<1>1. ParserInv => TypeOK
  BY DEF ParserInv, Control, Types
<1> QED
  BY <1>1, ParserHolds, PTL

(* LeftIsSmall holds: what a call leaves behind is less than a slot or a     *)
(* chunk header.                                                             *)
THEOREM LeftIsSmallHolds == Spec => []LeftIsSmall
  BY ParserLeftIsSmall, ParserHolds, PTL

(* NoneLost holds: a well-formed image fails only for a fault outside the    *)
(* parser, a fill chunk that is cut or a padded window.                      *)
THEOREM NoneLostHolds == Spec => []NoneLost
<1>1. ParserInv => NoneLost
  BY DEF ParserInv, Control
<1> QED
  BY <1>1, ParserHolds, PTL
=============================================================================
