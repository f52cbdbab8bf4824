-------------------------- MODULE SparseMediaProofs --------------------------
(***************************************************************************)
(* What the sparse image parser leaves on the medium, and what the         *)
(* verification hashes, on the ground of SparseImageProofs.                *)
(***************************************************************************)
EXTENDS SparseImageProofs

-----------------------------------------------------------------------------
(* What is on the medium.                                                    *)

(* The data of an image lie on its partition, chunk behind chunk.            *)
LEMMA CellPlace ==
    ASSUME img \in Images, NEW i \in 1..Len(img), NEW k \in 0..(ChunkDataLen(img[i]) - 1)
    PROVE  /\ AddrOf[i] + k \in 0..(MaxAddr - 1) /\ AddrOf[i] \in Nat /\ HeadAt[i] \in Nat
           /\ k \in Nat
           /\ \A j \in 1..(Len(img) + 1) : /\ AddrOf[j] \in Nat
                                           /\ j <= i => AddrOf[j] <= AddrOf[i] + k
                                           /\ i < j => AddrOf[i] + k < AddrOf[j]
<1>1. Laid(img, HeadAt, AddrOf)
  BY ImagesLaid DEF HeadAt, AddrOf
<1> DEFINE n == Len(img)
           d == ChunkDataLen(img[i])
<1>2. n \in Nat /\ i + 1 \in 1..(n + 1) /\ i \in 1..(n + 1) /\ n + 1 \in 1..(n + 1) /\ i \in Nat
  BY <1>1 DEF Laid
<1>3. /\ AddrOf[i] \in Nat /\ HeadAt[i] \in Nat /\ AddrOf[i + 1] = AddrOf[i] + d /\ img[i] \in Chunks
      /\ AddrOf[n + 1] \in Nat /\ AddrOf[n + 1] <= MaxAddr
  BY <1>1, <1>2 DEF Laid
<1>4. d \in Nat /\ k \in Nat /\ k < d /\ MaxAddr \in Nat
  <2>1. d \in Nat
    BY <1>3, ChunkSizes
  <2> QED
    BY <2>1, Sizes
<1>5. ASSUME NEW j \in 1..(n + 1)
      PROVE  /\ AddrOf[j] \in Nat
             /\ j <= i => AddrOf[j] <= AddrOf[i] + k
             /\ i < j => AddrOf[i] + k < AddrOf[j]
  <2>1. AddrOf[j] \in Nat
    BY <1>1 DEF Laid
  <2>2. j <= i => AddrOf[j] <= AddrOf[i]
    BY <1>1, <1>2 DEF Laid
  <2>3. i < j => AddrOf[i + 1] <= AddrOf[j]
    <3>1. i < j => i + 1 <= j
      BY <1>2
    <3> QED
      BY <1>1, <1>2, <3>1 DEF Laid
  <2> HIDE DEF d
  <2> QED
    BY <1>2, <1>3, <1>4, <2>1, <2>2, <2>3, SMTT(60)
<1>6. AddrOf[i] + k < AddrOf[n + 1]
  BY <1>2, <1>5
<1>7. AddrOf[i] + k \in 0..(MaxAddr - 1)
  BY <1>3, <1>4, <1>6, SMTT(60)
<1> QED
  BY <1>3, <1>4, <1>5, <1>7

(* What is reached on the medium.                                            *)
LEMMA ReachedPlace ==
    ASSUME Control, Parsing
    PROVE  Reached \in Int /\ Reached <= AddrOf[Cur] /\ Reached + notWrBackSz4LongChunk = AddrOf[Cur]
<1>1. img \in Images /\ leftChunkNum \in 0..Len(img) /\ notWrBackSz4LongChunk \in Nat
  BY WhereParsing
<1>2. AddrOf[Cur] \in Nat
  BY <1>1, Placed, ZenonT(60)
<1> QED
  BY <1>1, <1>2 DEF Reached

(* A step keeps the medium below x, and from x on.                            *)
KeptBelow(x) == \A y \in 0..(MaxAddr - 1) : y < x => media'[y] = media[y]
KeptFrom(x) == \A y \in 0..(MaxAddr - 1) : y >= x => media'[y] = media[y]

(* After a step the cells of the chunks passed, from what was reached before *)
(* up to r, hold what the image says.                                        *)
HeldUpTo(r) ==
    \A i \in 1..Len(img) : \A k \in 0..(ChunkDataLen(img[i]) - 1) :
        i < Cur' /\ Reached <= AddrOf[i] + k /\ AddrOf[i] + k < r =>
            Holds(img[i], HeadAt[i], k, media'[AddrOf[i] + k])

(* After a step the first n words of chunk Cur are on the medium.             *)
HeldFirst(n) == \A k \in 0..(n - 1) : Holds(img[Cur], HeadAt[Cur], k, media'[AddrOf[Cur] + k])

(* A step that changes the medium only between what was reached and what is  *)
(* reached now keeps the rest of it.                                         *)
LEMMA WrittenGrows ==
    ASSUME Control, Parsing, WrittenSoFar, img' = img, HeadAt' = HeadAt, AddrOf' = AddrOf,
           Cur' = Cur \/ Cur' = Cur + 1, NEW r \in Int, Reached' = r,
           KeptBelow(Reached), HeldUpTo(r)
    PROVE  (Cur' - 1 <= Len(img)) => WrittenSoFar'
<1>1. /\ img \in Images /\ Len(img) \in Nat /\ Cur \in 1..(Len(img) + 1) /\ Reached \in Int
      /\ Reached <= AddrOf[Cur]
  BY WhereParsing, Placed, ReachedPlace, ZenonT(60)
<1> SUFFICES ASSUME Cur' - 1 <= Len(img) PROVE WrittenSoFar'
  OBVIOUS
<1> DEFINE C == Cur'
<1>2. (C = Cur \/ C = Cur + 1) /\ C - 1 <= Len(img)
  OBVIOUS
<1> HIDE DEF C
<1>3. ASSUME NEW i \in 1..(C - 1), NEW k \in 0..(ChunkDataLen(img[i]) - 1), AddrOf[i] + k < r
      PROVE  Holds(img[i], HeadAt[i], k, media'[AddrOf[i] + k])
  <2>1. i \in 1..Len(img) /\ i < C /\ C \in Nat
    BY <1>1, <1>2
  <2>2. /\ AddrOf[i] + k \in 0..(MaxAddr - 1) /\ AddrOf[Cur] \in Nat /\ AddrOf[i] + k \in Int
        /\ Cur <= i => AddrOf[Cur] <= AddrOf[i] + k
    BY <1>1, <2>1, CellPlace, Sizes
  <2>3. CASE Reached <= AddrOf[i] + k
    BY <1>3, <2>1, <2>3, ZenonT(60) DEF C, HeldUpTo
  <2>4. CASE ~(Reached <= AddrOf[i] + k)
    <3>1. i \in 1..(Cur - 1) /\ AddrOf[i] + k < Reached
      BY <1>1, <2>1, <2>2, <2>4
    <3>2. media'[AddrOf[i] + k] = media[AddrOf[i] + k]
      BY <2>2, <3>1 DEF KeptBelow
    <3>3. Holds(img[i], HeadAt[i], k, media[AddrOf[i] + k])
      BY <3>1 DEF WrittenSoFar, CellOK
    <3> QED
      BY <3>2, <3>3, ZenonT(60)
  <2> QED
    BY <2>3, <2>4
<1>4. \A i \in 1..(Cur' - 1) : \A k \in 0..(ChunkDataLen(img[i])' - 1) :
         AddrOf'[i] + k < Reached' => Holds(img'[i], HeadAt'[i], k, media'[AddrOf'[i] + k])
  <2>1. \A i : ChunkDataLen(img[i])' = ChunkDataLen(img[i])
    BY DEF ChunkDataLen, DataLen
  <2> QED
    BY <1>3, <2>1 DEF C
<1> QED
  BY <1>4, ZenonT(60) DEF WrittenSoFar, CellOK

(* The medium stays clean behind what is reached now.                        *)
LEMMA CleanGrows ==
    ASSUME CleanBehind, Reached \in Int, NEW r \in Int, Reached' = r, Reached <= r,
           KeptFrom(r)
    PROVE  CleanBehind'
<1>1. ASSUME NEW x \in 0..(MaxAddr - 1), x >= r PROVE media'[x] = Erased
  <2>1. x >= Reached
    BY <1>1, Sizes
  <2> QED
    BY <1>1, <2>1 DEF CleanBehind, KeptFrom
<1> QED
  BY <1>1 DEF CleanBehind, Erased

(* The medium where n words from o on are written at a.                      *)
LEMMA WriteCells ==
    ASSUME media \in [0..(MaxAddr - 1) -> Int], NEW a \in Int, NEW n \in Int, NEW o \in Int,
           Write(a, n, o)
    PROVE  \A x \in 0..(MaxAddr - 1) :
              media'[x] = IF x \in a..(a + n - 1) THEN o + (x - a) ELSE media[x]
<1>1. DOMAIN media = 0..(MaxAddr - 1)
  OBVIOUS
<1> QED
  BY <1>1 DEF Write

(* Outside the loop nothing was taken that was not received.                 *)
LEMMA NotWrapped ==
    ASSUME Control, Parsing, pc # "chunks"
    PROVE  ~Wrapped
<1>1. from \in Nat /\ to \in Nat /\ Taken = from /\ from <= to
  BY WhereParsing DEF Parsing, AtIdle, AtLong
<1> QED
  BY <1>1 DEF Wrapped

(* The medium is as before, and so is the parser's place.                    *)
LEMMA MediaSame ==
    ASSUME Control, Parsing, ~Wrapped, MediaInv, media' = media, erased' = erased, img' = img,
           leftChunkNum' = leftChunkNum, notWrBackSz4LongChunk' = notWrBackSz4LongChunk,
           faults \subseteq faults', pc' \notin {"verify", "ended"}
    PROVE  MediaInv'
<1>1. /\ HeadAt' = HeadAt /\ AddrOf' = AddrOf /\ Cur' = Cur /\ Reached' = Reached
  BY SameLong
<1>2. (WrittenSoFar => WrittenSoFar') /\ (CleanBehind => CleanBehind')
  BY <1>1 DEF WrittenSoFar, CleanBehind, CellOK, Holds, ChunkDataLen, DataLen, Erased
<1>3. ("fillLost" \notin faults => WrittenSoFar) /\ (erased => CleanBehind)
  BY DEF MediaInv
<1> QED
  BY <1>2, <1>3 DEF MediaInv

(* At the first chunk nothing has been written.                              *)
LEMMA MediaFirst ==
    ASSUME Control, FirstCall
    PROVE  MediaInv'
<1>1. pc = "idle" /\ to = 0 /\ media' = media /\ img' = img /\ erased' = erased
  BY DEF FirstCall
<1>2. pc' = "chunks" /\ leftChunkNum' = Len(img) /\ notWrBackSz4LongChunk' = 0
  BY ControlFirst
<1>3. media = [a \in 0..(MaxAddr - 1) |-> IF erased THEN Erased ELSE Garbage]
  BY <1>1 DEF Control, FreshInv, Fresh
<1>4. Cur' = 1
  <2>1. Len(img) \in Nat /\ Cur' = Len(img) - leftChunkNum' + 1
    BY <1>1, SameImage, Placed DEF Control, Types, TypeOK
  <2>2. Len(img) - Len(img) + 1 = 1
    BY <2>1
  <2> QED
    BY <1>2, <2>1, <2>2, ZenonT(60)
<1>5. WrittenSoFar'
  <2>1. 1..(Cur' - 1) = {}
    BY <1>4
  <2> QED
    BY <2>1 DEF WrittenSoFar
<1>6. erased' => CleanBehind'
  BY <1>1, <1>3 DEF CleanBehind, Erased
<1> QED
  BY <1>2, <1>5, <1>6 DEF MediaInv

(* A part of a long chunk is written where the part before it ended.         *)
LEMMA MediaLong ==
    ASSUME Control, MediaInv, LongChunk
    PROVE  MediaInv'
<1> DEFINE n == ThisWriteLen(unParsedBufLen)
           w == notWrBackSz4LongChunk
           e == nextFlashAddr4LastLongChunk
<1>1. \/ pc' = "failed"
      \/ /\ Parsing' /\ ~Wrapped' /\ leftChunkNum' = leftChunkNum /\ faults' = faults
         /\ w' = w - n
         /\ Write(e, n, from)
  BY ControlLong
<1>2. CASE pc' = "failed"
  BY <1>2 DEF MediaInv, Parsing
<1>3. CASE /\ Parsing' /\ ~Wrapped' /\ leftChunkNum' = leftChunkNum /\ faults' = faults
           /\ w' = w - n
           /\ Write(e, n, from)
  <2>1. pc = "long" /\ Parsing /\ img' = img /\ erased' = erased
    BY DEF LongChunk, Parsing, Fail
  <2>2. /\ Types /\ LongInv /\ AtLong /\ img \in Images /\ leftChunkNum \in 0..Len(img)
        /\ Len(img) \in Nat /\ Taken + w = HeadAt[Cur]
        /\ from \in Nat /\ w \in Nat /\ unParsedBufLen \in Nat /\ e \in Nat
    BY <2>1, WhereParsing
  <2>3. w > 0 /\ Taken = from /\ ~Wrapped
    BY <2>1, <2>2, NotWrapped DEF AtLong
  <2>4. /\ leftChunkNum < Len(img) /\ img[Cur - 1].type = "raw"
        /\ w <= ChunkDataLen(img[Cur - 1]) /\ e + w = AddrOf[Cur]
    BY <2>2, <2>3 DEF LongInv
  <2>5. n \in Nat /\ n <= w
    BY <2>2, LongLength, ZenonT(60)
  <2>6. HeadAt' = HeadAt /\ AddrOf' = AddrOf /\ Cur' = Cur
    BY <1>3, <2>1, SameImage, SamePlace
  <2>7. /\ Cur \in 1..(Len(img) + 1) /\ Cur - 1 \in 1..Len(img) /\ img[Cur - 1] \in Chunks
        /\ HeadAt[Cur] = HeadAt[Cur - 1] + TotalSz(img[Cur - 1])
        /\ AddrOf[Cur] = AddrOf[Cur - 1] + ChunkDataLen(img[Cur - 1])
        /\ HeadAt[Cur - 1] \in Nat /\ AddrOf[Cur - 1] \in Nat /\ AddrOf[Cur] \in Nat
        /\ HeadAt[Cur] \in Nat
    BY <2>2, <2>4, Placed
  <2> DEFINE d == ChunkDataLen(img[Cur - 1])
  <2>8. d \in Nat /\ TotalSz(img[Cur - 1]) = ChunkHead + d
    BY <2>4, <2>7, ChunkSizes, ZenonT(60)
  <2> HIDE DEF n, w, e, d
  <2>9. Reached = e
    BY <2>2, <2>4, <2>7 DEF Reached, w
  <2>10. Reached' = e + n
    <3>1. Reached' = AddrOf[Cur] - (w - n)
      BY <1>3, <2>6 DEF Reached, w
    <3>2. AddrOf[Cur] - (w - n) = e + n
      BY <2>2, <2>4, <2>5, <2>7
    <3> QED
      BY <3>1, <3>2
  <2>11. \A x \in 0..(MaxAddr - 1) :
            media'[x] = IF x \in e..(e + n - 1) THEN from + (x - e) ELSE media[x]
    BY <1>3, <2>2, <2>5, WriteCells DEF Types
  <2>12. \A x \in 0..(MaxAddr - 1) : x < e \/ x >= e + n => media'[x] = media[x]
    BY <2>2, <2>5, <2>11, Sizes
  <2>13. ASSUME NEW i \in 1..Len(img), NEW k \in 0..(ChunkDataLen(img[i]) - 1),
                i < Cur, e <= AddrOf[i] + k, AddrOf[i] + k < e + n
         PROVE  Holds(img[i], HeadAt[i], k, media'[AddrOf[i] + k])
    <3>1. /\ AddrOf[i] + k \in 0..(MaxAddr - 1) /\ k \in Nat /\ AddrOf[i] \in Nat
          /\ i < Cur - 1 => AddrOf[i] + k < AddrOf[Cur - 1]
      <4>1. Cur - 1 \in 1..(Len(img) + 1)
        BY <2>2, <2>7
      <4> QED
        BY <2>2, <4>1, CellPlace
    <3>2. AddrOf[Cur - 1] <= e
      BY <2>2, <2>4, <2>7, <2>8 DEF d
    <3>3. i = Cur - 1
      BY <2>2, <2>7, <2>13, <3>1, <3>2
    <3>4. AddrOf[i] + k \in e..(e + n - 1)
      BY <2>2, <2>5, <2>13, <3>1
    <3>5. media'[AddrOf[i] + k] = from + ((AddrOf[i] + k) - e)
      BY <2>11, <3>1, <3>4
    <3>6. from + ((AddrOf[i] + k) - e) = HeadAt[i] + ChunkHead + k
      <4>1. HeadAt[Cur] = HeadAt[i] + ChunkHead + d /\ AddrOf[Cur] = AddrOf[i] + d /\ HeadAt[i] \in Nat
        BY <2>7, <2>8, <3>3, Sizes DEF d
      <4>2. from + w = HeadAt[Cur]
        BY <2>2, <2>3
      <4> DEFINE A == AddrOf[i]
                 H == HeadAt[i]
      <4>3. /\ A \in Nat /\ H \in Nat /\ d \in Nat /\ from \in Nat /\ w \in Nat /\ e \in Nat
            /\ ChunkHead \in Nat
        BY <2>2, <2>8, <3>1, <4>1, Sizes, ZenonT(60)
      <4>4. from + w = H + ChunkHead + d /\ e + w = A + d
        BY <2>4, <4>1, <4>2
      <4> HIDE DEF A, H
      <4>5. from + ((A + k) - e) = H + ChunkHead + k
        BY <3>1, <4>3, <4>4
      <4> QED
        BY <4>5 DEF A, H
    <3>7. img[i].type = "raw"
      BY <2>4, <3>3
    <3> QED
      BY <3>5, <3>6, <3>7 DEF Holds
  <2>14. e + n \in Int /\ Cur - 1 <= Len(img) /\ e <= e + n
    BY <2>2, <2>5, <2>7
  <2>15. WrittenSoFar => WrittenSoFar'
    <3> SUFFICES ASSUME WrittenSoFar PROVE WrittenSoFar'
      OBVIOUS
    <3>1. Cur' - 1 <= Len(img)
      BY <2>6, <2>14
    <3>2. HeldUpTo(e + n)
      BY <2>6, <2>9, <2>13 DEF HeldUpTo
    <3>3. KeptBelow(Reached)
      BY <2>9, <2>12 DEF KeptBelow
    <3> QED
      BY <2>1, <2>6, <2>10, <2>14, <3>1, <3>2, <3>3, WrittenGrows
  <2>16. CleanBehind => CleanBehind'
    <3> SUFFICES ASSUME CleanBehind PROVE CleanBehind'
      OBVIOUS
    <3>1. Reached \in Int /\ Reached <= e + n
      BY <2>2, <2>9, <2>14
    <3>2. KeptFrom(e + n)
      BY <2>12 DEF KeptFrom
    <3> QED
      BY <2>10, <2>14, <3>1, <3>2, CleanGrows
  <2>17. ("fillLost" \notin faults => WrittenSoFar) /\ (erased => CleanBehind)
    BY <2>1, <2>3 DEF MediaInv
  <2> QED
    BY <1>3, <2>1, <2>15, <2>16, <2>17 DEF MediaInv, Parsing
<1> QED
  BY <1>1, <1>2, <1>3

(* One turn of the loop: of chunk Cur, n words are on the medium now.         *)
LEMMA MediaTurn ==
    ASSUME Control, MediaInv, InLoop, ~HeadCut, AtHead, pc' = "chunks", Cur' = Cur + 1,
           HeadAt' = HeadAt, AddrOf' = AddrOf, img' = img, erased' = erased, faults \subseteq faults',
           NEW n \in Nat, n <= ChunkDataLen(img[Cur]),
           notWrBackSz4LongChunk' = ChunkDataLen(img[Cur]) - n,
           KeptBelow(AddrOf[Cur]), KeptFrom(AddrOf[Cur] + n),
           "fillLost" \notin faults' => HeldFirst(n)
    PROVE  MediaInv'
<1> DEFINE a == AddrOf[Cur]
           d == ChunkDataLen(img[Cur])
<1>1. /\ Parsing /\ ~Wrapped /\ notWrBackSz4LongChunk = 0 /\ Cur \in 1..Len(img) /\ Cur \in Nat
      /\ img[Cur] \in Chunks /\ a \in Nat /\ AddrOf[Cur + 1] = a + d
  BY BeforeChunk, ZenonT(60)
<1>2. d \in Nat /\ img \in Images /\ Len(img) \in Nat
  BY <1>1, ChunkSizes, WhereParsing, ZenonT(60)
<1> HIDE DEF d
<1>3. Reached = a
  BY <1>1 DEF Reached
<1>4. Reached' = a + n
  <2>1. Reached' = (a + d) - (d - n)
    BY <1>1 DEF Reached, d
  <2>2. (a + d) - (d - n) = a + n
    BY <1>1, <1>2
  <2> QED
    BY <2>1, <2>2
<1>5. a + n \in Int /\ a <= a + n /\ a \in Int /\ (Cur + 1) - 1 <= Len(img)
  BY <1>1, <1>2
<1>6. ASSUME "fillLost" \notin faults', NEW i \in 1..Len(img), NEW k \in 0..(ChunkDataLen(img[i]) - 1),
             i < Cur + 1, a <= AddrOf[i] + k, AddrOf[i] + k < a + n
      PROVE  Holds(img[i], HeadAt[i], k, media'[AddrOf[i] + k])
  <2>1. AddrOf[i] \in Nat /\ k \in Nat /\ (i < Cur => AddrOf[i] + k < a)
    <3>1. Cur \in 1..(Len(img) + 1)
      BY <1>1, <1>2
    <3> QED
      BY <1>2, <3>1, CellPlace
  <2>2. i = Cur
    BY <1>1, <1>6, <2>1
  <2>3. k \in 0..(n - 1)
    BY <1>1, <1>6, <2>1, <2>2
  <2> QED
    BY <1>6, <2>2, <2>3, ZenonT(60) DEF HeldFirst
<1>7. "fillLost" \notin faults' => WrittenSoFar'
  <2> SUFFICES ASSUME "fillLost" \notin faults' PROVE WrittenSoFar'
    OBVIOUS
  <2>1. WrittenSoFar
    BY <1>1, ZenonT(60) DEF MediaInv
  <2>2. HeldUpTo(a + n)
    BY <1>3, <1>6 DEF HeldUpTo
  <2>3. KeptBelow(Reached)
    BY <1>3
  <2>4. Cur' - 1 <= Len(img)
    BY <1>5
  <2> QED
    BY <1>1, <1>4, <1>5, <2>1, <2>2, <2>3, <2>4, WrittenGrows
<1>8. erased => CleanBehind'
  <2> SUFFICES ASSUME erased PROVE CleanBehind'
    OBVIOUS
  <2>1. CleanBehind
    BY <1>1 DEF MediaInv
  <2> QED
    BY <1>3, <1>4, <1>5, <2>1, CleanGrows
<1> QED
  BY <1>7, <1>8, ZenonT(60) DEF MediaInv

(* The words of a raw chunk are written at the address of its data.          *)
LEMMA MediaRaw ==
    ASSUME Control, MediaInv, RawChunk
    PROVE  MediaInv'
<1> DEFINE a == AddrOf[Cur]
           h == HeadAt[Cur]
<1>1. CASE pc' = "failed"
  BY <1>1 DEF MediaInv, Parsing
<1>2. CASE pc' # "failed"
  <2>1. /\ InLoop /\ ~HeadCut /\ AtHead /\ img[Cur].type = "raw"
        /\ pc' = "chunks" /\ Cur' = Cur + 1 /\ HeadAt' = HeadAt /\ AddrOf' = AddrOf
        /\ img' = img /\ erased' = erased /\ faults' = faults
        /\ \E n \in Nat : /\ Write(flashAddrStart, n, pChunk + ChunkHead)
                          /\ n <= ChunkDataLen(img[Cur])
                          /\ notWrBackSz4LongChunk' = ChunkDataLen(img[Cur]) - n
    BY <1>2, ControlRaw, ZenonT(60)
  <2>2. PICK n \in Nat : /\ Write(flashAddrStart, n, pChunk + ChunkHead)
                         /\ n <= ChunkDataLen(img[Cur])
                         /\ notWrBackSz4LongChunk' = ChunkDataLen(img[Cur]) - n
    BY <2>1, ZenonT(60)
  <2>3. /\ flashAddrStart = a /\ pChunk = h /\ a \in Nat /\ h \in Nat /\ img[Cur] \in Chunks
        /\ a + ChunkDataLen(img[Cur]) <= MaxAddr
    BY <2>1, BeforeChunk, ZenonT(60)
  <2>4. ChunkDataLen(img[Cur]) \in Nat /\ media \in [0..(MaxAddr - 1) -> Int] /\ ChunkHead \in Nat
        /\ MaxAddr \in Nat
    BY <2>3, ChunkSizes, Sizes DEF Control, Types
  <2> HIDE DEF a, h
  <2>5. \A x \in 0..(MaxAddr - 1) :
           media'[x] = IF x \in a..(a + n - 1) THEN (h + ChunkHead) + (x - a) ELSE media[x]
    BY <2>2, <2>3, <2>4, WriteCells
  <2>6. KeptBelow(a) /\ KeptFrom(a + n)
    BY <2>3, <2>4, <2>5 DEF KeptBelow, KeptFrom
  <2>7. ASSUME NEW k \in 0..(n - 1) PROVE Holds(img[Cur], h, k, media'[a + k])
    <3>1. a + k \in 0..(MaxAddr - 1) /\ a + k \in a..(a + n - 1)
      BY <2>2, <2>3, <2>4
    <3>2. media'[a + k] = (h + ChunkHead) + ((a + k) - a)
      BY <2>5, <3>1
    <3>3. (h + ChunkHead) + ((a + k) - a) = h + ChunkHead + k
      BY <2>3, <2>4
    <3> QED
      BY <2>1, <3>2, <3>3 DEF Holds
  <2>8. HeldFirst(n)
    BY <2>7 DEF HeldFirst, a, h
  <2> QED
    BY <2>1, <2>2, <2>6, <2>8, MediaTurn, ZenonT(60) DEF a
<1> QED
  BY <1>1, <1>2, ZenonT(60)

(* A chunk without data leaves the medium alone.                             *)
LEMMA MediaDontCare ==
    ASSUME Control, MediaInv, DontCareChunk
    PROVE  MediaInv'
<1>1. /\ InLoop /\ ~HeadCut /\ AtHead /\ img[Cur].type = "dontcare"
      /\ pc' = "chunks" /\ Cur' = Cur + 1 /\ HeadAt' = HeadAt /\ AddrOf' = AddrOf
      /\ img' = img /\ erased' = erased /\ faults' = faults /\ media' = media
      /\ notWrBackSz4LongChunk' = 0
  BY ControlDontCare, ZenonT(60)
<1> DEFINE d == ChunkDataLen(img[Cur])
<1>2. d \in Nat
  BY <1>1, BeforeChunk, ChunkSizes
<1>3. d <= d /\ d - d = 0
  BY <1>2
<1>4. \A k, v : Holds(img[Cur], HeadAt[Cur], k, v)
  BY <1>1, ZenonT(60) DEF Holds
<1>5. KeptBelow(AddrOf[Cur]) /\ KeptFrom(AddrOf[Cur] + d) /\ HeldFirst(d)
  BY <1>1, <1>4, ZenonT(60) DEF KeptBelow, KeptFrom, HeldFirst
<1> QED
  BY <1>1, <1>2, <1>3, <1>5, MediaTurn, ZenonT(60)

(* A fill chunk is written, or was on the medium since it was erased.        *)
LEMMA MediaFill ==
    ASSUME Control, BufInv, MediaInv, FillChunk
    PROVE  MediaInv'
<1> DEFINE a == AddrOf[Cur]
           d == ChunkDataLen(img[Cur])
           v == img[Cur].val
<1>1. /\ InLoop /\ ~HeadCut /\ AtHead /\ img[Cur].type = "fill"
      /\ pc' = "chunks" /\ Cur' = Cur + 1 /\ HeadAt' = HeadAt /\ AddrOf' = AddrOf
      /\ img' = img /\ erased' = erased /\ notWrBackSz4LongChunk' = 0 /\ faults \subseteq faults'
  BY ControlFill, ZenonT(60)
<1>2. CASE Wrapped'
  BY <1>1, <1>2 DEF MediaInv
<1>3. CASE ~Wrapped'
  <2>1. \/ v = Erased /\ erased /\ media' = media
        \/ \E n \in 0..d : /\ n < d => "fillLost" \in faults'
                           /\ Painted(media', media, a, n, v)
    BY <1>3, ControlFill, ZenonT(60)
  <2>2. /\ Parsing /\ ~Wrapped /\ img[Cur] \in Chunks /\ a \in Nat /\ a + d <= MaxAddr
        /\ notWrBackSz4LongChunk = 0
    BY <1>1, BeforeChunk, ZenonT(60)
  <2>3. d \in Nat /\ MaxAddr \in Nat /\ d <= d /\ d - d = 0 /\ v \in Int
    <3>1. d \in Nat /\ v \in Int
      BY <2>2, ChunkSizes
    <3> QED
      BY <3>1, Sizes
  <2>4. ASSUME NEW k, NEW x, x = v PROVE Holds(img[Cur], HeadAt[Cur], k, x)
    BY <1>1, <2>4, ZenonT(60) DEF Holds
  <2> HIDE DEF a, d, v
  <2>5. CASE v = Erased /\ erased /\ media' = media
    <3>1. CleanBehind /\ Reached = a
      BY <2>2, <2>5 DEF MediaInv, Reached, a
    <3>2. ASSUME NEW k \in 0..(d - 1) PROVE media'[a + k] = v
      <4>1. a + k \in 0..(MaxAddr - 1) /\ a + k >= a
        BY <2>2, <2>3
      <4> QED
        BY <2>5, <3>1, <4>1 DEF CleanBehind
    <3>3. HeldFirst(d)
      BY <2>4, <3>2 DEF HeldFirst, a
    <3>4. KeptBelow(a) /\ KeptFrom(a + d)
      BY <2>5, ZenonT(60) DEF KeptBelow, KeptFrom
    <3> QED
      BY <1>1, <2>3, <3>3, <3>4, MediaTurn DEF a, d
  <2>6. CASE \E n \in 0..d : /\ n < d => "fillLost" \in faults'
                             /\ Painted(media', media, a, n, v)
    <3>1. PICK n \in 0..d : /\ n < d => "fillLost" \in faults'
                            /\ Painted(media', media, a, n, v)
      BY <2>6
    <3>2. \A x \in 0..(MaxAddr - 1) : media'[x] = IF x \in a..(a + n - 1) THEN v ELSE media[x]
      BY <3>1 DEF Painted
    <3>3. KeptBelow(a) /\ KeptFrom(a + d)
      BY <2>2, <2>3, <3>2 DEF KeptBelow, KeptFrom
    <3>4. ASSUME "fillLost" \notin faults', NEW k \in 0..(d - 1) PROVE media'[a + k] = v
      <4>1. n = d
        BY <2>3, <3>1, <3>4
      <4>2. a + k \in 0..(MaxAddr - 1) /\ a + k \in a..(a + n - 1)
        BY <2>2, <2>3, <4>1
      <4> QED
        BY <3>2, <4>2
    <3>5. "fillLost" \notin faults' => HeldFirst(d)
      BY <2>4, <3>4 DEF HeldFirst, a
    <3> QED
      BY <1>1, <2>3, <3>3, <3>5, MediaTurn DEF a, d
  <2> QED
    BY <2>1, <2>5, <2>6, ZenonT(60)
<1> QED
  BY <1>2, <1>3, ZenonT(60)

(* An image that was taken to its end is on the medium.                      *)
LEMMA AllTaken ==
    ASSUME Control, Parsing, ~Wrapped, MediaInv, leftChunkNum = 0, notWrBackSz4LongChunk = 0,
           "fillLost" \notin faults
    PROVE  AllPut
<1>1. img \in Images /\ Len(img) \in Nat
  BY WhereParsing
<1>2. Cur = Len(img) + 1 /\ Cur \in 1..(Len(img) + 1)
  BY <1>1 DEF Cur
<1>3. ASSUME NEW i \in 1..Len(img), NEW k \in 0..(ChunkDataLen(img[i]) - 1) PROVE CellOK(i, k)
  <2>1. AddrOf[i] + k < AddrOf[Cur] /\ AddrOf[Cur] \in Nat
    BY <1>1, <1>2, CellPlace
  <2>2. Reached = AddrOf[Cur] /\ i \in 1..(Cur - 1)
    BY <1>1, <1>2, <2>1 DEF Reached
  <2>3. WrittenSoFar
    BY DEF MediaInv
  <2> QED
    BY <2>1, <2>2, <2>3 DEF WrittenSoFar
<1> QED
  BY <1>3 DEF AllPut, ChunkPut

(* When the verification starts, all chunks are on the medium.               *)
LEMMA MediaVerifyStart ==
    ASSUME Control, MediaInv, VerifyStart
    PROVE  MediaInv'
<1>1. /\ pc' = "verify" /\ leftChunkNum = 0 /\ notWrBackSz4LongChunk = 0 /\ Parsing /\ ~Wrapped
  BY ControlVerifyStart
<1>2. img' = img /\ media' = media /\ faults' = faults
  BY DEF VerifyStart
<1>3. HeadAt' = HeadAt /\ AddrOf' = AddrOf
  BY <1>2, SameImage
<1>4. "fillLost" \notin faults => AllPut
  BY <1>1, AllTaken
<1>5. AllPut => AllPut'
  BY <1>2, <1>3, Zenon DEF AllPut, ChunkPut, CellOK, Holds, ChunkDataLen, DataLen
<1> QED
  BY <1>1, <1>2, <1>4, <1>5 DEF MediaInv, Parsing

(* The verification does not write.                                          *)
LEMMA MediaVerifyChunk ==
    ASSUME Control, MediaInv, VerifyChunk
    PROVE  MediaInv'
<1>1. pc' \in {"failed", "verify", "ended"}
  BY ControlVerifyChunk
<1>2. pc = "verify" /\ img' = img /\ media' = media /\ faults \subseteq faults'
  BY VerifyStep, ZenonT(60)
<1>3. HeadAt' = HeadAt /\ AddrOf' = AddrOf
  BY <1>2, SameImage
<1>4. "fillLost" \notin faults' => AllPut
  BY <1>2 DEF MediaInv
<1>5. AllPut => AllPut'
  BY <1>2, <1>3, Zenon DEF AllPut, ChunkPut, CellOK, Holds, ChunkDataLen, DataLen
<1> QED
  BY <1>1, <1>4, <1>5 DEF MediaInv, Parsing
-----------------------------------------------------------------------------
(* The theorems about the medium.                                            *)

(* Every step of the parser preserves what is said of the medium.            *)
LEMMA NextMedia ==
    ASSUME Control, BufInv, MediaInv, [Next]_vars
    PROVE  MediaInv'
<1>2. CASE NextCall
  <2>1. /\ pc = "idle" /\ to > 0 /\ media' = media /\ erased' = erased
        /\ img' = img /\ NextWindow /\ pc' \notin {"verify", "ended"}
    BY <1>2 DEF NextCall
  <2>2. faults \subseteq faults'
    BY <2>1 DEF NextWindow
  <2>3. /\ leftChunkNum' = leftChunkNum
        /\ notWrBackSz4LongChunk' = notWrBackSz4LongChunk
    BY <1>2, ControlNextCall
  <2>4. Parsing
    BY <2>1 DEF Parsing
  <2>5. ~Wrapped
    BY <2>1, <2>4, NotWrapped
  <2> QED
    BY <2>1, <2>2, <2>3, <2>4, <2>5, MediaSame, ZenonT(60)
<1>4. CASE LoopEnd
  <2>1. /\ pc = "chunks" /\ media' = media /\ erased' = erased /\ img' = img
        /\ leftChunkNum' = leftChunkNum /\ notWrBackSz4LongChunk' = notWrBackSz4LongChunk
        /\ faults' = faults
    BY <1>4 DEF LoopEnd
  <2>2. pc' = "failed" \/ (pc' = "idle" /\ ~Wrapped)
    BY <1>4, ControlLoopEnd
  <2>3. Parsing
    BY <2>1 DEF Parsing
  <2>4. CASE pc' = "failed"
    BY <2>4 DEF MediaInv, Parsing
  <2>5. CASE pc' = "idle" /\ ~Wrapped
    BY <2>1, <2>3, <2>5, MediaSame
  <2> QED
    BY <2>2, <2>4, <2>5
<1>5. CASE BadChunk
  <2>1. pc' = "failed"
    BY <1>5, ControlBad
  <2> QED
    BY <2>1 DEF MediaInv, Parsing
<1>6. CASE FirstCall \/ LongChunk \/ RawChunk \/ DontCareChunk \/ FillChunk
  BY <1>6, MediaFirst, MediaLong, MediaRaw, MediaDontCare, MediaFill, Zenon
<1>7. CASE VerifyStart \/ VerifyChunk
  BY <1>7, MediaVerifyStart, MediaVerifyChunk, Zenon
<1>8. CASE Ended \/ UNCHANGED vars
  BY <1>8, Stutter, Zenon DEF Ended
<1> QED
  BY <1>2, <1>4, <1>5, <1>6, <1>7, <1>8, ZenonT(60) DEF Next

(* Where no length wraps, the data are put where they belong.                *)
LEMMA PutIsWritten ==
    ASSUME img \in Images, ~Oversized, AllPut
    PROVE  AllWritten
<1>1. Len(img) \in Nat /\ \A i \in 1..Len(img) : img[i] \in Chunks
  <2>1. Laid(img, HeadsOf(img), AddrsOf(img))
    BY ImagesLaid
  <2> QED
    BY <2>1 DEF Laid
<1>2. \A i \in 1..Len(img) : ChunkDataLen(img[i]) = DataLen(img[i])
  <2> SUFFICES ASSUME NEW i \in 1..Len(img) PROVE ChunkDataLen(img[i]) = DataLen(img[i])
    OBVIOUS
  <2>1. img[i].blks \in Nat /\ Blk \in Nat /\ U32 \in Nat \ {0}
    BY <1>1, SparseAssumption DEF Chunks
  <2>2. DataLen(img[i]) \in Nat
    BY <2>1 DEF DataLen
  <2>3. DataLen(img[i]) < U32
    BY <2>1, <2>2 DEF Oversized
  <2> QED
    BY <2>1, <2>2, <2>3, ModSmall DEF ChunkDataLen
<1> DEFINE L == [i \in 1..Len(img) |-> ChunkDataLen(img[i])]
           D == [i \in 1..Len(img) |-> DataLen(img[i])]
<1>3. L = D
  BY <1>2, Zenon
<1>4. PlacesOf(img) = AddrOf
  <2> HIDE DEF L, D
  <2>1. SumsOf(Len(img), 0, L) = SumsOf(Len(img), 0, D)
    BY <1>3, Zenon
  <2> QED
    BY <2>1, Zenon DEF PlacesOf, AddrOf, AddrsOf, L, D
<1> QED
  BY <1>2, <1>4, Zenon DEF AllWritten, ChunkWritten, AllPut, ChunkPut, CellOK, Holds

(* IInv gives Rebuilt: a parser that took the whole image has reached its    *)
(* end on the medium.                                                        *)
LEMMA IInvRebuilt == IInv => Rebuilt
<1> SUFFICES ASSUME Control, MediaInv, Parsed, "fillLost" \notin faults, ~Oversized
             PROVE  AllWritten
  BY DEF IInv, ParserInv, Rebuilt
<1>1. AllPut
  <2>1. CASE pc = "idle"
    <3>1. Parsing /\ ~Wrapped /\ leftChunkNum = 0 /\ notWrBackSz4LongChunk = 0
      BY <2>1, AtEnd DEF Parsed
    <3> QED
      BY <3>1, AllTaken
  <2>2. CASE pc \in {"verify", "ended"}
    BY <2>2 DEF MediaInv
  <2> QED
    BY <2>1, <2>2 DEF Parsed
<1>2. img \in Images
  BY DEF Control, Types, TypeOK
<1> QED
  BY <1>1, <1>2, PutIsWritten

(* The parser's bookkeeping, the fill buffer and the medium are always as    *)
(* IInv says.                                                                *)
THEOREM IInvHolds == Spec => []IInv
<1>1. Init => MediaInv
  BY DEF Init, MediaInv, Parsing
<1>2. ParserInv /\ MediaInv /\ [Next]_vars => MediaInv'
  BY NextMedia DEF ParserInv
<1>3. ParserInv /\ MediaInv => IInv
  BY DEF IInv
<1> QED
  BY <1>1, <1>2, <1>3, ParserHolds, PTL DEF Spec

(* Rebuilt holds: however its windows are cut, an image that was taken to    *)
(* its end lies on the partition as its chunks describe it.                  *)
THEOREM RebuiltHolds == Spec => []Rebuilt
  BY IInvRebuilt, IInvHolds, PTL

-----------------------------------------------------------------------------
(* What the verification hashes.                                             *)

(* The value of a fill chunk that lies in chunk i is that of chunk i.        *)
LEMMA OneFill ==
    ASSUME img \in Images, NEW i \in 1..Len(img), NEW j \in 1..Len(img), img[j].type = "fill",
           HeadAt[i] <= HeadAt[j] + ChunkHead, HeadAt[j] + ChunkHead < HeadAt[i + 1]
    PROVE  j = i
<1>1. Laid(img, HeadAt, AddrOf)
  BY ImagesLaid, SMTT(60) DEF HeadAt, AddrOf
<1>2. /\ Len(img) \in Nat /\ img[j] \in Chunks /\ HeadAt[j + 1] = HeadAt[j] + TotalSz(img[j])
      /\ \A m \in 1..(Len(img) + 1) : HeadAt[m] \in Nat
      /\ \A m, n \in 1..(Len(img) + 1) : m <= n => HeadAt[m] <= HeadAt[n]
  BY <1>1, SMTT(60) DEF Laid
<1>3. TotalSz(img[j]) = ChunkHead + 1 /\ ChunkHead \in Nat
  BY <1>2, ChunkSizes, Sizes, SMTT(60)
<1>4. {i, j, i + 1, j + 1} \subseteq 1..(Len(img) + 1)
  BY <1>2, SMTT(60)
<1>5. CASE j < i
  <2>1. HeadAt[j + 1] <= HeadAt[i]
    BY <1>2, <1>4, <1>5, SMTT(60)
  <2> QED
    BY <1>2, <1>3, <1>4, <2>1, SMTT(60)
<1>6. CASE j > i
  <2>1. HeadAt[i + 1] <= HeadAt[j]
    BY <1>2, <1>4, <1>6, SMTT(60)
  <2>2. HeadAt[i + 1] \in Nat /\ HeadAt[j] \in Nat
    BY <1>2, <1>4, SMTT(60)
  <2> QED
    BY <1>3, <2>1, <2>2, SMTT(60)
<1> QED
  BY <1>5, <1>6, SMTT(60)

(* A word of chunk i that is not the value of a fill chunk is its offset.    *)
LEMMA PlainWord ==
    ASSUME img \in Images, NEW i \in 1..Len(img), NEW o \in Nat, HeadAt[i] <= o, o < HeadAt[i + 1],
           img[i].type = "fill" => o # HeadAt[i] + ChunkHead
    PROVE  Word(o) = o
<1>1. ASSUME NEW j \in 1..Len(img), img[j].type = "fill", o = HeadAt[j] + ChunkHead PROVE FALSE
  <2>1. j = i
    BY <1>1, OneFill, SMTT(60)
  <2> QED
    BY <1>1, <2>1, SMTT(60)
<1>2. {j \in 1..Len(img) : img[j].type = "fill" /\ o = HeadAt[j] + ChunkHead} = {}
  BY <1>1
<1> QED
  BY <1>2 DEF Word

(* The word behind the header of a fill chunk is its value.                  *)
LEMMA FillWord ==
    ASSUME img \in Images, NEW i \in 1..Len(img), img[i].type = "fill"
    PROVE  Word(HeadAt[i] + ChunkHead) = img[i].val
<1> DEFINE o == HeadAt[i] + ChunkHead
           fills == {j \in 1..Len(img) : img[j].type = "fill" /\ o = HeadAt[j] + ChunkHead}
<1>1. Laid(img, HeadAt, AddrOf)
  BY ImagesLaid DEF HeadAt, AddrOf
<1>2. /\ img[i] \in Chunks /\ HeadAt[i + 1] = HeadAt[i] + TotalSz(img[i]) /\ HeadAt[i] \in Nat
  BY <1>1, SMTT(60) DEF Laid
<1>3. TotalSz(img[i]) = ChunkHead + 1 /\ ChunkHead \in Nat
  BY <1>2, ChunkSizes, Sizes
<1>4. HeadAt[i] <= o /\ o < HeadAt[i + 1]
  BY <1>2, <1>3
<1>5. \A j \in fills : j = i
  BY <1>4, OneFill
<1>6. i \in fills
  OBVIOUS
<1>7. fills = {i}
  BY <1>5, <1>6
<1>8. (CHOOSE j \in fills : TRUE) = i
  BY <1>7
<1>9. Word(o) = IF fills = {} THEN o ELSE img[CHOOSE j \in fills : TRUE].val
  BY DEF Word
<1> HIDE DEF fills, o
<1> QED
  BY <1>6, <1>8, <1>9, ZenonT(60) DEF o

(* A piece of the image and the piece behind it.                             *)
LEMMA WordsAppend ==
    ASSUME NEW a \in Nat, NEW b \in Nat
    PROVE  Words(0, a) \o Words(a, b) = Words(0, a + b)
<1> DEFINE S == {Word(o) : o \in Int}
           s == Words(0, a)
           t == Words(a, b)
<1>1. s = [k \in 1..a |-> Word(0 + k - 1)] /\ t = [k \in 1..b |-> Word(a + k - 1)]
  BY DEF Words
<1>2. s \in Seq(S) /\ t \in Seq(S) /\ Len(s) = a /\ Len(t) = b
  <2>1. \A k \in 1..a : Word(0 + k - 1) \in S
    OBVIOUS
  <2>2. \A k \in 1..b : Word(a + k - 1) \in S
    OBVIOUS
  <2> HIDE DEF S
  <2> QED
    BY <1>1, <2>1, <2>2
<1> HIDE DEF s, t, S
<1>3. /\ s \o t \in Seq(S) /\ Len(s \o t) = a + b
      /\ \A k \in 1..(a + b) : (s \o t)[k] = IF k <= a THEN s[k] ELSE t[k - a]
  BY <1>2
<1> DEFINE w == [k \in 1..(a + b) |-> Word(0 + k - 1)]
<1>4. \A k \in 1..a : s[k] = w[k]
  BY <1>1
<1>5. \A k \in 1..b : t[k] = w[a + k]
  <2> SUFFICES ASSUME NEW k \in 1..b PROVE t[k] = w[a + k]
    OBVIOUS
  <2>1. a + k \in 1..(a + b) /\ a + k - 1 = 0 + (a + k) - 1
    OBVIOUS
  <2>2. t[k] = Word(a + k - 1) /\ w[a + k] = Word(0 + (a + k) - 1)
    BY <1>1, <2>1
  <2> QED
    BY <2>1, <2>2
<1>6. w = Words(0, a + b) /\ DOMAIN w = 1..(a + b) /\ w = [k \in 1..(a + b) |-> w[k]]
  BY DEF Words
<1> HIDE DEF w
<1>7. \A k \in 1..(a + b) : (s \o t)[k] = w[k]
  <2> SUFFICES ASSUME NEW k \in 1..(a + b) PROVE (s \o t)[k] = w[k]
    BY ZenonT(60)
  <2>1. CASE k <= a
    BY <1>3, <1>4, <2>1
  <2>2. CASE ~(k <= a)
    <3>1. k - a \in 1..b /\ a + (k - a) = k
      BY <2>2
    <3> QED
      BY <1>3, <1>5, <2>2, <3>1
  <2> QED
    BY <2>1, <2>2, Zenon
<1> DEFINE u == s \o t
<1>8. u \in Seq(S) /\ Len(u) = a + b /\ \A k \in 1..(a + b) : u[k] = w[k]
  BY <1>3, <1>7
<1> HIDE DEF u
<1>9. u = [k \in 1..(a + b) |-> u[k]]
  BY <1>8
<1>10. u = w
  BY <1>6, <1>8, <1>9, Zenon
<1> QED
  BY <1>6, <1>10 DEF u, s, t

(* The headers that a pass collects are the next words of the image.         *)
LEMMA HeadsAreWords ==
    ASSUME Control, pc = "verify"
    PROVE  Heads(leftChunkNum + 1, LastRead)
              = Words(HeadAt[leftChunkNum + 1], (LastRead - leftChunkNum) * ChunkHead)
<1> DEFINE f == leftChunkNum + 1
           h == HeadAt[f]
           c == LastRead - leftChunkNum
<1>1. /\ img \in Images /\ Len(img) \in Nat /\ leftChunkNum \in Nat
      /\ LastRead \in leftChunkNum..Len(img) /\ h \in Nat
      /\ \A m \in 0..(c - 1) : HeadAt[f + m] = h + m * ChunkHead
  BY OnePass
<1>2. c \in Nat /\ f \in Nat /\ LastRead \in Nat /\ ChunkHead \in Nat /\ ChunkHead > 0
  BY <1>1, Sizes
<1>3. LastRead - f + 1 = c
  BY <1>1, <1>2
<1> DEFINE N == c * ChunkHead
<1>4. Heads(f, LastRead) = [k \in 1..N |-> HeadAt[f + ((k - 1) \div ChunkHead)] + ((k - 1) % ChunkHead)]
  BY <1>3 DEF Heads
<1>5. Words(h, N) = [k \in 1..N |-> Word(h + k - 1)]
  BY DEF Words
<1> HIDE DEF N
<1>6. ASSUME NEW k \in 1..N
      PROVE  HeadAt[f + ((k - 1) \div ChunkHead)] + ((k - 1) % ChunkHead) = Word(h + k - 1)
  <2> DEFINE q == (k - 1) \div ChunkHead
             r == (k - 1) % ChunkHead
  <2>1. N \in Nat
    BY <1>2 DEF N
  <2>2. k - 1 \in Nat /\ k - 1 < N
    BY <2>1
  <2>3. q \in Nat /\ r \in Nat /\ r < ChunkHead /\ k - 1 = q * ChunkHead + r
    BY <1>2, <2>2
  <2> HIDE DEF q, r
  <2>4. q * ChunkHead < c * ChunkHead
    <3>1. q * ChunkHead \in Nat /\ q * ChunkHead <= k - 1
      BY <1>2, <2>2, <2>3
    <3> QED
      BY <2>1, <2>2, <3>1 DEF N
  <2>5. q < c
    BY <1>2, <2>3, <2>4, MulOrder
  <2>6. q \in 0..(c - 1) /\ f + q \in 1..Len(img)
    BY <1>1, <1>2, <2>3, <2>5
  <2>7. HeadAt[f + q] = h + q * ChunkHead
    BY <1>1, <2>6
  <2>8. HeadAt[f + q] + r = h + k - 1
    <3>1. q * ChunkHead \in Nat
      BY <1>2, <2>3
    <3> QED
      BY <1>1, <2>2, <2>3, <2>7, <3>1
  <2>9. /\ HeadAt[f + q] \in Nat /\ HeadAt[f + q + 1] \in Nat
        /\ HeadAt[f + q] + ChunkHead <= HeadAt[f + q + 1]
    <3>1. Laid(img, HeadAt, AddrOf)
      BY <1>1, ImagesLaid, SMTT(60) DEF HeadAt, AddrOf
    <3>2. /\ HeadAt[f + q] \in Nat /\ img[f + q] \in Chunks
          /\ HeadAt[f + q + 1] = HeadAt[f + q] + TotalSz(img[f + q])
      BY <2>6, <3>1, SMTT(60) DEF Laid
    <3>3. TotalSz(img[f + q]) \in Nat /\ TotalSz(img[f + q]) >= ChunkHead
      BY <3>2, ChunkSizes, SMTT(60)
    <3> QED
      BY <1>2, <3>2, <3>3
  <2>10. /\ HeadAt[f + q] + r \in Nat /\ HeadAt[f + q] <= HeadAt[f + q] + r
         /\ HeadAt[f + q] + r < HeadAt[f + q + 1] /\ HeadAt[f + q] + r # HeadAt[f + q] + ChunkHead
    BY <1>2, <2>3, <2>9, SMTT(60)
  <2>11. Word(HeadAt[f + q] + r) = HeadAt[f + q] + r
    BY <1>1, <2>6, <2>10, PlainWord, SMTT(60)
  <2> QED
    BY <2>8, <2>11 DEF q, r
<1> QED
  BY <1>4, <1>5, <1>6, ZenonT(60) DEF N

(* The data that a pass reads back are the words behind those headers.       *)
LEMMA DataAreWords ==
    ASSUME Control, pc = "verify", AllPut, FillsWhole, DataWords > 0
    PROVE  ReadBack(LastRead, DataOffset(leftChunkNum + 1, LastRead))
              = Words(HeadAt[LastRead + 1] - DataWords, DataWords)
<1> DEFINE l == LastRead
           a == AddrOf[l]
           h == HeadAt[l]
           d == DataWords
<1>1. /\ img \in Images /\ Len(img) \in Nat /\ leftChunkNum \in 0..Len(img)
      /\ l \in leftChunkNum..Len(img) /\ l > leftChunkNum /\ d = DataSz(img[l])
      /\ d \in Nat /\ AddrOf[leftChunkNum + 1] \in Nat
  BY OnePass
<1>2. l \in 1..Len(img)
  BY <1>1
<1>3. /\ a \in Nat /\ h \in Nat /\ img[l] \in Chunks /\ HeadAt[l + 1] = h + TotalSz(img[l])
  <2>1. Laid(img, HeadAt, AddrOf)
    BY <1>1, ImagesLaid, SMTT(60) DEF HeadAt, AddrOf
  <2> QED
    BY <1>1, <1>2, <2>1 DEF Laid
<1>4. TotalSz(img[l]) = ChunkHead + d /\ ChunkHead \in Nat
  BY <1>1, <1>3, HeadAndData, Sizes
<1>5. HeadAt[l + 1] - d = h + ChunkHead /\ HeadAt[l + 1] = h + ChunkHead + d
  BY <1>1, <1>3, <1>4
<1>6. DataOffset(leftChunkNum + 1, l) = a
  <2>1. chunkOffset = AddrOf[leftChunkNum + 1]
    BY DEF Control, VerifyInv
  <2>2. AddrOf[leftChunkNum + 1] + a - AddrOf[leftChunkNum + 1] = a
    BY <1>1, <1>3
  <2> QED
    BY <2>1, <2>2 DEF DataOffset
<1>7. ReadBack(l, a) = [k \in 1..d |-> media[a + k - 1]]
  BY <1>1 DEF ReadBack
<1>8. Words(h + ChunkHead, d) = [k \in 1..d |-> Word(h + ChunkHead + k - 1)]
  BY DEF Words
<1>9. ChunkPut(l)
  BY <1>2 DEF AllPut
<1> HIDE DEF d, a, h
<1>10. ASSUME NEW k \in 1..d PROVE media[a + k - 1] = Word(h + ChunkHead + k - 1)
  <2>1. img[l].type \in {"raw", "fill"}
    BY <1>1, <1>10 DEF DataSz
  <2>2. CASE img[l].type = "raw"
    <3>1. d = ChunkDataLen(img[l])
      BY <1>1, <2>2 DEF DataSz
    <3>2. k - 1 \in 0..(ChunkDataLen(img[l]) - 1) /\ a + (k - 1) = a + k - 1
          /\ h + ChunkHead + (k - 1) = h + ChunkHead + k - 1
      BY <1>1, <1>3, <1>4, <3>1
    <3>3. media[a + (k - 1)] = h + ChunkHead + (k - 1)
      BY <1>9, <2>2, <3>2 DEF ChunkPut, CellOK, Holds, a, h
    <3>4. /\ h + ChunkHead + k - 1 \in Nat /\ h <= h + ChunkHead + k - 1
          /\ h + ChunkHead + k - 1 < HeadAt[l + 1]
      BY <1>1, <1>3, <1>4, <1>5, SMTT(60)
    <3>5. Word(h + ChunkHead + k - 1) = h + ChunkHead + k - 1
      BY <1>1, <1>2, <2>2, <3>4, PlainWord, SMTT(60) DEF h
    <3> QED
      BY <3>2, <3>3, <3>5
  <2>3. CASE img[l].type = "fill"
    <3>1. d = 1
      BY <1>1, <2>3 DEF DataSz, FillSz
    <3>2. k = 1 /\ a + k - 1 = a + 0 /\ h + ChunkHead + k - 1 = h + ChunkHead
      BY <1>3, <1>4, <3>1
    <3>3. 0 \in 0..(ChunkDataLen(img[l]) - 1)
      <4>1. ChunkDataLen(img[l]) > 0
        BY <1>1, <1>2, <2>3, ZenonT(60) DEF FillsWhole
      <4>2. ChunkDataLen(img[l]) \in Nat
        BY <1>3, ChunkSizes
      <4> QED
        BY <4>1, <4>2
    <3>4. media[a + 0] = img[l].val
      BY <1>9, <2>3, <3>3, ZenonT(60) DEF ChunkPut, CellOK, Holds, a
    <3>5. Word(h + ChunkHead) = img[l].val
      BY <1>1, <1>2, <2>3, FillWord DEF h
    <3> QED
      BY <3>2, <3>4, <3>5
  <2> QED
    BY <2>1, <2>2, <2>3
<1>11. ReadBack(l, a) = Words(h + ChunkHead, d)
  BY <1>7, <1>8, <1>10, Zenon
<1> QED
  BY <1>5, <1>6, <1>11, SMTT(60) DEF d

(* A pass goes on where the one before it ended.                             *)
LEMMA SumGrows ==
    ASSUME Control, pc = "verify", AllPut, FillsWhole, sum = Words(0, Hashed)
    PROVE  sum \o (IF leftChunkNum = 0 THEN Words(0, FileHead) ELSE <<>>)
               \o Heads(leftChunkNum + 1, LastRead)
               \o (IF DataWords = 0 THEN <<>>
                   ELSE ReadBack(LastRead, DataOffset(leftChunkNum + 1, LastRead)))
             = Words(0, HeadAt[LastRead + 1])
<1> DEFINE h == HeadAt[leftChunkNum + 1]
           n == (LastRead - leftChunkNum) * ChunkHead
           A == IF leftChunkNum = 0 THEN Words(0, FileHead) ELSE <<>>
           H == Heads(leftChunkNum + 1, LastRead)
           R == IF DataWords = 0 THEN <<>>
                ELSE ReadBack(LastRead, DataOffset(leftChunkNum + 1, LastRead))
<1>1. /\ img \in Images /\ leftChunkNum \in 0..Len(img) /\ LastRead \in leftChunkNum..Len(img)
      /\ Len(img) \in Nat /\ h \in Nat /\ DataWords \in Nat /\ HeadAt[LastRead + 1] \in Nat
      /\ HeadAt[LastRead + 1] = h + n + DataWords
  BY OnePass
<1>2. n \in Nat /\ FileHead \in Nat
  <2>1. LastRead - leftChunkNum \in Nat
    BY <1>1
  <2> QED
    BY <2>1, Sizes
<1>3. \A m : Words(m, 0) = <<>>
  BY DEF Words
<1>4. \A m \in Nat : Words(0, m) \o <<>> = Words(0, m)
  <2> SUFFICES ASSUME NEW m \in Nat PROVE Words(0, m) \o <<>> = Words(0, m)
    OBVIOUS
  <2>1. Words(0, m) \o Words(m, 0) = Words(0, m + 0)
    BY WordsAppend, ZenonT(60)
  <2>2. m + 0 = m
    OBVIOUS
  <2> QED
    BY <1>3, <2>1, <2>2
<1>5. sum \o A = Words(0, h)
  <2>1. CASE leftChunkNum = 0
    <3>1. h = FileHead
      <4>1. Laid(img, HeadAt, AddrOf)
        BY <1>1, ImagesLaid DEF HeadAt, AddrOf
      <4> QED
        BY <2>1, <4>1 DEF Laid
    <3>2. sum = Words(0, 0) /\ A = Words(0, FileHead)
      BY <2>1 DEF Hashed
    <3>3. Words(0, 0) \o Words(0, FileHead) = Words(0, 0 + FileHead)
      BY <1>2, WordsAppend, Zenon
    <3>4. 0 + FileHead = FileHead
      BY <1>2
    <3> QED
      BY <3>1, <3>2, <3>3, <3>4
  <2>2. CASE leftChunkNum # 0
    BY <1>1, <1>4, <2>2 DEF Hashed
  <2> QED
    BY <2>1, <2>2
<1>6. (sum \o A) \o H = Words(0, h + n)
  BY <1>1, <1>2, <1>5, HeadsAreWords, WordsAppend, ZenonT(60)
<1>7. h + n \in Nat /\ HeadAt[LastRead + 1] - DataWords = h + n
  BY <1>1, <1>2
<1>8. ((sum \o A) \o H) \o R = Words(0, HeadAt[LastRead + 1])
  <2>1. CASE DataWords = 0
    <3>1. HeadAt[LastRead + 1] = h + n
      BY <1>1, <1>7, <2>1
    <3> QED
      BY <1>4, <1>6, <1>7, <2>1, <3>1, ZenonT(60)
  <2>2. CASE DataWords # 0
    <3>1. DataWords > 0
      BY <1>1, <2>2
    <3>2. R = Words(h + n, DataWords)
      BY <1>7, <2>2, <3>1, DataAreWords
    <3>3. Words(0, h + n) \o Words(h + n, DataWords) = Words(0, h + n + DataWords)
      BY <1>1, <1>7, WordsAppend, ZenonT(60)
    <3> QED
      BY <1>1, <1>6, <3>2, <3>3, ZenonT(60)
  <2> QED
    BY <2>1, <2>2, Zenon
<1> QED
  BY <1>8, ZenonT(60)

(* A pass of the verification hashes the next words of the image.            *)
LEMMA SumVerifyChunk ==
    ASSUME Control, MediaInv, SumInv, FillsWhole, VerifyChunk
    PROVE  SumInv' /\ HashesImage'
<1>1. pc = "verify" /\ img' = img
  BY VerifyStep
<1>2. /\ pc' \in {"failed", "verify", "ended"}
      /\ pc' # "failed" => /\ HeadAt' = HeadAt /\ ImgSz' = ImgSz
                           /\ pc' = "ended" => HeadAt[LastRead + 1] = ImgSz
                           /\ pc' = "verify" => Hashed' = HeadAt[LastRead + 1]
  BY ControlVerifyChunk
<1>3. CASE pc' = "failed"
  BY <1>3 DEF SumInv, HashesImage
<1>4. CASE pc' # "failed" /\ "fillLost" \in faults'
  BY <1>2, <1>4 DEF SumInv, HashesImage
<1>5. CASE pc' # "failed" /\ "fillLost" \notin faults'
  <2>1. /\ faults' = faults
        /\ sum' = sum \o (IF leftChunkNum = 0 THEN Words(0, FileHead) ELSE <<>>)
                      \o Heads(leftChunkNum + 1, LastRead)
                      \o (IF DataWords = 0 THEN <<>>
                          ELSE ReadBack(LastRead, DataOffset(leftChunkNum + 1, LastRead)))
    BY <1>5, VerifyStep, Zenon
  <2>2. AllPut /\ sum = Words(0, Hashed)
    BY <1>1, <1>5, <2>1 DEF MediaInv, SumInv
  <2>3. sum' = Words(0, HeadAt[LastRead + 1])
    BY <1>1, <2>1, <2>2, SumGrows, ZenonT(60)
  <2>4. ASSUME NEW n PROVE [k \in 1..n |-> Word(0 + k - 1)'] = Words(0, n)
    BY <1>1, SameWords DEF Words
  <2>5. CASE pc' = "ended"
    <3>1. sum' = Words(0, ImgSz)
      BY <1>2, <2>3, <2>5
    <3>2. Words(0, ImgSz)' = [k \in 1..ImgSz' |-> Word(0 + k - 1)']
      BY DEF Words
    <3>3. Words(0, ImgSz)' = Words(0, ImgSz)
      BY <1>2, <2>4, <2>5, <3>2, ZenonT(60)
    <3> QED
      BY <2>5, <3>1, <3>3 DEF SumInv, HashesImage
  <2>6. CASE pc' = "verify"
    <3>1. Hashed' = HeadAt[LastRead + 1]
      BY <1>2, <2>6
    <3>2. Words(0, Hashed)' = [k \in 1..Hashed' |-> Word(0 + k - 1)']
      BY DEF Words
    <3>3. Words(0, Hashed)' = Words(0, HeadAt[LastRead + 1])
      BY <2>4, <3>1, <3>2, ZenonT(60)
    <3> QED
      BY <2>3, <2>6, <3>3 DEF SumInv, HashesImage
  <2> QED
    BY <1>2, <1>5, <2>5, <2>6, SMTT(60)
<1> QED
  BY <1>3, <1>4, <1>5

(* What the verification hashes is the image, step by step.                  *)
LEMMA NextSum ==
    ASSUME IInv, SumInv, HashesImage, FillsWhole, [Next]_vars
    PROVE  SumInv' /\ HashesImage'
<1>1. Control /\ MediaInv /\ BufInv
  BY DEF IInv, ParserInv
<1>2. ASSUME pc \in {"idle", "long", "chunks"}, sum' = sum, pc' \in {"idle", "long", "chunks", "failed"}
      PROVE  SumInv' /\ HashesImage'
  BY <1>2 DEF SumInv, HashesImage
<1>3. CASE FirstCall
  BY <1>2, <1>3 DEF FirstCall
<1>4. CASE NextCall
  BY <1>2, <1>4 DEF NextCall
<1>5. CASE LongChunk
  <2>1. pc = "long" /\ sum' = sum /\ pc' \in {"idle", "long", "chunks", "failed"}
    BY <1>5, Zenon DEF LongChunk, Fail, Return
  <2> QED
    BY <1>2, <2>1
<1>6. CASE LoopEnd
  BY <1>2, <1>6, ZenonT(60) DEF LoopEnd, Return
<1>7. CASE BadChunk
  BY <1>2, <1>7, ZenonT(60) DEF BadChunk, InLoop, Fail
<1>8. CASE RawChunk
  <2>1. pc = "chunks" /\ sum' = sum /\ pc' \in {"idle", "long", "chunks", "failed"}
    BY <1>8, ZenonT(60) DEF RawChunk, InLoop, Fail, NextChunk
  <2> QED
    BY <1>2, <2>1, ZenonT(60)
<1>9. CASE DontCareChunk
  <2>1. pc = "chunks" /\ sum' = sum /\ pc' \in {"idle", "long", "chunks", "failed"}
    BY <1>9, ZenonT(60) DEF DontCareChunk, InLoop, NextChunk
  <2> QED
    BY <1>2, <2>1, ZenonT(60)
<1>10. CASE FillChunk
  <2>1. pc = "chunks" /\ sum' = sum /\ pc' \in {"idle", "long", "chunks", "failed"}
    BY <1>10, ZenonT(60) DEF FillChunk, InLoop, NextChunk
  <2> QED
    BY <1>2, <2>1
<1>11. CASE VerifyStart
  <2>1. pc = "idle" /\ sum' = sum /\ pc' = "verify" /\ leftChunkNum' = 0
    BY <1>1, <1>11, ControlVerifyStart DEF VerifyStart
  <2>2. sum' = <<>> /\ Hashed' = 0
    BY <2>1 DEF SumInv, Hashed
  <2>3. Words(0, Hashed)' = <<>>
    BY <2>2 DEF Words
  <2> QED
    BY <2>1, <2>2, <2>3 DEF SumInv, HashesImage
<1>12. CASE VerifyChunk
  BY <1>1, <1>12, SumVerifyChunk
<1>13. CASE Ended \/ UNCHANGED vars
  BY <1>13, Stutter DEF Ended
<1> QED
  BY <1>3, <1>4, <1>5, <1>6, <1>7, <1>8, <1>9, <1>10, <1>11, <1>12, <1>13 DEF Next

(* HashesImage holds if no fill chunk is empty: the verification of an image *)
(* hashes exactly its words, in their order.                                 *)
THEOREM HashesImageHolds == ASSUME FillsWhole PROVE Spec => []HashesImage
<1>1. Init => SumInv /\ HashesImage
  BY DEF Init, SumInv, HashesImage
<1>2. IInv /\ SumInv /\ HashesImage /\ [Next]_vars => (SumInv /\ HashesImage)'
  BY NextSum
<1> QED
  BY <1>1, <1>2, IInvHolds, PTL DEF Spec
=============================================================================
