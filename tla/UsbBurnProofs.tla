---------------------------- MODULE UsbBurnProofs ----------------------------
(***************************************************************************)
(* The buffer manager, and then the protocol, the buffer manager and the   *)
(* image state machine together, for every size and every set of commands. *)
(* The first part is about BufManager alone: IInv is an inductive          *)
(* invariant, so the slots handed out stay inside the buffer and the       *)
(* writer takes the image whole and in order.  The second is about the     *)
(* composition: it implements both components, and a host that is told OK  *)
(* can rely on the image.                                                  *)
(***************************************************************************)
EXTENDS UsbBurn, TLAPS

-----------------------------------------------------------------------------
(* The buffer manager.                                                       *)

(* Arithmetic of slots and units.                                          *)

(* Multiples of a positive number are ordered as their factors are.         *)
LEMMA MulOrder ==
    ASSUME NEW a \in Int, NEW b \in Int, NEW w \in Nat \ {0}
    PROVE  (a < b => a * w + w <= b * w) /\ (a * w < b * w => a < b)
<1>1. ASSUME NEW c \in Int, NEW d \in Int, c < d PROVE c * w + w <= d * w
  <2>1. (d - c) * w >= w
    BY <1>1, SMT
  <2> QED BY <2>1, SMT
<1>2. ASSUME a * w < b * w PROVE a < b
  <2>1. CASE b < a
    <3>1. b * w + w <= a * w
      BY <1>1, <2>1
    <3> QED BY <3>1, <1>2
  <2> QED BY <2>1, <1>2
<1> QED BY <1>1, <1>2

(* A remainder is determined by the decomposition it belongs to.            *)
LEMMA ModUnique ==
    ASSUME NEW q \in Int, NEW w \in Nat \ {0}, NEW r \in 0..(w - 1)
    PROVE  (q * w + r) % w = r
<1> DEFINE x == q * w + r
           d == x \div w
           m == x % w
<1>1. x \in Int
  OBVIOUS
<1>2. d \in Int /\ m \in 0..(w - 1) /\ x = d * w + m
  BY <1>1, SMT
<1>3. CASE q > d
  <2>1. d * w + w <= q * w
    BY <1>2, <1>3, MulOrder
  <2> QED BY <2>1, <1>2
<1>4. CASE d > q
  <2>1. q * w + w <= d * w
    BY <1>2, <1>4, MulOrder
  <2> QED BY <2>1, <1>2
<1>5. CASE q = d
  BY <1>2, <1>5, SMT
<1> QED BY <1>2, <1>3, <1>4, <1>5

(* A number below w is its own remainder.                                   *)
LEMMA ModSmall ==
    ASSUME NEW w \in Nat \ {0}, NEW x \in 0..(w - 1)
    PROVE  x % w = x
<1>1. (0 * w + x) % w = x
  BY ModUnique
<1> QED BY <1>1

(* A natural number is a multiple of w and its remainder.                   *)
LEMMA DivMod ==
    ASSUME NEW x \in Nat, NEW w \in Nat \ {0}
    PROVE  /\ x % w \in 0..(w - 1) /\ x % w <= x
           /\ \E q \in Nat : x = q * w + (x % w)
<1>1. x \div w \in Int /\ x % w \in 0..(w - 1) /\ x = (x \div w) * w + (x % w)
  BY SMT
<1>2. x \div w >= 0
  <2>1. CASE x \div w < 0
    <3>1. (x \div w) * w + w <= 0 * w
      BY <1>1, <2>1, MulOrder
    <3> QED BY <3>1, <1>1
  <2> QED BY <2>1, <1>1
<1>3. (x \div w) * w >= 0
  BY <1>1, <1>2, SMT
<1>4. x \div w \in Nat
  BY <1>1, <1>2
<1>5. \E q \in Nat : x = q * w + (x % w)
  <2> WITNESS x \div w \in Nat
  <2> QED BY <1>1
<1>6. x % w <= x
  <2> DEFINE p == (x \div w) * w
             m == x % w
  <2>1. p >= 0 /\ x = p + m /\ p \in Int /\ m \in Int
    BY <1>1, <1>3
  <2> HIDE DEF p, m
  <2>2. m <= x
    BY <2>1
  <2> QED BY <2>2 DEF m
<1> QED BY <1>1, <1>5, <1>6, Zenon

(* Dividing a multiple gives the factor back.                               *)
LEMMA DivMul ==
    ASSUME NEW k \in Nat, NEW w \in Nat \ {0}
    PROVE  (k * w) \div w = k
<1> DEFINE x == k * w
           d == x \div w
<1>1. x \in Int
  OBVIOUS
<1>2. d \in Int /\ x % w \in 0..(w - 1) /\ x = d * w + (x % w)
  BY <1>1, SMT
<1>3. x % w = 0
  <2>1. (k * w + 0) % w = 0
    BY ModUnique
  <2> QED BY <2>1
<1>4. d * w = k * w
  BY <1>2, <1>3
<1> HIDE DEF d
<1>5. ~(d < k) /\ ~(k < d)
  BY <1>2, <1>4, MulOrder
<1>6. d = k
  BY <1>2, <1>5
<1> QED BY <1>6 DEF d

(* Rounding up to whole slots.                                              *)
LEMMA CeilSlotsBound ==
    ASSUME NEW n \in Nat, Unit \in Nat \ {0}
    PROVE  /\ CeilSlots(n) \in Nat
           /\ n <= CeilSlots(n) * Unit /\ CeilSlots(n) * Unit < n + Unit
<1> DEFINE x == n + Unit - 1
<1>1. x \in Nat
  OBVIOUS
<1>2. x \div Unit \in Int /\ x % Unit \in 0..(Unit - 1) /\ x = (x \div Unit) * Unit + (x % Unit)
  BY <1>1, SMT
<1>3. x \div Unit >= 0
  <2>1. CASE x \div Unit < 0
    <3>1. (x \div Unit) * Unit + Unit <= 0 * Unit
      BY <1>2, <2>1, MulOrder
    <3> QED BY <3>1, <1>2, <1>1
  <2> QED BY <2>1, <1>2
<1> QED BY <1>2, <1>3 DEF CeilSlots

(* Moving on by u inside a unit, and to the start of the next one.          *)
LEMMA ModStep ==
    ASSUME NEW x \in Nat, NEW w \in Nat \ {0}, NEW u \in Nat
    PROVE  /\ (x % w) + u < w => (x + u) % w = (x % w) + u
           /\ (x % w) + u = w => (x + u) % w = 0
<1>1. PICK q \in Nat : x = q * w + (x % w)
  BY DivMod, Zenon
<1> DEFINE m == x % w
<1>2. m \in 0..(w - 1)
  BY DivMod
<1>3. ASSUME m + u < w PROVE (x + u) % w = m + u
  <2>1. m + u \in 0..(w - 1)
    BY <1>2, <1>3
  <2>2. (q * w + (m + u)) % w = m + u
    BY <2>1, ModUnique
  <2>3. x + u = q * w + (m + u)
    BY <1>1, <1>2
  <2> QED BY <2>2, <2>3
<1>4. ASSUME m + u = w PROVE (x + u) % w = 0
  <2>1. ((q + 1) * w + 0) % w = 0
    BY ModUnique
  <2>2. x + u = (q + 1) * w + 0
    BY <1>1, <1>2, <1>4, SMT
  <2> QED BY <2>1, <2>2
<1> QED BY <1>3, <1>4

(* Reducing modulo a multiple of w first makes no difference.               *)
LEMMA ModMod ==
    ASSUME NEW x \in Nat, NEW w \in Nat \ {0}, NEW v \in Nat \ {0},
           NEW k \in Nat, v = k * w
    PROVE  (x % v) % w = x % w
<1>1. PICK q \in Nat : x = q * v + (x % v)
  BY DivMod, Zenon
<1>2. x % v \in Nat
  BY DivMod
<1>3. PICK p \in Nat : x % v = p * w + ((x % v) % w)
  BY <1>2, DivMod, Zenon
<1> DEFINE r == (x % v) % w
<1>4. r \in 0..(w - 1)
  BY <1>2, DivMod
<1>5. x = (q * k + p) * w + r
  <2> DEFINE y == x % v
  <2>1. x = q * v + y /\ y = p * w + r /\ y \in Nat
    BY <1>1, <1>2, <1>3
  <2>2. r \in Nat
    BY <1>4
  <2> HIDE DEF y, r
  <2>3. x = q * (k * w) + (p * w + r)
    BY <2>1
  <2> QED BY <2>2, <2>3, SMT
<1>6. ((q * k + p) * w + r) % w = r
  <2>1. q * k + p \in Int
    OBVIOUS
  <2> HIDE DEF r
  <2> QED BY <1>4, <2>1, ModUnique
<1> QED BY <1>5, <1>6

(* In a unit of whole slots a whole number of slots leaves room for one     *)
(* more slot.                                                               *)
LEMMA UnitInside ==
    ASSUME NEW s \in Nat, NEW k \in Nat \ {0}, NEW u \in Nat \ {0},
           NEW w \in Nat \ {0}, w = k * u
    PROVE  ((s * u) % w) + u <= w
<1> DEFINE x == s * u
           m == x % w
<1>1. x \in Nat
  BY SMT
<1>2. PICK q \in Nat : x = q * w + m
  BY <1>1, DivMod, Zenon
<1>3. m \in 0..(w - 1)
  BY <1>1, DivMod, Zenon
<1>4. m = (s - q * k) * u
  <2> HIDE DEF m
  <2>1. s * u = q * (k * u) + m
    BY <1>2
  <2> QED BY <2>1, <1>3, SMT
<1>5. s - q * k < k
  <2>1. s - q * k \in Int
    OBVIOUS
  <2> DEFINE j == s - q * k
  <2>2. j * u < k * u
    BY <1>3, <1>4
  <2> HIDE DEF j
  <2>3. j < k
    BY <2>1, <2>2, MulOrder DEF j
  <2> QED BY <2>3 DEF j
<1>6. (s - q * k) * u + u <= k * u
  <2> DEFINE j == s - q * k
  <2>1. j \in Int /\ j < k
    BY <1>5
  <2> HIDE DEF j
  <2>2. j * u + u <= k * u
    BY <2>1, MulOrder
  <2> QED BY <2>2 DEF j
<1> QED BY <1>4, <1>6

(* The sizes, as the proofs use them.                                       *)
LEMMA Divides ==
    /\ \E k \in Nat : U32 = k * BufSz
    /\ \E k \in Nat : U32 = k * Unit
    /\ \E k \in 1..BufSz : BufSz = k * Unit
<1>1. PICK k \in 1..BufSz : BufSz = k * Unit
  BY SizeAssumption
<1>2. PICK l \in 1..U32 : U32 = l * BufSz
  BY SizeAssumption
<1>3. Unit \in Nat \ {0} /\ k \in Nat /\ l \in Nat
  BY SizeAssumption
<1>4. U32 = (l * k) * Unit
  BY <1>1, <1>2, <1>3, SMT
<1>5. l * k \in Nat
  BY <1>3, SMT
<1>6. \E j \in Nat : U32 = j * Unit
  BY <1>4, <1>5
<1>7. \E j \in Nat : U32 = j * BufSz
  BY <1>2, <1>3
<1> QED BY <1>6, <1>7, SizeAssumption, Zenon

(* The order of the sizes: a slot fits the buffer, the buffer fits memory.  *)
LEMMA Sizes ==
    /\ Unit \in Nat \ {0} /\ Align \in Nat \ {0} /\ LeftMax \in Nat
    /\ BufSz \in Nat \ {0} /\ U32 \in Nat \ {0} /\ MemCap \in Nat
    /\ Unit <= BufSz /\ BufSz <= MemCap /\ MemCap < U32
<1>1. PICK k \in 1..BufSz : BufSz = k * Unit
  BY SizeAssumption
<1>2. Unit \in Nat \ {0} /\ BufSz \in Nat /\ k \in Nat /\ k >= 1
  BY SizeAssumption
<1>3. Unit <= BufSz
  <2>1. 0 * Unit + Unit <= k * Unit
    BY <1>2, MulOrder
  <2> QED BY <2>1, <1>1, <1>2
<1>4. /\ Align \in Nat \ {0} /\ LeftMax \in Nat /\ MemCap \in Nat /\ U32 \in Nat
      /\ BufSz <= MemCap /\ MemCap < U32
  BY SizeAssumption
<1> QED BY <1>2, <1>3, <1>4

(* The write-back unit is a size.                                           *)
LEMMA WriteBackUnitNat ==
    ASSUME NEW p \in Packets
    PROVE  WriteBackUnit(p) \in Nat
<1>1. p.total - p.notAligned \in Nat
  BY PacketAssumption, Sizes
<1>2. CeilSlots(p.total - p.notAligned) \in Nat
  BY <1>1, Sizes, CeilSlotsBound, Zenon
<1>3. CeilSlots(p.total - p.notAligned) * Unit \in Nat
  BY <1>2, Sizes
<1> QED BY <1>3, Sizes DEF WriteBackUnit

(* The write-back unit of an accepted command is a number of slots, has     *)
(* room, and the u32 cast of a running total does not disturb the offset    *)
(* inside it.                                                               *)
LEMMA UnitChosen ==
    ASSUME NEW p \in Packets,
           Unit <= WriteBackUnit(p), WriteBackUnit(p) <= BufSz \/ p.kind = "mem"
    PROVE  /\ WriteBackUnit(p) \in Nat \ {0} /\ WriteBackUnit(p) <= MemCap
           /\ \E k \in 1..WriteBackUnit(p) : WriteBackUnit(p) = k * Unit
           /\ \A x \in Nat : x <= p.total - p.notAligned =>
                 (x % U32) % WriteBackUnit(p) = x % WriteBackUnit(p)
<1> DEFINE wb == WriteBackUnit(p)
           pktSz == p.total - p.notAligned
<1>1. /\ p.kind \in {"normal", "sparse", "bootloader", "mem"}
      /\ p.total \in Nat /\ p.notAligned \in Nat /\ p.notAligned < p.total
      /\ p.kind = "mem" => p.notAligned = 0 /\ p.total + Unit <= MemCap
  BY PacketAssumption, Sizes
<1>2. pktSz \in Nat
  BY <1>1
<1>3. CASE p.kind \in {"bootloader", "mem"}
  <2> DEFINE c == CeilSlots(pktSz)
  <2>1. wb = c * Unit
    BY <1>3 DEF WriteBackUnit
  <2> HIDE DEF wb, pktSz
  <2>2. c \in Nat /\ pktSz <= c * Unit /\ c * Unit < pktSz + Unit
    BY <1>2, Sizes, CeilSlotsBound, Zenon
  <2> HIDE DEF c
  <2>3. wb \in Nat /\ Unit <= wb
    BY <2>1, <2>2, Sizes, SMT DEF wb
  <2>4. wb <= MemCap
    <3>1. CASE p.kind = "mem"
      BY <3>1, <2>1, <2>2, <1>1, <1>2, Sizes DEF pktSz
    <3>2. CASE p.kind # "mem"
      BY <3>2, <2>3, Sizes DEF wb
    <3> QED BY <3>1, <3>2
  <2>5. c \in 1..wb
    <3>1. c # 0
      BY <2>1, <2>3, Sizes, SMT
    <3>2. c <= c * Unit
      BY <2>2, Sizes, SMT
    <3> QED BY <3>1, <3>2, <2>1, <2>2, <2>3
  <2>6. ASSUME NEW x \in Nat, x <= pktSz PROVE x % U32 = x
    <3>1. x \in 0..(U32 - 1)
      BY <2>6, <2>1, <2>2, <2>3, <2>4, Sizes, <1>2
    <3> QED BY <3>1, Sizes, ModSmall
  <2>7. \A x \in Nat : x <= pktSz => (x % U32) % wb = x % wb
    BY <2>6
  <2>8. \E k \in 1..wb : wb = k * Unit
    BY <2>1, <2>5
  <2>9. wb \in Nat \ {0}
    BY <2>3, Sizes
  <2> QED BY <2>4, <2>7, <2>8, <2>9 DEF wb, pktSz
<1>4. CASE p.kind \notin {"bootloader", "mem"}
  <2>1. wb = Unit \/ wb = BufSz
    BY <1>4 DEF WriteBackUnit
  <2> HIDE DEF wb, pktSz
  <2>2. wb \in Nat \ {0} /\ wb <= MemCap
    BY <2>1, Sizes
  <2>3. \E k \in 1..wb : wb = k * Unit
    <3>1. CASE wb = Unit
      <4>1. 1 \in 1..wb /\ wb = 1 * Unit
        BY <3>1, Sizes
      <4> QED BY <4>1
    <3>2. CASE wb = BufSz
      BY <3>2, Divides
    <3> QED BY <2>1, <3>1, <3>2
  <2>4. PICK k \in Nat : U32 = k * wb
    BY <2>1, Divides
  <2>5. \A x \in Nat : (x % U32) % wb = x % wb
    BY <2>2, <2>4, ModMod, Sizes, ZenonT(60)
  <2> QED BY <2>2, <2>3, <2>5 DEF wb
<1> QED BY <1>3, <1>4

(* What handing over n bytes of the buffer adds to the bytes taken.         *)
Cell == Nat \cup {Stale}
Ordered(s) == \A i \in DOMAIN s : s[i] = i - 1

(* Handing over bytes that continue the sequence keeps it in order.         *)
LEMMA Handover ==
    ASSUME NEW s \in Seq(Cell), NEW from \in Int, NEW n \in Nat,
           \A a \in from..(from + n - 1) : mem[a] \in Cell
    PROVE  /\ s \o Bytes(from, n) \in Seq(Cell)
           /\ Len(s \o Bytes(from, n)) = Len(s) + n
           /\ Ordered(s) /\ (\A a \in from..(from + n - 1) : mem[a] = Len(s) + (a - from))
                => Ordered(s \o Bytes(from, n))
<1> DEFINE b == Bytes(from, n)
<1>1. b \in Seq(Cell) /\ Len(b) = n /\ \A i \in 1..n : b[i] = mem[from + i - 1]
  <2>1. \A i \in 1..n : mem[from + i - 1] \in Cell
    OBVIOUS
  <2> QED BY <2>1 DEF Bytes
<1> HIDE DEF b
<1>2. s \o b \in Seq(Cell) /\ Len(s \o b) = Len(s) + n
  BY <1>1
<1>3. ASSUME Ordered(s), \A a \in from..(from + n - 1) : mem[a] = Len(s) + (a - from)
      PROVE  Ordered(s \o b)
  <2> SUFFICES ASSUME NEW i \in 1..(Len(s) + n) PROVE (s \o b)[i] = i - 1
    BY <1>2 DEF Ordered
  <2>0. i \in Int /\ Len(s) \in Int
    OBVIOUS
  <2>1. CASE i <= Len(s)
    BY <2>1, <1>1, <1>3 DEF Ordered
  <2>2. CASE i > Len(s)
    <3>1. i - Len(s) \in 1..n
      BY <2>2
    <3>2. (s \o b)[i] = b[i - Len(s)]
      BY <2>2, <1>1
    <3>3. b[i - Len(s)] = mem[from + (i - Len(s)) - 1]
      BY <3>1, <1>1
    <3>4. from + (i - Len(s)) - 1 \in from..(from + n - 1)
      BY <3>1
    <3>5. mem[from + (i - Len(s)) - 1] = Len(s) + ((from + (i - Len(s)) - 1) - from)
      BY <3>4, <1>3
    <3> QED BY <3>2, <3>3, <3>5
  <2>3. i <= Len(s) \/ i > Len(s)
    BY <2>0
  <2> QED BY <2>1, <2>2, <2>3, Zenon
<1> QED BY <1>2, <1>3 DEF b

(* _bufManager as it is initialised: no command is being served.            *)
LEMMA InitIInv == Init => IInv
<1> SUFFICES ASSUME Init PROVE IInv
  OBVIOUS
<1>1. TypeOK
  <2>1. /\ writeBackUnitSz \in Nat \ {0} /\ tplcmdTotalSz \in Nat
        /\ totalSlotNum \in Nat /\ nextWriteBackSlot \in Nat
        /\ leftDataSz \in Nat /\ itemOffsetNotAlignClusterSz_f \in Nat
        /\ sent \in Nat /\ pBuf \in Nat /\ dumped \in Nat
    BY Sizes DEF Init
  <2>2. mem \in [Addr -> Nat \cup {Stale}] /\ out \in Seq(Nat \cup {Stale})
    BY DEF Init
  <2> QED BY <2>1, <2>2, Zenon DEF Init, TypeOK
<1>2. RoomInv
  <2>1. 1 \in 1..Unit /\ Unit = 1 * Unit
    BY Sizes
  <2>2. writeBackUnitSz = Unit /\ leftDataSz = 0
    BY DEF Init
  <2>3. \E k \in 1..writeBackUnitSz : writeBackUnitSz = k * Unit
    BY <2>1, <2>2, Zenon
  <2> QED BY <2>2, <2>3, Sizes DEF RoomInv
<1>3. ~Active /\ phase # "done" /\ out = <<>>
  BY DEF Init, Active
<1>4. InOrder
  BY <1>3 DEF InOrder
<1> QED BY <1>1, <1>2, <1>3, <1>4
      DEF IInv, CommandInv, DueInv, DownloadInv, UploadInv, DoneComplete

(* A new command establishes the invariant.                                 *)
LEMMA TplcmdInitIInv ==
    ASSUME IInv, NEW p \in Packets, TplcmdInit(p)
    PROVE  IInv'
<1> DEFINE pktSz == p.total - p.notAligned
           wb    == WriteBackUnit(p)
<1>1. /\ p.kind \in {"normal", "sparse", "bootloader", "mem"}
      /\ p.total \in Nat /\ p.notAligned \in 0..LeftMax /\ p.notAligned < p.total
      /\ p.isUpload \in BOOLEAN /\ (p.isUpload => p.notAligned = 0)
  BY PacketAssumption
<1>2. pktSz \in Nat \ {0} /\ p.notAligned \in Nat /\ p.notAligned <= LeftMax
  BY <1>1, Sizes
<1>3. /\ pkt' = p /\ sent' = 0 /\ dumped' = 0 /\ out' = <<>> /\ pBuf' = pBuf
      /\ mem' = [a \in Addr |-> Stale]
  BY DEF TplcmdInit
<1>4. InOrder'
  BY <1>3 DEF InOrder
<1>5. CASE phase' = "failed" /\ UNCHANGED bmVars
  <2>1. TypeOK'
    BY <1>3, <1>5, Sizes DEF IInv, TypeOK, bmVars, Addr, Stale
  <2>2. RoomInv'
    BY <1>5 DEF IInv, RoomInv, bmVars
  <2>3. ~Active' /\ phase' # "done"
    BY <1>5 DEF Active
  <2> QED BY <2>1, <2>2, <2>3, <1>4
        DEF IInv, CommandInv, DueInv, DownloadInv, UploadInv, DoneComplete
<1>6. CASE /\ phase' = "ready" /\ writeBackUnitSz' = wb /\ totalSlotNum' = 0
           /\ isUpload' = p.isUpload
           /\ nextWriteBackSlot' = IF p.isUpload THEN 0
                                   ELSE IF pktSz < wb THEN CeilSlots(pktSz % U32)
                                   ELSE wb \div Unit
           /\ itemOffsetNotAlignClusterSz_f' = p.notAligned
           /\ leftDataSz' = p.notAligned /\ tplcmdTotalSz' = pktSz
           /\ Unit <= wb /\ (wb <= BufSz \/ p.kind = "mem")
  <2>1. /\ wb \in Nat \ {0} /\ wb <= MemCap
        /\ \E k \in 1..wb : wb = k * Unit
    BY <1>6, UnitChosen
  <2>2. PICK k \in 1..wb : wb = k * Unit
    BY <2>1
  <2> HIDE DEF wb, pktSz
  <2>3. wb \div Unit = k
    <3>1. k \in Nat
      BY <2>1
    <3>2. (k * Unit) \div Unit = k
      BY <3>1, Sizes, DivMul
    <3> QED BY <2>2, <3>2
  <2>4. pktSz < wb => pktSz % U32 = pktSz
    BY <2>1, <1>2, Sizes, ModSmall
  <2>5. /\ CeilSlots(pktSz) \in Nat
        /\ pktSz <= CeilSlots(pktSz) * Unit /\ CeilSlots(pktSz) * Unit < pktSz + Unit
    BY <1>2, Sizes, CeilSlotsBound, Zenon
  <2>6. /\ nextWriteBackSlot' \in Nat
        /\ IF p.isUpload THEN nextWriteBackSlot' = 0
           ELSE IF pktSz >= wb THEN nextWriteBackSlot' * Unit = wb
           ELSE /\ pktSz <= nextWriteBackSlot' * Unit
                /\ nextWriteBackSlot' * Unit < pktSz + Unit
    <3>1. CASE p.isUpload
      BY <3>1, <1>6
    <3>2. CASE ~p.isUpload /\ pktSz < wb
      BY <3>2, <1>6, <2>4, <2>5, <2>1, <1>2
    <3>3. CASE ~p.isUpload /\ ~(pktSz < wb)
      BY <3>3, <1>6, <2>1, <2>2, <2>3, <1>2
    <3> QED BY <3>1, <3>2, <3>3
  <2>7. TypeOK'
    BY <1>1, <1>2, <1>3, <1>6, <2>1, <2>6, Sizes DEF IInv, TypeOK, Addr, Stale
  <2>8. RoomInv'
    BY <1>2, <1>6, <2>1 DEF RoomInv
  <2>9. InUnit' = 0 /\ Base' = 0
    <3>1. 0 % wb = 0
      BY <2>1, ModSmall
    <3> QED BY <3>1, <1>3, <1>6 DEF InUnit, Base
  <2>10. CommandInv'
    BY <1>2, <1>3, <1>6, <2>9, Sizes DEF CommandInv, Active, wb, pktSz
  <2>11. DueInv'
    BY <1>2, <1>6, <2>1, <2>6, <2>9 DEF DueInv
  <2>12. DownloadInv'
    BY <1>2, <1>3, <1>6, <2>9 DEF DownloadInv, Active
  <2>13. UploadInv'
    BY <1>3, <1>6, <2>9 DEF UploadInv, Active
  <2>14. DoneComplete'
    BY <1>6 DEF DoneComplete
  <2> QED BY <1>4, <2>7, <2>8, <2>10, <2>11, <2>12, <2>13, <2>14 DEF IInv
<1> HIDE DEF wb, pktSz
<1>7. wb \in Int => (~(BufSz < wb /\ p.kind # "mem") => wb <= BufSz \/ p.kind = "mem")
                   /\ (~(Unit > wb) => Unit <= wb)
  BY Sizes
<1> QED BY <1>5, <1>6, <1>7, WriteBackUnitNat DEF TplcmdInit, wb, pktSz

(* What the invariant says of the numbers while a command is served.        *)
LEMMA UnitFacts ==
    ASSUME IInv, Active
    PROVE  /\ writeBackUnitSz \in Nat \ {0} /\ tplcmdTotalSz \in Nat /\ sent \in Nat
           /\ totalSlotNum \in Nat /\ leftDataSz \in Nat
           /\ InUnit \in 0..(writeBackUnitSz - 1) /\ InUnit + Unit <= writeBackUnitSz
           /\ Base \in Nat /\ sent = Base + InUnit
           /\ totalSlotNum * Unit = sent /\ sent < tplcmdTotalSz
           /\ WantSz \in 1..Unit /\ WantSz <= tplcmdTotalSz - sent
           /\ (WantSz < Unit => WantSz = tplcmdTotalSz - sent)
           /\ writeBackUnitSz <= MemCap /\ leftDataSz <= LeftMax
           /\ pkt.notAligned \in Nat /\ pkt.notAligned <= LeftMax
           /\ (isUpload => pkt.notAligned = 0)
           /\ tplcmdTotalSz = pkt.total - pkt.notAligned /\ pkt.total \in Nat
           /\ itemOffsetNotAlignClusterSz_f = pkt.notAligned
           /\ isUpload = pkt.isUpload /\ isUpload \in BOOLEAN
<1>1. /\ writeBackUnitSz \in Nat \ {0} /\ tplcmdTotalSz \in Nat /\ sent \in Nat
      /\ totalSlotNum \in Nat /\ leftDataSz \in Nat /\ isUpload \in BOOLEAN
  BY DEF IInv, TypeOK
<1>2. /\ totalSlotNum * Unit = sent /\ sent < tplcmdTotalSz /\ pkt \in Packets
      /\ tplcmdTotalSz = pkt.total - pkt.notAligned /\ isUpload = pkt.isUpload
      /\ itemOffsetNotAlignClusterSz_f = pkt.notAligned
  BY DEF IInv, CommandInv
<1>3. /\ pkt.notAligned \in Nat /\ pkt.notAligned <= LeftMax /\ pkt.total \in Nat
      /\ (pkt.isUpload => pkt.notAligned = 0)
  BY <1>2, PacketAssumption, Sizes
<1>4. writeBackUnitSz <= MemCap /\ leftDataSz <= LeftMax
  BY DEF IInv, RoomInv
<1>5. InUnit \in 0..(writeBackUnitSz - 1) /\ Base \in Nat /\ sent = Base + InUnit
  <2>1. InUnit \in 0..(writeBackUnitSz - 1) /\ InUnit <= sent
    BY <1>1, DivMod DEF InUnit
  <2> QED BY <2>1, <1>1 DEF Base
<1>6. InUnit + Unit <= writeBackUnitSz
  <2>1. PICK k \in 1..writeBackUnitSz : writeBackUnitSz = k * Unit
    BY DEF IInv, RoomInv
  <2>2. k \in Nat \ {0}
    BY <1>1
  <2>3. ((totalSlotNum * Unit) % writeBackUnitSz) + Unit <= writeBackUnitSz
    BY <1>1, <2>1, <2>2, Sizes, UnitInside, Zenon
  <2> QED BY <2>3, <1>2 DEF InUnit
<1>7. /\ WantSz \in 1..Unit /\ WantSz <= tplcmdTotalSz - sent
      /\ (WantSz < Unit => WantSz = tplcmdTotalSz - sent)
  BY <1>1, <1>2, Sizes DEF WantSz, Lesser
<1> QED BY <1>1, <1>2, <1>3, <1>4, <1>5, <1>6, <1>7

(* While a command is served, its numbers have their types and bounds.      *)
LEMMA UnitBounds ==
    ASSUME IInv, Active
    PROVE  /\ writeBackUnitSz \in Nat \ {0} /\ tplcmdTotalSz \in Nat /\ sent \in Nat
           /\ leftDataSz \in Nat /\ InUnit \in Nat /\ Base \in Nat /\ WantSz \in Nat
           /\ InUnit + Unit <= writeBackUnitSz /\ sent = Base + InUnit
           /\ 0 < WantSz /\ WantSz <= Unit /\ sent + WantSz <= tplcmdTotalSz
           /\ writeBackUnitSz <= MemCap /\ leftDataSz <= LeftMax
           /\ Unit \in Nat \ {0} /\ MemCap \in Nat /\ LeftMax \in Nat
           /\ pkt.notAligned \in Nat /\ pkt.notAligned <= LeftMax
BY UnitFacts, Sizes

(* The u32 cast does not disturb the offset inside the unit.                *)
LEMMA CastHarmless ==
    ASSUME IInv, Active, NEW x \in Nat, x <= tplcmdTotalSz
    PROVE  (x % U32) % writeBackUnitSz = x % writeBackUnitSz
<1>1. /\ pkt \in Packets /\ tplcmdTotalSz = pkt.total - pkt.notAligned
      /\ writeBackUnitSz = WriteBackUnit(pkt)
      /\ writeBackUnitSz <= BufSz \/ pkt.kind = "mem"
  BY DEF IInv, CommandInv
<1>2. Unit <= writeBackUnitSz
  BY UnitFacts, Sizes
<1> QED BY <1>1, <1>2, UnitChosen

(* A command that fails leaves what has been taken as it is.                *)
LEMMA FailIInv ==
    ASSUME IInv, TypeOK', phase' = "failed", UNCHANGED <<bmVars, pkt, out>>
    PROVE  IInv'
<1>1. ~Active' /\ phase' # "done"
  BY DEF Active
<1>2. RoomInv' /\ InOrder'
  BY DEF IInv, RoomInv, InOrder, OverCounted, bmVars
<1> QED BY <1>1, <1>2
      DEF IInv, CommandInv, DueInv, DownloadInv, UploadInv, DoneComplete

(* A client that gives up leaves a failed command behind.                   *)
LEMMA AbortIInv == IInv /\ Abort => IInv'
<1> SUFFICES ASSUME IInv, Abort PROVE IInv'
  OBVIOUS
<1>1. TypeOK'
  BY DEF IInv, TypeOK, Abort, bmVars
<1> QED BY <1>1, FailIInv DEF Abort

(* Filling a slot, rightly or with garbage, touches that slot alone.        *)
LEMMA FillIInv == IInv /\ (Fill \/ FillCorrupt) => IInv'
<1> SUFFICES ASSUME IInv, Fill \/ FillCorrupt PROVE IInv'
  OBVIOUS
<1> USE DEF IInv
<1>1. phase = "xfer" /\ Active
  BY DEF Fill, FillCorrupt, Active
<1>2. UNCHANGED <<bmVars, pkt, sent, pBuf, dumped, out>> /\ phase' \in {"xfer", "filled"}
  <2>1. CASE Fill
    BY <2>1 DEF Fill
  <2>2. CASE FillCorrupt
    BY <1>1, <2>2 DEF FillCorrupt, clientVars
  <2> QED BY <2>1, <2>2
<1>3. /\ InUnit' = InUnit /\ Base' = Base /\ WantSz' = WantSz
      /\ UNCHANGED <<writeBackUnitSz, tplcmdTotalSz, totalSlotNum, nextWriteBackSlot,
                     leftDataSz, isUpload, itemOffsetNotAlignClusterSz_f>>
  BY <1>2 DEF InUnit, Base, WantSz, bmVars
<1>4. RoomInv' /\ CommandInv' /\ DueInv' /\ InOrder' /\ DoneComplete'
  <2>1. RoomInv' /\ InOrder' /\ DoneComplete'
    BY <1>2, <1>3 DEF RoomInv, InOrder, DoneComplete, OverCounted
  <2>2. CommandInv'
    BY <1>1, <1>2, <1>3 DEF CommandInv, Active
  <2>3. DueInv'
    BY <1>1, <1>2, <1>3 DEF DueInv, Active
  <2> QED BY <2>1, <2>2, <2>3
<1>5. ~isUpload
  BY <1>1 DEF UploadInv
<1>6. UploadInv'
  BY <1>3, <1>5 DEF UploadInv
<1>7. pBuf = InUnit
  BY <1>1 DEF CommandInv
<1>8. TypeOK'
  <2>1. mem' \in [Addr -> Nat \cup {Stale}]
    <3>1. CASE FillCorrupt
      BY <3>1 DEF FillCorrupt, TypeOK
    <3>2. CASE Fill
      <4>1. ASSUME NEW a \in Addr,
                   \/ a \in pBuf..(pBuf + WantSz - 1)
                   \/ sent = 0 /\ a \in (pBuf - pkt.notAligned)..(pBuf - 1)
            PROVE  pkt.notAligned + sent + (a - pBuf) \in Nat
        BY <4>1, <1>1, <1>7, UnitFacts, Sizes DEF Addr
      <4> QED BY <3>2, <4>1 DEF Fill, TypeOK
    <3> QED BY <3>1, <3>2
  <2> QED BY <2>1, <1>2, <1>3 DEF TypeOK
<1>9. DownloadInv'
  <2>1. DownloadInv /\ Len(out') = pkt'.notAligned + Base' - leftDataSz'
        /\ (sent' = 0 => leftDataSz' = pkt'.notAligned)
        /\ leftDataSz' >= pkt'.notAligned
    BY <1>1, <1>2, <1>3, <1>5 DEF DownloadInv
  <2>2. CASE FillCorrupt
    <3>1. phase' = "xfer" /\ Held' = InUnit /\ Held = InUnit
      BY <2>2, <1>1, <1>3, UnitFacts DEF FillCorrupt, clientVars, Held
    <3>2. ASSUME sent > 0, NEW a \in -leftDataSz..(InUnit - 1)
          PROVE  mem'[a] = pkt.notAligned + Base + a
      <4>1. a \in Addr /\ a \notin pBuf..(pBuf + WantSz - 1)
        BY <1>1, <1>7, UnitFacts, Sizes DEF Addr
      <4>2. mem'[a] = mem[a]
        BY <4>1, <2>2 DEF FillCorrupt
      <4> QED BY <4>2, <3>1, <3>2, <1>1, <1>5 DEF DownloadInv
    <3> QED BY <2>1, <3>1, <3>2, <1>2, <1>3 DEF DownloadInv
  <2>3. CASE Fill
    <3>1. phase' = "filled" /\ Held' = InUnit + WantSz /\ Held = InUnit
      BY <2>3, <1>1, <1>3, UnitFacts DEF Fill, Held
    <3>2. ASSUME NEW a \in -leftDataSz..(InUnit + WantSz - 1)
          PROVE  mem'[a] = pkt.notAligned + Base + a
      <4>1. a \in Addr
        BY <1>1, UnitFacts, Sizes DEF Addr
      <4>2. CASE a >= InUnit
        <5>1. a \in pBuf..(pBuf + WantSz - 1)
          BY <4>2, <1>1, <1>7, UnitFacts
        <5>2. mem'[a] = pkt.notAligned + sent + (a - pBuf)
          BY <5>1, <4>1, <2>3 DEF Fill
        <5> QED BY <5>2, <1>1, <1>7, UnitFacts
      <4>3. CASE a < InUnit /\ sent = 0
        <5>1. a \in (pBuf - pkt.notAligned)..(pBuf - 1)
          BY <4>3, <2>1, <1>1, <1>2, <1>3, <1>7, UnitFacts, SMTT(60)
        <5>2. mem'[a] = pkt.notAligned + sent + (a - pBuf)
          BY <5>1, <4>1, <4>3, <2>3 DEF Fill
        <5> QED BY <5>2, <1>1, <1>7, UnitFacts
      <4>4. CASE a < InUnit /\ sent # 0
        <5>1. a \notin pBuf..(pBuf + WantSz - 1)
          BY <4>4, <1>1, <1>7, UnitFacts
        <5>2. mem'[a] = mem[a]
          BY <5>1, <4>1, <4>4, <2>3 DEF Fill
        <5>3. a \in -leftDataSz..(Held - 1) /\ sent > 0
          BY <4>4, <3>1, <1>1, UnitFacts
        <5> QED BY <5>2, <5>3, <1>1, <1>5 DEF DownloadInv
      <4>5. \/ a >= InUnit
            \/ a < InUnit /\ sent = 0
            \/ a < InUnit /\ sent # 0
        BY <1>1, UnitFacts
      <4> QED BY <4>2, <4>3, <4>4, <4>5
    <3>3. ASSUME NEW a \in -leftDataSz'..(Held' - 1)
          PROVE  mem'[a] = pkt'.notAligned + Base' + a
      <4>0. leftDataSz' = leftDataSz /\ Held' = InUnit + WantSz
        BY <3>1, <1>3
      <4>1. a \in -leftDataSz..(InUnit + WantSz - 1)
        BY <4>0, <1>1, UnitFacts
      <4>2. mem'[a] = pkt.notAligned + Base + a
        BY <3>2, <4>1
      <4> QED BY <4>2, <1>2, <1>3
    <3>4. Len(out') = pkt'.notAligned + Base' - leftDataSz'
      BY <2>1
    <3> QED BY <2>1, <3>3, <3>4 DEF DownloadInv
  <2> QED BY <2>2, <2>3
<1> QED BY <1>4, <1>6, <1>8, <1>9

(* get_buf_for_bulk_transfer hands out the place behind what is held.       *)
LEMMA NextSlotIInv == IInv /\ NextSlot => IInv'
<1> SUFFICES ASSUME IInv, NextSlot PROVE IInv'
  OBVIOUS
<1>1. phase = "ready" /\ Active /\ GetBuf(WantSz)
  BY DEF NextSlot, Active
<1>2. totalSlotNum * Unit = sent /\ LeftPktSz(sent) = tplcmdTotalSz - sent
  BY <1>1, UnitFacts DEF LeftPktSz
<1>3. (sent % U32) % writeBackUnitSz = InUnit
  BY <1>1, UnitFacts, CastHarmless DEF InUnit
<1>4. ~(WantSz < Unit /\ LeftPktSz(sent) # WantSz)
  BY <1>1, <1>2, UnitFacts
<1> DEFINE dumpSz == Lesser(tplcmdTotalSz - sent, writeBackUnitSz)
<1>5. /\ pBuf' = InUnit
      /\ IF InUnit = 0 /\ isUpload
         THEN \/ /\ mem' = [a \in Addr |-> IF a \in 0..(dumpSz - 1)
                                           THEN dumped + a ELSE mem[a]]
                 /\ dumped' = dumped + dumpSz
                 /\ phase' = "filled"
              \/ phase' = "failed" /\ UNCHANGED <<mem, dumped>>
         ELSE /\ phase' = IF isUpload THEN "filled" ELSE "xfer"
              /\ UNCHANGED <<mem, dumped>>
      /\ UNCHANGED <<bmVars, pkt, sent, out>>
  BY <1>1, <1>2, <1>3, <1>4 DEF GetBuf, bmVars
<1>6. /\ InUnit' = InUnit /\ Base' = Base /\ WantSz' = WantSz /\ UnitLoaded' = UnitLoaded
      /\ UNCHANGED <<writeBackUnitSz, tplcmdTotalSz, totalSlotNum, nextWriteBackSlot,
                     leftDataSz, isUpload, itemOffsetNotAlignClusterSz_f>>
  BY <1>5 DEF InUnit, Base, WantSz, UnitLoaded, bmVars
<1>7. TypeOK'
  <2>1. pBuf' \in Nat
    BY <1>1, <1>5, UnitFacts
  <2>2. dumpSz \in Nat /\ dumped \in Nat
    BY <1>1, UnitFacts DEF Lesser, IInv, TypeOK
  <2>3. dumped' \in Nat /\ mem' \in [Addr -> Nat \cup {Stale}]
    <3>1. CASE UNCHANGED <<mem, dumped>>
      BY <3>1 DEF IInv, TypeOK
    <3>2. CASE /\ mem' = [a \in Addr |-> IF a \in 0..(dumpSz - 1)
                                         THEN dumped + a ELSE mem[a]]
               /\ dumped' = dumped + dumpSz
      <4> HIDE DEF dumpSz
      <4>1. \A a \in Addr : a \in 0..(dumpSz - 1) => dumped + a \in Nat
        BY <2>2
      <4> QED BY <3>2, <4>1, <2>2 DEF IInv, TypeOK
    <3> QED BY <1>5, <3>1, <3>2
  <2>4. phase' \in {"filled", "failed", "xfer"}
    BY <1>5
  <2> QED BY <2>1, <2>3, <2>4, <1>5, <1>6 DEF IInv, TypeOK
<1>8. CASE phase' = "failed"
  BY <1>5, <1>7, <1>8, FailIInv
<1>9. CASE phase' # "failed"
  <2>1. phase' = (IF isUpload THEN "filled" ELSE "xfer") /\ Active'
    BY <1>5, <1>9 DEF Active
  <2>2. RoomInv' /\ InOrder' /\ DoneComplete'
    BY <1>5, <1>6, <2>1 DEF IInv, RoomInv, InOrder, DoneComplete, OverCounted
  <2>3. CommandInv'
    BY <1>1, <1>5, <1>6, <2>1 DEF IInv, CommandInv
  <2>4. DueInv'
    BY <1>1, <1>6 DEF IInv, DueInv
  <2>5. DownloadInv'
    <3> SUFFICES ASSUME ~isUpload PROVE DownloadInv'
      BY <1>6 DEF DownloadInv
    <3>1. phase' = "xfer" /\ mem' = mem
      BY <1>5, <2>1
    <3>2. Held' = Held
      BY <1>1, <1>6, <3>1 DEF Held
    <3> QED BY <1>1, <1>5, <1>6, <3>1, <3>2 DEF IInv, DownloadInv
  <2>6. UploadInv'
    <3> SUFFICES ASSUME isUpload PROVE UploadInv'
      BY <1>6 DEF UploadInv
    <3>1. phase' = "filled" /\ Len(out') = sent'
      BY <1>1, <1>5, <2>1 DEF IInv, UploadInv
    <3>2. CASE InUnit # 0
      BY <1>1, <1>5, <1>6, <3>1, <3>2 DEF IInv, UploadInv
    <3>3. CASE InUnit = 0
      <4>1. Base = sent /\ UnitLoaded = dumpSz /\ dumped = Base
        BY <1>1, <3>3, UnitFacts DEF UnitLoaded, IInv, UploadInv
      <4>2. dumped' = Base + UnitLoaded
        BY <1>5, <1>9, <3>3, <4>1
      <4>3. ASSUME NEW a \in 0..(UnitLoaded - 1) PROVE mem'[a] = Base + a
        <5>1. a \in Addr
          BY <1>1, UnitFacts, Sizes DEF Addr, UnitLoaded, Lesser
        <5> QED BY <5>1, <1>5, <1>9, <3>3, <4>1
      <4> QED BY <3>1, <4>2, <4>3, <1>6 DEF UploadInv
    <3> QED BY <3>2, <3>3
  <2> QED BY <1>7, <2>2, <2>3, <2>4, <2>5, <2>6 DEF IInv
<1> QED BY <1>8, <1>9

(* The quantities of report_transfer_complete, and when a write-back is     *)
(* due: exactly at the end of a unit or of the packet.                      *)
LEMMA ReportFacts ==
    ASSUME IInv, phase = "filled"
    PROVE  /\ TotalTransferSz(WantSz) = sent + WantSz
           /\ LeftPktSz(sent + WantSz) = tplcmdTotalSz - (sent + WantSz)
           /\ WantSz = Unit => ThisWriteBackSz(WantSz) = writeBackUnitSz
           /\ WantSz < Unit => ThisWriteBackSz(WantSz) = InUnit + WantSz
           /\ ThisWriteBackSz(WantSz) \in 1..writeBackUnitSz
<1>1. Active
  BY DEF Active
<1>2. TotalTransferSz(WantSz) = sent + WantSz
  BY <1>1, UnitFacts DEF TotalTransferSz
<1>3. LeftPktSz(sent + WantSz) = tplcmdTotalSz - (sent + WantSz)
  BY <1>1, UnitFacts, Sizes DEF LeftPktSz
<1>4. WantSz = Unit => ThisWriteBackSz(WantSz) = writeBackUnitSz
  BY DEF ThisWriteBackSz
<1>5. ASSUME WantSz < Unit PROVE ThisWriteBackSz(WantSz) = InUnit + WantSz
  <2>1. WantSz \in Nat /\ sent + WantSz \in Nat /\ sent + WantSz <= tplcmdTotalSz
    BY <1>1, UnitFacts, Sizes
  <2>2. ThisWriteBackSz(WantSz) = (sent + WantSz) % writeBackUnitSz
    <3>1. ((sent + WantSz) % U32) % writeBackUnitSz = (sent + WantSz) % writeBackUnitSz
      BY <1>1, <2>1, CastHarmless
    <3>2. WantSz # Unit
      BY <1>1, <1>5, UnitFacts, Sizes
    <3> QED BY <1>2, <3>1, <3>2 DEF ThisWriteBackSz
  <2>3. (sent % writeBackUnitSz) + WantSz < writeBackUnitSz
    BY <1>1, <1>5, UnitFacts, Sizes DEF InUnit
  <2>4. (sent + WantSz) % writeBackUnitSz = (sent % writeBackUnitSz) + WantSz
    <3>1. sent \in Nat /\ writeBackUnitSz \in Nat \ {0}
      BY <1>1, UnitFacts
    <3> QED BY <3>1, <2>1, <2>3, ModStep, Zenon
  <2> QED BY <2>2, <2>4 DEF InUnit
<1>6. ThisWriteBackSz(WantSz) \in 1..writeBackUnitSz
  <2>1. CASE WantSz = Unit
    BY <2>1, <1>1, <1>4, UnitFacts
  <2>2. CASE WantSz < Unit
    BY <2>2, <1>1, <1>5, UnitFacts, Sizes
  <2>3. WantSz = Unit \/ WantSz < Unit
    BY <1>1, UnitFacts, Sizes
  <2> QED BY <2>1, <2>2, <2>3
<1> QED BY <1>2, <1>3, <1>4, <1>5, <1>6

(* A write-back falls due with a full unit or with the last slot.           *)
LEMMA DueFacts ==
    ASSUME IInv, phase = "filled", ~isUpload
    PROVE  /\ WriteBackDue /\ sent + WantSz < tplcmdTotalSz =>
                 WantSz = Unit /\ InUnit + Unit = writeBackUnitSz
           /\ WriteBackDue /\ sent + WantSz = tplcmdTotalSz =>
                 OverCounted \/ ThisWriteBackSz(WantSz) = InUnit + WantSz
           /\ ~WriteBackDue =>
                 /\ sent + WantSz < tplcmdTotalSz /\ WantSz = Unit
                 /\ InUnit + Unit < writeBackUnitSz
<1>1. Active
  BY DEF Active
<1> DEFINE n == nextWriteBackSlot * Unit
<1>2. nextWriteBackSlot \in Nat /\ totalSlotNum \in Nat /\ n \in Nat
  BY Sizes DEF IInv, TypeOK
<1>3. IF tplcmdTotalSz - Base >= writeBackUnitSz THEN n = Base + writeBackUnitSz
      ELSE tplcmdTotalSz <= n /\ n < tplcmdTotalSz + Unit
  BY <1>1 DEF IInv, DueInv
<1>4. (totalSlotNum + 1) * Unit = sent + Unit
  <2>1. (totalSlotNum + 1) * Unit = totalSlotNum * Unit + Unit
    BY <1>2, Sizes
  <2> QED BY <2>1, <1>1, UnitFacts
<1>5. WriteBackDue <=> n = sent + Unit
  <2>1. WriteBackDue => n = sent + Unit
    BY <1>4 DEF WriteBackDue
  <2>2. ASSUME n = sent + Unit, ~WriteBackDue PROVE FALSE
    <3>1. totalSlotNum + 1 < nextWriteBackSlot \/ nextWriteBackSlot < totalSlotNum + 1
      BY <2>2, <1>2 DEF WriteBackDue
    <3>2. n < (totalSlotNum + 1) * Unit \/ (totalSlotNum + 1) * Unit < n
      <4>1. totalSlotNum + 1 \in Int /\ nextWriteBackSlot \in Int
        BY <1>2
      <4>2. \/ (totalSlotNum + 1) * Unit + Unit <= n
            \/ n + Unit <= (totalSlotNum + 1) * Unit
        BY <3>1, <4>1, MulOrder, Sizes
      <4> QED BY <4>2, <1>2, <1>4, Sizes, UnitFacts, <1>1
    <3> QED BY <3>2, <2>2, <1>4, <1>2
  <2> QED BY <2>1, <2>2
<1> HIDE DEF n
<1>6. ASSUME WriteBackDue, sent + WantSz < tplcmdTotalSz
      PROVE  WantSz = Unit /\ InUnit + Unit = writeBackUnitSz
  BY <1>1, <1>2, <1>3, <1>5, <1>6, UnitFacts, Sizes
<1>7. ASSUME WriteBackDue, sent + WantSz = tplcmdTotalSz, ~OverCounted
      PROVE  ThisWriteBackSz(WantSz) = InUnit + WantSz
  <2>1. CASE WantSz < Unit
    BY <2>1, ReportFacts
  <2>2. CASE WantSz = Unit /\ tplcmdTotalSz - Base >= writeBackUnitSz
    BY <2>2, <1>1, <1>3, <1>5, <1>7, ReportFacts, UnitFacts, Sizes
  <2>3. CASE WantSz = Unit /\ tplcmdTotalSz - Base < writeBackUnitSz
    <3>1. tplcmdTotalSz = (totalSlotNum + 1) * Unit + 0
      BY <2>3, <1>4, <1>7, <1>1, UnitFacts, Sizes
    <3>2. tplcmdTotalSz % Unit = 0
      <4>1. totalSlotNum + 1 \in Int /\ 0 \in 0..(Unit - 1)
        BY <1>2, Sizes
      <4>2. ((totalSlotNum + 1) * Unit + 0) % Unit = 0
        BY <4>1, ModUnique, Sizes
      <4> QED BY <3>1, <4>2
    <3>3. (sent % writeBackUnitSz) + Unit < writeBackUnitSz
      BY <2>3, <1>7, <1>1, UnitFacts, Sizes DEF InUnit
    <3>4. (sent + Unit) % writeBackUnitSz = (sent % writeBackUnitSz) + Unit
      <4>1. sent \in Nat /\ writeBackUnitSz \in Nat \ {0} /\ Unit \in Nat
        BY <1>1, UnitFacts, Sizes
      <4> QED BY <4>1, <3>3, ModStep, Zenon
    <3>5. tplcmdTotalSz % writeBackUnitSz # 0
      <4>1. tplcmdTotalSz = sent + Unit
        BY <2>3, <1>7
      <4> QED BY <3>4, <4>1, <1>1, UnitFacts, Sizes DEF InUnit
    <3>6. OverCounted
      BY <3>2, <3>5, <1>1 DEF OverCounted, IInv, CommandInv
    <3> QED BY <3>6, <1>7
  <2>4. \/ WantSz < Unit
        \/ WantSz = Unit /\ tplcmdTotalSz - Base >= writeBackUnitSz
        \/ WantSz = Unit /\ tplcmdTotalSz - Base < writeBackUnitSz
    BY <1>1, UnitFacts, Sizes
  <2> QED BY <2>1, <2>2, <2>3, <2>4
<1>8. ASSUME ~WriteBackDue
      PROVE  /\ sent + WantSz < tplcmdTotalSz /\ WantSz = Unit
             /\ InUnit + Unit < writeBackUnitSz
  <2>1. n # sent + Unit
    BY <1>5, <1>8
  <2>2. sent + Unit < tplcmdTotalSz
    <3>1. CASE tplcmdTotalSz - Base >= writeBackUnitSz
      <4>1. sent + Unit # Base + writeBackUnitSz
        BY <3>1, <2>1, <1>3
      <4>2. /\ sent = Base + InUnit /\ InUnit + Unit <= writeBackUnitSz
            /\ Base \in Nat /\ InUnit \in Nat /\ writeBackUnitSz \in Nat
            /\ tplcmdTotalSz \in Nat /\ Unit \in Nat
        BY <1>1, UnitFacts, Sizes
      <4>3. sent + Unit < Base + writeBackUnitSz
        BY <4>1, <4>2
      <4> QED BY <3>1, <4>2, <4>3
    <3>2. CASE ~(tplcmdTotalSz - Base >= writeBackUnitSz)
      <4>1. tplcmdTotalSz <= n /\ n < tplcmdTotalSz + Unit
        BY <3>2, <1>3
      <4>2. ASSUME tplcmdTotalSz <= sent + Unit PROVE FALSE
        <5>1. totalSlotNum * Unit < n /\ n < (totalSlotNum + 2) * Unit
          <6>1. (totalSlotNum + 2) * Unit = totalSlotNum * Unit + Unit + Unit
            BY <1>2, Sizes
          <6> QED BY <6>1, <4>1, <4>2, <1>1, <1>2, UnitFacts, Sizes
        <5>2. totalSlotNum < nextWriteBackSlot /\ nextWriteBackSlot < totalSlotNum + 2
          <6>1. totalSlotNum \in Int /\ nextWriteBackSlot \in Int /\ totalSlotNum + 2 \in Int
            BY <1>2
          <6> QED BY <5>1, <6>1, MulOrder, Sizes DEF n
        <5>3. nextWriteBackSlot = totalSlotNum + 1
          BY <5>2, <1>2
        <5> QED BY <5>3, <1>8 DEF WriteBackDue
      <4> QED BY <4>2, <1>1, UnitFacts, Sizes
    <3> QED BY <3>1, <3>2
  <2>3. WantSz = Unit
    BY <2>2, <1>1, UnitFacts, Sizes
  <2>4. InUnit + Unit # writeBackUnitSz
    BY <2>1, <2>2, <1>1, <1>3, UnitFacts, Sizes
  <2> QED BY <2>2, <2>3, <2>4, <1>1, UnitFacts, Sizes
<1> QED BY <1>6, <1>7, <1>8

(* A report moves the running total on by one slot; the rest of the command *)
(* stays as it is.                                                          *)
LEMMA ReportSteps ==
    ASSUME IInv, phase = "filled", NEW burnSz, Report(WantSz, burnSz)
    PROVE  /\ sent' = sent + WantSz /\ totalSlotNum' = totalSlotNum + 1
           /\ UNCHANGED <<writeBackUnitSz, tplcmdTotalSz, isUpload,
                          itemOffsetNotAlignClusterSz_f, pkt, pBuf, dumped>>
           /\ OverCounted' = OverCounted
           /\ sent + WantSz # tplcmdTotalSz =>
                 /\ WantSz = Unit /\ sent + Unit < tplcmdTotalSz
                 /\ sent' = totalSlotNum' * Unit /\ sent' < tplcmdTotalSz'
                 /\ InUnit + Unit < writeBackUnitSz =>
                       InUnit' = InUnit + Unit /\ Base' = Base
                 /\ InUnit + Unit = writeBackUnitSz =>
                       InUnit' = 0 /\ Base' = Base + writeBackUnitSz
<1>1. Active
  BY DEF Active
<1>2. /\ sent' = sent + WantSz /\ totalSlotNum' = totalSlotNum + 1
      /\ UNCHANGED <<writeBackUnitSz, tplcmdTotalSz, isUpload,
                     itemOffsetNotAlignClusterSz_f, pkt, pBuf, dumped>>
  BY DEF Report
<1>3. OverCounted' = OverCounted
  BY <1>2 DEF OverCounted
<1>4. ASSUME sent + WantSz # tplcmdTotalSz
      PROVE  WantSz = Unit /\ sent + Unit < tplcmdTotalSz
  BY <1>1, <1>4, UnitFacts, Sizes
<1>5. ASSUME sent + WantSz # tplcmdTotalSz
      PROVE  sent' = totalSlotNum' * Unit /\ sent' < tplcmdTotalSz'
  <2>1. (totalSlotNum + 1) * Unit = totalSlotNum * Unit + Unit
    BY <1>1, UnitFacts, Sizes
  <2> QED BY <2>1, <1>1, <1>2, <1>4, <1>5, UnitFacts
<1>6. sent \in Nat /\ writeBackUnitSz \in Nat \ {0} /\ Unit \in Nat /\ InUnit \in Nat
  BY <1>1, UnitFacts, Sizes
<1>7. /\ InUnit + Unit < writeBackUnitSz => (sent + Unit) % writeBackUnitSz = InUnit + Unit
      /\ InUnit + Unit = writeBackUnitSz => (sent + Unit) % writeBackUnitSz = 0
  BY <1>6, ModStep, Zenon DEF InUnit
<1>8. ASSUME sent' = sent + Unit
      PROVE  /\ InUnit + Unit < writeBackUnitSz => InUnit' = InUnit + Unit /\ Base' = Base
             /\ InUnit + Unit = writeBackUnitSz =>
                   InUnit' = 0 /\ Base' = Base + writeBackUnitSz
  <2>1. InUnit' = (sent + Unit) % writeBackUnitSz /\ Base' = sent' - InUnit'
    BY <1>2, <1>8 DEF InUnit, Base
  <2>2. Base = sent - InUnit
    BY DEF Base
  <2> QED BY <2>1, <2>2, <1>6, <1>7, <1>8
<1> QED BY <1>2, <1>3, <1>4, <1>5, <1>8

(* Reporting an uploaded slot never triggers a write-back.                  *)
LEMMA ReportUploadIInv ==
    ASSUME IInv, phase = "filled", isUpload, NEW burnSz, Report(WantSz, burnSz)
    PROVE  IInv'
<1>1. Active /\ isUpload' /\ nextWriteBackSlot = 0
  <2>1. Active
    BY DEF Active
  <2> QED BY <2>1, ReportSteps, Zenon DEF IInv, DueInv
<1>2. ~WriteBackDue
  BY <1>1, UnitFacts DEF WriteBackDue
<1>3. /\ out' = out \o Bytes(pBuf, WantSz)
      /\ phase' = IF sent' = tplcmdTotalSz THEN "done" ELSE "ready"
      /\ UNCHANGED <<mem, leftDataSz, nextWriteBackSlot>>
  BY <1>2 DEF Report
<1>4. /\ pBuf = InUnit /\ Len(out) = sent /\ out \in Seq(Cell)
      /\ dumped = Base + UnitLoaded
      /\ \A a \in 0..(UnitLoaded - 1) : mem[a] = Base + a
  BY <1>1 DEF IInv, CommandInv, UploadInv, TypeOK, Cell
<1>5. InUnit + WantSz <= UnitLoaded
  BY <1>1, UnitFacts, Sizes DEF UnitLoaded, Lesser
<1>6. ASSUME NEW a \in InUnit..(InUnit + WantSz - 1)
      PROVE  mem[a] = Len(out) + (a - InUnit) /\ mem[a] \in Cell
  <2>1. a \in 0..(UnitLoaded - 1)
    BY <1>1, <1>5, UnitFacts, Sizes DEF UnitLoaded, Lesser
  <2>2. mem[a] = Base + a
    BY <2>1, <1>4
  <2>3. Base + a = Len(out) + (a - InUnit) /\ Base + a \in Nat
    <3>1. Len(out) = sent /\ a \in Int /\ a >= 0
      BY <2>1, <1>4
    <3>2. Base + a = sent + (a - InUnit) /\ Base + a \in Nat
      <4>1. a \in Int /\ a >= 0
        BY <3>1
      <4>2. sent = Base + InUnit /\ Base \in Nat /\ InUnit \in Nat
        BY <1>1, UnitBounds
      <4> QED BY <4>1, <4>2
    <3> QED BY <3>1, <3>2
  <2> QED BY <2>2, <2>3 DEF Cell
<1>7. /\ out' \in Seq(Cell) /\ Len(out') = sent + WantSz
      /\ Ordered(out) => Ordered(out')
  <2>1. InUnit \in Int /\ WantSz \in Nat
    BY <1>1, UnitFacts, Sizes
  <2> QED BY <2>1, <1>3, <1>4, <1>6, Handover, Zenon
<1>8. InOrder'
  BY <1>7, ReportSteps, Zenon DEF IInv, InOrder, Ordered
<1>9. TypeOK'
  <2>1. sent' \in Nat /\ totalSlotNum' \in Nat
    BY <1>1, UnitFacts, Sizes, ReportSteps
  <2>2. phase' \in {"done", "ready"}
    BY <1>3
  <2> QED BY <2>1, <2>2, <1>3, <1>7, ReportSteps, Zenon DEF IInv, TypeOK, Cell
<1>10. RoomInv'
  BY <1>3, ReportSteps, Zenon DEF IInv, RoomInv
<1>11. DownloadInv'
  BY <1>1 DEF DownloadInv
<1>12. CASE sent' = tplcmdTotalSz
  <2>1. phase' = "done" /\ ~Active'
    BY <1>3, <1>12 DEF Active
  <2>2. DoneComplete'
    <3>1. pkt' = pkt /\ Len(out') = tplcmdTotalSz
      BY <1>7, <1>12, ReportSteps, Zenon
    <3>2. tplcmdTotalSz = pkt.total
      BY <1>1, UnitFacts
    <3> QED BY <3>1, <3>2 DEF DoneComplete
  <2> QED BY <2>1, <2>2, <1>8, <1>9, <1>10, <1>11
        DEF IInv, CommandInv, DueInv, UploadInv
<1>13. CASE sent' # tplcmdTotalSz
  <2>1. phase' = "ready"
    BY <1>3, <1>13
  <2>2. /\ WantSz = Unit /\ sent + Unit < tplcmdTotalSz
        /\ sent' = totalSlotNum' * Unit /\ sent' < tplcmdTotalSz'
    BY <1>13, ReportSteps, Zenon
  <2>3. CommandInv' /\ DueInv' /\ DoneComplete'
    <3>1. CommandInv'
      BY <2>1, <2>2, <1>1, ReportSteps, Zenon DEF IInv, CommandInv
    <3>2. DueInv'
      BY <1>1, <1>3 DEF DueInv
    <3>3. DoneComplete'
      BY <2>1 DEF DoneComplete
    <3> QED BY <3>1, <3>2, <3>3
  <2>4. Len(out') = sent' /\ dumped' = dumped /\ mem' = mem
    BY <1>3, <1>7, ReportSteps, Zenon
  <2>5. UploadInv'
    <3>1. CASE InUnit + Unit < writeBackUnitSz
      <4>1. InUnit' = InUnit + Unit /\ Base' = Base /\ InUnit' # 0
        BY <3>1, <1>1, <1>13, ReportSteps, UnitFacts, Sizes
      <4>2. UnitLoaded' = UnitLoaded
        BY <4>1, ReportSteps, Zenon DEF UnitLoaded, Lesser
      <4> QED BY <4>1, <4>2, <2>1, <2>4, <1>4 DEF UploadInv
    <3>2. CASE InUnit + Unit = writeBackUnitSz
      <4>1. InUnit' = 0 /\ Base' = Base + writeBackUnitSz
        BY <3>2, <1>13, ReportSteps, Zenon
      <4>2. UnitLoaded = writeBackUnitSz
        BY <3>2, <2>2, <1>1, UnitFacts, Sizes DEF UnitLoaded, Lesser
      <4> QED BY <4>1, <4>2, <2>1, <2>4, <1>4 DEF UploadInv
    <3>3. InUnit + Unit < writeBackUnitSz \/ InUnit + Unit = writeBackUnitSz
      BY <1>1, UnitBounds
    <3> QED BY <3>1, <3>2, <3>3
  <2> QED BY <2>3, <2>5, <1>8, <1>9, <1>10, <1>11 DEF IInv
<1> QED BY <1>12, <1>13

(* A slot that triggers no write-back only lengthens what the buffer holds. *)
LEMMA ReportGatherIInv ==
    ASSUME IInv, phase = "filled", ~isUpload, ~WriteBackDue,
           NEW burnSz, Report(WantSz, burnSz)
    PROVE  IInv'
<1>1. Active /\ ~isUpload'
  <2>1. Active
    BY DEF Active
  <2> QED BY <2>1, ReportSteps
<1>2. sent + WantSz < tplcmdTotalSz /\ WantSz = Unit /\ InUnit + Unit < writeBackUnitSz
  BY DueFacts
<1>3. sent' # tplcmdTotalSz
  BY <1>1, <1>2, ReportSteps, UnitFacts, Sizes
<1>4. phase' = "ready" /\ UNCHANGED <<mem, out, leftDataSz, nextWriteBackSlot>>
  BY <1>3 DEF Report
<1>5. /\ InUnit' = InUnit + Unit /\ Base' = Base
      /\ sent' = totalSlotNum' * Unit /\ sent' < tplcmdTotalSz' /\ sent' > 0
      /\ sent' \in Nat /\ totalSlotNum' \in Nat
  BY <1>1, <1>2, <1>3, ReportSteps, UnitFacts, Sizes
<1>6. TypeOK'
  BY <1>4, <1>5, ReportSteps, SMTT(60) DEF IInv, TypeOK
<1>7. RoomInv' /\ InOrder' /\ DoneComplete'
  BY <1>4, ReportSteps DEF IInv, RoomInv, InOrder, DoneComplete
<1>8. CommandInv'
  BY <1>1, <1>4, <1>5, ReportSteps DEF IInv, CommandInv
<1>9. DueInv'
  BY <1>1, <1>4, <1>5, ReportSteps DEF IInv, DueInv
<1>10. DownloadInv'
  <2>1. Held' = Held
    BY <1>2, <1>4, <1>5 DEF Held
  <2> QED BY <2>1, <1>1, <1>4, <1>5, ReportSteps DEF IInv, DownloadInv
<1>11. UploadInv'
  BY <1>1 DEF UploadInv
<1> QED BY <1>6, <1>7, <1>8, <1>9, <1>10, <1>11 DEF IInv

(* What the writer is offered and answers when a write-back is due, and     *)
(* what it then has taken.                                                  *)
LEMMA WriteBackTakes ==
    ASSUME IInv, phase = "filled", ~isUpload, WriteBackDue,
           NEW burnSz, Report(WantSz, burnSz)
    PROVE  /\ burnSz \in Nat /\ GivenSz(WantSz) \in Nat
           /\ GivenSz(WantSz) <= leftDataSz + ThisWriteBackSz(WantSz)
           /\ (sent + WantSz < tplcmdTotalSz =>
                 GivenSz(WantSz) = leftDataSz + ThisWriteBackSz(WantSz) - pkt.notAligned)
           /\ WriteBack(WantSz, burnSz)
           /\ out' \in Seq(Cell)
           /\ Len(out') = Len(out) + Lesser(burnSz, GivenSz(WantSz))
           /\ InOrder'
<1> DEFINE twb == ThisWriteBackSz(WantSz)
           given == GivenSz(WantSz)
           n == Lesser(burnSz, given)
<1>1. Active
  BY DEF Active
<1>2. twb \in 1..writeBackUnitSz /\ twb \in Nat /\ twb <= writeBackUnitSz
  BY <1>1, ReportFacts, UnitBounds
<1>3. given = leftDataSz + twb - (IF tplcmdTotalSz - (sent + WantSz) > 0
                                  THEN pkt.notAligned ELSE 0)
  BY <1>1, ReportFacts, UnitFacts DEF GivenSz
<1>4. leftDataSz >= pkt.notAligned /\ Len(out) = pkt.notAligned + Base - leftDataSz
  BY <1>1 DEF IInv, DownloadInv
<1> HIDE DEF twb
<1>5. given \in Nat /\ given <= leftDataSz + twb
  <2>1. \/ given = leftDataSz + twb - pkt.notAligned
        \/ given = leftDataSz + twb - 0
    BY <1>3
  <2>2. leftDataSz >= pkt.notAligned
    BY <1>4
  <2> HIDE DEF given
  <2> QED BY <2>1, <2>2, <1>1, <1>2, UnitBounds
<1>6. burnSz \in WriterResults(given) /\ WriteBack(WantSz, burnSz)
  BY DEF Report
<1> HIDE DEF given
<1>7. burnSz \in Nat
  BY <1>5, <1>6 DEF WriterResults, Overrun
<1>8. n \in Nat /\ n <= given
  BY <1>5, <1>7 DEF Lesser
<1>9. out' = out \o Bytes(-leftDataSz, n)
  BY <1>6 DEF WriteBack, given
<1> HIDE DEF n
<1>10. ASSUME NEW a \in (-leftDataSz)..(-leftDataSz + n - 1)
       PROVE  mem[a] \in Cell /\ a >= -leftDataSz /\ a < twb /\ a \in Int
  <2>1. a >= -leftDataSz /\ a < twb /\ a \in Int
    BY <1>1, <1>2, <1>5, <1>8, UnitBounds
  <2>2. a \in Addr
    BY <2>1, <1>1, <1>2, UnitBounds DEF Addr
  <2> QED BY <2>1, <2>2 DEF IInv, TypeOK, Cell
<1>11. out \in Seq(Cell) /\ -leftDataSz \in Int
  BY <1>1, UnitBounds DEF IInv, TypeOK, Cell
<1>12. /\ out' \in Seq(Cell) /\ Len(out') = Len(out) + n
       /\ Ordered(out) /\ (\A a \in (-leftDataSz)..(-leftDataSz + n - 1) :
                              mem[a] = Len(out) + (a - (-leftDataSz)))
            => Ordered(out')
  BY <1>8, <1>9, <1>10, <1>11, Handover, Zenon
<1>13. InOrder'
  <2> SUFFICES ASSUME ~OverCounted PROVE Ordered(out')
    BY ReportSteps DEF InOrder, Ordered
  <2>1. twb = InUnit + WantSz
    <3>1. CASE sent + WantSz < tplcmdTotalSz
      BY <3>1, DueFacts, ReportFacts DEF twb
    <3>2. CASE sent + WantSz = tplcmdTotalSz
      BY <3>2, DueFacts DEF twb
    <3>3. sent + WantSz < tplcmdTotalSz \/ sent + WantSz = tplcmdTotalSz
      BY <1>1, UnitBounds
    <3> QED BY <3>1, <3>2, <3>3
  <2>2. Held = twb
    BY <2>1 DEF Held
  <2>3. ASSUME NEW a \in (-leftDataSz)..(-leftDataSz + n - 1)
        PROVE  mem[a] = Len(out) + (a - (-leftDataSz))
    <3>1. a \in -leftDataSz..(Held - 1)
      BY <2>2, <1>1, <1>2, <1>10, UnitBounds
    <3>2. mem[a] = pkt.notAligned + Base + a
      BY <3>1, <1>1 DEF IInv, DownloadInv
    <3>3. a \in Int
      BY <1>10
    <3>4. pkt.notAligned + Base + a
            = (pkt.notAligned + Base - leftDataSz) + (a - (-leftDataSz))
      BY <3>3, <1>1, UnitBounds
    <3> QED BY <3>2, <3>4, <1>4
  <2>4. Ordered(out)
    BY DEF IInv, InOrder, Ordered
  <2> QED BY <2>3, <2>4, <1>12
<1>14. sent + WantSz < tplcmdTotalSz => given = leftDataSz + twb - pkt.notAligned
  BY <1>1, <1>3, UnitBounds
<1> QED BY <1>5, <1>6, <1>7, <1>12, <1>13, <1>14 DEF twb, given, n

(* The slot of the next write-back after one in the middle of the packet.   *)
LEMMA DueStep ==
    ASSUME IInv, Active, WriteBackDue, sent + Unit < tplcmdTotalSz,
           InUnit + Unit = writeBackUnitSz, NEW next,
           next = nextWriteBackSlot +
              IF tplcmdTotalSz - (sent + Unit) >= writeBackUnitSz
              THEN writeBackUnitSz \div Unit
              ELSE CeilSlots((tplcmdTotalSz - (sent + Unit)) % U32)
    PROVE  IF tplcmdTotalSz - (Base + writeBackUnitSz) >= writeBackUnitSz
           THEN next * Unit = (Base + writeBackUnitSz) + writeBackUnitSz
           ELSE tplcmdTotalSz <= next * Unit /\ next * Unit < tplcmdTotalSz + Unit
<1> DEFINE l == tplcmdTotalSz - (sent + Unit)
           done == Base + writeBackUnitSz
<1>1. /\ l \in Nat /\ done = sent + Unit /\ l = tplcmdTotalSz - done
      /\ done \in Nat /\ tplcmdTotalSz \in Nat /\ writeBackUnitSz \in Nat
      /\ writeBackUnitSz <= MemCap
  BY UnitBounds
<1>2. nextWriteBackSlot \in Nat /\ totalSlotNum \in Nat
  BY DEF IInv, TypeOK
<1>3. nextWriteBackSlot * Unit = done
  <2>1. nextWriteBackSlot = totalSlotNum + 1
    BY DEF WriteBackDue
  <2>2. (totalSlotNum + 1) * Unit = totalSlotNum * Unit + Unit
    BY <1>2, Sizes
  <2>3. totalSlotNum * Unit = sent
    BY UnitFacts
  <2> QED BY <2>1, <2>2, <2>3, <1>1
<1> HIDE DEF l, done
<1>4. CASE l >= writeBackUnitSz
  <2>1. PICK k \in 1..writeBackUnitSz : writeBackUnitSz = k * Unit
    BY DEF IInv, RoomInv
  <2>2. k \in Nat
    BY <1>1
  <2>3. next = nextWriteBackSlot + k
    BY <2>1, <2>2, <1>4, Sizes, DivMul DEF l
  <2>4. (nextWriteBackSlot + k) * Unit = nextWriteBackSlot * Unit + k * Unit
    BY <2>2, <1>2, Sizes
  <2>5. next * Unit = done + writeBackUnitSz
    BY <2>1, <2>3, <2>4, <1>3
  <2> QED BY <2>5, <1>1, <1>4 DEF done
<1>5. CASE ~(l >= writeBackUnitSz)
  <2>1. l % U32 = l
    BY <1>1, <1>5, Sizes, ModSmall
  <2>2. next = nextWriteBackSlot + CeilSlots(l)
    BY <2>1, <1>5 DEF l
  <2>3. /\ CeilSlots(l) \in Nat
        /\ l <= CeilSlots(l) * Unit /\ CeilSlots(l) * Unit < l + Unit
    BY <1>1, Sizes, CeilSlotsBound, Zenon
  <2> DEFINE c == CeilSlots(l)
  <2> HIDE DEF c
  <2>4. (nextWriteBackSlot + c) * Unit = nextWriteBackSlot * Unit + c * Unit
    BY <2>3, <1>2, Sizes DEF c
  <2>5. next * Unit = done + c * Unit /\ c * Unit \in Int
    BY <2>2, <2>3, <2>4, <1>3, Sizes DEF c
  <2>6. l <= c * Unit /\ c * Unit < l + Unit
    BY <2>3 DEF c
  <2>7. tplcmdTotalSz <= done + c * Unit /\ done + c * Unit < tplcmdTotalSz + Unit
    <3> DEFINE cu == c * Unit
    <3>1. cu \in Int /\ l <= cu /\ cu < l + Unit
      BY <2>5, <2>6
    <3> HIDE DEF cu
    <3>2. tplcmdTotalSz <= done + cu /\ done + cu < tplcmdTotalSz + Unit
      BY <3>1, <1>1, Sizes
    <3> QED BY <3>2 DEF cu
  <2>8. ~(tplcmdTotalSz - done >= writeBackUnitSz)
    BY <1>1, <1>5
  <2> QED BY <2>5, <2>7, <2>8 DEF done
<1> QED BY <1>4, <1>5

(* A write-back preserves the invariant: what the writer has left is the    *)
(* next part of the image, and lies just below the buffer.                  *)
LEMMA ReportWriteBackIInv ==
    ASSUME IInv, phase = "filled", ~isUpload, WriteBackDue,
           NEW burnSz, Report(WantSz, burnSz)
    PROVE  IInv'
<1> DEFINE twb == ThisWriteBackSz(WantSz)
           given == GivenSz(WantSz)
           leftSz == leftDataSz + twb - burnSz
<1>1. Active /\ ~isUpload'
  <2>1. Active
    BY DEF Active
  <2> QED BY <2>1, ReportSteps
<1>2. twb \in Nat /\ twb >= 1 /\ twb <= writeBackUnitSz
  BY <1>1, ReportFacts, UnitBounds
<1>3. /\ burnSz \in Nat /\ given \in Nat /\ given <= leftDataSz + twb
      /\ (sent + WantSz < tplcmdTotalSz => given = leftDataSz + twb - pkt.notAligned)
      /\ WriteBack(WantSz, burnSz)
      /\ out' \in Seq(Cell) /\ Len(out') = Len(out) + Lesser(burnSz, given)
      /\ InOrder'
  BY WriteBackTakes
<1>8. /\ burnSz \in Nat /\ given \in Nat /\ given <= leftDataSz + twb
      /\ (sent + WantSz < tplcmdTotalSz => given = leftDataSz + twb - pkt.notAligned)
  BY <1>3
<1>9. leftDataSz \in Nat /\ pkt.notAligned \in Nat
  BY <1>1, UnitBounds
<1>4. UploadInv'
  BY <1>1 DEF UploadInv
<1>5. sent' \in Nat /\ totalSlotNum' \in Nat
  BY <1>1, UnitFacts, Sizes, ReportSteps
<1>6. CASE BurnRefused(WantSz, burnSz)
  <2>1. phase' = "failed" /\ UNCHANGED <<mem, leftDataSz, nextWriteBackSlot>>
    BY <1>3, <1>6 DEF WriteBack
  <2>2. TypeOK'
    BY <2>1, <1>3, <1>5, ReportSteps, ZenonT(60) DEF IInv, TypeOK, Cell
  <2>3. RoomInv'
    BY <2>1, ReportSteps DEF IInv, RoomInv
  <2>4. ~Active' /\ phase' # "done"
    BY <2>1 DEF Active
  <2> QED BY <2>2, <2>3, <2>4, <1>3, <1>4
        DEF IInv, CommandInv, DueInv, DownloadInv, DoneComplete
<1>7. CASE ~BurnRefused(WantSz, burnSz)
  <2>1. /\ mem' = [a \in Addr |-> IF a \in -leftSz..-1 THEN mem[a + twb] ELSE mem[a]]
        /\ leftDataSz' = leftSz
        /\ nextWriteBackSlot' = nextWriteBackSlot +
              IF tplcmdTotalSz - (sent + WantSz) >= writeBackUnitSz
              THEN writeBackUnitSz \div Unit
              ELSE CeilSlots((tplcmdTotalSz - (sent + WantSz)) % U32)
        /\ phase' = IF sent' = tplcmdTotalSz THEN "done" ELSE "ready"
    BY <1>3, <1>7, ReportFacts DEF WriteBack
  <2>2. /\ ~(burnSz <= leftDataSz) /\ ~(given < burnSz)
        /\ leftSz > 0 => ~(sent + WantSz >= tplcmdTotalSz) /\ ~(leftSz > LeftMax)
    BY <1>7, ReportFacts DEF BurnRefused
  <2> HIDE DEF twb, given
  <2>3. /\ burnSz > leftDataSz /\ burnSz <= given /\ leftSz \in Nat
        /\ Lesser(burnSz, given) = burnSz
    BY <2>2, <1>2, <1>8, <1>9 DEF Lesser
  <2>4. leftSz <= LeftMax
    BY <2>2, <2>3, Sizes
  <2> HIDE DEF leftSz
  <2>5. ASSUME NEW a \in -leftSz..-1 PROVE a + twb \in Addr /\ a + twb >= 0
    BY <2>3, <1>1, <1>2, <1>8, UnitBounds DEF Addr, leftSz
  <2>6. mem' \in [Addr -> Nat \cup {Stale}]
    <3>1. ASSUME NEW a \in Addr, a \in -leftSz..-1 PROVE mem[a + twb] \in Nat \cup {Stale}
      BY <3>1, <2>5 DEF IInv, TypeOK
    <3> QED BY <2>1, <3>1 DEF IInv, TypeOK
  <2>7. RoomInv'
    BY <2>1, <2>4, ReportSteps DEF IInv, RoomInv
  <2>8. sent + WantSz < tplcmdTotalSz \/ sent + WantSz = tplcmdTotalSz
    BY <1>1, UnitBounds
  <2>9. Len(out') = pkt.notAligned + Base - leftDataSz + burnSz
    BY <2>3, <1>1, <1>3 DEF IInv, DownloadInv
  <2>10. nextWriteBackSlot' \in Nat
    <3> DEFINE l == tplcmdTotalSz - (sent + WantSz)
    <3>1. l \in Nat
      BY <1>1, UnitBounds
    <3> HIDE DEF l
    <3>2. l % U32 \in Nat
      BY <3>1, DivMod, Sizes
    <3>3. CeilSlots(l % U32) \in Nat
      BY <3>2, Sizes, CeilSlotsBound, Zenon
    <3>4. writeBackUnitSz \div Unit \in Nat
      <4>1. PICK k \in 1..writeBackUnitSz : writeBackUnitSz = k * Unit
        BY DEF IInv, RoomInv
      <4>2. k \in Nat
        BY <1>1, UnitBounds
      <4> QED BY <4>1, <4>2, Sizes, DivMul
    <3>5. nextWriteBackSlot \in Nat
      BY DEF IInv, TypeOK
    <3> QED BY <2>1, <3>3, <3>4, <3>5 DEF l
  <2>11. TypeOK'
    <3>1. phase' \in {"done", "ready"}
      BY <2>1
    <3> QED BY <2>1, <2>3, <2>6, <2>10, <3>1, <1>3, <1>5, ReportSteps, Zenon DEF IInv, TypeOK, Cell
  <2>12. CASE sent + WantSz = tplcmdTotalSz
    <3>1. phase' = "done" /\ ~Active'
      BY <2>1, <2>12, ReportSteps DEF Active
    <3>2. burnSz = leftDataSz + twb
      <4>1. leftSz = 0
        BY <2>2, <2>3, <2>12, <1>1, UnitBounds
      <4> QED BY <4>1, <1>2, <1>8, <1>9 DEF leftSz
    <3>3. ASSUME ~OverCounted PROVE Len(out') = pkt.total
      <4>1. twb = InUnit + WantSz
        BY <3>3, <2>12, DueFacts DEF twb
      <4>2. tplcmdTotalSz = pkt.total - pkt.notAligned /\ pkt.total \in Nat
        BY <1>1, UnitFacts
      <4>3. pkt.notAligned + Base - leftDataSz + burnSz = pkt.total
        BY <4>1, <4>2, <3>2, <2>12, <1>1, UnitBounds
      <4> QED BY <4>3, <2>9
    <3>4. DoneComplete'
      BY <3>3, ReportSteps DEF DoneComplete
    <3> QED BY <3>1, <3>4, <2>7, <2>11, <1>3, <1>4
          DEF IInv, CommandInv, DueInv, DownloadInv
  <2>13. CASE sent + WantSz < tplcmdTotalSz
    <3>1. WantSz = Unit /\ InUnit + Unit = writeBackUnitSz /\ twb = writeBackUnitSz
      BY <2>13, DueFacts, ReportFacts DEF twb
    <3>2. sent + WantSz # tplcmdTotalSz
      BY <2>13, <1>1, UnitBounds
    <3>3. /\ phase' = "ready" /\ InUnit' = 0 /\ Base' = Base + writeBackUnitSz
          /\ sent' = totalSlotNum' * Unit /\ sent' < tplcmdTotalSz'
          /\ sent' = sent + Unit
      BY <3>1, <3>2, <2>1, ReportSteps
    <3>4. DoneComplete'
      BY <3>3, SMTT(60) DEF DoneComplete
    <3>5. CommandInv'
      BY <3>3, <1>1, ReportSteps DEF IInv, CommandInv
    <3>6. DueInv'
      BY <1>1, <2>1, <2>13, <3>1, <3>3, DueStep, ReportSteps DEF DueInv
    <3>7. DownloadInv'
      <4>1. Held' = 0
        BY <3>3 DEF Held
      <4>2. ASSUME NEW a \in -leftSz..-1
            PROVE  mem'[a] = pkt.notAligned + (Base + writeBackUnitSz) + a
        <5>1. a \in Addr /\ a \in Int /\ a < 0
          BY <2>3, <2>4, Sizes DEF Addr
        <5>2. mem'[a] = mem[a + twb]
          BY <5>1, <2>1
        <5>3. a + twb \in -leftDataSz..(Held - 1)
          <6>1. Held = writeBackUnitSz
            BY <3>1 DEF Held
          <6> QED BY <6>1, <5>1, <2>5, <3>1, <1>1, UnitBounds
        <5>4. mem[a + twb] = pkt.notAligned + Base + (a + twb)
          BY <5>3, <1>1 DEF IInv, DownloadInv
        <5>5. pkt.notAligned + Base + (a + twb)
                = pkt.notAligned + (Base + writeBackUnitSz) + a
          BY <5>1, <3>1, <1>1, UnitBounds
        <5> QED BY <5>2, <5>4, <5>5
      <4>3. Len(out') = pkt.notAligned + (Base + writeBackUnitSz) - leftSz
        <5>1. pkt.notAligned + Base - leftDataSz + burnSz
                = pkt.notAligned + (Base + writeBackUnitSz) - leftSz
          BY <3>1, <1>1, <1>8, UnitBounds DEF leftSz
        <5> QED BY <5>1, <2>9
      <4>4. leftSz >= pkt.notAligned
        BY <2>3, <2>13, <1>2, <1>8, <1>9 DEF leftSz
      <4>5. sent' # 0
        BY <3>3, <1>1, UnitBounds
      <4>6. pkt' = pkt /\ leftDataSz' = leftSz
        BY <2>1, ReportSteps
      <4>7. ASSUME NEW a \in -leftDataSz'..(Held' - 1)
            PROVE  mem'[a] = pkt'.notAligned + Base' + a
        <5>1. a \in -leftSz..-1
          BY <4>1, <4>6, <2>3
        <5> QED BY <5>1, <4>2, <4>6, <3>3
      <4> QED BY <4>3, <4>4, <4>5, <4>6, <4>7, <3>3 DEF DownloadInv
    <3> QED BY <3>4, <3>5, <3>6, <3>7, <2>7, <2>11, <1>3, <1>4 DEF IInv
  <2> QED BY <2>8, <2>12, <2>13
<1> QED BY <1>6, <1>7

(* Every step of the manager and its client preserves IInv.                 *)
LEMMA NextIInv == IInv /\ [Next]_vars => IInv'
<1> SUFFICES ASSUME IInv, [Next]_vars PROVE IInv'
  OBVIOUS
<1>1. CASE \E p \in Packets : TplcmdInit(p)
  BY <1>1, TplcmdInitIInv
<1>2. CASE NextSlot
  BY <1>2, NextSlotIInv
<1>3. CASE Fill \/ FillCorrupt
  BY <1>3, FillIInv
<1>4. CASE ReportTransferComplete
  <2>1. PICK burnSz : phase = "filled" /\ Report(WantSz, burnSz)
    BY <1>4 DEF ReportTransferComplete
  <2>2. CASE isUpload
    BY <2>1, <2>2, ReportUploadIInv
  <2>3. CASE ~isUpload /\ WriteBackDue
    BY <2>1, <2>3, ReportWriteBackIInv
  <2>4. CASE ~isUpload /\ ~WriteBackDue
    BY <2>1, <2>4, ReportGatherIInv, SMTT(60)
  <2> QED BY <2>2, <2>3, <2>4
<1>5. CASE Abort
  BY <1>5, AbortIInv
<1>6. CASE UNCHANGED vars
  BY <1>6, Zenon DEF vars, bmVars, clientVars, IInv, TypeOK, RoomInv, CommandInv, DueInv,
       DownloadInv, UploadInv, InOrder, DoneComplete, OverCounted, Active, InUnit, Base,
       Held, WantSz, UnitLoaded
<1> QED BY <1>1, <1>2, <1>3, <1>4, <1>5, <1>6 DEF Next

(* IInv is an invariant of the buffer manager and its client, for every     *)
(* slot size, buffer size and set of commands the assumptions allow.        *)
THEOREM Invariance == Spec => []IInv
<1>1. IInv /\ [Next]_vars => IInv'
  BY NextIInv
<1> QED BY <1>1, InitIInv, PTL DEF Spec

(* The variables of optimus_buffer_manager.c and its client keep their      *)
(* types; in particular leftDataSz, an unsigned difference in the code,     *)
(* never goes below zero.                                                   *)
THEOREM TypeCorrect == Spec => []TypeOK
<1>1. IInv => TypeOK
  BY DEF IInv
<1> QED BY <1>1, Invariance, PTL

(* Every slot get_buf_for_bulk_transfer hands out lies inside the transfer  *)
(* buffer, whatever the size of the image.                                  *)
THEOREM SlotsInside == Spec => []SlotInBuffer
<1>1. ASSUME IInv PROVE SlotInBuffer
  <2> SUFFICES ASSUME phase \in {"xfer", "filled"}
               PROVE  /\ pBuf + WantSz <= writeBackUnitSz
                      /\ writeBackUnitSz <= IF pkt.kind = "mem" THEN MemCap ELSE BufSz
                      /\ leftDataSz <= LeftMax
    BY DEF SlotInBuffer
  <2>1. Active
    BY DEF Active
  <2>2. pBuf = InUnit /\ (pkt.kind # "mem" => writeBackUnitSz <= BufSz)
    BY <1>1, <2>1 DEF IInv, CommandInv
  <2> QED BY <1>1, <2>1, <2>2, UnitBounds
<1> QED BY <1>1, Invariance, PTL

(* The media writer is handed the image from its first byte on, in order,   *)
(* none twice and none left out, also past 4 GB.                            *)
THEOREM TakenInOrder == Spec => []InOrder
<1>1. IInv => InOrder
  BY DEF IInv
<1> QED BY <1>1, Invariance, PTL

(* When the last transfer has been reported and nothing failed, the writer  *)
(* has taken the whole image.                                               *)
THEOREM TakenWhole == Spec => []DoneComplete
<1>1. IInv => DoneComplete
  BY DEF IInv
<1> QED BY <1>1, Invariance, PTL

-----------------------------------------------------------------------------
(* The protocol, the buffer manager and the images.                          *)

\* A packet on its way, or to be sent again, belongs to a download; after a
\* failed report the media error is remembered.
ReplyInv ==
    /\ host \in {"idle", "sending", "ok", "error"} /\ reply \in {"none", "ok", "error"}
    /\ reply # "ok" => host = "sending" /\ ~pkt.isUpload
    /\ phase = "failed" /\ (reply = "error" \/ (reply = "none" /\ isPktResended)) => _mediaErr

\* Before the first packet.
LEMMA ReplyInit == UsbInit => ReplyInv
  BY DEF UsbInit, Init, ReplyInv

\* A packet is reported only from a slot that is filled: one sent again after a
\* failed report meets the media error.
LEMMA ReportedFilled ==
    ASSUME ReplyInv, BulkTransferReply, ~MediaErr
    PROVE  phase = "filled"
<1>1. phase = "failed" /\ isPktResended => MediaErr
  BY Zenon DEF BulkTransferReply, ReplyInv, MediaErr
<1> QED
  BY <1>1 DEF BulkTransferReply

\* A slot's report changes the phase to one of three.
LEMMA ReportPhase ==
    ASSUME NEW n, NEW b, Report(n, b)
    PROVE  phase' \in {"failed", "done", "ready"} /\ pkt' = pkt
  BY DEF Report, WriteBack

\* The protocol's own state after a step.
LEMMA ReplyStep == ReplyInv /\ [UsbNext]_allVars => ReplyInv'
<1> SUFFICES ASSUME ReplyInv, [UsbNext]_allVars PROVE ReplyInv'
  OBVIOUS
<1>1. CASE \E p \in Packets : DownloadCmd(p)
  BY <1>1 DEF DownloadCmd, ReplyInv
<1>2. CASE SendPacket
  <2>1. pkt' = pkt /\ host' = host /\ reply' = "none" /\ ~isPktResended' /\ host = "sending" /\ ~pkt.isUpload
    BY <1>2, Zenon DEF SendPacket, NextSlot, GetBuf
  <2> QED
    BY <2>1 DEF ReplyInv
<1>3. CASE ResendPacket
  <2>1. /\ UNCHANGED <<pkt, phase, host, _mediaErr>> /\ reply' = "none" /\ host = "sending"
        /\ reply = "error"
    BY <1>3 DEF ResendPacket, vars, clientVars
  <2> QED
    BY <2>1 DEF ReplyInv
<1>4. CASE ChecksumError
  <2>1. UNCHANGED <<pkt, phase, host>> /\ reply' = "error" /\ reply = "none" /\ phase = "xfer"
    BY <1>4 DEF ChecksumError, FillCorrupt, clientVars
  <2> QED
    BY <2>1 DEF ReplyInv
<1>5. CASE DataReceived
  <2>1. UNCHANGED <<pkt, host, reply, isPktResended>> /\ phase' = "filled"
    BY <1>5 DEF DataReceived, Fill, usbVars
  <2> QED
    BY <2>1 DEF ReplyInv
<1>6. CASE BulkTransferReply
  <2>1. CASE MediaErr
    <3>1. UNCHANGED <<pkt, phase, host>> /\ reply' = "error" /\ _mediaErr' /\ reply = "none"
      BY <1>6, <2>1, Zenon DEF BulkTransferReply, vars, clientVars
    <3> QED
      BY <3>1 DEF ReplyInv
  <2>2. CASE ~MediaErr
    <3>1. /\ pkt' = pkt /\ phase' \in {"failed", "done", "ready"} /\ reply = "none"
          /\ _mediaErr' = (phase' = "failed") /\ reply' = IF phase' = "failed" THEN "error" ELSE "ok"
          /\ host' = IF phase' = "done" THEN "ok" ELSE host
      BY <1>6, <2>2, ReportPhase DEF BulkTransferReply, ReportWithWriter
    <3>2. CASE phase' = "failed"
      BY <3>1, <3>2, Zenon DEF ReplyInv
    <3>3. CASE phase' # "failed"
      BY <3>1, <3>3 DEF ReplyInv
    <3> QED
      BY <3>2, <3>3
  <2> QED
    BY <2>1, <2>2
<1>7. CASE UploadPacket
  <2>1. pkt' = pkt /\ reply' = reply /\ pkt.isUpload /\ host' \in {"error", host}
    BY <1>7 DEF UploadPacket, NextSlot, GetBuf
  <2> QED
    BY <2>1 DEF ReplyInv
<1>8. CASE UploadComplete
  <2>1. pkt' = pkt /\ reply' = reply /\ pkt.isUpload /\ host' \in {"ok", host}
    BY <1>8, ReportPhase DEF UploadComplete
  <2> QED
    BY <2>1 DEF ReplyInv
<1>9. CASE GiveUp
  BY <1>9 DEF GiveUp, ReplyInv
<1>10. CASE VerifyCmd \/ UNCHANGED allVars
  <2>1. UNCHANGED <<pkt, phase, host, reply, isPktResended, _mediaErr>>
    BY <1>10 DEF VerifyCmd, allVars, vars, clientVars, usbVars
  <2> QED
    BY <2>1 DEF ReplyInv
<1> QED
  BY <1>1, <1>2, <1>3, <1>4, <1>5, <1>6, <1>7, <1>8, <1>9, <1>10 DEF UsbNext

\* A step of the protocol is a step of the buffer manager and its client, or
\* leaves it alone.
LEMMA ClientStep == IInv /\ ReplyInv /\ [UsbNext]_allVars => [Next]_vars
<1> SUFFICES ASSUME IInv, ReplyInv, [UsbNext]_allVars PROVE [Next]_vars
  OBVIOUS
<1>1. CASE \E p \in Packets : DownloadCmd(p)
  BY <1>1 DEF DownloadCmd, Next
<1>2. CASE SendPacket \/ ChecksumError \/ DataReceived \/ UploadPacket
  BY <1>2 DEF SendPacket, ChecksumError, DataReceived, UploadPacket, Next
<1>3. CASE BulkTransferReply
  <2>1. CASE MediaErr
    BY <1>3, <2>1 DEF BulkTransferReply
  <2>2. CASE ~MediaErr
    <3>1. phase = "filled"
      BY <1>3, <2>2, ReportedFilled
    <3>2. \E burnSz \in 0..(leftDataSz + writeBackUnitSz + Overrun) : Report(WantSz, burnSz)
      BY <1>3, <2>2, Zenon DEF BulkTransferReply, ReportWithWriter
    <3> QED
      BY <3>1, <3>2 DEF Next, ReportTransferComplete
  <2> QED
    BY <2>1, <2>2
<1>4. CASE UploadComplete
  <2>1. phase = "filled" /\ Report(WantSz, 0)
    BY <1>4 DEF UploadComplete
  <2>2. 0 \in 0..(leftDataSz + writeBackUnitSz + Overrun)
    BY DEF IInv, TypeOK, Overrun
  <2> QED
    BY <2>1, <2>2 DEF Next, ReportTransferComplete
<1>5. CASE GiveUp
  BY <1>5 DEF GiveUp, Next
<1>6. CASE ResendPacket \/ VerifyCmd \/ UNCHANGED allVars
  BY <1>6 DEF ResendPacket, VerifyCmd, allVars
<1> QED
  BY <1>1, <1>2, <1>3, <1>4, <1>5, <1>6 DEF UsbNext

-----------------------------------------------------------------------------
(* The struct of the image state machine.                                    *)

Infos == [imgType : {"sparse", "bootloader", "normal"}, imgBurnSta : D!BurnSta,
          storageMediaType : {"store", "key", "mem", "spiflash"},
          nextMediaOffset : Nat, imgPktSz : Nat, imgSzDisposed : Nat,
          devHdle : BOOLEAN, partName : D!PartNames]

InBurn == {"PRE_BURN", "BURN_ING"}
Complete == {"BURN_COMPLETE", "VERIFY_ING", "VERIFY_END"}

\* The bytes below n are those of the image; of the image i that is burned, but
\* for fill chunks the parser lost.
Prefix(m, n) == \A o \in 0..(n - 1) : m[o] = o
Burnt(i, m, n) == \A o \in 0..(n - 1) : D!InPlace(i, o, m[o])

\* What optimus_storage_open leaves alone, and the state it sets.
LEMMA OpenFields ==
    ASSUME NEW i \in Infos
    PROVE  /\ D!StorageOpen(i) \in Infos
           /\ D!StorageOpen(i).imgType = i.imgType
           /\ D!StorageOpen(i).storageMediaType = i.storageMediaType
           /\ D!StorageOpen(i).nextMediaOffset = i.nextMediaOffset
           /\ D!StorageOpen(i).imgPktSz = i.imgPktSz
           /\ D!StorageOpen(i).imgSzDisposed = i.imgSzDisposed
           /\ i.imgBurnSta \in InBurn => D!StorageOpen(i).imgBurnSta \in InBurn
           /\ i.imgBurnSta \in Complete => D!StorageOpen(i).imgBurnSta \in Complete
  BY Zenon DEF D!StorageOpen, Infos, D!BurnSta, D!OnStore, InBurn, Complete

\* What optimus_storage_close leaves alone, and the state it sets.
LEMMA CloseFields ==
    ASSUME NEW i \in Infos
    PROVE  /\ D!StorageClose(i) \in Infos
           /\ D!StorageClose(i).imgType = i.imgType
           /\ D!StorageClose(i).storageMediaType = i.storageMediaType
           /\ D!StorageClose(i).nextMediaOffset = i.nextMediaOffset
           /\ D!StorageClose(i).imgPktSz = i.imgPktSz
           /\ D!StorageClose(i).imgSzDisposed = i.imgSzDisposed
           /\ i.imgBurnSta = "BURN_ING" =>
                D!StorageClose(i).imgBurnSta = IF i.imgSzDisposed = i.imgPktSz
                                               THEN "BURN_COMPLETE" ELSE "BURN_ING"
           /\ i.imgSzDisposed # i.imgPktSz /\ i.imgBurnSta \in InBurn =>
                D!StorageClose(i).imgBurnSta \in InBurn
           /\ i.imgBurnSta \in Complete => D!StorageClose(i).imgBurnSta \in Complete
  BY DEF D!StorageClose, Infos, D!BurnSta, InBurn, Complete

\* The struct with both offsets moved.
LEMMA MovedFields ==
    ASSUME NEW i \in Infos, NEW a \in Nat, NEW b \in Nat
    PROVE  LET t == [i EXCEPT !.imgSzDisposed = a, !.nextMediaOffset = b]
           IN /\ t \in Infos /\ t.imgType = i.imgType /\ t.imgBurnSta = i.imgBurnSta
              /\ t.storageMediaType = i.storageMediaType /\ t.imgPktSz = i.imgPktSz
              /\ t.nextMediaOffset = b /\ t.imgSzDisposed = a
  BY Zenon DEF Infos

\* The cleared struct.
LEMMA EmptyFields ==
    /\ D!EmptyInfo \in Infos /\ D!EmptyInfo.imgSzDisposed = 0
    /\ D!EmptyInfo.nextMediaOffset = 0
<1> DEFINE closed == FALSE
           none == ""
           e == [imgType |-> "normal", imgBurnSta |-> "EMPTY", storageMediaType |-> "store",
                 nextMediaOffset |-> 0, imgPktSz |-> 0, imgSzDisposed |-> 0,
                 devHdle |-> closed, partName |-> none]
<1>1. none \in D!PartNames /\ closed \in BOOLEAN
  BY Zenon DEF D!PartNames
<1>2. D!EmptyInfo = e
  BY Zenon DEF D!EmptyInfo
<1> HIDE DEF closed, none
<1>3. e \in Infos /\ e.imgSzDisposed = 0 /\ e.nextMediaOffset = 0
  BY <1>1 DEF Infos, D!BurnSta
<1> QED
  BY <1>2, <1>3, Zenon

\* The struct a command leaves that is not refused.
LEMMA ParsedInfo ==
    ASSUME NEW m \in Packets, NEW partOk \in BOOLEAN, D!ParseImgDownloadInfo(m, partOk),
           rc' = "ok"
    PROVE  /\ info' \in Infos /\ info'.imgSzDisposed = 0 /\ info'.nextMediaOffset = 0
           /\ info'.imgBurnSta = "PRE_BURN" /\ info'.imgPktSz = m.total
           /\ info'.imgType = D!ImgType(m) /\ info'.storageMediaType = m.media
           /\ img' = m /\ (m.media = "key" => m.total < Unit)
           /\ m.isUpload => Prefix(media', m.total)
<1> DEFINE t == D!ImgType(m)
           typed == [D!EmptyInfo EXCEPT !.imgType = t]
           placed == [typed EXCEPT !.storageMediaType = m.media]
           named == [placed EXCEPT !.partName = m.part]
           ready == [named EXCEPT !.imgPktSz = m.total, !.imgBurnSta = "PRE_BURN"]
           fmtUnknown == m.fmt = "other" /\ m.part # "bootloader"
           keyTooLarge == m.media = "key" /\ Unit <= m.total
           partRefused == /\ m.media \in {"store", "spiflash"} /\ m.part # "bootloader"
                          /\ ~partOk
           refused == fmtUnknown \/ m.media = "other" \/ keyTooLarge \/ partRefused
<1>1. /\ rc' = IF refused THEN "fail" ELSE "ok"
      /\ img' = m
      /\ media' = [o \in D!Offset |-> IF m.isUpload /\ o < m.total THEN o ELSE D!Blank]
      /\ info' = CASE fmtUnknown -> D!EmptyInfo
                   [] ~fmtUnknown /\ m.media = "other" -> typed
                   [] ~fmtUnknown /\ keyTooLarge -> placed
                   [] ~fmtUnknown /\ partRefused -> named
                   [] ~refused -> ready
  BY DEF D!ParseImgDownloadInfo
<1>2. ~refused
  BY <1>1
<1>3. info' = ready
  <2> HIDE DEF keyTooLarge, partRefused, fmtUnknown, typed, placed, named, ready
  <2> QED
    BY <1>1, <1>2, Zenon
<1>4. m.part \in D!PartNames
  BY Zenon DEF D!PartNames
<1>5. /\ m.total \in 1..MaxSz /\ MaxSz \in Nat
      /\ m.media # "other" /\ m.media \in {"store", "key", "mem", "spiflash"}
  BY <1>2, CommandAssumption
<1>6. t \in {"sparse", "bootloader", "normal"}
  BY DEF D!ImgType
<1> HIDE DEF t
<1>7. /\ ready \in Infos /\ ready.imgSzDisposed = 0 /\ ready.nextMediaOffset = 0
      /\ ready.imgBurnSta = "PRE_BURN" /\ ready.imgPktSz = m.total
      /\ ready.imgType = t /\ ready.storageMediaType = m.media
  <2> DEFINE e == D!EmptyInfo
  <2>1. e \in Infos /\ e.imgSzDisposed = 0 /\ e.nextMediaOffset = 0
    BY EmptyFields
  <2> HIDE DEF e
  <2> DEFINE a == [e EXCEPT !.imgType = t]
             b == [a EXCEPT !.storageMediaType = m.media]
             d == [b EXCEPT !.partName = m.part]
  <2>2. a \in Infos /\ a.imgSzDisposed = 0 /\ a.nextMediaOffset = 0 /\ a.imgType = t
    BY <1>6, <2>1 DEF Infos
  <2> HIDE DEF a
  <2>3. /\ b \in Infos /\ b.imgSzDisposed = 0 /\ b.nextMediaOffset = 0 /\ b.imgType = t
        /\ b.storageMediaType = m.media
    BY <1>5, <2>2 DEF Infos
  <2> HIDE DEF b
  <2>4. /\ d \in Infos /\ d.imgSzDisposed = 0 /\ d.nextMediaOffset = 0 /\ d.imgType = t
        /\ d.storageMediaType = m.media
    BY <1>4, <2>3 DEF Infos
  <2> HIDE DEF d
  <2> DEFINE z == m.total
             w == m.media
             f == [d EXCEPT !.imgPktSz = z, !.imgBurnSta = "PRE_BURN"]
  <2>5. /\ f \in Infos /\ f.imgSzDisposed = 0 /\ f.nextMediaOffset = 0
        /\ f.imgBurnSta = "PRE_BURN" /\ f.imgPktSz = z
        /\ f.imgType = t /\ f.storageMediaType = w
    <3>1. z \in Nat /\ d.storageMediaType = w
      BY <1>5, <2>4
    <3> HIDE DEF z, w
    <3> QED
      BY <2>4, <3>1, Zenon DEF Infos, D!BurnSta
  <2>6. ready = f
    BY Zenon DEF a, b, d, e
  <2> HIDE DEF ready, f
  <2> QED
    BY <2>5, <2>6, Zenon
<1>8. m.media = "key" => m.total < Unit
  BY <1>2, <1>5, Sizes
<1>9. ASSUME m.isUpload, NEW o \in 0..(m.total - 1)
      PROVE  media'[o] = o
  BY <1>1, <1>5, <1>9 DEF D!Offset
<1> HIDE DEF ready
<1> QED
  BY <1>1, <1>3, <1>7, <1>8, <1>9 DEF t, Prefix

-----------------------------------------------------------------------------
(* What the buffer manager offers the image state machine.                   *)

\* How the two halves of the code classify a command.
LEMMA KindFacts ==
    ASSUME NEW p \in Packets
    PROVE  /\ p.notAligned = 0 /\ p.total \in 1..MaxSz /\ p.total \in Nat /\ MaxSz \in Nat
           /\ p.isUpload \in BOOLEAN /\ p.kind \in {"normal", "sparse", "bootloader", "mem"}
           /\ p.fmt = "sparse" <=> p.kind = "sparse"
           /\ p.fmt = "sparse" => p.media = "store" /\ ~p.isUpload
           /\ p.media = "mem" <=> p.kind = "mem"
           /\ p.media = "store" /\ D!ImgType(p) = "bootloader" => p.kind = "bootloader"
           /\ D!ImgType(p) = "sparse" <=> p.fmt = "sparse"
<1>1. /\ p.notAligned = 0 /\ p.total \in 1..MaxSz /\ p.total \in Nat /\ MaxSz \in Nat
      /\ p.isUpload \in BOOLEAN /\ p.kind \in {"normal", "sparse", "bootloader", "mem"}
      /\ p.kind = Kind(p)
      /\ p.fmt = "sparse" => p.media = "store" /\ p.part # "bootloader" /\ ~p.isUpload
  BY CommandAssumption, PacketAssumption
<1>2. /\ p.media = "mem" => Kind(p) = "mem"
      /\ p.media # "mem" /\ p.part = "bootloader" => Kind(p) = "bootloader"
      /\ p.media # "mem" /\ p.part # "bootloader" =>
            Kind(p) = IF p.fmt = "sparse" THEN "sparse" ELSE "normal"
  BY Zenon DEF Kind
<1>3. /\ p.fmt = "sparse" <=> p.kind = "sparse"
      /\ p.media = "mem" <=> p.kind = "mem"
  BY <1>1, <1>2
<1>4. /\ p.media = "store" /\ D!ImgType(p) = "bootloader" => p.kind = "bootloader"
      /\ D!ImgType(p) = "sparse" <=> p.fmt = "sparse"
  BY <1>1, <1>2 DEF D!ImgType
<1> QED
  BY <1>1, <1>3, <1>4

\* Only a sparse image can be counted for more than it is.
LEMMA NotOver ==
    ASSUME NEW p \in Packets, pkt = p, p.kind # "sparse"
    PROVE  ~OverCounted
<1> SUFFICES ASSUME p.total % Unit = 0, p.total % WriteBackUnit(p) # 0 PROVE FALSE
  <2>1. p.total - p.notAligned = p.total
    BY KindFacts
  <2> QED
    BY <2>1 DEF OverCounted
<1>1. /\ p.total \in Nat \ {0} /\ p.notAligned = 0 /\ Unit \in Nat \ {0}
      /\ p.total - p.notAligned = p.total
      /\ p.kind \in {"normal", "sparse", "bootloader", "mem"}
  <2> DEFINE z == p.total
  <2>1. z \in 1..MaxSz /\ MaxSz \in Nat /\ p.notAligned = 0
        /\ p.kind \in {"normal", "sparse", "bootloader", "mem"}
    BY KindFacts
  <2> HIDE DEF z
  <2>2. z \in Nat \ {0} /\ z - 0 = z
    BY <2>1
  <2> QED
    BY <2>1, <2>2, Sizes DEF z
<1>2. CASE p.kind = "normal"
  <2>1. WriteBackUnit(p) = Unit
    BY <1>1, <1>2 DEF WriteBackUnit
  <2> QED
    BY <2>1
<1>3. CASE p.kind \in {"bootloader", "mem"}
  <2> DEFINE n == p.total
             d == CeilSlots(n)
  <2>1. WriteBackUnit(p) = d * Unit
    BY <1>1, <1>3 DEF WriteBackUnit
  <2> HIDE DEF n
  <2>2. d \in Nat /\ n <= d * Unit /\ d * Unit < n + Unit
    BY <1>1, CeilSlotsBound, Zenon DEF n
  <2>3. PICK q \in Nat : n = q * Unit + (n % Unit)
    BY <1>1, DivMod, Zenon DEF n
  <2>4. n = q * Unit /\ q \in Int
    BY <1>1, <2>3, Sizes DEF n
  <2> HIDE DEF d
  <2>5. ~(d < q) /\ ~(q < d)
    <3>1. d < q => d * Unit + Unit <= q * Unit
      BY <1>1, <2>2, <2>4, MulOrder
    <3>2. q < d => q * Unit + Unit <= d * Unit
      BY <1>1, <2>2, <2>4, MulOrder
    <3> DEFINE du == d * Unit
    <3>3. du \in Int /\ n \in Int
      BY <1>1, <2>2 DEF n
    <3>4. (d < q => du + Unit <= n) /\ (q < d => n + Unit <= du) /\ n <= du /\ du < n + Unit
      BY <2>2, <2>4, <3>1, <3>2
    <3> HIDE DEF du
    <3> QED
      BY <1>1, <3>3, <3>4
  <2>6. WriteBackUnit(p) = n
    BY <2>1, <2>2, <2>4, <2>5
  <2>7. (1 * n + 0) % n = 0
    <3>1. n \in Nat \ {0} /\ 0 \in 0..(n - 1) /\ 1 \in Int
      BY <1>1 DEF n
    <3> QED
      BY <3>1, ModUnique
  <2>8. 1 * n + 0 = n
    BY <1>1 DEF n
  <2> QED
    BY <2>6, <2>7, <2>8 DEF n
<1> QED
  BY <1>1, <1>2, <1>3, Zenon

\* The image as the two halves see it while a command is served.
Serving ==
    /\ info \in Infos /\ img = pkt /\ rc = "ok" /\ info.imgPktSz = pkt.total
    /\ info.imgType = D!ImgType(pkt) /\ info.storageMediaType = pkt.media
    /\ pkt.media = "key" => pkt.total < Unit
    /\ pkt.kind # "sparse" => leftDataSz = 0
    /\ pkt.isUpload => /\ info.imgSzDisposed = dumped /\ info.nextMediaOffset = dumped
                       /\ dumped < pkt.total => info.imgBurnSta \in InBurn
                       /\ Prefix(media, pkt.total)
    /\ ~pkt.isUpload => /\ info.imgSzDisposed = Len(out) /\ info.imgBurnSta \in InBurn
                        /\ Burnt(info, media, Len(out))
                        /\ ~D!IsSparse(info) => info.nextMediaOffset = Len(out)

\* A packet of one write-back unit is handed over whole.
LEMMA SingleUnit ==
    ASSUME IInv, phase = "filled", ~isUpload, WriteBackDue, pkt.notAligned = 0,
           pkt.total <= writeBackUnitSz
    PROVE  sent + WantSz = tplcmdTotalSz /\ Base = 0
<1>1. Active
  BY DEF Active
<1>2. tplcmdTotalSz = pkt.total /\ sent \in 0..(writeBackUnitSz - 1)
  BY <1>1, UnitFacts
<1>3. InUnit = sent /\ Base = 0
  <2>1. sent % writeBackUnitSz = sent
    BY <1>1, <1>2, UnitFacts, ModSmall
  <2> QED
    BY <1>1, <2>1, UnitFacts DEF InUnit, Base
<1>4. sent + WantSz < tplcmdTotalSz => WantSz = Unit /\ InUnit + Unit = writeBackUnitSz
  BY DueFacts
<1> QED
  BY <1>1, <1>2, <1>3, <1>4, UnitBounds

\* The chunk of a write-back continues the image: the bytes that belong to it are
\* in order, only a sparse image is offered more, and what comes in one write-back
\* unit comes whole.
LEMMA Offered ==
    ASSUME IInv, Serving, phase = "filled", ~isUpload, WriteBackDue
    PROVE  LET n == GivenSz(WantSz)
               left == pkt.total - Len(out)
           IN /\ n \in Nat \ {0} /\ n = leftDataSz + ThisWriteBackSz(WantSz)
              /\ pkt.kind = "sparse" => n <= MaxSz
              /\ pkt.kind # "sparse" => n <= left
              /\ pkt.total <= writeBackUnitSz /\ pkt.kind # "sparse" => n = left
              /\ \A k \in 1..n : k <= left => mem[(-leftDataSz) + k - 1] = Len(out) + k - 1
<1> DEFINE n == GivenSz(WantSz)
           left == pkt.total - Len(out)
           twb == ThisWriteBackSz(WantSz)
<1>1. Active
  BY DEF Active
<1>2. pkt \in Packets
  BY <1>1 DEF IInv, CommandInv
<1>3. pkt.notAligned = 0 /\ itemOffsetNotAlignClusterSz_f = 0 /\ tplcmdTotalSz = pkt.total
  BY <1>1, <1>2, KindFacts, UnitFacts
<1>4. twb \in 1..writeBackUnitSz /\ n = leftDataSz + twb
  BY <1>1, <1>3, ReportFacts, UnitFacts DEF GivenSz
<1>5. Len(out) = Base - leftDataSz /\ Len(out) \in Nat
  BY <1>1, <1>3, UnitFacts DEF IInv, DownloadInv, TypeOK
<1>6. \A a \in -leftDataSz..(Held - 1) : mem[a] = Base + a
  BY <1>1, <1>3, UnitFacts DEF IInv, DownloadInv
<1>7. Held = InUnit + WantSz
  BY DEF Held
<1>8. \/ sent + WantSz = tplcmdTotalSz
      \/ sent + WantSz < tplcmdTotalSz /\ twb = InUnit + WantSz
  <2>1. sent + WantSz < tplcmdTotalSz => WantSz = Unit /\ InUnit + Unit = writeBackUnitSz
    BY DueFacts
  <2>2. WantSz = Unit => twb = writeBackUnitSz
    BY ReportFacts
  <2> QED
    BY <1>1, <2>1, <2>2, UnitBounds
<1> HIDE DEF twb, n
<1>9. pkt.kind # "sparse" => twb = InUnit + WantSz
  <2>1. ASSUME pkt.kind # "sparse" PROVE ~OverCounted
    BY <1>2, <2>1, NotOver
  <2>2. sent + WantSz = tplcmdTotalSz => OverCounted \/ twb = InUnit + WantSz
    BY DueFacts DEF twb
  <2> QED
    BY <1>8, <2>1, <2>2
<1>10. n \in Nat \ {0}
  BY <1>1, <1>4, UnitBounds
<1>11. pkt.kind = "sparse" => n <= MaxSz
  <2>1. pkt.kind = "sparse" => writeBackUnitSz <= BufSz
    BY <1>1 DEF IInv, CommandInv
  <2>2. LeftMax + BufSz <= MaxSz /\ MaxSz \in Nat
    BY CommandAssumption
  <2> QED
    BY <1>1, <1>4, <2>1, <2>2, UnitBounds, Sizes
<1>12. /\ leftDataSz \in Nat /\ InUnit \in Nat /\ WantSz \in Nat /\ Base \in Nat /\ twb \in Nat
       /\ sent = Base + InUnit /\ sent + WantSz <= tplcmdTotalSz /\ tplcmdTotalSz \in Nat
       /\ left = tplcmdTotalSz - (Base - leftDataSz) /\ n = leftDataSz + twb
  BY <1>1, <1>3, <1>4, <1>5, UnitBounds
<1> HIDE DEF left
<1>13. pkt.kind # "sparse" => n <= left
  BY <1>9, <1>12
<1>14. pkt.total <= writeBackUnitSz /\ pkt.kind # "sparse" => n = left
  <2>1. pkt.total <= writeBackUnitSz => sent + WantSz = tplcmdTotalSz
    BY <1>3, SingleUnit
  <2> QED
    BY <1>9, <1>12, <2>1
<1>15. ASSUME NEW k \in 1..n, k <= left
       PROVE  mem[(-leftDataSz) + k - 1] = Len(out) + k - 1
  <2> DEFINE a == (-leftDataSz) + k - 1
  <2>1. a \in -leftDataSz..(Held - 1)
    <3>1. a >= -leftDataSz /\ a \in Int
      BY <1>1, <1>10, UnitBounds
    <3>2. a < InUnit + WantSz
      BY <1>8, <1>10, <1>15, <1>12
    <3>3. InUnit + WantSz \in Int /\ leftDataSz \in Nat
      BY <1>1, UnitBounds
    <3> QED
      BY <1>7, <3>1, <3>2, <3>3
  <2>2. mem[a] = Base + a
    BY <1>6, <2>1
  <2>3. Base + a = Len(out) + k - 1
    BY <1>1, <1>5, <1>10, UnitBounds, SMTT(60)
  <2> QED
    BY <2>2, <2>3
<1> QED
  BY <1>4, <1>10, <1>11, <1>13, <1>14, <1>15 DEF n, twb, left

-----------------------------------------------------------------------------
(* A write-back is a step of the image state machine.                        *)

\* The media offset of a write, and the bytes of the image in front of it.
LEMMA WrittenBurnt ==
    ASSUME NEW i, NEW at \in Nat, NEW n \in Nat, NEW data, at + n <= MaxSz, MaxSz \in Nat,
           Burnt(i, media, at), \A k \in 1..n : D!InPlace(i, at + k - 1, data[k])
    PROVE  Burnt(i, D!Written(at, n, data), at + n)
<1> SUFFICES ASSUME NEW o \in 0..(at + n - 1)
             PROVE  D!InPlace(i, o, D!Written(at, n, data)[o])
  BY DEF Burnt
<1>1. o \in D!Offset
  BY DEF D!Offset
<1>2. D!Written(at, n, data)[o] = IF o \in at..(at + n - 1) THEN data[o - at + 1] ELSE media[o]
  BY <1>1 DEF D!Written
<1>3. CASE o \in at..(at + n - 1)
  <2>1. o - at + 1 \in 1..n
    BY <1>3
  <2>2. at + (o - at + 1) - 1 = o
    BY <1>3
  <2>3. D!InPlace(i, o, data[o - at + 1])
    BY <2>1, <2>2
  <2> QED
    BY <1>2, <1>3, <2>3
<1>4. CASE o \notin at..(at + n - 1)
  <2>1. o \in 0..(at - 1)
    BY <1>4
  <2> QED
    BY <1>2, <1>4, <2>1 DEF Burnt
<1> QED
  BY <1>3, <1>4

\* The struct after b bytes were written.
Taken(i, b) == [i EXCEPT !.imgSzDisposed = @ + b,
                         !.nextMediaOffset = IF D!OnStore(i) /\ i.imgType = "normal"
                                             THEN @ + b ELSE @]

\* The b bytes of a chunk of n, some of which are lost.
Placing(gone, data, n, b) ==
    [k \in 1..b |-> IF k \in gone THEN D!Lost ELSE IF k <= n THEN data[k] ELSE D!Blank]

\* The three ends of a call of optimus_func_download_image.
Unopened(b) ==
    /\ b = 0 /\ D!OpenFails(info, FALSE)
    /\ info' = D!StorageOpen(info) /\ rc' = "fail" /\ UNCHANGED <<chunksLeft, img, media>>
Failed(n, b) ==
    /\ b = 0 /\ ~D!OpenFails(info, TRUE)
    /\ info' = [D!StorageClose(D!StorageOpen(info)) EXCEPT !.imgBurnSta = "BURN_FAILED"]
    /\ chunksLeft' = (chunksLeft \/ D!FirstSparseOpen(info))
    /\ media' \in IF D!WriteAllowed(D!StorageOpen(info), n)
                  THEN {media, D!Written(D!ChunkOffset(info), n, [k \in 1..n |-> D!Blank])}
                  ELSE {media}
    /\ rc' = "fail" /\ UNCHANGED img
Wrote(data, n, b) ==
    /\ ~D!OpenFails(info, TRUE)
    /\ D!WriteAllowed(D!StorageOpen(info), n) /\ b \in D!Takes(D!StorageOpen(info), n)
    /\ info' = D!StorageClose(Taken(D!StorageOpen(info), b))
    /\ chunksLeft' = ((chunksLeft \/ D!FirstSparseOpen(info))
                        /\ Taken(D!StorageOpen(info), b).imgSzDisposed < info.imgPktSz)
    /\ \E gone \in D!Losses(D!StorageOpen(info), data) :
          media' = D!Written(D!ChunkOffset(info), b, Placing(gone, data, n, b))
    /\ rc' = IF b <= n THEN "ok" ELSE "fail"
    /\ UNCHANGED img

\* They are all there are.
LEMMA CallEnds ==
    ASSUME NEW data, NEW b
    PROVE  D!DownloadImgData(data, b) <=>
              Unopened(b) \/ Failed(Len(data), b) \/ Wrote(data, Len(data), b)
  BY ZenonT(60) DEF D!DownloadImgData, Unopened, Failed, Wrote, Taken, Placing

\* How many bytes a call takes never exceeds what is left of the image.
LEMMA TakesBound ==
    ASSUME info \in Infos, NEW n \in Nat, NEW b, b \in D!Takes(D!StorageOpen(info), n),
           ~D!IsSparse(info) => info.imgSzDisposed + n <= info.imgPktSz
    PROVE  b \in Nat /\ info.imgSzDisposed + b <= info.imgPktSz /\ (~D!IsSparse(info) => b = n)
<1> DEFINE o == D!StorageOpen(info)
<1>1. /\ o.imgType = info.imgType /\ o.storageMediaType = info.storageMediaType
      /\ o.imgPktSz = info.imgPktSz /\ o.imgSzDisposed = info.imgSzDisposed
  BY OpenFields
<1> HIDE DEF o
<1>2. D!IsSparse(o) <=> D!IsSparse(info)
  BY <1>1 DEF D!IsSparse, D!OnStore
<1>3. b \in D!Takes(o, n)
  BY DEF o
<1>4. CASE D!IsSparse(info)
  BY <1>1, <1>2, <1>3, <1>4 DEF D!Takes, D!FillOverrun
<1>5. CASE ~D!IsSparse(info)
  BY <1>1, <1>2, <1>3, <1>5 DEF D!Takes
<1> QED
  BY <1>4, <1>5

\* A byte of what was taken lies within the image.
LEMMA WithinSize ==
    ASSUME NEW a \in Nat, NEW c \in Nat, NEW b \in Nat, NEW n \in Nat,
           a + b <= c, NEW k \in 1..b, k <= n
    PROVE  k \in 1..n /\ a + k <= c
OBVIOUS

\* Bytes behind the image do not matter to a call.
LEMMA SameChunk ==
    ASSUME info \in Infos, NEW d1, NEW d2, NEW n \in Nat, Len(d1) = n, Len(d2) = n, NEW b,
           DOMAIN d1 = 1..n, DOMAIN d2 = 1..n,
           D!DownloadImgData(d1, b),
           \A k \in 1..n : info.imgSzDisposed + k <= info.imgPktSz => d1[k] = d2[k],
           ~D!IsSparse(info) => info.imgSzDisposed + n <= info.imgPktSz
    PROVE  D!DownloadImgData(d2, b)
<1>1. Unopened(b) \/ Failed(n, b) \/ Wrote(d1, n, b)
  BY CallEnds
<1>2. ASSUME Wrote(d1, n, b) PROVE Wrote(d2, n, b)
  <2> DEFINE opened == D!StorageOpen(info)
             at == D!ChunkOffset(info)
  <2>1. b \in Nat /\ info.imgSzDisposed + b <= info.imgPktSz
    BY <1>2, TakesBound, Zenon DEF Wrote
  <2>2. \A k \in 1..b : k <= n => k \in 1..n /\ d1[k] = d2[k]
    <3> SUFFICES ASSUME NEW k \in 1..b, k <= n PROVE k \in 1..n /\ d1[k] = d2[k]
      BY Zenon
    <3>1. k \in 1..n /\ info.imgSzDisposed + k <= info.imgPktSz
      <4>1. info.imgSzDisposed \in Nat /\ info.imgPktSz \in Nat
        BY DEF Infos
      <4> QED
        BY <2>1, <4>1, WithinSize, Zenon
    <3> QED
      BY <3>1
  <2> HIDE DEF opened, at
  <2>3. PICK gone \in D!Losses(opened, d1) : media' = D!Written(at, b, Placing(gone, d1, n, b))
    BY <1>2, Zenon DEF Wrote, opened, at
  <2> DEFINE kept == gone \cap (1..b)
  <2>4. kept \in D!Losses(opened, d2)
    <3>1. CASE D!IsSparse(opened)
      <4>1. \A k \in gone : k \in 1..n /\ d1[k] \in FillBytes
        BY <2>3, <3>1, Zenon DEF D!Losses
      <4>2. \A k \in kept : k \in 1..n /\ d2[k] \in FillBytes
        <5> SUFFICES ASSUME NEW k \in gone, k \in 1..b PROVE k \in 1..n /\ d2[k] \in FillBytes
          OBVIOUS
        <5>1. k \in 1..n /\ d1[k] \in FillBytes
          BY <4>1
        <5>2. k <= n
          BY <5>1
        <5> QED
          BY <2>2, <5>1, <5>2
      <4> QED
        BY <3>1, <4>2, Zenon DEF D!Losses
    <3>2. CASE ~D!IsSparse(opened)
      BY <2>3, <3>2 DEF D!Losses
    <3> QED
      BY <3>1, <3>2
  <2>5. Placing(gone, d1, n, b) = Placing(kept, d2, n, b)
    <3>1. \A k \in 1..b : k \in gone <=> k \in kept
      OBVIOUS
    <3> HIDE DEF kept
    <3>2. \A k \in 1..b :
             (IF k \in gone THEN D!Lost ELSE IF k <= n THEN d1[k] ELSE D!Blank)
               = (IF k \in kept THEN D!Lost ELSE IF k <= n THEN d2[k] ELSE D!Blank)
      BY <2>2, <3>1, Zenon
    <3> QED
      BY <3>2, Zenon DEF Placing
  <2> HIDE DEF kept
  <2>6. media' = D!Written(at, b, Placing(kept, d2, n, b))
    BY <2>3, <2>5, Zenon
  <2> QED
    BY <1>2, <2>4, <2>6, ZenonT(60) DEF Wrote, opened, at
<1> QED
  BY <1>1, <1>2, CallEnds

\* What is not written slot by slot or parsed comes in one write-back unit.
LEMMA OneUnit ==
    ASSUME IInv, Serving, Active,
           pkt.kind \in {"bootloader", "mem"} \/ pkt.media = "key"
    PROVE  pkt.total <= writeBackUnitSz
<1>1. /\ pkt \in Packets /\ writeBackUnitSz = WriteBackUnit(pkt)
  BY DEF IInv, CommandInv
<1>2. pkt.notAligned = 0 /\ pkt.total \in Nat
  BY <1>1, KindFacts
<1>3. CASE pkt.kind \in {"bootloader", "mem"}
  <2> DEFINE n == pkt.total
  <2>1. writeBackUnitSz = CeilSlots(n - 0) * Unit /\ n \in Nat
    BY <1>1, <1>2, <1>3 DEF WriteBackUnit
  <2> HIDE DEF n
  <2>2. n - 0 = n
    BY <2>1
  <2>3. n <= CeilSlots(n) * Unit
    BY <2>1, CeilSlotsBound, Sizes, Zenon
  <2> QED
    BY <2>1, <2>2, <2>3 DEF n
<1>4. CASE pkt.media = "key"
  <2>1. pkt.total < Unit
    BY <1>4 DEF Serving
  <2> QED
    BY <1>2, <2>1, UnitBounds
<1> QED
  BY <1>3, <1>4

\* The parser's images, and the destinations.
LEMMA ServingKind ==
    ASSUME IInv, Serving, Active
    PROVE  /\ D!IsSparse(info) <=> pkt.kind = "sparse"
           /\ D!OnStore(info) <=> pkt.media = "store"
           /\ pkt.media \in {"store", "key", "mem", "spiflash"}
           /\ D!OnStore(info) /\ info.imgType = "bootloader" => pkt.kind = "bootloader"
           /\ pkt.media = "mem" => pkt.kind = "mem"
           /\ pkt.media # "store" => pkt.kind # "sparse"
           /\ isUpload = pkt.isUpload /\ pkt \in Packets
<1>1. pkt \in Packets /\ isUpload = pkt.isUpload
  BY DEF IInv, CommandInv
<1>2. info.imgType = D!ImgType(pkt) /\ info.storageMediaType = pkt.media /\ info \in Infos
  BY DEF Serving
<1>3. pkt.media \in {"store", "key", "mem", "spiflash"}
  BY <1>2 DEF Infos
<1> QED
  BY <1>1, <1>2, <1>3, KindFacts DEF D!IsSparse, D!OnStore

\* The write-back of the buffer manager is a download step of the image.
LEMMA DataStep ==
    ASSUME IInv, Serving, phase = "filled", ~isUpload, WriteBackDue, NEW b,
           Report(WantSz, b), D!DownloadImgData(Bytes(-leftDataSz, GivenSz(WantSz)), b)
    PROVE  D!Download
<1> DEFINE n == GivenSz(WantSz)
           left == pkt.total - Len(out)
           data == Bytes(-leftDataSz, n)
<1>1. Active
  BY DEF Active
<1>2. /\ n \in Nat \ {0}
      /\ pkt.kind = "sparse" => n <= MaxSz
      /\ pkt.kind # "sparse" => n <= left
      /\ pkt.total <= writeBackUnitSz /\ pkt.kind # "sparse" => n = left
      /\ \A k \in 1..n : k <= left => mem[(-leftDataSz) + k - 1] = Len(out) + k - 1
  BY Offered
<1>3. b \in WriterResults(n)
  BY DEF Report
<1> HIDE DEF n
<1>4. /\ info \in Infos /\ img = pkt /\ rc = "ok" /\ info.imgPktSz = pkt.total
      /\ info.imgBurnSta \in InBurn /\ info.imgSzDisposed = Len(out)
      /\ ~img.isUpload
  BY <1>1, ServingKind DEF Serving
<1>5. Len(out) \in Nat /\ left \in Nat /\ pkt.total \in Nat
  <2>1. Len(out) = pkt.notAligned + Base - leftDataSz /\ Len(out) \in Nat
    BY <1>1 DEF IInv, DownloadInv, TypeOK
  <2>2. pkt.total = tplcmdTotalSz /\ pkt.notAligned = 0
    BY <1>1, UnitFacts, ServingKind, KindFacts
  <2> QED
    BY <1>1, <2>1, <2>2, UnitBounds, SMTT(60)
<1>6. D!Remaining = left
  BY <1>4 DEF D!Remaining
<1>7. D!Burning
  BY <1>4 DEF D!Burning, InBurn
<1> HIDE DEF left
<1>8. CASE pkt.media = "spiflash"
  <2>1. ~D!IsSparse(info) /\ ~D!OnStore(info)
    BY <1>1, <1>8, ServingKind
  <2>2. D!OpenFails(info, TRUE)
    BY <1>4, <1>8 DEF D!OpenFails, Serving
  <2>3. Unopened(b)
    BY <2>2, CallEnds, Zenon DEF Failed, Wrote
  <2>4. D!DownloadImgData(D!Chunk(left), b)
    BY <2>3, CallEnds
  <2>5. b \in 0..(left + D!FillOverrun)
    BY <1>5, <2>3 DEF Unopened, D!FillOverrun
  <2> QED
    BY <1>4, <1>6, <1>7, <2>1, <2>4, <2>5, Zenon DEF D!Download
<1>9. CASE pkt.media # "spiflash"
  <2>1. n \in IF D!IsSparse(info) THEN 1..MaxSz
              ELSE IF D!OnStore(info) THEN 1..D!Remaining ELSE {D!Remaining}
    <3>1. CASE D!IsSparse(info)
      <4>1. pkt.kind = "sparse"
        BY <1>1, <3>1, ServingKind, Zenon
      <4>2. n \in 1..MaxSz
        BY <1>2, <4>1, CommandAssumption
      <4> QED
        BY <3>1, <4>2, Zenon
    <3>2. CASE ~D!IsSparse(info) /\ D!OnStore(info)
      BY <1>1, <1>2, <1>5, <1>6, <3>2, ServingKind
    <3>3. CASE ~D!OnStore(info)
      <4>1. pkt.media \in {"key", "mem"} /\ pkt.kind # "sparse" /\ ~D!IsSparse(info)
        BY <1>1, <1>9, <3>3, ServingKind
      <4>2. pkt.total <= writeBackUnitSz
        BY <1>1, <4>1, ServingKind, OneUnit
      <4> QED
        BY <1>2, <1>6, <3>3, <4>1, <4>2
    <3> QED
      BY <3>1, <3>2, <3>3
  <2>2. b \in 0..(n + D!FillOverrun)
    BY <1>2, <1>3 DEF WriterResults, D!FillOverrun, Overrun
  <2>3. /\ Len(data) = n /\ DOMAIN data = 1..n
        /\ \A k \in 1..n : data[k] = mem[(-leftDataSz) + k - 1]
    BY <1>2 DEF Bytes
  <2> DEFINE chunk == D!Chunk(n)
  <2>4. /\ Len(chunk) = n /\ DOMAIN chunk = 1..n
        /\ \A k \in 1..n : k <= left => chunk[k] = Len(out) + k - 1
    <3>1. chunk = [k \in 1..n |-> IF k <= left THEN Len(out) + k - 1 ELSE D!Blank]
      BY <1>4, <1>6 DEF D!Chunk
    <3> QED
      BY <1>2, <3>1
  <2>5. D!DownloadImgData(data, b)
    BY DEF n
  <2> HIDE DEF data, chunk
  <2>6. \A k \in 1..n : info.imgSzDisposed + k <= info.imgPktSz => data[k] = chunk[k]
    <3> SUFFICES ASSUME NEW k \in 1..n, info.imgSzDisposed + k <= info.imgPktSz
                 PROVE  data[k] = chunk[k]
      OBVIOUS
    <3>1. k <= left
      BY <1>2, <1>4, <1>5 DEF left
    <3> QED
      BY <1>2, <2>3, <2>4, <3>1
  <2>7. ~D!IsSparse(info) => info.imgSzDisposed + n <= info.imgPktSz
    <3>1. ~D!IsSparse(info) => n <= left
      BY <1>1, <1>2, ServingKind
    <3> QED
      BY <1>2, <1>4, <1>5, <3>1 DEF left
  <2>8. D!DownloadImgData(chunk, b)
    <3>1. n \in Nat
      BY <1>2
    <3> QED
      BY <1>4, <2>3, <2>4, <2>5, <2>6, <2>7, <3>1, SameChunk
  <2> QED
    BY <1>4, <1>7, <2>1, <2>2, <2>8 DEF D!Download, chunk
<1> QED
  BY <1>8, <1>9

\* The offsets that follow a write.
LEMMA TakenFields ==
    ASSUME NEW i \in Infos, NEW b \in Nat
    PROVE  /\ Taken(i, b) \in Infos
           /\ Taken(i, b).imgType = i.imgType
           /\ Taken(i, b).imgBurnSta = i.imgBurnSta
           /\ Taken(i, b).storageMediaType = i.storageMediaType
           /\ Taken(i, b).imgPktSz = i.imgPktSz
           /\ Taken(i, b).imgSzDisposed = i.imgSzDisposed + b
           /\ D!OnStore(i) /\ i.imgType = "normal" =>
                 Taken(i, b).nextMediaOffset = i.nextMediaOffset + b
<1> DEFINE next == IF D!OnStore(i) /\ i.imgType = "normal"
                   THEN i.nextMediaOffset + b ELSE i.nextMediaOffset
           size == i.imgSzDisposed + b
           t == [i EXCEPT !.imgSzDisposed = size, !.nextMediaOffset = next]
<1>1. Taken(i, b) = t
  BY DEF Taken, Infos
<1>2. next \in Nat /\ size \in Nat
  BY DEF Infos
<1>3. D!OnStore(i) /\ i.imgType = "normal" => next = i.nextMediaOffset + b
  OBVIOUS
<1> HIDE DEF next, size
<1>4. /\ t \in Infos /\ t.imgType = i.imgType /\ t.imgBurnSta = i.imgBurnSta
      /\ t.storageMediaType = i.storageMediaType /\ t.nextMediaOffset = next
      /\ t.imgPktSz = i.imgPktSz /\ t.imgSzDisposed = size
  BY <1>2, Zenon DEF Infos
<1> HIDE DEF t
<1> QED
  BY <1>1, <1>3, <1>4 DEF size

\* The struct after a write that took b of n bytes.
LEMMA WroteInfo ==
    ASSUME info \in Infos, NEW data, NEW n \in Nat, NEW b \in Nat, b <= n, Wrote(data, n, b)
    PROVE  /\ info' \in Infos /\ info'.imgType = info.imgType
           /\ info'.storageMediaType = info.storageMediaType
           /\ info'.imgPktSz = info.imgPktSz /\ img' = img /\ rc' = "ok"
           /\ info'.imgSzDisposed = info.imgSzDisposed + b
           /\ D!OnStore(info) /\ info.imgType = "normal" =>
                 info'.nextMediaOffset = info.nextMediaOffset + b
           /\ info'.imgBurnSta = IF info.imgSzDisposed + b = info.imgPktSz
                                 THEN "BURN_COMPLETE" ELSE "BURN_ING"
<1> DEFINE o == D!StorageOpen(info)
           t == Taken(o, b)
           c == D!StorageClose(t)
<1>1. info' = c /\ rc' = "ok" /\ img' = img /\ o.imgBurnSta = "BURN_ING"
  BY DEF Wrote, D!WriteAllowed
<1>2. /\ o \in Infos /\ o.imgType = info.imgType
      /\ o.storageMediaType = info.storageMediaType
      /\ o.nextMediaOffset = info.nextMediaOffset
      /\ o.imgPktSz = info.imgPktSz /\ o.imgSzDisposed = info.imgSzDisposed
  BY OpenFields
<1> HIDE DEF o
<1>3. /\ t \in Infos /\ t.imgType = o.imgType /\ t.imgBurnSta = "BURN_ING"
      /\ t.storageMediaType = o.storageMediaType /\ t.imgPktSz = o.imgPktSz
      /\ t.imgSzDisposed = o.imgSzDisposed + b
      /\ D!OnStore(o) /\ o.imgType = "normal" => t.nextMediaOffset = o.nextMediaOffset + b
  BY <1>1, <1>2, TakenFields
<1> HIDE DEF t
<1>4. /\ c \in Infos /\ c.imgType = t.imgType /\ c.storageMediaType = t.storageMediaType
      /\ c.imgPktSz = t.imgPktSz /\ c.imgSzDisposed = t.imgSzDisposed
      /\ c.nextMediaOffset = t.nextMediaOffset
      /\ c.imgBurnSta = IF t.imgSzDisposed = t.imgPktSz THEN "BURN_COMPLETE" ELSE "BURN_ING"
  BY <1>3, CloseFields
<1> HIDE DEF c
<1>5. D!OnStore(o) <=> D!OnStore(info)
  BY <1>2 DEF D!OnStore
<1> QED
  BY <1>1, <1>2, <1>3, <1>4, <1>5

\* A write-back the buffer manager accepts was a write of part of the image, right
\* behind what was written before.
LEMMA DataWrote ==
    ASSUME IInv, Serving, phase = "filled", ~isUpload, WriteBackDue, NEW b,
           Report(WantSz, b), D!DownloadImgData(Bytes(-leftDataSz, GivenSz(WantSz)), b),
           phase' # "failed"
    PROVE  /\ b \in Nat /\ GivenSz(WantSz) \in Nat /\ b <= GivenSz(WantSz)
           /\ Wrote(Bytes(-leftDataSz, GivenSz(WantSz)), GivenSz(WantSz), b)
           /\ Len(out) + b <= pkt.total /\ (~D!IsSparse(info) => b = GivenSz(WantSz))
           /\ Len(out') = Len(out) + b /\ Len(out) \in Nat
           /\ ~BurnRefused(WantSz, b) /\ leftDataSz' = leftDataSz + ThisWriteBackSz(WantSz) - b
           /\ phase' = IF sent' = tplcmdTotalSz THEN "done" ELSE "ready"
<1> DEFINE n == GivenSz(WantSz)
           data == Bytes(-leftDataSz, n)
<1>1. Active
  BY DEF Active
<1>2. b \in Nat /\ n \in Nat /\ WriteBack(WantSz, b) /\ Len(out') = Len(out) + Lesser(b, n)
  BY WriteBackTakes
<1>3. /\ ~BurnRefused(WantSz, b) /\ leftDataSz' = leftDataSz + ThisWriteBackSz(WantSz) - b
      /\ phase' = IF sent' = tplcmdTotalSz THEN "done" ELSE "ready"
  BY <1>2, Zenon DEF WriteBack
<1>4. b > leftDataSz /\ b <= n
  <2>1. ~(b <= leftDataSz) /\ ~(n < b)
    BY <1>3 DEF BurnRefused
  <2> HIDE DEF n
  <2> QED
    BY <1>1, <1>2, <2>1, UnitBounds
<1>5. b # 0
  BY <1>1, <1>2, <1>4, UnitBounds
<1>6. Len(data) = n
  BY <1>2 DEF Bytes
<1>7. Wrote(data, n, b)
  <2>1. D!DownloadImgData(data, b)
    OBVIOUS
  <2> HIDE DEF data, n
  <2> QED
    BY <1>5, <1>6, <2>1, CallEnds, Zenon DEF Unopened, Failed
<1>8. Len(out) \in Nat
  BY DEF IInv, TypeOK
<1>9. ~D!IsSparse(info) => n <= pkt.total - Len(out)
  BY <1>1, Offered, ServingKind
<1>10. info \in Infos /\ info.imgSzDisposed = Len(out) /\ info.imgPktSz = pkt.total
  BY <1>1, ServingKind DEF Serving
<1>11. pkt.total \in Nat
  BY <1>1, UnitFacts
<1> HIDE DEF n, data
<1>12. Len(out) + b <= pkt.total /\ (~D!IsSparse(info) => b = n)
  <2>1. ~D!IsSparse(info) => info.imgSzDisposed + n <= info.imgPktSz
    BY <1>2, <1>8, <1>9, <1>10, <1>11
  <2>2. b \in D!Takes(D!StorageOpen(info), n)
    BY <1>7 DEF Wrote
  <2> QED
    BY <1>2, <1>10, <2>1, <2>2, TakesBound, Zenon
<1>13. Len(out') = Len(out) + b
  BY <1>2, <1>4, <1>8 DEF Lesser
<1> QED
  BY <1>2, <1>3, <1>4, <1>7, <1>8, <1>12, <1>13 DEF n, data

\* It leaves one more piece of the image on the media.
LEMMA DataOnMedia ==
    ASSUME IInv, Serving, phase = "filled", ~isUpload, WriteBackDue, NEW b,
           Report(WantSz, b), D!DownloadImgData(Bytes(-leftDataSz, GivenSz(WantSz)), b),
           phase' # "failed"
    PROVE  Burnt(info, media', Len(out) + b)
<1> DEFINE n == GivenSz(WantSz)
           data == Bytes(-leftDataSz, n)
           at == D!ChunkOffset(info)
           opened == D!StorageOpen(info)
<1>1. Active
  BY DEF Active
<1>2. b \in Nat /\ n \in Nat /\ b <= n /\ Len(out) \in Nat /\ Len(out) + b <= pkt.total
  BY DataWrote
<1>3. PICK gone \in D!Losses(opened, data) : media' = D!Written(at, b, Placing(gone, data, n, b))
  BY DataWrote, Zenon DEF Wrote
<1>4. at = Len(out) /\ Burnt(info, media, Len(out)) /\ info \in Infos
  BY <1>1, ServingKind DEF Serving, D!ChunkOffset
<1>5. pkt.total <= MaxSz /\ MaxSz \in Nat /\ pkt.total \in Nat
  BY <1>1, ServingKind, KindFacts
<1>6. \A k \in 1..n : k <= pkt.total - Len(out) =>
         mem[(-leftDataSz) + k - 1] = Len(out) + k - 1
  BY Offered
<1>7. DOMAIN data = 1..n /\ \A k \in 1..n : data[k] = mem[(-leftDataSz) + k - 1]
  BY DEF Bytes
<1>a. D!IsSparse(opened) = D!IsSparse(info)
  <2>1. opened.imgType = info.imgType /\ opened.storageMediaType = info.storageMediaType
    BY <1>4, OpenFields
  <2> QED
    BY <2>1, Zenon DEF D!IsSparse, D!OnStore
<1> DEFINE f == Placing(gone, data, n, b)
<1> HIDE DEF n, data, at, opened
<1>8. \A k \in 1..b : D!InPlace(info, Len(out) + k - 1, f[k])
  <2> SUFFICES ASSUME NEW k \in 1..b PROVE D!InPlace(info, Len(out) + k - 1, f[k])
    OBVIOUS
  <2>1. k \in 1..n /\ k <= n /\ k <= pkt.total - Len(out)
    BY <1>2, <1>5
  <2>2. data[k] = Len(out) + k - 1
    BY <1>6, <1>7, <2>1
  <2>3. f[k] = IF k \in gone THEN D!Lost ELSE data[k]
    BY <2>1, Zenon DEF Placing
  <2>4. k \in gone => D!IsSparse(info) /\ data[k] \in FillBytes
    BY <1>3, <1>a, Zenon DEF D!Losses
  <2> QED
    BY <2>2, <2>3, <2>4, Zenon DEF D!InPlace
<1> HIDE DEF f
<1>9. Len(out) + b <= MaxSz
  BY <1>2, <1>5
<1>10. Burnt(info, D!Written(Len(out), b, f), Len(out) + b)
  BY <1>2, <1>4, <1>5, <1>8, <1>9, WrittenBurnt, SMTT(60)
<1> QED
  BY <1>3, <1>4, <1>10 DEF f

\* What is burnt depends on the format and the destination alone.
LEMMA BurntSame ==
    ASSUME NEW i, NEW j, NEW m, NEW n, i.imgType = j.imgType,
           i.storageMediaType = j.storageMediaType, Burnt(i, m, n)
    PROVE  Burnt(j, m, n)
<1>1. \A o, byte : D!InPlace(i, o, byte) => D!InPlace(j, o, byte)
  BY Zenon DEF D!InPlace, D!IsSparse, D!OnStore
<1> QED
  BY <1>1, Zenon DEF Burnt

\* An image the host was told is burnt, or was read back whole.
Told ==
    /\ info \in Infos /\ info.imgPktSz = pkt.total
    /\ pkt.isUpload => Prefix(media, pkt.total)
    /\ ~pkt.isUpload => info.imgBurnSta \in Complete /\ Burnt(info, media, pkt.total)

\* Between two write-backs the two halves agree on the image.
LEMMA DataServing ==
    ASSUME IInv, IInv', Serving, phase = "filled", ~isUpload, WriteBackDue, NEW b,
           Report(WantSz, b), D!DownloadImgData(Bytes(-leftDataSz, GivenSz(WantSz)), b),
           phase' = "ready"
    PROVE  Serving'
<1> DEFINE n == GivenSz(WantSz)
           twb == ThisWriteBackSz(WantSz)
<1>1. Active /\ Active'
  BY DEF Active
<1>2. /\ b \in Nat /\ n \in Nat /\ b <= n /\ Wrote(Bytes(-leftDataSz, n), n, b)
      /\ (~D!IsSparse(info) => b = n) /\ Len(out') = Len(out) + b /\ Len(out) \in Nat
      /\ leftDataSz' = leftDataSz + twb - b
      /\ phase' = IF sent' = tplcmdTotalSz THEN "done" ELSE "ready"
  BY DataWrote
<1>3. n = leftDataSz + twb
  BY Offered
<1>4. pkt' = pkt /\ isUpload' = isUpload /\ sent' = sent + WantSz
  BY ReportSteps, ZenonT(60)
<1>5. /\ info \in Infos /\ img = pkt /\ info.imgPktSz = pkt.total
      /\ info.imgType = D!ImgType(pkt) /\ info.storageMediaType = pkt.media
      /\ info.imgSzDisposed = Len(out) /\ ~pkt.isUpload
      /\ ~D!IsSparse(info) => info.nextMediaOffset = Len(out)
      /\ pkt.media = "key" => pkt.total < Unit
  BY <1>1, ServingKind DEF Serving
<1>6. sent + WantSz # tplcmdTotalSz
  BY <1>2, <1>4
<1>7. ASSUME ~D!IsSparse(info)
      PROVE  D!OnStore(info) /\ info.imgType = "normal"
  <2>1. ~D!OpenFails(info, TRUE)
    BY <1>2, ZenonT(60) DEF Wrote
  <2>2. pkt.media # "spiflash"
    BY <1>5, <2>1 DEF D!OpenFails
  <2>3. ~(pkt.kind \in {"bootloader", "mem"} \/ pkt.media = "key")
    <3> SUFFICES ASSUME pkt.kind \in {"bootloader", "mem"} \/ pkt.media = "key" PROVE FALSE
      OBVIOUS
    <3>1. pkt.total <= writeBackUnitSz
      BY <1>1, OneUnit
    <3>2. pkt.notAligned = 0
      BY <1>1, ServingKind, KindFacts
    <3> QED
      BY <1>6, <3>1, <3>2, SingleUnit
  <2>4. D!OnStore(info)
    BY <1>1, <2>2, <2>3, ServingKind
  <2>5. info.imgType # "bootloader" /\ info.imgType # "sparse"
    BY <1>1, <1>7, <2>3, <2>4, ServingKind, ZenonT(60) DEF D!IsSparse
  <2> QED
    BY <1>5, <2>4, <2>5, SMTT(60) DEF Infos
<1>8. /\ info' \in Infos /\ info'.imgType = info.imgType
      /\ info'.storageMediaType = info.storageMediaType
      /\ info'.imgPktSz = info.imgPktSz /\ img' = img /\ rc' = "ok"
      /\ info'.imgSzDisposed = info.imgSzDisposed + b
      /\ D!OnStore(info) /\ info.imgType = "normal" =>
            info'.nextMediaOffset = info.nextMediaOffset + b
      /\ info'.imgBurnSta = IF info.imgSzDisposed + b = info.imgPktSz
                            THEN "BURN_COMPLETE" ELSE "BURN_ING"
  <2> DEFINE data == Bytes(-leftDataSz, n)
  <2>1. Wrote(data, n, b)
    BY <1>2
  <2> HIDE DEF data, n
  <2> QED
    BY <1>2, <1>5, <2>1, WroteInfo
<1> HIDE DEF n, twb
<1>9. Len(out) + b < pkt.total
  <2>1. Len(out') = pkt.notAligned + Base' - leftDataSz'
    BY <1>1, <1>4 DEF IInv, DownloadInv
  <2>2. /\ Base' \in Nat /\ leftDataSz' \in Nat /\ Base' <= sent' /\ sent' < tplcmdTotalSz'
        /\ tplcmdTotalSz' = pkt.total - pkt.notAligned
        /\ pkt.total \in Nat /\ pkt.notAligned \in Nat
        /\ sent' \in Nat
    <3>1. Base \in Nat /\ leftDataSz \in Nat /\ Base <= sent /\ sent < tplcmdTotalSz
          /\ tplcmdTotalSz = pkt.total - pkt.notAligned
          /\ pkt.total \in Nat /\ pkt.notAligned \in Nat
          /\ sent \in Nat
      BY <1>1, UnitFacts
    <3>2. tplcmdTotalSz' = tplcmdTotalSz
      BY ReportSteps
    <3>3. Base' \in Nat /\ leftDataSz' \in Nat /\ sent' \in Nat /\ Base' <= sent'
      <4> DEFINE x == sent'
                 w == writeBackUnitSz'
      <4>1. x \in Nat /\ w \in Nat \ {0} /\ leftDataSz' \in Nat
        BY DEF IInv, TypeOK
      <4>2. Base' = x - (x % w)
        BY DEF Base, InUnit
      <4> HIDE DEF x, w
      <4>3. x % w <= x /\ x % w \in 0..(w - 1)
        BY <4>1, DivMod, ZenonT(60)
      <4>4. x - (x % w) \in Nat /\ x - (x % w) <= x
        BY <4>1, <4>3
      <4> QED
        BY <4>1, <4>2, <4>4, Zenon DEF x
    <3>5. sent' < tplcmdTotalSz'
      BY <1>1 DEF IInv, CommandInv
    <3> QED
      BY <3>1, <3>2, <3>3, <3>5
  <2>3. Len(out') = Len(out) + b
    BY <1>2
  <2> QED
    BY <1>2, <2>1, <2>2, <2>3, SMTT(60)
<1>10. info'.imgBurnSta = "BURN_ING"
  <2>1. info.imgSzDisposed + b # info.imgPktSz
    BY <1>2, <1>5, <1>9, UnitFacts, <1>1
  <2> QED
    BY <1>8, <2>1
<1>11. D!IsSparse(info') <=> D!IsSparse(info)
  BY <1>8 DEF D!IsSparse, D!OnStore
<1>12. ~D!IsSparse(info') => info'.nextMediaOffset = Len(out')
  BY <1>2, <1>5, <1>7, <1>8, <1>11
<1>13. Burnt(info', media', Len(out'))
  <2>1. Burnt(info, media', Len(out'))
    BY <1>2, DataOnMedia
  <2> QED
    BY <1>8, <2>1, BurntSame, Zenon
<1>14. pkt.kind # "sparse" => leftDataSz' = 0
  <2>1. pkt.kind # "sparse" => b = n
    BY <1>1, <1>2, ServingKind
  <2>2. leftDataSz \in Nat /\ twb \in Nat
    BY <1>1, UnitFacts, ReportFacts DEF twb
  <2> QED
    BY <1>2, <1>3, <2>1, <2>2
<1> QED
  BY <1>2, <1>4, <1>5, <1>8, <1>10, <1>12, <1>13, <1>14, Zenon DEF Serving, InBurn

\* With the last one the image is complete.
LEMMA DataDone ==
    ASSUME IInv, Serving, phase = "filled", ~isUpload, WriteBackDue, NEW b,
           Report(WantSz, b), D!DownloadImgData(Bytes(-leftDataSz, GivenSz(WantSz)), b),
           phase' = "done"
    PROVE  Told'
<1> DEFINE n == GivenSz(WantSz)
           twb == ThisWriteBackSz(WantSz)
<1>1. Active
  BY DEF Active
<1>2. /\ b \in Nat /\ n \in Nat /\ b <= n /\ Wrote(Bytes(-leftDataSz, n), n, b)
      /\ Len(out) + b <= pkt.total /\ Len(out) \in Nat
      /\ ~BurnRefused(WantSz, b)
      /\ phase' = IF sent' = tplcmdTotalSz THEN "done" ELSE "ready"
  BY DataWrote
<1>3. pkt' = pkt /\ sent' = sent + WantSz
  BY ReportSteps
<1>4. sent + WantSz = tplcmdTotalSz
  BY <1>2, <1>3
<1>5. info \in Infos /\ info.imgSzDisposed = Len(out) /\ info.imgPktSz = pkt.total
  BY <1>1, ServingKind DEF Serving
<1>6. leftDataSz + twb - b <= 0
  <2>1. TotalTransferSz(WantSz) = tplcmdTotalSz /\ tplcmdTotalSz \in Nat
    BY <1>1, <1>4, ReportFacts, UnitBounds
  <2>2. ~(leftDataSz + twb - b > 0)
    BY <1>2, <2>1 DEF BurnRefused
  <2>3. leftDataSz \in Nat /\ twb \in Nat
    BY <1>1, UnitFacts, ReportFacts
  <2> HIDE DEF twb
  <2> QED
    BY <1>2, <2>2, <2>3
<1>7. twb >= InUnit + WantSz /\ twb \in Nat
  BY <1>1, ReportFacts, UnitBounds
<1>8. Len(out) = pkt.notAligned + Base - leftDataSz /\ tplcmdTotalSz = pkt.total - pkt.notAligned
  BY <1>1, UnitFacts DEF IInv, DownloadInv
<1> HIDE DEF n, twb
<1>9. Len(out) + b = pkt.total
  <2>1. /\ leftDataSz \in Nat /\ InUnit \in Nat /\ WantSz \in Nat /\ Base \in Nat
        /\ pkt.notAligned \in Nat /\ pkt.total \in Nat /\ sent = Base + InUnit
    BY <1>1, UnitFacts, UnitBounds
  <2> QED
    BY <1>2, <1>4, <1>6, <1>7, <1>8, <2>1, SMTT(60)
<1>10. /\ info' \in Infos /\ info'.imgPktSz = pkt.total /\ info'.imgBurnSta = "BURN_COMPLETE"
       /\ info'.imgType = info.imgType /\ info'.storageMediaType = info.storageMediaType
  <2> DEFINE data == Bytes(-leftDataSz, n)
  <2>1. Wrote(data, n, b)
    BY <1>2
  <2> HIDE DEF data
  <2> QED
    BY <1>2, <1>5, <1>9, <2>1, WroteInfo
<1>11. Burnt(info', media', pkt.total)
  <2>1. Burnt(info, media', pkt.total)
    BY <1>9, DataOnMedia
  <2> QED
    BY <1>10, <2>1, BurntSame, Zenon
<1>12. ~pkt.isUpload
  BY <1>1, ServingKind
<1> QED
  BY <1>3, <1>10, <1>11, <1>12 DEF Told, Complete

-----------------------------------------------------------------------------
(* The other steps.                                                          *)

\* The image state machine agrees with the buffer manager while a command is
\* served, and is done when the host has its last OK.
Link ==
    /\ Active => host = "sending" /\ Serving
    /\ host = "ok" => phase = "done" /\ Told

UInv == IInv /\ ReplyInv /\ Link

\* A new command.
LEMMA CommandServing ==
    ASSUME NEW p \in Packets, NEW partOk \in BOOLEAN, D!ParseImgDownloadInfo(p, partOk),
           rc' = "ok", TplcmdInit(p), phase' = "ready"
    PROVE  Serving'
<1>1. /\ info' \in Infos /\ info'.imgSzDisposed = 0 /\ info'.nextMediaOffset = 0
      /\ info'.imgBurnSta = "PRE_BURN" /\ info'.imgPktSz = p.total
      /\ info'.imgType = D!ImgType(p) /\ info'.storageMediaType = p.media
      /\ img' = p /\ (p.media = "key" => p.total < Unit)
      /\ p.isUpload => Prefix(media', p.total)
  BY ParsedInfo
<1>2. pkt' = p /\ dumped' = 0 /\ out' = <<>> /\ leftDataSz' = p.notAligned
  BY DEF TplcmdInit
<1>3. p.notAligned = 0 /\ Len(out') = 0
  BY <1>2, KindFacts
<1>4. Burnt(info', media', 0)
  BY DEF Burnt
<1> QED
  BY <1>1, <1>2, <1>3, <1>4 DEF Serving, InBurn

\* What is neither a write nor a read of the media leaves the agreement alone.
LEMMA ServingKept ==
    ASSUME Serving, UNCHANGED <<imgVars, pkt, dumped, leftDataSz>>,
           pkt.isUpload \/ out' = out
    PROVE  Serving'
<1>1. UNCHANGED <<info, img, media, rc>>
  BY SMTT(60) DEF imgVars
<1> QED
  BY <1>1 DEF Serving

\* The struct after a read of n bytes for an upload.
LEMMA DumpedFields ==
    ASSUME info \in Infos, info.imgBurnSta \in InBurn, NEW n \in Nat
    PROVE  LET c == D!StorageClose(D!Dumped(D!StorageOpen(info), n))
           IN /\ c \in Infos /\ c.imgType = info.imgType
              /\ c.storageMediaType = info.storageMediaType /\ c.imgPktSz = info.imgPktSz
              /\ c.imgSzDisposed = info.imgSzDisposed + n
              /\ c.nextMediaOffset = info.nextMediaOffset + n
              /\ info.imgSzDisposed + n # info.imgPktSz => c.imgBurnSta \in InBurn
<1> DEFINE o == D!StorageOpen(info)
           d == D!Dumped(o, n)
           c == D!StorageClose(d)
<1>1. /\ o \in Infos /\ o.imgType = info.imgType
      /\ o.storageMediaType = info.storageMediaType
      /\ o.nextMediaOffset = info.nextMediaOffset /\ o.imgBurnSta \in InBurn
      /\ o.imgPktSz = info.imgPktSz /\ o.imgSzDisposed = info.imgSzDisposed
  BY OpenFields
<1> HIDE DEF o
<1>2. /\ d \in Infos /\ d.imgType = o.imgType /\ d.imgBurnSta = o.imgBurnSta
      /\ d.storageMediaType = o.storageMediaType /\ d.imgPktSz = o.imgPktSz
      /\ d.imgSzDisposed = o.imgSzDisposed + n
      /\ d.nextMediaOffset = o.nextMediaOffset + n
  <2> DEFINE x == o.imgSzDisposed + n
             y == o.nextMediaOffset + n
             e == [o EXCEPT !.imgSzDisposed = x, !.nextMediaOffset = y]
  <2>1. d = e
    BY <1>1 DEF D!Dumped, Infos
  <2>2. x \in Nat /\ y \in Nat
    BY <1>1 DEF Infos
  <2> HIDE DEF x, y
  <2>3. /\ e \in Infos /\ e.imgType = o.imgType /\ e.imgBurnSta = o.imgBurnSta
        /\ e.storageMediaType = o.storageMediaType /\ e.imgPktSz = o.imgPktSz
        /\ e.imgSzDisposed = x /\ e.nextMediaOffset = y
    BY <1>1, <2>2, ZenonT(60) DEF Infos
  <2> HIDE DEF d, e
  <2> QED
    BY <2>1, <2>3 DEF x, y
<1> HIDE DEF d
<1>3. /\ c \in Infos /\ c.imgType = d.imgType /\ c.storageMediaType = d.storageMediaType
      /\ c.imgPktSz = d.imgPktSz /\ c.imgSzDisposed = d.imgSzDisposed
      /\ c.nextMediaOffset = d.nextMediaOffset
      /\ d.imgSzDisposed # d.imgPktSz /\ d.imgBurnSta \in InBurn => c.imgBurnSta \in InBurn
  BY <1>2, CloseFields
<1> HIDE DEF c
<1> QED
  BY <1>1, <1>2, <1>3, Zenon DEF c, d, o

\* A slot of an upload: where it is, and how much of the media is read for it.
LEMMA UploadSlot ==
    ASSUME IInv, phase = "ready", isUpload, NextSlot
    PROVE  /\ UNCHANGED <<pkt, leftDataSz, out>> /\ phase' \in {"filled", "failed"}
           /\ pBuf' = InUnit
           /\ LET n == Lesser(LeftPktSz(totalSlotNum * Unit), writeBackUnitSz)
              IN pBuf' = 0 => /\ n \in 1..(pkt.total - dumped) /\ dumped \in Nat
                              /\ phase' = "filled" => dumped' = dumped + n
           /\ pBuf' # 0 => dumped' = dumped /\ phase' = "filled"
<1> DEFINE s == totalSlotNum * Unit
           n == Lesser(LeftPktSz(s), writeBackUnitSz)
<1>1. Active
  BY DEF Active
<1>2. s = sent /\ LeftPktSz(s) = tplcmdTotalSz - sent
  BY <1>1, UnitFacts DEF LeftPktSz
<1>3. ~(WantSz < Unit /\ LeftPktSz(s) # WantSz)
  BY <1>1, <1>2, UnitFacts
<1>4. (s % U32) % writeBackUnitSz = InUnit
  <2>1. sent \in Nat /\ sent <= tplcmdTotalSz
    BY <1>1, UnitFacts
  <2> QED
    BY <1>1, <1>2, <2>1, CastHarmless DEF InUnit
<1>5. /\ pBuf' = (s % U32) % writeBackUnitSz
      /\ IF (s % U32) % writeBackUnitSz = 0 /\ isUpload
         THEN \/ dumped' = dumped + n /\ phase' = "filled"
              \/ phase' = "failed"
         ELSE phase' = (IF isUpload THEN "filled" ELSE "xfer") /\ dumped' = dumped
      /\ UNCHANGED <<pkt, leftDataSz, out>>
  BY <1>3, Zenon DEF NextSlot, GetBuf
<1>6. ASSUME pBuf' = 0
      PROVE  n \in 1..(pkt.total - dumped) /\ dumped \in Nat
  <2>1. InUnit = 0
    BY <1>4, <1>5, <1>6
  <2>2. dumped = Base
    BY <1>1, <2>1 DEF IInv, UploadInv
  <2>3. tplcmdTotalSz = pkt.total /\ sent = Base
    BY <1>1, <2>1, UnitFacts
  <2>4. n = Lesser(tplcmdTotalSz - sent, writeBackUnitSz)
    BY <1>2
  <2> HIDE DEF n, s
  <2> QED
    BY <1>1, <2>2, <2>3, <2>4, UnitFacts DEF Lesser
<1> QED
  BY <1>4, <1>5, <1>6

\* Reading a slot for an upload.
LEMMA UploadLink ==
    ASSUME UInv, IInv', UploadPacket
    PROVE  Link' /\ (D!Upload \/ UNCHANGED imgVars)
<1> DEFINE n == Lesser(LeftPktSz(totalSlotNum * Unit), writeBackUnitSz)
<1>1. phase = "ready" /\ NextSlot /\ host = "sending" /\ pkt.isUpload
  BY DEF UploadPacket, NextSlot
<1>2. Active /\ Serving
  BY <1>1 DEF Active, UInv, Link
<1>3. isUpload
  BY <1>1, <1>2, ServingKind DEF UInv
<1>4. /\ UNCHANGED <<pkt, leftDataSz, out>> /\ phase' \in {"filled", "failed"}
      /\ pBuf' = 0 => /\ n \in 1..(pkt.total - dumped) /\ dumped \in Nat
                      /\ phase' = "filled" => dumped' = dumped + n
      /\ pBuf' # 0 => dumped' = dumped /\ phase' = "filled"
  BY <1>1, <1>3, UploadSlot DEF UInv
<1>5. host' = IF phase' = "failed" THEN "error" ELSE host
  BY DEF UploadPacket
<1>6. CASE pBuf' # 0
  <2>1. UNCHANGED imgVars
    BY <1>6 DEF UploadPacket
  <2>2. Serving'
    BY <1>1, <1>2, <1>4, <1>6, <2>1, ServingKept
  <2> QED
    BY <1>1, <1>4, <1>5, <1>6, <2>1, <2>2 DEF Link
<1>7. CASE pBuf' = 0
  <2>1. D!DumpStorageData(n) /\ ((rc' = "fail") <=> (phase' = "failed"))
    BY <1>7 DEF UploadPacket
  <2>2. /\ info \in Infos /\ img = pkt /\ rc = "ok" /\ info.imgPktSz = pkt.total
        /\ info.imgType = D!ImgType(pkt) /\ info.storageMediaType = pkt.media
        /\ info.imgSzDisposed = dumped /\ info.nextMediaOffset = dumped
        /\ (dumped < pkt.total => info.imgBurnSta \in InBurn)
        /\ Prefix(media, pkt.total)
    BY <1>1, <1>2 DEF Serving
  <2>3. pkt.total \in Nat
    BY <1>2, UnitFacts, ZenonT(60) DEF UInv
  <2> HIDE DEF n
  <2>4. info.imgBurnSta \in InBurn /\ n \in Nat
    BY <1>4, <1>7, <2>2, <2>3, SMTT(60)
  <2>5. D!Upload
    <3>1. n \in 1..D!Remaining
      BY <1>4, <1>7, <2>2, SMTT(60) DEF D!Remaining
    <3>2. D!Burning
      BY <2>2, <2>4 DEF D!Burning, InBurn
    <3> QED
      BY <1>1, <2>1, <2>2, <3>1, <3>2, ZenonT(60) DEF D!Upload
  <2>6. CASE phase' = "failed"
    BY <1>5, <2>5, <2>6 DEF Link, Active
  <2>7. CASE phase' = "filled"
    <3> DEFINE c == D!StorageClose(D!Dumped(D!StorageOpen(info), n))
    <3>1. info' = c /\ rc' = "ok" /\ UNCHANGED <<img, media>>
      BY <2>1, <2>7, ZenonT(60) DEF D!DumpStorageData
    <3>2. /\ c \in Infos /\ c.imgType = info.imgType
          /\ c.storageMediaType = info.storageMediaType /\ c.imgPktSz = info.imgPktSz
          /\ c.imgSzDisposed = info.imgSzDisposed + n
          /\ c.nextMediaOffset = info.nextMediaOffset + n
          /\ info.imgSzDisposed + n # info.imgPktSz => c.imgBurnSta \in InBurn
      BY <2>2, <2>4, DumpedFields, Zenon
    <3> HIDE DEF c
    <3>3. dumped' = dumped + n /\ (dumped' < pkt.total => dumped + n # pkt.total)
      BY <1>4, <1>7, <2>3, <2>4, <2>7, SMTT(60)
    <3>4. Serving'
      BY <1>1, <1>2, <1>4, <2>2, <3>1, <3>2, <3>3 DEF Serving
    <3> QED
      BY <1>1, <1>5, <2>5, <2>7, <3>4 DEF Link
  <2> QED
    BY <1>4, <2>6, <2>7
<1> QED
  BY <1>6, <1>7

\* Sending a slot of an upload.
LEMMA UploadCompleteLink ==
    ASSUME UInv, UploadComplete
    PROVE  Link' /\ UNCHANGED imgVars
<1>1. /\ phase = "filled" /\ pkt.isUpload /\ Report(WantSz, 0) /\ host = "sending"
      /\ UNCHANGED imgVars /\ host' = IF phase' = "done" THEN "ok" ELSE host
  BY DEF UploadComplete
<1>2. Active /\ Serving
  BY <1>1 DEF Active, UInv, Link
<1>3. isUpload
  BY <1>1, <1>2, ServingKind, SMTT(60) DEF UInv
<1>4. nextWriteBackSlot = 0 /\ totalSlotNum \in Nat
  BY <1>2, <1>3 DEF UInv, IInv, DueInv, TypeOK
<1>5. ~WriteBackDue
  BY <1>4 DEF WriteBackDue
<1>6. phase' \in {"ready", "done"} /\ UNCHANGED <<pkt, dumped, leftDataSz>>
  BY <1>1, <1>5 DEF Report
<1>7. Serving'
  BY <1>1, <1>2, <1>6, ServingKept, SMTT(60)
<1>8. Told'
  BY <1>1, <1>6, <1>7 DEF Serving, Told
<1> QED
  BY <1>1, <1>6, <1>7, <1>8 DEF Link, Active

\* A verification keeps a complete image complete.
LEMMA VerifyTold ==
    ASSUME Told, D!VerifyMedia, UNCHANGED pkt
    PROVE  Told'
<1> DEFINE o == D!StorageOpen(info)
<1>1. media' = media
  BY Zenon DEF D!VerifyMedia, D!Verify
<1>2. info \in Infos /\ info.imgPktSz = pkt.total
  BY DEF Told
<1>3. \/ info' = info
      \/ \E left \in 0..info.imgPktSz : /\ info.imgBurnSta = "BURN_COMPLETE"
                                        /\ info' = D!StorageClose([o EXCEPT !.imgSzDisposed = left])
  <2>1. 0 \in 0..info.imgPktSz
    BY <1>2 DEF Infos
  <2> QED
    BY <2>1, Zenon DEF D!VerifyMedia, D!Verify
<1>4. CASE info' = info
  BY <1>1, <1>4, ZenonT(60) DEF Told
<1>5. ASSUME NEW left \in 0..info.imgPktSz, info.imgBurnSta = "BURN_COMPLETE",
             info' = D!StorageClose([o EXCEPT !.imgSzDisposed = left])
      PROVE  Told'
  <2>1. /\ o \in Infos /\ o.imgPktSz = info.imgPktSz /\ o.imgBurnSta \in Complete
        /\ o.imgType = info.imgType /\ o.storageMediaType = info.storageMediaType
    BY <1>2, <1>5, OpenFields DEF Complete
  <2> DEFINE l == [o EXCEPT !.imgSzDisposed = left]
  <2> HIDE DEF o
  <2>2. left \in Nat
    BY <1>2 DEF Infos
  <2>3. /\ l \in Infos /\ l.imgPktSz = o.imgPktSz /\ l.imgBurnSta = o.imgBurnSta
        /\ l.imgType = o.imgType /\ l.storageMediaType = o.storageMediaType
    BY <2>1, <2>2 DEF Infos
  <2>4. info' = D!StorageClose(l)
    BY <1>5
  <2> HIDE DEF l
  <2>5. /\ info' \in Infos /\ info'.imgPktSz = l.imgPktSz /\ info'.imgBurnSta \in Complete
        /\ info'.imgType = l.imgType /\ info'.storageMediaType = l.storageMediaType
    BY <2>1, <2>3, <2>4, CloseFields
  <2>6. ~pkt.isUpload => Burnt(info', media, pkt.total)
    <3>1. info'.imgType = info.imgType /\ info'.storageMediaType = info.storageMediaType
      BY <2>1, <2>3, <2>5
    <3> QED
      BY <3>1, BurntSame, Zenon DEF Told
  <2> QED
    BY <1>1, <1>2, <2>1, <2>3, <2>5, <2>6 DEF Told
<1> QED
  BY <1>3, <1>4, <1>5, Zenon

\* The reply to a packet with a right checksum.
LEMMA ReplyLink ==
    ASSUME UInv, IInv', BulkTransferReply
    PROVE  Link' /\ (D!Download \/ UNCHANGED imgVars)
<1>1. host = "sending" /\ ~pkt.isUpload
  BY DEF UInv, ReplyInv, BulkTransferReply
<1>2. CASE MediaErr
  <2>1. UNCHANGED <<vars, imgVars, host>>
    BY <1>2, Zenon DEF BulkTransferReply
  <2>2. UNCHANGED <<phase, pkt, dumped, leftDataSz, out>>
    BY <2>1 DEF vars, clientVars, bmVars
  <2>3. Active' => Active
    BY <2>2 DEF Active
  <2> QED
    BY <1>1, <2>1, <2>2, <2>3, ServingKept DEF UInv, Link
<1>3. CASE ~MediaErr
  <2>1. phase = "filled"
    BY <1>3, ReportedFilled DEF UInv
  <2>2. Active /\ Serving /\ IInv
    BY <2>1 DEF Active, UInv, Link
  <2>3. ~isUpload
    BY <1>1, <2>2, ServingKind
  <2>4. PICK b : ReportWithWriter(b)
    BY <1>3, Zenon DEF BulkTransferReply
  <2>5. host' = IF phase' = "done" THEN "ok" ELSE host
    BY <1>3, Zenon DEF BulkTransferReply
  <2>6. Report(WantSz, b) /\ phase' \in {"failed", "done", "ready"} /\ pkt' = pkt
    BY <2>4, ReportPhase DEF ReportWithWriter
  <2>7. CASE WriteBackDue
    <3>1. D!DownloadImgData(Bytes(-leftDataSz, GivenSz(WantSz)), b)
      BY <2>4, <2>7 DEF ReportWithWriter
    <3>2. D!Download
      BY <2>1, <2>2, <2>3, <2>6, <2>7, <3>1, DataStep, SMTT(60)
    <3>3. CASE phase' = "ready"
      <4>1. Serving'
        BY <2>1, <2>2, <2>3, <2>6, <2>7, <3>1, <3>3, DataServing, SMTT(60)
      <4> QED
        BY <1>1, <2>5, <3>2, <3>3, <4>1, SMTT(60) DEF Link
    <3>4. CASE phase' = "done"
      <4>1. Told'
        BY <2>1, <2>2, <2>3, <2>6, <2>7, <3>1, <3>4, DataDone, SMTT(60)
      <4> QED
        BY <3>2, <3>4, <4>1 DEF Link, Active
    <3>5. CASE phase' = "failed"
      BY <1>1, <2>5, <3>2, <3>5 DEF Link, Active
    <3> QED
      BY <2>6, <3>3, <3>4, <3>5
  <2>8. CASE ~WriteBackDue
    <3>1. UNCHANGED imgVars
      BY <2>4, <2>8 DEF ReportWithWriter
    <3>2. sent + WantSz < tplcmdTotalSz
      BY <2>1, <2>2, <2>3, <2>8, DueFacts
    <3>3. sent + WantSz # tplcmdTotalSz
      BY <2>2, <3>2, UnitBounds, SMTT(60)
    <3>4. out' = out /\ UNCHANGED <<pkt, dumped, leftDataSz>> /\ phase' = "ready"
      BY <2>3, <2>6, <2>8, <3>3 DEF Report
    <3>5. Serving'
      BY <2>2, <3>1, <3>4, ServingKept, SMTT(60)
    <3> QED
      BY <1>1, <2>5, <3>1, <3>4, <3>5 DEF Link
  <2> QED
    BY <2>7, <2>8
<1> QED
  BY <1>2, <1>3

\* Every step keeps the agreement, and is a step of the image state machine.
LEMMA LinkStep ==
    ASSUME UInv, IInv', [UsbNext]_allVars
    PROVE  Link' /\ [D!ImgDownloadNext]_(D!imgVars)
<1> DEFINE kept == UNCHANGED <<imgVars, pkt, dumped, leftDataSz, out>>
<1>1. UNCHANGED imgVars => UNCHANGED (D!imgVars)
  BY DEF D!imgVars, imgVars
<1>2. ASSUME kept, Active' => Active, host' = host, host = "sending"
      PROVE  Link' /\ [D!ImgDownloadNext]_(D!imgVars)
  <2>1. Active' => Serving'
    BY <1>2, ServingKept DEF UInv, Link
  <2> QED
    BY <1>1, <1>2, <2>1 DEF Link
<1>3. ASSUME NEW p \in Packets, DownloadCmd(p)
      PROVE  Link' /\ [D!ImgDownloadNext]_(D!imgVars)
  <2>1. PICK partOk \in BOOLEAN : D!ParseImgDownloadInfo(p, partOk)
    BY <1>3, Zenon DEF DownloadCmd
  <2>2. D!ImgDownloadNext
    BY <2>1, Zenon DEF D!ImgDownloadNext, D!Command
  <2>3. ~Active
    BY <1>3 DEF DownloadCmd, UInv, Link
  <2>4. CASE rc' = "ok"
    <3>1. TplcmdInit(p) /\ host' = IF phase' = "ready" THEN "sending" ELSE "error"
      BY <1>3, <2>4 DEF DownloadCmd
    <3>2. phase' \in {"ready", "failed"}
      BY <3>1 DEF TplcmdInit
    <3>3. phase' = "ready" => Serving'
      BY <2>1, <2>4, <3>1, CommandServing
    <3> QED
      BY <2>2, <3>1, <3>2, <3>3 DEF Link, Active
  <2>5. CASE rc' # "ok"
    <3>1. UNCHANGED vars /\ host' = "error"
      BY <1>3, <2>5 DEF DownloadCmd
    <3>2. ~Active'
      BY <2>3, <3>1 DEF Active, vars, clientVars
    <3> QED
      BY <2>2, <3>1, <3>2 DEF Link
  <2> QED
    BY <2>4, <2>5
<1>4. CASE SendPacket
  <2>1. /\ UNCHANGED imgVars /\ host' = host /\ host = "sending" /\ ~pkt.isUpload
        /\ phase = "ready" /\ NextSlot
    BY <1>4 DEF SendPacket, NextSlot
  <2>2. Active
    BY <2>1 DEF Active
  <2>3. ~isUpload
    BY <2>1, <2>2, UnitFacts DEF UInv
  <2>4. UNCHANGED <<pkt, leftDataSz, out, dumped>>
    BY <2>1, <2>3, ZenonT(60) DEF NextSlot, GetBuf, bmVars
  <2> QED
    BY <1>2, <2>1, <2>2, <2>4
<1>5. CASE ResendPacket
  BY <1>2, <1>5, SMTT(60) DEF ResendPacket, vars, clientVars, bmVars, Active
<1>6. CASE ChecksumError
  <2>1. host = "sending" /\ host' = host
    BY <1>6 DEF ChecksumError, UInv, ReplyInv
  <2> QED
    BY <1>2, <1>6, <2>1 DEF ChecksumError, FillCorrupt, clientVars, bmVars, Active
<1>7. CASE DataReceived
  <2>1. host = "sending" /\ host' = host
    BY <1>7 DEF DataReceived, UInv, ReplyInv, usbVars
  <2> QED
    BY <1>2, <1>7, <2>1 DEF DataReceived, Fill, bmVars, Active
<1>8. CASE BulkTransferReply
  BY <1>1, <1>8, ReplyLink DEF D!ImgDownloadNext
<1>9. CASE UploadPacket
  BY <1>1, <1>9, UploadLink DEF D!ImgDownloadNext
<1>10. CASE UploadComplete
  BY <1>1, <1>10, UploadCompleteLink
<1>11. CASE GiveUp
  <2>1. phase' = "failed" /\ host' = "error" /\ UNCHANGED imgVars
    BY <1>11 DEF GiveUp, Abort, vars, clientVars
  <2> QED
    BY <1>1, <2>1 DEF Link, Active
<1>12. CASE VerifyCmd
  <2>1. D!VerifyMedia /\ UNCHANGED <<phase, pkt, host>> /\ host # "sending"
    BY <1>12 DEF VerifyCmd, vars, clientVars, usbVars
  <2>2. ~Active'
    BY <2>1 DEF UInv, Link, Active
  <2>3. host = "ok" => Told'
    BY <2>1, VerifyTold DEF UInv, Link
  <2> QED
    BY <2>1, <2>2, <2>3, Zenon DEF Link, UInv, D!ImgDownloadNext
<1>13. CASE UNCHANGED allVars
  <2>1. UNCHANGED <<vars, imgVars, host>>
    BY <1>13 DEF allVars, usbVars
  <2>2. UNCHANGED <<phase, pkt, dumped, leftDataSz, out>>
    BY <2>1 DEF vars, clientVars, bmVars
  <2>3. Active' = Active
    BY <2>2 DEF Active
  <2>4. Active => Serving'
    BY <2>1, <2>2, ServingKept, SMTT(60) DEF UInv, Link
  <2>5. Told => Told'
    BY <2>1, <2>2, Zenon DEF Told, imgVars
  <2> QED
    BY <1>1, <2>1, <2>2, <2>3, <2>4, <2>5 DEF UInv, Link
<1> QED
  BY <1>3, <1>4, <1>5, <1>6, <1>7, <1>8, <1>9, <1>10, <1>11, <1>12, <1>13, SMTT(60) DEF UsbNext

\* The agreement before the first command.
LEMMA UInvInit == UsbInit => UInv
<1> SUFFICES ASSUME UsbInit PROVE UInv
  OBVIOUS
<1>1. Init /\ host = "idle" /\ phase = "idle"
  BY DEF UsbInit, Init
<1> QED
  BY <1>1, InitIInv, ReplyInit DEF UInv, Link, Active

LEMMA UInvStep == UInv /\ [UsbNext]_allVars => UInv' /\ [Next]_vars /\ [D!ImgDownloadNext]_(D!imgVars)
<1> SUFFICES ASSUME UInv, [UsbNext]_allVars
             PROVE  UInv' /\ [Next]_vars /\ [D!ImgDownloadNext]_(D!imgVars)
  OBVIOUS
<1>1. [Next]_vars /\ ReplyInv'
  BY ClientStep, ReplyStep DEF UInv
<1>2. IInv'
  BY <1>1, NextIInv DEF UInv
<1>3. Link' /\ [D!ImgDownloadNext]_(D!imgVars)
  BY <1>2, LinkStep
<1> QED
  BY <1>1, <1>2, <1>3 DEF UInv

\* The protocol keeps the invariants of its parts and their agreement.
THEOREM Agreement == UsbSpec => []UInv
  BY UInvInit, UInvStep, PTL DEF UsbSpec

\* The protocol drives the buffer manager as its clients do.
THEOREM ClientSafe == UsbSpec => ClientPattern
<1>1. UsbInit => Init
  BY DEF UsbInit
<1>2. UInv /\ [UsbNext]_allVars => [Next]_vars
  BY UInvStep
<1> QED
  BY <1>1, <1>2, Agreement, PTL DEF UsbSpec, ClientPattern, Spec

\* The buffer manager hands the image state machine its chunks in order, and
\* nothing after a failed call.
THEOREM ChunksSafe == UsbSpec => ChunksInOrder
<1>1. UsbInit => D!ImgDownloadInit
  BY DEF UsbInit
<1>2. UInv /\ [UsbNext]_allVars => [D!ImgDownloadNext]_(D!imgVars)
  BY UInvStep
<1> QED
  BY <1>1, <1>2, Agreement, PTL DEF UsbSpec, ChunksInOrder, D!ImgDownloadSpec

\* A host that got OK for every packet can rely on the image.
THEOREM ToldOkSafe == UsbSpec => []ToldOkIntact
<1>1. UInv => ToldOkIntact
  BY DEF UInv, Link, Told, ToldOkIntact, D!Placed, Burnt, Complete
<1> QED
  BY <1>1, Agreement, PTL

\* An upload reads on where it stopped, and gets the bytes of the media in order.
THEOREM UploadSafe == UsbSpec => []UploadInOrder
<1>1. UInv => UploadInOrder
  <2> SUFFICES ASSUME UInv, pkt.isUpload
               PROVE  /\ Active => info.nextMediaOffset = dumped
                      /\ host = "ok" => /\ Len(out) = pkt.total
                                        /\ \A i \in DOMAIN out : out[i] = media[i - 1]
    BY DEF UploadInOrder
  <2>1. Active => info.nextMediaOffset = dumped
    BY DEF UInv, Link, Serving
  <2>2. ~OverCounted
    BY DEF OverCounted
  <2>3. ASSUME host = "ok"
        PROVE  Len(out) = pkt.total /\ \A i \in DOMAIN out : out[i] = media[i - 1]
    <3>1. phase = "done" /\ Prefix(media, pkt.total)
      BY <2>3 DEF UInv, Link, Told
    <3>2. Len(out) = pkt.total /\ \A i \in DOMAIN out : out[i] = i - 1
      BY <2>2, <3>1 DEF UInv, IInv, DoneComplete, InOrder
    <3>3. DOMAIN out = 1..Len(out) /\ Len(out) \in Nat
      BY DEF UInv, IInv, TypeOK
    <3>4. ASSUME NEW i \in DOMAIN out PROVE out[i] = media[i - 1]
      <4>1. i - 1 \in 0..(pkt.total - 1)
        BY <3>2, <3>3
      <4> QED
        BY <3>1, <3>2, <4>1 DEF Prefix
    <3> QED
      BY <3>2, <3>4
  <2> QED
    BY <2>1, <2>3
<1> QED
  BY <1>1, Agreement, PTL
==============================================================================
