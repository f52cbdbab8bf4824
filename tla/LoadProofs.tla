----------------------------- MODULE LoadProofs -----------------------------
(***************************************************************************)
(* What is fetched piece by piece arrives whole.  For every file of fewer  *)
(* blocks than there are sequence numbers, and any number of packets that  *)
(* are lost, doubled or overtaken: a transfer that succeeds has loaded the *)
(* whole file (Tftp).  For every package, cluster size and slot size: a    *)
(* burn that succeeds has handed on every byte of its item (ImgItem).      *)
(***************************************************************************)
EXTENDS Tftp, ImgItem, TLAPS, WellFoundedInduction

-----------------------------------------------------------------------------
(* A file from the network.                                                  *)

\* The sequence numbers do not wrap in this file.
ShortFile == Blocks < SequenceSize

\* The packets of a queue.
Queued(q) == {q[i] : i \in DOMAIN q}

Clients == [st : {"rrq", "oack", "data"}, block : 0 .. Blocks, last : 0 .. Blocks,
            wrap : {0}, count : Nat, port : Nat]
ClientMsgs == [t : {"data", "oack", "error"}, src : Nat, n : Nat, i : Nat]
ServerMsgs == [t : {"rrq", "ack"}, port : Nat, n : Nat]

\* Block i is in memory m, in its place.
Stored(m, i) == i - 1 \in DOMAIN m /\ m[i - 1] = i

\* All blocks before the one that the server sends in this transfer are stored.
Good(m, ss, s) == s \in DOMAIN ss /\ \A i \in 1 .. ss[s] - 1 : Stored(m, i)

\* A packet to the client: the blocks before its own are stored.
ClientMsgOK(m, ss, p) ==
    /\ p \in ClientMsgs
    /\ p.t # "error" => Good(m, ss, p.src) /\ p.src # 0
    /\ p.t = "data" => p.n = p.i /\ p.i \in 1 .. Blocks /\ \A j \in 1 .. p.i - 1 : Stored(m, j)

\* A packet to the server acknowledges a block that is stored.
ServerMsgOK(m, ss, p) ==
    /\ p \in ServerMsgs
    /\ p.t = "ack" => Good(m, ss, p.port) /\ (p.n # 0 => Stored(m, p.n))

WholeSize == 2 * (Blocks - 1) + 1

TypeInv ==
    /\ c \in Clients /\ sess \in Seq(0 .. Blocks + 1) /\ size \in 0 .. WholeSize
    /\ toClient \in Seq(ClientMsgs) /\ toServer \in Seq(ServerMsgs)

ServerInv ==
    /\ \A s \in DOMAIN sess : sess[s] <= Blocks => Good(mem, sess, s)
    /\ \A p \in Queued(toClient) : ClientMsgOK(mem, sess, p)
    /\ \A p \in Queued(toServer) : ServerMsgOK(mem, sess, p)

ClientInv ==
    /\ c.block # 0 => Stored(mem, c.block)
    /\ c.last # 0 => Stored(mem, c.last)
    /\ c.st # "rrq" => c.port # 0
    /\ c.port # 0 => Good(mem, sess, c.port)

IInv == TypeInv /\ ServerInv /\ ClientInv /\ LoadedWhole

-----------------------------------------------------------------------------
(* Packets under way, and the memory.                                        *)

\* What is taken out of a queue or doubled was there.
LEMMA QueueElems ==
    ASSUME NEW S, NEW q \in Seq(S)
    PROVE  /\ Queued(q) \subseteq S
           /\ \A k \in DOMAIN q : /\ q[k] \in Queued(q) /\ Without(q, k) \in Seq(S)
                                  /\ Queued(Without(q, k)) \subseteq Queued(q)
           /\ \A e \in S : /\ Append(q, e) \in Seq(S)
                           /\ Queued(Append(q, e)) \subseteq Queued(q) \union {e}
           /\ q # <<>> => /\ Tail(q) \in Seq(S) /\ Queued(Tail(q)) \subseteq Queued(q)
                          /\ <<Head(q)>> \o q \in Seq(S)
                          /\ Queued(<<Head(q)>> \o q) \subseteq Queued(q)
<1>1. Queued(q) \subseteq S
  BY DEF Queued
<1>2. ASSUME NEW k \in DOMAIN q
      PROVE  /\ q[k] \in Queued(q) /\ Without(q, k) \in Seq(S)
             /\ Queued(Without(q, k)) \subseteq Queued(q)
  <2>1. k \in 1 .. Len(q)
    OBVIOUS
  <2>2. SubSeq(q, 1, k - 1) \in Seq(S) /\ SubSeq(q, k + 1, Len(q)) \in Seq(S)
    BY <2>1
  <2>3. Without(q, k) \in Seq(S)
    BY <2>2 DEF Without
  <2>4. \A i \in 1 .. k - 1 : SubSeq(q, 1, k - 1)[i] = q[i]
    BY <2>1
  <2>5. \A i \in 1 .. Len(q) - k : SubSeq(q, k + 1, Len(q))[i] = q[i + k]
    BY <2>1
  <2> DEFINE a == SubSeq(q, 1, k - 1)
             b == SubSeq(q, k + 1, Len(q))
             r == a \o b
  <2>6. Len(a) = k - 1 /\ Len(b) = Len(q) - k /\ a \in Seq(S) /\ b \in Seq(S)
    BY <2>1, <2>2
  <2> HIDE DEF a, b
  <2>7. /\ Len(r) = Len(a) + Len(b)
        /\ \A i \in 1 .. Len(a) : r[i] = a[i]
        /\ \A i \in Len(a) + 1 .. Len(a) + Len(b) : r[i] = b[i - Len(a)]
    <3>1. /\ Len(r) = Len(a) + Len(b)
          /\ \A i \in 1 .. Len(a) : r[i] = a[i]
          /\ \A i \in 1 .. Len(b) : r[Len(a) + i] = b[i]
      <4>1. a \in Seq(S) /\ b \in Seq(S)
        BY <2>6
      <4> QED
        BY <4>1, SMT
    <3> HIDE DEF r
    <3>2. Len(a) \in Nat /\ Len(b) \in Nat
      BY <2>6
    <3>3. ASSUME NEW i \in Len(a) + 1 .. Len(a) + Len(b)
          PROVE  i - Len(a) \in 1 .. Len(b) /\ i = Len(a) + (i - Len(a))
      BY <3>2
    <3> QED
      BY <3>1, <3>3, Zenon
  <2> HIDE DEF r
  <2>8. ASSUME NEW i \in k .. Len(q) - 1 PROVE r[i] = q[i + 1]
    <3> DEFINE j == i - Len(a)
    <3>1. k \in Nat /\ Len(q) \in Nat /\ i \in Int
      BY <2>1
    <3>2. /\ i \in Len(a) + 1 .. Len(a) + Len(b)
          /\ j \in 1 .. Len(q) - k
          /\ j + k = i + 1
      BY <3>1, <2>1, <2>6
    <3>3. r[i] = b[j]
      BY <3>2, <2>7
    <3> HIDE DEF j
    <3>4. b[j] = q[j + k]
      BY <3>2, <2>5 DEF b
    <3> QED
      BY <3>2, <3>3, <3>4
  <2>9. ASSUME NEW i \in 1 .. Len(r) PROVE r[i] \in Queued(q)
    <3>1. i \in 1 .. k - 1 \/ i \in k .. Len(q) - 1
      BY <2>1, <2>6, <2>7
    <3>2. \A n \in 1 .. Len(q) : q[n] \in Queued(q)
      BY DEF Queued
    <3>3. \A n \in 1 .. k - 1 : r[n] = q[n]
      BY <2>4, <2>6, <2>7 DEF a
    <3> QED
      BY <2>1, <2>8, <3>1, <3>2, <3>3
  <2>10. r \in Seq(S) /\ r = Without(q, k)
    BY <2>3 DEF r, a, b, Without
  <2>11. Queued(r) \subseteq Queued(q)
    BY <2>9, <2>10 DEF Queued
  <2>12. q[k] \in Queued(q)
    BY DEF Queued
  <2> QED
    BY <2>3, <2>10, <2>11, <2>12
<1>3. ASSUME NEW e \in S
      PROVE  Append(q, e) \in Seq(S) /\ Queued(Append(q, e)) \subseteq Queued(q) \union {e}
  <2> DEFINE a == Append(q, e)
  <2>1. a \in Seq(S) /\ Len(a) = Len(q) + 1 /\ a[Len(q) + 1] = e
        /\ \A i \in 1 .. Len(q) : a[i] = q[i]
    OBVIOUS
  <2> HIDE DEF a
  <2>2. ASSUME NEW i \in DOMAIN a PROVE a[i] \in Queued(q) \union {e}
    <3>1. i \in 1 .. Len(q) \/ i = Len(q) + 1
      BY <2>1
    <3> QED
      BY <2>1, <3>1 DEF Queued
  <2> QED
    BY <2>1, <2>2 DEF Queued, a
<1>4. ASSUME q # <<>>
      PROVE  /\ Tail(q) \in Seq(S) /\ Queued(Tail(q)) \subseteq Queued(q)
             /\ <<Head(q)>> \o q \in Seq(S) /\ Queued(<<Head(q)>> \o q) \subseteq Queued(q)
  BY <1>4 DEF Queued
<1> QED
  BY <1>1, <1>2, <1>3, <1>4

\* A queue that loses or doubles its first packet.
LEMMA FaultElems ==
    ASSUME NEW S, NEW q \in Seq(S), q # <<>>, NEW r,
           r = Tail(q) \/ r = <<Head(q)>> \o q
    PROVE  r \in Seq(S) /\ Queued(r) \subseteq Queued(q)
<1> DEFINE tl == Tail(q)
           dbl == <<Head(q)>> \o q
<1>1. tl \in Seq(S) /\ Queued(tl) \subseteq Queued(q) /\ dbl \in Seq(S) /\ Queued(dbl) \subseteq Queued(q)
  BY QueueElems
<1>2. r = tl \/ r = dbl
  OBVIOUS
<1> HIDE DEF tl, dbl
<1> QED
  BY <1>1, <1>2

\* A block that is stored stays stored when its own or another is.
LEMMA WithStored ==
    ASSUME NEW m, NEW i \in Nat
    PROVE  /\ Stored(With(m, i - 1, i), i)
           /\ \A j \in Nat : Stored(m, j) => Stored(With(m, i - 1, i), j)
  BY DEF Stored, With

\* The block of a transfer.
LEMMA SessionBlock ==
    ASSUME ShortFile, NEW ss \in Seq(0 .. Blocks + 1), NEW s \in DOMAIN ss
    PROVE  ss[s] \in 0 .. Blocks + 1 /\ ss[s] \in Nat /\ s \in Nat \ {0}
<1> DEFINE S == 0 .. Blocks + 1
<1>1. \A x \in S : x \in Nat
  BY TftpAssumption DEF ShortFile
<1>2. ss \in Seq(S)
  OBVIOUS
<1> HIDE DEF S
<1>3. ss[s] \in S /\ s \in Nat \ {0}
  BY <1>2
<1> QED
  BY <1>1, <1>3 DEF S

\* A packet the server sends.
LEMMA PacketOK ==
    ASSUME ShortFile, NEW m, NEW ss, NEW s \in Nat \ {0}, Good(m, ss, s),
           NEW i \in 0 .. Blocks, \A j \in 1 .. i - 1 : Stored(m, j)
    PROVE  ClientMsgOK(m, ss, Packet(s, i))
<1>1. CASE i = 0
  BY <1>1 DEF Packet, ClientMsgOK, ClientMsgs
<1>2. CASE i # 0
  <2>1. Wire(i) = i /\ i \in 1 .. Blocks
    BY <1>2, TftpAssumption DEF ShortFile, Wire
  <2> QED
    BY <1>2, <2>1 DEF Packet, ClientMsgOK, ClientMsgs
<1> QED
  BY <1>1, <1>2

\* What is stored stays so, and what was sent of it stays right.
Kept ==
    /\ \A j \in Nat : Stored(mem, j) => Stored(mem', j)
    /\ \A s : Good(mem, sess, s) => Good(mem', sess', s)

\* The packets after a step: old ones, or right ones.
LEMMA ServerKept ==
    ASSUME ShortFile, IInv, Kept,
           \A s \in DOMAIN sess' : sess'[s] <= Blocks => Good(mem', sess', s),
           \A p \in Queued(toClient') : p \in Queued(toClient) \/ ClientMsgOK(mem', sess', p),
           \A p \in Queued(toServer') : p \in Queued(toServer) \/ ServerMsgOK(mem', sess', p)
    PROVE  ServerInv'
<1>1. ASSUME NEW p, ClientMsgOK(mem, sess, p) PROVE ClientMsgOK(mem', sess', p)
  <2>1. ASSUME p.t = "data", NEW j \in 1 .. p.i - 1 PROVE Stored(mem', j)
    <3>1. p.i \in Nat /\ Stored(mem, j)
      BY <1>1, <2>1 DEF ClientMsgOK
    <3> QED
      BY <3>1 DEF Kept
  <2> QED
    BY <1>1, <2>1 DEF ClientMsgOK, Kept
<1>2. ASSUME NEW p, ServerMsgOK(mem, sess, p) PROVE ServerMsgOK(mem', sess', p)
  <2>1. p.n \in Nat
    BY <1>2 DEF ServerMsgOK, ServerMsgs
  <2> QED
    BY <1>2, <2>1 DEF ServerMsgOK, Kept
<1> QED
  BY <1>1, <1>2 DEF IInv, ServerInv

\* Nothing is stored and the server's blocks are the same.
LEMMA SameKept ==
    ASSUME mem' = mem, sess' = sess
    PROVE  Kept
  BY DEF Kept

\* The client is the same.
LEMMA ClientKept ==
    ASSUME IInv, Kept, c' = c
    PROVE  ClientInv'
<1>1. c.block \in Nat /\ c.last \in Nat
  BY DEF IInv, TypeInv, Clients
<1> QED
  BY <1>1 DEF IInv, ClientInv, Kept

\* The network, a timer or the loop: the file in memory and the server's blocks
\* are left alone, packets that are not new are still right.
LEMMA AsideInv ==
    ASSUME ShortFile, IInv, UNCHANGED <<c, mem, size, sess>>, net' = "success" => net = "success",
           toClient' \in Seq(ClientMsgs), toServer' \in Seq(ServerMsgs),
           \A p \in Queued(toClient') : p \in Queued(toClient) \/ ClientMsgOK(mem, sess, p),
           \A p \in Queued(toServer') : p \in Queued(toServer) \/ ServerMsgOK(mem, sess, p)
    PROVE  IInv'
<1>1. Kept
  BY SameKept
<1>2. \A s \in DOMAIN sess' : sess'[s] <= Blocks => Good(mem', sess', s)
  BY DEF IInv, ServerInv
<1>3. ServerInv'
  BY <1>1, <1>2, ServerKept
<1>4. ClientInv'
  BY <1>1, ClientKept
<1>5. TypeInv' /\ LoadedWhole'
  BY DEF IInv, TypeInv, LoadedWhole
<1> QED
  BY <1>3, <1>4, <1>5 DEF IInv

\* A packet of the client.
LEMMA SentOK ==
    ASSUME IInv
    PROVE  ServerMsgOK(mem, sess, Sent(c))
<1>1. CASE c.st = "rrq"
  BY <1>1 DEF Sent, Rrq, ServerMsgOK, ServerMsgs, WellKnown
<1>2. CASE c.st # "rrq"
  <2>1. c.port \in Nat /\ c.block \in Nat
    BY DEF IInv, TypeInv, Clients
  <2>2. Good(mem, sess, c.port) /\ (c.block # 0 => Stored(mem, c.block))
    BY <1>2 DEF IInv, ClientInv
  <2> QED
    BY <1>2, <2>1, <2>2 DEF Sent, Ack, ServerMsgOK, ServerMsgs
<1> QED
  BY <1>1, <1>2

-----------------------------------------------------------------------------
(* The steps of the client.                                                  *)

\* TftpStart.
LEMMA FreshClient == ShortFile => Fresh \in Clients /\ Rrq \in ServerMsgs
  BY TftpAssumption DEF ShortFile, Fresh, Clients, Rrq, ServerMsgs, WellKnown

\* The first start.
LEMMA InitInv == ShortFile /\ TftpInit => IInv
<1> SUFFICES ASSUME ShortFile, TftpInit PROVE IInv
  OBVIOUS
<1>1. WholeSize \in Nat
  BY TftpAssumption DEF ShortFile, WholeSize
<1>2. TypeInv
  BY <1>1, FreshClient DEF TftpInit, TypeInv
<1>3. ServerInv
  <2>1. Queued(toClient) = {} /\ Queued(toServer) = {Rrq} /\ DOMAIN sess = {}
    BY DEF TftpInit, Queued
  <2> QED
    BY <2>1, FreshClient DEF ServerInv, ServerMsgOK, Rrq
<1>4. ClientInv /\ LoadedWhole
  BY DEF TftpInit, ClientInv, Fresh, WellKnown, LoadedWhole
<1> QED
  BY <1>2, <1>3, <1>4 DEF IInv

\* A later start, on another port: the earlier transfers and packets are gone.
LEMMA RestartElsewhere ==
    ASSUME ShortFile, IInv, c' = Fresh, net' = "continue", size' = 0, mem' = mem,
           sess' = <<>>, toClient' = <<>>, toServer' = <<Rrq>>
    PROVE  IInv'
<1>2. WholeSize \in Nat
  BY TftpAssumption DEF ShortFile, WholeSize
<1>3. TypeInv'
  BY <1>2, FreshClient DEF TypeInv
<1>4. ServerInv'
  <2>1. Queued(toClient') = {} /\ Queued(toServer') = {Rrq} /\ DOMAIN sess' = {}
    BY DEF Queued
  <2> QED
    BY <2>1, FreshClient DEF ServerInv, ServerMsgOK, Rrq
<1>5. ClientInv' /\ LoadedWhole'
  BY DEF ClientInv, Fresh, WellKnown, LoadedWhole
<1> QED
  BY <1>3, <1>4, <1>5 DEF IInv

\* A later start on the same port: what is under way was right and stays so,
\* since memory keeps the blocks that were stored.
LEMMA RestartHere ==
    ASSUME ShortFile, IInv, c' = Fresh, net' = "continue", size' = 0, mem' = mem,
           sess' = sess, toClient' \in {toClient, <<>>}, toServer' = Append(toServer, Rrq)
    PROVE  IInv'
<1>1. toClient \in Seq(ClientMsgs) /\ toServer \in Seq(ServerMsgs) /\ sess \in Seq(0 .. Blocks + 1)
  BY DEF IInv, TypeInv
<1>2. WholeSize \in Nat
  BY TftpAssumption DEF ShortFile, WholeSize
<1>3. toServer' \in Seq(ServerMsgs) /\ Queued(toServer') \subseteq Queued(toServer) \union {Rrq}
  BY <1>1, FreshClient, QueueElems
<1>4. toClient' \in Seq(ClientMsgs) /\ Queued(toClient') \subseteq Queued(toClient)
  <2>1. CASE toClient' = toClient
    BY <1>1, <2>1, Zenon DEF Queued
  <2>2. CASE toClient' = <<>>
    <3>1. <<>> \in Seq(ClientMsgs) /\ Queued(<<>>) = {}
      BY DEF Queued
    <3> QED
      BY <2>2, <3>1, Zenon
  <2> QED
    BY <2>1, <2>2
<1>5. ServerMsgOK(mem', sess', Rrq)
  BY FreshClient DEF ServerMsgOK, Rrq
<1>6. ServerInv'
  BY <1>3, <1>4, <1>5, SameKept, ServerKept DEF IInv, ServerInv
<1>7. TypeInv'
  BY <1>1, <1>2, <1>3, <1>4, FreshClient DEF IInv, TypeInv
<1>8. ClientInv' /\ LoadedWhole'
  BY DEF ClientInv, Fresh, WellKnown, LoadedWhole
<1> QED
  BY <1>6, <1>7, <1>8 DEF IInv

\* NetLoop from its label restart.
LEMMA RestartInv ==
    ASSUME ShortFile, IInv, Restart
    PROVE  IInv'
  BY RestartElsewhere, RestartHere DEF Restart

\* A request or an acknowledgement is sent again, or the transfer begins again.
LEMMA TimeoutInv ==
    ASSUME ShortFile, IInv, TftpTimeout
    PROVE  IInv'
<1>1. toClient \in Seq(ClientMsgs) /\ toServer \in Seq(ServerMsgs) /\ net = "continue"
      /\ UNCHANGED <<sess, toClient>>
  BY DEF IInv, TypeInv, TftpTimeout
<1>2. CASE NetStartAgain
  <2>1. UNCHANGED <<c, mem, size, toServer>> /\ net' \in {"fail", "wait"}
    BY <1>2 DEF NetStartAgain
  <2> QED
    BY <1>1, <2>1, AsideInv
<1>3. CASE /\ c' = [c EXCEPT !.count = @ + 1]
           /\ toServer' = Append(toServer, Sent(c))
           /\ UNCHANGED <<net, tries, mem, size>>
  <2>1. ServerMsgOK(mem, sess, Sent(c)) /\ Sent(c) \in ServerMsgs
    BY SentOK DEF ServerMsgOK
  <2>2. /\ toServer' \in Seq(ServerMsgs)
        /\ Queued(toServer') \subseteq Queued(toServer) \union {Sent(c)}
    BY <1>1, <1>3, <2>1, QueueElems, Zenon
  <2>3. c' \in Clients /\ c'.block = c.block /\ c'.last = c.last /\ c'.st = c.st
        /\ c'.port = c.port
    <3> DEFINE n == c.count + 1
    <3>1. c \in Clients /\ n \in Nat /\ c' = [c EXCEPT !.count = n]
      BY <1>3 DEF IInv, TypeInv, Clients
    <3> HIDE DEF n
    <3> QED
      BY <3>1 DEF Clients
  <2>4. Kept
    BY <1>1, <1>3, SameKept
  <2>5. ServerInv'
    <3>1. \A s \in DOMAIN sess' : sess'[s] <= Blocks => Good(mem', sess', s)
      BY <1>1, <1>3 DEF IInv, ServerInv
    <3>2. \A p \in Queued(toServer') : p \in Queued(toServer) \/ ServerMsgOK(mem', sess', p)
      BY <1>1, <1>3, <2>1, <2>2
    <3> QED
      BY <1>1, <2>4, <3>1, <3>2, ServerKept
  <2>6. TypeInv' /\ LoadedWhole'
    BY <1>1, <1>3, <2>2, <2>3 DEF IInv, TypeInv, LoadedWhole
  <2>7. ClientInv'
    BY <1>1, <1>3, <2>3 DEF IInv, ClientInv
  <2> QED
    BY <2>5, <2>6, <2>7 DEF IInv
<1> QED
  BY <1>2, <1>3 DEF TftpTimeout

\* A block that is in memory already.
LEMMA AgainInv ==
    ASSUME ShortFile, IInv, NEW p, ClientMsgOK(mem, sess, p), p.t = "data",
           NEW cl \in Clients, cl.block = p.n, cl.last = p.n, cl.port = p.src,
           p.n # 0 => Stored(mem, p.n),
           c' = cl, UNCHANGED <<net, mem, size, toServer, sess>>,
           toClient' \in Seq(ClientMsgs), Queued(toClient') \subseteq Queued(toClient)
    PROVE  IInv'
<1>1. Kept
  BY SameKept
<1>2. ServerInv'
  <2>1. \A s \in DOMAIN sess' : sess'[s] <= Blocks => Good(mem', sess', s)
    BY DEF IInv, ServerInv
  <2> QED
    BY <1>1, <2>1, ServerKept
<1>3. ClientInv'
  BY DEF ClientInv, ClientMsgOK
<1>4. TypeInv' /\ LoadedWhole'
  BY DEF IInv, TypeInv, LoadedWhole
<1> QED
  BY <1>2, <1>3, <1>4 DEF IInv

\* The size after a block.
LEMMA SizeAfter ==
    ASSUME ShortFile, NEW sz \in 0 .. WholeSize, NEW i \in 1 .. Blocks
    PROVE  LET end == 2 * (i - 1) + LenOf(i)
               after == IF sz < end THEN end ELSE sz
           IN after \in 0 .. WholeSize /\ (i = Blocks => after = WholeSize)
  BY TftpAssumption DEF ShortFile, WholeSize, LenOf

\* A block is stored and acknowledged.
LEMMA StoreInv ==
    ASSUME ShortFile, IInv, NEW p, ClientMsgOK(mem, sess, p), p.t = "data",
           NEW cl \in Clients, cl.block = p.n, cl.wrap = 0, cl.st = "data", cl.port = p.src,
           c' = [cl EXCEPT !.last = p.n], StoreBlock(cl, p),
           toServer' = Append(toServer, Sent(cl)), sess' = sess,
           net' = IF LenOf(p.i) < 2 THEN "success" ELSE net, net = "continue",
           toClient' \in Seq(ClientMsgs), Queued(toClient') \subseteq Queued(toClient)
    PROVE  IInv'
<1>1. /\ p.i \in 1 .. Blocks /\ p.n = p.i /\ Good(mem, sess, p.src) /\ p.src # 0
      /\ p.src \in Nat /\ \A j \in 1 .. p.i - 1 : Stored(mem, j)
  BY DEF ClientMsgOK, ClientMsgs
<1>2. Blocks \in Nat /\ p.i \in Nat
  BY <1>1, TftpAssumption DEF ShortFile
<1> DEFINE i == p.i
           end == 2 * (i - 1) + LenOf(i)
<1>3. mem' = With(mem, i - 1, i) /\ size' = IF size < end THEN end ELSE size
  <2>1. cl.block - 1 + cl.wrap = i - 1
    BY <1>1, <1>2
  <2> QED
    BY <2>1 DEF StoreBlock
<1>4. Stored(mem', i) /\ \A j \in Nat : Stored(mem, j) => Stored(mem', j)
  BY <1>2, <1>3, WithStored
<1>5. Kept
  <2>1. ASSUME NEW s, Good(mem, sess, s) PROVE Good(mem', sess', s)
    <3>1. s \in DOMAIN sess /\ sess[s] \in Nat
      BY <1>2, <2>1, SessionBlock DEF Good, IInv, TypeInv
    <3>2. ASSUME NEW j \in 1 .. sess[s] - 1 PROVE Stored(mem', j)
      BY <1>4, <2>1, <3>1 DEF Good
    <3> QED
      BY <3>1, <3>2 DEF Good
  <2> QED
    BY <1>4, <2>1 DEF Kept
<1>6. Good(mem', sess', p.src)
  BY <1>1, <1>5 DEF Kept
<1>7. Sent(cl) \in ServerMsgs /\ ServerMsgOK(mem', sess', Sent(cl))
  BY <1>1, <1>2, <1>4, <1>6, SMTT(60) DEF Sent, Ack, ServerMsgOK, ServerMsgs
<1>8. toServer' \in Seq(ServerMsgs) /\ Queued(toServer') \subseteq Queued(toServer) \union {Sent(cl)}
  BY <1>7, QueueElems, Zenon DEF IInv, TypeInv
<1>9. ServerInv'
  <2>1. \A s \in DOMAIN sess' : sess'[s] <= Blocks => Good(mem', sess', s)
    BY <1>5 DEF IInv, ServerInv, Kept
  <2>2. \A q \in Queued(toServer') : q \in Queued(toServer) \/ ServerMsgOK(mem', sess', q)
    BY <1>7, <1>8
  <2> QED
    BY <1>5, <2>1, <2>2, ServerKept
<1>10. /\ c' \in Clients /\ c'.last = i /\ c'.block = i /\ c'.st = "data" /\ c'.port = p.src
  BY <1>1, <1>2, SMTT(60) DEF Clients
<1>11. ClientInv'
  BY <1>1, <1>4, <1>6, <1>10, SMTT(60) DEF ClientInv
<1>12. size' \in 0 .. WholeSize /\ (i = Blocks => size' = WholeSize)
  BY <1>1, <1>3, SizeAfter DEF IInv, TypeInv
<1>13. TypeInv'
  BY <1>8, <1>10, <1>12 DEF IInv, TypeInv
<1>14. LoadedWhole'
  <2> SUFFICES ASSUME net' = "success"
               PROVE  (\A j \in 1 .. Blocks : Stored(mem', j)) /\ size' = WholeSize
    BY DEF LoadedWhole, Stored, WholeSize
  <2>1. i = Blocks
    BY DEF LenOf
  <2>2. ASSUME NEW j \in 1 .. Blocks PROVE Stored(mem', j)
    <3>1. j = i \/ j \in 1 .. i - 1
      BY <1>2, <2>1
    <3> QED
      BY <1>1, <1>4, <3>1
  <2> QED
    BY <1>12, <2>1, <2>2
<1> QED
  BY <1>9, <1>11, <1>13, <1>14, SMTT(60) DEF IInv

\* TftpHandler with a block: the first must be block 1, others come from the port
\* of the first.
LEMMA DataInv ==
    ASSUME ShortFile, IInv, NEW p, ClientMsgOK(mem, sess, p), p.t = "data", Data(p),
           c.st # "rrq" => p.src = c.port, net = "continue", sess' = sess,
           toClient' \in Seq(ClientMsgs), Queued(toClient') \subseteq Queued(toClient)
    PROVE  IInv'
<1>1. /\ p.i \in 1 .. Blocks /\ p.n = p.i /\ p.src \in Nat /\ c \in Clients
  BY DEF ClientMsgOK, ClientMsgs, IInv, TypeInv
<1>2. CASE NetStartAgain
  <2>1. UNCHANGED <<c, mem, size, toServer>> /\ net' \in {"fail", "wait"}
    BY <1>2 DEF NetStartAgain
  <2>2. toServer \in Seq(ServerMsgs)
    BY DEF IInv, TypeInv
  <2> QED
    BY <2>1, <2>2, AsideInv
<1>3. CASE ~NetStartAgain
  <2> DEFINE seen == [c EXCEPT !.block = p.n]
             cl == IF c.st # "data"
                   THEN [seen EXCEPT !.st = "data", !.port = p.src, !.last = 0, !.wrap = 0]
                   ELSE seen
  <2>1. UpdateBlockNumber(p.n) = seen
    BY <1>1 DEF UpdateBlockNumber
  <2>2. /\ cl \in Clients /\ cl.block = p.n /\ cl.wrap = 0 /\ cl.st = "data"
        /\ cl.port = p.src /\ cl.last \in {0, c.last}
    <3> DEFINE n == p.n
               src == p.src
               first == [seen EXCEPT !.st = "data", !.port = src, !.last = 0, !.wrap = 0]
    <3>1. n \in 1 .. Blocks /\ src \in Nat
      BY <1>1
    <3>2. /\ seen = [c EXCEPT !.block = n]
          /\ first = [seen EXCEPT !.st = "data", !.port = src, !.last = 0, !.wrap = 0]
      OBVIOUS
    <3> HIDE DEF n, src, seen, first
    <3>3. /\ seen \in Clients /\ seen.block = n /\ seen.last = c.last /\ seen.wrap = 0
          /\ seen.st = c.st /\ seen.port = c.port
      <4>1. n \in 0 .. Blocks
        BY <3>1
      <4> QED
        BY <1>1, <3>2, <4>1 DEF Clients
    <3>4. /\ first \in Clients /\ first.block = n /\ first.last = 0 /\ first.wrap = 0
          /\ first.st = "data" /\ first.port = src
      <4>1. 0 \in 0 .. Blocks
        BY TftpAssumption DEF ShortFile
      <4> QED
        BY <3>1, <3>2, <3>3, <4>1, ZenonT(60) DEF Clients
    <3>5. cl = IF c.st # "data" THEN first ELSE seen
      BY DEF src, first
    <3> HIDE DEF cl
    <3>6. CASE c.st # "data"
      BY <3>5, <3>6, <3>4 DEF n, src
    <3>7. CASE c.st = "data"
      <4>1. cl = seen /\ c.port = p.src
        BY <3>5, <3>7
      <4> QED
        BY <3>3, <3>7, <4>1 DEF n
    <3> QED
      BY <3>6, <3>7
  <2>3. \/ /\ p.n = cl.last /\ c' = cl /\ UNCHANGED <<net, tries, mem, size, toServer>>
        \/ /\ c' = [cl EXCEPT !.last = p.n] /\ StoreBlock(cl, p)
           /\ toServer' = Append(toServer, Sent(cl))
           /\ net' = IF LenOf(p.i) < 2 THEN "success" ELSE net
    BY <1>3, <2>1 DEF Data
  <2>4. p.n = cl.last => Stored(mem, p.n)
    BY <1>1, <2>2 DEF IInv, ClientInv
  <2> HIDE DEF cl
  <2>5. CASE p.n = cl.last /\ c' = cl /\ UNCHANGED <<net, tries, mem, size, toServer>>
    BY <2>2, <2>4, <2>5, AgainInv, SMTT(60)
  <2>6. CASE /\ c' = [cl EXCEPT !.last = p.n] /\ StoreBlock(cl, p)
             /\ toServer' = Append(toServer, Sent(cl))
             /\ net' = IF LenOf(p.i) < 2 THEN "success" ELSE net
    BY <2>2, <2>6, StoreInv, SMTT(60)
  <2> QED
    BY <2>3, <2>5, <2>6
<1> QED
  BY <1>2, <1>3

\* TftpHandler with the answer to the options; the block number stays.
LEMMA OackInv ==
    ASSUME ShortFile, IInv, NEW p, ClientMsgOK(mem, sess, p), p.t = "oack", Oack(p),
           sess' = sess,
           toClient' \in Seq(ClientMsgs), Queued(toClient') \subseteq Queued(toClient)
    PROVE  IInv'
<1>1. /\ c' = [c EXCEPT !.st = "oack", !.port = p.src]
      /\ toServer' = Append(toServer, Sent(c')) /\ UNCHANGED <<net, mem, size>>
  BY DEF Oack
<1>2. p.src \in Nat /\ p.src # 0 /\ Good(mem, sess, p.src)
  BY DEF ClientMsgOK, ClientMsgs
<1>3. /\ c' \in Clients /\ c'.block = c.block /\ c'.last = c.last /\ c'.st = "oack"
      /\ c'.port = p.src /\ c.block \in Nat
  <2> DEFINE src == p.src
  <2>1. c \in Clients /\ src \in Nat /\ c' = [c EXCEPT !.st = "oack", !.port = src]
    BY <1>1, <1>2 DEF IInv, TypeInv
  <2>2. c.block \in Nat
    BY <2>1 DEF Clients
  <2> HIDE DEF src
  <2>3. /\ c' \in Clients /\ c'.block = c.block /\ c'.last = c.last /\ c'.st = "oack"
        /\ c'.port = src
    BY <2>1, Zenon DEF Clients
  <2> QED
    BY <2>2, <2>3 DEF src
<1>4. Kept
  BY <1>1, SameKept
<1>5. ServerMsgOK(mem, sess, Sent(c')) /\ Sent(c') \in ServerMsgs
  BY <1>2, <1>3 DEF IInv, ClientInv, Sent, Ack, ServerMsgOK, ServerMsgs
<1>6. toServer' \in Seq(ServerMsgs) /\ Queued(toServer') \subseteq Queued(toServer) \union {Sent(c')}
  BY <1>1, <1>5, QueueElems, Zenon DEF IInv, TypeInv
<1>7. ServerInv'
  <2>1. \A s \in DOMAIN sess' : sess'[s] <= Blocks => Good(mem', sess', s)
    BY <1>1 DEF IInv, ServerInv
  <2>2. \A q \in Queued(toServer') : q \in Queued(toServer) \/ ServerMsgOK(mem', sess', q)
    BY <1>1, <1>5, <1>6
  <2> QED
    BY <1>4, <2>1, <2>2, ServerKept
<1>8. ClientInv'
  BY <1>1, <1>2, <1>3 DEF IInv, ClientInv
<1>9. TypeInv' /\ LoadedWhole'
  BY <1>1, <1>3, <1>6, SMTT(60) DEF IInv, TypeInv, LoadedWhole
<1> QED
  BY <1>7, <1>8, <1>9, SMTT(60) DEF IInv

\* Any packet.
LEMMA HandlerInv ==
    ASSUME ShortFile, IInv, NEW k \in DOMAIN toClient, TftpHandler(k)
    PROVE  IInv'
<1> DEFINE p == toClient[k]
<1>1. toClient \in Seq(ClientMsgs) /\ toServer \in Seq(ServerMsgs)
  BY DEF IInv, TypeInv
<1>2. p \in Queued(toClient) /\ ClientMsgOK(mem, sess, p)
  BY <1>1, QueueElems, Zenon DEF IInv, ServerInv
<1>3. toClient' = Without(toClient, k) /\ sess' = sess /\ net = "continue"
  BY DEF TftpHandler
<1>4. toClient' \in Seq(ClientMsgs) /\ Queued(toClient') \subseteq Queued(toClient)
  BY <1>1, <1>3, QueueElems, ZenonT(60)
<1>5. CASE UNCHANGED <<c, net, tries, mem, size, toServer>>
  BY <1>1, <1>3, <1>4, <1>5, AsideInv
<1>6. CASE Error(p)
  <2>1. UNCHANGED <<c, mem, size, toServer>> /\ net' \in {"fail", "wait"}
    BY <1>6 DEF Error, NetStartAgain
  <2> QED
    BY <1>1, <1>3, <1>4, <2>1, AsideInv, SMTT(60)
<1>7. CASE p.t = "data" /\ Data(p) /\ (c.st # "rrq" => p.src = c.port)
  <2> HIDE DEF p
  <2> QED
    BY <1>2, <1>3, <1>4, <1>7, DataInv, SMTT(60)
<1>8. CASE p.t = "oack" /\ Oack(p)
  <2> HIDE DEF p
  <2> QED
    BY <1>2, <1>3, <1>4, <1>8, OackInv, SMTT(60)
<1> QED
  BY <1>5, <1>6, <1>7, <1>8, SMTT(60) DEF TftpHandler

-----------------------------------------------------------------------------
(* The steps of the server and the network.                                  *)

\* The server's side after a step that leaves the client alone.
LEMMA ServerSideInv ==
    ASSUME ShortFile, IInv, UNCHANGED <<c, net, mem, size>>,
           sess' \in Seq(0 .. Blocks + 1),
           \A s : Good(mem, sess, s) => Good(mem, sess', s),
           \A s \in DOMAIN sess' : sess'[s] <= Blocks => Good(mem, sess', s),
           toClient' \in Seq(ClientMsgs), toServer' \in Seq(ServerMsgs),
           \A p \in Queued(toClient') : p \in Queued(toClient) \/ ClientMsgOK(mem, sess', p),
           Queued(toServer') \subseteq Queued(toServer)
    PROVE  IInv'
<1>1. Kept
  BY DEF Kept
<1>2. ServerInv'
  BY <1>1, ServerKept
<1>3. ClientInv'
  BY <1>1, ClientKept
<1>4. TypeInv' /\ LoadedWhole'
  BY DEF IInv, TypeInv, LoadedWhole
<1> QED
  BY <1>2, <1>3, <1>4 DEF IInv

\* A new transfer that begins with block b.
LEMMA NewTransfer ==
    ASSUME ShortFile, IInv, NEW b \in 0 .. Blocks + 1
    PROVE  LET ss == Append(sess, b)
           IN /\ ss \in Seq(0 .. Blocks + 1) /\ Len(sess) + 1 \in Nat \ {0}
              /\ \A s : Good(mem, sess, s) => Good(mem, ss, s)
              /\ b <= 1 => Good(mem, ss, Len(sess) + 1)
              /\ b <= 1 \/ b > Blocks =>
                   \A s \in DOMAIN ss : ss[s] <= Blocks => Good(mem, ss, s)
<1> DEFINE ss == Append(sess, b)
           S == 0 .. Blocks + 1
<1>1. sess \in Seq(S)
  BY DEF IInv, TypeInv
<1>2. b \in S /\ b \in Nat /\ Blocks \in Nat
  BY TftpAssumption DEF ShortFile
<1> HIDE DEF S
<1>3. /\ ss \in Seq(S) /\ Len(ss) = Len(sess) + 1 /\ ss[Len(sess) + 1] = b
      /\ \A s \in 1 .. Len(sess) : ss[s] = sess[s]
      /\ DOMAIN sess = 1 .. Len(sess) /\ DOMAIN ss = 1 .. Len(ss) /\ Len(sess) \in Nat
  BY <1>1, <1>2
<1> HIDE DEF ss
<1>4. ASSUME NEW s, Good(mem, sess, s) PROVE Good(mem, ss, s)
  BY <1>3, <1>4 DEF Good
<1>5. b <= 1 => Good(mem, ss, Len(sess) + 1)
  BY <1>2, <1>3 DEF Good
<1>6. ASSUME b <= 1 \/ b > Blocks, NEW s \in DOMAIN ss, ss[s] <= Blocks
      PROVE  Good(mem, ss, s)
  <2>1. CASE s \in DOMAIN sess
    BY <1>3, <1>4, <1>6, <2>1, SMTT(60) DEF IInv, ServerInv
  <2>2. CASE s \notin DOMAIN sess
    <3>1. s = Len(sess) + 1
      BY <1>3, <2>2
    <3> QED
      BY <1>2, <1>3, <1>5, <1>6, <3>1, SMTT(60)
  <2> QED
    BY <2>1, <2>2
<1> QED
  BY <1>3, <1>4, <1>5, <1>6, SMTT(60) DEF ss, S

\* A request, or an acknowledgement of the block the server sends: the next one.
LEMMA ServerReceiveInv ==
    ASSUME ShortFile, IInv, NEW k \in DOMAIN toServer, ServerReceive(k)
    PROVE  IInv'
<1> DEFINE p == toServer[k]
           first == IF Options THEN 0 ELSE 1
           port == p.port
<1>1. /\ toClient \in Seq(ClientMsgs) /\ toServer \in Seq(ServerMsgs)
      /\ sess \in Seq(0 .. Blocks + 1) /\ Blocks \in Nat \ {0}
  BY TftpAssumption DEF IInv, TypeInv, ShortFile
<1>2. p \in Queued(toServer) /\ ServerMsgOK(mem, sess, p)
  BY <1>1, QueueElems, Zenon DEF IInv, ServerInv
<1>3. toServer' = Without(toServer, k) /\ UNCHANGED <<c, net, tries, mem, size, faults>>
  BY DEF ServerReceive
<1>4. toServer' \in Seq(ServerMsgs) /\ Queued(toServer') \subseteq Queued(toServer)
  BY <1>1, <1>3, QueueElems, Zenon
<1>5. CASE /\ sess' = Append(sess, first)
           /\ toClient' = Append(toClient, Packet(Len(sess) + 1, first))
  <2>1. first \in 0 .. Blocks + 1 /\ first <= 1 /\ first \in 0 .. Blocks
    BY <1>1
  <2> HIDE DEF first
  <2>2. /\ sess' \in Seq(0 .. Blocks + 1) /\ Len(sess) + 1 \in Nat \ {0}
        /\ \A s : Good(mem, sess, s) => Good(mem, sess', s)
        /\ Good(mem, sess', Len(sess) + 1)
        /\ \A s \in DOMAIN sess' : sess'[s] <= Blocks => Good(mem, sess', s)
    BY <1>5, <2>1, NewTransfer
  <2>3. \A j \in 1 .. first - 1 : Stored(mem, j)
    BY <2>1
  <2>4. ClientMsgOK(mem, sess', Packet(Len(sess) + 1, first))
    BY <2>1, <2>2, <2>3, PacketOK, SMTT(60)
  <2> DEFINE new == Packet(Len(sess) + 1, first)
  <2>5. new \in ClientMsgs
    BY <2>4 DEF ClientMsgOK
  <2>6. toClient' = Append(toClient, new)
    BY <1>5
  <2> HIDE DEF new
  <2>7. /\ toClient' \in Seq(ClientMsgs)
        /\ Queued(toClient') \subseteq Queued(toClient) \union {new}
    BY <1>1, <2>5, <2>6, QueueElems, ZenonT(60)
  <2> QED
    BY <1>3, <1>4, <2>2, <2>4, <2>7, ServerSideInv DEF new
<1>6. CASE /\ p.t # "rrq" /\ sess[port] <= Blocks /\ p.n = Wire(sess[port])
           /\ sess' = [sess EXCEPT ![port] = @ + 1]
           /\ toClient' = IF sess[port] = Blocks THEN toClient
                          ELSE Append(toClient, Packet(port, sess[port] + 1))
  <2> DEFINE b == sess[port]
  <2>1. Good(mem, sess, port) /\ (p.n # 0 => Stored(mem, p.n))
    BY <1>2, <1>6 DEF ServerMsgOK, ServerMsgs
  <2>2. port \in DOMAIN sess /\ b \in 0 .. Blocks /\ port \in Nat \ {0}
    <3>1. port \in DOMAIN sess
      BY <2>1 DEF Good
    <3> QED
      BY <1>1, <1>6, <3>1, SessionBlock
  <2>3. p.n = b
    <3>1. p.n = Wire(b)
      BY <1>6
    <3> HIDE DEF b, p
    <3>2. Wire(b) = b
      BY <2>2, TftpAssumption DEF Wire, ShortFile
    <3> QED
      BY <3>1, <3>2
  <2>4. \A j \in 1 .. b : Stored(mem, j)
    <3>1. \A j \in 1 .. b : j \in 1 .. b - 1 \/ (j = b /\ b # 0)
      BY <2>2
    <3> QED
      BY <2>1, <2>3, <3>1, SMTT(60) DEF Good
  <2>5. /\ sess' \in Seq(0 .. Blocks + 1) /\ DOMAIN sess' = DOMAIN sess
        /\ sess'[port] = b + 1 /\ \A s \in DOMAIN sess : s # port => sess'[s] = sess[s]
    <3> DEFINE S == 0 .. Blocks + 1
               n == b + 1
    <3>1. n \in S /\ sess \in Seq(S) /\ sess' = [sess EXCEPT ![port] = n]
      BY <1>1, <1>6, <2>2, SMTT(60)
    <3> HIDE DEF S, n, port
    <3>2. /\ sess' \in Seq(S) /\ DOMAIN sess' = DOMAIN sess
          /\ sess'[port] = n /\ \A s \in DOMAIN sess : s # port => sess'[s] = sess[s]
      BY <2>2, <3>1
    <3> QED
      BY <3>2 DEF S, n
  <2> HIDE DEF b
  <2>6. Good(mem, sess', port)
    <3>1. (b + 1) - 1 = b
      BY <2>2
    <3> QED
      BY <2>2, <2>4, <2>5, <3>1, SMTT(60) DEF Good
  <2>7. \A s : Good(mem, sess, s) => Good(mem, sess', s)
    BY <2>5, <2>6, SMTT(60) DEF Good
  <2>8. \A s \in DOMAIN sess' : sess'[s] <= Blocks => Good(mem, sess', s)
    BY <2>5, <2>6, <2>7, SMTT(60) DEF IInv, ServerInv
  <2>9. CASE b = Blocks
    <3>1. toClient' = toClient
      BY <1>6, <2>9, SMTT(60) DEF b
    <3> QED
      BY <1>1, <1>3, <1>4, <2>5, <2>7, <2>8, <3>1, ServerSideInv, SMTT(60)
  <2>10. CASE b # Blocks
    <3> DEFINE new == Packet(port, b + 1)
    <3>1. toClient' = Append(toClient, new)
      BY <1>6, <2>10 DEF b
    <3>2. b + 1 \in 0 .. Blocks /\ (b + 1) - 1 = b
      BY <1>1, <2>2, <2>10, SMTT(60)
    <3>3. ClientMsgOK(mem, sess', new)
      BY <2>2, <2>4, <2>6, <3>2, PacketOK, SMTT(60)
    <3>4. new \in ClientMsgs
      BY <3>3 DEF ClientMsgOK
    <3> HIDE DEF new
    <3>5. /\ toClient' \in Seq(ClientMsgs)
          /\ Queued(toClient') \subseteq Queued(toClient) \union {new}
      BY <1>1, <3>1, <3>4, QueueElems, ZenonT(60)
    <3> QED
      BY <1>3, <1>4, <2>5, <2>7, <2>8, <3>3, <3>5, ServerSideInv, SMTT(60)
  <2> QED
    BY <2>9, <2>10
<1>7. CASE UNCHANGED <<sess, toClient>>
  BY <1>1, <1>3, <1>4, <1>7, AsideInv
<1> QED
  BY <1>5, <1>6, <1>7 DEF ServerReceive

\* A request is refused.
LEMMA RefuseInv ==
    ASSUME ShortFile, IInv, NEW n \in 1 .. 2, Refuse(n)
    PROVE  IInv'
<1> DEFINE new == ErrorPacket(Len(sess) + 1, n)
           b == Blocks + 1
<1>1. /\ toServer # <<>> /\ toServer' = Tail(toServer) /\ sess' = Append(sess, b)
      /\ toClient' = Append(toClient, new) /\ UNCHANGED <<c, net, mem, size>>
  BY DEF Refuse
<1>2. toClient \in Seq(ClientMsgs) /\ toServer \in Seq(ServerMsgs)
  BY DEF IInv, TypeInv
<1>3. b \in 0 .. Blocks + 1 /\ b > Blocks
  BY TftpAssumption DEF ShortFile
<1> HIDE DEF b
<1>4. /\ sess' \in Seq(0 .. Blocks + 1) /\ Len(sess) + 1 \in Nat \ {0}
      /\ \A s : Good(mem, sess, s) => Good(mem, sess', s)
      /\ \A s \in DOMAIN sess' : sess'[s] <= Blocks => Good(mem, sess', s)
  BY <1>1, <1>3, NewTransfer, SMTT(60)
<1>5. new \in ClientMsgs /\ ClientMsgOK(mem, sess', new)
  BY <1>4 DEF ErrorPacket, ClientMsgOK, ClientMsgs
<1> HIDE DEF new
<1>6. toClient' \in Seq(ClientMsgs) /\ Queued(toClient') \subseteq Queued(toClient) \union {new}
  BY <1>1, <1>2, <1>5, QueueElems, Zenon
<1>7. toServer' \in Seq(ServerMsgs) /\ Queued(toServer') \subseteq Queued(toServer)
  BY <1>1, <1>2, QueueElems, ZenonT(60)
<1> QED
  BY <1>1, <1>4, <1>5, <1>6, <1>7, ServerSideInv

\* The server repeats its block.
LEMMA ResendInv ==
    ASSUME ShortFile, IInv, NEW s \in DOMAIN sess, Resend(s)
    PROVE  IInv'
<1> DEFINE new == Packet(s, sess[s])
<1>1. /\ sess[s] <= Blocks /\ toClient' = Append(toClient, new)
      /\ UNCHANGED <<c, net, tries, mem, size, sess, toServer>>
  BY DEF Resend
<1>2. /\ toClient \in Seq(ClientMsgs) /\ toServer \in Seq(ServerMsgs)
      /\ sess \in Seq(0 .. Blocks + 1)
  BY DEF IInv, TypeInv
<1>3. sess[s] \in 0 .. Blocks /\ s \in Nat \ {0}
  BY <1>1, <1>2, SessionBlock, TftpAssumption DEF ShortFile
<1>4. Good(mem, sess, s)
  BY <1>1 DEF IInv, ServerInv
<1>5. ClientMsgOK(mem, sess, new)
  <2>1. \A j \in 1 .. sess[s] - 1 : Stored(mem, j)
    BY <1>4 DEF Good
  <2> QED
    BY <1>3, <1>4, <2>1, PacketOK, SMTT(60)
<1>6. new \in ClientMsgs
  BY <1>5 DEF ClientMsgOK
<1> HIDE DEF new
<1>7. toClient' \in Seq(ClientMsgs) /\ Queued(toClient') \subseteq Queued(toClient) \union {new}
  BY <1>1, <1>2, <1>6, QueueElems, Zenon
<1> QED
  BY <1>1, <1>2, <1>5, <1>7, AsideInv

\* Packets are lost or doubled.
LEMMA NetworkInv ==
    ASSUME ShortFile, IInv, Lose \/ Double
    PROVE  IInv'
<1>1. UNCHANGED <<c, net, tries, mem, size, sess>>
  BY DEF Lose, Double
<1>2. toClient \in Seq(ClientMsgs) /\ toServer \in Seq(ServerMsgs)
  BY DEF IInv, TypeInv
<1>3. CASE UNCHANGED toClient
  <2>1. \/ /\ toServer # <<>>
           /\ toServer' = Tail(toServer) \/ toServer' = <<Head(toServer)>> \o toServer
        \/ toServer' = toServer
    BY <1>3 DEF Lose, Double
  <2>2. toServer' \in Seq(ServerMsgs) /\ Queued(toServer') \subseteq Queued(toServer)
    BY <1>2, <2>1, FaultElems
  <2> QED
    BY <1>1, <1>2, <1>3, <2>2, AsideInv
<1>4. CASE /\ UNCHANGED toServer
           /\ toClient # <<>> /\ (toClient' = Tail(toClient) \/ toClient' = <<Head(toClient)>> \o toClient)
  <2>1. toClient' \in Seq(ClientMsgs) /\ Queued(toClient') \subseteq Queued(toClient)
    BY <1>2, <1>4, FaultElems
  <2> QED
    BY <1>1, <1>2, <1>4, <2>1, AsideInv, SMTT(60)
<1> QED
  BY <1>3, <1>4, ZenonT(60) DEF Lose, Double

\* Every step keeps the invariant.
LEMMA StepInv ==
    ASSUME ShortFile
    PROVE  IInv /\ [TftpNext]_netVars => IInv'
<1> SUFFICES ASSUME IInv, [TftpNext]_netVars PROVE IInv'
  OBVIOUS
<1>1. toClient \in Seq(ClientMsgs) /\ toServer \in Seq(ServerMsgs)
  BY DEF IInv, TypeInv
<1>2. CASE UNCHANGED netVars
  BY <1>1, <1>2, AsideInv DEF netVars
<1>3. CASE Abort
  BY <1>1, <1>3, AsideInv DEF Abort
<1>4. CASE Timeout \/ EarlyTimeout
  BY <1>4, TimeoutInv DEF Timeout, EarlyTimeout
<1>5. CASE \E s \in DOMAIN sess : ServerTimeout(s) \/ ServerEarly(s)
  BY <1>5, ResendInv DEF ServerTimeout, ServerEarly
<1> QED
  BY <1>2, <1>3, <1>4, <1>5, HandlerInv, RestartInv, ServerReceiveInv, RefuseInv,
     NetworkInv, SMTT(60) DEF TftpNext

-----------------------------------------------------------------------------
(* The results.                                                              *)

\* The inductive invariant holds in every behaviour.
LEMMA Invariance ==
    ASSUME ShortFile
    PROVE  TftpSpec => []IInv
<1>1. TftpInit => IInv
  BY InitInv
<1>2. IInv /\ [TftpNext]_netVars => IInv'
  BY StepInv
<1> QED
  BY <1>1, <1>2, PTL DEF TftpSpec

\* TftpHandler reports success only with the whole file in memory and its size
\* right, for every file whose blocks all have a number of their own, however
\* many packets are lost, doubled and overtaken, and after any number of starts.
THEOREM LoadedSafe == ShortFile => (TftpSpec => []LoadedWhole)
<1> SUFFICES ASSUME ShortFile PROVE TftpSpec => []LoadedWhole
  OBVIOUS
<1>1. IInv => LoadedWhole
  BY SMTT(60) DEF IInv
<1> QED
  BY <1>1, Invariance, PTL

\* A block the server was told has arrived is in memory, with all before it, for
\* the same files and under the same faults.
THEOREM AcknowledgedSafe == ShortFile => (TftpSpec => []AcknowledgedStored)
<1> SUFFICES ASSUME ShortFile PROVE TftpSpec => []AcknowledgedStored
  OBVIOUS
<1>1. IInv => AcknowledgedStored
  BY DEF IInv, ClientInv, Good, Stored, AcknowledgedStored, WellKnown
<1> QED
  BY <1>1, Invariance, PTL

-----------------------------------------------------------------------------
(* Multiples, quotients and remainders.                                      *)

\* One multiple more.
LEMMA MulNext ==
    ASSUME NEW a \in Int, NEW b \in Int, NEW w \in Nat, a < b
    PROVE  a * w + w <= b * w
<1>1. (b - a - 1) * w >= 0
  BY SMT
<1>2. (b - a - 1) * w = b * w - a * w - w
  BY SMT
<1> QED
  BY <1>1, <1>2

\* Multiples are ordered as their factors.
LEMMA MulMonotone ==
    ASSUME NEW a \in Nat, NEW b \in Nat, NEW w \in Nat, a <= b
    PROVE  a * w \in Nat /\ b * w \in Nat /\ a * w <= b * w
<1>1. a * w \in Nat /\ b * w \in Nat
  BY SMT
<1>2. CASE a = b
  BY <1>1, <1>2
<1>3. CASE a < b
  BY <1>1, <1>3, MulNext
<1> QED
  BY <1>1, <1>2, <1>3

\* Quotient and remainder are determined by the decomposition.
LEMMA DivModIs ==
    ASSUME NEW q \in Nat, NEW w \in Nat \ {0}, NEW r \in 0 .. w - 1
    PROVE  /\ (q * w + r) % w = r
           /\ (q * w + r) \div w = q
<1> DEFINE x == q * w + r
           d == x \div w
           m == x % w
<1>1. x \in Int /\ q * w \in Int
  BY SMT
<1>2. d \in Int /\ m \in 0 .. w - 1 /\ x = d * w + m
  BY <1>1, SMT
<1>3. d * w \in Int
  BY <1>2, SMT
<1>4. x = q * w + r
  OBVIOUS
<1> HIDE DEF x, d, m
<1>5. CASE q > d
  <2>1. d * w + w <= q * w
    BY <1>2, <1>5, MulNext
  <2> QED
    BY <1>1, <1>2, <1>3, <1>4, <2>1
<1>6. CASE d > q
  <2>1. q * w + w <= d * w
    BY <1>2, <1>6, MulNext
  <2> QED
    BY <1>1, <1>2, <1>3, <1>4, <2>1
<1>7. CASE q = d
  <2>1. m = r
    BY <1>1, <1>2, <1>3, <1>4, <1>7
  <2> QED
    BY <1>7, <2>1 DEF x, d, m
<1> QED
  BY <1>2, <1>5, <1>6, <1>7

\* Every number is a multiple and a remainder.
LEMMA DivMod ==
    ASSUME NEW x \in Nat, NEW w \in Nat \ {0}
    PROVE  /\ x \div w \in Nat /\ x % w \in 0 .. w - 1
           /\ (x \div w) * w \in Nat
           /\ x = (x \div w) * w + (x % w)
<1> DEFINE d == x \div w
           m == x % w
<1>1. d \in Int /\ m \in 0 .. w - 1 /\ x = d * w + m
  BY SMT
<1>2. d * w \in Int
  BY <1>1, SMT
<1> HIDE DEF d, m
<1>3. ~(d < 0)
  <2> SUFFICES ASSUME d < 0 PROVE FALSE
    OBVIOUS
  <2>1. d * w + w <= 0 * w
    BY <1>1, MulNext
  <2> QED
    BY <1>1, <1>2, <2>1
<1>4. d \in Nat
  BY <1>1, <1>3
<1>5. d * w \in Nat
  BY <1>4, MulMonotone
<1> QED
  BY <1>1, <1>4, <1>5 DEF d, m

\* A multiple leaves no remainder.
LEMMA MulMod ==
    ASSUME NEW q \in Nat, NEW w \in Nat \ {0}
    PROVE  (q * w) % w = 0 /\ (q * w) \div w = q /\ q * w \in Nat
<1>1. (q * w + 0) % w = 0 /\ (q * w + 0) \div w = q
  BY DivModIs
<1>2. q * w \in Nat
  BY MulMonotone
<1> QED
  BY <1>1, <1>2

\* What leaves no remainder is a multiple.
LEMMA ModMul ==
    ASSUME NEW x \in Nat, NEW w \in Nat \ {0}, x % w = 0
    PROVE  x \div w \in Nat /\ x = (x \div w) * w
<1> DEFINE p == (x \div w) * w
<1>1. x \div w \in Nat /\ p \in Nat /\ x = p + 0
  BY DivMod
<1> HIDE DEF p
<1>2. x = p
  BY <1>1
<1> QED
  BY <1>1, <1>2 DEF p

\* Sums and differences of multiples are multiples.
LEMMA ModSum ==
    ASSUME NEW x \in Nat, NEW y \in Nat, NEW w \in Nat \ {0}, x % w = 0, y % w = 0
    PROVE  (x + y) % w = 0 /\ (x <= y => (y - x) % w = 0)
<1>1. PICK a \in Nat : x = a * w
  BY ModMul
<1>2. PICK b \in Nat : y = b * w
  BY ModMul
<1>3. x + y = (a + b) * w
  BY <1>1, <1>2, SMT
<1>4. (x + y) % w = 0
  <2>1. ((a + b) * w) % w = 0
    BY MulMod
  <2> QED
    BY <1>3, <2>1
<1>5. ASSUME x <= y PROVE (y - x) % w = 0
  <2>1. ~(b < a)
    <3> SUFFICES ASSUME b < a PROVE FALSE
      OBVIOUS
    <3>1. y + w <= x
      BY <1>1, <1>2, MulNext
    <3> QED
      BY <1>5, <3>1
  <2>2. y - x = (b - a) * w /\ b - a \in Nat
    BY <1>1, <1>2, <2>1, SMT
  <2> QED
    BY <2>2, MulMod
<1> QED
  BY <1>4, <1>5

\* A multiple of a multiple is a multiple.
LEMMA ModTrans ==
    ASSUME NEW x \in Nat, NEW v \in Nat \ {0}, NEW w \in Nat \ {0}, x % v = 0, v % w = 0
    PROVE  x % w = 0
<1>1. PICK a \in Nat : x = a * v
  BY ModMul
<1>2. PICK b \in Nat : v = b * w
  BY ModMul
<1>3. x = (a * b) * w /\ a * b \in Nat
  BY <1>1, <1>2, SMT
<1> QED
  BY <1>3, MulMod

-----------------------------------------------------------------------------
(* Runs of bytes.                                                            *)

\* Two sequences after each other.
LEMMA JoinIs ==
    ASSUME NEW S, NEW s \in Seq(S), NEW t \in Seq(S)
    PROVE  /\ s \o t \in Seq(S) /\ Len(s \o t) = Len(s) + Len(t)
           /\ \A i \in 1 .. Len(s) : (s \o t)[i] = s[i]
           /\ \A i \in 1 .. Len(t) : (s \o t)[Len(s) + i] = t[i]
  OBVIOUS

\* Sequences of the same length and elements are the same.
LEMMA SameSeq ==
    ASSUME NEW S, NEW s \in Seq(S), NEW T, NEW t \in Seq(T), Len(s) = Len(t),
           \A i \in 1 .. Len(s) : s[i] = t[i]
    PROVE  s = t
  OBVIOUS

\* A run of bytes is a sequence of that length.
LEMMA BytesAre ==
    ASSUME NEW from \in Nat, NEW n \in Nat
    PROVE  /\ Bytes(from, n) \in Seq(Nat) /\ Len(Bytes(from, n)) = n
           /\ \A i \in 1 .. n : Bytes(from, n)[i] = from + i - 1
<1>1. \A i \in 1 .. n : from + i - 1 \in Nat
  OBVIOUS
<1> QED
  BY <1>1 DEF Bytes

\* Two runs that follow each other are one.
LEMMA BytesJoin ==
    ASSUME NEW from \in Nat, NEW n \in Nat, NEW m \in Nat
    PROVE  Bytes(from, n) \o Bytes(from + n, m) = Bytes(from, n + m)
<1> DEFINE s == Bytes(from, n)
           t == Bytes(from + n, m)
           u == Bytes(from, n + m)
           v == s \o t
<1>1. from + n \in Nat /\ n + m \in Nat
  OBVIOUS
<1>2. s \in Seq(Nat) /\ Len(s) = n /\ \A i \in 1 .. n : s[i] = from + i - 1
  BY BytesAre
<1>3. t \in Seq(Nat) /\ Len(t) = m /\ \A i \in 1 .. m : t[i] = from + n + i - 1
  BY <1>1, BytesAre
<1>4. u \in Seq(Nat) /\ Len(u) = n + m /\ \A i \in 1 .. n + m : u[i] = from + i - 1
  BY <1>1, BytesAre
<1> HIDE DEF s, t, u
<1>5. v \in Seq(Nat) /\ Len(v) = n + m
  BY <1>2, <1>3, JoinIs, ZenonT(60)
<1>6. (\A i \in 1 .. n : v[i] = s[i]) /\ (\A i \in 1 .. m : v[n + i] = t[i])
  BY <1>2, <1>3, JoinIs
<1> HIDE DEF v
<1>7. ASSUME NEW i \in 1 .. n + m PROVE v[i] = u[i]
  <2>1. CASE i <= n
    BY <1>2, <1>4, <1>6, <2>1
  <2>2. CASE i > n
    <3> DEFINE j == i - n
    <3>1. j \in 1 .. m /\ n + j = i
      BY <2>2
    <3>2. v[n + j] = from + n + j - 1
      BY <1>3, <1>6, <3>1, ZenonT(60)
    <3> QED
      BY <1>4, <3>1, <3>2
  <2> QED
    BY <2>1, <2>2
<1>8. v = u
  BY <1>4, <1>5, <1>7, SameSeq
<1> QED
  BY <1>8 DEF s, t, u, v

\* image_item_read hands out the item's bytes from either source.
LEMMA ReadBytesAre ==
    ASSUME NEW from \in Nat, NEW n \in Nat
    PROVE  ReadBytes(from, n) = Bytes(from, n)
<1> DEFINE not == from % ALIGN
           head == Lesser(ALIGN - not, n)
<1>1. not \in 0 .. ALIGN - 1 /\ ALIGN \in Nat
  BY DivMod, ItemAssumption, ZenonT(60)
<1>2. CASE not = 0
  BY <1>2 DEF ReadBytes, StoreBytes
<1>3. CASE not # 0
  <2>1. StoreBytes(from, n) = Bytes((from - not) + not, head) \o Bytes(from + (ALIGN - not), n - head)
    BY <1>3 DEF StoreBytes
  <2>2. (from - not) + not = from
    BY <1>1
  <2>3. CASE n <= ALIGN - not
    <3>1. head = n /\ n - head = 0
      BY <1>1, <2>3 DEF Lesser
    <3>2. Bytes(from + (ALIGN - not), 0) = <<>>
      BY DEF Bytes
    <3>3. Bytes(from, n) \in Seq(Nat)
      BY BytesAre
    <3>4. StoreBytes(from, n) = Bytes(from, n) \o <<>>
      BY <2>1, <2>2, <3>1, <3>2, Zenon
    <3>5. StoreBytes(from, n) = Bytes(from, n)
      BY <3>3, <3>4
    <3> QED
      BY <3>5 DEF ReadBytes
  <2>4. CASE n > ALIGN - not
    <3>1. head = ALIGN - not /\ head \in Nat /\ n - head \in Nat /\ head + (n - head) = n
      BY <1>1, <2>4 DEF Lesser
    <3>2. Bytes(from, head) \o Bytes(from + head, n - head) = Bytes(from, head + (n - head))
      BY <3>1, BytesJoin, ZenonT(60)
    <3>3. StoreBytes(from, n) = Bytes(from, n)
      BY <2>1, <2>2, <3>1, <3>2, Zenon
    <3> QED
      BY <3>3 DEF ReadBytes
  <2> QED
    BY <1>1, <2>3, <2>4
<1> QED
  BY <1>2, <1>3

-----------------------------------------------------------------------------
(* An item of the package.                                                   *)

\* Before the first turn nothing is handed on; then the position is behind what
\* was handed on, and stays at the start of a cluster until the item ends.
InLoop(s, po, l, q, f) ==
    IF q = 0
    THEN f = <<>> /\ po = Item(s).off /\ l = Item(s).size - FirstClusterSize(Item(s).off)
    ELSE /\ po = Item(s).off + Len(f) /\ l = Item(s).size - Len(f) /\ l >= 0
         /\ l > 0 => po % ALIGN = 0

\* The burn has ended: all was handed on, unless the item ends in its first cluster.
AllFed(s, f) == Len(f) = Item(s).size \/ Item(s).size <= FirstClusterSize(Item(s).off)

\* The inductive invariant: between its steps a burn is at the item it opened.
ItemInv ==
    /\ ImgItemTypeOK
    /\ pc # "idle" => part[1] = "PARTITION" /\ Subject # 0 /\ theItem = Subject /\ ret = "none"
    /\ pc = "loop" => InLoop(Subject, pos, leftItemSz, seq, fed)
    /\ pc = "verify" => AllFed(Subject, fed)
    /\ BurntWhole /\ NeverRefused

\* Every set of numbers that is not empty has a least one.
LEMMA Least ==
    ASSUME NEW T \in SUBSET Nat, T # {}
    PROVE  \E x \in T : \A y \in T : x <= y
<1> DEFINE R == OpToRel(<, Nat)
<1>1. IsWellFoundedOn(R, Nat)
  BY NatLessThanWellFounded, Zenon
<1>2. \A y, x \in Nat : y < x => <<y, x>> \in R
  BY DEF OpToRel
<1> HIDE DEF R
<1>3. PICK x \in T : \A y \in T : ~ (<<y, x>> \in R)
  BY <1>1, WFMin, ZenonT(60)
<1>4. ASSUME NEW y \in T PROVE x <= y
  <2>1. x \in Nat /\ y \in Nat /\ ~(y < x)
    BY <1>2, <1>3, ZenonT(60)
  <2> QED
    BY <2>1
<1> QED
  BY <1>3, <1>4

\* The items of a package.
LEMMA ItemsAre ==
    ASSUME pkg \in Packages
    PROVE  /\ pkg.size \in Nat /\ Len(pkg.items) \in Nat /\ pkg.src \in {"fat", "store"}
           /\ 1 \in 1 .. Len(pkg.items)
           /\ \A i \in 1 .. Len(pkg.items) :
                 /\ Item(i).off \in Nat /\ Item(i).size \in Nat
                 /\ Item(i).main \in {"PARTITION", "VERIFY", "dtb"}
<1>1. pkg.size \in Nat /\ pkg.src \in {"fat", "store"}
  BY ItemAssumption
<1>2. pkg.items \in Seq(Items) /\ pkg.items # <<>>
  BY ItemAssumption
<1> DEFINE s == pkg.items
<1>3. s \in Seq(Items) /\ s # <<>>
  BY <1>2
<1>4. ASSUME NEW i \in 1 .. Len(pkg.items)
      PROVE  /\ Item(i).off \in Nat /\ Item(i).size \in Nat
             /\ Item(i).main \in {"PARTITION", "VERIFY", "dtb"}
  <2>1. s[i] \in Items
    BY <1>3
  <2> QED
    BY <2>1 DEF Item, Items
<1> HIDE DEF s
<1>5. Len(s) \in Nat /\ 1 \in 1 .. Len(s)
  BY <1>3
<1> QED
  BY <1>1, <1>4, <1>5 DEF s

\* image_item_open finds an item of that name, or none.
LEMMA FindIs ==
    ASSUME pkg \in Packages, NEW m, NEW u, FindItem(m, u) # 0
    PROVE  FindItem(m, u) \in 1 .. Len(pkg.items) /\ Item(FindItem(m, u)).main = m
<1> DEFINE named == {i \in 1 .. Len(pkg.items) : Item(i).main = m /\ Item(i).sub = u}
           first == CHOOSE i \in named : \A j \in named : i <= j
<1>1. named # {} /\ FindItem(m, u) = first
  BY DEF FindItem
<1>2. named \in SUBSET Nat
  BY ItemsAre
<1>3. \E i \in named : \A j \in named : i <= j
  BY <1>1, <1>2, Least, ZenonT(60)
<1>4. first \in named
  BY <1>3
<1> QED
  BY <1>1, <1>4, ZenonT(60)

\* The package stays, and with it what a name finds.
LEMMA PackageStays ==
    ASSUME pkg' = pkg
    PROVE  /\ Subject' = FindItem(part'[1], part'[2])
           /\ \A i : Item(i)' = Item(i)
           /\ \A m, u : FindItem(m, u)' = FindItem(m, u)
<1>1. \A i : Item(i)' = Item(i)
  BY DEF Item
<1>2. ASSUME NEW m, NEW u PROVE FindItem(m, u)' = FindItem(m, u)
  BY SMT DEF FindItem, Item
<1> QED
  BY <1>1, <1>2 DEF Subject

\* The invariant after a step, in terms of the item the step leaves behind.
LEMMA ItemInvNext ==
    ASSUME ItemInv, pkg' = pkg, NEW s, s = FindItem(part'[1], part'[2]),
           theItem' \in 1 .. Len(pkg.items), pos' \in Nat, pc' \in {"idle", "loop", "verify"},
           leftItemSz' \in Int, seq' \in Nat, fed' \in Seq(Nat),
           ret' \in {"none", "ok", "failed", "absent", "refused", "unread"},
           pc' # "idle" => part'[1] = "PARTITION" /\ s # 0 /\ theItem' = s /\ ret' = "none",
           pc' = "loop" => InLoop(s, pos', leftItemSz', seq', fed'),
           pc' = "verify" => AllFed(s, fed'),
           s # 0 => fed' = Bytes(Item(s).off, Len(fed')),
           (ret' \in {"ok", "unread"} /\ s # 0)
               => Len(fed') = Item(s).size \/ (part'[1] # "dtb" /\ AllFed(s, fed')),
           (ret' = "refused" /\ s # 0) => Item(s).off + Item(s).size > pkg.size
    PROVE  ItemInv'
<1>1. Subject' = s /\ \A i : Item(i)' = Item(i)
  BY PackageStays
<1>2. ImgItemTypeOK'
  BY DEF ItemInv, ImgItemTypeOK
<1>3. BurntWhole'
  BY <1>1 DEF BurntWhole, AllFed
<1>4. NeverRefused'
  BY <1>1, ZenonT(60) DEF NeverRefused
<1>5. /\ pc' = "loop" => InLoop(Subject, pos, leftItemSz, seq, fed)'
      /\ pc' = "verify" => AllFed(Subject, fed)'
  BY <1>1 DEF InLoop, AllFed
<1> QED
  BY <1>1, <1>2, <1>3, <1>4, <1>5 DEF ItemInv

\* The first cluster part of an item.
LEMMA FirstIs ==
    ASSUME NEW o \in Nat
    PROVE  /\ FirstClusterSize(o) \in 1 .. ALIGN
           /\ (o + FirstClusterSize(o)) % ALIGN = 0
           /\ o % ALIGN # 0 => FirstClusterSize(o) = (ALIGN - (o % ALIGN)) % ALIGN
           /\ o % ALIGN = 0 => FirstClusterSize(o) = ALIGN /\ (ALIGN - (o % ALIGN)) % ALIGN = 0
<1> DEFINE q == o \div ALIGN
           m == o % ALIGN
           p == q * ALIGN
<1>1. ALIGN \in Nat \ {0}
  BY ItemAssumption
<1>2. q \in Nat /\ m \in 0 .. ALIGN - 1 /\ p \in Nat /\ o = p + m
  BY <1>1, DivMod, ZenonT(60)
<1>3. FirstClusterSize(o) = ALIGN - m
  BY DEF FirstClusterSize
<1>4. p % ALIGN = 0 /\ ALIGN % ALIGN = 0
  <2>1. (1 * ALIGN) % ALIGN = 0
    BY <1>1, MulMod
  <2>2. 1 * ALIGN = ALIGN
    BY <1>1
  <2> QED
    BY <1>1, <1>2, <2>1, <2>2, MulMod, ZenonT(60)
<1>5. (p + ALIGN) % ALIGN = 0
  BY <1>1, <1>2, <1>4, ModSum
<1> HIDE DEF q, p
<1>6. FirstClusterSize(o) \in 1 .. ALIGN
  BY <1>1, <1>2, <1>3
<1>7. o + FirstClusterSize(o) = p + ALIGN
  BY <1>1, <1>2, <1>3
<1>8. ASSUME m # 0 PROVE (ALIGN - m) % ALIGN = ALIGN - m
  <2> DEFINE r == ALIGN - m
  <2>1. r \in 0 .. ALIGN - 1
    BY <1>1, <1>2, <1>8
  <2> HIDE DEF r
  <2>2. (0 * ALIGN + r) % ALIGN = r
    BY <1>1, <2>1, DivModIs
  <2>3. 0 * ALIGN + r = r
    BY <1>1, <2>1
  <2> QED
    BY <2>2, <2>3 DEF r
<1>9. m = 0 => ALIGN - m = ALIGN
  BY <1>1
<1> QED
  BY <1>3, <1>4, <1>5, <1>6, <1>7, <1>8, <1>9

\* Slots are whole clusters, and clusters whole sectors.
LEMMA SizesDivide ==
    /\ SectorSize \in Nat \ {0} /\ ALIGN \in Nat \ {0} /\ SLOT \in Nat \ {0}
    /\ ALIGN <= SLOT /\ ALIGN % SectorSize = 0 /\ SLOT % ALIGN = 0
    /\ SLOT % SectorSize = 0 /\ (SLOT - ALIGN) % SectorSize = 0 /\ 0 % SectorSize = 0
<1>1. /\ SectorSize \in Nat \ {0} /\ ALIGN \in Nat \ {0} /\ SLOT \in Nat \ {0}
      /\ ALIGN % SectorSize = 0 /\ SLOT % ALIGN = 0
  BY ItemAssumption
<1>2. SLOT % SectorSize = 0
  BY <1>1, ModTrans, ZenonT(60)
<1>3. ALIGN <= SLOT
  <2> DEFINE a == SLOT \div ALIGN
             p == a * ALIGN
  <2>1. a \in Nat /\ SLOT = p
    BY <1>1, ModMul
  <2> HIDE DEF a
  <2>2. a # 0
    BY <1>1, <2>1
  <2>3. 0 * ALIGN + ALIGN <= p
    BY <1>1, <2>1, <2>2, MulNext
  <2>4. 0 * ALIGN = 0
    BY <1>1
  <2> HIDE DEF p
  <2> QED
    BY <1>1, <2>1, <2>3, <2>4
<1>4. (SLOT - ALIGN) % SectorSize = 0
  BY <1>1, <1>2, <1>3, ModSum, ZenonT(60)
<1>5. (0 * SectorSize) % SectorSize = 0 /\ 0 * SectorSize = 0
  BY <1>1, MulMod
<1>6. 0 % SectorSize = 0
  BY <1>5
<1> QED
  BY <1>1, <1>2, <1>3, <1>4, <1>6

\* Memory that is aligned where the first cluster ends is served.
LEMMA Served ==
    ASSUME pkg \in Packages, NEW from \in Nat, NEW n \in Nat, NEW addr,
           (addr + ((ALIGN - (from % ALIGN)) % ALIGN)) % SectorSize = 0,
           ~CanRead(from, n, addr)
    PROVE  from + n > pkg.size
<1>1. ~FatServes(from, n, addr)
  BY DEF CanRead
<1>2. ~(from + n <= pkg.size)
  BY <1>1 DEF FatServes
<1> QED
  BY <1>2, ItemsAre

\* The part up to the first cluster end is placed right before the slot.
LEMMA HeadServed ==
    ASSUME pkg \in Packages, NEW o \in Nat,
           ~CanRead(o, FirstClusterSize(o), SLOT - FirstClusterSize(o))
    PROVE  o + FirstClusterSize(o) > pkg.size
<1> DEFINE f == FirstClusterSize(o)
           g == (ALIGN - (o % ALIGN)) % ALIGN
<1>1. f \in 1 .. ALIGN /\ SLOT \in Nat /\ ALIGN \in Nat
  BY FirstIs, SizesDivide
<1>2. ((SLOT - f) + g) % SectorSize = 0
  <2>1. CASE o % ALIGN # 0
    <3>1. g = f
      BY <2>1, FirstIs
    <3>2. (SLOT - f) + f = SLOT
      BY <1>1
    <3> QED
      BY <3>1, <3>2, SizesDivide
  <2>2. CASE o % ALIGN = 0
    <3>1. g = 0 /\ f = ALIGN
      BY <2>2, FirstIs
    <3>2. (SLOT - ALIGN) + 0 = SLOT - ALIGN
      BY <1>1
    <3> QED
      BY <3>1, <3>2, SizesDivide
  <2> QED
    BY <2>1, <2>2
<1>3. f \in Nat
  BY <1>1
<1> HIDE DEF f
<1> QED
  BY <1>2, <1>3, Served DEF f

\* From the start of a cluster on.
LEMMA RestServed ==
    ASSUME pkg \in Packages, NEW from \in Nat, from % ALIGN = 0, NEW n \in Nat
    PROVE  /\ ~CanRead(from, n, 0) => from + n > pkg.size
           /\ ~CanRead(from, n, SLOT) => from + n > pkg.size
<1> DEFINE g == (ALIGN - (from % ALIGN)) % ALIGN
<1>1. g = 0
  BY FirstIs
<1>2. 0 + g = 0 /\ SLOT + g = SLOT
  BY <1>1, SizesDivide
<1>3. (0 + g) % SectorSize = 0 /\ (SLOT + g) % SectorSize = 0
  BY <1>2, SizesDivide
<1> QED
  BY <1>3, Served

\* The device tree's memory is moved by the item's place in its cluster.
LEMMA DtbServed ==
    ASSUME pkg \in Packages, NEW o \in Nat, NEW n \in Nat, ~CanRead(o, n, DtbAddr(o))
    PROVE  o + n > pkg.size
<1> DEFINE f == FirstClusterSize(o)
           g == (ALIGN - (o % ALIGN)) % ALIGN
<1>1. f \in 1 .. ALIGN /\ ALIGN \in Nat /\ DtbAddr(o) = ALIGN - f
  BY FirstIs, SizesDivide DEF DtbAddr
<1>2. ((ALIGN - f) + g) % SectorSize = 0
  <2>1. CASE o % ALIGN # 0
    <3>1. g = f
      BY <2>1, FirstIs
    <3>2. (ALIGN - f) + f = ALIGN
      BY <1>1
    <3> QED
      BY <3>1, <3>2, SizesDivide
  <2>2. CASE o % ALIGN = 0
    <3>1. g = 0 /\ f = ALIGN
      BY <2>2, FirstIs
    <3>2. (ALIGN - ALIGN) + 0 = 0
      BY <1>1
    <3> QED
      BY <3>1, <3>2, SizesDivide
  <2> QED
    BY <2>1, <2>2
<1> QED
  BY <1>1, <1>2, Served

\* No bytes are a beginning of every item.
LEMMA NoBytes ==
    /\ Len(<<>>) = 0 /\ <<>> \in Seq(Nat)
    /\ \A o : <<>> = Bytes(o, 0)
<1>1. \A o : Bytes(o, 0) = <<>>
  BY DEF Bytes
<1> QED
  BY <1>1

\* Nothing is open at first.
LEMMA ItemStart == ImgItemInit => ItemInv
<1> SUFFICES ASSUME ImgItemInit PROVE ItemInv
  OBVIOUS
<1>1. pkg \in Packages /\ part[1] = "none"
  BY DEF ImgItemInit
<1>2. Subject = 0
  BY <1>1, FindIs, ItemsAre DEF Subject
<1>3. ImgItemTypeOK
  BY <1>1, ItemsAre DEF ImgItemInit, ImgItemTypeOK
<1> QED
  BY <1>2, <1>3 DEF ImgItemInit, ItemInv, BurntWhole, NeverRefused

\* optimus_burn_one_partition opens its item.
LEMMA BurnOpenInv ==
    ASSUME ItemInv, NEW p, BurnOpen(p)
    PROVE  ItemInv'
<1> DEFINE s == FindItem("PARTITION", p)
<1>1. /\ pkg \in Packages /\ theItem \in 1 .. Len(pkg.items) /\ pos \in Nat /\ leftItemSz \in Int
  BY DEF ItemInv, ImgItemTypeOK
<1>2. /\ pkg' = pkg /\ part'[1] = "PARTITION" /\ part'[2] = p /\ seq' = 0 /\ fed' = <<>>
  BY DEF BurnOpen
<1>3. s = FindItem(part'[1], part'[2])
  BY <1>2
<1>4. fed' \in Seq(Nat) /\ \A o : fed' = Bytes(o, Len(fed'))
  BY <1>2, NoBytes, ZenonT(60)
<1>5. CASE NotOpened("PARTITION", p) /\ Returns("failed") /\ UNCHANGED leftItemSz
  <2>1. s = 0 /\ theItem' \in 1 .. Len(pkg.items) /\ pos' = pos /\ pc' = "idle" /\ ret' = "failed"
    BY <1>5, ZenonT(60) DEF NotOpened, Returns
  <2> HIDE DEF s
  <2> QED
    BY <1>1, <1>2, <1>3, <1>4, <1>5, <2>1, ItemInvNext, ZenonT(60)
<1>6. CASE /\ Opened("PARTITION", p) /\ pos' = Item(theItem').off
           /\ Item(theItem').size = 0 /\ Returns("failed") /\ UNCHANGED leftItemSz
  <2>1. s # 0 /\ theItem' = s /\ pc' = "idle" /\ ret' = "failed"
    BY <1>6 DEF Opened, Returns
  <2>2. s \in 1 .. Len(pkg.items)
    BY <1>1, <2>1, FindIs
  <2> HIDE DEF s
  <2>3. pos' \in Nat
    BY <1>1, <1>6, <2>1, <2>2, ItemsAre, ZenonT(60)
  <2> QED
    BY <1>1, <1>2, <1>3, <1>4, <1>6, <2>1, <2>2, <2>3, ItemInvNext, ZenonT(60)
<1>7. CASE /\ Opened("PARTITION", p) /\ pos' = Item(theItem').off
           /\ leftItemSz' = Item(theItem').size - FirstClusterSize(Item(theItem').off)
           /\ pc' = "loop" /\ ret' = "none"
  <2>1. s # 0 /\ theItem' = s
    BY <1>7 DEF Opened
  <2>2. s \in 1 .. Len(pkg.items)
    BY <1>1, <2>1, FindIs
  <2> HIDE DEF s
  <2>3. pos' = Item(s).off /\ leftItemSz' = Item(s).size - FirstClusterSize(Item(s).off)
    BY <1>7, <2>1
  <2>4. Item(s).off \in Nat /\ Item(s).size \in Nat
    BY <1>1, <2>2, ItemsAre
  <2>5. pos' \in Nat /\ leftItemSz' \in Int
    BY <2>3, <2>4, FirstIs
  <2>6. InLoop(s, pos', leftItemSz', seq', fed')
    BY <1>2, <2>3 DEF InLoop
  <2> QED
    BY <1>1, <1>2, <1>3, <1>4, <1>7, <2>1, <2>2, <2>5, <2>6, ItemInvNext
<1> QED
  BY <1>5, <1>6, <1>7 DEF BurnOpen

\* g is the run of m bytes from o on.
Turned(g, o, m) == g = Bytes(o, m) /\ g \in Seq(Nat) /\ Len(g) = m

\* A turn of the loop that is served.
LEMMA TurnBytes ==
    ASSUME NEW o \in Nat, NEW k \in Nat, NEW h \in Nat, NEW n \in Nat
    PROVE  Turned(Bytes(o, k) \o ReadBytes(o + k, h) \o ReadBytes(o + k + h, n), o, k + h + n)
<1>1. o + k \in Nat /\ o + k + h \in Nat /\ k + h \in Nat /\ k + h + n \in Nat /\ o + k + h = o + (k + h)
  OBVIOUS
<1>2. ReadBytes(o + k, h) = Bytes(o + k, h) /\ ReadBytes(o + k + h, n) = Bytes(o + (k + h), n)
  BY <1>1, ReadBytesAre
<1>3. Bytes(o, k) \o Bytes(o + k, h) = Bytes(o, k + h)
  BY BytesJoin, ZenonT(60)
<1>4. Bytes(o, k + h) \o Bytes(o + (k + h), n) = Bytes(o, k + h + n)
  BY <1>1, BytesJoin, ZenonT(60)
<1>5. Bytes(o, k) \o ReadBytes(o + k, h) \o ReadBytes(o + k + h, n) = Bytes(o, k + h + n)
  BY <1>2, <1>3, <1>4, ZenonT(60)
<1>6. Bytes(o, k + h + n) \in Seq(Nat) /\ Len(Bytes(o, k + h + n)) = k + h + n
  BY <1>1, BytesAre, ZenonT(60)
<1> QED
  BY <1>5, <1>6, Zenon DEF Turned

\* One turn of the loop.
LEMMA BurnTurnInv ==
    ASSUME ItemInv, BurnTurn
    PROVE  ItemInv'
<1> DEFINE s == Subject
           o == Item(s).off
           z == Item(s).size
           F == FirstClusterSize(o)
           k == Len(fed)
           h == IF seq = 0 THEN F ELSE 0
           n == Lesser(leftItemSz, SLOT)
<1>1. /\ pkg \in Packages /\ leftItemSz \in Int /\ seq \in Nat /\ pos \in Nat /\ fed \in Seq(Nat)
      /\ theItem \in 1 .. Len(pkg.items)
  BY ZenonT(60) DEF ItemInv, ImgItemTypeOK
<1>2. pc = "loop" /\ leftItemSz > 0 /\ pkg' = pkg /\ theItem' = theItem /\ part' = part
  BY DEF BurnTurn
<1>3. /\ part[1] = "PARTITION" /\ s # 0 /\ theItem = s /\ ret = "none"
      /\ InLoop(s, pos, leftItemSz, seq, fed) /\ fed = Bytes(o, k)
  BY <1>2 DEF ItemInv, BurntWhole
<1>4. s = FindItem(part'[1], part'[2])
  BY <1>2 DEF Subject
<1>5. s \in 1 .. Len(pkg.items) /\ o \in Nat /\ z \in Nat
  BY <1>1, <1>3, ItemsAre, ZenonT(60)
<1>6. \/ /\ CanRead(pos, h, SLOT - h)
         /\ CanRead(pos + h, n, 0)
         /\ fed' = fed \o ReadBytes(pos, h) \o ReadBytes(pos + h, n)
         /\ pos' = pos + h + n
         /\ leftItemSz' = leftItemSz - n
         /\ seq' = seq + 1
         /\ UNCHANGED <<pc, ret>>
      \/ /\ ~CanRead(pos, h, SLOT - h) \/ ~CanRead(pos + h, n, 0)
         /\ Returns("refused")
         /\ UNCHANGED <<fed, pos, leftItemSz, seq>>
  BY <1>3, ZenonT(60) DEF BurnTurn
<1>7. n \in Nat /\ n <= leftItemSz /\ (n < leftItemSz => n = SLOT)
  BY <1>1, <1>2, SizesDivide DEF Lesser
<1>8. F \in 1 .. ALIGN /\ (o + F) % ALIGN = 0 /\ SLOT \in Nat /\ ALIGN \in Nat \ {0}
  BY <1>5, FirstIs, SizesDivide, ZenonT(60)
<1>9. k \in Nat
  BY <1>1
<1> HIDE DEF s, o, z, F, k, n
<1>10. /\ h \in Nat /\ pos = o + k /\ k + h + leftItemSz = z /\ (o + k + h) % ALIGN = 0
       /\ ~CanRead(pos, h, SLOT - h) => o + k + h > pkg.size
  <2>1. CASE seq = 0
    <3>1. fed = <<>> /\ pos = o /\ leftItemSz = z - F /\ h = F
      BY <1>3, <2>1 DEF InLoop, o, z, F
    <3>2. k = 0
      BY <3>1 DEF k
    <3>3. ~CanRead(o, F, SLOT - F) => o + F > pkg.size
      BY <1>1, <1>5, HeadServed DEF F
    <3>4. o + k + h = o + F /\ pos = o + k /\ k + h + leftItemSz = z /\ h \in Nat
      BY <1>5, <1>8, <3>1, <3>2
    <3> QED
      BY <1>8, <3>1, <3>3, <3>4, ZenonT(60)
  <2>2. CASE seq # 0
    <3>1. pos = o + k /\ leftItemSz = z - k /\ pos % ALIGN = 0 /\ h = 0
      BY <1>2, <1>3, <2>2 DEF InLoop, o, z, k
    <3>2. ~CanRead(pos, 0, SLOT) => pos + 0 > pkg.size
      BY <1>1, <3>1, RestServed
    <3>3. o + k + h = pos /\ k + h + leftItemSz = z /\ SLOT - h = SLOT /\ pos + 0 = pos
      BY <1>1, <1>5, <1>8, <1>9, <3>1
    <3> QED
      BY <3>1, <3>2, <3>3
  <2> QED
    BY <2>1, <2>2
<1> HIDE DEF h
<1>11. CASE /\ fed' = fed \o ReadBytes(pos, h) \o ReadBytes(pos + h, n)
            /\ pos' = pos + h + n /\ leftItemSz' = leftItemSz - n /\ seq' = seq + 1
            /\ UNCHANGED <<pc, ret>>
  <2>1. fed' = fed \o ReadBytes(o + k, h) \o ReadBytes(o + k + h, n)
    BY <1>10, <1>11
  <2>2. fed' = Bytes(o, k + h + n) /\ fed' \in Seq(Nat) /\ Len(fed') = k + h + n
    <3>1. o \in Nat /\ k \in Nat /\ h \in Nat /\ n \in Nat
      BY <1>5, <1>7, <1>9, <1>10
    <3>2. Turned(Bytes(o, k) \o ReadBytes(o + k, h) \o ReadBytes(o + k + h, n), o, k + h + n)
      BY <3>1, TurnBytes
    <3>3. Turned(fed', o, k + h + n)
      BY <1>3, <2>1, <3>2
    <3> QED
      BY <3>3 DEF Turned
  <2>3. pos' = o + (k + h + n) /\ leftItemSz' = z - (k + h + n) /\ leftItemSz' >= 0 /\ leftItemSz' \in Int /\ pos' \in Nat
    BY <1>1, <1>5, <1>7, <1>9, <1>10, <1>11
  <2>4. leftItemSz' > 0 => pos' % ALIGN = 0
    <3> SUFFICES ASSUME leftItemSz' > 0 PROVE pos' % ALIGN = 0
      OBVIOUS
    <3>1. n = SLOT
      BY <1>1, <1>7, <1>11
    <3>2. pos' = (o + k + h) + SLOT
      BY <1>5, <1>8, <1>9, <1>10, <2>3, <3>1
    <3>3. o + k + h \in Nat
      BY <1>5, <1>9, <1>10
    <3>4. ((o + k + h) + SLOT) % ALIGN = 0
      BY <1>8, <1>10, <3>3, SizesDivide, ModSum, ZenonT(60)
    <3> QED
      BY <3>2, <3>4
  <2>5. seq' \in Nat /\ seq' # 0
    BY <1>1, <1>11
  <2>6. InLoop(s, pos', leftItemSz', seq', fed')
    BY <2>2, <2>3, <2>4, <2>5 DEF InLoop, o, z
  <2>7. fed' = Bytes(Item(s).off, Len(fed'))
    BY <2>2 DEF o
  <2>8. pc' = "loop" /\ ret' = "none"
    BY <1>2, <1>3, <1>11, ZenonT(60)
  <2> QED
    BY <1>1, <1>2, <1>3, <1>4, <2>2, <2>3, <2>5, <2>6, <2>7, <2>8, ItemInvNext, ZenonT(60)
<1>12. CASE /\ ~CanRead(pos, h, SLOT - h) \/ ~CanRead(pos + h, n, 0)
            /\ Returns("refused")
            /\ UNCHANGED <<fed, pos, leftItemSz, seq>>
  <2>1. o + z > pkg.size
    <3>1. pkg.size \in Nat
      BY <1>1, ItemsAre
    <3>2. CASE ~CanRead(pos, h, SLOT - h)
      BY <1>1, <1>2, <1>5, <1>9, <1>10, <3>1, <3>2
    <3>3. CASE ~CanRead(pos + h, n, 0)
      <4>1. pos + h = o + k + h /\ o + k + h \in Nat
        BY <1>5, <1>9, <1>10
      <4>2. (o + k + h) + n > pkg.size
        BY <1>1, <1>7, <1>10, <3>3, <4>1, RestServed, ZenonT(60)
      <4> QED
        BY <1>1, <1>5, <1>7, <1>9, <1>10, <3>1, <4>1, <4>2
    <3> QED
      BY <1>12, <3>2, <3>3
  <2>2. fed' = Bytes(Item(s).off, Len(fed'))
    BY <1>3, <1>12 DEF o, k
  <2>3. pc' = "idle" /\ ret' = "refused"
    BY <1>12 DEF Returns
  <2>4. Item(s).off + Item(s).size > pkg.size
    BY <2>1, ZenonT(60) DEF o, z
  <2> QED
    BY <1>1, <1>2, <1>4, <1>12, <2>2, <2>3, <2>4, ItemInvNext, ZenonT(60)
<1> QED
  BY <1>6, <1>11, <1>12

\* The loop ends.
LEMMA BurnDoneInv ==
    ASSUME ItemInv, BurnDone
    PROVE  ItemInv'
<1> DEFINE s == Subject
           o == Item(s).off
           z == Item(s).size
<1>1. /\ pkg \in Packages /\ leftItemSz \in Int /\ seq \in Nat /\ pos \in Nat /\ fed \in Seq(Nat)
      /\ theItem \in 1 .. Len(pkg.items)
  BY DEF ItemInv, ImgItemTypeOK
<1>2. pc = "loop" /\ leftItemSz <= 0 /\ pc' = "verify" /\ UNCHANGED <<pkg, theItem, pos, part, leftItemSz, seq, fed, ret>>
  BY DEF BurnDone
<1>3. /\ part[1] = "PARTITION" /\ s # 0 /\ theItem = s /\ ret = "none"
      /\ InLoop(s, pos, leftItemSz, seq, fed) /\ fed = Bytes(o, Len(fed))
  BY <1>2 DEF ItemInv, BurntWhole
<1>4. s = FindItem(part'[1], part'[2])
  BY <1>2 DEF Subject
<1>5. o \in Nat /\ z \in Nat
  BY <1>1, <1>3, ItemsAre
<1>6. FirstClusterSize(o) \in Nat
  <2>1. FirstClusterSize(o) \in 1 .. ALIGN
    BY <1>5, FirstIs, ZenonT(60)
  <2> QED
    BY <2>1, SizesDivide
<1>7. Len(fed) \in Nat
  BY <1>1
<1>8. AllFed(s, fed)
  <2>1. CASE seq = 0
    <3>1. leftItemSz = z - FirstClusterSize(o)
      BY <1>3, <2>1 DEF InLoop
    <3>2. z <= FirstClusterSize(o)
      BY <1>2, <1>5, <1>6, <3>1
    <3> QED
      BY <3>2 DEF AllFed
  <2>2. CASE seq # 0
    <3>1. leftItemSz = z - Len(fed) /\ leftItemSz >= 0
      BY <1>3, <2>2 DEF InLoop
    <3>2. Len(fed) = z
      BY <1>1, <1>2, <1>5, <1>7, <3>1
    <3> QED
      BY <3>2 DEF AllFed
  <2> QED
    BY <2>1, <2>2
<1> HIDE DEF s
<1> QED
  BY <1>1, <1>2, <1>3, <1>4, <1>8, ItemInvNext

\* optimus_verify_partition moves the decoder to another item, and nothing else.
LEMMA VerifyItemInv ==
    ASSUME ItemInv, VerifyItem
    PROVE  ItemInv'
<1> DEFINE s == Subject
           v == FindItem("VERIFY", part[2])
<1>1. /\ pkg \in Packages /\ leftItemSz \in Int /\ seq \in Nat /\ pos \in Nat /\ fed \in Seq(Nat)
      /\ theItem \in 1 .. Len(pkg.items)
  BY DEF ItemInv, ImgItemTypeOK
<1>2. pc = "verify" /\ UNCHANGED <<pkg, part, leftItemSz, seq, fed>>
  BY DEF VerifyItem
<1>3. /\ part[1] = "PARTITION" /\ s # 0 /\ AllFed(s, fed)
      /\ fed = Bytes(Item(s).off, Len(fed))
  BY <1>2 DEF ItemInv, BurntWhole
<1>4. s = FindItem(part'[1], part'[2])
  BY <1>2 DEF Subject
<1>5. v # 0 => v \in 1 .. Len(pkg.items) /\ Item(v).off \in Nat /\ Item(v).size \in Nat
  BY <1>1, FindIs, ItemsAre, ZenonT(60)
<1>6. /\ pc' = "idle" /\ ret' \in {"ok", "failed", "unread"}
      /\ theItem' \in 1 .. Len(pkg.items) /\ pos' \in Nat
  <2>1. CASE Returns("ok") /\ UNCHANGED <<theItem, pos>>
    BY <1>1, <2>1 DEF Returns
  <2>2. CASE NotOpened("VERIFY", part[2]) /\ Returns("ok")
    BY <1>1, <2>2 DEF Returns, NotOpened
  <2>3. CASE /\ Opened("VERIFY", part[2])
             /\ Item(theItem').size \notin 1 .. MaxVerify
             /\ pos' = Item(theItem').off
             /\ Returns("failed")
    <3>1. v # 0 /\ theItem' = v /\ pc' = "idle" /\ ret' = "failed"
      BY <2>3 DEF Returns, Opened
    <3> HIDE DEF v
    <3> QED
      BY <1>5, <2>3, <3>1
  <2>4. ASSUME Opened("VERIFY", part[2]), NEW addr \in 0 .. SectorSize - 1,
               \/ /\ pos' = Item(theItem').off + Item(theItem').size
                  /\ \E res \in {"ok", "failed"} : Returns(res)
               \/ pos' = Item(theItem').off /\ Returns("unread")
        PROVE  /\ pc' = "idle" /\ ret' \in {"ok", "failed", "unread"}
               /\ theItem' \in 1 .. Len(pkg.items) /\ pos' \in Nat
    <3>1. v # 0 /\ theItem' = v /\ pc' = "idle" /\ ret' \in {"ok", "failed", "unread"}
      BY <2>4 DEF Returns, Opened
    <3> HIDE DEF v
    <3>2. pos' = Item(v).off \/ pos' = Item(v).off + Item(v).size
      BY <2>4, <3>1
    <3> QED
      BY <1>5, <3>1, <3>2
  <2> QED
    BY <2>1, <2>2, <2>3, <2>4 DEF VerifyItem
<1> HIDE DEF s, v
<1>7. fed' = Bytes(Item(s).off, Len(fed')) /\ AllFed(s, fed') /\ part'[1] # "dtb"
  BY <1>2, <1>3
<1>8. fed' \in Seq(Nat) /\ seq' \in Nat /\ leftItemSz' \in Int /\ pkg' = pkg
  BY <1>1, <1>2, ZenonT(60)
<1> QED
  BY <1>4, <1>6, <1>7, <1>8, ItemInvNext, ZenonT(60)

\* optimus_sdc_burn_dtb_load.
LEMMA DtbLoadInv ==
    ASSUME ItemInv, DtbLoad
    PROVE  ItemInv'
<1> DEFINE s == FindItem("dtb", "meson1")
           o == Item(s).off
           z == Item(s).size
<1>1. /\ pkg \in Packages /\ leftItemSz \in Int /\ seq \in Nat /\ pos \in Nat /\ fed \in Seq(Nat)
      /\ theItem \in 1 .. Len(pkg.items)
  BY DEF ItemInv, ImgItemTypeOK
<1>2. pkg' = pkg /\ leftItemSz' = leftItemSz /\ seq' = seq /\ part'[1] = "dtb" /\ part'[2] = "meson1"
  BY DEF DtbLoad
<1>3. s = FindItem(part'[1], part'[2])
  BY <1>2
<1>4. s # 0 => s \in 1 .. Len(pkg.items) /\ o \in Nat /\ z \in Nat
  BY <1>1, FindIs, ItemsAre
<1>5. <<>> \in Seq(Nat) /\ \A a : <<>> = Bytes(a, Len(<<>>))
  BY NoBytes, ZenonT(60)
<1>6. CASE NotOpened("dtb", "meson1") /\ Returns("absent") /\ fed' = <<>>
  <2>1. s = 0 /\ theItem' \in 1 .. Len(pkg.items) /\ pos' = pos /\ pc' = "idle" /\ ret' = "absent"
    BY <1>6, ZenonT(60) DEF NotOpened, Returns
  <2> HIDE DEF s
  <2> QED
    BY <1>1, <1>2, <1>3, <1>5, <1>6, <2>1, ItemInvNext, ZenonT(60)
<1>7. ASSUME Opened("dtb", "meson1"), NEW res \in {"failed", "refused"}, Returns(res),
             pos' = o, fed' = <<>>, res = "refused" => ~CanRead(o, z, DtbAddr(o))
      PROVE  ItemInv'
  <2>1. s # 0 /\ theItem' = s /\ pc' = "idle" /\ ret' = res
    BY <1>7, ZenonT(60) DEF Opened, Returns
  <2>2. res = "refused" => o + z > pkg.size
    BY <1>1, <1>4, <1>7, <2>1, DtbServed, ZenonT(60)
  <2> HIDE DEF s
  <2> QED
    BY <1>1, <1>2, <1>3, <1>4, <1>5, <1>7, <2>1, <2>2, ItemInvNext, ZenonT(60)
<1>8. CASE /\ Opened("dtb", "meson1") /\ Returns("ok") /\ pos' = o + z
           /\ fed' = ReadBytes(o, z)
  <2>1. s # 0 /\ theItem' = s /\ pc' = "idle" /\ ret' = "ok"
    BY <1>8, ZenonT(60) DEF Opened, Returns
  <2>2. o \in Nat /\ z \in Nat /\ pos' \in Nat
    BY <1>4, <1>8, <2>1
  <2>3. ReadBytes(o, z) = Bytes(o, z) /\ Bytes(o, z) \in Seq(Nat) /\ Len(Bytes(o, z)) = z
    BY <2>2, ReadBytesAre, BytesAre, ZenonT(60)
  <2>4. fed' = Bytes(o, Len(fed')) /\ fed' \in Seq(Nat) /\ Len(fed') = z
    BY <1>8, <2>3
  <2> HIDE DEF s
  <2> QED
    BY <1>1, <1>2, <1>3, <1>4, <2>1, <2>2, <2>4, ItemInvNext
<1> QED
  BY <1>6, <1>7, <1>8, ZenonT(60) DEF DtbLoad

\* Every step keeps the invariant.
LEMMA ItemStep == ItemInv /\ [ImgItemNext]_itemVars => ItemInv'
<1> SUFFICES ASSUME ItemInv, [ImgItemNext]_itemVars PROVE ItemInv'
  OBVIOUS
<1>1. CASE UNCHANGED itemVars
  <2>1. pkg' = pkg /\ part' = part
    BY <1>1 DEF itemVars
  <2>2. Subject' = Subject /\ \A i : Item(i)' = Item(i)
    BY <2>1, PackageStays, ZenonT(60) DEF Subject
  <2>3. ImgItemTypeOK'
    BY <1>1, ZenonT(60) DEF itemVars, ItemInv, ImgItemTypeOK
  <2>4. BurntWhole' /\ NeverRefused'
    BY <1>1, <2>2, ZenonT(60) DEF itemVars, ItemInv, BurntWhole, NeverRefused
  <2>5. /\ InLoop(Subject, pos, leftItemSz, seq, fed)' <=> InLoop(Subject, pos, leftItemSz, seq, fed)
        /\ AllFed(Subject, fed)' <=> AllFed(Subject, fed)
    BY <1>1, <2>2, ZenonT(60) DEF itemVars, InLoop, AllFed
  <2> QED
    BY <1>1, <2>2, <2>3, <2>4, <2>5 DEF itemVars, ItemInv
<1> QED
  BY <1>1, BurnOpenInv, BurnTurnInv, BurnDoneInv, VerifyItemInv, DtbLoadInv DEF ImgItemNext

\* The inductive invariant holds in every behaviour.
LEMMA ItemInvariance == ImgItemSpec => []ItemInv
  BY ItemStart, ItemStep, PTL DEF ImgItemSpec

\* optimus_burn_one_partition and optimus_sdc_burn_dtb_load: for every package, from a
\* card or from flash, and for all sizes of clusters and slots, what is handed on is
\* the item from its start, in order and without a gap, and all of it at the end.
THEOREM BurntWholeSafe == ImgItemSpec => []BurntWhole
<1>1. ItemInv => BurntWhole
  BY DEF ItemInv
<1> QED
  BY <1>1, ItemInvariance, PTL

\* image_item_get_first_cluster_size and the placing of the device tree: every read
\* meets the alignment rule of the FAT reader, so only a file that ends early refuses.
THEOREM NeverRefusedSafe == ImgItemSpec => []NeverRefused
<1>1. ItemInv => NeverRefused
  BY DEF ItemInv
<1> QED
  BY <1>1, ItemInvariance, PTL
=============================================================================
