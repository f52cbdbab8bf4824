-------------------------------- MODULE Tftp -------------------------------
(***************************************************************************)
(* Loading a file by TFTP: net/tftp.c and the retries of net/net.c, with a *)
(* server that follows the protocol and a network that loses, doubles and, *)
(* with Reorder, overtakes packets.                                        *)
(*                                                                         *)
(* A start on another port drops the packets of an earlier one; here they  *)
(* vanish with the transfers they belong to.  The port depends on the time, *)
(* or is set in tftpsrcp: with SamePort it may be the earlier one's.  The  *)
(* lengths of blocks are counted in halves: a full block is two, the last  *)
(* one one.                                                                *)
(***************************************************************************)
EXTENDS Integers, Sequences

CONSTANTS Blocks,        \* blocks of the file, the last one short
          SequenceSize,  \* TFTP_SEQUENCE_SIZE, 2^16
          TimeoutCount,  \* TIMEOUT_COUNT
          Options,       \* whether the server answers options
          Reorder,       \* whether packets overtake each other
          SamePort,      \* whether a new start may take the port of an earlier one
          RetryForever,  \* netretry is unset or "yes"
          RetryCount,    \* netretry otherwise
          MaxFaults      \* bound: packets lost or doubled, early timeouts

\* What the constants are.
ASSUME TftpAssumption ==
    /\ Blocks \in Nat \ {0} /\ SequenceSize \in Nat /\ SequenceSize > 1
    /\ TimeoutCount \in Nat /\ RetryCount \in Nat /\ MaxFaults \in Nat
    /\ {Options, Reorder, SamePort, RetryForever} \subseteq BOOLEAN

VARIABLES c,          \* the client: the static variables of tftp.c
          net,        \* net_state, and "wait" for startAgainTimeout
          tries,      \* NetTryCount
          mem, size,  \* blocks stored at load_addr, NetBootFileXferSize
          sess,       \* the server: for every request the block it sends
          toClient, toServer,
          faults

netVars == <<c, net, tries, mem, size, sess, toClient, toServer, faults>>

WellKnown == 0
Wire(i) == i % SequenceSize
LenOf(i) == IF i = Blocks THEN 1 ELSE 2

Rrq == [t |-> "rrq", port |-> WellKnown, n |-> 0]
Ack(port, n) == [t |-> "ack", port |-> port, n |-> n]

\* TftpStart up to its TftpSend.
Fresh == [st |-> "rrq", block |-> 0, last |-> 0, wrap |-> 0, count |-> 0, port |-> WellKnown]

\* TftpSend
Sent(cl) == IF cl.st = "rrq" THEN Rrq ELSE Ack(cl.port, cl.block)

TftpInit ==
    /\ c = Fresh /\ net = "continue" /\ tries = 1
    /\ mem = <<>> /\ size = 0
    /\ sess = <<>>
    /\ toClient = <<>> /\ toServer = <<Rrq>>
    /\ faults = 0
-----------------------------------------------------------------------------
(* The client. *)

\* NetStartAgain: the loop begins again, now or after startAgainTimeout.
NetStartAgain ==
    /\ net' = IF ~RetryForever /\ tries >= RetryCount THEN "fail" ELSE "wait"
    /\ tries' = IF RetryForever \/ tries >= RetryCount THEN tries ELSE tries + 1
    /\ UNCHANGED <<c, mem, size, toServer>>

\* NetLoop from its label restart.  On the same port, packets that arrived while
\* it waited are gone (startAgainHandler), and later ones are taken.
Restart ==
    /\ net = "wait"
    /\ c' = Fresh /\ net' = "continue" /\ size' = 0
    /\ \/ sess' = <<>> /\ toClient' = <<>> /\ toServer' = <<Rrq>>
       \/ /\ SamePort
          /\ toClient' \in {toClient, <<>>} /\ toServer' = Append(toServer, Rrq)
          /\ UNCHANGED sess
    /\ UNCHANGED <<tries, mem, faults>>

\* Mutant: a sequence number of 0 is like any other.
UpdateBlockNumber_NoWrap(b) == [c EXCEPT !.block = b]

\* update_block_number
UpdateBlockNumber(b) ==
    IF b = 0 /\ c.last # 0
    THEN [c EXCEPT !.block = b, !.wrap = @ + SequenceSize, !.count = 0]
    ELSE [c EXCEPT !.block = b]

With(m, at, i) == [b \in DOMAIN m \union {at} |-> IF b = at THEN i ELSE m[b]]

\* Mutant: the block is stored where the next one belongs.
StoreBlock_Late(cl, p) ==
    LET at == cl.block + cl.wrap
    IN /\ mem' = With(mem, at, p.i)
       /\ size' = IF size < 2 * at + LenOf(p.i) THEN 2 * at + LenOf(p.i) ELSE size

\* store_block
StoreBlock(cl, p) ==
    LET at == cl.block - 1 + cl.wrap
    IN /\ mem' = With(mem, at, p.i)
       /\ size' = IF size < 2 * at + LenOf(p.i) THEN 2 * at + LenOf(p.i) ELSE size

\* TftpHandler with a block of data.
Data(p) ==
    LET first == c.st # "data"
        seen == UpdateBlockNumber(p.n)
        cl == IF first THEN [seen EXCEPT !.st = "data", !.port = p.src, !.last = 0, !.wrap = 0]
              ELSE seen
    IN IF first /\ p.n # 1 THEN NetStartAgain
       ELSE IF p.n = cl.last
       THEN c' = cl /\ UNCHANGED <<net, tries, mem, size, toServer>>
       ELSE /\ c' = [cl EXCEPT !.last = p.n]
            /\ StoreBlock(cl, p)
            /\ toServer' = Append(toServer, Sent(cl))
            /\ net' = IF LenOf(p.i) < 2 THEN "success" ELSE net
            /\ UNCHANGED tries

\* TftpHandler with the answer to the options.
Oack(p) ==
    /\ c' = [c EXCEPT !.st = "oack", !.port = p.src]
    /\ toServer' = Append(toServer, Sent(c'))
    /\ UNCHANGED <<net, tries, mem, size>>

\* TftpHandler with an error: the file is missing, or another one.
Error(p) ==
    IF p.n = 1 THEN net' = "fail" /\ UNCHANGED <<c, tries, mem, size, toServer>>
    ELSE NetStartAgain

\* The packet at place k arrives.
Arrives(q, k) == k \in DOMAIN q /\ (k = 1 \/ Reorder)
Without(q, k) == SubSeq(q, 1, k - 1) \o SubSeq(q, k + 1, Len(q))

\* Packets from another port are dropped once the answer has come.
TftpHandler(k) ==
    /\ net = "continue"
    /\ Arrives(toClient, k)
    /\ LET p == toClient[k]
       IN IF c.st # "rrq" /\ p.src # c.port
          THEN UNCHANGED <<c, net, tries, mem, size, toServer>>
          ELSE \/ p.t = "data" /\ Data(p)
               \/ p.t = "oack" /\ Oack(p)
               \/ p.t = "error" /\ Error(p)
    /\ toClient' = Without(toClient, k)
    /\ UNCHANGED <<sess, faults>>

Quiet == toClient = <<>> /\ toServer = <<>>

\* Mutant: the timer is not set again.
TftpTimeout_Once ==
    /\ net = "continue" /\ c.count = 0
    /\ c' = [c EXCEPT !.count = @ + 1]
    /\ toServer' = Append(toServer, Sent(c))
    /\ UNCHANGED <<net, tries, mem, size, sess, toClient>>

\* TftpTimeout
TftpTimeout ==
    /\ net = "continue"
    /\ IF c.count + 1 > TimeoutCount THEN NetStartAgain
       ELSE /\ c' = [c EXCEPT !.count = @ + 1]
            /\ toServer' = Append(toServer, Sent(c))
            /\ UNCHANGED <<net, tries, mem, size>>
    /\ UNCHANGED <<sess, toClient>>

\* It comes when nothing is under way any more, or before that.
Timeout == Quiet /\ TftpTimeout /\ UNCHANGED faults
EarlyTimeout == faults < MaxFaults /\ ~Quiet /\ TftpTimeout /\ faults' = faults + 1

\* ctrl-c
Abort ==
    /\ net \in {"continue", "wait"}
    /\ net' = "abort"
    /\ UNCHANGED <<c, tries, mem, size, sess, toClient, toServer, faults>>
-----------------------------------------------------------------------------
(* The server: one transfer for every request, on a port of its own.         *)

Packet(s, i) == IF i = 0 THEN [t |-> "oack", src |-> s, n |-> 0, i |-> 0]
                ELSE [t |-> "data", src |-> s, n |-> Wire(i), i |-> i]
ErrorPacket(s, n) == [t |-> "error", src |-> s, n |-> n, i |-> 0]

ServerReceive(k) ==
    /\ Arrives(toServer, k)
    /\ toServer' = Without(toServer, k)
    /\ LET p == toServer[k]
           first == IF Options THEN 0 ELSE 1
       IN IF p.t = "rrq"
          THEN /\ sess' = Append(sess, first)
               /\ toClient' = Append(toClient, Packet(Len(sess) + 1, first))
          ELSE IF sess[p.port] <= Blocks /\ p.n = Wire(sess[p.port])
          THEN /\ sess' = [sess EXCEPT ![p.port] = @ + 1]
               /\ toClient' = IF sess[p.port] = Blocks THEN toClient
                              ELSE Append(toClient, Packet(p.port, sess[p.port] + 1))
          ELSE UNCHANGED <<sess, toClient>>
    /\ UNCHANGED <<c, net, tries, mem, size, faults>>

\* A request is refused: "file not found" or another error.
Refuse(n) ==
    /\ faults < MaxFaults /\ faults' = faults + 1
    /\ toServer # <<>> /\ Head(toServer) = Rrq
    /\ toServer' = Tail(toServer)
    /\ sess' = Append(sess, Blocks + 1)
    /\ toClient' = Append(toClient, ErrorPacket(Len(sess) + 1, n))
    /\ UNCHANGED <<c, net, tries, mem, size>>

\* The server sends its block again.
Resend(s) ==
    /\ s \in DOMAIN sess /\ sess[s] <= Blocks
    /\ toClient' = Append(toClient, Packet(s, sess[s]))
    /\ UNCHANGED <<c, net, tries, mem, size, sess, toServer>>

ServerTimeout(s) == net = "continue" /\ Quiet /\ Resend(s) /\ UNCHANGED faults
ServerEarly(s) == net = "continue" /\ faults < MaxFaults /\ ~Quiet /\ Resend(s) /\ faults' = faults + 1
-----------------------------------------------------------------------------
(* The network. *)

Lose ==
    /\ net = "continue" /\ faults < MaxFaults /\ faults' = faults + 1
    /\ \/ toClient # <<>> /\ toClient' = Tail(toClient) /\ UNCHANGED toServer
       \/ toServer # <<>> /\ toServer' = Tail(toServer) /\ UNCHANGED toClient
    /\ UNCHANGED <<c, net, tries, mem, size, sess>>

Double ==
    /\ net = "continue" /\ faults < MaxFaults /\ faults' = faults + 1
    /\ \/ toClient # <<>> /\ toClient' = <<Head(toClient)>> \o toClient /\ UNCHANGED toServer
       \/ toServer # <<>> /\ toServer' = <<Head(toServer)>> \o toServer /\ UNCHANGED toClient
    /\ UNCHANGED <<c, net, tries, mem, size, sess>>

TftpNext ==
    \/ \E k \in DOMAIN toClient : TftpHandler(k)
    \/ Timeout \/ EarlyTimeout \/ Restart \/ Abort
    \/ \E k \in DOMAIN toServer : ServerReceive(k)
    \/ \E n \in 1 .. 2 : Refuse(n)
    \/ \E s \in DOMAIN sess : ServerTimeout(s) \/ ServerEarly(s)
    \/ Lose \/ Double

TftpSpec == TftpInit /\ [][TftpNext]_netVars

\* The loop of NetLoop polls the network and the timer; packets that are not
\* lost arrive, and the server answers what it receives.  The timer runs on
\* while blocks that were there already are ignored, so the handler's turn
\* comes even when the server repeats itself all the time.
TftpFairness ==
    /\ WF_netVars(\E k \in DOMAIN toClient : TftpHandler(k))
    /\ WF_netVars(\E k \in DOMAIN toServer : ServerReceive(k))
    /\ SF_netVars(Timeout) /\ WF_netVars(Restart)
-----------------------------------------------------------------------------
(* The state stays within its types. *)
TftpTypeOK ==
    /\ c.st \in {"rrq", "oack", "data"}
    /\ {c.block, c.last} \subseteq 0 .. SequenceSize - 1
    /\ c.count \in 0 .. TimeoutCount /\ c.port \in 0 .. Len(sess)
    /\ net \in {"continue", "wait", "success", "fail", "abort"}
    /\ \A s \in DOMAIN sess : sess[s] \in 0 .. Blocks + 1

(* "The TFTP get or put is complete": the file is in memory, every block at
   its place, and the size is the file's.                                    *)
LoadedWhole ==
    net = "success" =>
        /\ \A i \in 1 .. Blocks : i - 1 \in DOMAIN mem /\ mem[i - 1] = i
        /\ size = 2 * (Blocks - 1) + 1

(* What the server was told has arrived is in memory: a block is acknowledged
   only when it and all before it are stored.                                *)
AcknowledgedStored ==
    net = "continue" /\ c.port # WellKnown =>
        \A i \in 1 .. sess[c.port] - 1 : i - 1 \in DOMAIN mem /\ mem[i - 1] = i

(* What update_block_number says (tftp.c, 280): "If we receive a sequence number
   of 0 this means that there was a wrap around of the (16 bit) counter."  So a
   transfer that is complete has counted the wraps of its file.              *)
WrapsCounted == net = "success" => c.wrap = SequenceSize * (Blocks \div SequenceSize)

(* The command ends: with finitely many losses the timeouts, repetitions and
   fresh starts bring the transfer to an end.                                *)
Ends == <>(net \in {"success", "fail", "abort"})
=============================================================================
