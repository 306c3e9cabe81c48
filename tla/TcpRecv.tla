------------------------------- MODULE TcpRecv -------------------------------
(***************************************************************************)
(* How packets reach the main thread of a process: TcpConnectionManager    *)
(* (src/server/base), BufferedConnection and TcpPacket (src/server/water/  *)
(* net).  The network thread waits for epoll, reads a connection into its  *)
(* buffer, cuts packets out of it and pushes them into m_recvQueue, the    *)
(* ring of SpscRing, from which the timer of the main thread pops them.    *)
(*                                                                         *)
(* A byte is <<i, k>>: the k-th byte of the i-th packet of its connection. *)
(* A packet is its head, which tells the length of its body, and the body. *)
(* What the peer sends arrives in pieces of any size.                      *)
(***************************************************************************)
EXTENDS SpscRing, SequencesExt

CONSTANTS
  Conns,       \* the connections, all registered with epoll
  MaxPackets,  \* bound: packets a peer sends over one connection
  Sends,       \* Sends[c]: how many the peer of c sends
  HeadSize,    \* sizeof(SizeType), in bytes
  Body,        \* Body[i]: the length of the body of packet i
  Wrap,        \* 2^32: a SizeType counts modulo it
  Cap          \* m_recvBuf.size()

Bytes(i)  == [k \in 1 .. HeadSize + Body[i] |-> <<i, k>>]
ByteSet   == UNION {Range(Bytes(i)) : i \in 1 .. MaxPackets}

\* The stream of the peer of c from the end of its packet i on.
Rest(c, i) == FlattenSeq([j \in 1 .. Sends[c] - i |-> Bytes(i + j)])

ASSUME RecvAssumption ==
  /\ MaxPackets \in Nat \ {0} /\ HeadSize \in Nat \ {0}
  /\ Sends \in [Conns -> 0 .. MaxPackets]
  /\ Wrap \in Nat /\ Wrap > HeadSize
  /\ Body \in [1 .. MaxPackets -> 0 .. Wrap - 1]
  /\ Cap \in HeadSize .. Wrap - 1
  /\ Items = Conns \X (1 .. MaxPackets)

VARIABLES
  sent,      \* the bytes the peer has still to send
  arrived,   \* the bytes that the socket holds
  closed,    \* the peer has closed: end of file after what has arrived
  alive,     \* in m_allConns
  buf,       \* what m_recvBuf holds, and
  begin,     \*   where in m_buf it begins (m_dataBegin)
  partial,   \* connHolder->recvPacket
  netPc,     \* where the network thread is in epollerEventHandler
  cur,       \* the connection it handles
  got,       \* history: the last packet of each connection the main thread got
  dropped    \* history: packets whose push was refused

connVars == <<sent, arrived, closed, alive>>
recvVars == <<buf, begin, partial>>
histVars == <<got, dropped>>
netVars  == <<netPc, cur>>
vars == <<ringVars, connVars, recvVars, histVars, netVars>>

Smaller(m, n) == IF m < n THEN m ELSE n

\* The size that p's head tells, as complete() adds it, and as parse() does,
\* where it wraps.
Wanted(p)       == HeadSize + Body[p[1][1]]
CompleteSize(p) == Wanted(p) % Wrap

TypeOK ==
  /\ RingTypeOK
  /\ \A c \in Conns : \A s \in {sent[c], arrived[c], buf[c], partial[c]} :
       Range(s) \subseteq ByteSet
  /\ closed \in [Conns -> BOOLEAN] /\ alive \in [Conns -> BOOLEAN]
  /\ begin \in [Conns -> 0 .. Cap]
  /\ \A c \in Conns : begin[c] + Len(buf[c]) <= Cap
  /\ netPc \in {"wait", "recv", "parse", "push"}
  /\ cur \in Conns
  /\ got \in [Conns -> 0 .. MaxPackets]
  /\ dropped \in [Conns -> SUBSET (1 .. MaxPackets)]

Init ==
  /\ RingInit
  /\ sent = [c \in Conns |-> Rest(c, 0)]
  /\ arrived = [c \in Conns |-> <<>>]
  /\ closed = [c \in Conns |-> FALSE]
  /\ alive = [c \in Conns |-> TRUE]
  /\ buf = [c \in Conns |-> <<>>] /\ begin = [c \in Conns |-> 0]
  /\ partial = [c \in Conns |-> <<>>]
  /\ netPc = "wait" /\ cur \in Conns
  /\ got = [c \in Conns |-> 0] /\ dropped = [c \in Conns |-> {}]

(***************************************************************************)
(* The peers.                                                              *)
(***************************************************************************)
\* Bound: nobody sends 2^32 bytes of one packet, at which its size() would wrap.
Sendable(p) == Smaller(Wanted(p), Wrap - 1)

PeerSends(c) ==
  /\ ~closed[c] /\ sent[c] # <<>>
  /\ \E n \in 1 .. Smaller(Len(sent[c]), Sendable(sent[c]) - sent[c][1][2] + 1) :
       /\ arrived' = [arrived EXCEPT ![c] = @ \o SubSeq(sent[c], 1, n)]
       /\ sent' = [sent EXCEPT ![c] = SubSeq(@, n + 1, Len(@))]
  /\ UNCHANGED <<closed, alive, recvVars, netVars, histVars, ringVars>>

PeerCloses(c) ==
  /\ ~closed[c]
  /\ closed' = [closed EXCEPT ![c] = TRUE]
  /\ UNCHANGED <<sent, arrived, alive, recvVars, netVars, histVars, ringVars>>

(***************************************************************************)
(* The network thread: epollerEventHandler with Event::read.  When the     *)
(* ring is full it returns at once, and epoll reports the socket again.    *)
(***************************************************************************)
ReadEvent(c) ==
  /\ netPc = "wait"
  /\ alive[c]
  /\ arrived[c] # <<>> \/ closed[c]
  /\ ~RingFull
  /\ cur' = c
  /\ netPc' = "recv"
  /\ UNCHANGED <<connVars, recvVars, histVars, ringVars>>

\* ConnectionBuffer::writeable: room at the tail; none: move the bytes down.
AtTail(c)  == Cap - begin[c] - Len(buf[c])
Packed(c)  == AtTail(c) = 0
Room(c)    == IF Packed(c) THEN Cap - Len(buf[c]) ELSE AtTail(c)
NewBegin_Kept(c) == begin[c]
NewBegin(c) == IF Packed(c) THEN 0 ELSE begin[c]

\* tryRecv: the handler goes on if the buffer holds anything afterwards.
TryRecv ==
  /\ netPc = "recv"
  /\ Room(cur) = 0 \/ arrived[cur] # <<>> \/ ~closed[cur]
  /\ LET n == Smaller(Room(cur), Len(arrived[cur]))
     IN  /\ arrived' = [arrived EXCEPT ![cur] = SubSeq(@, n + 1, Len(@))]
         /\ buf' = [buf EXCEPT ![cur] = @ \o SubSeq(arrived[cur], 1, n)]
  /\ begin' = [begin EXCEPT ![cur] = NewBegin(cur)]
  /\ netPc' = IF buf'[cur] = <<>> THEN "wait" ELSE "parse"
  /\ UNCHANGED <<sent, closed, alive, partial, cur, histVars, ringVars>>

\* recv returns 0: ReadClosedConnection is thrown through the loop and the
\* connection is erased, with what its buffer still holds.
RecvClosed ==
  /\ netPc = "recv"
  /\ Room(cur) > 0 /\ arrived[cur] = <<>> /\ closed[cur]
  /\ alive' = [alive EXCEPT ![cur] = FALSE]
  /\ begin' = [begin EXCEPT ![cur] = NewBegin(cur)]
  /\ netPc' = "wait"
  /\ UNCHANGED <<sent, arrived, closed, buf, partial, cur, histVars, ringVars>>

\* TcpPacket::parse: the head is read whole or not at all, then the body as
\* far as it is there.  If the size wraps, less than a head may be read, or
\* nothing, and the rest of the head comes first next time.
Deficiency_Whole(p, m) == CompleteSize(p)
Deficiency(p, m) == (CompleteSize(p) - m) % Wrap

ParseSize_Eager(c) ==
  IF partial[c] = <<>>
  THEN Smaller(CompleteSize(buf[c]), Len(buf[c]))
  ELSE Smaller(Deficiency(partial[c], Len(partial[c])), Len(buf[c]))
ParseSize(c) ==
  LET p   == partial[c]
      len == Len(buf[c])
      header == HeadSize - Len(p) IN
  CASE p = <<>> -> IF len < HeadSize THEN 0 ELSE Smaller(CompleteSize(buf[c]), len)
    [] p # <<>> /\ header > 0 ->
         IF len < header THEN 0 ELSE header + Smaller(Deficiency(p, HeadSize), len - header)
    [] OTHER -> Smaller(Deficiency(p, Len(p)), len)

Complete_Strict(p) == Len(p) >= HeadSize /\ Len(p) > Wanted(p)
Complete(p) == Len(p) >= HeadSize /\ Len(p) >= Wanted(p)

\* parse and commitRead; a complete packet is given to push, otherwise the
\* handler returns.
Parse ==
  /\ netPc = "parse"
  /\ LET n == ParseSize(cur)
     IN  /\ partial' = [partial EXCEPT ![cur] = @ \o SubSeq(buf[cur], 1, n)]
         /\ buf' = [buf EXCEPT ![cur] = SubSeq(@, n + 1, Len(@))]
         /\ begin' = [begin EXCEPT ![cur] = IF buf'[cur] = <<>> THEN 0 ELSE @ + n]
  /\ IF Complete(partial'[cur])
     THEN netPc' = "push" /\ PushCall(<<cur, partial'[cur][1][1]>>)
     ELSE netPc' = "wait" /\ UNCHANGED ringVars
  /\ UNCHANGED <<connVars, cur, histVars, mBegin, popPc, popItem, popped, popLooks>>

Pushing ==
  /\ netPc = "push"
  /\ Push
  /\ UNCHANGED <<connVars, recvVars, netVars, histVars>>

NewPacket_Missing(c) == partial[c]
NewPacket(c) == <<>>

\* push has returned; its result is ignored, and a new packet is begun.
AfterPush ==
  /\ netPc = "push" /\ pushPc = "out"
  /\ dropped' = [dropped EXCEPT ![cur] = IF pushed THEN @ ELSE @ \union {pushItem[2]}]
  /\ partial' = [partial EXCEPT ![cur] = NewPacket(cur)]
  /\ netPc' = "recv"
  /\ UNCHANGED <<connVars, buf, begin, cur, got, ringVars>>

Network == (\E c \in Conns : ReadEvent(c)) \/ TryRecv \/ RecvClosed
             \/ Parse \/ Pushing \/ AfterPush

(***************************************************************************)
(* The main thread: dealTcpPackets pops until nothing is left; a message   *)
(* may make it erase a connection, whatever the network thread is doing.   *)
(***************************************************************************)
GetPacket ==
  /\ PopCall \/ PopFull \/ PopEmpty \/ PopMark
  /\ got' = IF popPc = "mark" THEN [got EXCEPT ![popItem[1]] = popItem[2]] ELSE got
  /\ UNCHANGED <<connVars, recvVars, netVars, dropped>>

EraseConnection(c) ==
  /\ popPc = "out"
  /\ alive[c]
  /\ alive' = [alive EXCEPT ![c] = FALSE]
  /\ UNCHANGED <<sent, arrived, closed, recvVars, netVars, histVars, ringVars>>

Next ==
  \/ \E c \in Conns : PeerSends(c) \/ PeerCloses(c) \/ EraseConnection(c)
  \/ Network \/ GetPacket

Spec == Init /\ [][Next]_vars

\* Both threads run: the network thread loops on epoll_wait, and a timer of 3
\* milliseconds calls dealTcpPackets.  Nothing is assumed of the peers.
FairSpec == Spec /\ WF_vars(Network) /\ WF_vars(GetPacket)

-----------------------------------------------------------------------------
\* Packets of a connection come out in the order they were sent, each once,
\* and only those that the ring refused are missing.
DeliveredInTurn ==
  [][popPc = "mark" /\ popPc' = "out" =>
       LET c == popItem[1]
           i == popItem[2]
       IN  /\ i > got[c] /\ i \notin dropped[c]
           /\ (got[c] + 1) .. (i - 1) \subseteq dropped[c]]_vars

\* Between the socket and the ring no byte is lost, doubled or moved: the
\* packet begun, the buffer, the socket and what the peer has yet to send
\* make up the rest of the stream from the beginning of a packet.
StreamIntact ==
  \A c \in Conns :
    \E i \in 0 .. Sends[c] :
      partial[c] \o buf[c] \o arrived[c] \o sent[c] = Rest(c, i)

\* "处理一下吧, 应该不可能" (tcp_packet.cpp:73): a packet begun has its whole
\* head, so that what is awaited of it is told by its own bytes - unless the
\* length its head tells makes its size wrap.
HeadIsWhole ==
  \A c \in Conns :
    partial[c] # <<>> /\ Wanted(partial[c]) < Wrap => Len(partial[c]) >= HeadSize

\* A packet that has arrived is handed to the main thread or refused by the
\* ring, unless its connection is erased: a full ring only delays reading.
ArrivedIsHandled ==
  \A c \in Conns : \A i \in 1 .. Sends[c] :
    (sent[c] = <<>> \/ sent[c][1][1] > i)
      ~> (got[c] >= i \/ i \in dropped[c] \/ ~alive[c])

=============================================================================
