------------------------------- MODULE TcpSend -------------------------------
(***************************************************************************)
(* How packets leave a process: TcpConnectionManager::sendPacket, the      *)
(* broadcast and the write event of the network thread (src/server/base),  *)
(* over ConnectionBuffer and Packet (src/server/water/net).                *)
(*                                                                         *)
(* The main thread sends; what the socket does not take waits in the       *)
(* connection's buffer and in its sendQueue, and epoll is asked for write  *)
(* events until both are empty.  sendLock makes a call of sendPacket and a *)
(* whole write event exclude each other on one connection.  A broadcast    *)
(* gives the same Packet object to every connection in turn.               *)
(*                                                                         *)
(* A byte is <<p, k>>: the k-th byte of packet p.  Bytes of m_buf that     *)
(* nobody has written for the present contents are Junk.                   *)
(***************************************************************************)
EXTENDS Naturals, Sequences, SequencesExt, FiniteSets

CONSTANTS
  Conns,       \* the connections
  MaxPackets,  \* bound: packets sent in all
  Length,      \* Length[p]: the size of packet p
  Cap,         \* m_sendBuf.size()
  MaxQueue,    \* 512 in sendPacket
  Broadcasts   \* whether packets may be broadcast, as the router does

ASSUME SendAssumption ==
  /\ MaxPackets \in Nat \ {0} /\ Cap \in Nat \ {0} /\ MaxQueue \in Nat
  /\ Length \in [1 .. MaxPackets -> Nat \ {0}]
  /\ Broadcasts \in BOOLEAN

VARIABLES
  content,     \* content[p]: the bytes left in the Packet object
  sendQueue,   \* connHolder->sendQueue
  buf,         \* what m_sendBuf holds, and
  begin,       \*   where in m_buf it begins (m_dataBegin)
  wantsWrite,  \* epoll watches the socket for read_write, not only for read
  netPc,       \* where the network thread is in the write event
  cur,         \* the connection it handles
  made,        \* packets made so far
  left,        \* connections that the broadcast going on has still to serve
  owed,        \* history: bytes accepted that the socket has not taken yet
  garbled,     \* history: the socket has taken something else than it was owed
  mishap       \* history: see InOrder

packetVars == <<content, made, left>>
bufVars  == <<buf, begin>>
netVars  == <<netPc, cur>>
histVars == <<owed, garbled, mishap>>
vars == <<content, sendQueue, buf, begin, wantsWrite, netPc, cur, made, left,
          owed, garbled, mishap>>

Packets  == 1 .. MaxPackets
Bytes(p) == [k \in 1 .. Length[p] |-> <<p, k>>]
Junk     == <<0, 0>>
ByteSet  == {Junk} \union UNION {Range(Bytes(p)) : p \in Packets}
Upto(s, n)  == SubSeq(s, 1, n)
After(s, n) == SubSeq(s, n + 1, Len(s))
Smaller(m, n) == IF m < n THEN m ELSE n

TypeOK ==
  /\ \A p \in Packets : content[p] \in {After(Bytes(p), n) : n \in 0 .. Length[p]}
  /\ \A c \in Conns : /\ Range(sendQueue[c]) \subseteq Packets
                      /\ Len(sendQueue[c]) <= MaxQueue + 1
                      /\ Range(buf[c]) \subseteq ByteSet
                      /\ begin[c] \in Nat /\ begin[c] + Len(buf[c]) <= Cap
                      /\ Range(owed[c]) \subseteq ByteSet
  /\ wantsWrite \in [Conns -> BOOLEAN]
  /\ netPc \in {"wait", "ready", "send", "fill"} /\ cur \in Conns
  /\ made \in 0 .. MaxPackets /\ left \subseteq Conns
  /\ garbled \in [Conns -> BOOLEAN] /\ mishap \in [Conns -> BOOLEAN]

Init ==
  /\ content = [p \in Packets |-> Bytes(p)]
  /\ sendQueue = [c \in Conns |-> <<>>]
  /\ buf = [c \in Conns |-> <<>>] /\ begin = [c \in Conns |-> 0]
  /\ wantsWrite = [c \in Conns |-> FALSE]
  /\ netPc = "wait" /\ cur \in Conns
  /\ made = 0 /\ left = {}
  /\ owed = [c \in Conns |-> <<>>]
  /\ garbled = [c \in Conns |-> FALSE] /\ mishap = [c \in Conns |-> FALSE]

(***************************************************************************)
(* ConnectionBuffer::writeable(size): bytes are moved down when the tail   *)
(* is too short.                                                           *)
(***************************************************************************)
AtTail(c)         == Cap - begin[c] - Len(buf[c])
Packed(c, size)   == AtTail(c) < size \/ AtTail(c) = 0
Room(c, size)     == IF Packed(c, size) THEN Cap - Len(buf[c]) ELSE AtTail(c)
Start(c, size)    == IF Packed(c, size) THEN 0 ELSE begin[c]

\* commitWrite, then commitRead of n bytes: the buffer of c holds b from s on.
Holds(c, b, s, n) ==
  /\ buf' = [buf EXCEPT ![c] = After(b, n)]
  /\ begin' = [begin EXCEPT ![c] = IF n = Len(b) THEN 0 ELSE s + n]

\* The socket takes the first n bytes of b, when it is owed o.
Takes(c, b, o, n) ==
  LET bad == garbled[c] \/ ~IsPrefix(Upto(b, n), o)
  IN  /\ garbled' = [garbled EXCEPT ![c] = bad]
      /\ owed' = [owed EXCEPT ![c] = IF bad THEN <<>> ELSE After(o, n)]

\* Packet::pop: who else has the packet loses its bytes, too.
Shortened(c, p, n) == content' = [content EXCEPT ![p] = After(@, n)]
SharedWith(c, p)   == {d \in Conns \ {c} : p \in Range(sendQueue[d])}

(***************************************************************************)
(* sendPacket(connHolder, packet) in the main thread.                      *)
(***************************************************************************)
NothingQueued_Ignored(c) == TRUE
NothingQueued(c) == sendQueue[c] = <<>>

NotTooMany(c) == Len(sendQueue[c]) <= MaxQueue

AsksToWrite_Missing(c) == UNCHANGED wantsWrite
AsksToWrite(c) == wantsWrite' = [wantsWrite EXCEPT ![c] = TRUE]

SendQueued(c, p) ==
  /\ sendQueue[c] # <<>> /\ NotTooMany(c)
  /\ sendQueue' = [sendQueue EXCEPT ![c] = Append(@, p)]
  /\ owed' = [owed EXCEPT ![c] = IF garbled[c] THEN <<>> ELSE @ \o Bytes(p)]
  /\ mishap' = [mishap EXCEPT ![c] = @ \/ content[p] # Bytes(p)]
  /\ UNCHANGED <<content, bufVars, wantsWrite, garbled>>

\* The result false goes no further: the packet is lost.
SendRefused(c, p) ==
  /\ sendQueue[c] # <<>> /\ ~NotTooMany(c)
  /\ UNCHANGED <<content, sendQueue, bufVars, wantsWrite, histVars>>

\* There is room for all of it, and the socket takes all that is there.
SendAtOnce(c, p) ==
  LET b == buf[c] \o content[p]
  IN  /\ NothingQueued(c)
      /\ Room(c, Len(content[p])) >= Len(content[p])
      /\ Holds(c, b, 0, Len(b))
      /\ Takes(c, b, owed[c] \o Bytes(p), Len(b))
      /\ mishap' = [mishap EXCEPT ![c] = @ \/ content[p] # Bytes(p)]
      /\ UNCHANGED <<content, sendQueue, wantsWrite>>

\* There is room, but the socket takes only n bytes.  The code goes on as if
\* nothing had been committed: the same bytes are copied to the same place,
\* and as many more are committed, if the buffer has them.
Again(c, p) ==
  LET size == Len(content[p])
  IN  IF Cap - Start(c, size) - Len(buf[c]) - size >= size
      THEN [i \in 1 .. size |-> Junk] ELSE <<>>

SendSlowly(c, p, n) ==
  LET size == Len(content[p])
      b == buf[c] \o content[p]
  IN  /\ NothingQueued(c)
      /\ Room(c, size) >= size /\ n < Len(b)
      /\ Holds(c, b \o Again(c, p), Start(c, size), n)
      /\ Takes(c, b, owed[c] \o Bytes(p), n)
      /\ Shortened(c, p, size)
      /\ sendQueue' = [sendQueue EXCEPT ![c] = <<p>>]
      /\ AsksToWrite(c)
      /\ mishap' = [d \in Conns |-> mishap[d] \/ d \in SharedWith(c, p)
                      \/ (d = c /\ (content[p] # Bytes(p) \/ Again(c, p) # <<>>))]

\* There is no room for all of it.
SendPart(c, p) ==
  LET size == Len(content[p])
      n == Room(c, size)
  IN  /\ NothingQueued(c)
      /\ n < size
      /\ Holds(c, buf[c] \o Upto(content[p], n), Start(c, size), 0)
      /\ Shortened(c, p, n)
      /\ sendQueue' = [sendQueue EXCEPT ![c] = <<p>>]
      /\ AsksToWrite(c)
      /\ owed' = [owed EXCEPT ![c] = IF garbled[c] THEN <<>> ELSE @ \o Bytes(p)]
      /\ mishap' = [d \in Conns |-> mishap[d] \/ (n > 0 /\ d \in SharedWith(c, p))
                      \/ (d = c /\ content[p] # Bytes(p))]
      /\ UNCHANGED garbled

SendPacket(c, p) ==
  /\ netPc = "wait" \/ cur # c    \* sendLock
  /\ \/ SendQueued(c, p) \/ SendRefused(c, p)
     \/ SendAtOnce(c, p) \/ SendPart(c, p)
     \/ \E n \in 0 .. Cap : SendSlowly(c, p, n)
  /\ UNCHANGED netVars

\* sendPacketToPrivate, sendPacketToPublic
SendTo(c) ==
  /\ left = {} /\ made < MaxPackets
  /\ made' = made + 1
  /\ SendPacket(c, made + 1)
  /\ UNCHANGED left

\* broadcastPacketToPrivate: one packet, every connection of a type, in the
\* order of a hash table, m_lock held from the first to the last.
Broadcast ==
  /\ Broadcasts
  /\ left = {} /\ made < MaxPackets
  /\ made' = made + 1
  /\ left' = Conns
  /\ UNCHANGED <<content, sendQueue, bufVars, wantsWrite, netVars, histVars>>

BroadcastTo(c) ==
  /\ c \in left
  /\ left' = left \ {c}
  /\ SendPacket(c, made)
  /\ UNCHANGED made

(***************************************************************************)
(* The network thread: epollerEventHandler with Event::write.              *)
(***************************************************************************)
WriteEvent(c) ==
  /\ netPc = "wait" /\ wantsWrite[c]
  /\ netPc' = "ready" /\ cur' = c
  /\ UNCHANGED <<packetVars, sendQueue, bufVars, wantsWrite, histVars>>

MoreToSend_Forgotten(c) == FALSE
MoreToSend(c) == sendQueue[c] # <<>>

\* trySend.  epoll has said that the socket takes something, once.
TrySend ==
  /\ netPc \in {"ready", "send"}
  /\ \E n \in 0 .. Len(buf[cur]) :
       /\ netPc = "ready" /\ buf[cur] # <<>> => n > 0
       /\ Holds(cur, buf[cur], begin[cur], n)
       /\ Takes(cur, buf[cur], owed[cur], n)
       /\ netPc' = IF n = Len(buf[cur]) /\ MoreToSend(cur) THEN "fill" ELSE "wait"
       /\ wantsWrite' = [wantsWrite EXCEPT ![cur] =
                           n < Len(buf[cur]) \/ MoreToSend(cur)]
  /\ UNCHANGED <<packetVars, sendQueue, cur, mishap>>

\* One packet of the queue, or a part of it, moves to the buffer.
Fill ==
  /\ netPc = "fill"
  /\ LET p == Head(sendQueue[cur])
         size == Len(content[p])
         n == Smaller(Room(cur, size), size)
         done == n = size /\ Room(cur, size) > 0
     IN  /\ Holds(cur, buf[cur] \o Upto(content[p], n), Start(cur, size), 0)
         /\ IF done
            THEN /\ sendQueue' = [sendQueue EXCEPT ![cur] = Tail(@)]
                 /\ UNCHANGED <<content, mishap>>
            ELSE /\ Shortened(cur, p, n)
                 /\ mishap' = [d \in Conns |->
                                 mishap[d] \/ (n > 0 /\ d \in SharedWith(cur, p))]
                 /\ UNCHANGED sendQueue
         /\ netPc' = IF done /\ Len(sendQueue[cur]) > 1 THEN "fill" ELSE "send"
  /\ UNCHANGED <<made, left, wantsWrite, cur, owed, garbled>>

Network == (\E c \in Conns : WriteEvent(c)) \/ TrySend \/ Fill

Next ==
  \/ \E c \in Conns : SendTo(c) \/ BroadcastTo(c)
  \/ Broadcast
  \/ Network

Spec == Init /\ [][Next]_vars

\* The network thread loops on epoll_wait, which reports every socket that
\* can be written and is watched; the peers read what they are sent.
FairSpec ==
  /\ Spec
  /\ \A c \in Conns : SF_vars(WriteEvent(c))
  /\ WF_vars(TrySend \/ Fill)

-----------------------------------------------------------------------------
Pending(c) == FlattenSeq([i \in 1 .. Len(sendQueue[c]) |-> content[sendQueue[c][i]]])

\* The socket takes the bytes of the accepted packets, in the order of their
\* acceptance, whatever it takes at a time and wherever the buffer is cut.
\* Two mishaps are excused: a packet half sent at once and then committed
\* again (SendSlowly), and a broadcast packet shortened for another receiver.
InOrder ==
  \A c \in Conns : ~mishap[c] => /\ ~garbled[c]
                                 /\ buf[c] \o Pending(c) = owed[c]

\* What waits is watched: no byte waits without epoll being asked for it.
WaitingIsWatched ==
  \A c \in Conns : buf[c] # <<>> \/ sendQueue[c] # <<>> => wantsWrite[c]

\* A packet that waits for a slow socket is sent some day.
WaitingIsSent ==
  \A c \in Conns, p \in Packets :
    p \in Range(sendQueue[c]) ~> p \notin Range(sendQueue[c])

=============================================================================
