----------------------------- MODULE TcpSendProofs -----------------------------
(***************************************************************************)
(* What a connection sends, for any number of connections and packets, any *)
(* sizes and any buffer: the socket takes the bytes of the accepted packets *)
(* in the order of their acceptance, and nothing waits unwatched.          *)
(*                                                                         *)
(* The order needs more than itself to be inductive.  The network thread   *)
(* takes the head of a queue, which must be there though the main thread   *)
(* may have come between (Filling); and it shortens that packet, which     *)
(* must not wait a second time further back (OnceOnly), so that no packet  *)
(* of a broadcast may be given to one connection twice (StillLeft).        *)
(***************************************************************************)
EXTENDS TcpSend, Lemmas

\* The types of the variables, as the proofs need them.
Typed ==
  /\ content \in [Packets -> Seq(ByteSet)]
  /\ sendQueue \in [Conns -> Seq(Packets)]
  /\ buf \in [Conns -> Seq(ByteSet)] /\ owed \in [Conns -> Seq(ByteSet)]
  /\ begin \in [Conns -> Nat]
  /\ wantsWrite \in [Conns -> BOOLEAN]
  /\ netPc \in {"wait", "ready", "send", "fill"} /\ cur \in Conns
  /\ made \in 0 .. MaxPackets /\ left \subseteq Conns
  /\ garbled \in [Conns -> BOOLEAN] /\ mishap \in [Conns -> BOOLEAN]

\* What a buffer holds lies in it.
Fits == \A c \in Conns : begin[c] + Len(buf[c]) <= Cap

LEMMA BytesTyped ==
  ASSUME NEW p \in Packets
  PROVE  Bytes(p) \in Seq(ByteSet) /\ Len(Bytes(p)) = Length[p] /\ Length[p] \in Nat \ {0}
<1>1. Length[p] \in Nat \ {0}
  BY SendAssumption DEF Packets
<1>2. \A k \in 1 .. Length[p] : <<p, k>> \in ByteSet
  <2>1. SUFFICES ASSUME NEW k \in 1 .. Length[p]
                 PROVE  <<p, k>> \in ByteSet
    OBVIOUS
  <2>2. DOMAIN Bytes(p) = 1 .. Length[p] /\ Bytes(p)[k] = <<p, k>>
    BY DEF Bytes
  <2>3. Bytes(p)[k] \in Range(Bytes(p))
    BY <2>2 DEF Range
  <2>4. Range(Bytes(p)) \in {Range(Bytes(q)) : q \in Packets}
    OBVIOUS
  <2>5. Bytes(p)[k] \in UNION {Range(Bytes(q)) : q \in Packets}
    BY <2>3, <2>4
  <2>6. QED
    BY <2>2, <2>5 DEF ByteSet
<1>3. Bytes(p) \in [1 .. Length[p] -> ByteSet]
  BY <1>2 DEF Bytes
<1>4. QED
  BY <1>1, <1>3

LEMMA Parts ==
  ASSUME NEW s \in Seq(ByteSet), NEW n \in 0 .. Len(s)
  PROVE  /\ Upto(s, n) \in Seq(ByteSet) /\ Len(Upto(s, n)) = n
         /\ After(s, n) \in Seq(ByteSet) /\ Len(After(s, n)) = Len(s) - n
         /\ Upto(s, n) \o After(s, n) = s
BY CutInTwo DEF Upto, After

LEMMA Wholes ==
  ASSUME NEW s \in Seq(ByteSet)
  PROVE  /\ Upto(s, 0) = << >> /\ After(s, 0) = s
         /\ Upto(s, Len(s)) = s /\ After(s, Len(s)) = << >>
         /\ 0 \in 0 .. Len(s) /\ Len(s) \in 0 .. Len(s)
<1>1. Len(s) \in Nat
  OBVIOUS
<1>2. QED
  BY <1>1, CutAtTheEnds DEF Upto, After

LEMMA JoinedBytes ==
  ASSUME NEW s \in Seq(ByteSet), NEW t \in Seq(ByteSet)
  PROVE  s \o t \in Seq(ByteSet) /\ Len(s \o t) = Len(s) + Len(t)
         /\ Len(s) \in Nat /\ Len(t) \in Nat
BY ConcatProperties

LEMMA PrefixOfJoin ==
  ASSUME NEW s \in Seq(ByteSet), NEW t \in Seq(ByteSet), NEW n \in 0 .. Len(s)
  PROVE  /\ IsPrefix(Upto(s, n), s \o t)
         /\ After(s \o t, n) = After(s, n) \o t
<1>1. /\ Len(s \o t) = Len(s) + Len(t) /\ s \o t \in Seq(ByteSet) /\ n \in 0 .. Len(s \o t)
      /\ SubSeq(s \o t, 1, n) = SubSeq(s, 1, n)
      /\ SubSeq(s \o t, n + 1, Len(s \o t)) = SubSeq(s, n + 1, Len(s)) \o t
  BY CutOfConcat
<1> DEFINE u == s \o t
           w == Upto(s, n)
<1>2. w \in Seq(ByteSet) /\ Len(w) = n
  BY Parts
<1>3. SubSeq(w, 1, Len(w)) = w
  BY <1>2, CutAtTheEnds
<1>4. n <= Len(u) /\ SubSeq(u, 1, n) = w
  BY <1>1 DEF Upto
<1> HIDE DEF w, u
<1>5. IsPrefix(w, u)
  BY <1>2, <1>3, <1>4 DEF IsPrefix
<1>6. After(u, n) = After(s, n) \o t
  BY <1>1 DEF After, u
<1>7. QED
  BY <1>5, <1>6 DEF w, u

LEMMA PrefixIsShorter ==
  ASSUME NEW w \in Seq(ByteSet), NEW u \in Seq(ByteSet), IsPrefix(w, u)
  PROVE  Len(w) \in 0 .. Len(u)
<1>1. Len(w) \in Nat /\ Len(u) \in Nat
  OBVIOUS
<1>2. Len(w) <= Len(u)
  BY DEF IsPrefix
<1>3. QED
  BY <1>1, <1>2

-----------------------------------------------------------------------------
(*** What waits in a queue ***)

\* The bytes that packets q have left, contents being ct (Pending, for any queue).
Waiting(q, ct) == FlattenSeq([i \in 1 .. Len(q) |-> ct[q[i]]])

LEMMA WaitingParts ==
  ASSUME NEW q \in Seq(Packets), NEW ct \in [Packets -> Seq(ByteSet)]
  PROVE  [i \in 1 .. Len(q) |-> ct[q[i]]] \in Seq(Seq(ByteSet))
         /\ Len([i \in 1 .. Len(q) |-> ct[q[i]]]) = Len(q) /\ Len(q) \in Nat
         /\ \A i \in 1 .. Len(q) : q[i] \in Packets
<1>1. Len(q) \in Nat /\ \A i \in 1 .. Len(q) : q[i] \in Packets
  OBVIOUS
<1>2. [i \in 1 .. Len(q) |-> ct[q[i]]] \in [1 .. Len(q) -> Seq(ByteSet)]
  BY <1>1
<1>3. QED
  BY <1>1, <1>2

LEMMA WaitingTyped ==
  ASSUME NEW q \in Seq(Packets), NEW ct \in [Packets -> Seq(ByteSet)]
  PROVE  Waiting(q, ct) \in Seq(ByteSet)
BY WaitingParts, FlattenType DEF Waiting

LEMMA NothingWaits ==
  ASSUME NEW ct
  PROVE  Waiting(<< >>, ct) = << >>
<1>1. [i \in 1 .. Len(<< >>) |-> ct[<< >>[i]]] = << >>
  OBVIOUS
<1>2. QED
  BY <1>1, FlattenEmpty DEF Waiting

LEMMA WaitingSame ==
  ASSUME NEW q \in Seq(Packets), NEW ct, NEW cu, \A i \in 1 .. Len(q) : ct[q[i]] = cu[q[i]]
  PROVE  Waiting(q, ct) = Waiting(q, cu)
<1>1. [i \in 1 .. Len(q) |-> ct[q[i]]] = [i \in 1 .. Len(q) |-> cu[q[i]]]
  OBVIOUS
<1>2. QED
  BY <1>1 DEF Waiting

LEMMA OneMoreWaits ==
  ASSUME NEW q \in Seq(Packets), NEW ct \in [Packets -> Seq(ByteSet)], NEW p \in Packets
  PROVE  Waiting(Append(q, p), ct) = Waiting(q, ct) \o ct[p]
<1> DEFINE s == [i \in 1 .. Len(q) |-> ct[q[i]]]
           r == Append(q, p)
           t == [i \in 1 .. Len(r) |-> ct[r[i]]]
<1>1. s \in Seq(Seq(ByteSet)) /\ Len(s) = Len(q) /\ Len(q) \in Nat
  BY WaitingParts
<1>2. ct[p] \in Seq(ByteSet)
  OBVIOUS
<1>3. r \in Seq(Packets) /\ Len(r) = Len(q) + 1 /\ r[Len(q) + 1] = p
      /\ \A i \in 1 .. Len(q) : r[i] = q[i]
  BY AppendProperties
<1> HIDE DEF r
<1>4. t \in Seq(Seq(ByteSet)) /\ Len(t) = Len(r)
  BY <1>3, WaitingParts
<1>5. t = Append(s, ct[p])
  <2>1. /\ Append(s, ct[p]) \in Seq(Seq(ByteSet)) /\ Len(Append(s, ct[p])) = Len(s) + 1
        /\ \A i \in 1 .. Len(s) : Append(s, ct[p])[i] = s[i]
        /\ Append(s, ct[p])[Len(s) + 1] = ct[p]
    BY <1>1, <1>2, AppendProperties
  <2>2. \A i \in 1 .. Len(t) : t[i] = Append(s, ct[p])[i]
    <3>1. SUFFICES ASSUME NEW i \in 1 .. Len(t)
                   PROVE  t[i] = Append(s, ct[p])[i]
      OBVIOUS
    <3>2. t[i] = ct[r[i]]
      BY <1>4
    <3>3. CASE i \in 1 .. Len(q)
      BY <3>2, <3>3, <1>1, <1>3, <2>1
    <3>4. CASE i = Len(q) + 1
      BY <3>2, <3>4, <1>1, <1>3, <2>1
    <3>5. QED
      BY <1>1, <1>3, <1>4, <3>3, <3>4
  <2> HIDE DEF t
  <2>3. Len(t) = Len(Append(s, ct[p]))
    BY <1>1, <1>3, <1>4, <2>1
  <2>4. QED
    BY <1>4, <2>1, <2>2, <2>3, SeqEqual
<1>6. FlattenSeq(Append(s, ct[p])) = FlattenSeq(s) \o ct[p]
  <2> HIDE DEF s
  <2> QED BY <1>1, <1>2, FlattenAppend
<1>7. QED
  BY <1>5, <1>6 DEF Waiting, r

LEMMA FirstThenRest ==
  ASSUME NEW q \in Seq(Packets), q # << >>, NEW ct \in [Packets -> Seq(ByteSet)]
  PROVE  /\ Head(q) \in Packets /\ Tail(q) \in Seq(Packets) /\ Head(q) = q[1]
         /\ Len(Tail(q)) = Len(q) - 1 /\ Len(q) \in Nat \ {0}
         /\ \A i \in 1 .. Len(Tail(q)) : Tail(q)[i] = q[i + 1]
         /\ Waiting(q, ct) = ct[Head(q)] \o Waiting(Tail(q), ct)
<1> DEFINE r == Tail(q)
           s == [i \in 1 .. Len(q) |-> ct[q[i]]]
           t == [i \in 1 .. Len(r) |-> ct[r[i]]]
<1>1. s \in Seq(Seq(ByteSet)) /\ Len(s) = Len(q) /\ Len(q) \in Nat
  BY WaitingParts
<1>2. /\ Head(q) \in Packets /\ r \in Seq(Packets) /\ Len(r) = Len(q) - 1
      /\ \A i \in 1 .. Len(r) : r[i] = q[i + 1]
  BY HeadTailProperties
<1>3. Head(q) = q[1] /\ Len(q) \in Nat \ {0}
  BY EmptySeq
<1> HIDE DEF r
<1>4. t \in Seq(Seq(ByteSet)) /\ Len(t) = Len(r)
  BY <1>2, WaitingParts
<1>5. s # << >> /\ Head(s) = ct[q[1]]
  BY <1>1, <1>3
<1>6. t = Tail(s)
  <2>1. /\ Tail(s) \in Seq(Seq(ByteSet)) /\ Len(Tail(s)) = Len(s) - 1
        /\ \A i \in 1 .. Len(Tail(s)) : Tail(s)[i] = s[i + 1]
    BY <1>1, <1>5, HeadTailProperties
  <2>2. \A i \in 1 .. Len(t) : t[i] = Tail(s)[i]
    <3>1. SUFFICES ASSUME NEW i \in 1 .. Len(t)
                   PROVE  t[i] = Tail(s)[i]
      OBVIOUS
    <3>2. i \in 1 .. Len(r) /\ i \in 1 .. Len(Tail(s)) /\ i + 1 \in 1 .. Len(q)
      BY <1>1, <1>2, <1>3, <1>4, <2>1
    <3>3. t[i] = ct[r[i]] /\ r[i] = q[i + 1] /\ s[i + 1] = ct[q[i + 1]]
      BY <3>2, <1>2
    <3>4. QED
      BY <3>2, <3>3, <2>1
  <2>3. Len(t) = Len(Tail(s))
    BY <1>1, <1>2, <1>4, <2>1
  <2> HIDE DEF t, s
  <2>4. QED
    BY <1>4, <2>1, <2>2, <2>3, SeqEqual
<1>7. FlattenSeq(s) = Head(s) \o FlattenSeq(Tail(s))
  <2> HIDE DEF s
  <2> QED BY <1>1, <1>5, FlattenHeadTail
<1>8. QED
  BY <1>2, <1>3, <1>5, <1>6, <1>7 DEF Waiting, r

LEMMA OneWaits ==
  ASSUME NEW ct \in [Packets -> Seq(ByteSet)], NEW p \in Packets
  PROVE  <<p>> \in Seq(Packets) /\ Waiting(<<p>>, ct) = ct[p]
<1>1. << >> \in Seq(Packets) /\ <<p>> = Append(<< >>, p) /\ <<p>> \in Seq(Packets)
  OBVIOUS
<1>2. Waiting(<<p>>, ct) = << >> \o ct[p]
  BY <1>1, OneMoreWaits, NothingWaits
<1>3. QED
  BY <1>1, <1>2, ConcatEmptySeq

-----------------------------------------------------------------------------
(*** The buffer ***)

LEMMA RoomThere ==
  ASSUME Typed, Fits, NEW c \in Conns, NEW size \in Nat
  PROVE  /\ Room(c, size) \in Nat /\ Start(c, size) \in Nat
         /\ Len(buf[c]) \in Nat
         /\ Start(c, size) + Len(buf[c]) + Room(c, size) = Cap
<1>1. Cap \in Nat
  BY SendAssumption
<1>2. begin[c] \in Nat /\ buf[c] \in Seq(ByteSet)
  BY DEF Typed
<1> DEFINE l == Len(buf[c])
           b == begin[c]
<1>3. l \in Nat /\ b + l <= Cap
  BY <1>2 DEF Fits
<1>4. Room(c, size) = IF Packed(c, size) THEN Cap - l ELSE Cap - b - l
  BY DEF Room, AtTail
<1>5. Start(c, size) = IF Packed(c, size) THEN 0 ELSE b
  BY DEF Start
<1> HIDE DEF l, b
<1>6. b \in Nat
  BY <1>2 DEF b
<1>7. CASE Packed(c, size)
  <2>1. Room(c, size) = Cap - l /\ Start(c, size) = 0
    BY <1>4, <1>5, <1>7
  <2>2. QED
    BY <2>1, <1>1, <1>3, <1>6 DEF l
<1>8. CASE ~Packed(c, size)
  <2>1. Room(c, size) = Cap - b - l /\ Start(c, size) = b
    BY <1>4, <1>5, <1>8
  <2>2. QED
    BY <2>1, <1>1, <1>3, <1>6 DEF l
<1>9. QED
  BY <1>7, <1>8

LEMMA HeldTyped ==
  ASSUME Typed, Fits, NEW c \in Conns, NEW b \in Seq(ByteSet), NEW s \in Nat,
         NEW n \in 0 .. Len(b), s + Len(b) <= Cap \/ n = Len(b), Holds(c, b, s, n)
  PROVE  /\ buf' \in [Conns -> Seq(ByteSet)] /\ begin' \in [Conns -> Nat] /\ Fits'
         /\ buf' = [buf EXCEPT ![c] = After(b, n)]
         /\ buf'[c] = After(b, n) /\ \A d \in Conns \ {c} : buf'[d] = buf[d]
<1> DEFINE a == After(b, n)
           e == IF n = Len(b) THEN 0 ELSE s + n
<1>1. Cap \in Nat /\ Len(b) \in Nat
  BY SendAssumption
<1>2. a \in Seq(ByteSet) /\ Len(a) = Len(b) - n
  BY Parts
<1>3. buf' = [buf EXCEPT ![c] = a] /\ begin' = [begin EXCEPT ![c] = e]
  BY DEF Holds
<1>4. e \in Nat /\ e + (Len(b) - n) <= Cap
  BY <1>1
<1> HIDE DEF a, e
<1>5. buf \in [Conns -> Seq(ByteSet)] /\ begin \in [Conns -> Nat]
  BY DEF Typed
<1>6. /\ buf' \in [Conns -> Seq(ByteSet)] /\ begin' \in [Conns -> Nat]
      /\ buf'[c] = a /\ begin'[c] = e
      /\ \A d \in Conns \ {c} : buf'[d] = buf[d] /\ begin'[d] = begin[d]
  BY <1>2, <1>3, <1>4, <1>5
<1>7. Fits'
  <2>1. SUFFICES ASSUME NEW d \in Conns
                 PROVE  begin'[d] + Len(buf'[d]) <= Cap
    BY DEF Fits
  <2>2. CASE d = c
    BY <2>2, <1>2, <1>4, <1>6
  <2>3. CASE d # c
    BY <2>3, <1>6 DEF Fits
  <2>4. QED
    BY <2>2, <2>3
<1>8. QED
  BY <1>3, <1>6, <1>7 DEF a

LEMMA TakenTyped ==
  ASSUME Typed, NEW c \in Conns, NEW b \in Seq(ByteSet), NEW o \in Seq(ByteSet),
         NEW n \in 0 .. Len(b), Takes(c, b, o, n)
  PROVE  owed' \in [Conns -> Seq(ByteSet)] /\ garbled' \in [Conns -> BOOLEAN]
<1> DEFINE bad == garbled[c] \/ ~IsPrefix(Upto(b, n), o)
           left1 == IF bad THEN << >> ELSE After(o, n)
<1>1. /\ garbled' = [garbled EXCEPT ![c] = bad]
      /\ owed' = [owed EXCEPT ![c] = left1]
  BY DEF Takes
<1>2. left1 \in Seq(ByteSet)
  <2>1. CASE bad
    BY <2>1, EmptySeq
  <2>2. CASE ~bad
    <3>1. Upto(b, n) \in Seq(ByteSet) /\ Len(Upto(b, n)) = n /\ IsPrefix(Upto(b, n), o)
      BY <2>2, Parts
    <3>2. n \in 0 .. Len(o)
      BY <3>1, PrefixIsShorter
    <3>3. After(o, n) \in Seq(ByteSet)
      BY <3>2, Parts
    <3>4. left1 = After(o, n)
      BY <2>2
    <3> HIDE DEF left1
    <3>5. QED
      BY <3>3, <3>4
  <2>3. QED
    BY <2>1, <2>2
<1>3. bad \in BOOLEAN
  <2>1. garbled[c] \in BOOLEAN
    BY DEF Typed
  <2>2. QED
    BY <2>1
<1> HIDE DEF bad, left1
<1>4. owed \in [Conns -> Seq(ByteSet)] /\ garbled \in [Conns -> BOOLEAN]
  BY DEF Typed
<1>5. QED
  BY <1>1, <1>2, <1>3, <1>4

\* Bytes that are owed are taken as they are owed.
LEMMA TakenInOrder ==
  ASSUME Typed, NEW c \in Conns, NEW s \in Seq(ByteSet), NEW t \in Seq(ByteSet),
         NEW n \in 0 .. Len(s), ~garbled[c], Takes(c, s, s \o t, n)
  PROVE  ~garbled'[c] /\ owed'[c] = After(s, n) \o t
<1>1. IsPrefix(Upto(s, n), s \o t) /\ After(s \o t, n) = After(s, n) \o t
  BY PrefixOfJoin
<1> DEFINE bad == garbled[c] \/ ~IsPrefix(Upto(s, n), s \o t)
<1>2. /\ garbled' = [garbled EXCEPT ![c] = bad]
      /\ owed' = [owed EXCEPT ![c] = IF bad THEN << >> ELSE After(s \o t, n)]
  BY DEF Takes
<1>3. ~bad
  BY <1>1
<1> HIDE DEF bad
<1>4. owed \in [Conns -> Seq(ByteSet)] /\ garbled \in [Conns -> BOOLEAN]
  BY DEF Typed
<1>5. garbled'[c] = bad /\ owed'[c] = After(s \o t, n)
  BY <1>2, <1>3, <1>4
<1>6. QED
  BY <1>1, <1>3, <1>5

LEMMA OthersTaken ==
  ASSUME Typed, NEW c \in Conns, NEW b, NEW o, NEW n, Takes(c, b, o, n), NEW d \in Conns, d # c
  PROVE  garbled'[d] = garbled[d] /\ owed'[d] = owed[d]
<1>1. owed \in [Conns -> Seq(ByteSet)] /\ garbled \in [Conns -> BOOLEAN]
  BY DEF Typed
<1> DEFINE bad == garbled[c] \/ ~IsPrefix(Upto(b, n), o)
           x == IF bad THEN << >> ELSE After(o, n)
<1>2. /\ garbled' = [garbled EXCEPT ![c] = bad]
      /\ owed' = [owed EXCEPT ![c] = x]
  BY DEF Takes
<1> HIDE DEF bad, x
<1>3. QED
  BY <1>1, <1>2

LEMMA ShortenedTyped ==
  ASSUME Typed, NEW c \in Conns, NEW p \in Packets, NEW n \in 0 .. Len(content[p]),
         Shortened(c, p, n)
  PROVE  /\ content' \in [Packets -> Seq(ByteSet)] /\ content'[p] = After(content[p], n)
         /\ \A q \in Packets \ {p} : content'[q] = content[q]
<1>1. content[p] \in Seq(ByteSet) /\ content \in [Packets -> Seq(ByteSet)]
  BY DEF Typed
<1> DEFINE a == After(content[p], n)
<1>2. a \in Seq(ByteSet)
  BY <1>1, Parts
<1>3. content' = [content EXCEPT ![p] = a]
  BY DEF Shortened
<1> HIDE DEF a
<1>4. QED
  BY <1>1, <1>2, <1>3 DEF a

LEMMA AgainThere ==
  ASSUME Typed, Fits, NEW c \in Conns, NEW p \in Packets,
         Room(c, Len(content[p])) >= Len(content[p])
  PROVE  /\ Again(c, p) \in Seq(ByteSet) /\ Len(Again(c, p)) \in Nat
         /\ Start(c, Len(content[p])) + Len(buf[c]) + Len(content[p]) + Len(Again(c, p)) <= Cap
<1> DEFINE size == Len(content[p])
           l == Len(buf[c])
           s == Start(c, size)
           r == Room(c, size)
           a == Again(c, p)
<1>1. size \in Nat /\ Cap \in Nat
  BY SendAssumption DEF Typed
<1>2. s \in Nat /\ l \in Nat /\ r \in Nat /\ s + l + r = Cap
  BY <1>1, RoomThere
<1>3. a = IF Cap - s - l - size >= size THEN [i \in 1 .. size |-> Junk] ELSE << >>
  BY DEF Again
<1>4. r >= size
  OBVIOUS
<1> HIDE DEF size, l, s, r, a
<1>5. CASE Cap - s - l - size >= size
  <2>1. Junk \in ByteSet
    BY DEF ByteSet
  <2>2. a \in [1 .. size -> ByteSet]
    BY <1>3, <1>5, <2>1
  <2>3. a \in Seq(ByteSet) /\ Len(a) = size
    BY <2>2, <1>1
  <2>4. s + l + size + size <= Cap
    BY <1>1, <1>2, <1>4, <1>5
  <2>5. QED
    BY <1>1, <2>3, <2>4 DEF size, l, s, a
<1>6. CASE ~(Cap - s - l - size >= size)
  <2>1. a = << >>
    BY <1>3, <1>6
  <2>2. a \in Seq(ByteSet) /\ Len(a) = 0
    BY <2>1
  <2>3. s + l + size + 0 <= Cap
    BY <1>1, <1>2, <1>4
  <2>4. QED
    BY <2>2, <2>3 DEF size, l, s, a
<1>7. QED
  BY <1>5, <1>6

-----------------------------------------------------------------------------
(*** sendPacket ***)

LEMMA SendTyped ==
  ASSUME Typed, Fits, NEW c \in Conns, NEW p \in Packets, SendPacket(c, p)
  PROVE  /\ content' \in [Packets -> Seq(ByteSet)]
         /\ sendQueue' \in [Conns -> Seq(Packets)]
         /\ buf' \in [Conns -> Seq(ByteSet)] /\ owed' \in [Conns -> Seq(ByteSet)]
         /\ begin' \in [Conns -> Nat] /\ Fits'
         /\ wantsWrite' \in [Conns -> BOOLEAN]
         /\ netPc' = netPc /\ cur' = cur
         /\ garbled' \in [Conns -> BOOLEAN] /\ mishap' \in [Conns -> BOOLEAN]
<1> DEFINE ct == content[p]
           bf == buf[c]
           ow == owed[c]
           size == Len(ct)
<1>1. /\ ct \in Seq(ByteSet) /\ bf \in Seq(ByteSet) /\ ow \in Seq(ByteSet) /\ size \in Nat
      /\ Bytes(p) \in Seq(ByteSet) /\ Cap \in Nat
  BY BytesTyped, SendAssumption DEF Typed
<1>2. netPc' = netPc /\ cur' = cur
  BY DEF SendPacket, netVars
<1>3. <<p>> \in Seq(Packets)
  OBVIOUS
<1>4. /\ bf \o ct \in Seq(ByteSet) /\ Len(bf \o ct) = Len(bf) + size /\ Len(bf) \in Nat
      /\ ow \o Bytes(p) \in Seq(ByteSet)
  BY <1>1, JoinedBytes
<1>5. /\ Room(c, size) \in Nat /\ Start(c, size) \in Nat
      /\ Start(c, size) + Len(bf) + Room(c, size) = Cap
  BY <1>1, RoomThere
<1>6. CASE SendQueued(c, p)
  <2>1. /\ sendQueue' = [sendQueue EXCEPT ![c] = Append(sendQueue[c], p)]
        /\ owed' = [owed EXCEPT ![c] = IF garbled[c] THEN << >> ELSE ow \o Bytes(p)]
        /\ mishap' = [mishap EXCEPT ![c] = mishap[c] \/ content[p] # Bytes(p)]
        /\ content' = content /\ buf' = buf /\ begin' = begin
        /\ wantsWrite' = wantsWrite /\ garbled' = garbled
    BY <1>6 DEF SendQueued, bufVars
  <2>2. Append(sendQueue[c], p) \in Seq(Packets)
    BY AppendProperties DEF Typed
  <2>3. (IF garbled[c] THEN << >> ELSE ow \o Bytes(p)) \in Seq(ByteSet)
    BY <1>4, EmptySeq
  <2> DEFINE x == IF garbled[c] THEN << >> ELSE ow \o Bytes(p)
             y == mishap[c] \/ content[p] # Bytes(p)
             z == Append(sendQueue[c], p)
  <2>4. y \in BOOLEAN
    BY DEF Typed
  <2> HIDE DEF x, y, z
  <2>5. sendQueue' \in [Conns -> Seq(Packets)]
    BY <2>1, <2>2 DEF Typed, z
  <2>6. owed' \in [Conns -> Seq(ByteSet)]
    BY <2>1, <2>3 DEF Typed, x
  <2>7. mishap' \in [Conns -> BOOLEAN]
    BY <2>1, <2>4 DEF Typed, y
  <2>8. Fits'
    BY <2>1 DEF Fits
  <2>9. QED
    BY <1>2, <2>1, <2>5, <2>6, <2>7, <2>8 DEF Typed
<1>7. CASE SendRefused(c, p)
  <2>1. /\ content' = content /\ sendQueue' = sendQueue /\ buf' = buf /\ begin' = begin
        /\ wantsWrite' = wantsWrite /\ owed' = owed /\ garbled' = garbled /\ mishap' = mishap
    BY <1>7 DEF SendRefused, bufVars, histVars
  <2>2. QED
    BY <1>2, <2>1 DEF Typed, Fits
<1>8. CASE SendAtOnce(c, p)
  <2>1. /\ Holds(c, bf \o ct, 0, Len(bf \o ct))
        /\ Takes(c, bf \o ct, ow \o Bytes(p), Len(bf \o ct))
        /\ mishap' = [mishap EXCEPT ![c] = mishap[c] \/ content[p] # Bytes(p)]
        /\ content' = content /\ sendQueue' = sendQueue /\ wantsWrite' = wantsWrite
    BY <1>8 DEF SendAtOnce
  <2> DEFINE b == bf \o ct
             o == ow \o Bytes(p)
             y == mishap[c] \/ content[p] # Bytes(p)
  <2>2. b \in Seq(ByteSet) /\ o \in Seq(ByteSet) /\ Holds(c, b, 0, Len(b)) /\ Takes(c, b, o, Len(b))
    BY <1>4, <2>1
  <2>3. y \in BOOLEAN
    BY DEF Typed
  <2> HIDE DEF b, o, y
  <2>4. Len(b) \in 0 .. Len(b) /\ 0 \in Nat
    BY <2>2
  <2>5. buf' \in [Conns -> Seq(ByteSet)] /\ begin' \in [Conns -> Nat] /\ Fits'
    BY <2>2, <2>4, HeldTyped
  <2>6. owed' \in [Conns -> Seq(ByteSet)] /\ garbled' \in [Conns -> BOOLEAN]
    BY <2>2, <2>4, TakenTyped
  <2>7. mishap' \in [Conns -> BOOLEAN]
    BY <2>1, <2>3 DEF Typed, y
  <2>8. QED
    BY <1>2, <2>1, <2>5, <2>6, <2>7 DEF Typed
<1>9. CASE SendPart(c, p)
  <2> DEFINE n == Room(c, size)
  <2>1. /\ n < size
        /\ Holds(c, bf \o Upto(ct, n), Start(c, size), 0)
        /\ Shortened(c, p, n)
        /\ sendQueue' = [sendQueue EXCEPT ![c] = <<p>>]
        /\ wantsWrite' = [wantsWrite EXCEPT ![c] = TRUE]
        /\ owed' = [owed EXCEPT ![c] = IF garbled[c] THEN << >> ELSE ow \o Bytes(p)]
        /\ mishap' = [d \in Conns |-> mishap[d] \/ (n > 0 /\ d \in SharedWith(c, p))
                        \/ (d = c /\ content[p] # Bytes(p))]
        /\ garbled' = garbled
    BY <1>9 DEF SendPart, AsksToWrite
  <2>2. n \in 0 .. Len(ct)
    BY <2>1, <1>5, <1>1
  <2>3. Upto(ct, n) \in Seq(ByteSet) /\ Len(Upto(ct, n)) = n
    BY <1>1, <2>2, Parts
  <2>4. bf \o Upto(ct, n) \in Seq(ByteSet) /\ Len(bf \o Upto(ct, n)) = Len(bf) + n
    <3> DEFINE u == Upto(ct, n)
    <3>1. u \in Seq(ByteSet) /\ Len(u) = n /\ bf \in Seq(ByteSet)
      BY <1>1, <2>3
    <3> HIDE DEF u, n, bf
    <3>2. bf \o u \in Seq(ByteSet) /\ Len(bf \o u) = Len(bf) + n
      BY <3>1, JoinedBytes
    <3>3. QED
      BY <3>2 DEF u
  <2> DEFINE b == bf \o Upto(ct, n)
             s == Start(c, size)
             x == IF garbled[c] THEN << >> ELSE ow \o Bytes(p)
  <2>5. b \in Seq(ByteSet) /\ s \in Nat /\ s + Len(b) <= Cap /\ Holds(c, b, s, 0)
    <3>1. s + (Len(bf) + n) = Cap
      BY <1>4, <1>5
    <3>2. QED
      BY <1>1, <1>5, <2>1, <2>4, <3>1
  <2>6. x \in Seq(ByteSet)
    BY <1>4, EmptySeq
  <2> HIDE DEF b, s, x
  <2>7. 0 \in 0 .. Len(b)
    BY <2>5
  <2>8. buf' \in [Conns -> Seq(ByteSet)] /\ begin' \in [Conns -> Nat] /\ Fits'
    BY <2>5, <2>7, HeldTyped
  <2>9. content' \in [Packets -> Seq(ByteSet)]
    BY <2>1, <2>2, ShortenedTyped
  <2>10. sendQueue' \in [Conns -> Seq(Packets)] /\ wantsWrite' \in [Conns -> BOOLEAN]
    BY <2>1, <1>3 DEF Typed
  <2>11. owed' \in [Conns -> Seq(ByteSet)]
    BY <2>1, <2>6 DEF Typed, x
  <2>12. mishap' \in [Conns -> BOOLEAN]
    <3>1. \A d \in Conns : (mishap[d] \/ (n > 0 /\ d \in SharedWith(c, p))
                        \/ (d = c /\ content[p] # Bytes(p))) \in BOOLEAN
      BY DEF Typed
    <3>2. QED
      BY <2>1, <3>1
  <2>13. QED
    BY <1>2, <2>1, <2>8, <2>9, <2>10, <2>11, <2>12 DEF Typed
<1>10. ASSUME NEW n \in 0 .. Cap, SendSlowly(c, p, n)
       PROVE  /\ content' \in [Packets -> Seq(ByteSet)]
              /\ sendQueue' \in [Conns -> Seq(Packets)]
              /\ buf' \in [Conns -> Seq(ByteSet)] /\ owed' \in [Conns -> Seq(ByteSet)]
              /\ begin' \in [Conns -> Nat] /\ Fits'
              /\ wantsWrite' \in [Conns -> BOOLEAN]
              /\ garbled' \in [Conns -> BOOLEAN] /\ mishap' \in [Conns -> BOOLEAN]
  <2> DEFINE b == bf \o ct
             o == ow \o Bytes(p)
             a == Again(c, p)
             s == Start(c, size)
             e == b \o a
  <2>1. /\ Room(c, size) >= size /\ n < Len(b)
        /\ Holds(c, e, s, n)
        /\ Takes(c, b, o, n)
        /\ Shortened(c, p, size)
        /\ sendQueue' = [sendQueue EXCEPT ![c] = <<p>>]
        /\ wantsWrite' = [wantsWrite EXCEPT ![c] = TRUE]
        /\ mishap' = [d \in Conns |-> mishap[d] \/ d \in SharedWith(c, p)
                        \/ (d = c /\ (content[p] # Bytes(p) \/ a # << >>))]
    BY <1>10 DEF SendSlowly, AsksToWrite
  <2>2. a \in Seq(ByteSet) /\ s + Len(bf) + size + Len(a) <= Cap
    BY <2>1, AgainThere
  <2>3. b \in Seq(ByteSet) /\ o \in Seq(ByteSet) /\ Len(b) = Len(bf) + size
    BY <1>4
  <2>4. s \in Nat
    BY <1>5
  <2> HIDE DEF b, o, a, s
  <2>5. e \in Seq(ByteSet) /\ Len(e) = Len(b) + Len(a) /\ Len(b) \in Nat /\ Len(a) \in Nat
    BY <2>2, <2>3, JoinedBytes
  <2> HIDE DEF e
  <2>6. n \in 0 .. Len(b) /\ n \in 0 .. Len(e) /\ s + Len(e) <= Cap
    <3>1. n \in Nat /\ Len(bf) \in Nat /\ size \in Nat
      BY <1>1, <1>4, SendAssumption
    <3> HIDE DEF bf, size
    <3>2. s + Len(e) <= Cap
      BY <3>1, <2>2, <2>3, <2>4, <2>5
    <3>3. n < Len(b) /\ n \in 0 .. Len(b) /\ n \in 0 .. Len(e)
      BY <3>1, <2>1, <2>5
    <3>4. QED
      BY <3>2, <3>3
  <2>7. buf' \in [Conns -> Seq(ByteSet)] /\ begin' \in [Conns -> Nat] /\ Fits'
    BY <2>1, <2>4, <2>5, <2>6, HeldTyped
  <2>8. owed' \in [Conns -> Seq(ByteSet)] /\ garbled' \in [Conns -> BOOLEAN]
    BY <2>1, <2>3, <2>6, TakenTyped
  <2>9. content' \in [Packets -> Seq(ByteSet)]
    <3>1. size \in 0 .. Len(content[p])
      BY <1>1
    <3>2. QED
      BY <2>1, <3>1, ShortenedTyped
  <2>10. sendQueue' \in [Conns -> Seq(Packets)] /\ wantsWrite' \in [Conns -> BOOLEAN]
    BY <2>1, <1>3 DEF Typed
  <2>11. mishap' \in [Conns -> BOOLEAN]
    <3>1. \A d \in Conns : (mishap[d] \/ d \in SharedWith(c, p)
                        \/ (d = c /\ (content[p] # Bytes(p) \/ a # << >>))) \in BOOLEAN
      BY DEF Typed
    <3>2. QED
      BY <2>1, <3>1
  <2>12. QED
    BY <2>7, <2>8, <2>9, <2>10, <2>11
<1>11. QED
  BY <1>2, <1>6, <1>7, <1>8, <1>9, <1>10 DEF SendPacket

-----------------------------------------------------------------------------
(*** The bytes of one connection ***)

\* InOrder, for one connection.
Ordered(c) ==
  ~mishap[c] => ~garbled[c] /\ buf[c] \o Waiting(sendQueue[c], content) = owed[c]

LEMMA OrderedAll == InOrder <=> \A c \in Conns : Ordered(c)
BY DEF InOrder, Ordered, Pending, Waiting

LEMMA ConnTyped ==
  ASSUME Typed, NEW c \in Conns
  PROVE  /\ buf[c] \in Seq(ByteSet) /\ owed[c] \in Seq(ByteSet) /\ sendQueue[c] \in Seq(Packets)
         /\ content \in [Packets -> Seq(ByteSet)]
         /\ Waiting(sendQueue[c], content) \in Seq(ByteSet)
         /\ garbled[c] \in BOOLEAN /\ mishap[c] \in BOOLEAN
         /\ \A i \in 1 .. Len(sendQueue[c]) : sendQueue[c][i] \in Packets
         /\ Range(sendQueue[c]) = {sendQueue[c][i] : i \in 1 .. Len(sendQueue[c])}
<1>1. /\ buf[c] \in Seq(ByteSet) /\ owed[c] \in Seq(ByteSet) /\ sendQueue[c] \in Seq(Packets)
      /\ content \in [Packets -> Seq(ByteSet)] /\ garbled[c] \in BOOLEAN /\ mishap[c] \in BOOLEAN
  BY DEF Typed
<1>2. Waiting(sendQueue[c], content) \in Seq(ByteSet)
  BY <1>1, WaitingTyped
<1>3. DOMAIN sendQueue[c] = 1 .. Len(sendQueue[c]) /\ \A i \in 1 .. Len(sendQueue[c]) : sendQueue[c][i] \in Packets
  BY <1>1
<1>4. QED
  BY <1>1, <1>2, <1>3 DEF Range

\* What happens to one connection leaves the others in order.
LEMMA OthersInOrder ==
  ASSUME Typed, NEW d \in Conns, Ordered(d),
         buf'[d] = buf[d], sendQueue'[d] = sendQueue[d],
         owed'[d] = owed[d], garbled'[d] = garbled[d],
         ~mishap'[d] => ~mishap[d] /\ \A i \in 1 .. Len(sendQueue[d]) :
                                        content'[sendQueue[d][i]] = content[sendQueue[d][i]]
  PROVE  Ordered(d)'
<1>1. SUFFICES ASSUME ~mishap'[d]
               PROVE  ~garbled'[d] /\ buf'[d] \o Waiting(sendQueue'[d], content') = owed'[d]
  BY DEF Ordered, Waiting
<1>2. ~garbled[d] /\ buf[d] \o Waiting(sendQueue[d], content) = owed[d]
  BY <1>1 DEF Ordered
<1>3. Waiting(sendQueue[d], content) = Waiting(sendQueue[d], content')
  BY <1>1, ConnTyped, WaitingSame
<1>4. QED
  BY <1>2, <1>3

\* A packet shortened for one is noticed by those who wait with it, only.
LEMMA ShortenedForOthers ==
  ASSUME Typed, NEW c \in Conns, NEW d \in Conns, d # c, NEW p \in Packets,
         NEW n \in 0 .. Len(content[p]), Shortened(c, p, n),
         n > 0 => d \notin SharedWith(c, p)
  PROVE  \A i \in 1 .. Len(sendQueue[d]) : content'[sendQueue[d][i]] = content[sendQueue[d][i]]
<1>1. SUFFICES ASSUME NEW i \in 1 .. Len(sendQueue[d])
               PROVE  content'[sendQueue[d][i]] = content[sendQueue[d][i]]
  OBVIOUS
<1>2. sendQueue[d][i] \in Packets /\ sendQueue[d][i] \in Range(sendQueue[d])
  BY ConnTyped
<1>3. content'[p] = After(content[p], n) /\ \A q \in Packets \ {p} : content'[q] = content[q]
  BY ShortenedTyped
<1>4. CASE n > 0
  <2>1. p \notin Range(sendQueue[d])
    BY <1>4 DEF SharedWith
  <2>2. QED
    BY <1>2, <1>3, <2>1
<1>5. CASE ~(n > 0)
  <2>1. n = 0
    BY <1>5
  <2>2. content[p] \in Seq(ByteSet)
    BY DEF Typed
  <2>3. content'[p] = content[p]
    BY <1>3, <2>1, <2>2, Wholes
  <2>4. QED
    BY <1>2, <1>3, <2>3
<1>6. QED
  BY <1>4, <1>5

LEMMA JoinTwice ==
  ASSUME NEW s \in Seq(ByteSet), NEW t \in Seq(ByteSet), NEW u \in Seq(ByteSet)
  PROVE  (s \o t) \o u = s \o (t \o u)
BY ConcatAssociative

LEMMA QueuedInOrder ==
  ASSUME Typed, Fits, NEW c \in Conns, NEW p \in Packets, SendQueued(c, p),
         \A d \in Conns : Ordered(d)
  PROVE  \A d \in Conns : Ordered(d)'
<1>1. /\ sendQueue' = [sendQueue EXCEPT ![c] = Append(sendQueue[c], p)]
      /\ owed' = [owed EXCEPT ![c] = IF garbled[c] THEN << >> ELSE owed[c] \o Bytes(p)]
      /\ mishap' = [mishap EXCEPT ![c] = mishap[c] \/ content[p] # Bytes(p)]
      /\ content' = content /\ buf' = buf /\ garbled' = garbled
  BY DEF SendQueued, bufVars
<1>2. \A d \in Conns \ {c} : Ordered(d)'
  <2>1. SUFFICES ASSUME NEW d \in Conns, d # c
                 PROVE  Ordered(d)'
    OBVIOUS
  <2>2. sendQueue'[d] = sendQueue[d] /\ owed'[d] = owed[d] /\ mishap'[d] = mishap[d]
    BY <1>1, <2>1 DEF Typed
  <2>3. QED
    BY <1>1, <2>1, <2>2, OthersInOrder
<1>3. ASSUME ~mishap'[c]
      PROVE  ~garbled'[c] /\ buf'[c] \o Waiting(sendQueue'[c], content') = owed'[c]
  <2>1. mishap'[c] = (mishap[c] \/ content[p] # Bytes(p))
    BY <1>1 DEF Typed
  <2>2. ~mishap[c] /\ content[p] = Bytes(p)
    BY <1>3, <2>1
  <2>3. ~garbled[c] /\ buf[c] \o Waiting(sendQueue[c], content) = owed[c]
    BY <2>2 DEF Ordered
  <2>4. sendQueue'[c] = Append(sendQueue[c], p)
    BY <1>1 DEF Typed
  <2>5. owed'[c] = owed[c] \o Bytes(p)
    BY <1>1, <2>3 DEF Typed
  <2>6. Waiting(sendQueue'[c], content') = Waiting(sendQueue[c], content) \o Bytes(p)
    <3>1. sendQueue[c] \in Seq(Packets) /\ content \in [Packets -> Seq(ByteSet)]
      BY ConnTyped
    <3>2. Waiting(Append(sendQueue[c], p), content) = Waiting(sendQueue[c], content) \o content[p]
      BY <3>1, OneMoreWaits
    <3>3. QED
      BY <1>1, <2>2, <2>4, <3>2
  <2>7. (buf[c] \o Waiting(sendQueue[c], content)) \o Bytes(p)
          = buf[c] \o (Waiting(sendQueue[c], content) \o Bytes(p))
    <3> DEFINE x == buf[c]
               y == Waiting(sendQueue[c], content)
               z == Bytes(p)
    <3>1. x \in Seq(ByteSet) /\ y \in Seq(ByteSet) /\ z \in Seq(ByteSet)
      BY ConnTyped, BytesTyped
    <3> HIDE DEF x, y, z
    <3>2. (x \o y) \o z = x \o (y \o z)
      BY <3>1, JoinTwice
    <3>3. QED
      BY <3>2 DEF x, y, z
  <2>8. QED
    BY <1>1, <2>3, <2>5, <2>6, <2>7
<1>4. QED
  BY <1>2, <1>3 DEF Ordered, Waiting

LEMMA AtOnceInOrder ==
  ASSUME Typed, Fits, NEW c \in Conns, NEW p \in Packets, SendAtOnce(c, p),
         \A d \in Conns : Ordered(d)
  PROVE  \A d \in Conns : Ordered(d)'
<1> DEFINE b == buf[c] \o content[p]
           o == owed[c] \o Bytes(p)
<1>1. /\ sendQueue[c] = << >>
      /\ Holds(c, b, 0, Len(b)) /\ Takes(c, b, o, Len(b))
      /\ mishap' = [mishap EXCEPT ![c] = mishap[c] \/ content[p] # Bytes(p)]
      /\ content' = content /\ sendQueue' = sendQueue
  BY DEF SendAtOnce, NothingQueued
<1>2. b \in Seq(ByteSet) /\ Len(b) \in 0 .. Len(b) /\ Len(b) \in Nat
  <2>1. buf[c] \in Seq(ByteSet) /\ content[p] \in Seq(ByteSet)
    BY DEF Typed
  <2>2. b \in Seq(ByteSet)
    BY <2>1, JoinedBytes
  <2> HIDE DEF b
  <2>3. QED
    BY <2>2
<1> HIDE DEF b, o
<1>3. buf'[c] = After(b, Len(b)) /\ \A d \in Conns \ {c} : buf'[d] = buf[d]
  BY <1>1, <1>2, HeldTyped
<1>4. \A d \in Conns \ {c} : Ordered(d)'
  <2>1. SUFFICES ASSUME NEW d \in Conns, d # c
                 PROVE  Ordered(d)'
    OBVIOUS
  <2>2. garbled'[d] = garbled[d] /\ owed'[d] = owed[d]
    BY <1>1, <2>1, OthersTaken
  <2>3. mishap'[d] = mishap[d]
    BY <1>1, <2>1 DEF Typed
  <2>4. QED
    BY <1>1, <1>3, <2>1, <2>2, <2>3, OthersInOrder
<1>5. ASSUME ~mishap'[c]
      PROVE  ~garbled'[c] /\ buf'[c] \o Waiting(sendQueue'[c], content') = owed'[c]
  <2>1. mishap'[c] = (mishap[c] \/ content[p] # Bytes(p))
    BY <1>1 DEF Typed
  <2>2. ~mishap[c] /\ content[p] = Bytes(p)
    BY <1>5, <2>1
  <2>3. ~garbled[c] /\ buf[c] \o Waiting(sendQueue[c], content) = owed[c]
    BY <2>2 DEF Ordered
  <2>4. Waiting(sendQueue[c], content) = << >>
    BY <1>1, NothingWaits
  <2>5. owed[c] = buf[c]
    <3>1. buf[c] \o << >> = buf[c]
      BY ConnTyped, ConcatEmptySeq
    <3>2. QED
      BY <2>3, <2>4, <3>1
  <2>6. o = b \o << >>
    <3>1. o = b
      BY <2>2, <2>5 DEF o, b
    <3>2. QED
      BY <3>1, <1>2, ConcatEmptySeq
  <2>7. Takes(c, b, b \o << >>, Len(b)) /\ << >> \in Seq(ByteSet)
    BY <1>1, <2>6, EmptySeq
  <2>8. ~garbled'[c] /\ owed'[c] = After(b, Len(b)) \o << >>
    BY <1>2, <2>3, <2>7, TakenInOrder
  <2>9. After(b, Len(b)) = << >>
    BY <1>2, Wholes
  <2>10. QED
    BY <1>1, <1>3, <2>4, <2>8, <2>9
<1>6. QED
  BY <1>4, <1>5 DEF Ordered, Waiting

LEMMA SlowlyInOrder ==
  ASSUME Typed, Fits, NEW c \in Conns, NEW p \in Packets, NEW n \in 0 .. Cap,
         SendSlowly(c, p, n), \A d \in Conns : Ordered(d)
  PROVE  \A d \in Conns : Ordered(d)'
<1> DEFINE size == Len(content[p])
           b == buf[c] \o content[p]
           o == owed[c] \o Bytes(p)
           a == Again(c, p)
           s == Start(c, size)
<1>1. /\ sendQueue[c] = << >>
      /\ Room(c, size) >= size /\ n < Len(b)
      /\ Holds(c, b \o a, s, n) /\ Takes(c, b, o, n)
      /\ Shortened(c, p, size)
      /\ sendQueue' = [sendQueue EXCEPT ![c] = <<p>>]
      /\ mishap' = [d \in Conns |-> mishap[d] \/ d \in SharedWith(c, p)
                        \/ (d = c /\ (content[p] # Bytes(p) \/ a # << >>))]
  BY DEF SendSlowly, NothingQueued
<1>2. /\ b \in Seq(ByteSet) /\ Len(b) \in Nat /\ content[p] \in Seq(ByteSet)
      /\ size \in Nat /\ size \in 0 .. Len(content[p]) /\ Len(b) = Len(buf[c]) + size
      /\ Len(buf[c]) \in Nat
  <2>1. content[p] \in Seq(ByteSet)
    BY DEF Typed
  <2>2. buf[c] \in Seq(ByteSet)
    BY DEF Typed
  <2>3. b \in Seq(ByteSet) /\ Len(b) = Len(buf[c]) + size /\ Len(buf[c]) \in Nat /\ size \in Nat
    BY <2>1, <2>2, JoinedBytes
  <2> HIDE DEF b
  <2>4. size \in 0 .. size /\ Len(b) \in Nat
    <3> HIDE DEF size
    <3> QED BY <2>3
  <2> HIDE DEF size
  <2>5. QED
    BY <2>1, <2>3, <2>4 DEF size
<1>3. a \in Seq(ByteSet) /\ Len(a) \in Nat /\ s + Len(buf[c]) + size + Len(a) <= Cap /\ s \in Nat
  BY <1>1, <1>2, AgainThere, RoomThere
<1> HIDE DEF b, o, a, s
<1>4. b \o a \in Seq(ByteSet) /\ Len(b \o a) = Len(b) + Len(a)
  BY <1>2, <1>3, JoinedBytes
<1>5. /\ n \in 0 .. Len(b) /\ n \in 0 .. Len(b \o a) /\ s + Len(b \o a) <= Cap
  <2> DEFINE l == Len(buf[c])
             k == Len(b)
             m == Len(a)
             x == Len(b \o a)
  <2>1. n \in Nat
    BY SendAssumption
  <2>2. x = k + m /\ k = l + size /\ s + l + size + m <= Cap /\ n < k
        /\ l \in Nat /\ k \in Nat /\ m \in Nat
    BY <1>1, <1>2, <1>3, <1>4
  <2> HIDE DEF l, k, m, x, size
  <2>3. n \in 0 .. k /\ n \in 0 .. x /\ s + x <= Cap
    BY <2>1, <2>2, <1>2, <1>3
  <2>4. QED
    BY <2>3 DEF k, x
<1>6. buf'[c] = After(b \o a, n) /\ \A d \in Conns \ {c} : buf'[d] = buf[d]
  <2> DEFINE e == b \o a
  <2>1. e \in Seq(ByteSet) /\ n \in 0 .. Len(e) /\ s + Len(e) <= Cap /\ Holds(c, e, s, n)
    BY <1>1, <1>4, <1>5
  <2> HIDE DEF e
  <2>2. buf'[c] = After(e, n) /\ \A d \in Conns \ {c} : buf'[d] = buf[d]
    BY <1>3, <2>1, HeldTyped
  <2>3. QED
    BY <2>2 DEF e
<1>7. content'[p] = After(content[p], size) /\ content' \in [Packets -> Seq(ByteSet)]
  BY <1>1, <1>2, ShortenedTyped
<1>8. \A d \in Conns \ {c} : Ordered(d)'
  <2>1. SUFFICES ASSUME NEW d \in Conns, d # c
                 PROVE  Ordered(d)'
    OBVIOUS
  <2>2. garbled'[d] = garbled[d] /\ owed'[d] = owed[d]
    BY <1>1, <2>1, OthersTaken
  <2>3. mishap'[d] = (mishap[d] \/ d \in SharedWith(c, p))
    BY <1>1, <2>1
  <2>4. sendQueue'[d] = sendQueue[d]
    BY <1>1, <2>1 DEF Typed
  <2>5. ~mishap'[d] => ~mishap[d] /\ \A i \in 1 .. Len(sendQueue[d]) :
                                       content'[sendQueue[d][i]] = content[sendQueue[d][i]]
    BY <1>1, <1>2, <2>1, <2>3, ShortenedForOthers
  <2>6. QED
    BY <1>6, <2>1, <2>2, <2>4, <2>5, OthersInOrder
<1>9. ASSUME ~mishap'[c]
      PROVE  ~garbled'[c] /\ buf'[c] \o Waiting(sendQueue'[c], content') = owed'[c]
  <2>1. ~mishap[c] /\ content[p] = Bytes(p) /\ a = << >>
    BY <1>1, <1>9
  <2>2. ~garbled[c] /\ buf[c] \o Waiting(sendQueue[c], content) = owed[c]
    BY <2>1 DEF Ordered
  <2>3. Waiting(sendQueue[c], content) = << >>
    BY <1>1, NothingWaits
  <2>4. owed[c] = buf[c]
    <3>1. buf[c] \o << >> = buf[c]
      BY ConnTyped, ConcatEmptySeq
    <3>2. QED
      BY <2>2, <2>3, <3>1
  <2>5. o = b \o << >> /\ b \o << >> = b
    <3>1. o = b
      BY <2>1, <2>4 DEF o, b
    <3>2. QED
      BY <3>1, <1>2, ConcatEmptySeq
  <2>6. Takes(c, b, b \o << >>, n) /\ << >> \in Seq(ByteSet)
    BY <1>1, <2>5, EmptySeq
  <2>7. ~garbled'[c] /\ owed'[c] = After(b, n) \o << >>
    BY <1>2, <1>5, <2>2, <2>6, TakenInOrder
  <2>8. sendQueue'[c] = <<p>>
    BY <1>1 DEF Typed
  <2>9. Waiting(sendQueue'[c], content') = content'[p]
    BY <1>7, <2>8, OneWaits
  <2>10. content'[p] = << >>
    BY <1>2, <1>7, Wholes
  <2>11. buf'[c] = After(b, n)
    BY <1>6, <2>1, <2>5
  <2>12. QED
    BY <2>7, <2>9, <2>10, <2>11
<1>10. QED
  BY <1>8, <1>9 DEF Ordered, Waiting

LEMMA PartInOrder ==
  ASSUME Typed, Fits, NEW c \in Conns, NEW p \in Packets,
         SendPart(c, p), \A d \in Conns : Ordered(d)
  PROVE  \A d \in Conns : Ordered(d)'
<1> DEFINE ct == content[p]
           size == Len(ct)
           n == Room(c, size)
           u == Upto(ct, n)
           b == buf[c] \o u
           s == Start(c, size)
<1>1. /\ sendQueue[c] = << >>
      /\ n < size
      /\ Holds(c, b, s, 0)
      /\ Shortened(c, p, n)
      /\ sendQueue' = [sendQueue EXCEPT ![c] = <<p>>]
      /\ owed' = [owed EXCEPT ![c] = IF garbled[c] THEN << >> ELSE owed[c] \o Bytes(p)]
      /\ mishap' = [d \in Conns |-> mishap[d] \/ (n > 0 /\ d \in SharedWith(c, p))
                        \/ (d = c /\ content[p] # Bytes(p))]
      /\ garbled' = garbled
  BY DEF SendPart, NothingQueued
<1>2. ct \in Seq(ByteSet) /\ size \in Nat
  BY DEF Typed
<1>3. n \in Nat /\ s \in Nat /\ s + Len(buf[c]) + n = Cap /\ Len(buf[c]) \in Nat
  BY <1>2, RoomThere
<1>4. n \in 0 .. Len(ct)
  BY <1>1, <1>2, <1>3
<1>5. u \in Seq(ByteSet) /\ Len(u) = n /\ u \o After(ct, n) = ct /\ After(ct, n) \in Seq(ByteSet)
  BY <1>2, <1>4, Parts
<1> HIDE DEF u, n, s
<1>6. b \in Seq(ByteSet) /\ Len(b) = Len(buf[c]) + n
  BY <1>5, ConnTyped, JoinedBytes
<1>7. s + Len(b) <= Cap /\ 0 \in 0 .. Len(b)
  <2> DEFINE l == Len(buf[c])
             k == Len(b)
  <2>1. l \in Nat /\ k = l + n /\ s + l + n = Cap
    BY <1>3, <1>6
  <2> HIDE DEF l, k
  <2>2. s + k <= Cap /\ 0 \in 0 .. k
    BY <1>3, <2>1
  <2>3. QED
    BY <2>2 DEF k
<1> HIDE DEF b
<1>8. buf'[c] = After(b, 0) /\ \A d \in Conns \ {c} : buf'[d] = buf[d]
  BY <1>1, <1>3, <1>6, <1>7, HeldTyped
<1>9. content'[p] = After(ct, n) /\ content' \in [Packets -> Seq(ByteSet)]
  BY <1>1, <1>4, ShortenedTyped
<1>10. \A d \in Conns \ {c} : Ordered(d)'
  <2>1. SUFFICES ASSUME NEW d \in Conns, d # c
                 PROVE  Ordered(d)'
    OBVIOUS
  <2>2. mishap'[d] = (mishap[d] \/ (n > 0 /\ d \in SharedWith(c, p)))
    BY <1>1, <2>1
  <2>3. sendQueue'[d] = sendQueue[d] /\ owed'[d] = owed[d] /\ garbled'[d] = garbled[d]
    BY <1>1, <2>1 DEF Typed
  <2>4. ~mishap'[d] => ~mishap[d] /\ \A i \in 1 .. Len(sendQueue[d]) :
                                       content'[sendQueue[d][i]] = content[sendQueue[d][i]]
    BY <1>1, <1>4, <2>1, <2>2, ShortenedForOthers
  <2>5. QED
    BY <1>8, <2>1, <2>3, <2>4, OthersInOrder
<1>11. ASSUME ~mishap'[c]
       PROVE  ~garbled'[c] /\ buf'[c] \o Waiting(sendQueue'[c], content') = owed'[c]
  <2>1. ~mishap[c] /\ ct = Bytes(p)
    BY <1>1, <1>11
  <2>2. ~garbled[c] /\ buf[c] \o Waiting(sendQueue[c], content) = owed[c]
    BY <2>1 DEF Ordered
  <2>3. Waiting(sendQueue[c], content) = << >>
    BY <1>1, NothingWaits
  <2>4. owed[c] = buf[c]
    <3>1. buf[c] \o << >> = buf[c]
      BY ConnTyped, ConcatEmptySeq
    <3>2. QED
      BY <2>2, <2>3, <3>1
  <2>5. owed'[c] = buf[c] \o ct
    BY <1>1, <2>1, <2>2, <2>4 DEF Typed
  <2>6. sendQueue'[c] = <<p>>
    BY <1>1 DEF Typed
  <2>7. Waiting(sendQueue'[c], content') = After(ct, n)
    BY <1>9, <2>6, OneWaits
  <2>8. buf'[c] = b
    BY <1>6, <1>8, Wholes
  <2>9. b \o After(ct, n) = buf[c] \o (u \o After(ct, n))
    BY <1>5, ConnTyped, JoinTwice, ZenonT(60) DEF b
  <2>10. QED
    BY <1>1, <1>5, <2>2, <2>5, <2>7, <2>8, <2>9
<1>12. QED
  BY <1>10, <1>11 DEF Ordered, Waiting

LEMMA SentInOrder ==
  ASSUME Typed, Fits, NEW c \in Conns, NEW p \in Packets,
         SendPacket(c, p), \A d \in Conns : Ordered(d)
  PROVE  \A d \in Conns : Ordered(d)'
<1>1. CASE SendRefused(c, p)
  <2>1. /\ content' = content /\ sendQueue' = sendQueue /\ buf' = buf
        /\ owed' = owed /\ garbled' = garbled /\ mishap' = mishap
    BY <1>1 DEF SendRefused, bufVars, histVars
  <2>2. QED
    BY <2>1 DEF Ordered, Waiting
<1>2. QED
  BY <1>1, QueuedInOrder, AtOnceInOrder, SlowlyInOrder, PartInOrder DEF SendPacket

-----------------------------------------------------------------------------
(*** The queues ***)

\* The network thread fills the buffer from a packet that is there.
Filling == netPc = "fill" => sendQueue[cur] # << >>

\* No packet waits twice for the same connection,
OnceOnly == \A c \in Conns : \A i, j \in 1 .. Len(sendQueue[c]) :
              sendQueue[c][i] = sendQueue[c][j] => i = j

\* only packets sent wait,
SentOnly == \A c \in Conns : \A i \in 1 .. Len(sendQueue[c]) : sendQueue[c][i] <= made

\* and the one being broadcast does not wait for those it has still to reach.
StillLeft == /\ left # {} => made > 0
             /\ \A c \in left : \A i \in 1 .. Len(sendQueue[c]) : sendQueue[c][i] # made

\* sendPacket refuses a packet when 512 and one wait.
QueuesShort == \A c \in Conns : Len(sendQueue[c]) <= MaxQueue + 1

\* The queues, all in all.
QueueInv == Filling /\ OnceOnly /\ SentOnly /\ StillLeft /\ QueuesShort

LEMMA SendMoves ==
  ASSUME Typed, Fits, NEW c \in Conns, NEW p \in Packets, SendPacket(c, p)
  PROVE  /\ \A d \in Conns \ {c} : sendQueue'[d] = sendQueue[d] /\ wantsWrite'[d] = wantsWrite[d]
                                   /\ buf'[d] = buf[d]
         /\ netPc' = netPc /\ cur' = cur
         /\ \/ sendQueue'[c] = sendQueue[c] /\ wantsWrite'[c] = wantsWrite[c]
               /\ (buf'[c] = buf[c] \/ buf'[c] = << >>)
            \/ sendQueue[c] # << >> /\ Len(sendQueue[c]) <= MaxQueue
               /\ sendQueue'[c] = Append(sendQueue[c], p) /\ wantsWrite'[c] = wantsWrite[c]
               /\ buf'[c] = buf[c]
            \/ sendQueue'[c] = <<p>> /\ wantsWrite'[c]
<1>1. netPc' = netPc /\ cur' = cur
  BY DEF SendPacket, netVars
<1>2. /\ sendQueue \in [Conns -> Seq(Packets)] /\ wantsWrite \in [Conns -> BOOLEAN]
      /\ buf \in [Conns -> Seq(ByteSet)]
  BY DEF Typed
<1>3. CASE SendQueued(c, p)
  <2>1. /\ sendQueue' = [sendQueue EXCEPT ![c] = Append(sendQueue[c], p)]
        /\ buf' = buf /\ wantsWrite' = wantsWrite /\ sendQueue[c] # << >>
        /\ Len(sendQueue[c]) <= MaxQueue
    BY <1>3 DEF SendQueued, bufVars, NotTooMany
  <2>2. QED
    BY <1>1, <1>2, <2>1
<1>4. CASE SendRefused(c, p)
  <2>1. sendQueue' = sendQueue /\ buf' = buf /\ wantsWrite' = wantsWrite
    BY <1>4 DEF SendRefused, bufVars
  <2>2. QED
    BY <1>1, <2>1
<1>5. CASE SendAtOnce(c, p)
  <2> DEFINE b == buf[c] \o content[p]
             a == After(b, Len(b))
  <2>1. sendQueue' = sendQueue /\ wantsWrite' = wantsWrite /\ Holds(c, b, 0, Len(b))
    BY <1>5 DEF SendAtOnce
  <2>2. b \in Seq(ByteSet)
    <3>1. buf[c] \in Seq(ByteSet) /\ content[p] \in Seq(ByteSet)
      BY DEF Typed
    <3>2. QED
      BY <3>1, JoinedBytes
  <2> HIDE DEF b
  <2>3. a = << >>
    BY <2>2, Wholes
  <2>4. buf' = [buf EXCEPT ![c] = a]
    BY <2>1 DEF Holds
  <2> HIDE DEF a
  <2>5. QED
    BY <1>1, <1>2, <2>1, <2>3, <2>4
<1>6. CASE SendPart(c, p)
  <2> DEFINE size == Len(content[p])
             a == After(buf[c] \o Upto(content[p], Room(c, size)), 0)
  <2>1. /\ Holds(c, buf[c] \o Upto(content[p], Room(c, size)), Start(c, size), 0)
        /\ sendQueue' = [sendQueue EXCEPT ![c] = <<p>>]
        /\ wantsWrite' = [wantsWrite EXCEPT ![c] = TRUE]
    BY <1>6 DEF SendPart, AsksToWrite
  <2>2. buf' = [buf EXCEPT ![c] = a]
    BY <2>1 DEF Holds
  <2> HIDE DEF a, size
  <2>3. QED
    BY <1>1, <1>2, <2>1, <2>2
<1>7. ASSUME NEW n \in 0 .. Cap, SendSlowly(c, p, n)
      PROVE  /\ \A d \in Conns \ {c} : sendQueue'[d] = sendQueue[d] /\ wantsWrite'[d] = wantsWrite[d]
                                       /\ buf'[d] = buf[d]
             /\ sendQueue'[c] = <<p>> /\ wantsWrite'[c]
  <2> DEFINE size == Len(content[p])
             a == After((buf[c] \o content[p]) \o Again(c, p), n)
  <2>1. /\ Holds(c, (buf[c] \o content[p]) \o Again(c, p), Start(c, size), n)
        /\ sendQueue' = [sendQueue EXCEPT ![c] = <<p>>]
        /\ wantsWrite' = [wantsWrite EXCEPT ![c] = TRUE]
    BY <1>7 DEF SendSlowly, AsksToWrite
  <2>2. buf' = [buf EXCEPT ![c] = a]
    BY <2>1 DEF Holds
  <2> HIDE DEF a, size
  <2>3. QED
    BY <1>2, <2>1, <2>2
<1>8. QED
  BY <1>1, <1>3, <1>4, <1>5, <1>6, <1>7 DEF SendPacket

LEMMA OneOfQueue ==
  ASSUME NEW p \in Packets
  PROVE  Len(<<p>>) = 1 /\ <<p>> # << >> /\ \A i \in 1 .. Len(<<p>>) : i = 1 /\ <<p>>[i] = p
OBVIOUS

LEMMA SendKeepsQueues ==
  ASSUME Typed, Fits, Filling, OnceOnly, QueuesShort, WaitingIsWatched,
         NEW c \in Conns, NEW p \in Packets, SendPacket(c, p),
         \A i \in 1 .. Len(sendQueue[c]) : sendQueue[c][i] # p
  PROVE  /\ Filling' /\ OnceOnly' /\ QueuesShort' /\ WaitingIsWatched'
         /\ \A d \in Conns \ {c} : sendQueue'[d] = sendQueue[d]
         /\ \A i \in 1 .. Len(sendQueue'[c]) :
              \/ sendQueue'[c][i] = p
              \/ (i \in 1 .. Len(sendQueue[c]) /\ sendQueue'[c][i] = sendQueue[c][i])
<1> DEFINE q == sendQueue[c]
           r == sendQueue'[c]
<1>1. /\ \A d \in Conns \ {c} : sendQueue'[d] = sendQueue[d] /\ wantsWrite'[d] = wantsWrite[d]
                                /\ buf'[d] = buf[d]
      /\ netPc' = netPc /\ cur' = cur
      /\ \/ r = q /\ wantsWrite'[c] = wantsWrite[c] /\ (buf'[c] = buf[c] \/ buf'[c] = << >>)
         \/ q # << >> /\ Len(q) <= MaxQueue
            /\ r = Append(q, p) /\ wantsWrite'[c] = wantsWrite[c] /\ buf'[c] = buf[c]
         \/ r = <<p>> /\ wantsWrite'[c]
  BY SendMoves
<1>2. q \in Seq(Packets) /\ Len(q) \in Nat /\ MaxQueue \in Nat /\ cur \in Conns
  BY SendAssumption DEF Typed
<1>3. /\ \A i, j \in 1 .. Len(q) : q[i] = q[j] => i = j
      /\ \A i \in 1 .. Len(q) : q[i] # p
      /\ Len(q) <= MaxQueue + 1
      /\ buf[c] # << >> \/ q # << >> => wantsWrite[c]
      /\ netPc = "fill" /\ cur = c => q # << >>
  BY DEF OnceOnly, QueuesShort, WaitingIsWatched, Filling
<1> HIDE DEF q, r
<1>4. /\ \A i, j \in 1 .. Len(r) : r[i] = r[j] => i = j
      /\ \A i \in 1 .. Len(r) : r[i] = p \/ (i \in 1 .. Len(q) /\ r[i] = q[i])
      /\ Len(r) <= MaxQueue + 1
      /\ buf'[c] # << >> \/ r # << >> => wantsWrite'[c]
      /\ netPc = "fill" /\ cur = c => r # << >>
  <2>1. CASE r = q /\ wantsWrite'[c] = wantsWrite[c] /\ (buf'[c] = buf[c] \/ buf'[c] = << >>)
    BY <2>1, <1>3
  <2>2. CASE q # << >> /\ Len(q) <= MaxQueue
             /\ r = Append(q, p) /\ wantsWrite'[c] = wantsWrite[c] /\ buf'[c] = buf[c]
    <3>1. /\ r # << >> /\ Len(r) = Len(q) + 1
          /\ \A i \in 1 .. Len(q) : r[i] = q[i]
          /\ r[Len(q) + 1] = p
      BY <1>2, <2>2, AppendProperties
    <3>2. wantsWrite'[c] /\ r # << >>
      BY <2>2, <3>1, <1>3
    <3>3. Len(r) <= MaxQueue + 1
      BY <1>2, <2>2, <3>1
    <3>4. \A i \in 1 .. Len(r) : i \in 1 .. Len(q) \/ i = Len(q) + 1
      BY <1>2, <3>1
    <3>5. QED
      BY <3>1, <3>2, <3>3, <3>4, <1>3
  <2>3. CASE r = <<p>> /\ wantsWrite'[c]
    <3>1. Len(r) = 1 /\ r # << >> /\ \A i \in 1 .. Len(r) : i = 1 /\ r[i] = p
      BY <2>3, OneOfQueue
    <3>2. QED
      BY <2>3, <3>1, <1>2
  <2>4. QED
    BY <1>1, <2>1, <2>2, <2>3
<1>5. Filling'
  BY <1>1, <1>2, <1>4 DEF Filling, r
<1>6. OnceOnly'
  BY <1>1, <1>4 DEF OnceOnly, r
<1>7. QueuesShort'
  BY <1>1, <1>4 DEF QueuesShort, r
<1>8. WaitingIsWatched'
  BY <1>1, <1>4 DEF WaitingIsWatched, r
<1>9. QED
  BY <1>1, <1>4, <1>5, <1>6, <1>7, <1>8 DEF r, q

-----------------------------------------------------------------------------
(*** What is left of a packet is its end ***)

\* Packet::pop only takes bytes from the front of a packet.
Whole == \A p \in Packets : \E n \in 0 .. Length[p] : content[p] = After(Bytes(p), n)

LEMMA ShortenedWhole ==
  ASSUME Typed, Whole, NEW c \in Conns, NEW p \in Packets, NEW n \in 0 .. Len(content[p]),
         Shortened(c, p, n)
  PROVE  Whole'
<1>1. content'[p] = After(content[p], n) /\ \A q \in Packets \ {p} : content'[q] = content[q]
  BY ShortenedTyped
<1>2. PICK k \in 0 .. Length[p] : content[p] = After(Bytes(p), k)
  BY DEF Whole
<1>3. Bytes(p) \in Seq(ByteSet) /\ Len(Bytes(p)) = Length[p] /\ Length[p] \in Nat
  BY BytesTyped
<1> DEFINE b == Bytes(p)
           t == SubSeq(b, k + 1, Len(b))
<1>4. t = content[p] /\ Len(t) = Length[p] - k
  <2>1. t = After(b, k)
    BY DEF After
  <2>2. b \in Seq(ByteSet) /\ k \in 0 .. Len(b)
    BY <1>3
  <2> HIDE DEF b
  <2>3. Len(After(b, k)) = Len(b) - k
    BY <2>2, Parts
  <2>4. QED
    BY <2>1, <2>3, <1>2, <1>3 DEF b
<1>5. n \in 0 .. (Len(b) - k) /\ k \in 0 .. Len(b) /\ b \in Seq(ByteSet)
  BY <1>3, <1>4
<1> HIDE DEF b
<1>6. k + n \in 0 .. Len(b) /\ SubSeq(t, n + 1, Len(t)) = SubSeq(b, (k + n) + 1, Len(b))
  BY <1>5, CutTwice
<1>7. content'[p] = After(b, k + n)
  BY <1>1, <1>4, <1>6 DEF After
<1>8. k + n \in 0 .. Length[p] /\ content'[p] = After(Bytes(p), k + n)
  BY <1>3, <1>6, <1>7 DEF b
<1>9. QED
  BY <1>1, <1>8 DEF Whole

LEMMA SendWhole ==
  ASSUME Typed, Fits, Whole, NEW c \in Conns, NEW p \in Packets, SendPacket(c, p)
  PROVE  Whole'
<1> DEFINE size == Len(content[p])
<1>1. size \in Nat
  BY DEF Typed
<1>2. CASE SendQueued(c, p) \/ SendRefused(c, p) \/ SendAtOnce(c, p)
  <2>1. content' = content
    BY <1>2 DEF SendQueued, SendRefused, SendAtOnce
  <2>2. QED
    BY <2>1 DEF Whole
<1>3. CASE SendPart(c, p)
  <2>1. Room(c, size) < size /\ Shortened(c, p, Room(c, size))
    BY <1>3 DEF SendPart
  <2>2. Room(c, size) \in Nat
    BY <1>1, RoomThere
  <2>3. Room(c, size) \in 0 .. Len(content[p])
    BY <1>1, <2>1, <2>2
  <2>4. QED
    BY <2>1, <2>3, ShortenedWhole
<1>4. ASSUME NEW n \in 0 .. Cap, SendSlowly(c, p, n)
      PROVE  Whole'
  <2>1. Shortened(c, p, size)
    BY <1>4 DEF SendSlowly
  <2>2. size \in 0 .. Len(content[p])
    BY <1>1
  <2>3. QED
    BY <2>1, <2>2, ShortenedWhole
<1>5. QED
  BY <1>2, <1>3, <1>4 DEF SendPacket

-----------------------------------------------------------------------------
(*** The inductive invariant, kept by every step ***)

\* The inductive invariant.
SendInv == /\ Typed /\ Fits /\ Whole /\ QueueInv
           /\ WaitingIsWatched
           /\ \A c \in Conns : Ordered(c)

LEMMA InitInv == Init => SendInv
<1>1. SUFFICES ASSUME Init
               PROVE  SendInv
  OBVIOUS
<1>2. Typed
  <2>1. \A p \in Packets : Bytes(p) \in Seq(ByteSet)
    BY BytesTyped
  <2>2. content \in [Packets -> Seq(ByteSet)]
    BY <1>1, <2>1 DEF Init
  <2>3. << >> \in Seq(ByteSet) /\ << >> \in Seq(Packets) /\ 0 \in Nat
    BY EmptySeq
  <2>4. QED
    BY <1>1, <2>2, <2>3, SendAssumption DEF Init, Typed
<1>3. \A c \in Conns : /\ begin[c] = 0 /\ buf[c] = << >> /\ sendQueue[c] = << >>
                       /\ owed[c] = << >> /\ ~garbled[c] /\ ~mishap[c]
  BY <1>1 DEF Init
<1>4. Fits
  BY <1>3, SendAssumption DEF Fits
<1>5. Whole
  <2>1. SUFFICES ASSUME NEW p \in Packets
                 PROVE  \E n \in 0 .. Length[p] : content[p] = After(Bytes(p), n)
    BY DEF Whole
  <2>2. content[p] = Bytes(p) /\ 0 \in 0 .. Length[p]
    BY <1>1, BytesTyped DEF Init
  <2>3. After(Bytes(p), 0) = Bytes(p)
    BY BytesTyped, Wholes
  <2>4. QED
    BY <2>2, <2>3
<1>6. QueueInv
  <2>1. \A c \in Conns : Len(sendQueue[c]) = 0 /\ \A i : i \notin 1 .. Len(sendQueue[c])
    BY <1>3
  <2>2. netPc = "wait" /\ left = {}
    BY <1>1 DEF Init
  <2>3. QED
    BY <2>1, <2>2, SendAssumption
       DEF QueueInv, Filling, OnceOnly, SentOnly, StillLeft, QueuesShort
<1>7. WaitingIsWatched
  BY <1>3 DEF WaitingIsWatched
<1>8. \A c \in Conns : Ordered(c)
  <2>1. << >> \o << >> = << >>
    BY ConcatEmptySeq, EmptySeq
  <2>2. QED
    BY <1>3, <2>1, NothingWaits DEF Ordered
<1>9. QED
  BY <1>2, <1>4, <1>5, <1>6, <1>7, <1>8 DEF SendInv

LEMMA SendToKeeps ==
  ASSUME SendInv, NEW c \in Conns, SendTo(c)
  PROVE  SendInv'
<1> DEFINE p == made + 1
<1>1. left = {} /\ made < MaxPackets /\ made' = p /\ left' = {} /\ SendPacket(c, p)
  BY DEF SendTo
<1>2. made \in Nat /\ p \in Packets /\ p \in 0 .. MaxPackets
  BY <1>1, SendAssumption DEF SendInv, Typed, Packets
<1> HIDE DEF p
<1>3. \A d \in Conns : \A i \in 1 .. Len(sendQueue[d]) :
        sendQueue[d][i] # p /\ sendQueue[d][i] <= p
  <2>1. SUFFICES ASSUME NEW d \in Conns, NEW i \in 1 .. Len(sendQueue[d])
                 PROVE  sendQueue[d][i] # p /\ sendQueue[d][i] <= p
    OBVIOUS
  <2>2. sendQueue[d][i] <= made
    BY DEF SendInv, QueueInv, SentOnly
  <2>3. sendQueue[d][i] \in Nat
    BY ConnTyped DEF SendInv, Packets
  <2>4. QED
    BY <2>2, <2>3, <1>2 DEF p
<1>4. Typed'
  <2>1. /\ content' \in [Packets -> Seq(ByteSet)]
        /\ sendQueue' \in [Conns -> Seq(Packets)]
        /\ buf' \in [Conns -> Seq(ByteSet)] /\ owed' \in [Conns -> Seq(ByteSet)]
        /\ begin' \in [Conns -> Nat]
        /\ wantsWrite' \in [Conns -> BOOLEAN]
        /\ netPc' = netPc /\ cur' = cur
        /\ garbled' \in [Conns -> BOOLEAN] /\ mishap' \in [Conns -> BOOLEAN]
    BY <1>1, <1>2, SendTyped DEF SendInv
  <2>2. QED
    BY <2>1, <1>1, <1>2 DEF SendInv, Typed
<1>5. Fits'
  BY <1>1, <1>2, SendTyped DEF SendInv
<1>6. Whole'
  BY <1>1, <1>2, SendWhole DEF SendInv
<1>7. \A d \in Conns : Ordered(d)'
  BY <1>1, <1>2, SentInOrder DEF SendInv
<1>8. /\ Filling' /\ OnceOnly' /\ QueuesShort' /\ WaitingIsWatched'
      /\ \A d \in Conns \ {c} : sendQueue'[d] = sendQueue[d]
      /\ \A i \in 1 .. Len(sendQueue'[c]) :
           \/ sendQueue'[c][i] = p
           \/ (i \in 1 .. Len(sendQueue[c]) /\ sendQueue'[c][i] = sendQueue[c][i])
  BY <1>1, <1>2, <1>3, SendKeepsQueues DEF SendInv, QueueInv
<1>9. SentOnly'
  <2>1. SUFFICES ASSUME NEW d \in Conns, NEW i \in 1 .. Len(sendQueue'[d])
                 PROVE  sendQueue'[d][i] <= p
    BY <1>1 DEF SentOnly
  <2>2. p <= p
    BY <1>2
  <2>3. CASE d = c
    BY <2>2, <2>3, <1>3, <1>8
  <2>4. CASE d # c
    BY <2>4, <1>3, <1>8
  <2>5. QED
    BY <2>3, <2>4
<1>10. StillLeft'
  BY <1>1 DEF StillLeft
<1>11. QED
  BY <1>4, <1>5, <1>6, <1>7, <1>8, <1>9, <1>10 DEF SendInv, QueueInv

LEMMA BroadcastToKeeps ==
  ASSUME SendInv, NEW c \in Conns, BroadcastTo(c)
  PROVE  SendInv'
<1>1. c \in left /\ left' = left \ {c} /\ made' = made /\ SendPacket(c, made)
  BY DEF BroadcastTo
<1>2. made \in Packets /\ made \in Nat
  <2>1. made > 0 /\ made \in 0 .. MaxPackets
    BY <1>1 DEF SendInv, Typed, QueueInv, StillLeft
  <2>2. QED
    BY <2>1, SendAssumption DEF Packets
<1>3. \A i \in 1 .. Len(sendQueue[c]) : sendQueue[c][i] # made
  BY <1>1 DEF SendInv, QueueInv, StillLeft
<1>4. Typed'
  <2>1. /\ content' \in [Packets -> Seq(ByteSet)]
        /\ sendQueue' \in [Conns -> Seq(Packets)]
        /\ buf' \in [Conns -> Seq(ByteSet)] /\ owed' \in [Conns -> Seq(ByteSet)]
        /\ begin' \in [Conns -> Nat]
        /\ wantsWrite' \in [Conns -> BOOLEAN]
        /\ netPc' = netPc /\ cur' = cur
        /\ garbled' \in [Conns -> BOOLEAN] /\ mishap' \in [Conns -> BOOLEAN]
    BY <1>1, <1>2, SendTyped DEF SendInv
  <2>2. QED
    BY <2>1, <1>1, <1>2 DEF SendInv, Typed
<1>5. Fits'
  BY <1>1, <1>2, SendTyped DEF SendInv
<1>6. Whole'
  BY <1>1, <1>2, SendWhole DEF SendInv
<1>7. \A d \in Conns : Ordered(d)'
  BY <1>1, <1>2, SentInOrder DEF SendInv
<1>8. /\ Filling' /\ OnceOnly' /\ QueuesShort' /\ WaitingIsWatched'
      /\ \A d \in Conns \ {c} : sendQueue'[d] = sendQueue[d]
      /\ \A i \in 1 .. Len(sendQueue'[c]) :
           \/ sendQueue'[c][i] = made
           \/ (i \in 1 .. Len(sendQueue[c]) /\ sendQueue'[c][i] = sendQueue[c][i])
  BY <1>1, <1>2, <1>3, SendKeepsQueues DEF SendInv, QueueInv
<1>9. SentOnly'
  <2>1. SUFFICES ASSUME NEW d \in Conns, NEW i \in 1 .. Len(sendQueue'[d])
                 PROVE  sendQueue'[d][i] <= made
    BY <1>1 DEF SentOnly
  <2>2. made <= made /\ \A e \in Conns : \A j \in 1 .. Len(sendQueue[e]) : sendQueue[e][j] <= made
    BY <1>2 DEF SendInv, QueueInv, SentOnly
  <2>3. CASE d = c
    BY <2>2, <2>3, <1>8
  <2>4. CASE d # c
    BY <2>2, <2>4, <1>8
  <2>5. QED
    BY <2>3, <2>4
<1>10. StillLeft'
  <2>1. \A d \in left' : d \in left /\ d # c /\ sendQueue'[d] = sendQueue[d]
    BY <1>1, <1>8 DEF SendInv, Typed
  <2>2. left # {} => made > 0
    BY DEF SendInv, QueueInv, StillLeft
  <2>3. \A d \in left : \A i \in 1 .. Len(sendQueue[d]) : sendQueue[d][i] # made
    BY DEF SendInv, QueueInv, StillLeft
  <2>4. QED
    BY <1>1, <2>1, <2>2, <2>3 DEF StillLeft
<1>11. QED
  BY <1>4, <1>5, <1>6, <1>7, <1>8, <1>9, <1>10 DEF SendInv, QueueInv

LEMMA BroadcastKeeps ==
  ASSUME SendInv, Broadcast
  PROVE  SendInv'
<1>1. /\ left = {} /\ made < MaxPackets /\ made' = made + 1 /\ left' = Conns
      /\ content' = content /\ sendQueue' = sendQueue /\ buf' = buf /\ begin' = begin
      /\ wantsWrite' = wantsWrite /\ netPc' = netPc /\ cur' = cur
      /\ owed' = owed /\ garbled' = garbled /\ mishap' = mishap
  BY DEF Broadcast, bufVars, netVars, histVars
<1>2. made \in Nat /\ made' \in 0 .. MaxPackets /\ made' > 0 /\ made < made'
  BY <1>1, SendAssumption DEF SendInv, Typed
<1>3. Typed'
  BY <1>1, <1>2 DEF SendInv, Typed
<1>4. Fits' /\ Whole' /\ WaitingIsWatched' /\ \A c \in Conns : Ordered(c)'
  BY <1>1 DEF SendInv, Fits, Whole, WaitingIsWatched, Ordered, Waiting
<1>5. Filling' /\ OnceOnly' /\ QueuesShort'
  BY <1>1 DEF SendInv, QueueInv, Filling, OnceOnly, QueuesShort
<1>6. \A c \in Conns : \A i \in 1 .. Len(sendQueue[c]) :
        sendQueue[c][i] <= made' /\ sendQueue[c][i] # made'
  <2>1. SUFFICES ASSUME NEW c \in Conns, NEW i \in 1 .. Len(sendQueue[c])
                 PROVE  sendQueue[c][i] <= made' /\ sendQueue[c][i] # made'
    OBVIOUS
  <2>2. sendQueue[c][i] <= made
    BY DEF SendInv, QueueInv, SentOnly
  <2>3. sendQueue[c][i] \in Nat
    BY ConnTyped DEF SendInv, Packets
  <2>4. QED
    BY <2>2, <2>3, <1>2
<1>7. SentOnly' /\ StillLeft'
  BY <1>1, <1>2, <1>6 DEF SentOnly, StillLeft
<1>8. QED
  BY <1>3, <1>4, <1>5, <1>7 DEF SendInv, QueueInv

LEMMA WriteEventKeeps ==
  ASSUME SendInv, NEW c \in Conns, WriteEvent(c)
  PROVE  SendInv'
<1>1. /\ netPc' = "ready" /\ cur' = c
      /\ content' = content /\ made' = made /\ left' = left
      /\ sendQueue' = sendQueue /\ buf' = buf /\ begin' = begin
      /\ wantsWrite' = wantsWrite
      /\ owed' = owed /\ garbled' = garbled /\ mishap' = mishap
  BY DEF WriteEvent, packetVars, bufVars, histVars
<1>2. Typed'
  BY <1>1 DEF SendInv, Typed
<1>3. Fits' /\ Whole' /\ WaitingIsWatched' /\ \A d \in Conns : Ordered(d)'
  BY <1>1 DEF SendInv, Fits, Whole, WaitingIsWatched, Ordered, Waiting
<1>4. QueueInv'
  BY <1>1 DEF SendInv, QueueInv, Filling, OnceOnly, QueuesShort, SentOnly, StillLeft
<1>5. QED
  BY <1>2, <1>3, <1>4 DEF SendInv

LEMMA TrySendKeeps ==
  ASSUME SendInv, TrySend
  PROVE  SendInv'
<1> DEFINE b == buf[cur]
<1>1. PICK n \in 0 .. Len(b) :
        /\ Holds(cur, b, begin[cur], n)
        /\ Takes(cur, b, owed[cur], n)
        /\ netPc' = IF n = Len(b) /\ MoreToSend(cur) THEN "fill" ELSE "wait"
        /\ wantsWrite' = [wantsWrite EXCEPT ![cur] = n < Len(b) \/ MoreToSend(cur)]
  BY DEF TrySend
<1>2. /\ content' = content /\ made' = made /\ left' = left
      /\ sendQueue' = sendQueue /\ cur' = cur /\ mishap' = mishap
  BY DEF TrySend, packetVars
<1>3. cur \in Conns /\ b \in Seq(ByteSet) /\ begin[cur] \in Nat /\ owed[cur] \in Seq(ByteSet)
      /\ begin[cur] + Len(b) <= Cap /\ Typed /\ Fits /\ Len(b) \in Nat
  BY DEF SendInv, Typed, Fits
<1>4. wantsWrite' \in [Conns -> BOOLEAN] /\ wantsWrite'[cur] = (n < Len(b) \/ MoreToSend(cur))
      /\ \A d \in Conns \ {cur} : wantsWrite'[d] = wantsWrite[d]
  <2> DEFINE y == n < Len(b) \/ MoreToSend(cur)
  <2>1. y \in BOOLEAN /\ wantsWrite' = [wantsWrite EXCEPT ![cur] = y]
    BY <1>1
  <2> HIDE DEF y
  <2>2. wantsWrite' \in [Conns -> BOOLEAN] /\ wantsWrite'[cur] = y
        /\ \A d \in Conns \ {cur} : wantsWrite'[d] = wantsWrite[d]
    BY <1>3, <2>1 DEF Typed
  <2>3. QED
    BY <2>2 DEF y
<1> HIDE DEF b
<1>5. /\ buf' \in [Conns -> Seq(ByteSet)] /\ begin' \in [Conns -> Nat] /\ Fits'
      /\ buf'[cur] = After(b, n) /\ \A d \in Conns \ {cur} : buf'[d] = buf[d]
  BY <1>1, <1>3, HeldTyped
<1>6. owed' \in [Conns -> Seq(ByteSet)] /\ garbled' \in [Conns -> BOOLEAN]
  BY <1>1, <1>3, TakenTyped
<1>7. netPc' \in {"wait", "ready", "send", "fill"}
  BY <1>1
<1>8. Typed'
  BY <1>2, <1>4, <1>5, <1>6, <1>7 DEF SendInv, Typed
<1>9. Whole'
  BY <1>2 DEF SendInv, Whole
<1>10. QueueInv'
  <2>1. Filling'
    BY <1>1, <1>2 DEF Filling, MoreToSend
  <2>2. QED
    BY <2>1, <1>2 DEF SendInv, QueueInv, OnceOnly, QueuesShort, SentOnly, StillLeft
<1>11. WaitingIsWatched'
  <2>1. SUFFICES ASSUME NEW d \in Conns, buf'[d] # << >> \/ sendQueue'[d] # << >>
                 PROVE  wantsWrite'[d]
    BY DEF WaitingIsWatched
  <2>2. CASE d # cur
    BY <2>1, <2>2, <1>2, <1>4, <1>5 DEF SendInv, WaitingIsWatched
  <2>3. CASE d = cur
    <3>1. CASE n = Len(b)
      <4>1. buf'[cur] = << >>
        BY <1>3, <1>5, <3>1, Wholes
      <4>2. QED
        BY <2>1, <2>3, <4>1, <1>2, <1>4 DEF MoreToSend
    <3>2. CASE n # Len(b)
      <4>1. n < Len(b)
        BY <1>3, <3>2
      <4>2. QED
        BY <2>3, <4>1, <1>4
    <3>3. QED
      BY <3>1, <3>2
  <2>4. QED
    BY <2>2, <2>3
<1>12. ASSUME NEW d \in Conns
       PROVE  Ordered(d)'
  <2>1. CASE d # cur
    <3>1. garbled'[d] = garbled[d] /\ owed'[d] = owed[d]
      BY <1>1, <1>3, <2>1, OthersTaken
    <3>2. Ordered(d) /\ buf'[d] = buf[d]
      BY <1>5, <2>1 DEF SendInv
    <3>3. QED
      BY <1>2, <1>3, <3>1, <3>2, OthersInOrder
  <2>2. CASE d = cur
    <3>1. SUFFICES ASSUME ~mishap[cur]
                   PROVE  ~garbled'[cur] /\ buf'[cur] \o Waiting(sendQueue[cur], content) = owed'[cur]
      BY <1>2, <2>2 DEF Ordered, Waiting
    <3> DEFINE w == Waiting(sendQueue[cur], content)
    <3>2. ~garbled[cur] /\ b \o w = owed[cur]
      BY <1>3, <3>1 DEF SendInv, Ordered, b
    <3>3. w \in Seq(ByteSet)
      BY <1>3, ConnTyped
    <3> HIDE DEF w
    <3>4. Takes(cur, b, b \o w, n)
      BY <1>1, <3>2
    <3>5. ~garbled'[cur] /\ owed'[cur] = After(b, n) \o w
      BY <1>3, <3>2, <3>3, <3>4, TakenInOrder
    <3>6. QED
      BY <1>5, <3>5 DEF w
  <2>3. QED
    BY <2>1, <2>2
<1>13. QED
  BY <1>5, <1>8, <1>9, <1>10, <1>11, <1>12 DEF SendInv

LEMMA FillKeeps ==
  ASSUME SendInv, Fill
  PROVE  SendInv'
<1> DEFINE q == sendQueue[cur]
           p == Head(q)
           ct == content[p]
           size == Len(ct)
           room == Room(cur, size)
           n == Smaller(room, size)
           done == n = size /\ room > 0
           u == Upto(ct, n)
           b == buf[cur] \o u
           s == Start(cur, size)
<1>1. /\ Holds(cur, b, s, 0)
      /\ IF done
         THEN /\ sendQueue' = [sendQueue EXCEPT ![cur] = Tail(q)]
              /\ content' = content /\ mishap' = mishap
         ELSE /\ Shortened(cur, p, n)
              /\ mishap' = [d \in Conns |-> mishap[d] \/ (n > 0 /\ d \in SharedWith(cur, p))]
              /\ sendQueue' = sendQueue
      /\ netPc' = IF done /\ Len(q) > 1 THEN "fill" ELSE "send"
      /\ netPc = "fill"
      /\ made' = made /\ left' = left /\ wantsWrite' = wantsWrite /\ cur' = cur
      /\ owed' = owed /\ garbled' = garbled
  BY DEF Fill
<1>2. Typed /\ Fits /\ cur \in Conns
  BY DEF SendInv, Typed
<1>3. q # << >> /\ q \in Seq(Packets)
  BY <1>1, <1>2, ConnTyped DEF SendInv, QueueInv, Filling
<1> DEFINE rest == Waiting(Tail(q), content)
<1>4. /\ p \in Packets /\ Tail(q) \in Seq(Packets) /\ p = q[1]
      /\ Len(Tail(q)) = Len(q) - 1 /\ Len(q) \in Nat \ {0}
      /\ \A i \in 1 .. Len(Tail(q)) : Tail(q)[i] = q[i + 1]
      /\ Waiting(q, content) = ct \o rest
  BY <1>2, <1>3, ConnTyped, FirstThenRest
<1> HIDE DEF q
<1>5. ct \in Seq(ByteSet) /\ size \in Nat
  BY <1>2, <1>4 DEF Typed
<1> HIDE DEF p
<1>6. /\ room \in Nat /\ s \in Nat /\ Len(buf[cur]) \in Nat
      /\ s + Len(buf[cur]) + room = Cap
  BY <1>2, <1>5, RoomThere
<1>7. n \in 0 .. Len(ct) /\ n <= room /\ n \in Nat
  <2> HIDE DEF room
  <2>1. n = IF room < size THEN room ELSE size
    BY DEF Smaller
  <2> HIDE DEF n
  <2>2. n \in 0 .. size /\ n <= room
    <3> HIDE DEF size
    <3> QED BY <1>5, <1>6, <2>1
  <2>3. QED
    BY <2>2
<1> HIDE DEF n, s, room
<1>8. u \in Seq(ByteSet) /\ Len(u) = n /\ u \o After(ct, n) = ct /\ After(ct, n) \in Seq(ByteSet)
  BY <1>5, <1>7, Parts
<1> HIDE DEF u
<1>9. b \in Seq(ByteSet) /\ Len(b) = Len(buf[cur]) + n
  BY <1>2, <1>8, ConnTyped, JoinedBytes
<1>10. s + Len(b) <= Cap /\ 0 \in 0 .. Len(b)
  <2> DEFINE l == Len(buf[cur])
             k == Len(b)
  <2>1. l \in Nat /\ k = l + n /\ s + l + room = Cap
    BY <1>6, <1>9
  <2> HIDE DEF l, k
  <2>2. s + k <= Cap /\ 0 \in 0 .. k
    BY <1>6, <1>7, <2>1
  <2>3. QED
    BY <2>2 DEF k
<1> HIDE DEF b
<1>11. /\ buf' \in [Conns -> Seq(ByteSet)] /\ begin' \in [Conns -> Nat] /\ Fits'
       /\ buf'[cur] = b /\ \A d \in Conns \ {cur} : buf'[d] = buf[d]
  <2>1. /\ buf' \in [Conns -> Seq(ByteSet)] /\ begin' \in [Conns -> Nat] /\ Fits'
        /\ buf'[cur] = After(b, 0) /\ \A d \in Conns \ {cur} : buf'[d] = buf[d]
    BY <1>1, <1>2, <1>6, <1>9, <1>10, HeldTyped
  <2>2. QED
    BY <1>9, <2>1, Wholes
<1> DEFINE w == Waiting(q, content)
<1>12. /\ buf[cur] \in Seq(ByteSet) /\ rest \in Seq(ByteSet) /\ w \in Seq(ByteSet)
       /\ wantsWrite[cur]
  <2>1. buf[cur] \in Seq(ByteSet) /\ content \in [Packets -> Seq(ByteSet)]
    BY <1>2, ConnTyped
  <2>2. wantsWrite[cur]
    BY <1>2, <1>3 DEF SendInv, WaitingIsWatched, q
  <2>3. QED
    BY <1>3, <1>4, <2>1, <2>2, WaitingTyped
<1> HIDE DEF rest
<1>13. ~mishap[cur] => ~garbled[cur] /\ buf[cur] \o w = owed[cur]
  BY <1>2 DEF SendInv, Ordered, q
<1>14. \A i, j \in 1 .. Len(q) : q[i] = q[j] => i = j
  BY <1>2 DEF SendInv, QueueInv, OnceOnly, q
<1>15. netPc' \in {"wait", "ready", "send", "fill"}
  BY <1>1
<1>16. WaitingIsWatched'
  <2>1. SUFFICES ASSUME NEW d \in Conns, buf'[d] # << >> \/ sendQueue'[d] # << >>
                 PROVE  wantsWrite'[d]
    BY DEF WaitingIsWatched
  <2>2. CASE d # cur
    <3>1. sendQueue'[d] = sendQueue[d]
      BY <1>1, <1>2, <2>2 DEF Typed
    <3>2. QED
      BY <2>1, <2>2, <3>1, <1>1, <1>11 DEF SendInv, WaitingIsWatched
  <2>3. CASE d = cur
    BY <2>3, <1>1, <1>12
  <2>4. QED
    BY <2>2, <2>3
<1>17. CASE done
  <2>1. /\ n = size /\ content' = content /\ mishap' = mishap
        /\ sendQueue' = [sendQueue EXCEPT ![cur] = Tail(q)]
        /\ netPc' = IF Len(q) > 1 THEN "fill" ELSE "send"
    BY <1>1, <1>17
  <2> HIDE DEF done
  <2>2. sendQueue' \in [Conns -> Seq(Packets)] /\ sendQueue'[cur] = Tail(q)
        /\ \A d \in Conns \ {cur} : sendQueue'[d] = sendQueue[d]
    BY <1>2, <1>4, <2>1 DEF Typed
  <2>3. Typed'
    BY <1>1, <1>2, <1>11, <1>15, <2>1, <2>2 DEF Typed
  <2>4. Whole'
    BY <2>1 DEF SendInv, Whole
  <2>5. \A i \in 1 .. Len(Tail(q)) : i + 1 \in 1 .. Len(q) /\ Tail(q)[i] = q[i + 1] /\ i \in Nat
    BY <1>4
  <2>6. QueueInv'
    <3> DEFINE r == Tail(q)
    <3>1. Len(r) = Len(q) - 1 /\ Len(q) \in Nat \ {0}
      BY <1>4
    <3>2. \A i \in 1 .. Len(r) : i + 1 \in 1 .. Len(q) /\ r[i] = q[i + 1] /\ i \in Nat
      BY <2>5
    <3>3. sendQueue'[cur] = r /\ sendQueue[cur] = q
      BY <2>2 DEF q
    <3> HIDE DEF r
    <3>4. Filling'
      <4>1. Len(q) > 1 => r # << >>
        BY <3>1
      <4>2. QED
        BY <4>1, <3>3, <1>1, <2>1 DEF Filling
    <3>5. OnceOnly'
      <4>1. \A i, j \in 1 .. Len(r) : r[i] = r[j] => i = j
        <5>1. SUFFICES ASSUME NEW i \in 1 .. Len(r), NEW j \in 1 .. Len(r), r[i] = r[j]
                       PROVE  i = j
          OBVIOUS
        <5>2. i + 1 = j + 1 /\ i \in Nat /\ j \in Nat
          BY <3>2, <5>1, <1>14
        <5>3. QED
          BY <5>2
      <4>2. QED
        BY <4>1, <3>3, <2>2 DEF SendInv, QueueInv, OnceOnly
    <3>6. SentOnly'
      BY <1>1, <1>2, <3>2, <3>3, <2>2, ZenonT(60) DEF SendInv, QueueInv, SentOnly
    <3>7. StillLeft'
      <4>1. left \subseteq Conns
        BY <1>2 DEF Typed
      <4>2. \A d \in left : \A i \in 1 .. Len(sendQueue[d]) : sendQueue[d][i] # made
        BY DEF SendInv, QueueInv, StillLeft
      <4>3. \A d \in left : \A i \in 1 .. Len(sendQueue'[d]) : sendQueue'[d][i] # made
        <5>1. SUFFICES ASSUME NEW d \in left, NEW i \in 1 .. Len(sendQueue'[d])
                       PROVE  sendQueue'[d][i] # made
          OBVIOUS
        <5>2. CASE d = cur
          BY <5>2, <4>2, <3>2, <3>3
        <5>3. CASE d # cur
          BY <5>3, <4>1, <4>2, <2>2
        <5>4. QED
          BY <5>2, <5>3
      <4>4. QED
        BY <4>3, <1>1 DEF SendInv, QueueInv, StillLeft
    <3>8. QueuesShort'
      <4>1. Len(q) <= MaxQueue + 1 /\ MaxQueue \in Nat
        BY <1>2, <3>3, SendAssumption DEF SendInv, QueueInv, QueuesShort
      <4>2. Len(r) <= MaxQueue + 1
        BY <4>1, <3>1
      <4>3. QED
        BY <4>2, <3>3, <2>2 DEF SendInv, QueueInv, QueuesShort
    <3>9. QED
      BY <3>4, <3>5, <3>6, <3>7, <3>8 DEF QueueInv
  <2>7. ASSUME NEW d \in Conns
        PROVE  Ordered(d)'
    <3>1. CASE d # cur
      BY <1>1, <1>2, <1>11, <2>1, <2>2, <3>1, OthersInOrder DEF SendInv
    <3>2. CASE d = cur
      <4>1. SUFFICES ASSUME ~mishap[cur]
                     PROVE  ~garbled[cur] /\ b \o rest = owed[cur]
        BY <1>1, <1>11, <2>1, <2>2, <3>2 DEF Ordered, Waiting, rest
      <4>2. u = ct
        BY <1>5, <2>1, Wholes DEF u
      <4>3. b \o rest = buf[cur] \o (ct \o rest)
        BY <4>2, <1>5, <1>12, JoinTwice DEF b
      <4>4. QED
        BY <4>1, <4>3, <1>4, <1>13
    <3>3. QED
      BY <3>1, <3>2
  <2>8. QED
    BY <1>11, <1>16, <2>3, <2>4, <2>6, <2>7 DEF SendInv
<1>18. CASE ~done
  <2>1. /\ Shortened(cur, p, n)
        /\ mishap' = [d \in Conns |-> mishap[d] \/ (n > 0 /\ d \in SharedWith(cur, p))]
        /\ sendQueue' = sendQueue /\ netPc' = "send"
    BY <1>1, <1>18
  <2> HIDE DEF done
  <2>2. /\ content' \in [Packets -> Seq(ByteSet)] /\ content'[p] = After(ct, n)
        /\ \A r \in Packets \ {p} : content'[r] = content[r]
    BY <1>2, <1>4, <1>7, <2>1, ShortenedTyped
  <2>3. mishap' \in [Conns -> BOOLEAN]
    BY <1>2, <2>1 DEF Typed
  <2>4. Typed'
    BY <1>1, <1>2, <1>11, <1>15, <2>1, <2>2, <2>3 DEF Typed
  <2>5. Whole'
    BY <1>2, <1>4, <1>7, <2>1, ShortenedWhole DEF SendInv
  <2>6. QueueInv'
    BY <1>1, <2>1 DEF SendInv, QueueInv, Filling, OnceOnly, QueuesShort, SentOnly, StillLeft
  <2>7. ASSUME NEW d \in Conns
        PROVE  Ordered(d)'
    <3>1. CASE d # cur
      <4>1. mishap'[d] = (mishap[d] \/ (n > 0 /\ d \in SharedWith(cur, p)))
        BY <2>1
      <4>2. ~mishap'[d] => ~mishap[d] /\ \A i \in 1 .. Len(sendQueue[d]) :
                                           content'[sendQueue[d][i]] = content[sendQueue[d][i]]
        BY <1>2, <1>4, <1>7, <2>1, <3>1, <4>1, ShortenedForOthers
      <4>3. QED
        BY <1>1, <1>2, <1>11, <2>1, <3>1, <4>2, OthersInOrder DEF SendInv
    <3>2. CASE d = cur
      <4>1. SUFFICES ASSUME ~mishap'[cur]
                     PROVE  ~garbled[cur] /\ b \o Waiting(q, content') = owed[cur]
        BY <1>1, <1>11, <2>1, <3>2 DEF Ordered, Waiting, q
      <4>2. ~mishap[cur]
        BY <1>2, <2>1, <4>1
      <4>3. Waiting(q, content') = content'[p] \o Waiting(Tail(q), content')
        BY <1>3, <2>2, FirstThenRest DEF p
      <4>4. Waiting(Tail(q), content') = rest
        <5>1. \A i \in 1 .. Len(Tail(q)) : content'[Tail(q)[i]] = content[Tail(q)[i]]
          <6>1. SUFFICES ASSUME NEW i \in 1 .. Len(Tail(q))
                         PROVE  content'[Tail(q)[i]] = content[Tail(q)[i]]
            OBVIOUS
          <6>2. i + 1 \in 1 .. Len(q) /\ 1 \in 1 .. Len(q) /\ i + 1 # 1 /\ Tail(q)[i] = q[i + 1]
            BY <1>4
          <6>3. q[i + 1] # p /\ q[i + 1] \in Packets
            BY <6>2, <1>3, <1>4, <1>14
          <6>4. QED
            BY <6>2, <6>3, <2>2
        <5>2. QED
          BY <5>1, <1>4, WaitingSame DEF rest
      <4>5. b \o (After(ct, n) \o rest) = buf[cur] \o (ct \o rest)
        <5> DEFINE a == After(ct, n)
        <5>1. /\ b = buf[cur] \o u /\ a \in Seq(ByteSet) /\ u \o a = ct
              /\ buf[cur] \in Seq(ByteSet) /\ rest \in Seq(ByteSet) /\ u \in Seq(ByteSet)
          BY <1>8, <1>12 DEF b
        <5> HIDE DEF a, ct
        <5> DEFINE x == buf[cur]
        <5> HIDE DEF x
        <5>2. x \in Seq(ByteSet) /\ a \o rest \in Seq(ByteSet)
          BY <5>1, JoinedBytes DEF x
        <5>3. (x \o u) \o (a \o rest) = x \o (u \o (a \o rest))
          <6> DEFINE y == a \o rest
          <6>1. x \in Seq(ByteSet) /\ u \in Seq(ByteSet) /\ y \in Seq(ByteSet)
            BY <5>1, <5>2
          <6> HIDE DEF y
          <6>2. (x \o u) \o y = x \o (u \o y)
            BY <6>1, JoinTwice
          <6>3. QED
            BY <6>2 DEF y
        <5>4. (u \o a) \o rest = u \o (a \o rest)
          BY <5>1, JoinTwice
        <5>5. b = x \o u
          BY <5>1 DEF x
        <5>6. QED
          BY <5>1, <5>3, <5>4, <5>5 DEF x, a
      <4>6. QED
        BY <4>2, <4>3, <4>4, <4>5, <2>2, <1>4, <1>13
    <3>3. QED
      BY <3>1, <3>2
  <2>8. QED
    BY <1>11, <1>16, <2>4, <2>5, <2>6, <2>7 DEF SendInv
<1>19. QED
  BY <1>17, <1>18

LEMMA NextKeeps == SendInv /\ [Next]_vars => SendInv'
<1>1. SUFFICES ASSUME SendInv, [Next]_vars
               PROVE  SendInv'
  OBVIOUS
<1>2. CASE UNCHANGED vars
  BY <1>1, <1>2, ZenonT(60) DEF vars, SendInv, Typed, Fits, Whole, QueueInv, Filling, OnceOnly, SentOnly,
       StillLeft, QueuesShort, WaitingIsWatched, Ordered, Waiting
<1>3. ASSUME NEW c \in Conns, SendTo(c)
      PROVE  SendInv'
  BY <1>1, <1>3, SendToKeeps
<1>4. ASSUME NEW c \in Conns, BroadcastTo(c)
      PROVE  SendInv'
  BY <1>1, <1>4, BroadcastToKeeps
<1>5. CASE Broadcast
  BY <1>1, <1>5, BroadcastKeeps
<1>6. ASSUME NEW c \in Conns, WriteEvent(c)
      PROVE  SendInv'
  BY <1>1, <1>6, WriteEventKeeps
<1>7. CASE TrySend
  BY <1>1, <1>7, TrySendKeeps
<1>8. CASE Fill
  BY <1>1, <1>8, FillKeeps
<1>9. QED
  BY <1>1, <1>2, <1>3, <1>4, <1>5, <1>6, <1>7, <1>8 DEF Next, Network

\* The invariant holds in every reachable state of sendPacket and the write event.
THEOREM SendInvariant == Spec => []SendInv
<1>1. QED
  BY InitInv, NextKeeps, PTL DEF Spec

\* Every packet has an end of its bytes left, every buffer holds bytes within its size,
\* and no queue exceeds the limit of sendPacket by more than one.
THEOREM TypeCorrect == Spec => []TypeOK
<1>1. SendInv => TypeOK
  <2>1. SUFFICES ASSUME SendInv
                 PROVE  TypeOK
    OBVIOUS
  <2>2. \A p \in Packets : content[p] \in {After(Bytes(p), n) : n \in 0 .. Length[p]}
    BY <2>1 DEF SendInv, Whole
  <2>3. ASSUME NEW c \in Conns
        PROVE  /\ Range(sendQueue[c]) \subseteq Packets
               /\ Len(sendQueue[c]) <= MaxQueue + 1
               /\ Range(buf[c]) \subseteq ByteSet
               /\ begin[c] \in Nat /\ begin[c] + Len(buf[c]) <= Cap
               /\ Range(owed[c]) \subseteq ByteSet
    <3>1. buf[c] \in Seq(ByteSet) /\ owed[c] \in Seq(ByteSet) /\ sendQueue[c] \in Seq(Packets)
      BY <2>1 DEF SendInv, Typed
    <3>2. Range(buf[c]) \subseteq ByteSet /\ Range(owed[c]) \subseteq ByteSet
          /\ Range(sendQueue[c]) \subseteq Packets
      BY <3>1 DEF Range
    <3>3. QED
      BY <2>1, <3>2 DEF SendInv, Typed, Fits, QueueInv, QueuesShort
  <2>4. QED
    BY <2>1, <2>2, <2>3 DEF TypeOK, SendInv, Typed
<1>2. QED
  BY <1>1, SendInvariant, PTL

\* Without a mishap (half sent and committed again, shortened for another receiver) the
\* socket gets what it is owed: buffer and queue hold exactly the bytes accepted and not
\* taken yet, in their order, whatever sendPacket and trySend have cut.
THEOREM SentAsAccepted == Spec => []InOrder
<1>1. SendInv => InOrder
  BY OrderedAll DEF SendInv
<1>2. QED
  BY <1>1, SendInvariant, PTL

\* Whenever bytes wait in the buffer or the queue, epoll watches for write events:
\* trySend and sendPacket never leave something behind that no event will send.
THEOREM WaitingWatched == Spec => []WaitingIsWatched
<1>1. SendInv => WaitingIsWatched
  BY DEF SendInv
<1>2. QED
  BY <1>1, SendInvariant, PTL

=============================================================================
