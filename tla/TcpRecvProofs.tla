---------------------------- MODULE TcpRecvProofs ----------------------------
(***************************************************************************)
(* How packets reach the main thread, for any number of connections and    *)
(* packets, any sizes, any buffer and any ring, under every interleaving   *)
(* of the peers, the network thread and the main thread.                   *)
(*                                                                         *)
(* First the ring alone: it is a bounded FIFO, and no cell is used by both *)
(* threads at a time.  The invariant (RingInv) is that the full cells are  *)
(* those between the two counters, less the cells the threads have in      *)
(* their hands.  Then the connections: the bytes between the peer and the  *)
(* ring are the stream from the end of some packet i on (StreamFrom), and  *)
(* the packets up to i are got, in the ring in their order, or dropped     *)
(* (Deliver).  The two belong together: the packet that push has taken is  *)
(* in the ring before the stream has gone on to the next (Settled).        *)
(***************************************************************************)
EXTENDS TcpRecv, Lemmas

-----------------------------------------------------------------------------
(*** The counters of the ring ***)

\* A counter splits into whole turns of the ring and a position in it.
LEMMA Turns ==
  ASSUME NEW k \in Nat
  PROVE  /\ k \div Size \in Nat
         /\ RealPos(k) \in Positions
         /\ k = Size * (k \div Size) + RealPos(k)
BY RingAssumption DEF RealPos, Positions

\* The splitting is unique.
LEMMA OneSplitting ==
  ASSUME NEW a \in Int, NEW b \in Int, NEW r \in Positions, NEW s \in Positions,
         Size * a + r = Size * b + s
  PROVE  r = s
<1> r \in Int /\ s \in Int /\ 0 <= r /\ r < Size /\ 0 <= s /\ s < Size /\ Size \in Int
  BY RingAssumption DEF Positions
<1>1. Size * (a - b) = s - r
  OBVIOUS
<1>2. CASE a - b <= -1
  <2>1. Size * (a - b) <= -Size
    BY <1>2
  <2>2. QED
    BY <2>1, <1>1
<1>3. CASE a - b >= 1
  <2>1. Size * (a - b) >= Size
    BY <1>3
  <2>2. QED
    BY <2>1, <1>1
<1>4. CASE a = b
  BY <1>4
<1>5. QED
  BY <1>2, <1>3, <1>4

\* Less than one turn ahead there is another cell.
LEMMA WithinATurn ==
  ASSUME NEW j \in Nat, NEW k \in Nat, j < k, k < j + Size
  PROVE  RealPos(j) # RealPos(k)
<1> DEFINE a == j \div Size
           b == k \div Size
<1>1. a \in Nat /\ RealPos(j) \in Positions /\ j = Size * a + RealPos(j)
  BY Turns
<1>2. b \in Nat /\ RealPos(k) \in Positions /\ k = Size * b + RealPos(k)
  BY Turns
<1> HIDE DEF a, b
<1> SUFFICES ASSUME RealPos(j) = RealPos(k) PROVE FALSE
  OBVIOUS
<1>3. k - j = Size * (b - a)
  BY <1>1, <1>2, RingAssumption DEF Positions
<1>4. CASE b - a <= 0
  <2>1. Size * (b - a) <= 0
    BY <1>4, <1>1, <1>2, RingAssumption
  <2>2. QED
    BY <2>1, <1>3
<1>5. CASE b - a >= 1
  <2>1. Size * (b - a) >= Size
    BY <1>5, <1>1, <1>2, RingAssumption
  <2>2. QED
    BY <2>1, <1>3, RingAssumption
<1>6. QED
  BY <1>4, <1>5, <1>1, <1>2

\* One turn ahead there is the same cell.
LEMMA ATurnAhead ==
  ASSUME NEW k \in Nat
  PROVE  RealPos(k + Size) = RealPos(k)
<1> DEFINE a == k \div Size
           b == (k + Size) \div Size
<1>1. /\ a \in Nat /\ RealPos(k) \in Positions /\ k = Size * a + RealPos(k)
  BY Turns
<1>2. k + Size \in Nat
  BY RingAssumption
<1>3. b \in Nat /\ RealPos(k + Size) \in Positions
      /\ k + Size = Size * b + RealPos(k + Size)
  BY <1>2, Turns
<1> HIDE DEF a, b
<1>4. Size * (a + 1) + RealPos(k) = Size * b + RealPos(k + Size)
  BY <1>1, <1>3, RingAssumption DEF Positions
<1>5. QED
  BY <1>1, <1>3, <1>4, OneSplitting

\* Two counters of the same turn, wherever it begins, are in different cells.
LEMMA SameTurn ==
  ASSUME NEW f \in Nat, NEW j \in f .. f + Size - 1, NEW k \in f .. f + Size - 1,
         j # k
  PROVE  RealPos(j) # RealPos(k)
<1>1. /\ j \in Nat /\ k \in Nat
      /\ j < k + Size /\ k < j + Size
  BY RingAssumption
<1>2. CASE j < k
  BY <1>1, <1>2, WithinATurn
<1>3. CASE k < j
  BY <1>1, <1>3, WithinATurn
<1>4. QED
  BY <1>1, <1>2, <1>3

-----------------------------------------------------------------------------
(***************************************************************************)
(* The types.                                                              *)
(***************************************************************************)
LEMMA TypesInit == RingInit => RingTypeOK
<1> SUFFICES ASSUME RingInit PROVE RingTypeOK
  OBVIOUS
<1>1. /\ full \in [Positions -> BOOLEAN]
      /\ cell \in [Positions -> Items \union {NoItem}]
  BY DEF RingInit
<1>2. QED
  BY <1>1 DEF RingInit, RingTypeOK

LEMMA TypesNext == RingTypeOK /\ RingInv /\ [RingNext]_ringVars => RingTypeOK'
<1> SUFFICES ASSUME RingTypeOK, RingInv, [RingNext]_ringVars PROVE RingTypeOK'
  OBVIOUS
<1> USE DEF RingTypeOK
<1>a. RealPos(mEnd) \in Positions /\ RealPos(mBegin) \in Positions
  BY Turns
<1>1. ASSUME NEW x \in Items, PushCall(x) PROVE RingTypeOK'
  BY <1>1 DEF PushCall, popVars
<1>2. CASE PushFree
  BY <1>2, <1>a DEF PushFree, popVars
<1>3. CASE PushFull
  <2>1. pushPc' \in {"out", "look", "mark"}
    BY <1>3 DEF PushFull
  <2>2. pushed' \in BOOLEAN
    BY <1>3 DEF PushFull
  <2>3. QED
    BY <1>3, <2>1, <2>2 DEF PushFull, popVars
<1>4. CASE PushMark
  BY <1>4 DEF PushMark, popVars
<1>5. CASE PopCall
  BY <1>5 DEF PopCall, pushVars
<1>6. CASE PopFull
  BY <1>6, <1>a DEF PopFull, pushVars
<1>7. CASE PopEmpty
  BY <1>7 DEF PopEmpty, pushVars
<1>8. CASE PopMark
  BY <1>8 DEF PopMark, pushVars
<1>9. CASE UNCHANGED ringVars
  BY <1>9 DEF ringVars
<1>10. QED
  BY <1>1, <1>2, <1>3, <1>4, <1>5, <1>6, <1>7, <1>8, <1>9 DEF RingNext, Push, Pop

-----------------------------------------------------------------------------
(***************************************************************************)
(* The steps of the two threads: what each does to the ring as a queue.    *)
(***************************************************************************)
LEMMA SameContents ==
  ASSUME Oldest \in Nat, Newest \in Nat, Oldest' = Oldest, Newest' = Newest,
         \A k \in Oldest .. Newest - 1 : ItemAt(k)' = ItemAt(k)
  PROVE  Contents' = Contents
<1>1. ASSUME NEW i \in 1 .. Newest - Oldest
      PROVE  Oldest + i - 1 \in Oldest .. Newest - 1
  OBVIOUS
<1>2. ASSUME NEW i \in 1 .. Newest - Oldest
      PROVE  ItemAt(Oldest + i - 1)' = ItemAt(Oldest + i - 1)
  BY <1>1
<1>3. QED
  BY <1>2 DEF Contents

\* The queue that the ring stands for.
LEMMA ContentsSeq ==
  ASSUME Oldest \in Nat, Newest \in Nat, Oldest <= Newest,
         \A k \in Oldest .. Newest - 1 : ItemAt(k) \in Items
  PROVE  /\ Contents \in Seq(Items)
         /\ Len(Contents) = Newest - Oldest
         /\ \A i \in 1 .. Newest - Oldest : Contents[i] = ItemAt(Oldest + i - 1)
<1>1. \A i \in 1 .. Newest - Oldest : Oldest + i - 1 \in Oldest .. Newest - 1
  OBVIOUS
<1>2. QED
  BY <1>1 DEF Contents

LEMMA PushFreeStep ==
  ASSUME RingTypeOK, RingInv, PushFree
  PROVE  RingInv' /\ UNCHANGED <<Contents, popped>>
<1> USE DEF RingTypeOK
<1>1. /\ Oldest \in Nat /\ Newest \in Nat /\ Oldest <= Newest /\ Newest <= Oldest + Size
      /\ Newest = mEnd /\ ~full[RealPos(Newest)]
  BY DEF RingInv, InTurn, PushFree, CanPush, Newest
<1>2. Newest < Oldest + Size
  <2>1. SUFFICES ASSUME Newest = Oldest + Size PROVE FALSE
    BY <1>1, RingAssumption
  <2>2. RealPos(Newest) = RealPos(Oldest)
    BY <1>1, <2>1, ATurnAhead
  <2>3. Oldest \in Oldest .. Newest - 1
    BY <1>1, <2>1, RingAssumption
  <2>4. QED
    BY <1>1, <2>2, <2>3 DEF RingInv, InTurn
<1>3. Oldest' = Oldest /\ Newest' = Newest /\ UNCHANGED <<full, popped, popPc, popItem, mBegin>>
  BY <1>1 DEF PushFree, popVars, Oldest, Newest
<1>4. RealPos(Newest) \in Positions
  BY <1>1, Turns
<1>5. ASSUME NEW k \in Oldest .. Newest - 1 PROVE ItemAt(k)' = ItemAt(k)
  <2>1. RealPos(k) # RealPos(Newest) /\ RealPos(k) \in Positions
    BY <1>1, <1>2, SameTurn, Turns, RingAssumption
  <2>2. cell'[RealPos(k)] = cell[RealPos(k)]
    BY <1>1, <1>4, <2>1 DEF PushFree
  <2>3. QED
    BY <1>3, <2>2 DEF ItemAt
<1>6. Contents' = Contents
  BY <1>1, <1>3, <1>5, SameContents
<1>7. InTurn'
  BY <1>3 DEF RingInv, InTurn
<1>8. Midway'
  BY <1>1, <1>2, <1>3, <1>4, <1>5 DEF RingInv, Midway, PushFree
<1>9. QED
  BY <1>3, <1>6, <1>7, <1>8 DEF RingInv

LEMMA PushMarkStep ==
  ASSUME RingTypeOK, RingInv, PushMark
  PROVE  RingInv' /\ AsFifo!Put /\ Contents' = Append(Contents, pushItem)
<1> USE DEF RingTypeOK
<1>1. /\ Oldest \in Nat /\ Newest \in Nat /\ Oldest <= Newest /\ Newest < Oldest + Size
      /\ Newest = mEnd - 1 /\ cell[RealPos(Newest)] = pushItem /\ pushItem \in Items
  BY DEF RingInv, InTurn, Midway, PushMark, Newest
<1>2. /\ Oldest' = Oldest /\ Newest' = Newest + 1
      /\ UNCHANGED <<cell, popped, popPc, popItem, mBegin, mEnd>>
  BY <1>1 DEF PushMark, popVars, Oldest, Newest
<1>3. RealPos(Newest) \in Positions
  BY <1>1, Turns
<1>4. ASSUME NEW k \in Oldest .. Oldest + Size - 1, k # Newest
      PROVE  full'[RealPos(k)] = full[RealPos(k)]
  <2>1. RealPos(k) # RealPos(Newest) /\ RealPos(k) \in Positions
    BY <1>1, <1>4, SameTurn, Turns, RingAssumption, SMTT(30)
  <2>2. QED
    BY <1>1, <1>3, <2>1 DEF PushMark
<1>5. full'[RealPos(Newest)] = TRUE
  BY <1>1, <1>3 DEF PushMark
<1>6. ASSUME NEW k \in Int PROVE ItemAt(k)' = ItemAt(k)
  BY <1>2 DEF ItemAt
<1>7. ItemAt(Newest) = pushItem
  BY <1>1 DEF ItemAt, RingInv, Midway, Oldest
<1>8. InTurn'
  <2>1. ASSUME NEW k \in Oldest .. Newest PROVE full'[RealPos(k)]
    <3>1. CASE k = Newest
      BY <3>1, <1>5
    <3>2. CASE k # Newest
      <4>1. k \in Oldest .. Newest - 1 /\ k \in Oldest .. Oldest + Size - 1
        BY <3>2, <1>1, RingAssumption
      <4>2. QED
        BY <4>1, <3>2, <1>4 DEF RingInv, InTurn
    <3>3. QED
      BY <3>1, <3>2
  <2>2. \A k \in Newest + 1 .. Oldest + Size - 1 : ~full'[RealPos(k)]
    BY <1>1, <1>4 DEF RingInv, InTurn
  <2>3. QED
    BY <1>1, <1>2, <2>1, <2>2, RingAssumption DEF InTurn
<1>9. Midway'
  <2>1. \A k \in Oldest .. Newest : ItemAt(k) \in Items
    BY <1>1, <1>7 DEF RingInv, Midway
  <2>2. \A k \in Oldest' .. Newest' - 1 : ItemAt(k)' \in Items
    BY <1>1, <1>2, <1>6, <2>1
  <2>3. QED
    BY <1>1, <1>2, <2>2 DEF RingInv, Midway, PushMark
<1>10. Contents \in Seq(Items) /\ Len(Contents) = Newest - Oldest
  BY <1>1, ContentsSeq DEF RingInv, Midway
<1>11. Contents' = Append(Contents, pushItem)
  <2>1. /\ Contents' \in Seq(Items) /\ Len(Contents') = Newest - Oldest + 1
        /\ \A i \in 1 .. Newest - Oldest + 1 : Contents'[i] = ItemAt(Oldest + i - 1)
    <3>1. \A k \in Oldest .. Newest : ItemAt(k) \in Items
      BY <1>1, <1>7 DEF RingInv, Midway
    <3>2. \A i \in 1 .. Newest - Oldest + 1 : Oldest + i - 1 \in Oldest .. Newest
      BY <1>1
    <3>3. Contents' = [i \in 1 .. Newest - Oldest + 1 |-> ItemAt(Oldest + i - 1)]
      BY <1>1, <1>2, <1>6 DEF Contents
    <3>4. QED
      BY <1>1, <3>1, <3>2, <3>3
  <2>2. /\ Append(Contents, pushItem) \in Seq(Items)
        /\ Len(Append(Contents, pushItem)) = Newest - Oldest + 1
    BY <1>1, <1>10
  <2>3. ASSUME NEW i \in 1 .. Newest - Oldest + 1
        PROVE  Append(Contents, pushItem)[i] = ItemAt(Oldest + i - 1)
    <3>1. CASE i = Newest - Oldest + 1
      BY <3>1, <1>1, <1>7, <1>10
    <3>2. CASE i # Newest - Oldest + 1
      <4>1. i \in 1 .. Newest - Oldest
        BY <3>2, <1>1
      <4>2. Append(Contents, pushItem)[i] = Contents[i]
        BY <4>1, <1>1, <1>10
      <4>3. QED
        BY <4>1, <4>2 DEF Contents
    <3>3. QED
      BY <3>1, <3>2
  <2>4. QED
    BY <2>1, <2>2, <2>3, SeqEqual
<1>12. AsFifo!Put
  BY <1>1, <1>2, <1>10, <1>11, RingAssumption DEF AsFifo!Put
<1>13. QED
  BY <1>8, <1>9, <1>11, <1>12 DEF RingInv

LEMMA PopFullStep ==
  ASSUME RingTypeOK, RingInv, PopFull
  PROVE  RingInv' /\ UNCHANGED <<Contents, popped>>
<1> USE DEF RingTypeOK
<1>1. /\ Oldest \in Nat /\ Newest \in Nat /\ Oldest <= Newest /\ Newest <= Oldest + Size
      /\ Oldest = mBegin /\ full[RealPos(Oldest)]
  BY DEF RingInv, InTurn, PopFull, Oldest
<1>2. Oldest < Newest
  BY <1>1, RingAssumption DEF RingInv, InTurn
<1>3. /\ Oldest' = Oldest /\ Newest' = Newest
      /\ UNCHANGED <<full, popped, pushPc, pushItem, mEnd>>
  BY <1>1 DEF PopFull, pushVars, Oldest, Newest
<1>4. RealPos(Oldest) \in Positions
  BY <1>1, Turns
<1>5. ASSUME NEW k \in Oldest .. Oldest + Size - 1, k # Oldest
      PROVE  cell'[RealPos(k)] = cell[RealPos(k)]
  <2>1. RealPos(k) # RealPos(Oldest) /\ RealPos(k) \in Positions
    BY <1>1, <1>5, SameTurn, Turns, RingAssumption, SMTT(30)
  <2>2. QED
    BY <1>1, <1>4, <2>1 DEF PopFull
<1>6. ASSUME NEW k \in Oldest .. Newest - 1 PROVE ItemAt(k)' = ItemAt(k)
  <2>1. CASE k = Oldest
    BY <2>1, <1>1 DEF ItemAt, PopFull
  <2>2. CASE k # Oldest
    <3>1. cell'[RealPos(k)] = cell[RealPos(k)]
      BY <2>2, <1>1, <1>5, RingAssumption
    <3>2. QED
      BY <2>2, <3>1, <1>1 DEF ItemAt, PopFull
  <2>3. QED
    BY <2>1, <2>2
<1>7. Contents' = Contents
  BY <1>1, <1>3, <1>6, SameContents
<1>8. InTurn'
  BY <1>3 DEF RingInv, InTurn
<1>9. Midway'
  <2>1. \A k \in Oldest' .. Newest' - 1 : ItemAt(k)' \in Items
    BY <1>3, <1>6 DEF RingInv, Midway
  <2>2. pushPc' = "mark" => Newest' < Oldest' + Size /\ cell'[RealPos(Newest')] = pushItem'
    <3>1. SUFFICES ASSUME pushPc = "mark"
                   PROVE  Newest < Oldest + Size /\ cell'[RealPos(Newest)] = pushItem
      BY <1>3
    <3>2. Newest < Oldest + Size /\ cell[RealPos(Newest)] = pushItem
      BY <3>1 DEF RingInv, Midway
    <3>3. Newest \in Oldest .. Oldest + Size - 1 /\ Newest # Oldest
      BY <3>2, <1>1, <1>2, RingAssumption
    <3>4. QED
      BY <3>2, <3>3, <1>5
  <2>3. QED
    BY <1>2, <1>3, <2>1, <2>2 DEF RingInv, Midway
<1>10. QED
  BY <1>3, <1>7, <1>8, <1>9 DEF RingInv

LEMMA PopMarkStep ==
  ASSUME RingTypeOK, RingInv, PopMark
  PROVE  RingInv' /\ AsFifo!Get /\ Contents # <<>>
         /\ popItem = Head(Contents) /\ Contents' = Tail(Contents)
<1> USE DEF RingTypeOK
<1>1. /\ Oldest \in Nat /\ Newest \in Nat /\ Oldest < Newest /\ Newest <= Oldest + Size
      /\ Oldest = mBegin - 1
  BY DEF RingInv, InTurn, Midway, PopMark, Oldest
<1>2. /\ Oldest' = Oldest + 1 /\ Newest' = Newest
      /\ UNCHANGED <<cell, pushPc, pushItem, mBegin, mEnd>>
  BY <1>1 DEF PopMark, pushVars, Oldest, Newest
<1>3. RealPos(Oldest) \in Positions
  BY <1>1, Turns
<1>4. ASSUME NEW k \in Oldest .. Oldest + Size - 1, k # Oldest
      PROVE  full'[RealPos(k)] = full[RealPos(k)]
  <2>1. Oldest \in Oldest .. Oldest + Size - 1 /\ k \in Nat
    BY <1>1, RingAssumption
  <2>2. RealPos(k) # RealPos(Oldest)
    BY <1>1, <1>4, <2>1, SameTurn
  <2>3. RealPos(k) \in Positions
    BY <2>1, Turns
  <2>4. QED
    BY <1>1, <1>3, <2>2, <2>3 DEF PopMark
<1>5. ~full'[RealPos(Oldest)] /\ ~full'[RealPos(Oldest + Size)]
  BY <1>1, <1>3, ATurnAhead DEF PopMark
<1>6. ASSUME NEW k \in Oldest + 1 .. Newest - 1 PROVE ItemAt(k)' = ItemAt(k)
  BY <1>1, <1>2 DEF ItemAt, PopMark
<1>7. InTurn'
  <2>1. \A k \in Oldest + 1 .. Newest - 1 : full'[RealPos(k)]
    <3>1. ASSUME NEW k \in Oldest + 1 .. Newest - 1
          PROVE  /\ k \in Oldest .. Newest - 1
                 /\ k \in Oldest .. Oldest + Size - 1 /\ k # Oldest
      BY <1>1, RingAssumption
    <3>2. QED
      BY <3>1, <1>4 DEF RingInv, InTurn
  <2>2. ASSUME NEW k \in Newest .. Oldest + Size PROVE ~full'[RealPos(k)]
    <3>1. CASE k = Oldest + Size
      BY <3>1, <1>5
    <3>2. CASE k # Oldest + Size
      <4>1. /\ k \in Newest .. Oldest + Size - 1
            /\ k \in Oldest .. Oldest + Size - 1 /\ k # Oldest
        BY <3>2, <1>1, RingAssumption
      <4>2. QED
        BY <4>1, <1>4 DEF RingInv, InTurn
    <3>3. QED
      BY <3>1, <3>2
  <2>3. QED
    BY <1>1, <1>2, <2>1, <2>2, RingAssumption DEF InTurn
<1>8. Midway'
  <2>1. \A k \in Oldest' .. Newest' - 1 : ItemAt(k)' \in Items
    BY <1>1, <1>2, <1>6 DEF RingInv, Midway
  <2>2. QED
    BY <1>1, <1>2, <2>1, RingAssumption DEF RingInv, Midway, PopMark
<1>9. /\ Contents \in Seq(Items) /\ Len(Contents) = Newest - Oldest
      /\ \A i \in 1 .. Newest - Oldest : Contents[i] = ItemAt(Oldest + i - 1)
  BY <1>1, ContentsSeq DEF RingInv, Midway
<1>10. Contents # <<>>
  BY <1>1, <1>9
<1>11. Head(Contents) = popItem
  BY <1>1, <1>9, <1>10 DEF ItemAt, PopMark
<1>12. Contents' = Tail(Contents)
  <2>1. /\ Tail(Contents) \in Seq(Items) /\ Len(Tail(Contents)) = Newest - Oldest - 1
        /\ \A i \in 1 .. Newest - Oldest - 1 : Tail(Contents)[i] = ItemAt(Oldest + i)
    BY <1>1, <1>9, <1>10, HeadTailProperties
  <2>2. /\ Contents' \in Seq(Items) /\ Len(Contents') = Newest - Oldest - 1
        /\ \A i \in 1 .. Newest - Oldest - 1 : Contents'[i] = ItemAt(Oldest + i)
    <3>1. ASSUME NEW i \in 1 .. Newest - Oldest - 1
          PROVE  Oldest + i \in Oldest + 1 .. Newest - 1
      BY <1>1
    <3>2. Contents' = [i \in 1 .. Newest - Oldest - 1 |-> ItemAt(Oldest + i)]
      BY <1>1, <1>2, <1>6, <3>1 DEF Contents
    <3>3. \A i \in 1 .. Newest - Oldest - 1 : ItemAt(Oldest + i) \in Items
      BY <1>1, <3>1 DEF RingInv, Midway
    <3>4. QED
      BY <1>1, <3>2, <3>3
  <2>3. QED
    BY <2>1, <2>2, SeqEqual
<1>13. AsFifo!Get
  BY <1>10, <1>11, <1>12 DEF AsFifo!Get, PopMark
<1>14. QED
  BY <1>7, <1>8, <1>10, <1>11, <1>12, <1>13 DEF RingInv

\* The other steps leave the queue alone: calls, vain looks, and steps of
\* whoever uses the ring.
LEMMA QuietStep ==
  ASSUME RingTypeOK, RingInv,
         \/ \E x \in Items : PushCall(x)
         \/ PushFull \/ PopCall \/ PopEmpty \/ UNCHANGED ringVars
  PROVE  RingInv' /\ UNCHANGED <<Contents, popped>>
<1>1. /\ UNCHANGED <<mBegin, mEnd, full, cell, popItem, popped>>
      /\ (popPc' = "mark") = (popPc = "mark")
      /\ (pushPc' = "mark") = (pushPc = "mark")
  BY DEF PushCall, PushFull, PopCall, PopEmpty, ringVars, pushVars, popVars
<1>2. pushPc' # "out" => pushItem' \in Items
  BY DEF RingInv, Midway, PushCall, PushFull, PopCall, PopEmpty, ringVars, pushVars, popVars
<1>3. pushPc' = "mark" => pushItem' = pushItem
  BY DEF PushCall, PushFull, PopCall, PopEmpty, ringVars, pushVars, popVars
<1>4. Oldest' = Oldest /\ Newest' = Newest
  BY <1>1 DEF Oldest, Newest
<1>5. ASSUME NEW k PROVE ItemAt(k)' = ItemAt(k)
  BY <1>1 DEF ItemAt
<1>6. Contents' = Contents
  BY <1>4, <1>5, SameContents DEF RingInv, InTurn
<1>7. InTurn'
  BY <1>1, <1>4 DEF RingInv, InTurn
<1>8. Midway'
  BY <1>1, <1>2, <1>3, <1>4, <1>5 DEF RingInv, Midway
<1>9. QED
  BY <1>1, <1>6, <1>7, <1>8 DEF RingInv

-----------------------------------------------------------------------------
(***************************************************************************)
(* The theorems.                                                           *)
(***************************************************************************)
LEMMA InvInit == RingInit => RingInv
<1> SUFFICES ASSUME RingInit PROVE RingInv
  OBVIOUS
<1>1. Oldest = 0 /\ Newest = 0
  BY DEF RingInit, Oldest, Newest
<1>2. \A k \in 0 .. Size - 1 : RealPos(k) \in Positions
  BY Turns
<1>3. InTurn
  BY <1>1, <1>2, RingAssumption DEF InTurn, RingInit
<1>4. Midway
  BY <1>1 DEF Midway, RingInit
<1>5. QED
  BY <1>3, <1>4 DEF RingInv

LEMMA InvNext == RingTypeOK /\ RingInv /\ [RingNext]_ringVars => RingInv'
BY PushFreeStep, PushMarkStep, PopFullStep, PopMarkStep, QuietStep
   DEF RingNext, Push, Pop

\* At every moment the full cells are those between the two counters, and
\* there is never more in the ring than it holds.
THEOREM RingIsSound == Ring => [](RingTypeOK /\ RingInv)
BY TypesInit, TypesNext, InvInit, InvNext, PTL DEF Ring

\* Whatever the producer's push and the consumer's pop do at the same time,
\* the queue of LockFreeCircularQueueSPSC is a bounded FIFO.
THEOREM RingImplementsFifo == Ring => RingIsFifo
<1>1. RingInit => AsFifo!FifoInit
  <2> SUFFICES ASSUME RingInit PROVE Contents = <<>>
    BY DEF AsFifo!FifoInit
  <2>1. Oldest = 0 /\ Newest = 0
    BY DEF RingInit, Oldest, Newest
  <2>2. QED
    BY <2>1 DEF Contents
<1>2. RingTypeOK /\ RingInv /\ [RingNext]_ringVars
      => [AsFifo!Put \/ AsFifo!Get]_(AsFifo!fifoVars)
  BY PushFreeStep, PushMarkStep, PopFullStep, PopMarkStep, QuietStep
     DEF RingNext, Push, Pop, AsFifo!fifoVars
<1>3. QED
  BY <1>1, <1>2, RingIsSound, PTL DEF Ring, RingIsFifo, AsFifo!Fifo

\* Between its look and its mark a thread has the cell for itself: there is
\* no data race on the items.
THEOREM NoDataRace == Ring => []NoRace
<1>1. RingTypeOK /\ RingInv => NoRace
  <2> SUFFICES ASSUME RingTypeOK, RingInv, pushPc = "mark", popPc = "mark"
               PROVE  RealPos(mEnd - 1) # RealPos(mBegin - 1)
    BY DEF NoRace
  <2>1. /\ Newest = mEnd - 1 /\ Oldest = mBegin - 1
        /\ Oldest \in Nat /\ Newest \in Nat /\ Oldest < Newest /\ Newest < Oldest + Size
    BY DEF RingInv, InTurn, Midway, Oldest, Newest
  <2>2. QED
    BY <2>1, WithinATurn
<1>2. QED
  BY <1>1, RingIsSound, PTL

-----------------------------------------------------------------------------
(*** The buffers ***)

\* Everything on its way is made of bytes of packets.
BytesInv ==
  /\ sent \in [Conns -> Seq(ByteSet)] /\ arrived \in [Conns -> Seq(ByteSet)]
  /\ buf \in [Conns -> Seq(ByteSet)] /\ partial \in [Conns -> Seq(ByteSet)]
  /\ cur \in Conns

\* What a buffer holds lies in it.
BufferInv == /\ begin \in [Conns -> Nat]
             /\ \A c \in Conns : begin[c] + Len(buf[c]) <= Cap

\* A packet begun has no byte of the next packet, and its whole head unless its
\* size wraps.
Begun(p) == /\ Len(p) \in 1 .. Wanted(p)
            /\ Wanted(p) < Wrap => Len(p) >= HeadSize

HeadInv == \A c \in Conns : partial[c] # <<>> => Begun(partial[c])

RecvInv == BytesInv /\ BufferInv /\ HeadInv

LEMMA ByteOfPacket ==
  ASSUME NEW b \in ByteSet
  PROVE  b[1] \in 1 .. MaxPackets /\ b[2] \in Nat
<1>1. PICK i \in 1 .. MaxPackets : b \in Range(Bytes(i))
  BY DEF ByteSet
<1>2. PICK k \in 1 .. HeadSize + Body[i] : b = <<i, k>>
  BY <1>1 DEF Range, Bytes
<1>3. Body[i] \in Nat /\ HeadSize \in Nat
  BY RecvAssumption
<1>4. QED
  BY <1>2, <1>3

LEMMA WantedWhole ==
  ASSUME NEW s \in Seq(ByteSet), s # <<>>
  PROVE  Wanted(s) \in Nat /\ Wanted(s) >= HeadSize /\ Wanted(s) < 2 * Wrap
<1>1. s[1] \in ByteSet
  BY EmptySeq, ElementOfSeq
<1>2. Body[s[1][1]] \in 0 .. Wrap - 1 /\ HeadSize \in Nat /\ Wrap \in Nat /\ HeadSize < Wrap
  BY <1>1, ByteOfPacket, RecvAssumption
<1>3. QED
  BY <1>2 DEF Wanted

\* A number that is less than r away from one in 0 .. r - 1, modulo r.
LEMMA Modulo ==
  ASSUME NEW r \in Nat, NEW n \in Int, n >= -r, n < 2 * r
  PROVE  /\ n % r = IF n < 0 THEN n + r ELSE IF n < r THEN n ELSE n - r
         /\ n % r \in Nat
<1>1. r > 0
  OBVIOUS
<1>2. CASE n < 0
  BY <1>1, <1>2
<1>3. CASE n >= 0 /\ n < r
  BY <1>1, <1>3
<1>4. CASE n >= r
  BY <1>1, <1>4
<1>5. QED
  BY <1>2, <1>3, <1>4

\* Of a packet of w bytes, m of which are there, no more than the rest is read, although
\* its size wraps, and of one that does not wrap no less than there is (parse).
LEMMA WrapsDown ==
  ASSUME NEW r \in Nat, NEW w \in Nat, NEW m \in Nat, w < 2 * r, m <= w
  PROVE  /\ w % r \in 0 .. w /\ (w < r => w % r = w)
         /\ ((w % r) - m) % r \in 0 .. w - m
<1> DEFINE v == w % r
<1>1. v \in 0 .. w /\ v = (IF w < r THEN w ELSE w - r)
  <2>1. w \in Int /\ w >= -r /\ ~(w < 0)
    OBVIOUS
  <2>2. v = IF w < 0 THEN w + r ELSE IF w < r THEN w ELSE w - r
    BY <2>1, Modulo
  <2> HIDE DEF v
  <2>3. QED
    BY <2>1, <2>2
<1> HIDE DEF v
<1>2. v - m \in Int /\ v - m < 2 * r /\ v - m >= -r
  BY <1>1
<1>3. (v - m) % r = (IF v - m < 0 THEN (v - m) + r ELSE IF v - m < r THEN v - m ELSE (v - m) - r)
      /\ (v - m) % r \in Nat
  BY <1>2, Modulo
<1>4. (v - m) % r \in 0 .. w - m
  BY <1>1, <1>3
<1>5. QED
  BY <1>1, <1>4 DEF v

\* Cutting a sequence of bytes in two.
LEMMA Cut ==
  ASSUME NEW s \in Seq(ByteSet), NEW n \in 0 .. Len(s)
  PROVE  /\ SubSeq(s, 1, n) \in Seq(ByteSet) /\ Len(SubSeq(s, 1, n)) = n
         /\ SubSeq(s, n + 1, Len(s)) \in Seq(ByteSet)
<1>1. Len(s) \in Nat
  OBVIOUS
<1>2. \A i \in 1 .. Len(s) : s[i] \in ByteSet
  OBVIOUS
<1>3. QED
  BY <1>1, <1>2

\* parse reads what is there, no byte of the next packet, and a head only as a whole
\* unless the size wraps.
LEMMA ParseReads ==
  ASSUME BytesInv, HeadInv, NEW c \in Conns
  PROVE  /\ ParseSize(c) \in 0 .. Len(buf[c])
         /\ partial[c] = <<>> /\ ParseSize(c) # 0
              => /\ ParseSize(c) \in 1 .. Wanted(buf[c])
                 /\ Wanted(buf[c]) < Wrap => ParseSize(c) >= HeadSize
         /\ partial[c] # <<>> => Len(partial[c]) + ParseSize(c) <= Wanted(partial[c])
<1> DEFINE p == partial[c]
           len == Len(buf[c])
           header == HeadSize - Len(p)
<1>1. /\ buf[c] \in Seq(ByteSet) /\ p \in Seq(ByteSet)
      /\ len \in Nat /\ Len(p) \in Nat
      /\ HeadSize \in Nat \ {0} /\ Wrap \in Nat
  BY RecvAssumption DEF BytesInv
<1>2. CASE p = <<>> /\ len < HeadSize
  <2>1. ParseSize(c) = 0
    BY <1>2 DEF ParseSize
  <2>2. QED
    BY <1>1, <1>2, <2>1
<1>3. CASE p = <<>> /\ len >= HeadSize
  <2> DEFINE w == Wanted(buf[c])
             n == w % Wrap
  <2>1. buf[c] # <<>>
    BY <1>1, <1>3
  <2>2. w \in Nat /\ w >= HeadSize /\ w < 2 * Wrap
    BY <1>1, <2>1, WantedWhole
  <2>3. ParseSize(c) = Smaller(n, len)
    BY <1>1, <1>3 DEF ParseSize, CompleteSize
  <2> HIDE DEF w
  <2>4. n \in 0 .. w /\ (w < Wrap => n = w)
    BY <1>1, <2>2, WrapsDown
  <2> HIDE DEF n
  <2>5. /\ Smaller(n, len) \in 0 .. len
        /\ Smaller(n, len) # 0 => Smaller(n, len) \in 1 .. w
        /\ w < Wrap => Smaller(n, len) >= HeadSize
    BY <1>1, <1>3, <2>2, <2>4 DEF Smaller
  <2>6. QED
    BY <1>3, <2>3, <2>5 DEF w
<1>4. CASE p # <<>>
  <2> DEFINE w == Wanted(p)
  <2>1. w \in Nat /\ w >= HeadSize /\ w < 2 * Wrap /\ Len(p) <= w
    <3>1. Len(p) \in 1 .. w
      BY <1>4 DEF HeadInv, Begun
    <3>2. QED
      BY <1>1, <1>4, <3>1, WantedWhole
  <2>2. \A m \in Nat : m <= w => Deficiency(p, m) \in 0 .. w - m
    <3> HIDE DEF w
    <3>1. \A m \in Nat : m <= w => ((w % Wrap) - m) % Wrap \in 0 .. w - m
      BY <1>1, <2>1, WrapsDown
    <3>2. QED
      BY <3>1 DEF Deficiency, CompleteSize, w
  <2>3. CASE header > 0
    <3> DEFINE d == Deficiency(p, HeadSize)
    <3>1. ParseSize(c) = IF len < header THEN 0 ELSE header + Smaller(d, len - header)
      BY <1>4, <2>3 DEF ParseSize
    <3>2. d \in 0 .. w - HeadSize
      BY <1>1, <2>1, <2>2
    <3> HIDE DEF d, w, p
    <3>3. ParseSize(c) \in 0 .. len /\ Len(p) + ParseSize(c) <= w
      BY <1>1, <2>1, <2>3, <3>1, <3>2 DEF Smaller
    <3>4. QED
      BY <1>4, <3>3 DEF w, p
  <2>4. CASE ~(header > 0)
    <3> DEFINE d == Deficiency(p, Len(p))
    <3>1. ParseSize(c) = Smaller(d, len)
      BY <1>4, <2>4 DEF ParseSize
    <3>2. d \in 0 .. w - Len(p)
      BY <1>1, <2>1, <2>2
    <3> HIDE DEF d, w, p
    <3>3. ParseSize(c) \in 0 .. len /\ Len(p) + ParseSize(c) <= w
      BY <1>1, <2>1, <3>1, <3>2 DEF Smaller
    <3>4. QED
      BY <1>4, <3>3 DEF w, p
  <2>5. QED
    BY <2>3, <2>4
<1>5. QED
  BY <1>1, <1>2, <1>3, <1>4

\* The bytes of a packet, and of several in a row.
LEMMA PacketTyped ==
  ASSUME NEW i \in 1 .. MaxPackets
  PROVE  /\ Bytes(i) \in Seq(ByteSet) /\ Len(Bytes(i)) = HeadSize + Body[i]
         /\ HeadSize + Body[i] \in Nat \ {0} /\ Bytes(i)[1] = <<i, 1>>
<1> DEFINE n == HeadSize + Body[i]
<1>1. n \in Nat \ {0}
  BY RecvAssumption
<1>2. \A k \in 1 .. n : <<i, k>> \in ByteSet
  <2>1. SUFFICES ASSUME NEW k \in 1 .. n
                 PROVE  <<i, k>> \in ByteSet
    OBVIOUS
  <2>2. DOMAIN Bytes(i) = 1 .. n /\ Bytes(i)[k] = <<i, k>>
    BY DEF Bytes
  <2>3. Bytes(i)[k] \in Range(Bytes(i)) /\ Range(Bytes(i)) \in {Range(Bytes(j)) : j \in 1 .. MaxPackets}
    BY <2>2 DEF Range
  <2>4. QED
    BY <2>2, <2>3 DEF ByteSet
<1>3. Bytes(i) = [k \in 1 .. n |-> <<i, k>>]
  BY DEF Bytes
<1> HIDE DEF n
<1>4. Bytes(i) \in [1 .. n -> ByteSet]
  BY <1>2, <1>3
<1>5. Bytes(i) \in Seq(ByteSet) /\ Len(Bytes(i)) = n /\ Bytes(i)[1] = <<i, 1>>
  BY <1>1, <1>3, <1>4
<1>6. QED
  BY <1>1, <1>5 DEF n

LEMMA RestParts ==
  ASSUME NEW c \in Conns, NEW i \in 0 .. Sends[c]
  PROVE  /\ [j \in 1 .. Sends[c] - i |-> Bytes(i + j)] \in Seq(Seq(ByteSet))
         /\ Len([j \in 1 .. Sends[c] - i |-> Bytes(i + j)]) = Sends[c] - i
         /\ Sends[c] - i \in Nat /\ Sends[c] \in 0 .. MaxPackets /\ MaxPackets \in Nat
<1>1. Sends[c] \in 0 .. MaxPackets /\ MaxPackets \in Nat /\ Sends[c] - i \in Nat
  BY RecvAssumption
<1>2. \A j \in 1 .. Sends[c] - i : i + j \in 1 .. MaxPackets
  BY <1>1
<1>3. \A j \in 1 .. Sends[c] - i : Bytes(i + j) \in Seq(ByteSet)
  BY <1>2, PacketTyped
<1> DEFINE n == Sends[c] - i
           s == [j \in 1 .. n |-> Bytes(i + j)]
<1>4. s \in [1 .. n -> Seq(ByteSet)] /\ n \in Nat
  BY <1>1, <1>3
<1>5. s \in Seq(Seq(ByteSet)) /\ Len(s) = n
  <2> HIDE DEF n
  <2>1. s \in [1 .. n -> Seq(ByteSet)]
    BY <1>4
  <2> HIDE DEF s
  <2>2. s \in Seq(Seq(ByteSet)) /\ Len(s) = n
    BY <1>4, <2>1
  <2>3. QED
    BY <2>2
<1> HIDE DEF s
<1>6. QED
  BY <1>1, <1>5 DEF s

LEMMA RestTyped ==
  ASSUME NEW c \in Conns
  PROVE  /\ \A i \in 0 .. Sends[c] : Rest(c, i) \in Seq(ByteSet)
         /\ 0 \in 0 .. Sends[c] /\ Rest(c, 0) \in Seq(ByteSet)
<1>1. \A i \in 0 .. Sends[c] : Rest(c, i) \in Seq(ByteSet)
  BY RestParts, FlattenType DEF Rest
<1>2. 0 \in 0 .. Sends[c]
  BY RecvAssumption
<1>3. QED
  BY <1>1, <1>2

LEMMA InvStart == Init => RecvInv
<1> SUFFICES ASSUME Init PROVE RecvInv
  OBVIOUS
<1>1. BytesInv
  <2>1. \A c \in Conns : Rest(c, 0) \in Seq(ByteSet)
    BY RestTyped
  <2>2. QED
    BY <2>1, EmptySeq DEF Init, BytesInv
<1>2. \A c \in Conns : partial[c] = <<>> /\ begin[c] = 0 /\ buf[c] = <<>>
  BY DEF Init
<1>3. BufferInv
  BY <1>2, RecvAssumption DEF Init, BufferInv
<1>4. QED
  BY <1>1, <1>2, <1>3 DEF HeadInv, RecvInv

\* A step that leaves packets and buffers alone.
LEMMA Untouched ==
  ASSUME RecvInv, UNCHANGED <<sent, arrived, buf, begin, partial>>, cur' \in Conns
  PROVE  RecvInv'
BY DEF RecvInv, BytesInv, BufferInv, HeadInv, Begun, Wanted

\* ConnectionBuffer::writeable: there is room for what it says.
LEMMA RoomInBuffer ==
  ASSUME RecvInv, NEW c \in Conns
  PROVE  /\ Room(c) \in Nat /\ NewBegin(c) \in Nat
         /\ NewBegin(c) + Len(buf[c]) + Room(c) <= Cap
<1>1. /\ begin[c] \in Nat /\ Len(buf[c]) \in Nat /\ Cap \in Nat
      /\ begin[c] + Len(buf[c]) <= Cap
  BY RecvAssumption DEF RecvInv, BytesInv, BufferInv
<1>2. QED
  BY <1>1 DEF Room, NewBegin, Packed, AtTail

LEMMA SendableIsNat ==
  ASSUME NEW s \in Seq(ByteSet), s # <<>>
  PROVE  Sendable(s) \in Nat
<1>1. Wanted(s) \in Nat
  BY WantedWhole
<1>2. Wrap - 1 \in Nat
  BY RecvAssumption
<1>3. QED
  BY <1>1, <1>2 DEF Sendable, Smaller

LEMMA SendsStep ==
  ASSUME RecvInv, NEW c \in Conns, PeerSends(c)
  PROVE  RecvInv'
<1>1. PICK n \in 1 .. Smaller(Len(sent[c]), Sendable(sent[c]) - sent[c][1][2] + 1) :
        /\ arrived' = [arrived EXCEPT ![c] = @ \o SubSeq(sent[c], 1, n)]
        /\ sent' = [sent EXCEPT ![c] = SubSeq(@, n + 1, Len(@))]
  BY DEF PeerSends
<1>2. /\ sent[c] \in Seq(ByteSet) /\ Len(sent[c]) \in Nat /\ arrived[c] \in Seq(ByteSet)
      /\ sent[c] # <<>>
  BY DEF RecvInv, BytesInv, PeerSends
<1>3. Sendable(sent[c]) \in Nat
  BY <1>2, SendableIsNat
<1>4. sent[c][1][2] \in Nat
  <2>1. sent[c][1] \in ByteSet
    BY <1>2
  <2>2. QED
    BY <2>1, ByteOfPacket
<1>5. n \in 0 .. Len(sent[c])
  BY <1>2, <1>3, <1>4 DEF Smaller
<1>6. /\ SubSeq(sent[c], 1, n) \in Seq(ByteSet)
      /\ SubSeq(sent[c], n + 1, Len(sent[c])) \in Seq(ByteSet)
  BY <1>2, <1>5, Cut
<1>7. /\ sent' \in [Conns -> Seq(ByteSet)]
      /\ arrived' \in [Conns -> Seq(ByteSet)]
  BY <1>1, <1>2, <1>6, SMTT(30) DEF RecvInv, BytesInv
<1>8. UNCHANGED <<buf, begin, partial, cur>>
  BY DEF PeerSends, recvVars, netVars
<1>9. QED
  BY <1>7, <1>8 DEF RecvInv, BytesInv, BufferInv, HeadInv, Begun, Wanted

LEMMA RecvStep ==
  ASSUME RecvInv, TryRecv
  PROVE  RecvInv'
<1> DEFINE n == Smaller(Room(cur), Len(arrived[cur]))
<1>1. /\ arrived' = [arrived EXCEPT ![cur] = SubSeq(@, n + 1, Len(@))]
      /\ buf' = [buf EXCEPT ![cur] = @ \o SubSeq(arrived[cur], 1, n)]
      /\ begin' = [begin EXCEPT ![cur] = NewBegin(cur)]
      /\ UNCHANGED <<sent, partial, cur>>
  BY DEF TryRecv
<1>2. /\ arrived[cur] \in Seq(ByteSet) /\ Len(arrived[cur]) \in Nat
      /\ buf[cur] \in Seq(ByteSet) /\ Len(buf[cur]) \in Nat
      /\ cur \in Conns /\ Cap \in Nat
  BY RecvAssumption DEF RecvInv, BytesInv
<1>3. /\ Room(cur) \in Nat /\ NewBegin(cur) \in Nat
      /\ NewBegin(cur) + Len(buf[cur]) + Room(cur) <= Cap
  BY <1>2, RoomInBuffer
<1>4. n \in 0 .. Len(arrived[cur]) /\ n <= Room(cur)
  BY <1>2, <1>3 DEF Smaller
<1> HIDE DEF n
<1>5. /\ SubSeq(arrived[cur], 1, n) \in Seq(ByteSet)
      /\ Len(SubSeq(arrived[cur], 1, n)) = n
      /\ SubSeq(arrived[cur], n + 1, Len(arrived[cur])) \in Seq(ByteSet)
  BY <1>2, <1>4, Cut
<1>6. buf[cur] \o SubSeq(arrived[cur], 1, n) \in Seq(ByteSet)
      /\ Len(buf[cur] \o SubSeq(arrived[cur], 1, n)) = Len(buf[cur]) + n
  BY <1>2, <1>5
<1>7. BytesInv'
  BY <1>1, <1>2, <1>5, <1>6 DEF RecvInv, BytesInv
<1>8. BufferInv'
  <2>1. begin' \in [Conns -> Nat]
    BY <1>1, <1>3 DEF RecvInv, BufferInv
  <2>2. ASSUME NEW c \in Conns PROVE begin'[c] + Len(buf'[c]) <= Cap
    <3>1. CASE c = cur
      <4>1. buf'[cur] = buf[cur] \o SubSeq(arrived[cur], 1, n) /\ begin'[cur] = NewBegin(cur)
        BY <1>1, <1>2 DEF RecvInv, BytesInv, BufferInv
      <4>2. Len(buf'[cur]) = Len(buf[cur]) + n
        BY <4>1, <1>6
      <4>3. NewBegin(cur) + (Len(buf[cur]) + n) <= Cap
        BY <1>2, <1>3, <1>4
      <4>4. QED
        BY <3>1, <4>1, <4>2, <4>3
    <3>2. CASE c # cur
      <4>1. begin'[c] = begin[c] /\ buf'[c] = buf[c]
        BY <3>2, <1>1 DEF RecvInv, BytesInv, BufferInv
      <4>2. QED
        BY <4>1 DEF RecvInv, BufferInv
    <3>3. QED
      BY <3>1, <3>2
  <2>3. QED
    BY <2>1, <2>2 DEF BufferInv
<1>9. QED
  BY <1>1, <1>7, <1>8 DEF RecvInv, HeadInv, Begun, Wanted

LEMMA ParseStep ==
  ASSUME RecvInv, Parse
  PROVE  RecvInv'
<1> DEFINE n == ParseSize(cur)
<1> DEFINE p == partial[cur] \o SubSeq(buf[cur], 1, n)
<1> DEFINE b == SubSeq(buf[cur], n + 1, Len(buf[cur]))
<1>1. /\ partial' = [partial EXCEPT ![cur] = p]
      /\ buf' = [buf EXCEPT ![cur] = b]
      /\ begin' = [begin EXCEPT ![cur] = IF buf'[cur] = <<>> THEN 0 ELSE @ + n]
      /\ UNCHANGED <<sent, arrived, cur>>
  BY DEF Parse, connVars
<1>2. /\ partial[cur] \in Seq(ByteSet) /\ Len(partial[cur]) \in Nat
      /\ buf[cur] \in Seq(ByteSet) /\ Len(buf[cur]) \in Nat
      /\ begin[cur] \in Nat /\ begin[cur] + Len(buf[cur]) <= Cap
      /\ cur \in Conns /\ Cap \in Nat /\ HeadSize \in Nat \ {0}
  BY RecvAssumption DEF RecvInv, BytesInv, BufferInv
<1>3. /\ n \in 0 .. Len(buf[cur])
      /\ partial[cur] = <<>> /\ n # 0
           => n \in 1 .. Wanted(buf[cur]) /\ (Wanted(buf[cur]) < Wrap => n >= HeadSize)
      /\ partial[cur] # <<>> => Len(partial[cur]) + n <= Wanted(partial[cur])
  BY <1>2, ParseReads DEF RecvInv
<1> HIDE DEF n
<1>4. /\ SubSeq(buf[cur], 1, n) \in Seq(ByteSet) /\ Len(SubSeq(buf[cur], 1, n)) = n
      /\ b \in Seq(ByteSet) /\ Len(b) = Len(buf[cur]) - n
      /\ n > 0 => SubSeq(buf[cur], 1, n)[1] = buf[cur][1]
  BY <1>2, <1>3, Cut
<1>5. /\ p \in Seq(ByteSet) /\ Len(p) = Len(partial[cur]) + n
      /\ partial[cur] # <<>> => p[1] = partial[cur][1]
      /\ partial[cur] = <<>> /\ n > 0 => p[1] = buf[cur][1]
  <2> DEFINE s == SubSeq(buf[cur], 1, n)
  <2>1. s \in Seq(ByteSet) /\ Len(s) = n
    BY <1>4
  <2>2. n > 0 => s[1] = buf[cur][1]
    BY <1>4
  <2> HIDE DEF s
  <2>3. partial[cur] \o s \in Seq(ByteSet) /\ Len(partial[cur] \o s) = Len(partial[cur]) + n
    <3>1. ASSUME NEW q \in Seq(ByteSet), NEW t \in Seq(ByteSet)
          PROVE  q \o t \in Seq(ByteSet) /\ Len(q \o t) = Len(q) + Len(t)
      OBVIOUS
    <3>2. partial[cur] \in Seq(ByteSet) /\ s \in Seq(ByteSet)
      BY <1>2, <2>1
    <3>3. QED
      BY <2>1, <3>1, <3>2
  <2>4. partial[cur] # <<>> => (partial[cur] \o s)[1] = partial[cur][1]
    BY <1>2, <2>1
  <2>5. partial[cur] = <<>> /\ n > 0 => (partial[cur] \o s)[1] = buf[cur][1]
    BY <1>2, <1>3, <2>1, <2>2
  <2>6. QED
    BY <2>3, <2>4, <2>5 DEF s
<1> HIDE DEF p, b
<1>6. p # <<>> => Begun(p)
  <2>1. CASE partial[cur] # <<>>
    <3>1. Wanted(p) = Wanted(partial[cur])
      BY <1>5, <2>1 DEF Wanted
    <3>2. Begun(partial[cur])
      BY <1>2, <2>1 DEF RecvInv, HeadInv
    <3>3. Wanted(partial[cur]) \in Nat
      BY <1>2, <2>1, WantedWhole
    <3>4. QED
      BY <1>2, <1>3, <1>5, <2>1, <3>1, <3>2, <3>3 DEF Begun
  <2>2. CASE partial[cur] = <<>> /\ n > 0
    <3>1. Wanted(p) = Wanted(buf[cur])
      BY <1>5, <2>2 DEF Wanted
    <3>2. Len(p) = n
      BY <1>3, <1>5, <2>2
    <3>3. QED
      BY <1>3, <2>2, <3>1, <3>2 DEF Begun
  <2>3. CASE partial[cur] = <<>> /\ n = 0
    <3>1. Len(p) = 0
      BY <1>5, <2>3
    <3>2. p = <<>>
      BY <1>5, <3>1
    <3>3. QED
      BY <3>2
  <2>4. QED
    BY <1>3, <2>1, <2>2, <2>3
<1>7. BytesInv'
  BY <1>1, <1>2, <1>4, <1>5 DEF RecvInv, BytesInv
<1>8. BufferInv'
  <2>1. buf'[cur] = b /\ begin'[cur] \in {0, begin[cur] + n}
    BY <1>1, <1>2 DEF RecvInv, BytesInv, BufferInv
  <2>2. begin' \in [Conns -> Nat]
    BY <1>1, <1>2, <1>3 DEF RecvInv, BufferInv
  <2>3. ASSUME NEW c \in Conns PROVE begin'[c] + Len(buf'[c]) <= Cap
    <3>1. CASE c = cur
      BY <2>1, <3>1, <1>2, <1>3, <1>4
    <3>2. CASE c # cur
      <4>1. begin'[c] = begin[c] /\ buf'[c] = buf[c]
        BY <3>2, <1>1 DEF RecvInv, BytesInv, BufferInv
      <4>2. QED
        BY <4>1 DEF RecvInv, BufferInv
    <3>3. QED
      BY <3>1, <3>2
  <2>4. QED
    BY <2>2, <2>3 DEF BufferInv
<1>9. HeadInv'
  <2> SUFFICES ASSUME NEW c \in Conns, partial'[c] # <<>>
               PROVE  Begun(partial'[c])
    BY DEF HeadInv, Begun, Wanted
  <2>1. CASE c = cur
    <3>1. partial'[c] = p
      BY <1>1, <2>1 DEF RecvInv, BytesInv
    <3>2. QED
      BY <3>1, <1>6
  <2>2. CASE c # cur
    <3>1. partial'[c] = partial[c]
      BY <1>1, <2>2 DEF RecvInv, BytesInv
    <3>2. QED
      BY <3>1 DEF RecvInv, HeadInv
  <2>3. QED
    BY <2>1, <2>2
<1>10. QED
  BY <1>7, <1>8, <1>9 DEF RecvInv

LEMMA NewPacketStep ==
  ASSUME RecvInv, AfterPush
  PROVE  RecvInv'
<1>1. /\ partial' = [partial EXCEPT ![cur] = <<>>]
      /\ UNCHANGED <<sent, arrived, buf, begin, cur>>
  BY DEF AfterPush, NewPacket, connVars
<1>2. BytesInv'
  BY <1>1 DEF RecvInv, BytesInv
<1>3. HeadInv'
  <2> SUFFICES ASSUME NEW c \in Conns, partial'[c] # <<>>
               PROVE  Begun(partial'[c])
    BY DEF HeadInv, Begun, Wanted
  <2>1. partial'[c] = partial[c]
    BY <1>1 DEF RecvInv, BytesInv
  <2>2. QED
    BY <2>1 DEF RecvInv, HeadInv
<1>4. QED
  BY <1>1, <1>2, <1>3 DEF RecvInv, BufferInv

LEMMA ClosedStep ==
  ASSUME RecvInv, RecvClosed
  PROVE  RecvInv'
<1>1. /\ begin' = [begin EXCEPT ![cur] = NewBegin(cur)]
      /\ UNCHANGED <<sent, arrived, buf, partial, cur>>
  BY DEF RecvClosed
<1>2. cur \in Conns
  BY DEF RecvInv, BytesInv
<1>3. /\ NewBegin(cur) \in Nat /\ Room(cur) \in Nat
      /\ NewBegin(cur) + Len(buf[cur]) + Room(cur) <= Cap
  BY <1>2, RoomInBuffer
<1>4. NewBegin(cur) + Len(buf[cur]) <= Cap
  BY <1>2, <1>3, RecvAssumption DEF RecvInv, BytesInv
<1>5. begin' \in [Conns -> Nat]
  BY <1>1, <1>3 DEF RecvInv, BufferInv
<1>6. ASSUME NEW c \in Conns PROVE begin'[c] + Len(buf'[c]) <= Cap
  <2>1. CASE c = cur
    BY <1>1, <1>4, <2>1 DEF RecvInv, BufferInv
  <2>2. CASE c # cur
    BY <1>1, <2>2 DEF RecvInv, BufferInv
  <2>3. QED
    BY <2>1, <2>2
<1>7. QED
  BY <1>1, <1>5, <1>6 DEF RecvInv, BytesInv, BufferInv, HeadInv, Begun, Wanted

LEMMA InvStep == RecvInv /\ [Next]_vars => RecvInv'
<1> SUFFICES ASSUME RecvInv, [Next]_vars PROVE RecvInv'
  OBVIOUS
<1>1. cur \in Conns
  BY DEF RecvInv, BytesInv
<1>2. CASE \E c \in Conns : PeerSends(c)
  BY <1>2, SendsStep
<1>3. CASE TryRecv
  BY <1>3, RecvStep
<1>4. CASE RecvClosed
  BY <1>4, ClosedStep
<1>5. CASE Parse
  BY <1>5, ParseStep
<1>6. CASE AfterPush
  BY <1>6, NewPacketStep
<1>7. CASE \E c \in Conns : PeerCloses(c) \/ EraseConnection(c) \/ ReadEvent(c)
  BY <1>1, <1>7, Untouched
     DEF PeerCloses, EraseConnection, ReadEvent, connVars, recvVars, netVars
<1>8. CASE Pushing \/ GetPacket \/ UNCHANGED vars
  BY <1>1, <1>8, Untouched DEF Pushing, GetPacket, vars, connVars, recvVars, netVars
<1>9. QED
  BY <1>2, <1>3, <1>4, <1>5, <1>6, <1>7, <1>8 DEF Next, Network

\* A packet begun in epollerEventHandler has its whole head unless the length in
\* its head makes its size wrap: that is the one way into the case that
\* TcpPacket::parse takes care of and calls impossible (HeadIsWhole).
THEOREM HeadsAreWhole == Spec => []HeadIsWhole
<1>1. RecvInv => HeadIsWhole
  BY DEF RecvInv, HeadInv, Begun, HeadIsWhole
<1>2. QED
  BY <1>1, InvStart, InvStep, PTL DEF Spec

\* What is pushed is a packet.
LEMMA PushesPacket ==
  ASSUME RecvInv, Parse, Complete(partial'[cur])
  PROVE  <<cur, partial'[cur][1][1]>> \in Items
<1>1. RecvInv' /\ cur' = cur
  BY ParseStep DEF Parse
<1>2. partial'[cur] \in Seq(ByteSet) /\ cur \in Conns
  BY <1>1 DEF RecvInv, BytesInv
<1>3. Len(partial'[cur]) >= HeadSize /\ HeadSize \in Nat \ {0}
  BY RecvAssumption DEF Complete
<1>4. partial'[cur][1] \in ByteSet
  BY <1>2, <1>3
<1>5. QED
  BY <1>2, <1>4, ByteOfPacket, RecvAssumption

LEMMA RingSteps == RecvInv /\ [Next]_vars => [RingNext]_ringVars
<1> SUFFICES ASSUME RecvInv, [Next]_vars PROVE RingNext \/ UNCHANGED ringVars
  OBVIOUS
<1>1. CASE Parse
  <2>1. CASE Complete(partial'[cur])
    <3>1. PushCall(<<cur, partial'[cur][1][1]>>)
      BY <1>1, <2>1 DEF Parse
    <3>2. QED
      BY <1>1, <2>1, <3>1, PushesPacket DEF RingNext
  <2>2. CASE ~Complete(partial'[cur])
    BY <1>1, <2>2 DEF Parse
  <2>3. QED
    BY <2>1, <2>2
<1>2. CASE Pushing
  BY <1>2 DEF Pushing, RingNext
<1>3. CASE GetPacket
  BY <1>3 DEF GetPacket, RingNext, Pop
<1>4. CASE TryRecv \/ RecvClosed \/ AfterPush
  BY <1>4 DEF TryRecv, RecvClosed, AfterPush
<1>5. CASE \E c \in Conns : PeerSends(c) \/ PeerCloses(c) \/ EraseConnection(c) \/ ReadEvent(c)
  BY <1>5 DEF PeerSends, PeerCloses, EraseConnection, ReadEvent
<1>6. CASE UNCHANGED vars
  BY <1>6 DEF vars
<1>7. QED
  BY <1>1, <1>2, <1>3, <1>4, <1>5, <1>6 DEF Next, Network

\* TcpConnectionManager uses m_recvQueue as a ring between one producer and
\* one consumer: only the network thread pushes, one packet at a time.
THEOREM UsesTheRing == Spec => Ring
<1>1. Init => RingInit
  BY DEF Init
<1>2. QED
  BY <1>1, InvStart, InvStep, RingSteps, PTL DEF Spec, Ring

\* So the received packets go to the main thread through a bounded FIFO.
THEOREM PacketsThroughFifo == Spec => RingIsFifo
BY UsesTheRing, RingImplementsFifo, PTL

\* And the two threads never have the same cell of it in their hands.
THEOREM NoRaceOnPackets == Spec => []NoRace
BY UsesTheRing, NoDataRace, PTL

\* The types of the rest: what the main thread gets, and what is lost.
RestInv ==
  /\ closed \in [Conns -> BOOLEAN] /\ alive \in [Conns -> BOOLEAN]
  /\ netPc \in {"wait", "recv", "parse", "push"}
  /\ got \in [Conns -> 0 .. MaxPackets]
  /\ dropped \in [Conns -> SUBSET (1 .. MaxPackets)]
  /\ netPc = "push" => pushItem \in Items

LEMMA RestStart == Init => RestInv
<1> SUFFICES ASSUME Init PROVE RestInv
  OBVIOUS
<1>1. 0 \in 0 .. MaxPackets
  BY RecvAssumption
<1>2. QED
  BY <1>1 DEF Init, RestInv

LEMMA PopsPacket ==
  ASSUME RingTypeOK, RingInv, popPc = "mark"
  PROVE  popItem \in Items
<1>1. Oldest \in Nat /\ Newest \in Nat /\ Oldest < Newest /\ Oldest = mBegin - 1
  BY DEF RingInv, InTurn, Midway, Oldest
<1>2. ItemAt(Oldest) \in Items
  BY <1>1 DEF RingInv, Midway
<1>3. QED
  BY <1>1, <1>2 DEF ItemAt

LEMMA RestStep ==
  RingTypeOK /\ RingInv /\ RecvInv /\ RestInv /\ [Next]_vars => RestInv'
<1> SUFFICES ASSUME RingTypeOK, RingInv, RecvInv, RestInv, [Next]_vars PROVE RestInv'
  OBVIOUS
<1> USE DEF RestInv
<1>1. cur \in Conns
  BY DEF RecvInv, BytesInv
<1>2. CASE Parse
  <2>1. CASE Complete(partial'[cur])
    <3>1. /\ netPc' = "push" /\ pushItem' = <<cur, partial'[cur][1][1]>>
          /\ UNCHANGED <<closed, alive, got, dropped>>
      BY <1>2, <2>1 DEF Parse, PushCall, connVars, histVars
    <3>2. QED
      BY <1>2, <2>1, <3>1, PushesPacket
  <2>2. CASE ~Complete(partial'[cur])
    BY <1>2, <2>2 DEF Parse, connVars, histVars
  <2>3. QED
    BY <2>1, <2>2
<1>3. CASE Pushing
  BY <1>3 DEF Pushing, Push, PushFree, PushFull, PushMark, connVars, histVars, netVars
<1>4. CASE GetPacket
  <2>1. got' \in [Conns -> 0 .. MaxPackets]
    <3>1. CASE popPc = "mark"
      <4>1. popItem[1] \in Conns /\ popItem[2] \in 0 .. MaxPackets
        BY <3>1, PopsPacket, RecvAssumption
      <4>2. QED
        BY <1>4, <3>1, <4>1 DEF GetPacket
    <3>2. CASE popPc # "mark"
      BY <1>4, <3>2 DEF GetPacket
    <3>3. QED
      BY <3>1, <3>2
  <2>2. pushItem' = pushItem
    BY <1>4 DEF GetPacket, PopCall, PopFull, PopEmpty, PopMark, pushVars
  <2>3. QED
    BY <1>4, <2>1, <2>2 DEF GetPacket, connVars, netVars
<1>5. CASE AfterPush
  <2>1. pushItem[2] \in 1 .. MaxPackets
    BY <1>5, RecvAssumption DEF AfterPush
  <2>2. dropped' \in [Conns -> SUBSET (1 .. MaxPackets)]
    BY <1>1, <1>5, <2>1 DEF AfterPush
  <2>3. QED
    BY <1>5, <2>2 DEF AfterPush, connVars
<1>6. CASE TryRecv \/ RecvClosed
  BY <1>1, <1>6 DEF TryRecv, RecvClosed, histVars, ringVars
<1>7. CASE \E c \in Conns : PeerSends(c) \/ PeerCloses(c) \/ EraseConnection(c) \/ ReadEvent(c)
  BY <1>7 DEF PeerSends, PeerCloses, EraseConnection, ReadEvent, connVars, netVars,
              histVars, ringVars
<1>8. CASE UNCHANGED vars
  BY <1>8 DEF vars, connVars, histVars, netVars, ringVars
<1>9. QED
  BY <1>2, <1>3, <1>4, <1>5, <1>6, <1>7, <1>8 DEF Next, Network

\* The type invariant of the receiving side: no index leaves its buffer.
THEOREM TypeCorrect == Spec => []TypeOK
<1>1. RingTypeOK /\ RecvInv /\ RestInv => TypeOK
  <2> SUFFICES ASSUME RingTypeOK, RecvInv, RestInv PROVE TypeOK
    OBVIOUS
  <2>1. ASSUME NEW s \in Seq(ByteSet) PROVE Range(s) \subseteq ByteSet
    BY DEF Range
  <2>2. \A c \in Conns : \A s \in {sent[c], arrived[c], buf[c], partial[c]} :
          Range(s) \subseteq ByteSet
    <3> SUFFICES ASSUME NEW c \in Conns, NEW s \in {sent[c], arrived[c], buf[c], partial[c]}
                 PROVE  Range(s) \subseteq ByteSet
      OBVIOUS
    <3>1. s \in Seq(ByteSet)
      BY DEF RecvInv, BytesInv
    <3>2. QED
      BY <2>1, <3>1
  <2>3. begin \in [Conns -> 0 .. Cap]
    <3>1. \A c \in Conns : begin[c] \in 0 .. Cap
      <4> SUFFICES ASSUME NEW c \in Conns PROVE begin[c] \in 0 .. Cap
        OBVIOUS
      <4>1. begin[c] \in Nat /\ Len(buf[c]) \in Nat /\ begin[c] + Len(buf[c]) <= Cap
        BY DEF RecvInv, BytesInv, BufferInv
      <4>2. QED
        BY <4>1, RecvAssumption
    <3>2. QED
      BY <3>1 DEF RecvInv, BufferInv
  <2>4. QED
    BY <2>2, <2>3 DEF TypeOK, RestInv, RecvInv, BytesInv, BufferInv
<1>2. Spec => [](RingTypeOK /\ RingInv)
  BY UsesTheRing, RingIsSound, PTL
<1>3. Spec => []RecvInv
  BY InvStart, InvStep, PTL DEF Spec
<1>4. Spec => []RestInv
  BY <1>2, <1>3, RestStart, RestStep, PTL DEF Spec
<1>5. QED
  BY <1>1, <1>2, <1>3, <1>4, PTL

-----------------------------------------------------------------------------
(*** The stream ***)

LEMMA RestEnds ==
  ASSUME NEW c \in Conns
  PROVE  Rest(c, Sends[c]) = <<>>
<1>1. Sends[c] - Sends[c] = 0
  BY RecvAssumption
<1>2. [j \in 1 .. Sends[c] - Sends[c] |-> Bytes(Sends[c] + j)] = <<>>
  BY <1>1
<1>3. QED
  BY <1>2, FlattenEmpty DEF Rest

LEMMA RestGoesOn ==
  ASSUME NEW c \in Conns, NEW i \in 0 .. Sends[c], i # Sends[c]
  PROVE  /\ i + 1 \in 1 .. MaxPackets /\ i + 1 \in 0 .. Sends[c]
         /\ Rest(c, i) = Bytes(i + 1) \o Rest(c, i + 1)
<1> DEFINE n == Sends[c] - i
           m == Sends[c] - (i + 1)
           s == [j \in 1 .. n |-> Bytes(i + j)]
           t == [j \in 1 .. m |-> Bytes((i + 1) + j)]
<1>1. i + 1 \in 1 .. MaxPackets /\ i + 1 \in 0 .. Sends[c] /\ n \in Nat \ {0} /\ m \in Nat /\ n = m + 1
      /\ i \in Nat
  BY RecvAssumption
<1>2. s \in Seq(Seq(ByteSet)) /\ Len(s) = n
  BY RestParts
<1>3. t \in Seq(Seq(ByteSet)) /\ Len(t) = m
  BY <1>1, RestParts
<1>4. /\ \A j \in 1 .. n : s[j] = Bytes(i + j)
      /\ \A j \in 1 .. m : t[j] = Bytes((i + 1) + j)
  OBVIOUS
<1>5. Rest(c, i) = FlattenSeq(s) /\ Rest(c, i + 1) = FlattenSeq(t)
  BY DEF Rest
<1> HIDE DEF s, t, n, m
<1>6. s # <<>> /\ Head(s) = Bytes(i + 1)
  BY <1>1, <1>2, <1>4
<1>7. t = Tail(s)
  <2>1. /\ Tail(s) \in Seq(Seq(ByteSet)) /\ Len(Tail(s)) = n - 1
        /\ \A j \in 1 .. Len(Tail(s)) : Tail(s)[j] = s[j + 1]
    BY <1>2, <1>6, HeadTailProperties
  <2>2. \A j \in 1 .. Len(t) : t[j] = Tail(s)[j]
    <3>1. SUFFICES ASSUME NEW j \in 1 .. Len(t)
                   PROVE  t[j] = Tail(s)[j]
      OBVIOUS
    <3>2. j \in 1 .. m /\ j + 1 \in 1 .. n /\ j \in 1 .. Len(Tail(s)) /\ (i + 1) + j = i + (j + 1)
      BY <1>1, <1>3, <2>1
    <3>3. QED
      BY <3>2, <1>4, <2>1
  <2>3. Len(t) = Len(Tail(s))
    BY <1>1, <1>3, <2>1
  <2>4. QED
    BY <1>3, <2>1, <2>2, <2>3, SeqEqual
<1>8. FlattenSeq(s) = Head(s) \o FlattenSeq(Tail(s))
  BY <1>2, <1>6, FlattenHeadTail
<1>9. QED
  BY <1>1, <1>5, <1>6, <1>7, <1>8

\* What is still to be given to push, from the end of packet i of c on.
StreamFrom(c, i) ==
  i \in 0 .. Sends[c] /\ partial[c] \o buf[c] \o arrived[c] \o sent[c] = Rest(c, i)

LEMMA Joined ==
  ASSUME NEW s \in Seq(ByteSet), NEW t \in Seq(ByteSet)
  PROVE  s \o t \in Seq(ByteSet) /\ Len(s \o t) = Len(s) + Len(t)
         /\ Len(s) \in Nat /\ Len(t) \in Nat
BY ConcatProperties

LEMMA JoinedTwice ==
  ASSUME NEW s \in Seq(ByteSet), NEW t \in Seq(ByteSet), NEW u \in Seq(ByteSet)
  PROVE  (s \o t) \o u = s \o (t \o u)
BY ConcatAssociative

LEMMA RecvTyped ==
  ASSUME RecvInv, NEW c \in Conns
  PROVE  /\ partial[c] \in Seq(ByteSet) /\ buf[c] \in Seq(ByteSet)
         /\ arrived[c] \in Seq(ByteSet) /\ sent[c] \in Seq(ByteSet)
         /\ partial[c] \o buf[c] \in Seq(ByteSet)
         /\ partial[c] \o buf[c] \o arrived[c] \in Seq(ByteSet)
         /\ buf[c] \o arrived[c] \o sent[c] \in Seq(ByteSet)
         /\ partial[c] \o buf[c] \o arrived[c] \o sent[c]
              = partial[c] \o (buf[c] \o arrived[c] \o sent[c])
<1> DEFINE p == partial[c]
           b == buf[c]
           a == arrived[c]
           s == sent[c]
<1>1. p \in Seq(ByteSet) /\ b \in Seq(ByteSet) /\ a \in Seq(ByteSet) /\ s \in Seq(ByteSet)
  BY DEF RecvInv, BytesInv
<1> HIDE DEF p, b, a, s
<1> DEFINE pb == p \o b
           ba == b \o a
           pba == pb \o a
           bas == ba \o s
<1>2. pb \in Seq(ByteSet) /\ ba \in Seq(ByteSet)
  BY <1>1, Joined
<1>3. pba \in Seq(ByteSet) /\ bas \in Seq(ByteSet)
  <2> HIDE DEF pb, ba
  <2> QED BY <1>1, <1>2, Joined
<1>4. pba = p \o ba
  BY <1>1, JoinedTwice
<1>5. (p \o ba) \o s = p \o (ba \o s)
  <2> HIDE DEF ba
  <2> QED BY <1>1, <1>2, JoinedTwice, ZenonT(60)
<1>6. pba \o s = p \o bas
  BY <1>4, <1>5
<1>7. QED
  BY <1>1, <1>2, <1>3, <1>6 DEF p, b, a, s

\* The packet begun is the next one, and when it is whole, the rest follows it.
LEMMA PacketBegun ==
  ASSUME RecvInv, NEW c \in Conns, NEW i, StreamFrom(c, i), partial[c] # <<>>
  PROVE  /\ i \in Nat /\ i # Sends[c] /\ i + 1 \in 1 .. MaxPackets /\ i + 1 \in 0 .. Sends[c]
         /\ partial[c][1] = <<i + 1, 1>>
         /\ Len(partial[c]) = Wanted(partial[c])
              => buf[c] \o arrived[c] \o sent[c] = Rest(c, i + 1)
<1> DEFINE p == partial[c]
           r == buf[c] \o arrived[c] \o sent[c]
<1>1. p \in Seq(ByteSet) /\ r \in Seq(ByteSet) /\ p \o r = Rest(c, i) /\ i \in 0 .. Sends[c]
  BY RecvTyped DEF StreamFrom
<1>2. p # <<>> /\ Len(p) \in Nat \ {0} /\ Len(r) \in Nat
  <2>1. p \in Seq(ByteSet) /\ r \in Seq(ByteSet)
    BY <1>1
  <2>2. p # <<>>
    OBVIOUS
  <2> HIDE DEF p, r
  <2>3. QED
    BY <2>1, <2>2, EmptySeq
<1> HIDE DEF p, r
<1>3. Len(p \o r) = Len(p) + Len(r) /\ (p \o r)[1] = p[1]
  <2>1. /\ Len(p \o r) = Len(p) + Len(r)
        /\ \A k \in 1 .. Len(p) + Len(r) : (p \o r)[k] = IF k <= Len(p) THEN p[k] ELSE r[k - Len(p)]
    BY <1>1, ConcatProperties
  <2>2. 1 \in 1 .. Len(p) + Len(r) /\ 1 <= Len(p)
    BY <1>2
  <2>3. QED
    BY <2>1, <2>2
<1>4. i # Sends[c]
  <2>1. SUFFICES ASSUME i = Sends[c]
                 PROVE  FALSE
    OBVIOUS
  <2>2. p \o r = <<>>
    BY <1>1, <2>1, RestEnds
  <2>3. Len(p \o r) = 0
    BY <2>2
  <2>4. QED
    BY <1>2, <1>3, <2>3
<1>5. /\ i + 1 \in 1 .. MaxPackets /\ i + 1 \in 0 .. Sends[c]
      /\ Rest(c, i) = Bytes(i + 1) \o Rest(c, i + 1)
  BY <1>1, <1>4, RestGoesOn
<1> DEFINE b == Bytes(i + 1)
           t == Rest(c, i + 1)
<1>6. /\ b \in Seq(ByteSet) /\ Len(b) = HeadSize + Body[i + 1] /\ Len(b) \in Nat \ {0}
      /\ b[1] = <<i + 1, 1>> /\ t \in Seq(ByteSet)
  BY <1>5, PacketTyped, RestTyped
<1>7. p \o r = b \o t
  BY <1>1, <1>5
<1> HIDE DEF b, t
<1>8. Len(t) \in Nat
  BY <1>6
<1>9. /\ Len(b \o t) = Len(b) + Len(t)
      /\ \A k \in 1 .. Len(b) + Len(t) : (b \o t)[k] = IF k <= Len(b) THEN b[k] ELSE t[k - Len(b)]
  BY <1>6, ConcatProperties
<1>10. p[1] = <<i + 1, 1>>
  <2>1. 1 \in 1 .. Len(b) + Len(t) /\ 1 <= Len(b)
    BY <1>6, <1>8
  <2>2. (b \o t)[1] = b[1]
    BY <1>9, <2>1
  <2>3. QED
    BY <1>3, <1>6, <1>7, <2>2
<1>11. ASSUME Len(p) = Wanted(p)
       PROVE  r = t
  <2>1. Wanted(p) = HeadSize + Body[i + 1]
    BY <1>10 DEF Wanted
  <2>2. Len(p) = Len(b)
    BY <1>6, <1>11, <2>1
  <2>3. p = b
    <3>1. \A k \in 1 .. Len(p) + Len(r) : (p \o r)[k] = IF k <= Len(p) THEN p[k] ELSE r[k - Len(p)]
      BY <1>1, ConcatProperties
    <3>2. \A k \in 1 .. Len(p) : p[k] = b[k]
      <4>1. SUFFICES ASSUME NEW k \in 1 .. Len(p)
                     PROVE  p[k] = b[k]
        OBVIOUS
      <4>2. k <= Len(p) /\ k <= Len(b) /\ k \in 1 .. Len(p) + Len(r) /\ k \in 1 .. Len(b) + Len(t)
        BY <1>2, <1>6, <1>8, <2>2
      <4>3. QED
        BY <1>7, <1>9, <3>1, <4>2
    <3>3. QED
      BY <1>1, <1>6, <2>2, <3>2, SeqEqual
  <2>4. p \o r = p \o t
    BY <1>7, <2>3
  <2>5. \A x, y, z \in Seq(ByteSet) : x \o y = x \o z => y = z
    BY ConcatSimplifications
  <2>6. QED
    BY <1>1, <1>6, <2>4, <2>5
<1>12. i \in Nat
  BY <1>1
<1>13. QED
  BY <1>4, <1>5, <1>10, <1>11, <1>12 DEF p, r, t

\* Every step but the last of a packet leaves the stream from i on as it is.
LEMMA StreamKept ==
  ASSUME RecvInv, NEW c \in Conns, NEW i, StreamFrom(c, i), [Next]_vars, ~AfterPush
  PROVE  StreamFrom(c, i)'
<1> DEFINE p == partial[c]
           b == buf[c]
           a == arrived[c]
           s == sent[c]
<1>1. p \in Seq(ByteSet) /\ b \in Seq(ByteSet) /\ a \in Seq(ByteSet) /\ s \in Seq(ByteSet)
      /\ p \o b \in Seq(ByteSet) /\ ((p \o b) \o a) \in Seq(ByteSet)
      /\ i \in 0 .. Sends[c] /\ ((p \o b) \o a) \o s = Rest(c, i)
      /\ cur \in Conns
  BY RecvTyped DEF StreamFrom, RecvInv, BytesInv
<1>2. /\ partial \in [Conns -> Seq(ByteSet)] /\ buf \in [Conns -> Seq(ByteSet)]
      /\ arrived \in [Conns -> Seq(ByteSet)] /\ sent \in [Conns -> Seq(ByteSet)]
  BY DEF RecvInv, BytesInv
<1> HIDE DEF p, b, a, s
<1>3. CASE UNCHANGED <<partial[c], buf[c], arrived[c], sent[c]>>
  BY <1>3 DEF StreamFrom
<1>4. CASE PeerSends(c)
  <2>1. PICK n \in 1 .. Smaller(Len(s), Sendable(s) - s[1][2] + 1) :
          /\ arrived' = [arrived EXCEPT ![c] = a \o SubSeq(s, 1, n)]
          /\ sent' = [sent EXCEPT ![c] = SubSeq(s, n + 1, Len(s))]
    BY <1>4 DEF PeerSends, s, a
  <2>2. n \in 0 .. Len(s)
    <3>1. s # <<>> /\ Len(s) \in Nat
      BY <1>1, <1>4 DEF PeerSends, s
    <3>2. Sendable(s) \in Nat
      BY <1>1, <3>1, SendableIsNat
    <3>3. s[1] \in ByteSet
      BY <1>1, <3>1
    <3>4. s[1][2] \in Nat
      BY <3>3, ByteOfPacket
    <3>5. QED
      BY <2>1, <3>1, <3>2, <3>4 DEF Smaller
  <2> DEFINE u == SubSeq(s, 1, n)
             w == SubSeq(s, n + 1, Len(s))
  <2>3. u \in Seq(ByteSet) /\ w \in Seq(ByteSet) /\ u \o w = s
    BY <1>1, <2>2, CutInTwo
  <2> HIDE DEF u, w
  <2>4. arrived'[c] = a \o u /\ sent'[c] = w /\ partial'[c] = p /\ buf'[c] = b
    BY <1>2, <1>4, <2>1 DEF PeerSends, recvVars, u, w, p, b
  <2> DEFINE x == p \o b
  <2>5. x \in Seq(ByteSet)
    BY <1>1
  <2> HIDE DEF x
  <2>6. (x \o (a \o u)) \o w = (x \o a) \o (u \o w)
    <3>1. a \in Seq(ByteSet) /\ u \in Seq(ByteSet) /\ w \in Seq(ByteSet)
      BY <1>1, <2>3
    <3> DEFINE z == x \o a
    <3>2. z \in Seq(ByteSet)
      BY <3>1, <2>5, Joined
    <3>3. (x \o a) \o u = x \o (a \o u)
      BY <3>1, <2>5, JoinedTwice
    <3>4. z = x \o a
      OBVIOUS
    <3> HIDE DEF z
    <3>5. (z \o u) \o w = z \o (u \o w)
      BY <3>1, <3>2, JoinedTwice
    <3>6. QED
      BY <3>3, <3>4, <3>5
  <2>7. ((p \o b) \o (a \o u)) \o w = ((p \o b) \o a) \o s
    BY <2>3, <2>6 DEF x
  <2>8. QED
    BY <1>1, <2>4, <2>7 DEF StreamFrom
<1>5. CASE TryRecv /\ c = cur
  <2> DEFINE n == Smaller(Room(cur), Len(arrived[cur]))
  <2>1. /\ arrived' = [arrived EXCEPT ![cur] = SubSeq(arrived[cur], n + 1, Len(arrived[cur]))]
        /\ buf' = [buf EXCEPT ![cur] = buf[cur] \o SubSeq(arrived[cur], 1, n)]
        /\ UNCHANGED <<sent, partial>>
    BY <1>5 DEF TryRecv
  <2>2. n \in 0 .. Len(a)
    <3>1. Room(cur) \in Nat
      BY <1>1, RoomInBuffer
    <3>2. QED
      BY <1>1, <1>5, <3>1 DEF Smaller, a
  <2> HIDE DEF n
  <2> DEFINE u == SubSeq(a, 1, n)
             w == SubSeq(a, n + 1, Len(a))
  <2>3. u \in Seq(ByteSet) /\ w \in Seq(ByteSet) /\ u \o w = a
    BY <1>1, <2>2, CutInTwo
  <2>4. arrived'[c] = w /\ buf'[c] = b \o u /\ sent'[c] = s /\ partial'[c] = p
    BY <1>2, <1>5, <2>1 DEF a, b, s, p
  <2> HIDE DEF u, w
  <2>5. (p \o (b \o u)) \o w = (p \o b) \o (u \o w)
    <3>1. p \in Seq(ByteSet) /\ b \in Seq(ByteSet) /\ u \in Seq(ByteSet) /\ w \in Seq(ByteSet)
      BY <1>1, <2>3
    <3> DEFINE z == p \o b
    <3>2. z \in Seq(ByteSet)
      BY <3>1, Joined
    <3>3. (p \o b) \o u = p \o (b \o u)
      BY <3>1, JoinedTwice, ZenonT(60)
    <3>4. z = p \o b
      OBVIOUS
    <3> HIDE DEF z
    <3>5. (z \o u) \o w = z \o (u \o w)
      BY <3>1, <3>2, JoinedTwice
    <3>6. QED
      BY <3>3, <3>4, <3>5
  <2>6. ((p \o (b \o u)) \o w) \o s = ((p \o b) \o a) \o s
    BY <2>3, <2>5
  <2>7. QED
    BY <1>1, <2>4, <2>6 DEF StreamFrom
<1>6. CASE Parse /\ c = cur
  <2> DEFINE n == ParseSize(cur)
  <2>1. /\ partial' = [partial EXCEPT ![cur] = partial[cur] \o SubSeq(buf[cur], 1, n)]
        /\ buf' = [buf EXCEPT ![cur] = SubSeq(buf[cur], n + 1, Len(buf[cur]))]
        /\ UNCHANGED <<sent, arrived>>
    BY <1>6 DEF Parse, connVars
  <2>2. n \in 0 .. Len(b)
    BY <1>1, <1>6, ParseReads DEF RecvInv, b
  <2> HIDE DEF n
  <2> DEFINE u == SubSeq(b, 1, n)
             w == SubSeq(b, n + 1, Len(b))
  <2>3. u \in Seq(ByteSet) /\ w \in Seq(ByteSet) /\ u \o w = b
    BY <1>1, <2>2, CutInTwo
  <2>4. partial'[c] = p \o u /\ buf'[c] = w /\ sent'[c] = s /\ arrived'[c] = a
    BY <1>2, <1>6, <2>1 DEF a, b, s, p
  <2> HIDE DEF u, w
  <2>5. (p \o u) \o w = p \o (u \o w)
    <3>1. p \in Seq(ByteSet) /\ u \in Seq(ByteSet) /\ w \in Seq(ByteSet)
      BY <1>1, <2>3
    <3>2. QED
      BY <3>1, JoinedTwice
  <2>6. (((p \o u) \o w) \o a) \o s = ((p \o b) \o a) \o s
    BY <2>3, <2>5
  <2>7. QED
    BY <1>1, <2>4, <2>6 DEF StreamFrom
<1>7. ASSUME NEW d \in Conns, d # c, PeerSends(d)
      PROVE  UNCHANGED <<partial[c], buf[c], arrived[c], sent[c]>>
  BY <1>2, <1>7 DEF PeerSends, recvVars
<1>8. CASE (TryRecv \/ Parse) /\ c # cur
  BY <1>2, <1>3, <1>8 DEF TryRecv, Parse, connVars
<1>9. CASE \E d \in Conns : PeerCloses(d) \/ EraseConnection(d) \/ ReadEvent(d)
  BY <1>3, <1>9 DEF PeerCloses, EraseConnection, ReadEvent, connVars, recvVars
<1>10. CASE RecvClosed \/ Pushing \/ GetPacket \/ UNCHANGED vars
  BY <1>3, <1>10 DEF RecvClosed, Pushing, GetPacket, vars, connVars, recvVars
<1>11. QED
  BY <1>3, <1>4, <1>5, <1>6, <1>7, <1>8, <1>9, <1>10 DEF Next, Network

-----------------------------------------------------------------------------
(*** From packet to packet ***)

\* push is called by epollerEventHandler with the packet just completed, only.
PushInv ==
  /\ netPc # "push" => pushPc = "out"
  /\ netPc = "push" => /\ partial[cur] # <<>>
                       /\ Len(partial[cur]) = Wanted(partial[cur])
                       /\ pushItem = <<cur, partial[cur][1][1]>>

LEMMA PushStart == Init => PushInv
BY DEF Init, RingInit, PushInv

LEMMA WholeWhenComplete ==
  ASSUME RecvInv, Parse, Complete(partial'[cur])
  PROVE  partial'[cur] # <<>> /\ Len(partial'[cur]) = Wanted(partial'[cur])
<1>1. RecvInv' /\ cur' = cur
  BY ParseStep DEF Parse
<1>2. partial'[cur] \in Seq(ByteSet) /\ cur \in Conns
  BY <1>1 DEF RecvInv, BytesInv
<1> DEFINE p == partial'[cur]
<1>3. Len(p) >= HeadSize /\ Len(p) >= Wanted(p) /\ HeadSize \in Nat \ {0} /\ Len(p) \in Nat
  BY <1>2, RecvAssumption DEF Complete
<1>4. p # <<>>
  <2>1. Len(p) # 0
    BY <1>3
  <2>2. QED
    BY <2>1
<1>5. Len(p) \in 1 .. Wanted(p)
  BY <1>1, <1>2, <1>4 DEF RecvInv, HeadInv, Begun, Wanted
<1>6. Wanted(p) \in Nat
  BY <1>2, <1>4, WantedWhole
<1> HIDE DEF p
<1>7. Len(p) = Wanted(p)
  BY <1>3, <1>5, <1>6
<1>8. QED
  BY <1>4, <1>7 DEF p

LEMMA PushStep ==
  ASSUME RecvInv, PushInv, [Next]_vars
  PROVE  PushInv'
<1> USE DEF PushInv
<1>1. cur \in Conns
  BY DEF RecvInv, BytesInv
<1>2. CASE Parse
  <2>1. CASE Complete(partial'[cur])
    <3>1. netPc' = "push" /\ cur' = cur /\ pushItem' = <<cur, partial'[cur][1][1]>>
      BY <1>2, <2>1 DEF Parse, PushCall
    <3>2. partial'[cur] # <<>> /\ Len(partial'[cur]) = Wanted(partial'[cur])
      BY <1>2, <2>1, WholeWhenComplete
    <3>3. QED
      BY <3>1, <3>2 DEF Wanted
  <2>2. CASE ~Complete(partial'[cur])
    BY <1>2, <2>2 DEF Parse, ringVars
  <2>3. QED
    BY <2>1, <2>2
<1>3. CASE Pushing
  <2>1. netPc = "push" /\ netPc' = netPc /\ cur' = cur /\ partial' = partial
    BY <1>3 DEF Pushing, recvVars, netVars
  <2>2. pushItem' = pushItem
    BY <1>3 DEF Pushing, Push, PushFree, PushFull, PushMark
  <2>3. QED
    BY <2>1, <2>2 DEF Wanted
<1>4. CASE GetPacket
  BY <1>4 DEF GetPacket, PopCall, PopFull, PopEmpty, PopMark, pushVars, recvVars, netVars, Wanted
<1>5. CASE AfterPush
  BY <1>5 DEF AfterPush, ringVars
<1>6. CASE TryRecv
  BY <1>6 DEF TryRecv, ringVars
<1>7. CASE RecvClosed
  BY <1>7 DEF RecvClosed, ringVars
<1>8. ASSUME NEW c \in Conns, PeerSends(c) \/ PeerCloses(c) \/ EraseConnection(c)
      PROVE  PushInv'
  <2>1. UNCHANGED <<netPc, cur, partial, pushPc, pushItem>>
    BY <1>8 DEF PeerSends, PeerCloses, EraseConnection, recvVars, netVars, ringVars
  <2>2. QED
    BY <2>1 DEF Wanted
<1>9. ASSUME NEW c \in Conns, ReadEvent(c)
      PROVE  PushInv'
  BY <1>9 DEF ReadEvent, ringVars
<1>10. CASE UNCHANGED vars
  BY <1>10 DEF vars, recvVars, netVars, ringVars, Wanted
<1>11. QED
  BY <1>2, <1>3, <1>4, <1>5, <1>6, <1>7, <1>8, <1>9, <1>10 DEF Next, Network

\* The last packet of c whose fate is settled, when the stream goes on from i.
Settled(c, i) ==
  IF c = cur /\ netPc = "push" /\ pushPc = "out" /\ pushed THEN i + 1 ELSE i

\* Of the packets up to t, those above the last one got are in the ring or
\* dropped, not both; the ring has no others, and has them in their order.
Deliver(c, t) ==
  /\ got[c] \in 0 .. t
  /\ dropped[c] \subseteq 1 .. t
  /\ \A k \in 1 .. Len(Contents) :
       Contents[k][1] = c => /\ Contents[k][2] \in got[c] + 1 .. t
                             /\ Contents[k][2] \notin dropped[c]
  /\ \A k, l \in 1 .. Len(Contents) :
       k < l /\ Contents[k][1] = c /\ Contents[l][1] = c => Contents[k][2] < Contents[l][2]
  /\ \A m \in got[c] + 1 .. t :
       m \in dropped[c] \/ \E k \in 1 .. Len(Contents) : Contents[k] = <<c, m>>

Delivery ==
  \A c \in Conns : \E i \in 0 .. Sends[c] : StreamFrom(c, i) /\ Deliver(c, Settled(c, i))

LEMMA DeliveryStart == Init => Delivery
<1> SUFFICES ASSUME Init, NEW c \in Conns
             PROVE  StreamFrom(c, 0) /\ Deliver(c, Settled(c, 0)) /\ 0 \in 0 .. Sends[c]
  BY DEF Delivery
<1>1. 0 \in 0 .. Sends[c] /\ Rest(c, 0) \in Seq(ByteSet)
  BY RestTyped
<1>2. StreamFrom(c, 0)
  <2>1. <<>> \o <<>> = <<>> /\ <<>> \o Rest(c, 0) = Rest(c, 0)
    BY <1>1, ConcatEmptySeq, EmptySeq
  <2>2. partial[c] = <<>> /\ buf[c] = <<>> /\ arrived[c] = <<>> /\ sent[c] = Rest(c, 0)
    BY DEF Init
  <2>3. QED
    BY <1>1, <2>1, <2>2 DEF StreamFrom
<1>3. Settled(c, 0) = 0
  BY DEF Init, Settled
<1>4. Contents = <<>>
  <2>1. Oldest = 0 /\ Newest = 0
    BY DEF Init, RingInit, Oldest, Newest
  <2>2. QED
    BY <2>1 DEF Contents
<1>5. Len(Contents) = 0
  BY <1>4
<1>6. got[c] = 0 /\ dropped[c] = {}
  BY DEF Init
<1>7. Deliver(c, 0)
  BY <1>5, <1>6 DEF Deliver
<1>8. QED
  BY <1>1, <1>2, <1>3, <1>7

LEMMA ContentsTyped ==
  ASSUME RingTypeOK, RingInv
  PROVE  /\ Contents \in Seq(Items) /\ Len(Contents) \in Nat
         /\ \A k \in 1 .. Len(Contents) :
              /\ Contents[k][1] \in Conns /\ Contents[k][2] \in 1 .. MaxPackets
              /\ Contents[k] = <<Contents[k][1], Contents[k][2]>>
<1>1. Contents \in Seq(Items)
  BY ContentsSeq DEF RingInv, InTurn, Midway
<1>2. \A k \in 1 .. Len(Contents) : Contents[k] \in Items
  BY <1>1
<1>3. \A x \in Items : x[1] \in Conns /\ x[2] \in 1 .. MaxPackets /\ x = <<x[1], x[2]>>
  BY RecvAssumption
<1>4. Len(Contents) \in Nat
  BY <1>1
<1>5. QED
  BY <1>1, <1>2, <1>3, <1>4

\* Steps that neither push nor pop a packet nor give up one.
LEMMA DeliverKept ==
  ASSUME NEW c \in Conns, NEW i, Deliver(c, Settled(c, i)),
         UNCHANGED <<Contents, got, dropped>>, Settled(c, i)' = Settled(c, i)
  PROVE  Deliver(c, Settled(c, i))'
BY DEF Deliver

\* The store of push that marks a cell full puts the packet into the ring.
LEMMA MarkDelivers ==
  ASSUME RingTypeOK, RingInv, RecvInv, RestInv, PushInv, Pushing, PushMark,
         NEW c \in Conns, NEW i, StreamFrom(c, i), Deliver(c, Settled(c, i))
  PROVE  Deliver(c, Settled(c, i))'
<1> DEFINE Q == Contents
<1>1. /\ Contents' = Append(Q, pushItem) /\ pushItem \in Items
      /\ Q \in Seq(Items) /\ Len(Q) \in Nat
  BY PushMarkStep, ContentsTyped DEF RingInv, Midway, PushMark
<1>2. /\ netPc = "push" /\ netPc' = netPc /\ cur' = cur /\ pushPc = "mark"
      /\ pushPc' = "out" /\ pushed' /\ UNCHANGED <<got, dropped>>
  BY DEF Pushing, PushMark, netVars, histVars
<1>3. i \in Nat /\ cur \in Conns
  BY DEF StreamFrom, RecvInv, BytesInv
<1>4. Settled(c, i) = i /\ Settled(c, i)' = IF c = cur THEN i + 1 ELSE i
  BY <1>2 DEF Settled
<1>5. ASSUME c = cur
      PROVE  pushItem = <<c, i + 1>>
  <2>1. partial[c] # <<>> /\ pushItem = <<cur, partial[cur][1][1]>>
    BY <1>2, <1>5 DEF PushInv
  <2>2. partial[c][1] = <<i + 1, 1>>
    BY <2>1, PacketBegun
  <2>3. partial[cur][1][1] = i + 1
    BY <1>5, <2>2
  <2>4. QED
    BY <1>5, <2>1, <2>3
<1>6. pushItem[1] = cur
  BY <1>2 DEF PushInv
<1> DEFINE R == Contents'
           N == Len(Q)
<1>7. /\ Len(R) = N + 1 /\ R[N + 1] = pushItem
      /\ \A k \in 1 .. N : R[k] = Q[k]
  BY <1>1, AppendProperties
<1>8. /\ got[c] \in 0 .. i
      /\ dropped[c] \subseteq 1 .. i
      /\ \A k \in 1 .. N : Q[k][1] = c => Q[k][2] \in got[c] + 1 .. i /\ Q[k][2] \notin dropped[c]
      /\ \A k, l \in 1 .. N : k < l /\ Q[k][1] = c /\ Q[l][1] = c => Q[k][2] < Q[l][2]
      /\ \A m \in got[c] + 1 .. i : m \in dropped[c] \/ \E k \in 1 .. N : Q[k] = <<c, m>>
  BY <1>4 DEF Deliver
<1>9. N \in Nat
  BY <1>1
<1> HIDE DEF Q, R, N
<1> DEFINE t == IF c = cur THEN i + 1 ELSE i
<1>10. \A k \in 1 .. N + 1 : k \in 1 .. N \/ k = N + 1
  BY <1>9
<1>11. t \in Nat /\ i <= t
  BY <1>3
<1>12. got[c] \in 0 .. t /\ dropped[c] \subseteq 1 .. t
  <2> HIDE DEF t
  <2> QED BY <1>3, <1>8, <1>11
<1>13. ASSUME NEW k \in 1 .. N + 1, R[k][1] = c
       PROVE  R[k][2] \in got[c] + 1 .. t /\ R[k][2] \notin dropped[c]
  <2>1. CASE k \in 1 .. N
    <3>1. R[k] = Q[k]
      BY <2>1, <1>7
    <3>2. Q[k][2] \in got[c] + 1 .. i /\ Q[k][2] \notin dropped[c]
      BY <3>1, <2>1, <1>8, <1>13
    <3> HIDE DEF t
    <3>3. Q[k][2] \in got[c] + 1 .. t
      BY <3>2, <1>3, <1>8, <1>11
    <3>4. QED
      BY <3>1, <3>2, <3>3
  <2>2. CASE k = N + 1
    <3>1. R[k] = <<c, i + 1>> /\ c = cur
      BY <2>2, <1>5, <1>6, <1>7, <1>13
    <3>2. i + 1 \in got[c] + 1 .. t /\ i + 1 \notin dropped[c]
      BY <3>1, <1>3, <1>8
    <3>3. QED
      BY <3>1, <3>2
  <2>3. QED
    BY <1>10, <2>1, <2>2
<1>14. ASSUME NEW k \in 1 .. N + 1, NEW l \in 1 .. N + 1, k < l, R[k][1] = c, R[l][1] = c
       PROVE  R[k][2] < R[l][2]
  <2>1. k \in 1 .. N
    BY <1>9, <1>14
  <2>2. R[k] = Q[k]
    BY <2>1, <1>7
  <2>3. CASE l \in 1 .. N
    <3>1. R[l] = Q[l]
      BY <2>3, <1>7
    <3>2. QED
      BY <3>1, <2>1, <2>2, <2>3, <1>8, <1>14
  <2>4. CASE l = N + 1
    <3>1. R[l] = <<c, i + 1>>
      BY <2>4, <1>5, <1>6, <1>7, <1>14
    <3>2. Q[k][2] \in got[c] + 1 .. i
      BY <2>1, <2>2, <1>8, <1>14
    <3>3. Q[k][2] < i + 1
      BY <3>2, <1>3, <1>8
    <3>4. QED
      BY <2>2, <3>1, <3>3
  <2>5. QED
    BY <1>10, <2>3, <2>4
<1>15. ASSUME NEW m \in got[c] + 1 .. t
       PROVE  m \in dropped[c] \/ \E k \in 1 .. N + 1 : R[k] = <<c, m>>
  <2>1. CASE m \in got[c] + 1 .. i
    <3>1. m \in dropped[c] \/ \E k \in 1 .. N : Q[k] = <<c, m>>
      BY <2>1, <1>8
    <3>2. \A k \in 1 .. N : k \in 1 .. N + 1
      BY <1>9
    <3>3. QED
      BY <3>1, <3>2, <1>7
  <2>2. CASE c = cur /\ m = i + 1
    <3>1. N + 1 \in 1 .. N + 1 /\ R[N + 1] = <<c, m>>
      BY <2>2, <1>5, <1>7, <1>9
    <3>2. QED
      BY <3>1
  <2>3. m \in got[c] + 1 .. i \/ (c = cur /\ m = i + 1)
    BY <1>3, <1>8
  <2>4. QED
    BY <2>1, <2>2, <2>3
<1>16. Settled(c, i)' = t
  BY <1>4
<1> HIDE DEF t
<1>17. Len(R) = N + 1
  BY <1>7
<1>18. /\ got'[c] \in 0 .. t /\ dropped'[c] \subseteq 1 .. t
       /\ \A k \in 1 .. Len(R) :
            R[k][1] = c => R[k][2] \in got'[c] + 1 .. t /\ R[k][2] \notin dropped'[c]
       /\ \A k, l \in 1 .. Len(R) :
            k < l /\ R[k][1] = c /\ R[l][1] = c => R[k][2] < R[l][2]
       /\ \A m \in got'[c] + 1 .. t :
            m \in dropped'[c] \/ \E k \in 1 .. Len(R) : R[k] = <<c, m>>
  BY <1>2, <1>12, <1>13, <1>14, <1>15, <1>17
<1>19. QED
  BY <1>16, <1>18 DEF Deliver, R

\* Taking the packet out of the ring: it is the first of its connection there.
LEMMA FirstOfRing ==
  ASSUME RingTypeOK, RingInv, popPc = "mark"
  PROVE  /\ Len(Contents) \in Nat \ {0} /\ popItem = Contents[1]
         /\ popItem[1] \in Conns /\ popItem[2] \in 1 .. MaxPackets
         /\ popItem = <<popItem[1], popItem[2]>>
<1>1. /\ Oldest \in Nat /\ Newest \in Nat /\ Oldest < Newest /\ Oldest = mBegin - 1
  BY DEF RingInv, InTurn, Midway, Oldest
<1>2. /\ Contents \in Seq(Items) /\ Len(Contents) = Newest - Oldest
      /\ \A i \in 1 .. Newest - Oldest : Contents[i] = ItemAt(Oldest + i - 1)
  <2>1. \A k \in Oldest .. Newest - 1 : ItemAt(k) \in Items
    BY DEF RingInv, Midway
  <2>2. Oldest <= Newest
    BY <1>1
  <2>3. QED
    BY <1>1, <2>1, <2>2, ContentsSeq
<1>3. 1 \in 1 .. Newest - Oldest /\ Oldest + 1 - 1 = Oldest
  BY <1>1
<1>4. Contents[1] = ItemAt(Oldest)
  BY <1>2, <1>3
<1>5. ItemAt(Oldest) = popItem
  BY <1>1 DEF ItemAt
<1>6. Len(Contents) \in Nat \ {0} /\ 1 \in 1 .. Len(Contents)
  BY <1>1, <1>2
<1>7. QED
  BY <1>4, <1>5, <1>6, ContentsTyped

LEMMA InTurnNow ==
  ASSUME RingTypeOK, RingInv, Delivery, popPc = "mark"
  PROVE  LET c == popItem[1]
             i == popItem[2]
         IN  /\ i > got[c] /\ i \notin dropped[c]
             /\ (got[c] + 1) .. (i - 1) \subseteq dropped[c]
<1> DEFINE c == popItem[1]
           i == popItem[2]
           Q == Contents
<1>1. /\ Len(Q) \in Nat \ {0} /\ Q[1] = <<c, i>> /\ c \in Conns /\ i \in Nat
      /\ Q[1][1] = c /\ Q[1][2] = i
  BY FirstOfRing
<1>2. PICK j \in 0 .. Sends[c] : StreamFrom(c, j) /\ Deliver(c, Settled(c, j))
  BY <1>1 DEF Delivery
<1> DEFINE t == Settled(c, j)
<1>3. t \in Nat
  BY RecvAssumption, <1>1 DEF Settled
<1>4. /\ got[c] \in 0 .. t
      /\ \A k \in 1 .. Len(Q) : Q[k][1] = c => Q[k][2] \in got[c] + 1 .. t /\ Q[k][2] \notin dropped[c]
      /\ \A k, l \in 1 .. Len(Q) : k < l /\ Q[k][1] = c /\ Q[l][1] = c => Q[k][2] < Q[l][2]
      /\ \A m \in got[c] + 1 .. t : m \in dropped[c] \/ \E k \in 1 .. Len(Q) : Q[k] = <<c, m>>
  BY <1>2 DEF Deliver
<1> HIDE DEF Q, t
<1>5. 1 \in 1 .. Len(Q)
  BY <1>1
<1>6. i \in got[c] + 1 .. t /\ i \notin dropped[c]
  BY <1>1, <1>4, <1>5
<1> HIDE DEF c, i
<1>7. i > got[c]
  BY <1>3, <1>4, <1>6
<1>8. ASSUME NEW m \in (got[c] + 1) .. (i - 1)
      PROVE  m \in dropped[c]
  <2>1. m \in got[c] + 1 .. t /\ m < i /\ m \in Nat
    BY <1>1, <1>3, <1>4, <1>6
  <2>2. SUFFICES ASSUME m \notin dropped[c]
                 PROVE  FALSE
    OBVIOUS
  <2>3. PICK k \in 1 .. Len(Q) : Q[k] = <<c, m>>
    BY <1>4, <2>1, <2>2
  <2>4. Q[k][1] = c /\ Q[k][2] = m
    BY <2>3
  <2>5. CASE k = 1
    BY <1>1, <2>1, <2>4, <2>5
  <2>6. CASE k # 1
    <3>1. 1 < k
      BY <1>1, <2>6
    <3>2. i < m
      BY <1>1, <1>4, <1>5, <2>4, <3>1
    <3>3. QED
      BY <1>1, <2>1, <3>2
  <2>7. QED
    BY <2>5, <2>6
<1>9. QED
  BY <1>6, <1>7, <1>8 DEF c, i

LEMMA PopDelivers ==
  ASSUME RingTypeOK, RingInv, RecvInv, RestInv, GetPacket, PopMark,
         NEW c \in Conns, NEW i, StreamFrom(c, i), Deliver(c, Settled(c, i))
  PROVE  Deliver(c, Settled(c, i))'
<1> DEFINE Q == Contents
           R == Contents'
           N == Len(Q)
           t == Settled(c, i)
<1>1. /\ Q # <<>> /\ R = Tail(Q) /\ popPc = "mark"
  BY PopMarkStep DEF PopMark
<1>2. /\ N \in Nat \ {0} /\ popItem = Q[1]
      /\ popItem[1] \in Conns /\ popItem[2] \in 1 .. MaxPackets
  BY <1>1, FirstOfRing
<1>3. Q \in Seq(Items)
  BY ContentsTyped
<1>4. /\ got' = [got EXCEPT ![popItem[1]] = popItem[2]]
      /\ UNCHANGED <<dropped, netPc, cur, pushPc, pushed>>
  BY <1>1 DEF GetPacket, PopMark, netVars, pushVars
<1>5. t' = t
  BY <1>4 DEF Settled
<1>6. t \in Nat
  BY RecvAssumption DEF Settled, StreamFrom
<1>7. /\ got[c] \in 0 .. t
      /\ dropped[c] \subseteq 1 .. t
      /\ \A k \in 1 .. N : Q[k][1] = c => Q[k][2] \in got[c] + 1 .. t /\ Q[k][2] \notin dropped[c]
      /\ \A k, l \in 1 .. N : k < l /\ Q[k][1] = c /\ Q[l][1] = c => Q[k][2] < Q[l][2]
      /\ \A m \in got[c] + 1 .. t : m \in dropped[c] \/ \E k \in 1 .. N : Q[k] = <<c, m>>
  BY DEF Deliver
<1>8. got'[c] = IF popItem[1] = c THEN popItem[2] ELSE got[c]
  BY <1>2, <1>4 DEF RestInv
<1> HIDE DEF Q, R, N
<1>9. Len(R) = N - 1 /\ \A k \in 1 .. N - 1 : R[k] = Q[k + 1]
  <2>1. Len(R) = Len(Q) - 1 /\ \A k \in 1 .. Len(R) : R[k] = Q[k + 1]
    BY <1>1, <1>3, HeadTailProperties
  <2>2. QED
    BY <2>1 DEF N
<1>10. \A k \in 1 .. N - 1 : k + 1 \in 1 .. N /\ 1 < k + 1 /\ k \in Nat
  BY <1>2
<1>11. 1 \in 1 .. N
  BY <1>2
<1> HIDE DEF t
<1> DEFINE g == got'[c]
<1>12. g \in 0 .. t /\ g >= got[c] /\ g \in Nat /\ got[c] \in Nat
  <2>1. CASE popItem[1] = c
    <3>1. g = popItem[2] /\ popItem[2] \in got[c] + 1 .. t
      BY <2>1, <1>2, <1>7, <1>8, <1>11
    <3>2. QED
      BY <3>1, <1>6, <1>7
  <2>2. CASE popItem[1] # c
    BY <2>2, <1>6, <1>7, <1>8
  <2>3. QED
    BY <2>1, <2>2
<1>13. ASSUME NEW k \in 1 .. N - 1, R[k][1] = c
       PROVE  R[k][2] \in g + 1 .. t /\ R[k][2] \notin dropped[c]
  <2>1. R[k] = Q[k + 1] /\ k + 1 \in 1 .. N /\ 1 < k + 1
    BY <1>9, <1>10
  <2>2. Q[k + 1][2] \in got[c] + 1 .. t /\ Q[k + 1][2] \notin dropped[c]
    BY <2>1, <1>7, <1>13
  <2>3. g < Q[k + 1][2]
    <3>1. CASE popItem[1] = c
      BY <2>1, <3>1, <1>2, <1>7, <1>8, <1>11, <1>13
    <3>2. CASE popItem[1] # c
      BY <2>2, <3>2, <1>6, <1>7, <1>8
    <3>3. QED
      BY <3>1, <3>2
  <2> HIDE DEF g
  <2>4. Q[k + 1][2] \in g + 1 .. t
    BY <2>2, <2>3, <1>6, <1>12
  <2>5. QED
    BY <2>1, <2>2, <2>4
<1>14. ASSUME NEW k \in 1 .. N - 1, NEW l \in 1 .. N - 1, k < l, R[k][1] = c, R[l][1] = c
       PROVE  R[k][2] < R[l][2]
  <2>1. R[k] = Q[k + 1] /\ k + 1 \in 1 .. N /\ R[l] = Q[l + 1] /\ l + 1 \in 1 .. N /\ k + 1 < l + 1
    BY <1>9, <1>10, <1>14
  <2>2. QED
    BY <2>1, <1>7, <1>14
<1>15. ASSUME NEW m \in g + 1 .. t
       PROVE  m \in dropped[c] \/ \E k \in 1 .. N - 1 : R[k] = <<c, m>>
  <2>1. m \in got[c] + 1 .. t /\ m \in Nat /\ m # g
    <3> HIDE DEF g
    <3> QED BY <1>6, <1>7, <1>12
  <2>2. SUFFICES ASSUME m \notin dropped[c]
                 PROVE  \E k \in 1 .. N - 1 : R[k] = <<c, m>>
    OBVIOUS
  <2>3. PICK k \in 1 .. N : Q[k] = <<c, m>>
    BY <1>7, <2>1, <2>2
  <2>4. k # 1
    <3>1. SUFFICES ASSUME k = 1
                   PROVE  FALSE
      OBVIOUS
    <3>2. popItem[1] = c /\ popItem[2] = m
      BY <1>2, <2>3, <3>1
    <3>3. QED
      BY <1>8, <2>1, <3>2
  <2>5. k - 1 \in 1 .. N - 1 /\ (k - 1) + 1 = k
    BY <1>2, <2>4
  <2>6. R[k - 1] = <<c, m>>
    BY <1>9, <2>3, <2>5
  <2>7. QED
    BY <2>5, <2>6
<1>16. dropped[c] \subseteq 1 .. t
  BY <1>7
<1>17. Deliver(c, t)'
  <2>1. Len(R) = N - 1 /\ dropped' = dropped
    BY <1>4, <1>9
  <2>2. QED
    BY <1>5, <1>12, <1>13, <1>14, <1>15, <1>16, <2>1 DEF Deliver, R
<1>18. QED
  BY <1>17 DEF t

\* The next packet begins when push has returned: what was pushed is settled.
LEMMA NextPacket ==
  ASSUME RecvInv, RestInv, PushInv, AfterPush, UNCHANGED Contents,
         NEW c \in Conns, NEW i, StreamFrom(c, i), Deliver(c, Settled(c, i)), c = cur
  PROVE  StreamFrom(c, i + 1)' /\ Deliver(c, Settled(c, i + 1))'
<1>1. /\ netPc = "push" /\ pushPc = "out" /\ netPc' = "recv"
      /\ UNCHANGED <<buf, arrived, sent, got, cur>>
      /\ partial' = [partial EXCEPT ![cur] = <<>>]
      /\ dropped' = [dropped EXCEPT ![cur] = IF pushed THEN @ ELSE @ \union {pushItem[2]}]
  BY DEF AfterPush, NewPacket, connVars
<1>2. partial[c] # <<>> /\ Len(partial[c]) = Wanted(partial[c])
      /\ pushItem = <<c, partial[c][1][1]>>
  BY <1>1 DEF PushInv
<1>3. /\ i \in Nat /\ i + 1 \in 0 .. Sends[c]
      /\ partial[c][1] = <<i + 1, 1>>
      /\ buf[c] \o arrived[c] \o sent[c] = Rest(c, i + 1)
  BY <1>2, PacketBegun
<1>4. pushItem[2] = i + 1
  BY <1>2, <1>3
<1>5. StreamFrom(c, i + 1)'
  <2>1. partial'[c] = <<>>
    BY <1>1 DEF RecvInv, BytesInv
  <2> DEFINE b == buf[c]
  <2>2. b \in Seq(ByteSet)
    BY RecvTyped
  <2>3. <<>> \o b = b
    <3> HIDE DEF b
    <3> QED BY <2>2, ConcatEmptySeq
  <2>4. partial'[c] \o buf'[c] = buf[c] /\ arrived'[c] = arrived[c] /\ sent'[c] = sent[c]
    BY <1>1, <2>1, <2>3
  <2>5. partial'[c] \o buf'[c] \o arrived'[c] \o sent'[c] = Rest(c, i + 1)
    BY <1>3, <2>4
  <2>6. QED
    BY <1>3, <2>5 DEF StreamFrom
<1>6. Settled(c, i + 1)' = i + 1
  BY <1>1 DEF Settled
<1>7. Deliver(c, IF pushed THEN i + 1 ELSE i)
  BY <1>1 DEF Settled
<1> DEFINE Q == Contents
<1>8. dropped'[c] = IF pushed THEN dropped[c] ELSE dropped[c] \union {i + 1}
  BY <1>1, <1>4 DEF RestInv
<1>9. CASE pushed
  <2>1. Deliver(c, i + 1) /\ dropped'[c] = dropped[c] /\ got' = got
    BY <1>1, <1>7, <1>8, <1>9
  <2>2. QED
    BY <1>5, <1>6, <2>1 DEF Deliver
<1>10. CASE ~pushed
  <2>1. Deliver(c, i) /\ dropped'[c] = dropped[c] \union {i + 1} /\ got' = got
    BY <1>1, <1>7, <1>8, <1>10
  <2>2. /\ got[c] \in 0 .. i /\ dropped[c] \subseteq 1 .. i
        /\ \A k \in 1 .. Len(Q) : Q[k][1] = c => Q[k][2] \in got[c] + 1 .. i /\ Q[k][2] \notin dropped[c]
        /\ \A k, l \in 1 .. Len(Q) : k < l /\ Q[k][1] = c /\ Q[l][1] = c => Q[k][2] < Q[l][2]
        /\ \A m \in got[c] + 1 .. i : m \in dropped[c] \/ \E k \in 1 .. Len(Q) : Q[k] = <<c, m>>
    BY <2>1 DEF Deliver
  <2> HIDE DEF Q
  <2>3. got'[c] \in 0 .. i + 1 /\ dropped'[c] \subseteq 1 .. i + 1
    BY <1>3, <2>1, <2>2
  <2>4. ASSUME NEW k \in 1 .. Len(Q), Q[k][1] = c
        PROVE  Q[k][2] \in got'[c] + 1 .. i + 1 /\ Q[k][2] \notin dropped'[c]
    <3>1. Q[k][2] \in got[c] + 1 .. i /\ Q[k][2] \notin dropped[c]
      BY <2>2, <2>4
    <3>2. Q[k][2] \in got'[c] + 1 .. i + 1 /\ Q[k][2] # i + 1
      BY <1>3, <2>1, <2>2, <3>1
    <3>3. QED
      BY <2>1, <3>1, <3>2
  <2>5. ASSUME NEW m \in got'[c] + 1 .. i + 1
        PROVE  m \in dropped'[c] \/ \E k \in 1 .. Len(Q) : Q[k] = <<c, m>>
    <3>1. m \in got[c] + 1 .. i \/ m = i + 1
      BY <1>3, <2>1, <2>2
    <3>2. QED
      BY <2>1, <2>2, <3>1
  <2>6. Contents' = Q
    BY DEF Q
  <2>7. QED
    BY <1>5, <1>6, <2>2, <2>3, <2>4, <2>5, <2>6, ZenonT(60) DEF Deliver
<1>11. QED
  BY <1>9, <1>10

\* A step that gives no packet to the ring, takes none and gives none up.
LEMMA QuietStepOfRing ==
  ASSUME RingTypeOK, RingInv, RecvInv, [Next]_vars,
         ~(Pushing /\ PushMark), ~(GetPacket /\ PopMark)
  PROVE  UNCHANGED Contents
<1>1. CASE Parse
  <2>1. CASE Complete(partial'[cur])
    <3>1. PushCall(<<cur, partial'[cur][1][1]>>)
      BY <1>1, <2>1 DEF Parse
    <3>2. QED
      BY <1>1, <2>1, <3>1, PushesPacket, QuietStep
  <2>2. CASE ~Complete(partial'[cur])
    BY <1>1, <2>2, QuietStep DEF Parse
  <2>3. QED
    BY <2>1, <2>2
<1>2. CASE Pushing
  BY <1>2, QuietStep, PushFreeStep DEF Pushing, Push
<1>3. CASE GetPacket
  BY <1>3, QuietStep, PopFullStep DEF GetPacket
<1>4. CASE TryRecv \/ RecvClosed \/ AfterPush
  BY <1>4, QuietStep DEF TryRecv, RecvClosed, AfterPush
<1>5. CASE \E c \in Conns : PeerSends(c) \/ PeerCloses(c) \/ EraseConnection(c) \/ ReadEvent(c)
  BY <1>5, QuietStep DEF PeerSends, PeerCloses, EraseConnection, ReadEvent
<1>6. CASE UNCHANGED vars
  BY <1>6, QuietStep DEF vars
<1>7. QED
  BY <1>1, <1>2, <1>3, <1>4, <1>5, <1>6 DEF Next, Network

LEMMA QuietSettled ==
  ASSUME PushInv, [Next]_vars, ~(Pushing /\ PushMark), ~(GetPacket /\ PopMark), ~AfterPush,
         NEW c, NEW i
  PROVE  Settled(c, i)' = Settled(c, i) /\ UNCHANGED <<got, dropped>>
<1> USE DEF Settled, PushInv
<1>1. CASE Parse
  <2>1. netPc = "parse" /\ netPc' \in {"push", "wait"} /\ (netPc' = "push" => pushPc' = "look")
        /\ UNCHANGED <<got, dropped>>
    BY <1>1 DEF Parse, PushCall, histVars
  <2>2. QED
    BY <2>1
<1>2. CASE Pushing
  <2>1. /\ UNCHANGED <<netPc, cur, got, dropped>> /\ pushPc = "look"
        /\ ~(pushPc' = "out" /\ pushed')
    BY <1>2 DEF Pushing, Push, PushFree, PushFull, netVars, histVars
  <2>2. QED
    BY <2>1
<1>3. CASE GetPacket
  BY <1>3 DEF GetPacket, PopCall, PopFull, PopEmpty, pushVars, netVars
<1>4. CASE TryRecv \/ RecvClosed
  BY <1>4 DEF TryRecv, RecvClosed, histVars
<1>5. ASSUME NEW d \in Conns, PeerSends(d) \/ PeerCloses(d) \/ EraseConnection(d)
      PROVE  Settled(c, i)' = Settled(c, i) /\ UNCHANGED <<got, dropped>>
  BY <1>5 DEF PeerSends, PeerCloses, EraseConnection, netVars, histVars, ringVars
<1>6. CASE \E d \in Conns : ReadEvent(d)
  BY <1>6 DEF ReadEvent, histVars
<1>7. CASE UNCHANGED vars
  BY <1>7 DEF vars, netVars, histVars, ringVars
<1>8. QED
  BY <1>1, <1>2, <1>3, <1>4, <1>5, <1>6, <1>7 DEF Next, Network

LEMMA DeliveryStep ==
  RingTypeOK /\ RingInv /\ RecvInv /\ RestInv /\ PushInv /\ Delivery /\ [Next]_vars => Delivery'
<1> SUFFICES ASSUME RingTypeOK, RingInv, RecvInv, RestInv, PushInv, Delivery, [Next]_vars,
                    NEW c \in Conns
             PROVE  \E i \in 0 .. Sends[c] : StreamFrom(c, i)' /\ Deliver(c, Settled(c, i))'
  BY DEF Delivery
<1>1. PICK i \in 0 .. Sends[c] : StreamFrom(c, i) /\ Deliver(c, Settled(c, i))
  BY DEF Delivery
<1>2. CASE Pushing /\ PushMark
  <2>1. ~AfterPush
    BY <1>2 DEF AfterPush, PushMark
  <2>2. QED
    BY <1>1, <1>2, <2>1, StreamKept, MarkDelivers
<1>3. CASE GetPacket /\ PopMark
  <2>1. ~AfterPush
    BY <1>3 DEF AfterPush, PopMark, GetPacket, ringVars
  <2>2. QED
    BY <1>1, <1>3, <2>1, StreamKept, PopDelivers
<1>4. CASE AfterPush
  <2>1. UNCHANGED Contents
    BY <1>4, QuietStep DEF AfterPush
  <2>2. CASE c = cur
    <3>1. StreamFrom(c, i + 1)' /\ Deliver(c, Settled(c, i + 1))'
      BY <1>1, <1>4, <2>1, <2>2, NextPacket
    <3>2. i + 1 \in 0 .. Sends[c]
      BY <3>1 DEF StreamFrom
    <3>3. QED
      BY <3>1, <3>2
  <2>3. CASE c # cur
    <3>1. /\ UNCHANGED <<partial[c], buf, arrived, sent, got, dropped[c]>> /\ cur' = cur
      BY <1>4, <2>3 DEF AfterPush, connVars, RecvInv, BytesInv, RestInv
    <3>2. StreamFrom(c, i)'
      BY <1>1, <3>1 DEF StreamFrom
    <3>3. Settled(c, i)' = i /\ Settled(c, i) = i
      BY <2>3, <3>1 DEF Settled
    <3>4. Deliver(c, Settled(c, i))'
      BY <1>1, <2>1, <3>1, <3>3 DEF Deliver
    <3>5. QED
      BY <3>2, <3>4
  <2>4. QED
    BY <2>2, <2>3
<1>5. CASE ~(Pushing /\ PushMark) /\ ~(GetPacket /\ PopMark) /\ ~AfterPush
  <2>1. StreamFrom(c, i)'
    BY <1>1, <1>5, StreamKept
  <2>2. UNCHANGED Contents
    BY <1>5, QuietStepOfRing
  <2>3. Settled(c, i)' = Settled(c, i) /\ UNCHANGED <<got, dropped>>
    BY <1>5, QuietSettled
  <2>4. QED
    BY <1>1, <2>1, <2>2, <2>3, DeliverKept
<1>6. QED
  BY <1>2, <1>3, <1>4, <1>5

\* The inductive invariant.
RecvAll == RingTypeOK /\ RingInv /\ RecvInv /\ RestInv /\ PushInv /\ Delivery

LEMMA AllStart == Init => RecvAll
BY InvStart, RestStart, PushStart, DeliveryStart, TypesInit, InvInit DEF RecvAll, Init

LEMMA AllStep == RecvAll /\ [Next]_vars => RecvAll'
<1> SUFFICES ASSUME RecvAll, [Next]_vars PROVE RecvAll'
  OBVIOUS
<1> USE DEF RecvAll
<1>1. [RingNext]_ringVars
  BY RingSteps
<1>2. RingTypeOK' /\ RingInv'
  BY <1>1, TypesNext, InvNext
<1>3. RecvInv' /\ RestInv' /\ PushInv'
  BY InvStep, RestStep, PushStep
<1>4. Delivery'
  BY DeliveryStep
<1>5. QED
  BY <1>2, <1>3, <1>4

\* Between the socket and the ring no byte is lost, doubled or moved, however
\* recv cuts the stream, wherever the buffer was packed and whatever became of
\* the packets: parse begins every packet at its first byte.
THEOREM StreamsIntact == Spec => []StreamIntact
<1>1. RecvAll => StreamIntact
  BY DEF RecvAll, Delivery, StreamFrom, StreamIntact
<1>2. QED
  BY <1>1, AllStart, AllStep, PTL DEF Spec

\* dealTcpPackets gets the packets of a connection in the order in which they
\* were sent, each once; the missing ones are those that push has refused.
THEOREM PacketsInTurn == Spec => DeliveredInTurn
<1>1. RecvAll /\ [Next]_vars =>
        [popPc = "mark" /\ popPc' = "out" =>
           LET c == popItem[1]
               i == popItem[2]
           IN  /\ i > got[c] /\ i \notin dropped[c]
               /\ (got[c] + 1) .. (i - 1) \subseteq dropped[c]]_vars
  BY InTurnNow DEF RecvAll
<1>2. QED
  BY <1>1, AllStart, AllStep, PTL DEF Spec, DeliveredInTurn

=============================================================================
