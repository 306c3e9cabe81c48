--------------------------- MODULE GoldRoomsProofs ---------------------------
(***************************************************************************)
(* The rooms of the gold places, for any number of clients, places, seats  *)
(* and rooms: nobody loses his seat or has two, no game waits for nobody,  *)
(* and the rooms of a place never get more than their players could fill.  *)
(*                                                                         *)
(* What keeps the rooms few is not a property of one room: a new one is    *)
(* made only when all others of the place refuse the client, and each of   *)
(* those, being in play, in a ballot or full, holds two players of its own *)
(* (TwoInEach).  That needs the reset of rounds between two rounds, since  *)
(* a room that counted on would refuse clients when it is empty.           *)
(***************************************************************************)
EXTENDS GoldRooms, Lemmas, SequenceTheorems

RoomType ==
  [place  : Places,
   owner  : Clients \union {None},
   status : {"prepare", "quickStart", "play", "closed"},
   rounds : Nat,
   seat   : [Seats -> Clients \union {None}],
   st     : [Seats -> {"NONE", "PREP", "READY", "SORT", "COMPARE"}],
   vote   : [Seats -> {"NONE", "AYE", "NAY"}]]

TypeOK ==
  /\ rooms \in Seq(RoomType)
  /\ roomid \in [Clients -> 0..Len(rooms)]

\* A seat and the number tell the same of who sits where, and nobody has two seats.
SeatedOnce ==
  \A c \in Clients, r \in Rooms :
    /\ SitsIn(rooms[r], c) <=> roomid[c] = r
    /\ \A i, j \in Seats : rooms[r].seat[i] = c /\ rooms[r].seat[j] = c => i = j

TwoPlayers(g) == \E i, j \in ValidSeats(g) : i # j

InPlay(g) ==
  g.status = "play" => /\ \E i \in ValidSeats(g) : g.st[i] = "SORT"
                       /\ \A i \in Seats : g.st[i] \in {"SORT", "COMPARE"}

InBallot(g) ==
  /\ g.status = "quickStart" => /\ \E i \in ValidSeats(g) : g.vote[i] # "AYE"
                                /\ \A i \in Seats : g.vote[i] # "NAY"
  /\ g.status # "quickStart" => \A i \in Seats : g.vote[i] = "NONE"
  /\ \A i \in Seats : g.vote[i] # "NONE" => IsValid(g, i)

\* Before and between rounds no round is counted; and a room that plays or votes
\* has two players at least.
BetweenRounds(g) ==
  /\ g.status \in {"prepare", "quickStart"} => g.rounds = 0
  /\ g.status \in {"quickStart", "play"} => TwoPlayers(g)

GoodRoom(g) == InPlay(g) /\ InBallot(g) /\ BetweenRounds(g)

RoomsInv == TypeOK /\ SeatedOnce /\ \A r \in Rooms : GoodRoom(rooms[r])

-----------------------------------------------------------------------------
(*** One room ***)

\* h is what may become of the room g while the same players sit in it.
Kept(g, h) ==
  /\ h \in RoomType /\ GoodRoom(h)
  /\ h.seat = g.seat /\ h.place = g.place
  /\ g.status # "closed"

LEMMA SeatOfIs ==
  ASSUME NEW g, NEW c, SitsIn(g, c)
  PROVE  SeatOf(g, c) \in Seats /\ g.seat[SeatOf(g, c)] = c
BY DEF SeatOf, SitsIn

LEMMA NewRoomIs ==
  ASSUME NEW p \in Places, NEW c \in Clients \union {None}
  PROVE  /\ NewRoom(p, c) \in RoomType
         /\ GoodRoom(NewRoom(p, c))
         /\ CanEnter(NewRoom(p, c))
         /\ NewRoom(p, c).place = p /\ \A i \in Seats : NewRoom(p, c).seat[i] = None
<1>1. 1 \in Seats
  BY GoldAssumption DEF Seats
<1>2. QED
  BY <1>1 DEF NewRoom, RoomType, GoodRoom, InPlay, InBallot, BetweenRounds, CanEnter, EmptySeats

LEMMA EnteredIs ==
  ASSUME NEW g \in RoomType, GoodRoom(g), CanEnter(g), NEW c \in Clients
  PROVE  /\ Entered(g, c) \in RoomType /\ GoodRoom(Entered(g, c))
         /\ Entered(g, c).place = g.place /\ Entered(g, c).status = "prepare"
         /\ \E i \in Seats : /\ g.seat[i] = None
                             /\ Entered(g, c).seat = [g.seat EXCEPT ![i] = c]
<1>1. EmptySeats(g) \in SUBSET Nat /\ EmptySeats(g) # {}
  BY DEF EmptySeats, Seats, CanEnter
<1>2. PICK i \in Seats : i = Min(EmptySeats(g)) /\ g.seat[i] = None
  BY <1>1, MinIsLeast DEF EmptySeats
<1>3. Entered(g, c) = [g EXCEPT !.seat = [@ EXCEPT ![i] = c], !.st = [@ EXCEPT ![i] = "PREP"]]
  BY <1>2 DEF Entered
<1> DEFINE h == [g EXCEPT !.seat = [@ EXCEPT ![i] = c], !.st = [@ EXCEPT ![i] = "PREP"]]
<1>4. /\ h \in RoomType /\ h.place = g.place /\ h.status = "prepare" /\ h.rounds = 0 /\ h.vote = g.vote
      /\ h.seat = [g.seat EXCEPT ![i] = c]
  BY DEF RoomType, CanEnter
<1> HIDE DEF h
<1>5. \A j \in Seats : h.vote[j] = "NONE"
  BY <1>4 DEF GoodRoom, InBallot, CanEnter
<1>6. GoodRoom(h)
  BY <1>4, <1>5 DEF GoodRoom, InPlay, InBallot, BetweenRounds
<1>7. QED
  BY <1>2, <1>3, <1>4, <1>6 DEF h

LEMMA RemovedIs ==
  ASSUME NEW g \in RoomType, GoodRoom(g), g.status = "prepare", NEW c \in Clients, SitsIn(g, c)
  PROVE  /\ RemovePlayer(g, c) \in RoomType /\ GoodRoom(RemovePlayer(g, c))
         /\ RemovePlayer(g, c).place = g.place /\ RemovePlayer(g, c).status = "prepare"
         /\ RemovePlayer(g, c).seat = [g.seat EXCEPT ![SeatOf(g, c)] = None]
<1>1. SeatOf(g, c) \in Seats
  BY SeatOfIs
<1>2. QED
  BY <1>1 DEF RemovePlayer, RoomType, GoodRoom, InPlay, InBallot, BetweenRounds, IsValid

LEMMA DealtIsKept ==
  ASSUME NEW g \in RoomType, g.status # "closed", TwoPlayers(g), \A i \in Seats : g.vote[i] = "NONE"
  PROVE  Kept(g, Dealt(g))
<1> DEFINE h == Dealt(g)
<1>1. h \in RoomType
  <2>1. g.rounds + 1 \in Nat
    BY DEF RoomType
  <2>2. \A n \in Nat : [g EXCEPT !.status = "play", !.rounds = n, !.st = [i \in Seats |-> "SORT"]] \in RoomType
    BY DEF RoomType
  <2>3. QED
    BY <2>1, <2>2 DEF Dealt
<1>2. /\ h.seat = g.seat /\ h.place = g.place /\ h.vote = g.vote /\ h.status = "play"
      /\ \A i \in Seats : h.st[i] = "SORT"
  BY DEF Dealt, RoomType
<1> HIDE DEF h
<1>3. TwoPlayers(h) /\ InPlay(h)
  BY <1>2 DEF TwoPlayers, InPlay, ValidSeats, IsValid
<1>4. GoodRoom(h)
  BY <1>2, <1>3 DEF GoodRoom, InBallot, BetweenRounds
<1>5. QED
  BY <1>1, <1>2, <1>4 DEF Kept, h

LEMMA StartedIsKept ==
  ASSUME NEW g \in RoomType, GoodRoom(g), g.status = "prepare"
  PROVE  Kept(g, Started(g))
<1>1. 1 \in Seats /\ 2 \in Seats
  BY GoldAssumption DEF Seats
<1>2. CASE \A i \in Seats : IsValid(g, i) /\ g.st[i] = "READY"
  <2>1. TwoPlayers(g)
    BY <1>1, <1>2 DEF TwoPlayers, ValidSeats
  <2>2. \A i \in Seats : g.vote[i] = "NONE"
    BY DEF GoodRoom, InBallot
  <2>3. QED
    BY <1>2, <2>1, <2>2, DealtIsKept DEF Started
<1>3. CASE ~(\A i \in Seats : IsValid(g, i) /\ g.st[i] = "READY")
  BY <1>3 DEF Started, Kept
<1>4. QED
  BY <1>2, <1>3

LEMMA ReadyIsKept ==
  ASSUME NEW g \in RoomType, GoodRoom(g), g.status = "prepare", NEW i \in Seats, NEW s \in {"READY", "PREP"}
  PROVE  LET h == [g EXCEPT !.st[i] = s] IN Kept(g, h) /\ Kept(g, Started(h))
<1> DEFINE h == [g EXCEPT !.st[i] = s]
<1>1. h \in RoomType /\ GoodRoom(h) /\ h.status = "prepare" /\ h.seat = g.seat /\ h.place = g.place
  BY DEF RoomType, GoodRoom, InPlay, InBallot, BetweenRounds, TwoPlayers, ValidSeats, IsValid
<1> HIDE DEF h
<1>2. Kept(h, Started(h))
  BY <1>1, StartedIsKept
<1>3. Kept(g, h) /\ Kept(g, Started(h))
  BY <1>1, <1>2 DEF Kept
<1>4. QED
  BY <1>3 DEF h

LEMMA BroughtOutIsKept ==
  ASSUME NEW g \in RoomType, GoodRoom(g), g.status = "play", NEW i \in Seats
  PROVE  Kept(g, AfterCompare([g EXCEPT !.st[i] = "COMPARE"]))
<1> DEFINE h == [g EXCEPT !.st[i] = "COMPARE"]
<1>1. /\ h \in RoomType /\ h.seat = g.seat /\ h.place = g.place /\ h.status = "play" /\ h.vote = g.vote
      /\ \A j \in Seats : h.st[j] \in {"SORT", "COMPARE"}
  BY DEF RoomType, GoodRoom, InPlay
<1>2. InBallot(h) /\ TwoPlayers(h)
  BY DEF RoomType, GoodRoom, InBallot, BetweenRounds, TwoPlayers, ValidSeats, IsValid
<1> HIDE DEF h
<1>3. CASE \A j \in ValidSeats(h) : h.st[j] = "COMPARE"
  <2>1. Settled(h) \in RoomType /\ GoodRoom(Settled(h)) /\ Settled(h).seat = h.seat /\ Settled(h).place = h.place
    BY <1>1, <1>2 DEF Settled, RoomType, GoodRoom, InPlay, InBallot, BetweenRounds, IsValid
  <2>2. QED
    BY <1>1, <1>3, <2>1 DEF AfterCompare, Kept, h
<1>4. CASE ~(\A j \in ValidSeats(h) : h.st[j] = "COMPARE")
  <2>1. GoodRoom(h)
    BY <1>1, <1>2, <1>4 DEF GoodRoom, InPlay, BetweenRounds, ValidSeats
  <2>2. QED
    BY <1>1, <1>4, <2>1 DEF AfterCompare, Kept, h
<1>5. QED
  BY <1>3, <1>4

\* A vote is given by a player, in a ballot that goes on or begins.
LEMMA VoteIsKept ==
  ASSUME NEW g \in RoomType, g.status = "quickStart", TwoPlayers(g), g.rounds = 0,
         \A i \in Seats : g.vote[i] # "NAY" /\ (g.vote[i] # "NONE" => IsValid(g, i)),
         NEW c \in Clients, SitsIn(g, c), NEW v \in {"NONE", "AYE", "NAY"}
  PROVE  LET h == [g EXCEPT !.vote[SeatOf(g, c)] = v] IN
         /\ v = "NONE" => Kept(g, h)
         /\ v # "NONE" => Kept(g, VotesCounted(h))
<1> DEFINE i == SeatOf(g, c)
           h == [g EXCEPT !.vote[i] = v]
<1>1. i \in Seats /\ IsValid(g, i)
  BY SeatOfIs, GoldAssumption DEF IsValid
<1> HIDE DEF i
<1>2. /\ h \in RoomType /\ h.seat = g.seat /\ h.place = g.place /\ h.status = "quickStart" /\ h.rounds = 0
      /\ h.vote = [g.vote EXCEPT ![i] = v]
  BY <1>1 DEF RoomType
<1>3. TwoPlayers(h) /\ ValidSeats(h) = ValidSeats(g)
  BY <1>2 DEF TwoPlayers, ValidSeats, IsValid
<1>4. \A j \in Seats : h.vote[j] # "NONE" => j \in ValidSeats(h)
  BY <1>1, <1>2 DEF RoomType, ValidSeats, IsValid
<1>5. h.vote \in [Seats -> {"NONE", "AYE", "NAY"}] /\ h.vote[i] = v /\ i \in ValidSeats(h)
  BY <1>1, <1>2, <1>3 DEF RoomType, ValidSeats
<1>6. \A j \in Seats : h.vote[j] = "NAY" => j = i
  BY <1>1, <1>2 DEF RoomType
<1> HIDE DEF h
<1>7. CASE v = "NONE"
  <2>1. GoodRoom(h)
    BY <1>2, <1>3, <1>4, <1>5, <1>6, <1>7 DEF GoodRoom, InPlay, InBallot, BetweenRounds, ValidSeats
  <2>2. QED
    BY <2>1, <1>2, <1>7 DEF Kept, h, i
<1>8. CASE v # "NONE"
  <2> DEFINE w == WithoutVotes(h, ValidSeats(h))
  <2>1. w = [h EXCEPT !.vote = [j \in Seats |-> "NONE"]]
    BY <1>4, <1>5 DEF WithoutVotes
  <2>2. w \in RoomType /\ w.seat = h.seat /\ w.place = h.place /\ w.status = "quickStart" /\ w.rounds = 0
        /\ \A j \in Seats : w.vote[j] = "NONE"
    BY <2>1, <1>2 DEF RoomType
  <2>3. TwoPlayers(w)
    BY <2>2, <1>3 DEF TwoPlayers, ValidSeats, IsValid
  <2> HIDE DEF w
  <2>4. CASE \E j \in ValidSeats(h) : h.vote[j] = "NAY"
    <3>1. LET x == [w EXCEPT !.status = "prepare"] IN
          x \in RoomType /\ GoodRoom(x) /\ x.seat = h.seat /\ x.place = h.place
      BY <2>2 DEF RoomType, GoodRoom, InPlay, InBallot, BetweenRounds, IsValid
    <3>2. VotesCounted(h) = [w EXCEPT !.status = "prepare"]
      BY <2>4 DEF VotesCounted, w
    <3>3. QED
      BY <3>1, <3>2, <1>2, <1>8 DEF Kept, h, i
  <2>5. CASE EverybodyAgrees(h) /\ ~(\E j \in ValidSeats(h) : h.vote[j] = "NAY")
    <3>1. Kept(w, Dealt(w))
      BY <2>2, <2>3, DealtIsKept
    <3>2. VotesCounted(h) = Dealt(w)
      BY <2>5 DEF VotesCounted, w
    <3>3. QED
      BY <3>1, <3>2, <2>2, <1>2, <1>8 DEF Kept, h, i
  <2>6. CASE ~EverybodyAgrees(h) /\ ~(\E j \in ValidSeats(h) : h.vote[j] = "NAY")
    <3>1. VotesCounted(h) = h
      BY <2>6 DEF VotesCounted
    <3>2. \A j \in Seats : h.vote[j] # "NAY"
      BY <2>6, <1>4
    <3>3. GoodRoom(h)
      BY <1>2, <1>3, <1>4, <2>6, <3>2 DEF GoodRoom, InPlay, InBallot, BetweenRounds, ValidSeats, EverybodyAgrees
    <3>4. QED
      BY <3>1, <3>3, <1>2, <1>8 DEF Kept, h, i
  <2>7. QED
    BY <2>4, <2>5, <2>6
<1>9. QED
  BY <1>7, <1>8 DEF h, i

-----------------------------------------------------------------------------
(*** The steps ***)

\* A room changes while nobody enters or leaves it.
LEMMA KeptStep ==
  ASSUME RoomsInv, NEW r \in Rooms, NEW h, Kept(rooms[r], h),
         rooms' = [rooms EXCEPT ![r] = h], UNCHANGED roomid
  PROVE  RoomsInv'
<1>1. rooms' \in Seq(RoomType) /\ Len(rooms') = Len(rooms)
  BY DEF RoomsInv, TypeOK, Kept, Rooms
<1>2. Rooms' = Rooms /\ rooms'[r] = h /\ \A q \in Rooms : q # r => rooms'[q] = rooms[q]
  BY <1>1 DEF RoomsInv, TypeOK, Rooms
<1>3. \A q \in Rooms : rooms'[q].seat = rooms[q].seat
  BY <1>2 DEF Kept
<1>4. SeatedOnce'
  BY <1>2, <1>3 DEF RoomsInv, SeatedOnce, SitsIn
<1>5. \A q \in Rooms' : GoodRoom(rooms'[q])
  BY <1>2 DEF RoomsInv, Kept
<1>6. TypeOK'
  BY <1>1 DEF RoomsInv, TypeOK
<1>7. QED
  BY <1>4, <1>5, <1>6 DEF RoomsInv

\* A client without a room enters an old or a new one, the number of which is r.
LEMMA EnterStep ==
  ASSUME RoomsInv, NEW c \in Clients, roomid[c] = 0, NEW r \in Nat \ {0}, NEW g, NEW h,
         g \in RoomType, h \in RoomType, GoodRoom(h),
         \E i \in Seats : g.seat[i] = None /\ h.seat = [g.seat EXCEPT ![i] = c],
         \/ r \in Rooms /\ g = rooms[r] /\ rooms' = [rooms EXCEPT ![r] = h]
         \/ r = Len(rooms) + 1 /\ rooms' = Append(rooms, h) /\ \A i \in Seats : g.seat[i] = None,
         roomid' = [roomid EXCEPT ![c] = r]
  PROVE  RoomsInv'
<1>1. /\ rooms' \in Seq(RoomType) /\ r \in 1..Len(rooms')
      /\ Len(rooms') >= Len(rooms) /\ \A q \in 1..Len(rooms') : q # r => q \in Rooms
      /\ rooms'[r] = h /\ \A q \in Rooms : q # r => rooms'[q] = rooms[q]
  <2>1. rooms \in Seq(RoomType) /\ Len(rooms) \in Nat
    BY DEF RoomsInv, TypeOK
  <2>2. CASE r \in Rooms /\ rooms' = [rooms EXCEPT ![r] = h]
    BY <2>1, <2>2 DEF Rooms
  <2>3. CASE r = Len(rooms) + 1 /\ rooms' = Append(rooms, h)
    <3>1. /\ rooms' \in Seq(RoomType) /\ Len(rooms') = Len(rooms) + 1
          /\ rooms'[r] = h /\ \A q \in 1..Len(rooms) : rooms'[q] = rooms[q]
      BY <2>1, <2>3, AppendProperties
    <3>2. QED
      BY <2>1, <2>3, <3>1 DEF Rooms
  <2>4. QED
    BY <2>2, <2>3
<1>2. TypeOK'
  BY <1>1 DEF RoomsInv, TypeOK
<1>3. PICK i \in Seats : g.seat[i] = None /\ h.seat = [g.seat EXCEPT ![i] = c]
  OBVIOUS
<1>4. \A d \in Clients : SitsIn(g, d) <=> roomid[d] = r
  BY GoldAssumption DEF RoomsInv, SeatedOnce, TypeOK, Rooms, SitsIn
<1>5. \A d \in Clients, j, k \in Seats : g.seat[j] = d /\ g.seat[k] = d => j = k
  BY GoldAssumption DEF RoomsInv, SeatedOnce
<1>6. h.seat[i] = c /\ \A j \in Seats : j # i => h.seat[j] = g.seat[j]
  BY <1>3 DEF RoomType
<1>7. ~SitsIn(g, c)
  BY <1>4
<1>8. ASSUME NEW d \in Clients
      PROVE  /\ SitsIn(h, d) <=> roomid'[d] = r
             /\ \A j, k \in Seats : h.seat[j] = d /\ h.seat[k] = d => j = k
  <2>1. SitsIn(h, d) <=> (d = c \/ SitsIn(g, d))
    BY <1>3, <1>6, GoldAssumption DEF SitsIn
  <2>2. roomid'[d] = r <=> (d = c \/ roomid[d] = r)
    BY DEF RoomsInv, TypeOK
  <2>3. \A j, k \in Seats : h.seat[j] = d /\ h.seat[k] = d => j = k
    BY <1>5, <1>6, <1>7 DEF SitsIn
  <2>4. QED
    BY <2>1, <2>2, <2>3, <1>4
<1>9. ASSUME NEW d \in Clients, NEW q \in Rooms', q # r
      PROVE  /\ SitsIn(rooms'[q], d) <=> roomid'[d] = q
             /\ \A j, k \in Seats : rooms'[q].seat[j] = d /\ rooms'[q].seat[k] = d => j = k
  <2>1. q \in Rooms /\ rooms'[q] = rooms[q]
    BY <1>1, <1>9 DEF Rooms
  <2>2. roomid'[d] = q <=> roomid[d] = q
    BY <1>9, <2>1 DEF RoomsInv, TypeOK, Rooms
  <2>3. QED
    BY <2>1, <2>2 DEF RoomsInv, SeatedOnce
<1>10. SeatedOnce'
  <2>1. SUFFICES ASSUME NEW d \in Clients, NEW q \in Rooms'
                 PROVE  /\ SitsIn(rooms'[q], d) <=> roomid'[d] = q
                        /\ \A j, k \in Seats : rooms'[q].seat[j] = d /\ rooms'[q].seat[k] = d => j = k
    BY DEF SeatedOnce, SitsIn
  <2>2. CASE q = r
    <3>1. rooms'[q] = h
      BY <1>1, <2>2
    <3>2. QED
      BY <3>1, <1>8, <2>2, ZenonT(60)
  <2>3. CASE q # r
    BY <1>9, <2>3 DEF SitsIn
  <2>4. QED
    BY <2>2, <2>3
<1>11. \A q \in Rooms' : GoodRoom(rooms'[q])
  BY <1>1 DEF RoomsInv, Rooms
<1>12. QED
  BY <1>2, <1>10, <1>11 DEF RoomsInv

LEMMA MatchRoomStep ==
  ASSUME RoomsInv, NEW c \in Clients, NEW p \in Places, MatchRoom(c, p)
  PROVE  RoomsInv'
<1> DEFINE open == {r \in Rooms : rooms[r].place = p /\ CanEnter(rooms[r])}
<1>1. CASE open # {} /\ Enter(c, Min(open))
  <2>1. Min(open) \in open
    <3>1. open \in SUBSET Nat
      BY DEF Rooms
    <3>2. QED
      BY <3>1, <1>1, MinIsLeast
  <2> DEFINE r == Min(open)
  <2>2. r \in Rooms /\ r \in Nat \ {0} /\ CanEnter(rooms[r]) /\ rooms[r] \in RoomType /\ GoodRoom(rooms[r])
    BY <2>1 DEF Rooms, RoomsInv, TypeOK
  <2>3. /\ roomid[c] = 0 /\ rooms' = [rooms EXCEPT ![r] = Entered(rooms[r], c)]
        /\ roomid' = [roomid EXCEPT ![c] = r]
    BY <1>1 DEF Enter, MatchRoom
  <2> HIDE DEF r
  <2>4. \E i \in Seats : rooms[r].seat[i] = None /\ Entered(rooms[r], c).seat = [rooms[r].seat EXCEPT ![i] = c]
    BY <2>2, EnteredIs
  <2>5. Entered(rooms[r], c) \in RoomType /\ GoodRoom(Entered(rooms[r], c))
    BY <2>2, EnteredIs
  <2>6. QED
    BY <2>2, <2>3, <2>4, <2>5, EnterStep
<1>2. CASE /\ open = {} /\ rooms' = Append(rooms, Entered(NewRoom(p, c), c))
           /\ roomid' = [roomid EXCEPT ![c] = Len(rooms) + 1]
  <2>1. Len(rooms) + 1 \in Nat \ {0} /\ roomid[c] = 0
    BY DEF RoomsInv, TypeOK, MatchRoom
  <2> DEFINE g == NewRoom(p, c)
             h == Entered(g, c)
             r == Len(rooms) + 1
  <2>2. g \in RoomType /\ GoodRoom(g) /\ CanEnter(g) /\ \A i \in Seats : g.seat[i] = None
    BY NewRoomIs
  <2> HIDE DEF g
  <2>3. h \in RoomType /\ GoodRoom(h) /\ \E i \in Seats : g.seat[i] = None /\ h.seat = [g.seat EXCEPT ![i] = c]
    BY <2>2, EnteredIs
  <2>4. rooms' = Append(rooms, h) /\ roomid' = [roomid EXCEPT ![c] = r]
    BY <1>2 DEF g
  <2> HIDE DEF h
  <2>5. QED
    BY <2>1, <2>2, <2>3, <2>4, EnterStep
<1>3. QED
  BY <1>1, <1>2 DEF MatchRoom

LEMMA JoinGameStep ==
  ASSUME RoomsInv, NEW c \in Clients, NEW r \in Rooms, JoinGame(c, r)
  PROVE  RoomsInv'
<1>1. r \in Nat \ {0} /\ rooms[r] \in RoomType /\ GoodRoom(rooms[r])
  BY DEF Rooms, RoomsInv, TypeOK
<1>2. /\ Entered(rooms[r], c) \in RoomType /\ GoodRoom(Entered(rooms[r], c))
      /\ \E i \in Seats : rooms[r].seat[i] = None /\ Entered(rooms[r], c).seat = [rooms[r].seat EXCEPT ![i] = c]
  BY <1>1, EnteredIs DEF JoinGame
<1>3. /\ roomid[c] = 0 /\ rooms' = [rooms EXCEPT ![r] = Entered(rooms[r], c)]
      /\ roomid' = [roomid EXCEPT ![c] = r]
  BY DEF JoinGame, Enter
<1>4. QED
  BY <1>1, <1>2, <1>3, EnterStep

LEMMA GameOf ==
  ASSUME RoomsInv, NEW c \in Clients, roomid[c] # 0
  PROVE  /\ roomid[c] \in Rooms /\ Game(c) \in RoomType /\ GoodRoom(Game(c)) /\ SitsIn(Game(c), c)
         /\ SeatOf(Game(c), c) \in Seats /\ Game(c).seat[SeatOf(Game(c), c)] = c
<1>1. roomid[c] \in Rooms
  BY DEF RoomsInv, TypeOK, Rooms
<1>2. Game(c) \in RoomType /\ GoodRoom(Game(c)) /\ SitsIn(Game(c), c)
  BY <1>1 DEF RoomsInv, TypeOK, SeatedOnce, Game, Rooms
<1>3. QED
  BY <1>1, <1>2, SeatOfIs

LEMMA GiveUpStep ==
  ASSUME RoomsInv, NEW c \in Clients, GiveUp(c)
  PROVE  RoomsInv'
<1> DEFINE r == roomid[c]
           g == rooms[r]
           h == RemovePlayer(g, c)
           i == SeatOf(g, c)
<1>1. /\ r \in Rooms /\ g \in RoomType /\ GoodRoom(g) /\ SitsIn(g, c) /\ i \in Seats /\ g.seat[i] = c
      /\ g.status = "prepare"
  BY GameOf DEF GiveUp, Game
<1>2. h \in RoomType /\ GoodRoom(h) /\ h.seat = [g.seat EXCEPT ![i] = None]
  BY <1>1, RemovedIs
<1>3. rooms' = [rooms EXCEPT ![r] = h] /\ roomid' = [roomid EXCEPT ![c] = 0]
  BY DEF GiveUp
<1> HIDE DEF h, i
<1>4. /\ rooms' \in Seq(RoomType) /\ Len(rooms') = Len(rooms) /\ rooms'[r] = h
      /\ \A q \in Rooms : q # r => rooms'[q] = rooms[q]
  BY <1>1, <1>2, <1>3 DEF RoomsInv, TypeOK, Rooms
<1>5. TypeOK' /\ Rooms' = Rooms
  BY <1>3, <1>4 DEF RoomsInv, TypeOK, Rooms
<1>6. h.seat[i] = None /\ \A j \in Seats : j # i => h.seat[j] = g.seat[j]
  BY <1>1, <1>2 DEF RoomType
<1>7. \A d \in Clients : /\ SitsIn(g, d) <=> roomid[d] = r
                         /\ \A j, k \in Seats : g.seat[j] = d /\ g.seat[k] = d => j = k
  BY <1>1 DEF RoomsInv, SeatedOnce
<1> HIDE DEF g
<1>8. ASSUME NEW d \in Clients
      PROVE  /\ SitsIn(h, d) <=> roomid'[d] = r
             /\ \A j, k \in Seats : h.seat[j] = d /\ h.seat[k] = d => j = k
  <2>1. SitsIn(h, d) <=> (d # c /\ SitsIn(g, d))
    BY <1>1, <1>6, <1>7, GoldAssumption DEF SitsIn
  <2>2. roomid'[d] = r <=> (d # c /\ roomid[d] = r)
    BY <1>1, <1>3 DEF RoomsInv, TypeOK, Rooms
  <2>3. \A j, k \in Seats : h.seat[j] = d /\ h.seat[k] = d => j = k
    BY <1>6, <1>7, GoldAssumption
  <2>4. QED
    BY <2>1, <2>2, <2>3, <1>7
<1>9. ASSUME NEW d \in Clients, NEW q \in Rooms, q # r
      PROVE  /\ SitsIn(rooms'[q], d) <=> roomid'[d] = q
             /\ \A j, k \in Seats : rooms'[q].seat[j] = d /\ rooms'[q].seat[k] = d => j = k
  <2>1. roomid'[d] = q <=> roomid[d] = q
    BY <1>1, <1>3, <1>9 DEF RoomsInv, TypeOK, Rooms
  <2>2. QED
    BY <2>1, <1>4, <1>9 DEF RoomsInv, SeatedOnce
<1>10. SeatedOnce'
  BY <1>4, <1>5, <1>8, <1>9 DEF SeatedOnce
<1>11. \A q \in Rooms' : GoodRoom(rooms'[q])
  BY <1>2, <1>4, <1>5 DEF RoomsInv
<1>12. QED
  BY <1>5, <1>10, <1>11 DEF RoomsInv

LEMMA DismissRoomStep ==
  ASSUME RoomsInv, NEW r \in Rooms, DismissRoom(r)
  PROVE  RoomsInv'
<1> DEFINE g == rooms[r]
           h == [NewRoom(g.place, None) EXCEPT !.status = "closed"]
<1>1. g \in RoomType /\ GoodRoom(g)
  BY DEF RoomsInv, TypeOK, Rooms
<1>2. h \in RoomType /\ GoodRoom(h) /\ \A i \in Seats : h.seat[i] = None
  BY <1>1 DEF NewRoom, RoomType, GoodRoom, InPlay, InBallot, BetweenRounds
<1>3. rooms' = [rooms EXCEPT ![r] = h] /\ roomid' = [c \in Clients |-> IF SitsIn(g, c) THEN 0 ELSE roomid[c]]
  BY DEF DismissRoom, RoomsInv, TypeOK, Rooms
<1> HIDE DEF h
<1>4. /\ rooms' \in Seq(RoomType) /\ Len(rooms') = Len(rooms) /\ rooms'[r] = h
      /\ \A q \in Rooms : q # r => rooms'[q] = rooms[q]
  BY <1>1, <1>2, <1>3 DEF RoomsInv, TypeOK, Rooms
<1>5. TypeOK' /\ Rooms' = Rooms
  BY <1>3, <1>4 DEF RoomsInv, TypeOK, Rooms
<1>6. \A d \in Clients : SitsIn(g, d) <=> roomid[d] = r
  BY <1>1 DEF RoomsInv, SeatedOnce
<1> HIDE DEF g
<1>7. ASSUME NEW d \in Clients
      PROVE  /\ SitsIn(h, d) <=> roomid'[d] = r
             /\ \A j, k \in Seats : h.seat[j] = d /\ h.seat[k] = d => j = k
  <2>1. ~SitsIn(h, d) /\ \A j \in Seats : h.seat[j] # d
    BY <1>2, GoldAssumption DEF SitsIn
  <2>2. roomid'[d] # r
    BY <1>3, <1>6 DEF Rooms
  <2>3. QED
    BY <2>1, <2>2
<1>8. ASSUME NEW d \in Clients, NEW q \in Rooms, q # r
      PROVE  /\ SitsIn(rooms'[q], d) <=> roomid'[d] = q
             /\ \A j, k \in Seats : rooms'[q].seat[j] = d /\ rooms'[q].seat[k] = d => j = k
  <2>1. roomid'[d] = q <=> roomid[d] = q
    BY <1>3, <1>6, <1>8 DEF Rooms
  <2>2. QED
    BY <2>1, <1>4, <1>8 DEF RoomsInv, SeatedOnce
<1>9. SeatedOnce'
  BY <1>4, <1>5, <1>7, <1>8 DEF SeatedOnce
<1>10. \A q \in Rooms' : GoodRoom(rooms'[q])
  BY <1>2, <1>4, <1>5 DEF RoomsInv
<1>11. QED
  BY <1>5, <1>9, <1>10 DEF RoomsInv

LEMMA InvInit ==
  ASSUME Init
  PROVE  RoomsInv
BY DEF Init, RoomsInv, TypeOK, SeatedOnce, Rooms

\* What happens in a room without anybody's entering or leaving it
Stays ==
  \E r \in Rooms, h \in RoomType : /\ Kept(rooms[r], h)
                                 /\ rooms' = [rooms EXCEPT ![r] = h]
                                 /\ UNCHANGED roomid

LEMMA StepsOfAGame ==
  ASSUME RoomsInv, [Next]_vars
  PROVE  \/ \E c \in Clients, p \in Places : MatchRoom(c, p)
         \/ \E c \in Clients, r \in Rooms : JoinGame(c, r)
         \/ \E c \in Clients : GiveUp(c)
         \/ \E r \in Rooms : DismissRoom(r)
         \/ Stays
         \/ UNCHANGED vars
<1>1. ASSUME NEW c \in Clients, BringOut(c)
      PROVE  Stays
  <2> DEFINE h == AfterCompare([Game(c) EXCEPT !.st[SeatOf(Game(c), c)] = "COMPARE"])
  <2>1. roomid[c] # 0 /\ Game(c).status = "play" /\ SetGame(c, h)
    BY <1>1 DEF BringOut
  <2>2. Kept(Game(c), h) /\ roomid[c] \in Rooms
    BY <2>1, GameOf, BroughtOutIsKept
  <2> HIDE DEF h
  <2>3. QED
    BY <2>1, <2>2 DEF Stays, SetGame, Game, Kept
<1>2. ASSUME NEW c \in Clients, NEW ready \in BOOLEAN, ReadyFlag(c, ready)
      PROVE  Stays
  <2> DEFINE i == SeatOf(Game(c), c)
             h == Started([Game(c) EXCEPT !.st[i] = "READY"])
             k == [Game(c) EXCEPT !.st[i] = "PREP"]
  <2>1. roomid[c] # 0 /\ Game(c).status = "prepare" /\ (SetGame(c, h) \/ SetGame(c, k))
    BY <1>2 DEF ReadyFlag
  <2>2. Kept(Game(c), h) /\ Kept(Game(c), k) /\ roomid[c] \in Rooms
    BY <2>1, GameOf, ReadyIsKept
  <2> HIDE DEF h, k
  <2>3. QED
    BY <2>1, <2>2 DEF Stays, SetGame, Game, Kept
<1>3. ASSUME NEW c \in Clients, QuickStart(c)
      PROVE  Stays
  <2> DEFINE g == Game(c)
             b == [g EXCEPT !.status = "quickStart"]
             h == Voted(b, c, "AYE")
  <2>1. /\ roomid[c] \in Rooms /\ g \in RoomType /\ GoodRoom(g) /\ SitsIn(g, c)
    BY <1>3, GameOf DEF QuickStart
  <2>2. SetGame(c, h)
    BY <1>3 DEF QuickStart
  <2>3. TwoPlayers(g) /\ g.status \in {"prepare", "quickStart"}
    <3>1. CASE g.status = "quickStart"
      BY <3>1, <2>1 DEF GoodRoom, BetweenRounds
    <3>2. CASE g.status = "prepare" /\ Cardinality(ValidSeats(g)) >= 2
      <4>1. ASSUME ~TwoPlayers(g)
            PROVE  ValidSeats(g) = {} \/ \E i : ValidSeats(g) = {i}
        BY <4>1 DEF TwoPlayers
      <4>2. Cardinality({}) = 0 /\ \A i : Cardinality({i}) = 1
        BY FS_EmptySet, FS_Singleton
      <4>3. QED
        BY <3>2, <4>1, <4>2
    <3>3. QED
      BY <3>1, <3>2, <1>3 DEF QuickStart
  <2>4. /\ b \in RoomType /\ b.status = "quickStart" /\ b.rounds = 0 /\ b.seat = g.seat /\ b.vote = g.vote
        /\ b.place = g.place
    BY <2>1, <2>3 DEF RoomType, GoodRoom, BetweenRounds
  <2>5. \A i \in Seats : g.vote[i] # "NAY" /\ (g.vote[i] # "NONE" => IsValid(g, i))
    BY <2>1 DEF GoodRoom, InBallot
  <2> HIDE DEF g, b
  <2>6. TwoPlayers(b) /\ SitsIn(b, c) /\ \A i \in Seats : b.vote[i] # "NAY" /\ (b.vote[i] # "NONE" => IsValid(b, i))
    BY <2>1, <2>3, <2>4, <2>5 DEF TwoPlayers, SitsIn, ValidSeats, IsValid
  <2>7. Kept(b, h)
    BY <2>4, <2>6, VoteIsKept DEF Voted
  <2> HIDE DEF h
  <2>8. Kept(g, h)
    BY <2>3, <2>4, <2>7 DEF Kept
  <2>9. QED
    BY <2>1, <2>2, <2>8 DEF Stays, SetGame, Game, Kept, g
<1>4. ASSUME NEW c \in Clients, NEW v \in {"NONE", "AYE", "NAY"}, VoteForQuickStart(c, v)
      PROVE  Stays
  <2> DEFINE g == Game(c)
             k == [g EXCEPT !.vote[SeatOf(g, c)] = v]
             h == IF v = "NONE" THEN k ELSE VotesCounted(k)
  <2>1. roomid[c] # 0 /\ g.status = "quickStart" /\ SetGame(c, h)
    BY <1>4 DEF VoteForQuickStart, Voted
  <2>2. roomid[c] \in Rooms /\ g \in RoomType /\ GoodRoom(g) /\ SitsIn(g, c)
    BY <2>1, GameOf
  <2>3. /\ TwoPlayers(g) /\ g.rounds = 0
        /\ \A i \in Seats : g.vote[i] # "NAY" /\ (g.vote[i] # "NONE" => IsValid(g, i))
    BY <2>1, <2>2 DEF GoodRoom, BetweenRounds, InBallot
  <2> HIDE DEF g
  <2>4. Kept(g, h)
    BY <2>1, <2>2, <2>3, VoteIsKept
  <2> HIDE DEF h
  <2>5. QED
    BY <2>1, <2>2, <2>4 DEF Stays, SetGame, Game, Kept, g
<1>5. ASSUME NEW r \in Rooms, TimerQuickStart(r)
      PROVE  Stays
  <2> DEFINE g == rooms[r]
             w == WithoutVotes(g, Seats)
  <2>1. g \in RoomType /\ GoodRoom(g) /\ g.status = "quickStart" /\ TwoPlayers(g)
    BY <1>5 DEF RoomsInv, TypeOK, Rooms, TimerQuickStart, GoodRoom, BetweenRounds
  <2>2. rooms' = [rooms EXCEPT ![r] = Dealt(w)] /\ UNCHANGED roomid
    BY <1>5 DEF TimerQuickStart, SetRoom
  <2> HIDE DEF g
  <2>3. /\ w \in RoomType /\ w.seat = g.seat /\ w.place = g.place /\ w.status = "quickStart"
        /\ \A i \in Seats : w.vote[i] = "NONE"
    BY <2>1 DEF WithoutVotes, RoomType
  <2> HIDE DEF w
  <2>4. TwoPlayers(w)
    BY <2>1, <2>3 DEF TwoPlayers, ValidSeats, IsValid
  <2>5. Kept(g, Dealt(w))
    BY <2>1, <2>3, <2>4, DealtIsKept DEF Kept
  <2>6. QED
    BY <2>2, <2>5 DEF Stays, Kept, g
<1>6. QED
  BY <1>1, <1>2, <1>3, <1>4, <1>5 DEF Next, Timer

LEMMA InvNext ==
  ASSUME RoomsInv, [Next]_vars
  PROVE  RoomsInv'
<1>1. ASSUME NEW c \in Clients, NEW p \in Places, MatchRoom(c, p)
      PROVE  RoomsInv'
  BY <1>1, MatchRoomStep
<1>2. ASSUME NEW c \in Clients, NEW r \in Rooms, JoinGame(c, r)
      PROVE  RoomsInv'
  BY <1>2, JoinGameStep
<1>3. ASSUME NEW c \in Clients, GiveUp(c)
      PROVE  RoomsInv'
  BY <1>3, GiveUpStep
<1>4. ASSUME NEW r \in Rooms, DismissRoom(r)
      PROVE  RoomsInv'
  BY <1>4, DismissRoomStep
<1>5. CASE Stays
  BY <1>5, KeptStep DEF Stays
<1>6. CASE UNCHANGED vars
  BY <1>6 DEF vars, RoomsInv, TypeOK, SeatedOnce, Rooms
<1>7. QED
  BY <1>1, <1>2, <1>3, <1>4, <1>5, <1>6, StepsOfAGame

\* Every room is as it should be in its phase, and the numbers that the clients
\* have agree with the seats (RoomsInv), whatever they and the timer do.
THEOREM RoomsAreGood == Spec => []RoomsInv
<1>1. Init => RoomsInv
  BY InvInit
<1>2. RoomsInv /\ [Next]_vars => RoomsInv'
  BY InvNext
<1>3. QED
  BY <1>1, <1>2, PTL DEF Spec

\* A client sits in the room whose number he has, once, and in no other.
THEOREM SeatsCorrect == Spec => []SeatsAgree
<1>1. RoomsInv => SeatsAgree
  <2>1. SUFFICES ASSUME RoomsInv, NEW c \in Clients, NEW r \in Rooms
                 PROVE  Cardinality({i \in Seats : rooms[r].seat[i] = c}) = IF roomid[c] = r THEN 1 ELSE 0
    BY DEF SeatsAgree
  <2> DEFINE his == {i \in Seats : rooms[r].seat[i] = c}
  <2>2. CASE roomid[c] = r
    <3>1. PICK i \in Seats : his = {i}
      BY <2>1, <2>2 DEF RoomsInv, SeatedOnce, SitsIn
    <3>2. Cardinality({i}) = 1
      BY FS_Singleton
    <3>3. QED
      BY <2>2, <3>1, <3>2
  <2>3. CASE roomid[c] # r
    <3>1. his = {}
      BY <2>1, <2>3 DEF RoomsInv, SeatedOnce, SitsIn
    <3>2. QED
      BY <2>3, <3>1, FS_EmptySet
  <2>4. QED
    BY <2>2, <2>3
<1>2. QED
  BY <1>1, RoomsAreGood, PTL

\* A room in play waits for a player who can bring out, one in a ballot for a
\* player who can vote.
THEOREM NothingEverSticks == Spec => []NothingIsStuck
<1>1. RoomsInv => NothingIsStuck
  BY DEF RoomsInv, GoodRoom, InPlay, InBallot, NothingIsStuck
<1>2. QED
  BY <1>1, RoomsAreGood, PTL

-----------------------------------------------------------------------------
(*** The number of the rooms ***)

OpenedOf(p) == {r \in Rooms : rooms[r].place = p /\ rooms[r].status # "closed"}

\* Two players in each of many rooms are as many players as twice the rooms.
LEMMA TwoInEach ==
  ASSUME RoomsInv, NEW R \in SUBSET Rooms, \A r \in R : TwoPlayers(rooms[r]), NEW c \in Clients, roomid[c] = 0
  PROVE  /\ IsFiniteSet(R) /\ Cardinality(R) \in Nat /\ Cardinality(Clients) \in Nat
         /\ 2 * Cardinality(R) <= Cardinality(Clients) - 1
<1> DEFINE first(r)  == CHOOSE i \in ValidSeats(rooms[r]) : TRUE
           second(r) == CHOOSE i \in ValidSeats(rooms[r]) : i # first(r)
           f == [x \in R \X {1, 2} |-> rooms[x[1]].seat[IF x[2] = 1 THEN first(x[1]) ELSE second(x[1])]]
<1>1. ASSUME NEW r \in R
      PROVE  /\ first(r) \in Seats /\ second(r) \in Seats /\ first(r) # second(r)
             /\ IsValid(rooms[r], first(r)) /\ IsValid(rooms[r], second(r))
  <2>1. PICK i, j \in ValidSeats(rooms[r]) : i # j
    BY DEF TwoPlayers
  <2>2. first(r) \in ValidSeats(rooms[r])
    BY <2>1
  <2> HIDE DEF first
  <2>3. \E k \in ValidSeats(rooms[r]) : k # first(r)
    BY <2>1
  <2>4. second(r) \in ValidSeats(rooms[r]) /\ second(r) # first(r)
    BY <2>3
  <2> HIDE DEF second
  <2>5. QED
    BY <2>2, <2>4 DEF ValidSeats
<1> HIDE DEF first, second
<1>2. ASSUME NEW x \in R \X {1, 2}
      PROVE  /\ x[1] \in R /\ x[2] \in {1, 2} /\ x = <<x[1], x[2]>>
             /\ x[2] = 1 => f[x] = rooms[x[1]].seat[first(x[1])]
             /\ x[2] = 2 => f[x] = rooms[x[1]].seat[second(x[1])]
             /\ f[x] \in Clients \ {c} /\ roomid[f[x]] = x[1]
  <2> DEFINE r == x[1]
             s == IF x[2] = 1 THEN first(r) ELSE second(r)
  <2>1. r \in R /\ x[2] \in {1, 2} /\ x = <<r, x[2]>> /\ f[x] = rooms[r].seat[s]
    OBVIOUS
  <2>2. s \in Seats /\ IsValid(rooms[r], s)
    BY <2>1, <1>1
  <2>3. (x[2] = 1 => s = first(r)) /\ (x[2] = 2 => s = second(r))
    OBVIOUS
  <2> HIDE DEF f, s, r
  <2>4. rooms[r] \in RoomType /\ r \in Rooms /\ r # 0
    BY <2>1 DEF RoomsInv, TypeOK, Rooms
  <2>5. rooms[r].seat[s] \in Clients
    BY <2>2, <2>4 DEF RoomType, IsValid
  <2>6. roomid[rooms[r].seat[s]] = r
    BY <2>2, <2>4, <2>5 DEF RoomsInv, SeatedOnce, SitsIn
  <2>7. QED
    BY <2>1, <2>3, <2>4, <2>5, <2>6 DEF r
<1> HIDE DEF f
<1>3. ASSUME NEW x \in R \X {1, 2}, NEW y \in R \X {1, 2}, f[x] = f[y]
      PROVE  x = y
  <2>1. x[1] = y[1]
    BY <1>2, <1>3
  <2>2. ASSUME x[2] # y[2]
        PROVE  FALSE
    <3> DEFINE r == x[1]
    <3>1. r \in R /\ rooms[r].seat[first(r)] = rooms[r].seat[second(r)] /\ rooms[r].seat[first(r)] \in Clients
      BY <1>2, <1>3, <2>1, <2>2
    <3>2. QED
      BY <1>1, <3>1 DEF RoomsInv, SeatedOnce
  <2>3. QED
    BY <1>2, <2>1, <2>2
<1>4. f \in Injection(R \X {1, 2}, Clients \ {c})
  <2>1. f = [x \in R \X {1, 2} |-> f[x]]
    BY DEF f
  <2>2. \A x \in R \X {1, 2} : f[x] \in Clients \ {c}
    BY <1>2
  <2>3. \A x, y \in R \X {1, 2} : f[x] = f[y] => x = y
    BY <1>3
  <2>4. f \in [R \X {1, 2} -> Clients \ {c}]
    BY <2>1, <2>2
  <2>5. QED
    BY <2>3, <2>4 DEF Injection, IsInjective
<1>5. IsFiniteSet(Clients) /\ IsFiniteSet(Clients \ {c}) /\ Cardinality(Clients \ {c}) = Cardinality(Clients) - 1
  BY GoldAssumption, FS_RemoveElement
<1>6. IsFiniteSet(R)
  <2>1. Rooms \in SUBSET Nat /\ IsFiniteSet(Rooms)
    BY FS_Interval DEF Rooms, RoomsInv, TypeOK
  <2>2. QED
    BY <2>1, FS_Subset
<1>7. Cardinality(R \X {1, 2}) <= Cardinality(Clients \ {c})
  BY <1>4, <1>5, FS_Injection
<1>8. IsFiniteSet({1, 2}) /\ Cardinality({1, 2}) = 2
  <2>1. IsFiniteSet({1}) /\ Cardinality({1}) = 1
    BY FS_Singleton
  <2>2. {1, 2} = {1} \union {2}
    OBVIOUS
  <2>3. QED
    BY <2>1, <2>2, FS_AddElement
<1>9. Cardinality(R \X {1, 2}) = Cardinality(R) * 2
  BY <1>6, <1>8, FS_Product
<1>10. Cardinality(R) \in Nat /\ Cardinality(Clients) \in Nat
  BY <1>5, <1>6, FS_CardinalityType
<1>11. QED
  BY <1>5, <1>6, <1>7, <1>9, <1>10

\* The inductive form of RoomsAreReused
FewRooms ==
  \A p \in Places : Cardinality(OpenedOf(p)) <= 1 + (Cardinality(Clients) - 1) \div 2

LEMMA OpenedIsFinite ==
  ASSUME TypeOK, NEW p
  PROVE  IsFiniteSet(OpenedOf(p)) /\ Cardinality(OpenedOf(p)) \in Nat
<1>1. IsFiniteSet(Rooms)
  BY FS_Interval DEF Rooms, TypeOK
<1>2. OpenedOf(p) \in SUBSET Rooms
  BY DEF OpenedOf
<1>3. QED
  BY <1>1, <1>2, FS_Subset, FS_CardinalityType

\* No room of the place is opened.
LEMMA NoNewRoom ==
  ASSUME RoomsInv, FewRooms, NEW p \in Places, OpenedOf(p)' \subseteq OpenedOf(p)
  PROVE  Cardinality(OpenedOf(p))' <= 1 + (Cardinality(Clients) - 1) \div 2
<1>1. IsFiniteSet(OpenedOf(p)) /\ Cardinality(OpenedOf(p)) \in Nat
  BY OpenedIsFinite DEF RoomsInv
<1> DEFINE S == OpenedOf(p)'
           bound == 1 + (Cardinality(Clients) - 1) \div 2
<1>2. Cardinality(S) <= Cardinality(OpenedOf(p)) /\ IsFiniteSet(S) /\ Cardinality(S) \in Nat
  BY <1>1, FS_Subset, FS_CardinalityType
<1>3. Cardinality(Clients) \in Nat
  BY GoldAssumption, FS_CardinalityType
<1>4. bound \in Int /\ Cardinality(OpenedOf(p)) <= bound
  BY <1>3 DEF FewRooms
<1> HIDE DEF S, bound
<1>5. Cardinality(S) <= bound
  BY <1>1, <1>2, <1>4
<1>6. QED
  BY <1>5 DEF S, bound

LEMMA RoomReplaced ==
  ASSUME RoomsInv, FewRooms, NEW r \in Rooms, NEW h, rooms' = [rooms EXCEPT ![r] = h],
         h.place = rooms[r].place, rooms[r].status # "closed", NEW p \in Places
  PROVE  Cardinality(OpenedOf(p))' <= 1 + (Cardinality(Clients) - 1) \div 2
<1>1. Len(rooms') = Len(rooms) /\ rooms'[r] = h /\ \A q \in Rooms : q # r => rooms'[q] = rooms[q]
  BY DEF RoomsInv, TypeOK, Rooms
<1>2. OpenedOf(p)' \subseteq OpenedOf(p)
  BY <1>1 DEF OpenedOf, Rooms
<1>3. QED
  BY <1>2, NoNewRoom

LEMMA MatchRoomOpens ==
  ASSUME RoomsInv, FewRooms, NEW c \in Clients, NEW q \in Places, MatchRoom(c, q), NEW p \in Places
  PROVE  Cardinality(OpenedOf(p))' <= 1 + (Cardinality(Clients) - 1) \div 2
<1> DEFINE open == {r \in Rooms : rooms[r].place = q /\ CanEnter(rooms[r])}
<1>1. CASE open # {} /\ Enter(c, Min(open))
  <2>1. Min(open) \in open
    <3>1. open \in SUBSET Nat
      BY DEF Rooms
    <3>2. QED
      BY <3>1, <1>1, MinIsLeast
  <2> DEFINE r == Min(open)
  <2>2. r \in Rooms /\ CanEnter(rooms[r]) /\ rooms[r] \in RoomType /\ GoodRoom(rooms[r])
    BY <2>1 DEF RoomsInv, TypeOK, Rooms
  <2>3. rooms' = [rooms EXCEPT ![r] = Entered(rooms[r], c)]
    BY <1>1 DEF Enter
  <2> HIDE DEF r
  <2>4. Entered(rooms[r], c).place = rooms[r].place /\ rooms[r].status # "closed"
    BY <2>2, EnteredIs DEF CanEnter
  <2>5. QED
    BY <2>2, <2>3, <2>4, RoomReplaced
<1>2. CASE /\ open = {} /\ rooms' = Append(rooms, Entered(NewRoom(q, c), c))
  <2> DEFINE h == Entered(NewRoom(q, c), c)
             n == Len(rooms) + 1
  <2>1. h.place = q
    BY NewRoomIs, EnteredIs
  <2>2. rooms \in Seq(RoomType) /\ rooms' = Append(rooms, h) /\ Len(rooms) \in Nat
    BY <1>2 DEF RoomsInv, TypeOK
  <2> HIDE DEF h
  <2>3. Len(rooms') = n /\ rooms'[n] = h /\ \A r \in Rooms : rooms'[r] = rooms[r]
    BY <2>2, AppendProperties DEF Rooms
  <2>4. Rooms' = Rooms \union {n} /\ n \notin Rooms
    BY <2>2, <2>3 DEF Rooms
  <2>5. CASE p # q
    <3>1. OpenedOf(p)' \subseteq OpenedOf(p)
      BY <2>1, <2>3, <2>4, <2>5 DEF OpenedOf
    <3>2. QED
      BY <3>1, NoNewRoom
  <2>6. CASE p = q
    <3>1. ASSUME NEW r \in OpenedOf(p)
          PROVE  TwoPlayers(rooms[r])
      <4>1. /\ r \in Rooms /\ rooms[r] \in RoomType /\ GoodRoom(rooms[r]) /\ rooms[r].place = q
            /\ rooms[r].status # "closed" /\ ~CanEnter(rooms[r])
        BY <1>2, <2>6 DEF OpenedOf, RoomsInv, TypeOK, Rooms
      <4>2. CASE rooms[r].status \in {"quickStart", "play"}
        BY <4>1, <4>2 DEF GoodRoom, BetweenRounds
      <4>3. CASE rooms[r].status = "prepare"
        <5>1. EmptySeats(rooms[r]) = {}
          BY <4>1, <4>3 DEF CanEnter, GoodRoom, BetweenRounds
        <5>2. 1 \in Seats /\ 2 \in Seats
          BY GoldAssumption DEF Seats
        <5>3. QED
          BY <5>1, <5>2 DEF EmptySeats, TwoPlayers, ValidSeats, IsValid
      <4>4. QED
        BY <4>1, <4>2, <4>3 DEF RoomType
    <3> DEFINE S == OpenedOf(p)
    <3>2. S \in SUBSET Rooms /\ roomid[c] = 0
      BY DEF OpenedOf, MatchRoom
    <3>3. /\ IsFiniteSet(S) /\ Cardinality(S) \in Nat /\ Cardinality(Clients) \in Nat
          /\ 2 * Cardinality(S) <= Cardinality(Clients) - 1
      BY <3>1, <3>2, TwoInEach
    <3>4. OpenedOf(p)' \subseteq S \union {n}
      BY <2>3, <2>4 DEF OpenedOf
    <3> DEFINE T == OpenedOf(p)'
    <3> HIDE DEF S, T
    <3> HIDE DEF n
    <3>5. IsFiniteSet(S \union {n}) /\ Cardinality(S \union {n}) \in Nat /\ Cardinality(S \union {n}) <= Cardinality(S) + 1
      <4>1. IsFiniteSet(S \union {n}) /\ Cardinality(S \union {n}) = IF n \in S THEN Cardinality(S) ELSE Cardinality(S) + 1
        BY <3>3, FS_AddElement
      <4>2. QED
        BY <4>1, <3>3
    <3>6. Cardinality(T) <= Cardinality(S \union {n}) /\ Cardinality(T) \in Nat
      BY <3>4, <3>5, FS_Subset, FS_CardinalityType DEF T
    <3>7. \A k, m \in Nat : 2 * k <= m - 1 => k + 1 <= 1 + (m - 1) \div 2
      OBVIOUS
    <3>8. Cardinality(S) + 1 <= 1 + (Cardinality(Clients) - 1) \div 2
      BY <3>3, <3>7
    <3>9. Cardinality(T) <= 1 + (Cardinality(Clients) - 1) \div 2
      BY <3>3, <3>5, <3>6, <3>8
    <3>10. QED
      BY <3>9 DEF T
  <2>7. QED
    BY <2>5, <2>6
<1>3. QED
  BY <1>1, <1>2 DEF MatchRoom

LEMMA FewRoomsNext ==
  ASSUME RoomsInv, FewRooms, [Next]_vars
  PROVE  FewRooms'
<1>1. SUFFICES ASSUME NEW p \in Places
               PROVE  Cardinality(OpenedOf(p))' <= 1 + (Cardinality(Clients) - 1) \div 2
  BY DEF FewRooms
<1> DEFINE Goal == Cardinality(OpenedOf(p))' <= 1 + (Cardinality(Clients) - 1) \div 2
<1>2. ASSUME NEW c \in Clients, NEW q \in Places, MatchRoom(c, q)
      PROVE  Goal
  BY <1>2, MatchRoomOpens
<1>3. ASSUME NEW c \in Clients, NEW r \in Rooms, JoinGame(c, r)
      PROVE  Goal
  <2>1. rooms[r] \in RoomType /\ GoodRoom(rooms[r])
    BY DEF Rooms, RoomsInv, TypeOK
  <2>2. rooms' = [rooms EXCEPT ![r] = Entered(rooms[r], c)] /\ CanEnter(rooms[r])
    BY <1>3 DEF JoinGame, Enter
  <2>3. Entered(rooms[r], c).place = rooms[r].place /\ rooms[r].status # "closed"
    BY <2>1, <2>2, EnteredIs DEF CanEnter
  <2>4. QED
    BY <2>2, <2>3, RoomReplaced
<1>4. ASSUME NEW c \in Clients, GiveUp(c)
      PROVE  Goal
  <2> DEFINE g == Game(c)
             h == RemovePlayer(g, c)
  <2>1. roomid[c] \in Rooms /\ g \in RoomType /\ GoodRoom(g) /\ SitsIn(g, c) /\ g.status = "prepare"
    BY <1>4, GameOf DEF GiveUp
  <2>2. h.place = g.place
    BY <2>1, RemovedIs
  <2>3. rooms' = [rooms EXCEPT ![roomid[c]] = h]
    BY <1>4 DEF GiveUp, Game
  <2> HIDE DEF h
  <2>4. QED
    BY <2>1, <2>2, <2>3, RoomReplaced DEF Game
<1>5. CASE Stays
  BY <1>5, RoomReplaced DEF Stays, Kept
<1>6. ASSUME NEW r \in Rooms, DismissRoom(r)
      PROVE  Goal
  <2> DEFINE h == [NewRoom(rooms[r].place, None) EXCEPT !.status = "closed"]
  <2>1. h.place = rooms[r].place
    BY DEF NewRoom
  <2>2. rooms' = [rooms EXCEPT ![r] = h] /\ rooms[r].status # "closed"
    BY <1>6 DEF DismissRoom, RoomsInv, TypeOK, Rooms
  <2> HIDE DEF h
  <2>3. QED
    BY <2>1, <2>2, RoomReplaced
<1>7. CASE UNCHANGED vars
  <2>1. OpenedOf(p)' = OpenedOf(p)
    BY <1>7 DEF vars, OpenedOf, Rooms
  <2>2. QED
    BY <2>1, NoNewRoom
<1>8. QED
  BY <1>2, <1>3, <1>4, <1>5, <1>6, <1>7, StepsOfAGame

\* A place never has more rooms than one, and one for every two other clients.
THEOREM RoomsReused == Spec => []RoomsAreReused
<1>1. Init => FewRooms
  <2>1. SUFFICES ASSUME Init, NEW p \in Places
                 PROVE  Cardinality(OpenedOf(p)) <= 1 + (Cardinality(Clients) - 1) \div 2
    BY DEF FewRooms
  <2>2. OpenedOf(p) = {}
    BY <2>1 DEF Init, OpenedOf, Rooms
  <2>3. Cardinality(Clients) \in Nat
    BY GoldAssumption, FS_CardinalityType
  <2>4. \A k \in Nat : 0 <= 1 + (k - 1) \div 2
    OBVIOUS
  <2>5. QED
    BY <2>2, <2>3, <2>4, FS_EmptySet
<1>2. RoomsInv /\ FewRooms /\ [Next]_vars => FewRooms'
  BY FewRoomsNext
<1>3. FewRooms => RoomsAreReused
  BY DEF FewRooms, RoomsAreReused, OpenedOf
<1>4. QED
  BY <1>1, <1>2, <1>3, RoomsAreGood, PTL DEF Spec
=============================================================================
