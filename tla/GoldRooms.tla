------------------------------ MODULE GoldRooms ------------------------------
(***************************************************************************)
(* The rooms of the gold places (Water13_Gold): a client who enters a      *)
(* place is given a seat in the first of its rooms that takes him, or a    *)
(* new one.  A room plays one round after the other; between two rounds it *)
(* is as it was when it was new, and players come and go.  No room is      *)
(* closed by its players: giveUp waits for a vector of seats to become     *)
(* empty that keeps its length.  The platform can dismiss a room; it stays *)
(* in roomsArr then, and takes nobody any more.                            *)
(*                                                                         *)
(* The handlers of Water13_Card for a quick start and for joining by       *)
(* number work on these rooms too (getByRoomId casts whatever room it      *)
(* finds).                                                                 *)
(*                                                                         *)
(* Two handlers have no action, as they change nothing.  ChangeRoom offers *)
(* a client who has a room to all rooms of the place: his own takes him    *)
(* for entered, every other refuses him, and so does createGame.  The      *)
(* timer's retry in the phase prepare finds nothing to start: a full room  *)
(* starts with the last player's becoming ready.                           *)
(*                                                                         *)
(* Left out: the cards and the scores, the gold (a client may be too poor  *)
(* or too rich at any time), the banker's game, the entry in Redis.  A     *)
(* client with a room number is never evicted, so all are in memory.       *)
(***************************************************************************)
EXTENDS Naturals, Sequences, FiniteSets, FiniteSetsExt

CONSTANTS
  Clients,
  Places,
  PlayerSize, \* of every place
  MaxRooms,   \* how many rooms are made in all: a bound of the model
  None

ASSUME GoldAssumption ==
  /\ None \notin Clients /\ IsFiniteSet(Clients)
  /\ PlayerSize \in Nat \ {0, 1}
  /\ MaxRooms \in Nat

Seats == 1..PlayerSize

VARIABLES
  rooms,  \* the rooms in the order they were made, which is that of roomsArr
  roomid  \* the room number of each client, as the place in rooms, or 0

vars == <<rooms, roomid>>

\* createGame, up to the entry of its owner
NewRoom(place, c) ==
  [place |-> place, owner |-> c, status |-> "prepare", rounds |-> 0,
   seat |-> [i \in Seats |-> None], st |-> [i \in Seats |-> "NONE"],
   vote |-> [i \in Seats |-> "NONE"]]

Rooms == 1..Len(rooms)

Init ==
  /\ rooms = <<>>
  /\ roomid = [c \in Clients |-> 0]

-----------------------------------------------------------------------------
(*** What happens to one room ***)

IsValid(g, i)  == g.seat[i] # None
ValidSeats(g)  == {i \in Seats : IsValid(g, i)}
SeatOf(g, c)   == CHOOSE i \in Seats : g.seat[i] = c
SitsIn(g, c)   == \E i \in Seats : g.seat[i] = c
EmptySeats(g)  == {i \in Seats : g.seat[i] = None}

CanEnter(g) == g.status = "prepare" /\ g.rounds = 0 /\ EmptySeats(g) # {}

Entered(g, c) ==
  LET i == Min(EmptySeats(g)) IN
  [g EXCEPT !.seat[i] = c, !.st[i] = "PREP"]

RemovePlayer_SeatStays(g, c) == [g EXCEPT !.st[SeatOf(g, c)] = "NONE"]

RemovePlayer(g, c) ==
  [g EXCEPT !.seat[SeatOf(g, c)] = None, !.st[SeatOf(g, c)] = "NONE"]

\* The cards go to the empty seats too.
Dealt(g) ==
  [g EXCEPT !.status = "play", !.rounds = g.rounds + 1,
            !.st = [i \in Seats |-> "SORT"]]

\* tryStartRound in the phase prepare
Started(g) ==
  IF \A i \in Seats : IsValid(g, i) /\ g.st[i] = "READY" THEN Dealt(g) ELSE g

Settled_CountsOn(g) ==
  [g EXCEPT !.status = "prepare", !.st = [i \in Seats |-> "PREP"]]

Settled(g) ==
  [g EXCEPT !.status = "prepare", !.rounds = 0, !.st = [i \in Seats |-> "PREP"]]

\* trySettleGame
AfterCompare(g) ==
  IF \A i \in ValidSeats(g) : g.st[i] = "COMPARE" THEN Settled(g) ELSE g

WithoutVotes(g, seats) ==
  [g EXCEPT !.vote = [i \in Seats |-> IF i \in seats THEN "NONE" ELSE g.vote[i]]]

EverybodyAgrees_AllSeats(g) == \A i \in Seats : g.vote[i] = "AYE"

EverybodyAgrees(g) == \A i \in ValidSeats(g) : g.vote[i] = "AYE"

\* checkAllVotesQuickStart
VotesCounted(g) ==
  IF \E i \in ValidSeats(g) : g.vote[i] = "NAY"
    THEN [WithoutVotes(g, ValidSeats(g)) EXCEPT !.status = "prepare"]
    ELSE IF EverybodyAgrees(g) THEN Dealt(WithoutVotes(g, ValidSeats(g))) ELSE g

Voted(g, c, v) == VotesCounted([g EXCEPT !.vote[SeatOf(g, c)] = v])

-----------------------------------------------------------------------------
(*** Messages ***)

Game(c) == rooms[roomid[c]]

SetGame(c, g) == rooms' = [rooms EXCEPT ![roomid[c]] = g] /\ UNCHANGED roomid

Enter(c, r) ==
  /\ rooms' = [rooms EXCEPT ![r] = Entered(rooms[r], c)]
  /\ roomid' = [roomid EXCEPT ![c] = r]

\* EnterGoldPlace, and QuickStart of the gold places, which chooses the place
MatchRoom(c, place) ==
  LET open == {r \in Rooms : rooms[r].place = place /\ CanEnter(rooms[r])} IN
  /\ roomid[c] = 0
  /\ \/ open # {} /\ Enter(c, Min(open))
     \/ /\ open = {}
        /\ Len(rooms) < MaxRooms
        /\ rooms' = Append(rooms, Entered(NewRoom(place, c), c))
        /\ roomid' = [roomid EXCEPT ![c] = Len(rooms) + 1]

\* C_G13_JoinGame, by the number of a room
JoinGame(c, r) ==
  /\ roomid[c] = 0
  /\ CanEnter(rooms[r])
  /\ Enter(c, r)

GiveUp(c) ==
  /\ roomid[c] # 0
  /\ Game(c).status = "prepare"
  /\ rooms' = [rooms EXCEPT ![roomid[c]] = RemovePlayer(@, c)]
  /\ roomid' = [roomid EXCEPT ![c] = 0]

ReadyFlag(c, ready) ==
  LET g == Game(c)
      i == SeatOf(g, c) IN
  /\ roomid[c] # 0
  /\ g.status = "prepare"
  /\ IF ready THEN g.st[i] # "READY" /\ SetGame(c, Started([g EXCEPT !.st[i] = "READY"]))
              ELSE g.st[i] # "PREP"  /\ SetGame(c, [g EXCEPT !.st[i] = "PREP"])

BringOut(c) ==
  LET g == Game(c)
      i == SeatOf(g, c) IN
  /\ roomid[c] # 0
  /\ g.status = "play" /\ g.st[i] = "SORT"
  /\ SetGame(c, AfterCompare([g EXCEPT !.st[i] = "COMPARE"]))

\* The owner opens the ballot; whoever asks for a quick start later says aye.
\* The owner is who made the room, if he sits in it.
QuickStart(c) ==
  LET g == Game(c) IN
  /\ roomid[c] # 0
  /\ \/ /\ g.status = "prepare" /\ c = g.owner
        /\ \A i \in ValidSeats(g) : g.st[i] = "READY"
        /\ Cardinality(ValidSeats(g)) >= 2
     \/ g.status = "quickStart"
  /\ SetGame(c, Voted([g EXCEPT !.status = "quickStart"], c, "AYE"))

VoteForQuickStart(c, v) ==
  LET g == Game(c) IN
  /\ roomid[c] # 0
  /\ g.status = "quickStart"
  /\ SetGame(c, IF v = "NONE" THEN [g EXCEPT !.vote[SeatOf(g, c)] = v] ELSE Voted(g, c, v))

-----------------------------------------------------------------------------
(*** The timer ***)

SetRoom(r, g) == rooms' = [rooms EXCEPT ![r] = g] /\ UNCHANGED roomid

\* Silence is consent.
TimerQuickStart(r) ==
  /\ rooms[r].status = "quickStart"
  /\ SetRoom(r, Dealt(WithoutVotes(rooms[r], Seats)))

Timer == \E r \in Rooms : TimerQuickStart(r)

\* gmcmdHandler and abortGame: whoever sits in the room is sent out, and nobody
\* looks at more of the room than that it is closed.
DismissRoom(r) ==
  /\ rooms[r].status # "closed"
  /\ rooms' = [rooms EXCEPT ![r] = [NewRoom(@.place, None) EXCEPT !.status = "closed"]]
  /\ roomid' = [c \in Clients |-> IF SitsIn(rooms[r], c) THEN 0 ELSE roomid[c]]

Next ==
  \/ \E c \in Clients, p \in Places : MatchRoom(c, p)
  \/ \E c \in Clients, r \in Rooms : JoinGame(c, r)
  \/ \E c \in Clients : GiveUp(c) \/ BringOut(c) \/ QuickStart(c)
  \/ \E c \in Clients, ready \in BOOLEAN : ReadyFlag(c, ready)
  \/ \E c \in Clients, v \in {"NONE", "AYE", "NAY"} : VoteForQuickStart(c, v)
  \/ Timer
  \/ \E r \in Rooms : DismissRoom(r)

Spec == Init /\ [][Next]_vars

-----------------------------------------------------------------------------
(*** Safety ***)

\* A client sits in the room whose number he has, there once, and nowhere else,
\* although seats and numbers are given and taken by matching, joining and
\* leaving in any order (enterRoom, removePlayer).
SeatsAgree ==
  \A c \in Clients, r \in Rooms :
    Cardinality({i \in Seats : rooms[r].seat[i] = c}) = IF roomid[c] = r THEN 1 ELSE 0

\* In play there is a player who can bring out, and in a ballot one who can vote,
\* with no nay and no vote from before: nothing but the players is waited for
\* (trySettleGame, checkAllVotesQuickStart, Water13::timerExec).
NothingIsStuck ==
  \A r \in Rooms :
    LET g == rooms[r] IN
    /\ g.status = "play" => \E i \in ValidSeats(g) : g.st[i] = "SORT"
    /\ g.status = "quickStart" => /\ \E i \in ValidSeats(g) : g.vote[i] # "AYE"
                                  /\ \A i \in Seats : g.vote[i] # "NAY"
    /\ g.status # "quickStart" => \A i \in Seats : g.vote[i] = "NONE"

\* Their players never close the rooms, and yet there are never more of a place
\* than can have players, because one that is left is filled again: the place has
\* a new room made only when two players at least are in every other that is not
\* dismissed (matchRoom, and the reset in trySettleGame).
RoomsAreReused ==
  \A p \in Places :
    Cardinality({r \in Rooms : rooms[r].place = p /\ rooms[r].status # "closed"}) <= 1 + (Cardinality(Clients) - 1) \div 2

=============================================================================
