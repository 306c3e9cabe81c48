----------------------------- MODULE Water13Card -----------------------------
(***************************************************************************)
(* One room-card game of the lobby: the object Water13_Card (classes Room, *)
(* Water13 and Water13_Card of src/server/processes/lobby) and what the    *)
(* lobby keeps of the clients that use it (class Client, ClientManager).   *)
(*                                                                         *)
(* The lobby is one thread: every message handler and every timer tick     *)
(* runs to its end before the next one, so each is one action.  What       *)
(* interleaves are the messages of the clients, the timer ticks, the       *)
(* logins and the disconnections.  A deadline that has passed is a timer   *)
(* action that may happen at any moment of the phase it guards.            *)
(*                                                                         *)
(* Abstracted: the cards (a settlement may name any non-empty set of seats *)
(* as the big winners), the names and pictures, and every message sent to  *)
(* a client.  The room number is either this room's or another one's.      *)
(***************************************************************************)
EXTENDS Integers, FiniteSets, Functions

CONSTANTS
  Clients,         \* the players (Client::m_cuid)
  None,            \* the cuid 0 of an empty seat
  PlayerSize,      \* m_attr.playerSize
  Rounds,          \* m_attr.rounds
  PlayType,        \* m_attr.playType: "normal" or "banker"
  Payor,           \* m_attr.payor: "banker", "aa" or "winner"
  HalfEnter,       \* m_attr.halfEnter
  BankerMultiple,  \* m_attr.bankerMultiple
  Points,          \* what clients send as a stake or a multiple, an int32
  Price,           \* m_attr.playerPrice
  InitMoney,       \* diamonds of each client at the start
  Diamond          \* diamonds of the cheapest goldExchange pack

ASSUME ClientsAssumption == None \notin Clients /\ IsFiniteSet(Clients)
ASSUME SizeAssumption    == PlayerSize \in Nat /\ PlayerSize >= 2
ASSUME RoundsAssumption  == Rounds \in Nat \ {0}
ASSUME AttrAssumption    == /\ PlayType \in {"normal", "banker"}
                            /\ Payor \in {"banker", "aa", "winner"}
                            /\ HalfEnter \in BOOLEAN
                            /\ BankerMultiple \in Int /\ Points \subseteq Int
ASSUME MoneyAssumption   == Price \in Nat /\ InitMoney \in Nat /\ Diamond \in Nat

VARIABLES
  (*** the Water13_Card object ***)
  status,    \* m_status; "none": no room is registered under this number
  rounds,    \* m_rounds
  owner,     \* m_ownerCuid
  seat,      \* m_players[i].cuid
  st,        \* m_players[i].status
  vote,      \* m_players[i].vote
  chipIn,    \* m_players[i].chipIn
  multiple,  \* m_players[i].multiple
  banker,    \* m_bankerCuid
  reserved,  \* remainBrands, in hands of five cards
  settled,   \* m_settleData.size()
  result,    \* the cuids of the last entry of m_settleData
  (*** the Client objects ***)
  conn,      \* "online", "offline", or "absent": not in ClientManager's maps
  roomid,    \* m_roomid: "none", "here", or "other"
  money,     \* m_money
  (*** the process and a history variable ***)
  up,        \* FALSE once a null pointer has been dereferenced
  charged    \* history: what this game has taken from each client

seatVars   == <<seat, st>>
bankVars   == <<chipIn, multiple, banker, reserved>>
resultVars == <<settled, result>>
clientVars == <<conn, roomid>>
purseVars  == <<money, charged>>
vars == <<status, rounds, owner, seat, st, vote, chipIn, multiple, banker,
          reserved, settled, result, conn, roomid, money, up, charged>>

Seats       == 1..PlayerSize
Cuids       == Clients \union {None}
Total       == Price * PlayerSize
Votes       == {"NONE", "AYE", "NAY"}
GameStatus  == {"none", "prepare", "quickStart", "selBanker", "selMultiple",
                "play", "vote", "settle", "settleAll", "closed"}
SeatStatus  == {"NONE", "PREP", "READY", "SORT", "COMPARE", "WITNESS",
                "BANKER", "SELMULTIPLE"}

TypeOK ==
  /\ status \in GameStatus
  /\ rounds \in Nat
  /\ owner \in Cuids
  /\ seat \in [Seats -> Cuids]
  /\ st \in [Seats -> SeatStatus]
  /\ vote \in [Seats -> Votes]
  /\ chipIn \in [Seats -> Int]
  /\ multiple \in [Seats -> Int]
  /\ banker \in Cuids
  /\ reserved \in Nat
  /\ settled \in Nat
  /\ result \in [Seats -> Cuids]
  /\ conn \in [Clients -> {"online", "offline", "absent"}]
  /\ roomid \in [Clients -> {"none", "here", "other"}]
  /\ money \in [Clients -> Int]
  /\ up \in BOOLEAN
  /\ charged \in [Clients -> Nat]

(***************************************************************************)
(* No object: the state before CreateGame and after the timer loop has     *)
(* erased a closed room.                                                   *)
(***************************************************************************)
Nobody   == [i \in Seats |-> None]
NoStatus == [i \in Seats |-> "NONE"]
NoVotes  == [i \in Seats |-> "NONE"]
NoPoints == [i \in Seats |-> 0]
NoBill   == [c \in Clients |-> 0]

NoGame ==
  /\ status = "none" /\ rounds = 0 /\ owner = None
  /\ seat = Nobody /\ st = NoStatus /\ vote = NoVotes
  /\ chipIn = NoPoints /\ multiple = NoPoints
  /\ banker = None /\ reserved = 0
  /\ settled = 0 /\ result = Nobody
  /\ charged = NoBill

Init ==
  /\ NoGame
  /\ conn = [c \in Clients |-> "online"]
  /\ roomid = [c \in Clients |-> "none"]
  /\ money = [c \in Clients |-> InitMoney]
  /\ up = TRUE

-----------------------------------------------------------------------------
(*** Lookups ***)

\* ClientManager::getByCuid(cuid) # nullptr
InMemory(cuid) == cuid \in Clients /\ conn[cuid] # "absent"

\* getPlayerInfoByCuid: i is the first seat that carries the cuid.
IsSeatOf(i, c) == seat[i] = c /\ \A j \in Seats : seat[j] = c => i <= j

Seated(c) == \E i \in Seats : seat[i] = c

\* getEmptySeatIndex
IsEmptySeat(i) == IsSeatOf(i, None)

\* getValidPlayers, on the seat states s
ValidIn(s) == {i \in Seats : seat[i] # None /\ s[i] # "WITNESS"}
Valid == ValidIn(st)

\* A client whose messages reach the lobby, and one whose messages the lobby
\* takes to belong to this room.
Online(c) == up /\ conn[c] = "online"

InRoom(c) == Online(c) /\ roomid[c] = "here" /\ status # "none"

\* The timer finds the room in the phase ph, with its deadline passed.
Elapsed(ph) == up /\ status = ph

-----------------------------------------------------------------------------
(*** Charging: a bill says what each client is to pay, addMoney(-price) ***)

Pay(bill) ==
  /\ money' = [c \in Clients |-> money[c] - bill[c]]
  /\ charged' = [c \in Clients |-> charged[c] + bill[c]]

\* enoughMoney is strict; only the diamonds held on entry are looked at.
CanAfford(c, o) ==
  CASE Payor = "banker" -> c = o => money[c] > Total
    [] Payor = "aa"     -> money[c] > Price
    [] Payor = "winner" -> money[c] > Total

\* The first deal: the owner pays for all, or each dealt player for himself.
FirstDealBill_Refund(s) ==
  [c \in Clients |-> IF \E i \in Seats : seat[i] = c THEN -Price ELSE 0]

FirstDealBill_Online(s) ==
  [c \in Clients |-> IF conn[c] # "online" THEN 0
                       ELSE Price * Cardinality({i \in Seats : seat[i] = c /\ s[i] # "WITNESS"})]

FirstDealBill(s) ==
  [c \in Clients |->
     LET mySeats == {i \in Seats : seat[i] = c /\ s[i] # "WITNESS"} IN
     IF mySeats = {} \/ ~InMemory(c) THEN 0
     ELSE CASE Payor = "banker" -> IF c = owner THEN Total * Cardinality(mySeats) ELSE 0
            [] Payor = "aa"     -> Price * Cardinality(mySeats)
            [] Payor = "winner" -> 0]

DealBill_EveryRound(s) == FirstDealBill(s)

DealBill(s) == IF rounds = 0 THEN FirstDealBill(s) ELSE NoBill

-----------------------------------------------------------------------------
(*** tryStartRound, called with the phase ph and the seat states s ***)

CanStart(ph, s) ==
  \/ /\ ph = "prepare"
     /\ \A i \in Seats : s[i] = "READY" /\ InMemory(seat[i])
  \/ ph = "quickStart"
  \/ /\ ph = "settle"
     /\ \A i \in ValidIn(s) : s[i] \in {"COMPARE", "READY"}

\* The hands of five cards kept for the second deal of a banker's game
Kept_BeforeTheDeal(hands) == Cardinality({i \in ValidIn(st) : st[i] = "READY"})

Kept(hands) == Cardinality(ValidIn(hands))

\* Every seat that is not a witness's is dealt to, the empty ones included.
StartRound(s) ==
  LET dealt == IF PlayType = "banker" THEN "BANKER" ELSE "SORT"
      hands == [i \in Seats |-> IF s[i] = "WITNESS" THEN "WITNESS" ELSE dealt]
  IN /\ rounds' = rounds + 1
     /\ st' = hands
     /\ Pay(DealBill(s))
     /\ IF PlayType = "banker"
          THEN /\ status' = "selBanker"
               /\ reserved' = reserved + Kept(hands)
          ELSE /\ status' = "play"
               /\ UNCHANGED reserved

TryStartRound(ph, s) ==
  \/ CanStart(ph, s) /\ StartRound(s)
  \/ /\ ~CanStart(ph, s)
     /\ status' = ph
     /\ st' = s
     /\ UNCHANGED <<rounds, reserved, purseVars>>

-----------------------------------------------------------------------------
(*** settleAll, called with n settled rounds whose last cuids are res ***)

\* The big winners' seats: all of them tie while nothing has been settled.
BigWinners(n) == IF n = 0 THEN {Seats} ELSE (SUBSET Seats) \ {{}}

\* The winners' shares, rounded down, on top of what is already billed.
WinnersBill_Undivided(bill, W, P, who) ==
  [c \in Clients |-> bill[c] + Total * Cardinality({i \in P : who[i] = c})]

WinnersBill(bill, W, P, who) ==
  [c \in Clients |->
     bill[c] + (Total \div Cardinality(W)) * Cardinality({i \in P : who[i] = c})]

\* A winner who is not in memory is dereferenced in the message of the log, by
\* then any of the other winners may have paid.
SettleAll(n, res, bill) ==
  IF Payor # "winner"
    THEN status' = "settleAll" /\ Pay(bill) /\ UNCHANGED up
    ELSE LET who == IF n = 0 THEN seat ELSE res IN
         \E W \in BigWinners(n) :
           LET present == {i \in W : InMemory(who[i])} IN
           \/ /\ present = W
              /\ status' = "settleAll"
              /\ Pay(WinnersBill(bill, W, W, who))
              /\ UNCHANGED up
           \/ /\ present # W
              /\ \E P \in SUBSET present : Pay(WinnersBill(bill, W, P, who))
              /\ up' = FALSE
              /\ UNCHANGED status

\* trySettleGame and trySettleAll, on the seat states s
AllCompared_EmptySeatsToo(s) == \A i \in Seats : s[i] \in {"COMPARE", "WITNESS"}

AllCompared(s) ==
  \A i \in ValidIn(s) : s[i] = "COMPARE" /\ InMemory(seat[i])

Rested(s) == [i \in Seats |-> IF i \in ValidIn(s) THEN "PREP" ELSE s[i]]

LastRound_OffByOne == rounds > Rounds

LastRound == rounds >= Rounds

TrySettleGame(s) ==
  \/ /\ ~AllCompared(s)
     /\ st' = s
     /\ UNCHANGED <<status, resultVars, purseVars, up>>
  \/ /\ AllCompared(s)
     /\ st' = Rested(s)
     /\ settled' = settled + 1
     /\ result' = seat
     /\ \/ /\ ~LastRound
           /\ status' = "settle"
           /\ UNCHANGED <<purseVars, up>>
        \/ /\ LastRound
           /\ SettleAll(settled + 1, seat, NoBill)

-----------------------------------------------------------------------------
(*** Leaving ***)

\* abortGame: every seated client in memory is sent out, whatever room he is in
\* by now; the seats go, the room is closed and loses its number.
SentOut_OnlineOnly(c) == Seated(c) /\ conn[c] = "online"

SentOut(c) == Seated(c) /\ InMemory(c)

AbortGame ==
  /\ status' = "closed"
  /\ seat' = Nobody
  /\ st' = NoStatus
  /\ roomid' = [c \in Clients |-> IF SentOut(c) THEN "none" ELSE roomid[c]]

\* removePlayer: clear() resets the cuid and the status of the seat, no more.
RemovePlayer(c) ==
  \E i \in Seats :
    /\ IsSeatOf(i, c)
    /\ seat' = [seat EXCEPT ![i] = None]
    /\ st' = [st EXCEPT ![i] = "NONE"]
    /\ roomid' = [roomid EXCEPT ![c] = "none"]

-----------------------------------------------------------------------------
(*** Ballots ***)

\* What a ballot leaves behind: the votes of the valid players are taken back.
BallotOver_Kept(v) == v

BallotOver(v) == [i \in Seats |-> IF i \in Valid THEN "NONE" ELSE v[i]]

Agreed_Majority(v) ==
  2 * Cardinality({i \in Valid : v[i] = "AYE"}) > Cardinality(Valid)

Agreed(v) == \A i \in Valid : v[i] = "AYE"

OwnerBill == [c \in Clients |-> IF Payor = "winner" /\ c = owner THEN Total ELSE 0]

\* checkAllVotes, in the phase vote with the votes v
CheckAllVotes(v) ==
  \/ /\ \E i \in Valid : v[i] = "NAY"
     /\ vote' = BallotOver(v)
     /\ status' = "play"
     /\ UNCHANGED <<purseVars, up>>
  \/ /\ Agreed(v)
     /\ vote' = BallotOver(v)
     /\ \/ /\ Payor = "winner" /\ ~InMemory(owner)
           /\ up' = FALSE
           /\ UNCHANGED <<status, purseVars>>
        \/ /\ Payor = "winner" => InMemory(owner)
           /\ SettleAll(settled, result, OwnerBill)
  \/ /\ \A i \in Valid : v[i] # "NAY"
     /\ ~Agreed(v)
     /\ vote' = v
     /\ status' = "vote"
     /\ UNCHANGED <<purseVars, up>>

\* checkAllVotesQuickStart, with the votes v
CheckAllVotesQuickStart(v) ==
  \/ /\ \E i \in Valid : v[i] = "NAY"
     /\ vote' = BallotOver(v)
     /\ status' = "prepare"
     /\ UNCHANGED <<rounds, st, reserved, purseVars>>
  \/ /\ Agreed(v)
     /\ vote' = BallotOver(v)
     /\ TryStartRound("quickStart", st)
  \/ /\ \A i \in Valid : v[i] # "NAY"
     /\ ~Agreed(v)
     /\ vote' = v
     /\ status' = "quickStart"
     /\ UNCHANGED <<rounds, st, reserved, purseVars>>

-----------------------------------------------------------------------------
(*** Messages of the clients ***)

\* proto_C_G13_CreateGame: the room is registered before its creator enters it,
\* and stays registered when he may not.
CreateGame(c) ==
  /\ Online(c) /\ roomid[c] = "none"
  /\ status = "none"
  /\ status' = "prepare"
  /\ owner' = c
  /\ \/ /\ CanAfford(c, c)
        /\ seat' = [seat EXCEPT ![1] = c]
        /\ st' = [st EXCEPT ![1] = "PREP"]
        /\ roomid' = [roomid EXCEPT ![c] = "here"]
     \/ /\ ~CanAfford(c, c)
        /\ UNCHANGED <<seatVars, roomid>>
  /\ UNCHANGED <<rounds, vote, bankVars, resultVars, conn, purseVars, up>>

\* proto_C_G13_JoinGame and enterRoom; a closed room has no seats left.
MayEnter_Always == TRUE

MayEnter == HalfEnter \/ (status = "prepare" /\ rounds = 0)

JoinGame(c) ==
  /\ Online(c) /\ roomid[c] = "none"
  /\ status \notin {"none", "closed"}
  /\ MayEnter
  /\ CanAfford(c, owner)
  /\ \E i \in Seats :
       /\ IsEmptySeat(i)
       /\ seat' = [seat EXCEPT ![i] = c]
       /\ st' = [st EXCEPT ![i] = IF rounds = 0 /\ status = "prepare"
                                    THEN "PREP" ELSE "WITNESS"]
  /\ roomid' = [roomid EXCEPT ![c] = "here"]
  /\ UNCHANGED <<status, rounds, owner, vote, bankVars, resultVars, conn,
                 purseVars, up>>

\* giveUp while the room is waiting: the owner's leaving closes the room.
GiveUpWaiting(c) ==
  /\ InRoom(c)
  /\ status = "prepare" /\ rounds = 0
  /\ \/ c = owner /\ (\E i \in Seats : IsSeatOf(i, c)) /\ AbortGame
     \/ c # owner /\ RemovePlayer(c) /\ UNCHANGED status
  /\ UNCHANGED <<rounds, owner, vote, bankVars, resultVars, conn, purseVars, up>>

\* giveUp during the game: an AYE in a ballot that it opens if there is none.
GiveUpPlaying(c) ==
  /\ InRoom(c)
  /\ status \in {"play", "settle", "vote"} \/ (status = "prepare" /\ rounds # 0)
  /\ \E i \in Seats : IsSeatOf(i, c) /\ CheckAllVotes([vote EXCEPT ![i] = "AYE"])
  /\ UNCHANGED <<rounds, owner, seatVars, bankVars, resultVars, clientVars>>

\* giveUp after the final settlement
GiveUpOver(c) ==
  /\ InRoom(c)
  /\ status \in {"settleAll", "closed"}
  /\ RemovePlayer(c)
  /\ UNCHANGED <<status, rounds, owner, vote, bankVars, resultVars, conn,
                 purseVars, up>>

ReadyFlag(c, ready) ==
  LET new == IF ready THEN "READY" ELSE "PREP" IN
  /\ InRoom(c)
  /\ status \in {"prepare", "settle"}
  /\ \E i \in Seats :
       /\ IsSeatOf(i, c)
       /\ st[i] \notin {"WITNESS", new}
       /\ \/ ready /\ TryStartRound(status, [st EXCEPT ![i] = new])
          \/ /\ ~ready
             /\ st' = [st EXCEPT ![i] = new]
             /\ UNCHANGED <<status, rounds, reserved, purseVars>>
  /\ UNCHANGED <<owner, seat, vote, chipIn, multiple, banker, resultVars,
                 clientVars, up>>

MayBringOut_Any(i) == st[i] # "COMPARE"

MayBringOut(i) == st[i] = "SORT"

BringOut(c) ==
  /\ InRoom(c)
  /\ status = "play"
  /\ \E i \in Seats :
       /\ IsSeatOf(i, c)
       /\ MayBringOut(i)
       /\ TrySettleGame([st EXCEPT ![i] = "COMPARE"])
  /\ UNCHANGED <<rounds, owner, seat, vote, bankVars, clientVars>>

\* An abstention is noted and counted by nobody.
VoteFoAbortGame(c, v) ==
  /\ InRoom(c)
  /\ status = "vote"
  /\ \E i \in Seats :
       /\ IsSeatOf(i, c)
       /\ \/ /\ v = "NONE"
             /\ vote' = [vote EXCEPT ![i] = v]
             /\ UNCHANGED <<status, purseVars, up>>
          \/ v # "NONE" /\ CheckAllVotes([vote EXCEPT ![i] = v])
  /\ UNCHANGED <<rounds, owner, seatVars, bankVars, resultVars, clientVars>>

\* The owner asks to start with the players he has; in the phase quickStart the
\* same message, from anyone, is an AYE.
QuickStart(c) ==
  /\ InRoom(c)
  /\ \/ /\ status = "prepare"
        /\ c = owner
        /\ \A i \in Valid : st[i] = "READY"
        /\ Cardinality(Valid) >= 2
     \/ status = "quickStart"
  /\ \E i \in Seats :
       IsSeatOf(i, c) /\ CheckAllVotesQuickStart([vote EXCEPT ![i] = "AYE"])
  /\ UNCHANGED <<owner, seat, chipIn, multiple, banker, resultVars, clientVars, up>>

VoteForQuickStart(c, v) ==
  /\ InRoom(c)
  /\ status = "quickStart"
  /\ \E i \in Seats :
       /\ IsSeatOf(i, c)
       /\ \/ /\ v = "NONE"
             /\ vote' = [vote EXCEPT ![i] = v]
             /\ UNCHANGED <<status, rounds, st, reserved, purseVars>>
          \/ v # "NONE" /\ CheckAllVotesQuickStart([vote EXCEPT ![i] = v])
  /\ UNCHANGED <<owner, seat, chipIn, multiple, banker, resultVars, clientVars, up>>

\* Anyone in the room may answer for the witness t, in any phase; a refusal
\* frees the client and leaves his seat taken.
ReplyHalfEnter(c, t, reply) ==
  /\ InRoom(c)
  /\ \E i \in Seats :
       /\ IsSeatOf(i, t)
       /\ st[i] = "WITNESS"
       /\ \/ /\ reply
             /\ st' = [st EXCEPT ![i] = "READY"]
             /\ UNCHANGED roomid
          \/ /\ ~reply
             /\ roomid' = IF InMemory(t) THEN [roomid EXCEPT ![t] = "none"] ELSE roomid
             /\ UNCHANGED st
  /\ UNCHANGED <<status, rounds, owner, seat, vote, bankVars, resultVars, conn,
                 purseVars, up>>

-----------------------------------------------------------------------------
(*** Banker games: the highest stake becomes the banker, the others choose a
     multiple, then the last five cards are dealt ***)

\* The stakes are taken back once a banker is found.
StakesBack(ch) == [i \in Seats |-> IF i \in Valid THEN 0 ELSE ch[i]]

\* checkAllChipInPoint, with the stakes ch
CheckAllChipInPoint(ch) ==
  LET highest(i) == \A j \in Valid : ch[j] <= ch[i]
      equal      == \A i \in Valid : highest(i)
  IN \/ /\ Valid # {} /\ \A i \in Valid : ch[i] > 0
        /\ \E i \in Valid :
             /\ highest(i)
             /\ equal \/ \A j \in Valid : highest(j) => i <= j
             /\ banker' = seat[i]
        /\ chipIn' = StakesBack(ch)
        /\ st' = [i \in Seats |-> IF i \in Valid THEN "SELMULTIPLE" ELSE st[i]]
        /\ status' = "selMultiple"
     \/ /\ Valid = {} \/ \E i \in Valid : ch[i] <= 0
        /\ chipIn' = ch
        /\ UNCHANGED <<status, st, banker>>

\* checkAllSelectMultiple, with the multiples m: it counts the choices, and
\* expects one less than the players because the banker makes none.
AllSelected_BankerToo(m) == \A i \in Valid : m[i] > 0

AllSelected(m) == Cardinality({i \in Valid : m[i] > 0}) = Cardinality(Valid) - 1

\* The read past the end of remainBrands gives other cards or kills the process.
CheckAllSelectMultiple(m) ==
  /\ multiple' = m
  /\ \/ /\ AllSelected(m)
        /\ st' = [i \in Seats |-> IF i \in Valid THEN "SORT" ELSE st[i]]
        /\ status' = "play"
        /\ reserved' = 0
        /\ up' = TRUE \/ (Cardinality(Valid) > reserved /\ up' = FALSE)
     \/ /\ ~AllSelected(m)
        /\ UNCHANGED <<status, st, reserved, up>>

ChipInPoint(c, point) ==
  /\ InRoom(c)
  /\ status = "selBanker"
  /\ point <= BankerMultiple
  /\ \E i \in Seats : IsSeatOf(i, c) /\ CheckAllChipInPoint([chipIn EXCEPT ![i] = point])
  /\ UNCHANGED <<rounds, owner, seat, vote, multiple, reserved, resultVars,
                 clientVars, purseVars, up>>

SelectMultiple(c, point) ==
  /\ InRoom(c)
  /\ status = "selMultiple"
  /\ point <= BankerMultiple
  /\ \E i \in Seats : IsSeatOf(i, c) /\ CheckAllSelectMultiple([multiple EXCEPT ![i] = point])
  /\ UNCHANGED <<rounds, owner, seat, vote, chipIn, banker, resultVars,
                 clientVars, purseVars>>

-----------------------------------------------------------------------------
(*** timerExec, once a second for each room: one action per phase ***)

\* In the phase prepare each tick retries the start.
PrepareTick ==
  /\ Elapsed("prepare")
  /\ CanStart("prepare", st)
  /\ TryStartRound("prepare", st)
  /\ UNCHANGED <<owner, seat, vote, chipIn, multiple, banker, resultVars,
                 clientVars, up>>

QuickStartTimeout ==
  /\ Elapsed("quickStart")
  /\ vote' = NoVotes
  /\ TryStartRound("quickStart", st)
  /\ UNCHANGED <<owner, seat, chipIn, multiple, banker, resultVars, clientVars, up>>

Defaults_None(points) == points

Defaults(points) == [i \in Seats |-> IF points[i] = 0 THEN 1 ELSE points[i]]

SelBankerTimeout ==
  /\ Elapsed("selBanker")
  /\ CheckAllChipInPoint(Defaults(chipIn))
  /\ UNCHANGED <<rounds, owner, seat, vote, multiple, reserved, resultVars,
                 clientVars, purseVars, up>>

SelMultipleTimeout ==
  /\ Elapsed("selMultiple")
  /\ CheckAllSelectMultiple(Defaults(multiple))
  /\ UNCHANGED <<rounds, owner, seat, vote, chipIn, banker, resultVars,
                 clientVars, purseVars>>

VoteTimeout ==
  /\ Elapsed("vote")
  /\ vote' = NoVotes
  /\ AbortGame
  /\ UNCHANGED <<rounds, owner, bankVars, resultVars, conn, purseVars, up>>

SettleTimeout ==
  /\ Elapsed("settle")
  /\ TryStartRound("settle", [i \in Seats |-> IF i \in Valid THEN "READY" ELSE st[i]])
  /\ UNCHANGED <<owner, seat, vote, chipIn, multiple, banker, resultVars,
                 clientVars, up>>

SettleAllTimeout ==
  /\ Elapsed("settleAll")
  /\ AbortGame
  /\ UNCHANGED <<rounds, owner, vote, bankVars, resultVars, conn, purseVars, up>>

\* Room::timerExecAll drops a room that has lost its number.
EraseClosed ==
  /\ Elapsed("closed")
  /\ status' = "none" /\ rounds' = 0 /\ owner' = None
  /\ seat' = Nobody /\ st' = NoStatus /\ vote' = NoVotes
  /\ chipIn' = NoPoints /\ multiple' = NoPoints
  /\ banker' = None /\ reserved' = 0
  /\ settled' = 0 /\ result' = Nobody
  /\ charged' = NoBill
  /\ UNCHANGED <<clientVars, money, up>>

-----------------------------------------------------------------------------
(*** gmcmdHandler: the platform dismisses a room, in whatever phase it is; a
     closed one has nobody left to send out ***)

DismissRoom ==
  /\ up /\ status \notin {"none", "closed"}
  /\ AbortGame
  /\ UNCHANGED <<rounds, owner, vote, bankVars, resultVars, conn, purseVars, up>>

-----------------------------------------------------------------------------
(*** The clients outside of this room ***)

\* LoginQuest, then Room::clientOnline: a client is let go when his room or his
\* seat is no more.
LostRoom_Always(c) == roomid[c] = "here"

LostRoom(c) ==
  /\ roomid[c] = "here"
  /\ status # "closed"
  /\ status = "none" \/ ~Seated(c)

Login(c) ==
  /\ up /\ conn[c] # "online"
  /\ conn' = [conn EXCEPT ![c] = "online"]
  /\ roomid' = IF LostRoom(c) THEN [roomid EXCEPT ![c] = "none"] ELSE roomid
  /\ UNCHANGED <<status, rounds, owner, seatVars, vote, bankVars, resultVars,
                 purseVars, up>>

\* ClientDisconnected: only the moment is noted, no room is told.
Disconnect(c) ==
  /\ Online(c)
  /\ conn' = [conn EXCEPT ![c] = "offline"]
  /\ UNCHANGED <<status, rounds, owner, seatVars, vote, bankVars, resultVars,
                 roomid, purseVars, up>>

\* ClientManager::timerExecAll forgets an offline client that is in no room.
MayEvict_InRoom(c) == up /\ conn[c] = "offline"

MayEvict(c) == up /\ conn[c] = "offline" /\ roomid[c] = "none"

Evict(c) ==
  /\ MayEvict(c)
  /\ conn' = [conn EXCEPT ![c] = "absent"]
  /\ UNCHANGED <<status, rounds, owner, seatVars, vote, bankVars, resultVars,
                 roomid, purseVars, up>>

\* The client enters, and leaves, some other room of the lobby.
EnterOther(c) ==
  /\ Online(c) /\ roomid[c] = "none"
  /\ roomid' = [roomid EXCEPT ![c] = "other"]
  /\ UNCHANGED <<status, rounds, owner, seatVars, vote, bankVars, resultVars,
                 conn, purseVars, up>>

LeaveOther(c) ==
  /\ up /\ InMemory(c) /\ roomid[c] = "other"
  /\ roomid' = [roomid EXCEPT ![c] = "none"]
  /\ UNCHANGED <<status, rounds, owner, seatVars, vote, bankVars, resultVars,
                 conn, purseVars, up>>

\* proto_C_Exchange: diamonds for gold, whether he is in a room or not.
Exchange(c) ==
  /\ Online(c)
  /\ Diamond > 0 /\ money[c] > Diamond
  /\ money' = [money EXCEPT ![c] = @ - Diamond]
  /\ UNCHANGED <<status, rounds, owner, seatVars, vote, bankVars, resultVars,
                 clientVars, charged, up>>

\* rechargeHandler: diamonds from the platform, for a client in memory or in
\* Redis; never more than InitMoney in all, a bound of the model
Recharge(c) ==
  /\ up /\ Diamond > 0
  /\ money[c] + Diamond <= InitMoney
  /\ money' = [money EXCEPT ![c] = @ + Diamond]
  /\ UNCHANGED <<status, rounds, owner, seatVars, vote, bankVars, resultVars,
                 clientVars, charged, up>>

-----------------------------------------------------------------------------
Message(c) ==
  \/ CreateGame(c) \/ JoinGame(c)
  \/ GiveUpWaiting(c) \/ GiveUpPlaying(c) \/ GiveUpOver(c)
  \/ \E ready \in BOOLEAN : ReadyFlag(c, ready)
  \/ BringOut(c)
  \/ \E v \in Votes : VoteFoAbortGame(c, v)
  \/ QuickStart(c)
  \/ \E v \in Votes : VoteForQuickStart(c, v)
  \/ \E t \in Clients, reply \in BOOLEAN : ReplyHalfEnter(c, t, reply)
  \/ \E point \in Points : ChipInPoint(c, point) \/ SelectMultiple(c, point)
  \/ Exchange(c)

Timer ==
  \/ PrepareTick \/ QuickStartTimeout \/ SelBankerTimeout \/ SelMultipleTimeout
  \/ VoteTimeout \/ SettleTimeout \/ SettleAllTimeout \/ EraseClosed

Elsewhere(c) ==
  \/ Login(c) \/ Disconnect(c) \/ Evict(c) \/ EnterOther(c) \/ LeaveOther(c)
  \/ Recharge(c)

Next ==
  \/ Timer
  \/ DismissRoom
  \/ \E c \in Clients : Message(c) \/ Elsewhere(c)

Spec == Init /\ [][Next]_vars

\* The one-second timer runs as long as the process does.
Fairness == WF_vars(Timer)

FairSpec == Spec /\ Fairness

-----------------------------------------------------------------------------
(*** Safety.  A process that has died (~up) keeps no promise. ***)

\* Rounds are dealt and settled in turn: a round is settled once, the next is
\* dealt only then, and no more are dealt than were paid for (tryStartRound,
\* trySettleGame, trySettleAll).
RoundOrder ==
  up => /\ settled <= rounds /\ rounds <= settled + 1
        /\ rounds <= Rounds
        /\ status \in {"prepare", "quickStart"} => rounds = 0
        /\ status = "settle" => rounds = settled /\ rounds < Rounds

\* What makes it inductive: in which phases the round is still to be settled;
\* and a room that is in play or in a ballot after its round has been settled,
\* as a ballot held between two rounds leaves it, has nobody who could bring out
\* his cards.
Resting == \A i \in Seats : seat[i] # None => st[i] \notin {"SORT", "COMPARE"}

RoundInv ==
  /\ settled <= rounds /\ rounds <= settled + 1
  /\ rounds <= Rounds
  /\ status \in {"none", "prepare", "quickStart"} => rounds = 0 /\ settled = 0
  /\ status \in {"selBanker", "selMultiple"} => rounds = settled + 1
  /\ status = "settle" => rounds = settled
  /\ status \in {"play", "vote", "settle"} =>
       /\ rounds > 0
       /\ rounds = settled => rounds < Rounds /\ Resting

OrderInv == up => RoundInv

\* Whoever the lobby believes to be in the room can be found there: no message
\* of his runs into a missing room or a missing seat (Client::m_roomid against
\* Room::s_rooms and m_players; the evictions and the exits).
HereMeansSeated ==
  \A c \in Clients :
    roomid[c] = "here" => Seated(c) /\ InMemory(c) /\ status \notin {"none", "closed"}

\* The index from the seats back to the clients is as good: one seat a client,
\* and its client knows of it.
SeatedMeansHere ==
  /\ \A i, j \in Seats : seat[i] = seat[j] /\ seat[i] # None => i = j
  /\ \A c \in Clients : Seated(c) => roomid[c] = "here"

\* A ballot starts from nothing: no vote of an earlier ballot is left to a
\* player when none is running (checkAllVotes, checkAllVotesQuickStart, the
\* timeouts).
BallotsStartClean ==
  status \notin {"vote", "quickStart"} => \A i \in Valid : vote[i] = "NONE"

\* No step is missed: a room never stands in a phase although the players have
\* done what ends it, and while a round is open it waits for a player who can
\* still bring out his cards.  Two rooms do stand still, and are excepted: one
\* that is in play between two rounds, which a refused ballot makes it
\* (checkAllVotes), and one that enters selMultiple with the multiples of the
\* round before (checkAllSelectMultiple).
NoMissedStep ==
  up =>
  /\ status = "settle" => \E i \in Valid : st[i] # "READY"
  /\ status = "prepare" => \E i \in Seats : st[i] # "READY"
  /\ status = "play" => rounds = settled \/ \E i \in Valid : st[i] = "SORT"
  /\ status \in {"vote", "quickStart"} =>
       (\E i \in Valid : vote[i] # "AYE") /\ \A i \in Valid : vote[i] # "NAY"
  /\ status = "selBanker" => \E i \in Valid : chipIn[i] <= 0
  /\ status = "selMultiple" /\ settled = 0 =>
       Cardinality({i \in Valid : multiple[i] > 0}) # Cardinality(Valid) - 1

\* The second deal of a banker's game never runs out of the cards kept for it:
\* there are five for each player who will get them (tryStartRound,
\* checkAllSelectMultiple).
EnoughReserved ==
  status \in {"selBanker", "selMultiple"} => Cardinality(Valid) <= reserved

\* The price of a game is taken once, at the first deal, from those who are to
\* pay it: each player his share, or the owner for all (payor "aa", "banker").
Due(c) == IF Payor = "aa" THEN Price ELSE IF c = owner THEN Total ELSE 0

PaidOnce ==
  \A c \in Clients :
    /\ charged[c] \in {0, Due(c)}
    /\ rounds = 0 => charged[c] = 0
    /\ rounds > 0 /\ Seated(c) => charged[c] = Due(c)

\* In a game that the winners pay nobody pays before the last settlement, and
\* after the last round the winners together pay the price of the game, less
\* what the division leaves over (settleAll).
Collected == SumFunctionOnSet(charged, Clients)

WinnersPay ==
  Payor = "winner" /\ up =>
    /\ status \notin {"settleAll", "closed"} => Collected = 0
    /\ settled = Rounds => Collected <= Total /\ (Price > 0 => Collected > 0)

\* A room that is full, with its owner in it, cannot bring the process down: the
\* clients that settleAll and checkAllVotes dereference are all in memory.
FullRoomIsSafe ==
  (None \notin {seat[i] : i \in Seats} /\ owner \in {seat[i] : i \in Seats}) => up

-----------------------------------------------------------------------------
(*** What a step may never do ***)

\* A game that is cut short is cut short by all of its players: the last of
\* them to agree finds every other vote an AYE (checkAllVotes).
UnanimousEnd ==
  [][status' = "settleAll" /\ status # "settleAll" /\ settled' < Rounds =>
       \A i, j \in Valid : vote[i] # "AYE" /\ vote[j] # "AYE" => i = j]_vars

\* From the first deal to the final settlement nobody takes or leaves a seat.
SeatsFrozen ==
  [][rounds > 0 /\ status \notin {"settleAll", "closed"} =>
       seat' = seat \/ status' = "closed"]_vars

-----------------------------------------------------------------------------
(*** The room implements a series of rounds ***)

Phase ==
  CASE ~up -> "dead"
    [] up /\ status \in {"none", "closed"} -> "none"
    [] up /\ status \in {"prepare", "quickStart"} -> "waiting"
    [] up /\ status \in {"selBanker", "selMultiple", "play", "vote", "settle"} -> "playing"
    [] up /\ status = "settleAll" -> "over"

Gone == Phase \in {"none", "dead"}

Abstract == INSTANCE GameSeries WITH
  People  <- Clients,
  Late    <- HalfEnter,
  phase   <- Phase,
  round   <- IF Gone THEN 0 ELSE rounds,
  settled <- IF Gone THEN 0 ELSE settled,
  players <- IF Gone THEN {} ELSE {c \in Clients : Seated(c)}

\* Every behaviour of the room is one of a GameSeries.
Series == Abstract!SSpec

-----------------------------------------------------------------------------
(*** Liveness, from the one-second timer alone ***)

\* A phase that has a deadline ends by the timer, whoever does not answer
\* (timerExec).  The stakes are the exception: a negative one is accepted, is no
\* stake, and is not filled in, so that the phase waits until he sends another.
\* The multiples are left out: their timeout fills in one too many.
PhasesEnd ==
  /\ \A ph \in {"quickStart", "vote", "settle", "settleAll", "closed"} :
       status = ph ~> (status # ph \/ ~up)
  /\ status = "selBanker" ~>
       (status # "selBanker" \/ ~up \/ \E i \in Valid : chipIn[i] < 0)

\* After the final settlement every player is let go, the ones that are offline
\* too.
PlayersFreed ==
  \A c \in Clients :
    (status = "settleAll" /\ roomid[c] = "here") ~> (roomid[c] # "here" \/ ~up)

=============================================================================
