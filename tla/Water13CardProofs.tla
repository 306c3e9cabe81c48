-------------------------- MODULE Water13CardProofs --------------------------
(***************************************************************************)
(* Proofs about a room-card game, for every set of clients, number of      *)
(* seats, number of rounds and choice of the room's attributes.            *)
(*                                                                         *)
(* First of the room alone (Water13Card): the types, the order of the      *)
(* rounds and the indexes; what the games of a room do to its seats, its   *)
(* ballots and its players' purses; and that the room implements a         *)
(* GameSeries.  Some of it is about rooms that take nobody in during a     *)
(* game (HalfEnter = FALSE): there NoWitness makes the valid players the   *)
(* seated ones.                                                            *)
(*                                                                         *)
(* Then of the room with its copy in Redis (Water13CardDb), for every      *)
(* number of starts of the lobby: whatever dies when, the seats are saved, *)
(* rounds stay in order, and the price is taken for every deal and at most *)
(* once per start.  There each invariant comes in two parts, one on the    *)
(* room and one on its copy, because a restart turns the copy into the     *)
(* room.                                                                   *)
(***************************************************************************)
EXTENDS Water13CardDb, Lemmas

-----------------------------------------------------------------------------
(*** The operators return what TypeOK expects ***)

LEMMA SeatsFinite ==
  /\ Seats # {}
  /\ \A S \in SUBSET Seats : IsFiniteSet(S) /\ Cardinality(S) \in Nat
<1>1. IsFiniteSet(Seats)
  BY FS_Interval, SizeAssumption DEF Seats
<1>2. 1 \in Seats
  BY SizeAssumption DEF Seats
<1>3. ASSUME NEW S \in SUBSET Seats
      PROVE  IsFiniteSet(S) /\ Cardinality(S) \in Nat
  <2>1. IsFiniteSet(S)
    BY <1>1, FS_Subset
  <2>2. QED
    BY <2>1, FS_CardinalityType
<1>4. QED
  BY <1>2, <1>3

LEMMA PriceTypes == Price \in Nat /\ Total \in Nat
BY MoneyAssumption, SizeAssumption DEF Total

\* A bill that takes nothing back keeps the purses well typed.
LEMMA PayType ==
  ASSUME TypeOK, NEW bill \in [Clients -> Nat], Pay(bill)
  PROVE  money' \in [Clients -> Int] /\ charged' \in [Clients -> Nat]
BY DEF TypeOK, Pay

LEMMA FirstDealBillType ==
  ASSUME NEW s
  PROVE  FirstDealBill(s) \in [Clients -> Nat]
<1> SUFFICES ASSUME NEW c \in Clients
             PROVE  FirstDealBill(s)[c] \in Nat
  BY DEF FirstDealBill
<1> DEFINE mine == {i \in Seats : seat[i] = c /\ s[i] # "WITNESS"}
<1>1. Cardinality(mine) \in Nat
  BY SeatsFinite
<1> HIDE DEF mine
<1>2. /\ Total * Cardinality(mine) \in Nat
      /\ Price * Cardinality(mine) \in Nat
  BY <1>1, PriceTypes
<1>3. FirstDealBill(s)[c] =
        IF mine = {} \/ ~InMemory(c) THEN 0
        ELSE CASE Payor = "banker" -> IF c = owner THEN Total * Cardinality(mine) ELSE 0
               [] Payor = "aa"     -> Price * Cardinality(mine)
               [] Payor = "winner" -> 0
  BY DEF FirstDealBill, mine
<1>4. Payor \in {"banker", "aa", "winner"}
  BY AttrAssumption
<1>5. QED
  BY <1>2, <1>3, <1>4

LEMMA DealBillType ==
  ASSUME NEW s
  PROVE  DealBill(s) \in [Clients -> Nat]
BY FirstDealBillType DEF DealBill, NoBill

LEMMA OwnerBillType == OwnerBill \in [Clients -> Nat]
BY PriceTypes DEF OwnerBill

\* The share of one of several winners, and what the winners' seats add up to.
LEMMA WinnersBillType ==
  ASSUME NEW bill \in [Clients -> Nat], NEW W \in SUBSET Seats, W # {},
         NEW P \in SUBSET Seats, NEW who
  PROVE  WinnersBill(bill, W, P, who) \in [Clients -> Nat]
<1> SUFFICES ASSUME NEW c \in Clients
             PROVE  WinnersBill(bill, W, P, who)[c] \in Nat
  BY DEF WinnersBill
<1>1. Cardinality(W) \in Nat /\ Cardinality(W) # 0
  BY SeatsFinite, FS_EmptySet
<1>2. Total \div Cardinality(W) \in Nat
  BY <1>1, PriceTypes
<1> DEFINE share == Total \div Cardinality(W)
           theirs == {i \in P : who[i] = c}
<1>3. Cardinality(theirs) \in Nat
  BY SeatsFinite
<1> HIDE DEF theirs, share
<1>4. share * Cardinality(theirs) \in Nat
  BY <1>2, <1>3 DEF share
<1>5. WinnersBill(bill, W, P, who)[c] = bill[c] + share * Cardinality(theirs)
  BY DEF WinnersBill, share, theirs
<1>6. QED
  BY <1>4, <1>5

LEMMA StartRoundType ==
  ASSUME TypeOK, NEW s \in [Seats -> SeatStatus], StartRound(s)
  PROVE  /\ status' \in {"selBanker", "play"}
         /\ rounds' = rounds + 1
         /\ st' \in [Seats -> SeatStatus]
         /\ reserved' \in Nat
         /\ money' \in [Clients -> Int] /\ charged' \in [Clients -> Nat]
<1> DEFINE dealt == IF PlayType = "banker" THEN "BANKER" ELSE "SORT"
           hands == [i \in Seats |-> IF s[i] = "WITNESS" THEN "WITNESS" ELSE dealt]
<1>1. hands \in [Seats -> SeatStatus]
  BY DEF SeatStatus
<1>2. Cardinality(ValidIn(hands)) \in Nat
  BY SeatsFinite DEF ValidIn
<1> HIDE DEF hands
<1>3. /\ st' = hands
      /\ rounds' = rounds + 1
      /\ Pay(DealBill(s))
      /\ \/ status' = "selBanker" /\ reserved' = reserved + Cardinality(ValidIn(hands))
         \/ status' = "play" /\ reserved' = reserved
  BY DEF StartRound, Kept, hands
<1>4. money' \in [Clients -> Int] /\ charged' \in [Clients -> Nat]
  BY <1>3, DealBillType, PayType
<1>5. reserved' \in Nat
  BY <1>2, <1>3 DEF TypeOK
<1>6. QED
  BY <1>1, <1>3, <1>4, <1>5

LEMMA TryStartRoundType ==
  ASSUME TypeOK, NEW s \in [Seats -> SeatStatus], NEW ph \in GameStatus,
         TryStartRound(ph, s)
  PROVE  /\ status' \in GameStatus
         /\ rounds' \in Nat
         /\ st' \in [Seats -> SeatStatus]
         /\ reserved' \in Nat
         /\ money' \in [Clients -> Int] /\ charged' \in [Clients -> Nat]
<1>1. CASE StartRound(s)
  BY <1>1, StartRoundType DEF TypeOK, GameStatus
<1>2. CASE /\ status' = ph /\ st' = s
           /\ UNCHANGED <<rounds, reserved, purseVars>>
  BY <1>2 DEF TypeOK, purseVars
<1>3. QED
  BY <1>1, <1>2 DEF TryStartRound

LEMMA SettleAllType ==
  ASSUME TypeOK, NEW n, NEW res, NEW bill \in [Clients -> Nat],
         SettleAll(n, res, bill)
  PROVE  /\ status' \in {status, "settleAll"}
         /\ status' = "settleAll" \/ up' = FALSE
         /\ up' \in BOOLEAN
         /\ money' \in [Clients -> Int] /\ charged' \in [Clients -> Nat]
<1> DEFINE who == IF n = 0 THEN seat ELSE res
<1>1. CASE Payor # "winner"
  BY <1>1, PayType DEF SettleAll, TypeOK
<1>2. CASE Payor = "winner"
  <2>1. PICK W \in BigWinners(n) :
          LET present == {i \in W : InMemory(who[i])} IN
          \/ /\ present = W
             /\ status' = "settleAll"
             /\ Pay(WinnersBill(bill, W, W, who))
             /\ UNCHANGED up
          \/ /\ present # W
             /\ \E P \in SUBSET present : Pay(WinnersBill(bill, W, P, who))
             /\ up' = FALSE
             /\ UNCHANGED status
    BY <1>2 DEF SettleAll
  <2>2. W \in SUBSET Seats /\ W # {}
    BY SeatsFinite DEF BigWinners
  <2>3. ASSUME NEW P \in SUBSET Seats, Pay(WinnersBill(bill, W, P, who))
        PROVE  money' \in [Clients -> Int] /\ charged' \in [Clients -> Nat]
    BY <2>2, <2>3, WinnersBillType, PayType
  <2>4. CASE status' = "settleAll" /\ Pay(WinnersBill(bill, W, W, who)) /\ UNCHANGED up
    BY <2>2, <2>3, <2>4 DEF TypeOK
  <2>5. CASE /\ \E P \in SUBSET {i \in W : InMemory(who[i])} :
                  Pay(WinnersBill(bill, W, P, who))
             /\ up' = FALSE
             /\ UNCHANGED status
    <3>1. PICK P \in SUBSET {i \in W : InMemory(who[i])} :
            Pay(WinnersBill(bill, W, P, who))
      BY <2>5
    <3>2. P \in SUBSET Seats
      BY <2>2
    <3>3. QED
      BY <2>3, <2>5, <3>1, <3>2
  <2>6. QED
    BY <2>1, <2>4, <2>5
<1>3. QED
  BY <1>1, <1>2

LEMMA TrySettleGameType ==
  ASSUME TypeOK, NEW s \in [Seats -> SeatStatus], TrySettleGame(s)
  PROVE  /\ status' \in GameStatus
         /\ st' \in [Seats -> SeatStatus]
         /\ settled' \in Nat
         /\ result' \in [Seats -> Cuids]
         /\ up' \in BOOLEAN
         /\ money' \in [Clients -> Int] /\ charged' \in [Clients -> Nat]
<1>1. CASE /\ st' = s
           /\ UNCHANGED <<status, resultVars, purseVars, up>>
  BY <1>1 DEF TypeOK, resultVars, purseVars
<1>2. CASE /\ st' = Rested(s)
           /\ settled' = settled + 1
           /\ result' = seat
           /\ \/ status' = "settle" /\ UNCHANGED <<purseVars, up>>
              \/ SettleAll(settled + 1, seat, NoBill)
  <2>1. Rested(s) \in [Seats -> SeatStatus]
    BY DEF Rested, SeatStatus
  <2>2. NoBill \in [Clients -> Nat]
    BY DEF NoBill
  <2>3. CASE status' = "settle" /\ UNCHANGED <<purseVars, up>>
    BY <1>2, <2>1, <2>3 DEF TypeOK, purseVars, GameStatus
  <2>4. CASE SettleAll(settled + 1, seat, NoBill)
    <3>1. /\ status' \in {status, "settleAll"}
          /\ up' \in BOOLEAN
          /\ money' \in [Clients -> Int] /\ charged' \in [Clients -> Nat]
      BY <2>2, <2>4, SettleAllType
    <3>2. QED
      BY <1>2, <2>1, <3>1 DEF TypeOK, GameStatus
  <2>5. QED
    BY <1>2, <2>3, <2>4
<1>3. QED
  BY <1>1, <1>2 DEF TrySettleGame, LastRound

LEMMA AbortGameType ==
  ASSUME TypeOK, AbortGame
  PROVE  /\ status' = "closed"
         /\ seat' \in [Seats -> Cuids]
         /\ st' \in [Seats -> SeatStatus]
         /\ roomid' \in [Clients -> {"none", "here", "other"}]
BY DEF TypeOK, AbortGame, Nobody, NoStatus, Cuids, SeatStatus

LEMMA RemovePlayerType ==
  ASSUME TypeOK, NEW c \in Clients, RemovePlayer(c)
  PROVE  /\ seat' \in [Seats -> Cuids]
         /\ st' \in [Seats -> SeatStatus]
         /\ roomid' \in [Clients -> {"none", "here", "other"}]
BY DEF TypeOK, RemovePlayer, Cuids, SeatStatus

LEMMA BallotOverType ==
  ASSUME NEW v \in [Seats -> Votes]
  PROVE  BallotOver(v) \in [Seats -> Votes]
BY DEF BallotOver, Votes

LEMMA CheckAllVotesType ==
  ASSUME TypeOK, NEW v \in [Seats -> Votes], CheckAllVotes(v)
  PROVE  /\ status' \in GameStatus
         /\ vote' \in [Seats -> Votes]
         /\ up' \in BOOLEAN
         /\ money' \in [Clients -> Int] /\ charged' \in [Clients -> Nat]
<1>1. CASE /\ vote' \in {v, BallotOver(v)}
           /\ status' \in {"play", "vote"}
           /\ UNCHANGED <<purseVars, up>>
  BY <1>1, BallotOverType DEF TypeOK, purseVars, GameStatus
<1>2. CASE /\ vote' = BallotOver(v)
           /\ up' = FALSE
           /\ UNCHANGED <<status, purseVars>>
  BY <1>2, BallotOverType DEF TypeOK, purseVars
<1>3. CASE /\ vote' = BallotOver(v)
           /\ SettleAll(settled, result, OwnerBill)
  <2>1. /\ status' \in {status, "settleAll"}
        /\ up' \in BOOLEAN
        /\ money' \in [Clients -> Int] /\ charged' \in [Clients -> Nat]
    BY <1>3, OwnerBillType, SettleAllType
  <2>2. QED
    BY <1>3, <2>1, BallotOverType DEF TypeOK, GameStatus
<1>4. QED
  BY <1>1, <1>2, <1>3 DEF CheckAllVotes

LEMMA CheckAllVotesQuickStartType ==
  ASSUME TypeOK, NEW v \in [Seats -> Votes], CheckAllVotesQuickStart(v)
  PROVE  /\ status' \in GameStatus
         /\ rounds' \in Nat
         /\ st' \in [Seats -> SeatStatus]
         /\ vote' \in [Seats -> Votes]
         /\ reserved' \in Nat
         /\ money' \in [Clients -> Int] /\ charged' \in [Clients -> Nat]
<1>1. CASE /\ vote' \in {v, BallotOver(v)}
           /\ status' \in {"prepare", "quickStart"}
           /\ UNCHANGED <<rounds, st, reserved, purseVars>>
  BY <1>1, BallotOverType DEF TypeOK, purseVars, GameStatus
<1>2. CASE vote' = BallotOver(v) /\ TryStartRound("quickStart", st)
  <2>1. "quickStart" \in GameStatus /\ st \in [Seats -> SeatStatus]
    BY DEF GameStatus, TypeOK
  <2>2. QED
    BY <1>2, <2>1, BallotOverType, TryStartRoundType
<1>3. QED
  BY <1>1, <1>2 DEF CheckAllVotesQuickStart

LEMMA CheckAllChipInPointType ==
  ASSUME TypeOK, NEW ch \in [Seats -> Int], CheckAllChipInPoint(ch)
  PROVE  /\ status' \in {status, "selMultiple"}
         /\ st' \in [Seats -> SeatStatus]
         /\ chipIn' \in [Seats -> Int]
         /\ banker' \in Cuids
BY DEF TypeOK, CheckAllChipInPoint, StakesBack, Valid, ValidIn, SeatStatus

LEMMA CheckAllSelectMultipleType ==
  ASSUME TypeOK, NEW m \in [Seats -> Int], CheckAllSelectMultiple(m)
  PROVE  /\ status' \in {status, "play"}
         /\ st' \in [Seats -> SeatStatus]
         /\ multiple' \in [Seats -> Int]
         /\ reserved' \in Nat
         /\ up' \in BOOLEAN
<1>1. CASE /\ multiple' = m
           /\ st' = [i \in Seats |-> IF i \in Valid THEN "SORT" ELSE st[i]]
           /\ status' = "play"
           /\ reserved' = 0
           /\ up' = TRUE \/ up' = FALSE
  BY <1>1 DEF TypeOK, SeatStatus
<1>2. CASE multiple' = m /\ UNCHANGED <<status, st, reserved, up>>
  BY <1>2 DEF TypeOK
<1>3. QED
  BY <1>1, <1>2 DEF CheckAllSelectMultiple

-----------------------------------------------------------------------------
(*** Type correctness ***)

LEMMA InitType == Init => TypeOK
BY MoneyAssumption DEF Init, NoGame, TypeOK, GameStatus, SeatStatus, Votes, Cuids,
     Nobody, NoStatus, NoVotes, NoPoints, NoBill

LEMMA NextType == TypeOK /\ [Next]_vars => TypeOK'
<1> SUFFICES ASSUME TypeOK, [Next]_vars
             PROVE  TypeOK'
  OBVIOUS
<1> USE DEF seatVars, bankVars, resultVars, clientVars, purseVars
<1>1. ASSUME NEW c \in Clients, CreateGame(c)
      PROVE  TypeOK'
  BY <1>1 DEF CreateGame, TypeOK, GameStatus, SeatStatus, Cuids
<1>2. ASSUME NEW c \in Clients, JoinGame(c)
      PROVE  TypeOK'
  BY <1>2 DEF JoinGame, TypeOK, SeatStatus, Cuids
<1>3. ASSUME NEW c \in Clients, GiveUpWaiting(c)
      PROVE  TypeOK'
  <2>1. CASE AbortGame
    BY <1>3, <2>1, AbortGameType DEF GiveUpWaiting, TypeOK, GameStatus
  <2>2. CASE RemovePlayer(c) /\ UNCHANGED status
    BY <1>3, <2>2, RemovePlayerType DEF GiveUpWaiting, TypeOK
  <2>3. QED
    BY <1>3, <2>1, <2>2 DEF GiveUpWaiting
<1>4. ASSUME NEW c \in Clients, GiveUpPlaying(c)
      PROVE  TypeOK'
  <2>1. PICK i \in Seats : CheckAllVotes([vote EXCEPT ![i] = "AYE"])
    BY <1>4 DEF GiveUpPlaying
  <2>2. [vote EXCEPT ![i] = "AYE"] \in [Seats -> Votes]
    BY DEF TypeOK, Votes
  <2>3. QED
    BY <1>4, <2>1, <2>2, CheckAllVotesType DEF GiveUpPlaying, TypeOK
<1>5. ASSUME NEW c \in Clients, GiveUpOver(c)
      PROVE  TypeOK'
  BY <1>5, RemovePlayerType DEF GiveUpOver, TypeOK
<1>6. ASSUME NEW c \in Clients, NEW ready \in BOOLEAN, ReadyFlag(c, ready)
      PROVE  TypeOK'
  <2> DEFINE new == IF ready THEN "READY" ELSE "PREP"
  <2>1. PICK i \in Seats :
          \/ TryStartRound(status, [st EXCEPT ![i] = new])
          \/ /\ st' = [st EXCEPT ![i] = new]
             /\ UNCHANGED <<status, rounds, reserved, purseVars>>
    BY <1>6 DEF ReadyFlag
  <2>2. /\ [st EXCEPT ![i] = new] \in [Seats -> SeatStatus]
        /\ status \in GameStatus
    BY DEF TypeOK, SeatStatus
  <2> HIDE DEF new
  <2>3. /\ status' \in GameStatus
        /\ rounds' \in Nat
        /\ st' \in [Seats -> SeatStatus]
        /\ reserved' \in Nat
        /\ money' \in [Clients -> Int] /\ charged' \in [Clients -> Nat]
    <3>1. CASE TryStartRound(status, [st EXCEPT ![i] = new])
      BY <2>2, <3>1, TryStartRoundType
    <3>2. CASE /\ st' = [st EXCEPT ![i] = new]
               /\ UNCHANGED <<status, rounds, reserved, purseVars>>
      BY <2>2, <3>2 DEF TypeOK
    <3>3. QED
      BY <2>1, <3>1, <3>2
  <2>4. QED
    BY <1>6, <2>3 DEF ReadyFlag, TypeOK
<1>7. ASSUME NEW c \in Clients, BringOut(c)
      PROVE  TypeOK'
  <2>1. PICK i \in Seats : TrySettleGame([st EXCEPT ![i] = "COMPARE"])
    BY <1>7 DEF BringOut
  <2>2. [st EXCEPT ![i] = "COMPARE"] \in [Seats -> SeatStatus]
    BY DEF TypeOK, SeatStatus
  <2>3. QED
    BY <1>7, <2>1, <2>2, TrySettleGameType DEF BringOut, TypeOK
<1>8. ASSUME NEW c \in Clients, NEW v \in Votes, VoteFoAbortGame(c, v)
      PROVE  TypeOK'
  <2>1. PICK i \in Seats :
          \/ /\ vote' = [vote EXCEPT ![i] = v]
             /\ UNCHANGED <<status, purseVars, up>>
          \/ CheckAllVotes([vote EXCEPT ![i] = v])
    BY <1>8 DEF VoteFoAbortGame
  <2>2. [vote EXCEPT ![i] = v] \in [Seats -> Votes]
    BY DEF TypeOK
  <2>3. CASE /\ vote' = [vote EXCEPT ![i] = v]
             /\ UNCHANGED <<status, purseVars, up>>
    BY <1>8, <2>2, <2>3 DEF VoteFoAbortGame, TypeOK
  <2>4. CASE CheckAllVotes([vote EXCEPT ![i] = v])
    BY <1>8, <2>2, <2>4, CheckAllVotesType DEF VoteFoAbortGame, TypeOK
  <2>5. QED
    BY <2>1, <2>3, <2>4
<1>9. ASSUME NEW c \in Clients, QuickStart(c)
      PROVE  TypeOK'
  <2>1. PICK i \in Seats : CheckAllVotesQuickStart([vote EXCEPT ![i] = "AYE"])
    BY <1>9 DEF QuickStart
  <2>2. [vote EXCEPT ![i] = "AYE"] \in [Seats -> Votes]
    BY DEF TypeOK, Votes
  <2>3. QED
    BY <1>9, <2>1, <2>2, CheckAllVotesQuickStartType DEF QuickStart, TypeOK
<1>10. ASSUME NEW c \in Clients, NEW v \in Votes, VoteForQuickStart(c, v)
       PROVE  TypeOK'
  <2>1. PICK i \in Seats :
          \/ /\ vote' = [vote EXCEPT ![i] = v]
             /\ UNCHANGED <<status, rounds, st, reserved, purseVars>>
          \/ CheckAllVotesQuickStart([vote EXCEPT ![i] = v])
    BY <1>10 DEF VoteForQuickStart
  <2>2. [vote EXCEPT ![i] = v] \in [Seats -> Votes]
    BY DEF TypeOK
  <2>3. CASE /\ vote' = [vote EXCEPT ![i] = v]
             /\ UNCHANGED <<status, rounds, st, reserved, purseVars>>
    BY <1>10, <2>2, <2>3 DEF VoteForQuickStart, TypeOK
  <2>4. CASE CheckAllVotesQuickStart([vote EXCEPT ![i] = v])
    BY <1>10, <2>2, <2>4, CheckAllVotesQuickStartType DEF VoteForQuickStart, TypeOK
  <2>5. QED
    BY <2>1, <2>3, <2>4
<1>11. ASSUME NEW c \in Clients, NEW t \in Clients, NEW reply \in BOOLEAN,
              ReplyHalfEnter(c, t, reply)
       PROVE  TypeOK'
  BY <1>11 DEF ReplyHalfEnter, TypeOK, SeatStatus
<1>12. ASSUME NEW c \in Clients, NEW point \in Points, ChipInPoint(c, point)
       PROVE  TypeOK'
  <2>1. PICK i \in Seats : CheckAllChipInPoint([chipIn EXCEPT ![i] = point])
    BY <1>12 DEF ChipInPoint
  <2>2. [chipIn EXCEPT ![i] = point] \in [Seats -> Int]
    BY AttrAssumption DEF TypeOK
  <2>3. QED
    BY <1>12, <2>1, <2>2, CheckAllChipInPointType DEF ChipInPoint, TypeOK, GameStatus
<1>13. ASSUME NEW c \in Clients, NEW point \in Points, SelectMultiple(c, point)
       PROVE  TypeOK'
  <2>1. PICK i \in Seats : CheckAllSelectMultiple([multiple EXCEPT ![i] = point])
    BY <1>13 DEF SelectMultiple
  <2>2. [multiple EXCEPT ![i] = point] \in [Seats -> Int]
    BY AttrAssumption DEF TypeOK
  <2>3. QED
    BY <1>13, <2>1, <2>2, CheckAllSelectMultipleType DEF SelectMultiple, TypeOK, GameStatus
<1>14. ASSUME NEW c \in Clients, Exchange(c)
       PROVE  TypeOK'
  BY <1>14, MoneyAssumption DEF Exchange, TypeOK
<1>15. CASE PrepareTick
  <2>1. "prepare" \in GameStatus /\ st \in [Seats -> SeatStatus]
    BY DEF GameStatus, TypeOK
  <2>2. QED
    BY <1>15, <2>1, TryStartRoundType DEF PrepareTick, TypeOK
<1>16. CASE QuickStartTimeout
  <2>1. "quickStart" \in GameStatus /\ st \in [Seats -> SeatStatus]
    BY DEF GameStatus, TypeOK
  <2>2. vote' \in [Seats -> Votes]
    BY <1>16 DEF QuickStartTimeout, NoVotes, Votes
  <2>3. QED
    BY <1>16, <2>1, <2>2, TryStartRoundType DEF QuickStartTimeout, TypeOK
<1>17. CASE SelBankerTimeout
  <2>1. Defaults(chipIn) \in [Seats -> Int]
    BY DEF Defaults, TypeOK
  <2>2. QED
    BY <1>17, <2>1, CheckAllChipInPointType DEF SelBankerTimeout, TypeOK, GameStatus
<1>18. CASE SelMultipleTimeout
  <2>1. Defaults(multiple) \in [Seats -> Int]
    BY DEF Defaults, TypeOK
  <2>2. QED
    BY <1>18, <2>1, CheckAllSelectMultipleType DEF SelMultipleTimeout, TypeOK, GameStatus
<1>19. CASE VoteTimeout
  <2>1. vote' \in [Seats -> Votes]
    BY <1>19 DEF VoteTimeout, NoVotes, Votes
  <2>2. QED
    BY <1>19, <2>1, AbortGameType DEF VoteTimeout, TypeOK, GameStatus
<1>20. CASE SettleTimeout
  <2> DEFINE s == [i \in Seats |-> IF i \in Valid THEN "READY" ELSE st[i]]
  <2>1. "settle" \in GameStatus /\ s \in [Seats -> SeatStatus]
    BY DEF GameStatus, TypeOK, SeatStatus
  <2>2. TryStartRound("settle", s)
    BY <1>20 DEF SettleTimeout
  <2> HIDE DEF s
  <2>3. QED
    BY <1>20, <2>1, <2>2, TryStartRoundType DEF SettleTimeout, TypeOK
<1>21. CASE SettleAllTimeout
  BY <1>21, AbortGameType DEF SettleAllTimeout, TypeOK, GameStatus
<1>22. CASE EraseClosed
  BY <1>22 DEF EraseClosed, TypeOK, GameStatus, SeatStatus, Votes, Cuids,
       Nobody, NoStatus, NoVotes, NoPoints, NoBill
<1>23. ASSUME NEW c \in Clients, Elsewhere(c)
       PROVE  TypeOK'
  BY <1>23, MoneyAssumption DEF Elsewhere, Login, Disconnect, Evict, EnterOther, LeaveOther,
       Recharge, TypeOK
<1>24. CASE DismissRoom
  BY <1>24, AbortGameType DEF DismissRoom, TypeOK, GameStatus
<1>25. CASE UNCHANGED vars
  BY <1>25 DEF vars, TypeOK
<1>26. QED
  BY <1>1, <1>2, <1>3, <1>4, <1>5, <1>6, <1>7, <1>8, <1>9, <1>10, <1>11, <1>12,
     <1>13, <1>14, <1>15, <1>16, <1>17, <1>18, <1>19, <1>20, <1>21, <1>22, <1>23,
     <1>24, <1>25 DEF Next, Message, Timer

\* Every state of the room is well typed: whatever the handlers and the timers
\* do, in whatever order, no counter, stake, bill or index leaves its range.
THEOREM TypeCorrect == Spec => []TypeOK
<1>1. QED
  BY InitType, NextType, PTL DEF Spec

-----------------------------------------------------------------------------
(*** The order of the rounds ***)

LEMMA OrderTryStartRound ==
  ASSUME TypeOK, RoundInv,
         NEW s \in [Seats -> SeatStatus],
         NEW ph \in {"prepare", "quickStart", "settle"}, status = ph,
         ph = "settle" => \A i \in Seats : seat[i] # None => s[i] \notin {"SORT", "COMPARE"},
         TryStartRound(ph, s), UNCHANGED <<seat, settled>>
  PROVE  RoundInv'
<1>1. CASE StartRound(s)
  <2>1. status' \in {"selBanker", "play"} /\ rounds' = rounds + 1
    BY <1>1, StartRoundType
  <2>2. rounds = settled /\ rounds < Rounds
    BY RoundsAssumption DEF RoundInv, TypeOK
  <2>3. QED
    BY <2>1, <2>2, RoundsAssumption DEF RoundInv, TypeOK
<1>2. CASE status' = ph /\ st' = s /\ UNCHANGED rounds
  BY <1>2 DEF RoundInv, Resting
<1>3. QED
  BY <1>1, <1>2 DEF TryStartRound

LEMMA OrderCheckAllVotes ==
  ASSUME TypeOK, RoundInv, NEW v \in [Seats -> Votes],
         status \in {"play", "vote", "settle"},
         CheckAllVotes(v), UNCHANGED <<rounds, seat, st, settled>>, up'
  PROVE  RoundInv'
<1>1. status' \in {"play", "vote", "settleAll"}
  <2>1. CASE SettleAll(settled, result, OwnerBill)
    BY <2>1, OwnerBillType, SettleAllType
  <2>2. CASE status' \in {"play", "vote"}
    BY <2>2
  <2>3. QED
    BY <2>1, <2>2 DEF CheckAllVotes
<1>2. QED
  BY <1>1 DEF RoundInv, Resting

LEMMA OrderTrySettleGame ==
  ASSUME TypeOK, RoundInv, NEW s \in [Seats -> SeatStatus],
         status = "play", rounds = settled + 1,
         TrySettleGame(s), UNCHANGED <<rounds, seat>>, up'
  PROVE  RoundInv'
<1>1. CASE st' = s /\ UNCHANGED <<status, resultVars>>
  BY <1>1 DEF RoundInv, TypeOK, resultVars
<1>2. CASE /\ st' = Rested(s)
           /\ settled' = settled + 1
           /\ ~LastRound
           /\ status' = "settle"
  <2>1. Resting'
    BY <1>2 DEF Resting, Rested, ValidIn
  <2>2. QED
    BY <1>2, <2>1, RoundsAssumption DEF RoundInv, TypeOK, LastRound
<1>3. CASE settled' = settled + 1 /\ SettleAll(settled + 1, seat, NoBill)
  <2>1. NoBill \in [Clients -> Nat]
    BY DEF NoBill
  <2>2. status' = "settleAll"
    BY <1>3, <2>1, SettleAllType
  <2>3. QED
    BY <1>3, <2>2 DEF RoundInv, TypeOK
<1>4. QED
  BY <1>1, <1>2, <1>3 DEF TrySettleGame

LEMMA OrderInit == Init => OrderInv
BY RoundsAssumption DEF Init, NoGame, OrderInv, RoundInv

LEMMA OrderNext == TypeOK /\ OrderInv /\ [Next]_vars => OrderInv'
<1> SUFFICES ASSUME TypeOK, OrderInv, [Next]_vars, up'
             PROVE  RoundInv'
  BY DEF OrderInv
<1> USE DEF seatVars, bankVars, resultVars, clientVars, purseVars
<1>1. CASE UNCHANGED vars
  BY <1>1 DEF OrderInv, RoundInv, Resting, vars
<1> SUFFICES ASSUME Next
             PROVE  RoundInv'
  BY <1>1
<1>2. up
  BY ZenonT(60) DEF Next, Message, Timer, Elsewhere, CreateGame, JoinGame, GiveUpWaiting,
     GiveUpPlaying, GiveUpOver, ReadyFlag, BringOut, VoteFoAbortGame, QuickStart,
     VoteForQuickStart, ReplyHalfEnter, ChipInPoint, SelectMultiple, Exchange,
     PrepareTick, QuickStartTimeout, SelBankerTimeout, SelMultipleTimeout,
     VoteTimeout, SettleTimeout, SettleAllTimeout, EraseClosed, DismissRoom, Login,
     Disconnect, Evict, MayEvict, EnterOther, LeaveOther, Recharge, InRoom, Online, Elapsed
<1>3. RoundInv
  BY <1>2 DEF OrderInv
<1> HIDE DEF OrderInv
<1>4. ASSUME NEW c \in Clients, CreateGame(c)
      PROVE  RoundInv'
  BY <1>3, <1>4, RoundsAssumption DEF CreateGame, RoundInv
<1>5. ASSUME NEW c \in Clients, JoinGame(c)
      PROVE  RoundInv'
  <2>1. UNCHANGED <<status, rounds, settled>>
    BY <1>5 DEF JoinGame
  <2>2. PICK i \in Seats : seat' = [seat EXCEPT ![i] = c]
                           /\ st' = [st EXCEPT ![i] = IF rounds = 0 /\ status = "prepare"
                                                        THEN "PREP" ELSE "WITNESS"]
    BY <1>5 DEF JoinGame
  <2>3. Resting => Resting'
    BY <2>2 DEF Resting, TypeOK
  <2>4. QED
    BY <1>3, <2>1, <2>3 DEF RoundInv
<1>6. ASSUME NEW c \in Clients, GiveUpWaiting(c)
      PROVE  RoundInv'
  <2>1. UNCHANGED <<rounds, settled>> /\ status' \in {"prepare", "closed"}
    BY <1>6 DEF GiveUpWaiting, AbortGame
  <2>2. status = "prepare"
    BY <1>6 DEF GiveUpWaiting
  <2>3. QED
    BY <1>3, <2>1, <2>2 DEF RoundInv
<1>7. ASSUME NEW c \in Clients, GiveUpPlaying(c)
      PROVE  RoundInv'
  <2>1. PICK i \in Seats : CheckAllVotes([vote EXCEPT ![i] = "AYE"])
    BY <1>7 DEF GiveUpPlaying
  <2>2. [vote EXCEPT ![i] = "AYE"] \in [Seats -> Votes]
    BY DEF TypeOK, Votes
  <2>3. status \in {"play", "vote", "settle"}
    BY <1>3, <1>7 DEF GiveUpPlaying, RoundInv
  <2>4. UNCHANGED <<rounds, seat, st, settled>>
    BY <1>7 DEF GiveUpPlaying
  <2>5. QED
    BY <1>3, <2>1, <2>2, <2>3, <2>4, OrderCheckAllVotes
<1>8. ASSUME NEW c \in Clients, GiveUpOver(c)
      PROVE  RoundInv'
  BY <1>3, <1>8 DEF GiveUpOver, RoundInv
<1>9. ASSUME NEW c \in Clients, NEW ready \in BOOLEAN, ReadyFlag(c, ready)
      PROVE  RoundInv'
  <2> DEFINE new == IF ready THEN "READY" ELSE "PREP"
  <2>1. PICK i \in Seats :
          \/ TryStartRound(status, [st EXCEPT ![i] = new])
          \/ /\ st' = [st EXCEPT ![i] = new]
             /\ UNCHANGED <<status, rounds>>
    BY <1>9 DEF ReadyFlag
  <2>2. status \in {"prepare", "settle"} /\ UNCHANGED <<seat, settled>>
    BY <1>9 DEF ReadyFlag
  <2>3. [st EXCEPT ![i] = new] \in [Seats -> SeatStatus]
    BY DEF TypeOK, SeatStatus
  <2>4. status = "settle" =>
          \A j \in Seats : seat[j] # None =>
            [st EXCEPT ![i] = new][j] \notin {"SORT", "COMPARE"}
    BY <1>3 DEF RoundInv, Resting, TypeOK
  <2> HIDE DEF new
  <2>5. CASE TryStartRound(status, [st EXCEPT ![i] = new])
    BY <1>3, <2>2, <2>3, <2>4, <2>5, OrderTryStartRound
  <2>6. CASE st' = [st EXCEPT ![i] = new] /\ UNCHANGED <<status, rounds>>
    BY <1>3, <2>2, <2>4, <2>6 DEF RoundInv, Resting
  <2>7. QED
    BY <2>1, <2>5, <2>6
<1>10. ASSUME NEW c \in Clients, BringOut(c)
       PROVE  RoundInv'
  <2>1. PICK i \in Seats : /\ seat[i] = c /\ st[i] = "SORT"
                           /\ TrySettleGame([st EXCEPT ![i] = "COMPARE"])
    BY <1>10 DEF BringOut, IsSeatOf, MayBringOut
  <2>2. [st EXCEPT ![i] = "COMPARE"] \in [Seats -> SeatStatus]
    BY DEF TypeOK, SeatStatus
  <2>3. status = "play" /\ UNCHANGED <<rounds, seat>>
    BY <1>10 DEF BringOut
  <2>4. ~Resting
    BY <2>1, ClientsAssumption DEF Resting
  <2>5. rounds = settled + 1
    BY <1>3, <2>3, <2>4 DEF RoundInv, TypeOK
  <2>6. QED
    BY <1>3, <2>1, <2>2, <2>3, <2>5, OrderTrySettleGame
<1>11. ASSUME NEW c \in Clients, NEW v \in Votes, VoteFoAbortGame(c, v)
       PROVE  RoundInv'
  <2>1. PICK i \in Seats : \/ UNCHANGED status
                           \/ CheckAllVotes([vote EXCEPT ![i] = v])
    BY <1>11 DEF VoteFoAbortGame
  <2>2. [vote EXCEPT ![i] = v] \in [Seats -> Votes]
    BY DEF TypeOK
  <2>3. status = "vote" /\ UNCHANGED <<rounds, seat, st, settled>>
    BY <1>11 DEF VoteFoAbortGame
  <2>4. CASE UNCHANGED status
    BY <1>3, <2>3, <2>4 DEF RoundInv, Resting
  <2>5. CASE CheckAllVotes([vote EXCEPT ![i] = v])
    BY <1>3, <2>2, <2>3, <2>5, OrderCheckAllVotes
  <2>6. QED
    BY <2>1, <2>4, <2>5
<1>12. ASSUME NEW v \in [Seats -> Votes],
              status \in {"prepare", "quickStart"},
              CheckAllVotesQuickStart(v), UNCHANGED <<seat, settled>>
       PROVE  RoundInv'
  <2>1. CASE status' \in {"prepare", "quickStart"} /\ UNCHANGED rounds
    BY <1>3, <1>12, <2>1 DEF RoundInv
  <2>2. CASE TryStartRound("quickStart", st)
    <3>1. CASE StartRound(st)
      <4>1. status' \in {"selBanker", "play"} /\ rounds' = rounds + 1
        BY <3>1, StartRoundType DEF TypeOK
      <4>2. QED
        BY <1>3, <1>12, <4>1, RoundsAssumption DEF RoundInv, TypeOK
    <3>2. CASE status' = "quickStart" /\ UNCHANGED rounds
      BY <1>3, <1>12, <3>2 DEF RoundInv
    <3>3. QED
      BY <2>2, <3>1, <3>2 DEF TryStartRound
  <2>3. QED
    BY <1>12, <2>1, <2>2 DEF CheckAllVotesQuickStart
<1>13. ASSUME NEW c \in Clients, QuickStart(c)
       PROVE  RoundInv'
  <2>1. PICK i \in Seats : CheckAllVotesQuickStart([vote EXCEPT ![i] = "AYE"])
    BY <1>13 DEF QuickStart
  <2>2. [vote EXCEPT ![i] = "AYE"] \in [Seats -> Votes]
    BY DEF TypeOK, Votes
  <2>3. status \in {"prepare", "quickStart"} /\ UNCHANGED <<seat, settled>>
    BY <1>13 DEF QuickStart
  <2>4. QED
    BY <1>12, <2>1, <2>2, <2>3
<1>14. ASSUME NEW c \in Clients, NEW v \in Votes, VoteForQuickStart(c, v)
       PROVE  RoundInv'
  <2>1. PICK i \in Seats : \/ UNCHANGED <<status, rounds>>
                           \/ CheckAllVotesQuickStart([vote EXCEPT ![i] = v])
    BY <1>14 DEF VoteForQuickStart
  <2>2. [vote EXCEPT ![i] = v] \in [Seats -> Votes]
    BY DEF TypeOK
  <2>3. status = "quickStart" /\ UNCHANGED <<seat, settled>>
    BY <1>14 DEF VoteForQuickStart
  <2>4. CASE UNCHANGED <<status, rounds>>
    BY <1>3, <2>3, <2>4 DEF RoundInv
  <2>5. CASE CheckAllVotesQuickStart([vote EXCEPT ![i] = v])
    BY <1>12, <2>2, <2>3, <2>5
  <2>6. QED
    BY <2>1, <2>4, <2>5
<1>15. ASSUME NEW c \in Clients, NEW t \in Clients, NEW reply \in BOOLEAN,
              ReplyHalfEnter(c, t, reply)
       PROVE  RoundInv'
  <2>1. UNCHANGED <<status, rounds, seat, settled>>
    BY <1>15 DEF ReplyHalfEnter
  <2>2. Resting => Resting'
    BY <1>15 DEF ReplyHalfEnter, Resting, TypeOK
  <2>3. QED
    BY <1>3, <2>1, <2>2 DEF RoundInv
<1>16. ASSUME NEW ch \in [Seats -> Int], status = "selBanker", CheckAllChipInPoint(ch),
              UNCHANGED <<rounds, settled>>
       PROVE  RoundInv'
  BY <1>3, <1>16, CheckAllChipInPointType DEF RoundInv
<1>17. ASSUME NEW m \in [Seats -> Int], status = "selMultiple", CheckAllSelectMultiple(m),
              UNCHANGED <<rounds, settled>>
       PROVE  RoundInv'
  BY <1>3, <1>17, CheckAllSelectMultipleType DEF RoundInv, TypeOK
<1>18. ASSUME NEW c \in Clients, NEW point \in Points, ChipInPoint(c, point)
       PROVE  RoundInv'
  <2>1. PICK i \in Seats : CheckAllChipInPoint([chipIn EXCEPT ![i] = point])
    BY <1>18 DEF ChipInPoint
  <2>2. [chipIn EXCEPT ![i] = point] \in [Seats -> Int]
    BY AttrAssumption DEF TypeOK
  <2>3. QED
    BY <1>16, <1>18, <2>1, <2>2 DEF ChipInPoint
<1>19. ASSUME NEW c \in Clients, NEW point \in Points, SelectMultiple(c, point)
       PROVE  RoundInv'
  <2>1. PICK i \in Seats : CheckAllSelectMultiple([multiple EXCEPT ![i] = point])
    BY <1>19 DEF SelectMultiple
  <2>2. [multiple EXCEPT ![i] = point] \in [Seats -> Int]
    BY AttrAssumption DEF TypeOK
  <2>3. QED
    BY <1>17, <1>19, <2>1, <2>2 DEF SelectMultiple
<1>20. CASE PrepareTick
  BY <1>3, <1>20, OrderTryStartRound DEF PrepareTick, Elapsed, TypeOK
<1>21. CASE QuickStartTimeout
  BY <1>3, <1>21, OrderTryStartRound DEF QuickStartTimeout, Elapsed, TypeOK
<1>22. CASE SelBankerTimeout
  <2>1. Defaults(chipIn) \in [Seats -> Int]
    BY DEF Defaults, TypeOK
  <2>2. QED
    BY <1>16, <1>22, <2>1 DEF SelBankerTimeout, Elapsed
<1>23. CASE SelMultipleTimeout
  <2>1. Defaults(multiple) \in [Seats -> Int]
    BY DEF Defaults, TypeOK
  <2>2. QED
    BY <1>17, <1>23, <2>1 DEF SelMultipleTimeout, Elapsed
<1>24. CASE VoteTimeout \/ SettleAllTimeout \/ DismissRoom
  BY <1>3, <1>24 DEF VoteTimeout, SettleAllTimeout, DismissRoom, AbortGame, RoundInv
<1>25. CASE SettleTimeout
  <2> DEFINE s == [i \in Seats |-> IF i \in Valid THEN "READY" ELSE st[i]]
  <2>1. s \in [Seats -> SeatStatus]
    BY DEF TypeOK, SeatStatus
  <2>2. \A i \in Seats : seat[i] # None => s[i] \notin {"SORT", "COMPARE"}
    BY DEF Valid, ValidIn
  <2>3. TryStartRound("settle", s) /\ status = "settle" /\ UNCHANGED <<seat, settled>>
    BY <1>25 DEF SettleTimeout, Elapsed
  <2> HIDE DEF s
  <2>4. QED
    BY <1>3, <2>1, <2>2, <2>3, OrderTryStartRound
<1>26. CASE EraseClosed
  BY <1>26, RoundsAssumption DEF EraseClosed, RoundInv
<1>27. ASSUME NEW c \in Clients, Exchange(c) \/ Elsewhere(c)
       PROVE  RoundInv'
  BY <1>3, <1>27 DEF Exchange, Elsewhere, Login, Disconnect, Evict, EnterOther,
     LeaveOther, Recharge, RoundInv, Resting
<1>28. QED
  BY <1>4, <1>5, <1>6, <1>7, <1>8, <1>9, <1>10, <1>11, <1>13, <1>14, <1>15, <1>18,
     <1>19, <1>20, <1>21, <1>22, <1>23, <1>24, <1>25, <1>26, <1>27
     DEF Next, Message, Timer

\* The rounds of a game are dealt and settled in turn and are never more than
\* were agreed on, for every number of seats and rounds and every way to pay and
\* to play (tryStartRound, trySettleGame, the ballots and the timers).
THEOREM RoundsInOrder == Spec => []RoundOrder
<1>1. TypeOK /\ OrderInv => RoundOrder
  BY DEF TypeOK, OrderInv, RoundInv, RoundOrder
<1>2. Init => TypeOK /\ OrderInv
  BY InitType, OrderInit
<1>3. TypeOK /\ OrderInv /\ [Next]_vars => (TypeOK /\ OrderInv)'
  BY NextType, OrderNext
<1>4. QED
  BY <1>1, <1>2, <1>3, PTL DEF Spec

-----------------------------------------------------------------------------
(*** The clients and their seats ***)

\* The actions of the game proper: they move nobody, and open or close no room.
InGame(c) ==
  \/ GiveUpPlaying(c)
  \/ \E ready \in BOOLEAN : ReadyFlag(c, ready)
  \/ BringOut(c)
  \/ \E v \in Votes : VoteFoAbortGame(c, v)
  \/ QuickStart(c)
  \/ \E v \in Votes : VoteForQuickStart(c, v)
  \/ \E point \in Points : ChipInPoint(c, point) \/ SelectMultiple(c, point)

GameTimer ==
  \/ PrepareTick \/ QuickStartTimeout \/ SelBankerTimeout \/ SelMultipleTimeout
  \/ SettleTimeout

LEMMA TryStartRoundPhase ==
  ASSUME TypeOK, NEW s \in [Seats -> SeatStatus], NEW ph \in GameStatus,
         TryStartRound(ph, s)
  PROVE  status' \in {ph, "selBanker", "play"}
BY StartRoundType DEF TryStartRound

LEMMA CheckAllVotesPhase ==
  ASSUME TypeOK, NEW v \in [Seats -> Votes], CheckAllVotes(v)
  PROVE  status' \in {status, "play", "vote", "settleAll"}
<1>1. CASE SettleAll(settled, result, OwnerBill)
  BY <1>1, OwnerBillType, SettleAllType
<1>2. CASE status' \in {status, "play", "vote"}
  BY <1>2
<1>3. QED
  BY <1>1, <1>2 DEF CheckAllVotes

LEMMA CheckAllVotesQuickStartPhase ==
  ASSUME TypeOK, NEW v \in [Seats -> Votes], CheckAllVotesQuickStart(v)
  PROVE  status' \in {"prepare", "quickStart", "selBanker", "play"}
<1>1. st \in [Seats -> SeatStatus]
  BY DEF TypeOK
<1>2. CASE TryStartRound("quickStart", st)
  BY <1>1, <1>2, TryStartRoundPhase DEF GameStatus
<1>3. QED
  BY <1>2 DEF CheckAllVotesQuickStart

LEMMA TrySettleGamePhase ==
  ASSUME TypeOK, NEW s \in [Seats -> SeatStatus], TrySettleGame(s)
  PROVE  status' \in {status, "settle", "settleAll"}
<1>1. NoBill \in [Clients -> Nat]
  BY DEF NoBill
<1>2. CASE SettleAll(settled + 1, seat, NoBill)
  BY <1>1, <1>2, SettleAllType
<1>3. QED
  BY <1>2 DEF TrySettleGame, LastRound

LEMMA GameMovesNobody ==
  ASSUME TypeOK, GameTimer \/ \E c \in Clients : InGame(c)
  PROVE  /\ UNCHANGED <<seat, conn, roomid>>
         /\ status \notin {"none", "closed"}
         /\ status' \notin {"none", "closed"}
<1> USE DEF clientVars, seatVars
<1>1. UNCHANGED <<seat, conn, roomid>>
  BY DEF GameTimer, InGame, GiveUpPlaying, ReadyFlag, BringOut, VoteFoAbortGame,
     QuickStart, VoteForQuickStart, ChipInPoint, SelectMultiple, PrepareTick,
     QuickStartTimeout, SelBankerTimeout, SelMultipleTimeout, SettleTimeout
<1>2. status \notin {"none", "closed"}
  BY DEF GameTimer, InGame, GiveUpPlaying, ReadyFlag, BringOut, VoteFoAbortGame,
     QuickStart, VoteForQuickStart, ChipInPoint, SelectMultiple, PrepareTick,
     QuickStartTimeout, SelBankerTimeout, SelMultipleTimeout, SettleTimeout, Elapsed
<1>3. ASSUME NEW i \in Seats, NEW v \in Votes
      PROVE  [vote EXCEPT ![i] = v] \in [Seats -> Votes]
  BY DEF TypeOK
<1>4. "AYE" \in Votes
  BY DEF Votes
<1>5. ASSUME NEW c \in Clients, GiveUpPlaying(c)
      PROVE  status' \notin {"none", "closed"}
  BY <1>2, <1>3, <1>4, <1>5, CheckAllVotesPhase DEF GiveUpPlaying
<1>6. ASSUME NEW c \in Clients, NEW ready \in BOOLEAN, ReadyFlag(c, ready)
      PROVE  status' \notin {"none", "closed"}
  <2> DEFINE new == IF ready THEN "READY" ELSE "PREP"
  <2>1. PICK i \in Seats :
          TryStartRound(status, [st EXCEPT ![i] = new]) \/ UNCHANGED status
    BY <1>6 DEF ReadyFlag
  <2>2. [st EXCEPT ![i] = new] \in [Seats -> SeatStatus] /\ status \in GameStatus
    BY DEF TypeOK, SeatStatus
  <2> HIDE DEF new
  <2>3. QED
    BY <1>2, <2>1, <2>2, TryStartRoundPhase
<1>7. ASSUME NEW c \in Clients, BringOut(c)
      PROVE  status' \notin {"none", "closed"}
  <2>1. PICK i \in Seats : TrySettleGame([st EXCEPT ![i] = "COMPARE"])
    BY <1>7 DEF BringOut
  <2>2. [st EXCEPT ![i] = "COMPARE"] \in [Seats -> SeatStatus]
    BY DEF TypeOK, SeatStatus
  <2>3. QED
    BY <1>2, <2>1, <2>2, TrySettleGamePhase
<1>8. ASSUME NEW c \in Clients, NEW v \in Votes, VoteFoAbortGame(c, v)
      PROVE  status' \notin {"none", "closed"}
  BY <1>2, <1>3, <1>8, CheckAllVotesPhase DEF VoteFoAbortGame
<1>9. ASSUME NEW c \in Clients, QuickStart(c)
      PROVE  status' \notin {"none", "closed"}
  BY <1>3, <1>4, <1>9, CheckAllVotesQuickStartPhase DEF QuickStart
<1>10. ASSUME NEW c \in Clients, NEW v \in Votes, VoteForQuickStart(c, v)
       PROVE  status' \notin {"none", "closed"}
  BY <1>2, <1>3, <1>10, CheckAllVotesQuickStartPhase DEF VoteForQuickStart
<1>11. ASSUME NEW c \in Clients, NEW point \in Points,
              ChipInPoint(c, point) \/ SelectMultiple(c, point)
       PROVE  status' \notin {"none", "closed"}
  BY <1>2, <1>11 DEF ChipInPoint, SelectMultiple, CheckAllChipInPoint,
     CheckAllSelectMultiple
<1>12. ASSUME SelBankerTimeout \/ SelMultipleTimeout
       PROVE  status' \notin {"none", "closed"}
  BY <1>2, <1>12 DEF SelBankerTimeout, SelMultipleTimeout, CheckAllChipInPoint,
     CheckAllSelectMultiple
<1>13. ASSUME PrepareTick \/ QuickStartTimeout
       PROVE  status' \notin {"none", "closed"}
  <2>1. PICK ph \in {"prepare", "quickStart"} : TryStartRound(ph, st)
    BY <1>13 DEF PrepareTick, QuickStartTimeout
  <2>2. ph \in GameStatus /\ st \in [Seats -> SeatStatus]
    BY DEF TypeOK, GameStatus
  <2>3. QED
    BY <2>1, <2>2, TryStartRoundPhase
<1>14. ASSUME SettleTimeout
       PROVE  status' \notin {"none", "closed"}
  <2> DEFINE s == [i \in Seats |-> IF i \in Valid THEN "READY" ELSE st[i]]
  <2>1. s \in [Seats -> SeatStatus]
    BY DEF TypeOK, SeatStatus
  <2>2. TryStartRound("settle", s) /\ "settle" \in GameStatus
    BY <1>14 DEF SettleTimeout, GameStatus
  <2> HIDE DEF s
  <2>3. QED
    BY <2>1, <2>2, TryStartRoundPhase
<1>15. status' \notin {"none", "closed"}
  BY <1>5, <1>6, <1>7, <1>8, <1>9, <1>10, <1>11, <1>12, <1>13, <1>14
     DEF GameTimer, InGame
<1>16. QED
  BY <1>1, <1>2, <1>15

LEMMA HereInit == Init => HereMeansSeated
BY DEF Init, HereMeansSeated

\* An abort sends out everyone who has a seat, so nobody is left behind.
LEMMA HereAbort ==
  ASSUME TypeOK, HereMeansSeated, AbortGame
  PROVE  HereMeansSeated'
BY DEF TypeOK, HereMeansSeated, AbortGame, SentOut

LEMMA HereRemove ==
  ASSUME TypeOK, HereMeansSeated, NEW c \in Clients, RemovePlayer(c),
         UNCHANGED <<status, conn>>
  PROVE  HereMeansSeated'
<1>1. PICK i \in Seats : /\ seat[i] = c
                         /\ seat' = [seat EXCEPT ![i] = None]
                         /\ roomid' = [roomid EXCEPT ![c] = "none"]
  BY DEF RemovePlayer, IsSeatOf
<1>2. ASSUME NEW d \in Clients, roomid'[d] = "here"
      PROVE  Seated(d)' /\ InMemory(d)' /\ status' \notin {"none", "closed"}
  <2>1. d # c /\ roomid[d] = "here"
    BY <1>1, <1>2 DEF TypeOK
  <2>2. PICK j \in Seats : seat[j] = d
    BY <2>1 DEF HereMeansSeated, Seated
  <2>3. j # i
    BY <1>1, <2>1, <2>2
  <2>4. seat'[j] = d
    BY <1>1, <2>2, <2>3 DEF TypeOK
  <2>5. QED
    BY <2>1, <2>4 DEF HereMeansSeated, Seated, InMemory
<1>3. QED
  BY <1>2 DEF HereMeansSeated

LEMMA HereNext == TypeOK /\ HereMeansSeated /\ [Next]_vars => HereMeansSeated'
<1> SUFFICES ASSUME TypeOK, HereMeansSeated, [Next]_vars
             PROVE  HereMeansSeated'
  OBVIOUS
<1> USE DEF seatVars, bankVars, resultVars, clientVars, purseVars
<1>1. CASE GameTimer \/ \E c \in Clients : InGame(c)
  BY <1>1, GameMovesNobody DEF HereMeansSeated, Seated, InMemory
<1>2. ASSUME NEW c \in Clients, CreateGame(c)
      PROVE  HereMeansSeated'
  <2>1. status = "none" /\ status' = "prepare" /\ conn[c] = "online"
    BY <1>2 DEF CreateGame, Online
  <2>2. \A d \in Clients : roomid[d] # "here"
    BY <2>1 DEF HereMeansSeated
  <2>3. \/ /\ seat' = [seat EXCEPT ![1] = c]
           /\ roomid' = [roomid EXCEPT ![c] = "here"]
        \/ UNCHANGED roomid
    BY <1>2 DEF CreateGame
  <2>4. 1 \in Seats
    BY SizeAssumption DEF Seats
  <2>5. UNCHANGED conn
    BY <1>2 DEF CreateGame
  <2>6. QED
    BY <2>1, <2>2, <2>3, <2>4, <2>5 DEF HereMeansSeated, Seated, InMemory, TypeOK
<1>3. ASSUME NEW c \in Clients, JoinGame(c)
      PROVE  HereMeansSeated'
  <2>1. PICK i \in Seats : seat[i] = None /\ seat' = [seat EXCEPT ![i] = c]
    BY <1>3 DEF JoinGame, IsEmptySeat, IsSeatOf
  <2>2. /\ roomid' = [roomid EXCEPT ![c] = "here"]
        /\ conn[c] = "online"
        /\ status \notin {"none", "closed"}
        /\ UNCHANGED <<status, conn>>
    BY <1>3 DEF JoinGame, Online
  <2>3. \A d \in Clients : Seated(d) \/ d = c => Seated(d)'
    BY <2>1, ClientsAssumption DEF Seated, TypeOK
  <2>4. QED
    BY <2>2, <2>3 DEF HereMeansSeated, InMemory, TypeOK
<1>4. ASSUME NEW c \in Clients, GiveUpWaiting(c) \/ GiveUpOver(c)
      PROVE  HereMeansSeated'
  BY <1>4, HereAbort, HereRemove DEF GiveUpWaiting, GiveUpOver
<1>5. CASE VoteTimeout \/ SettleAllTimeout \/ DismissRoom
  BY <1>5, HereAbort DEF VoteTimeout, SettleAllTimeout, DismissRoom
<1>6. CASE EraseClosed
  BY <1>6 DEF EraseClosed, Elapsed, HereMeansSeated
<1>7. ASSUME NEW c \in Clients, NEW t \in Clients, NEW reply \in BOOLEAN,
             ReplyHalfEnter(c, t, reply)
      PROVE  HereMeansSeated'
  BY <1>7 DEF ReplyHalfEnter, HereMeansSeated, Seated, InMemory, TypeOK
<1>8. ASSUME NEW c \in Clients, Exchange(c)
      PROVE  HereMeansSeated'
  BY <1>8 DEF Exchange, HereMeansSeated, Seated, InMemory
<1>9. ASSUME NEW c \in Clients, Elsewhere(c)
      PROVE  HereMeansSeated'
  BY <1>9 DEF Elsewhere, Login, Disconnect, Evict, MayEvict, EnterOther, LeaveOther,
     Recharge, HereMeansSeated, Seated, InMemory, TypeOK
<1>10. CASE UNCHANGED vars
  BY <1>10 DEF vars, HereMeansSeated, Seated, InMemory
<1>11. QED
  BY <1>1, <1>2, <1>3, <1>4, <1>5, <1>6, <1>7, <1>8, <1>9, <1>10
     DEF Next, Message, Timer, InGame, GameTimer

\* A client whom the lobby takes to be in the room has a seat there, is in
\* memory, and the room exists: the handlers' "no such room" and "no such player"
\* branches are never taken while the process lives, and eviction never takes a
\* seated player whose client still points to the room.
THEOREM HereIsSeated == Spec => []HereMeansSeated
<1>1. Init => TypeOK /\ HereMeansSeated
  BY InitType, HereInit
<1>2. TypeOK /\ HereMeansSeated /\ [Next]_vars => (TypeOK /\ HereMeansSeated)'
  BY NextType, HereNext
<1>3. QED
  BY <1>1, <1>2, PTL DEF Spec

-----------------------------------------------------------------------------
(*** Rooms that take nobody in during a game ***)

\* Without late players nobody ever watches, so no ballot, deal or settlement
\* passes anyone over.
NoWitness == \A i \in Seats : st[i] # "WITNESS"

LEMMA NoWitnessStart ==
  ASSUME TypeOK, NEW s \in [Seats -> SeatStatus], NEW ph \in GameStatus,
         \A i \in Seats : s[i] # "WITNESS", TryStartRound(ph, s)
  PROVE  NoWitness'
<1>1. CASE StartRound(s)
  <2> DEFINE dealt == IF PlayType = "banker" THEN "BANKER" ELSE "SORT"
  <2>1. st' = [i \in Seats |-> IF s[i] = "WITNESS" THEN "WITNESS" ELSE dealt]
    BY <1>1 DEF StartRound
  <2>2. QED
    BY <2>1 DEF NoWitness
<1>2. CASE st' = s
  BY <1>2 DEF NoWitness
<1>3. QED
  BY <1>1, <1>2 DEF TryStartRound

LEMMA NoWitnessGame ==
  ASSUME TypeOK, NoWitness, GameTimer \/ \E c \in Clients : InGame(c)
  PROVE  NoWitness'
<1> USE DEF seatVars
<1>1. st \in [Seats -> SeatStatus] /\ status \in GameStatus
  BY DEF TypeOK
<1>2. ASSUME NEW c \in Clients, GiveUpPlaying(c) \/ \E v \in Votes : VoteFoAbortGame(c, v)
      PROVE  NoWitness'
  BY <1>2 DEF GiveUpPlaying, VoteFoAbortGame, NoWitness
<1>3. ASSUME NEW c \in Clients, NEW ready \in BOOLEAN, ReadyFlag(c, ready)
      PROVE  NoWitness'
  <2> DEFINE new == IF ready THEN "READY" ELSE "PREP"
  <2>1. PICK i \in Seats : \/ TryStartRound(status, [st EXCEPT ![i] = new])
                           \/ st' = [st EXCEPT ![i] = new]
    BY <1>3 DEF ReadyFlag
  <2>2. /\ [st EXCEPT ![i] = new] \in [Seats -> SeatStatus]
        /\ \A j \in Seats : [st EXCEPT ![i] = new][j] # "WITNESS"
    BY <1>1 DEF NoWitness, SeatStatus
  <2> HIDE DEF new
  <2>3. QED
    BY <1>1, <2>1, <2>2, NoWitnessStart DEF NoWitness
<1>4. ASSUME NEW c \in Clients, BringOut(c)
      PROVE  NoWitness'
  <2>1. PICK i \in Seats : \/ st' = [st EXCEPT ![i] = "COMPARE"]
                           \/ st' = Rested([st EXCEPT ![i] = "COMPARE"])
    BY <1>4 DEF BringOut, TrySettleGame
  <2>2. QED
    BY <1>1, <2>1 DEF NoWitness, Rested
<1>5. ASSUME NEW v, CheckAllVotesQuickStart(v)
      PROVE  NoWitness'
  <2>1. TryStartRound("quickStart", st) \/ UNCHANGED st
    BY <1>5 DEF CheckAllVotesQuickStart
  <2>2. "quickStart" \in GameStatus
    BY DEF GameStatus
  <2>3. QED
    BY <1>1, <2>1, <2>2, NoWitnessStart DEF NoWitness
<1>6. ASSUME NEW c \in Clients, QuickStart(c) \/ \E v \in Votes : VoteForQuickStart(c, v)
      PROVE  NoWitness'
  <2>1. UNCHANGED st \/ \E v : CheckAllVotesQuickStart(v)
    BY <1>6 DEF QuickStart, VoteForQuickStart
  <2>2. QED
    BY <1>5, <2>1 DEF NoWitness
<1>7. ASSUME NEW ch, CheckAllChipInPoint(ch) \/ CheckAllSelectMultiple(ch)
      PROVE  NoWitness'
  BY <1>1, <1>7 DEF CheckAllChipInPoint, CheckAllSelectMultiple, NoWitness
<1>8. ASSUME NEW c \in Clients, NEW point \in Points,
             ChipInPoint(c, point) \/ SelectMultiple(c, point)
      PROVE  NoWitness'
  BY <1>7, <1>8 DEF ChipInPoint, SelectMultiple
<1>9. CASE SelBankerTimeout \/ SelMultipleTimeout
  BY <1>7, <1>9 DEF SelBankerTimeout, SelMultipleTimeout
<1>10. CASE PrepareTick \/ QuickStartTimeout
  BY <1>1, <1>10, NoWitnessStart DEF PrepareTick, QuickStartTimeout, NoWitness, GameStatus
<1>11. CASE SettleTimeout
  <2> DEFINE s == [i \in Seats |-> IF i \in Valid THEN "READY" ELSE st[i]]
  <2>1. s \in [Seats -> SeatStatus] /\ \A i \in Seats : s[i] # "WITNESS"
    BY <1>1 DEF NoWitness, SeatStatus
  <2>2. TryStartRound("settle", s) /\ "settle" \in GameStatus
    BY <1>11 DEF SettleTimeout, GameStatus
  <2> HIDE DEF s
  <2>3. QED
    BY <2>1, <2>2, NoWitnessStart
<1>12. QED
  BY <1>2, <1>3, <1>4, <1>6, <1>8, <1>9, <1>10, <1>11 DEF GameTimer, InGame

IndexInv == HereMeansSeated /\ SeatedMeansHere /\ NoWitness

LEMMA IndexInit == Init => IndexInv
BY ClientsAssumption
   DEF Init, NoGame, Nobody, NoStatus, IndexInv, HereMeansSeated, SeatedMeansHere,
       NoWitness, Seated

LEMMA IndexAbort ==
  ASSUME AbortGame
  PROVE  SeatedMeansHere' /\ NoWitness'
BY ClientsAssumption DEF AbortGame, Nobody, NoStatus, SeatedMeansHere, NoWitness, Seated

LEMMA IndexRemove ==
  ASSUME TypeOK, SeatedMeansHere, NoWitness, NEW c \in Clients, RemovePlayer(c)
  PROVE  SeatedMeansHere' /\ NoWitness'
<1>1. PICK i \in Seats : /\ seat[i] = c
                         /\ seat' = [seat EXCEPT ![i] = None]
                         /\ st' = [st EXCEPT ![i] = "NONE"]
                         /\ roomid' = [roomid EXCEPT ![c] = "none"]
  BY DEF RemovePlayer, IsSeatOf
<1>2. NoWitness'
  BY <1>1 DEF NoWitness, TypeOK
<1>3. \A j \in Seats : seat'[j] # None => seat'[j] = seat[j] /\ j # i
  BY <1>1 DEF TypeOK
<1>4. \A j, k \in Seats : seat'[j] = seat'[k] /\ seat'[j] # None => j = k
  BY <1>3 DEF SeatedMeansHere
<1>5. ASSUME NEW d \in Clients, NEW j \in Seats, seat'[j] = d
      PROVE  roomid'[d] = "here"
  <2>1. j # i /\ seat[j] = d
    BY <1>3, <1>5, ClientsAssumption
  <2>2. d # c
    BY <1>1, <2>1, ClientsAssumption DEF SeatedMeansHere
  <2>3. QED
    BY <1>1, <2>1, <2>2 DEF SeatedMeansHere, Seated, TypeOK
<1>6. QED
  BY <1>2, <1>4, <1>5 DEF SeatedMeansHere, Seated

\* A client who has no seat takes one, and only one.
LEMMA IndexTake ==
  ASSUME TypeOK, SeatedMeansHere, NEW c \in Clients, roomid[c] # "here",
         NEW i \in Seats, seat' = [seat EXCEPT ![i] = c],
         roomid' = [roomid EXCEPT ![c] = "here"]
  PROVE  SeatedMeansHere'
<1>1. \A j \in Seats : seat[j] # c
  BY DEF SeatedMeansHere, Seated
<1>2. \A j \in Seats : seat'[j] = IF j = i THEN c ELSE seat[j]
  BY DEF TypeOK
<1>3. \A j, k \in Seats : seat'[j] = seat'[k] /\ seat'[j] # None => j = k
  BY <1>1, <1>2 DEF SeatedMeansHere
<1>4. \A d \in Clients : Seated(d)' => roomid'[d] = "here"
  BY <1>1, <1>2 DEF SeatedMeansHere, Seated, TypeOK
<1>5. QED
  BY <1>3, <1>4 DEF SeatedMeansHere

LEMMA IndexNext ==
  ASSUME HalfEnter = FALSE, TypeOK, IndexInv, [Next]_vars
  PROVE  IndexInv'
<1> USE DEF seatVars, bankVars, resultVars, clientVars, purseVars
<1> SUFFICES SeatedMeansHere' /\ NoWitness'
  BY HereNext DEF IndexInv
<1>1. HereMeansSeated /\ SeatedMeansHere /\ NoWitness
  BY DEF IndexInv
<1>2. CASE GameTimer \/ \E c \in Clients : InGame(c)
  <2>1. UNCHANGED <<seat, roomid>>
    BY <1>2, GameMovesNobody
  <2>2. QED
    BY <1>1, <1>2, <2>1, NoWitnessGame DEF SeatedMeansHere, Seated
<1>3. ASSUME NEW c \in Clients, CreateGame(c)
      PROVE  SeatedMeansHere' /\ NoWitness'
  <2>1. 1 \in Seats
    BY SizeAssumption DEF Seats
  <2>2. \/ /\ seat' = [seat EXCEPT ![1] = c]
           /\ st' = [st EXCEPT ![1] = "PREP"]
           /\ roomid' = [roomid EXCEPT ![c] = "here"]
        \/ UNCHANGED <<seat, st, roomid>>
    BY <1>3 DEF CreateGame
  <2>3. roomid[c] # "here"
    BY <1>3 DEF CreateGame
  <2>4. NoWitness'
    BY <1>1, <2>1, <2>2 DEF NoWitness, TypeOK
  <2>5. SeatedMeansHere'
    BY <1>1, <2>1, <2>2, <2>3, IndexTake DEF SeatedMeansHere, Seated
  <2>6. QED
    BY <2>4, <2>5
<1>4. ASSUME NEW c \in Clients, JoinGame(c)
      PROVE  SeatedMeansHere' /\ NoWitness'
  <2>1. PICK i \in Seats :
          /\ seat' = [seat EXCEPT ![i] = c]
          /\ st' = [st EXCEPT ![i] = IF rounds = 0 /\ status = "prepare"
                                       THEN "PREP" ELSE "WITNESS"]
    BY <1>4 DEF JoinGame
  <2>2. status = "prepare" /\ rounds = 0
    BY <1>4 DEF JoinGame, MayEnter
  <2>3. roomid[c] # "here" /\ roomid' = [roomid EXCEPT ![c] = "here"]
    BY <1>4 DEF JoinGame
  <2>4. NoWitness'
    BY <1>1, <2>1, <2>2 DEF NoWitness, TypeOK
  <2>5. QED
    BY <1>1, <2>1, <2>3, <2>4, IndexTake
<1>5. ASSUME NEW c \in Clients, GiveUpWaiting(c) \/ GiveUpOver(c)
      PROVE  SeatedMeansHere' /\ NoWitness'
  BY <1>1, <1>5, IndexAbort, IndexRemove DEF GiveUpWaiting, GiveUpOver
<1>6. CASE VoteTimeout \/ SettleAllTimeout \/ DismissRoom
  BY <1>6, IndexAbort DEF VoteTimeout, SettleAllTimeout, DismissRoom
<1>7. CASE EraseClosed
  BY <1>7, ClientsAssumption
     DEF EraseClosed, Nobody, NoStatus, SeatedMeansHere, NoWitness, Seated
<1>8. ASSUME NEW c \in Clients, NEW t \in Clients, NEW reply \in BOOLEAN,
             ReplyHalfEnter(c, t, reply)
      PROVE  SeatedMeansHere' /\ NoWitness'
  BY <1>1, <1>8 DEF ReplyHalfEnter, NoWitness
<1>9. ASSUME NEW c \in Clients, Exchange(c) \/ Disconnect(c) \/ Evict(c) \/ Recharge(c)
      PROVE  SeatedMeansHere' /\ NoWitness'
  BY <1>1, <1>9 DEF Exchange, Disconnect, Evict, Recharge, SeatedMeansHere, NoWitness, Seated
<1>10. ASSUME NEW c \in Clients, EnterOther(c) \/ LeaveOther(c)
       PROVE  SeatedMeansHere' /\ NoWitness'
  BY <1>1, <1>10 DEF EnterOther, LeaveOther, SeatedMeansHere, NoWitness, Seated, TypeOK
<1>11. ASSUME NEW c \in Clients, Login(c)
       PROVE  SeatedMeansHere' /\ NoWitness'
  <2>1. ~LostRoom(c)
    BY <1>1 DEF LostRoom, HereMeansSeated
  <2>2. QED
    BY <1>1, <1>11, <2>1 DEF Login, SeatedMeansHere, NoWitness, Seated
<1>12. CASE UNCHANGED vars
  BY <1>1, <1>12 DEF vars, SeatedMeansHere, NoWitness, Seated
<1>13. QED
  BY <1>2, <1>3, <1>4, <1>5, <1>6, <1>7, <1>8, <1>9, <1>10, <1>11, <1>12
     DEF Next, Message, Timer, Elsewhere, InGame, GameTimer

\* When late players are not let in, the seats and the clients' room numbers
\* index each other: nobody has two seats, and no seat is left to a client who
\* believes to be elsewhere.  (With late players a refusal breaks it.)
THEOREM SeatIndex ==
  ASSUME HalfEnter = FALSE
  PROVE  Spec => []SeatedMeansHere
<1>1. Init => TypeOK /\ IndexInv
  BY InitType, IndexInit
<1>2. TypeOK /\ IndexInv /\ [Next]_vars => (TypeOK /\ IndexInv)'
  BY NextType, IndexNext
<1>3. IndexInv => SeatedMeansHere
  BY DEF IndexInv
<1>4. QED
  BY <1>1, <1>2, <1>3, PTL DEF Spec

-----------------------------------------------------------------------------
(*** Seats ***)

\* From the first deal to the final settlement of a room that takes nobody in
\* during a game, no seat is taken or left but by the end of the room.
THEOREM SeatsStayFrozen ==
  ASSUME HalfEnter = FALSE
  PROVE  Spec => SeatsFrozen
<1> USE DEF seatVars, bankVars, resultVars, clientVars, purseVars
<1>1. ASSUME TypeOK, OrderInv, [Next]_vars, rounds > 0,
             status \notin {"settleAll", "closed"}
      PROVE  seat' = seat \/ status' = "closed"
  <2>1. CASE GameTimer \/ \E c \in Clients : InGame(c)
    BY <1>1, <2>1, GameMovesNobody
  <2>2. ASSUME NEW c \in Clients, CreateGame(c) \/ JoinGame(c)
        PROVE  FALSE
    BY <1>1, <2>2 DEF CreateGame, JoinGame, MayEnter, Online, OrderInv, RoundInv
  <2>3. ASSUME NEW c \in Clients, GiveUpWaiting(c) \/ GiveUpOver(c)
        PROVE  FALSE
    BY <1>1, <2>3 DEF GiveUpWaiting, GiveUpOver
  <2>4. CASE VoteTimeout \/ SettleAllTimeout \/ DismissRoom
    BY <2>4 DEF VoteTimeout, SettleAllTimeout, DismissRoom, AbortGame
  <2>5. CASE EraseClosed
    BY <1>1, <2>5 DEF EraseClosed, Elapsed
  <2>6. ASSUME NEW c \in Clients,
               Exchange(c) \/ Elsewhere(c)
               \/ \E t \in Clients, reply \in BOOLEAN : ReplyHalfEnter(c, t, reply)
        PROVE  seat' = seat
    BY <2>6 DEF Exchange, Elsewhere, ReplyHalfEnter, Login, Disconnect, Evict,
       EnterOther, LeaveOther, Recharge
  <2>7. CASE UNCHANGED vars
    BY <2>7 DEF vars
  <2>8. QED
    BY <1>1, <2>1, <2>2, <2>3, <2>4, <2>5, <2>6, <2>7
       DEF Next, Message, Timer, InGame, GameTimer
<1>2. Init => TypeOK /\ OrderInv
  BY InitType, OrderInit
<1>3. TypeOK /\ OrderInv /\ [Next]_vars => (TypeOK /\ OrderInv)'
  BY NextType, OrderNext
<1>4. TypeOK /\ OrderInv /\ [Next]_vars =>
        [rounds > 0 /\ status \notin {"settleAll", "closed"} =>
           seat' = seat \/ status' = "closed"]_vars
  BY <1>1
<1>5. QED
  BY <1>2, <1>3, <1>4, PTL DEF Spec, SeatsFrozen

-----------------------------------------------------------------------------
(*** Payment ***)

LEMMA ChargeNothing ==
  ASSUME TypeOK, NEW bill, bill = NoBill, Pay(bill)
  PROVE  UNCHANGED charged
<1>1. charged' = [c \in Clients |-> charged[c] + 0]
  BY DEF Pay, NoBill
<1>2. \A c \in Clients : charged[c] + 0 = charged[c]
  BY DEF TypeOK
<1>3. QED
  BY <1>1, <1>2 DEF TypeOK

\* When the winners do not pay, a final settlement charges nobody.
LEMMA SettleAllIsFree ==
  ASSUME TypeOK, Payor # "winner", NEW n, NEW res, NEW bill, bill = NoBill,
         SettleAll(n, res, bill)
  PROVE  UNCHANGED charged
BY ChargeNothing DEF SettleAll

LEMMA CheckAllVotesIsFree ==
  ASSUME TypeOK, Payor # "winner", NEW v, CheckAllVotes(v)
  PROVE  UNCHANGED charged
<1>1. OwnerBill = NoBill
  BY DEF OwnerBill, NoBill
<1>2. QED
  BY <1>1, SettleAllIsFree DEF CheckAllVotes, purseVars

LEMMA TrySettleGameIsFree ==
  ASSUME TypeOK, Payor # "winner", NEW s, TrySettleGame(s)
  PROVE  UNCHANGED charged
BY SettleAllIsFree DEF TrySettleGame, purseVars

\* What the first deal takes: a client with one seat is in memory, so he is
\* charged, and once.
LEMMA FirstBill ==
  ASSUME TypeOK, IndexInv, Payor # "winner", NEW s, \A i \in Seats : s[i] # "WITNESS",
         NEW c \in Clients
  PROVE  FirstDealBill(s)[c] = IF Seated(c) THEN Due(c) ELSE 0
<1> DEFINE mine == {i \in Seats : seat[i] = c /\ s[i] # "WITNESS"}
<1>1. FirstDealBill(s)[c] =
        IF mine = {} \/ ~InMemory(c) THEN 0
        ELSE CASE Payor = "banker" -> IF c = owner THEN Total * Cardinality(mine) ELSE 0
               [] Payor = "aa"     -> Price * Cardinality(mine)
               [] Payor = "winner" -> 0
  BY DEF FirstDealBill
<1>2. CASE ~Seated(c)
  <2>1. mine = {}
    BY <1>2 DEF Seated
  <2>2. QED
    BY <1>1, <1>2, <2>1
<1>3. CASE Seated(c)
  <2>1. InMemory(c)
    BY <1>3 DEF IndexInv, HereMeansSeated, SeatedMeansHere
  <2>2. PICK i \in Seats : seat[i] = c
    BY <1>3 DEF Seated
  <2>3. mine = {i}
    BY <2>2, ClientsAssumption DEF IndexInv, SeatedMeansHere
  <2>4. Cardinality(mine) = 1
    BY <2>3, FS_Singleton
  <2> HIDE DEF mine
  <2>5. mine # {} /\ Price * Cardinality(mine) = Price /\ Total * Cardinality(mine) = Total
    BY <2>3, <2>4, PriceTypes
  <2>6. Payor \in {"aa", "banker"}
    BY AttrAssumption
  <2>7. QED
    BY <1>1, <1>3, <2>1, <2>5, <2>6 DEF Due
<1>4. QED
  BY <1>2, <1>3

LEMMA PaidStart ==
  ASSUME TypeOK, IndexInv, PaidOnce, Payor # "winner",
         NEW ph, NEW s, \A i \in Seats : s[i] # "WITNESS",
         TryStartRound(ph, s), UNCHANGED <<seat, owner>>
  PROVE  PaidOnce'
<1>1. CASE StartRound(s) /\ rounds = 0
  <2>1. \A c \in Clients : charged'[c] = FirstDealBill(s)[c]
    <3>1. \A c \in Clients : charged[c] = 0
      BY <1>1 DEF PaidOnce
    <3>2. charged' = [c \in Clients |-> charged[c] + FirstDealBill(s)[c]]
      BY <1>1 DEF StartRound, Pay, DealBill
    <3>3. FirstDealBill(s) \in [Clients -> Nat]
      BY FirstDealBillType
    <3>4. QED
      BY <3>1, <3>2, <3>3
  <2>2. rounds' = 1
    BY <1>1 DEF StartRound
  <2>3. QED
    BY <2>1, <2>2, FirstBill DEF PaidOnce, Due, Seated
<1>2. CASE StartRound(s) /\ rounds # 0
  <2>1. UNCHANGED charged
    BY <1>2, ChargeNothing DEF StartRound, DealBill
  <2>2. rounds > 0 /\ rounds' = rounds + 1
    BY <1>2 DEF StartRound, TypeOK
  <2>3. QED
    BY <2>1, <2>2 DEF PaidOnce, Due, Seated, TypeOK
<1>3. CASE UNCHANGED <<rounds, charged>>
  BY <1>3 DEF PaidOnce, Due, Seated
<1>4. QED
  BY <1>1, <1>2, <1>3 DEF TryStartRound, purseVars
LEMMA PaidGame ==
  ASSUME TypeOK, IndexInv, PaidOnce, Payor # "winner",
         GameTimer \/ \E c \in Clients : InGame(c)
  PROVE  PaidOnce'
<1> USE DEF seatVars, bankVars, resultVars, clientVars, purseVars
<1>1. NoWitness
  BY DEF IndexInv
<1>2. UNCHANGED <<rounds, owner, seat, charged>> => PaidOnce'
  BY DEF PaidOnce, Due, Seated
<1>3. ASSUME NEW c \in Clients, GiveUpPlaying(c) \/ \E v \in Votes : VoteFoAbortGame(c, v)
      PROVE  PaidOnce'
  BY <1>2, <1>3, CheckAllVotesIsFree DEF GiveUpPlaying, VoteFoAbortGame
<1>4. ASSUME NEW c \in Clients, BringOut(c)
      PROVE  PaidOnce'
  BY <1>2, <1>4, TrySettleGameIsFree DEF BringOut
<1>5. ASSUME NEW c \in Clients, NEW ready \in BOOLEAN, ReadyFlag(c, ready)
      PROVE  PaidOnce'
  <2> DEFINE s(i) == [st EXCEPT ![i] = "READY"]
  <2>1. UNCHANGED <<seat, owner>>
    BY <1>5 DEF ReadyFlag
  <2>2. \/ \E i \in Seats : TryStartRound(status, s(i))
        \/ UNCHANGED <<rounds, charged>>
    BY <1>5 DEF ReadyFlag
  <2>3. \A i, j \in Seats : s(i)[j] # "WITNESS"
    BY <1>1 DEF NoWitness, TypeOK
  <2> HIDE DEF s
  <2>4. QED
    BY <1>2, <2>1, <2>2, <2>3, PaidStart
<1>6. ASSUME NEW v, CheckAllVotesQuickStart(v), UNCHANGED <<owner, seat>>
      PROVE  PaidOnce'
  BY <1>1, <1>2, <1>6, PaidStart DEF CheckAllVotesQuickStart, NoWitness
<1>7. ASSUME NEW c \in Clients, QuickStart(c) \/ \E v \in Votes : VoteForQuickStart(c, v)
      PROVE  PaidOnce'
  <2>1. UNCHANGED <<owner, seat>>
    BY <1>7 DEF QuickStart, VoteForQuickStart
  <2>2. UNCHANGED <<rounds, charged>> \/ \E v : CheckAllVotesQuickStart(v)
    BY <1>7 DEF QuickStart, VoteForQuickStart
  <2>3. QED
    BY <1>2, <1>6, <2>1, <2>2
<1>8. ASSUME NEW c \in Clients, NEW point \in Points,
             ChipInPoint(c, point) \/ SelectMultiple(c, point)
      PROVE  PaidOnce'
  BY <1>2, <1>8 DEF ChipInPoint, SelectMultiple
<1>9. CASE SelBankerTimeout \/ SelMultipleTimeout
  BY <1>2, <1>9 DEF SelBankerTimeout, SelMultipleTimeout
<1>10. CASE PrepareTick \/ QuickStartTimeout
  BY <1>1, <1>10, PaidStart DEF PrepareTick, QuickStartTimeout, NoWitness
<1>11. CASE SettleTimeout
  <2> DEFINE s == [i \in Seats |-> IF i \in Valid THEN "READY" ELSE st[i]]
  <2>1. TryStartRound("settle", s) /\ UNCHANGED <<seat, owner>>
    BY <1>11 DEF SettleTimeout
  <2>2. \A i \in Seats : s[i] # "WITNESS"
    BY <1>1 DEF NoWitness
  <2> HIDE DEF s
  <2>3. QED
    BY <2>1, <2>2, PaidStart
<1>12. QED
  BY <1>3, <1>4, <1>5, <1>7, <1>8, <1>9, <1>10, <1>11 DEF GameTimer, InGame

\* Leaving and the end of a room take seats away, and nobody's money.
LEMMA PaidLeave ==
  ASSUME TypeOK, PaidOnce, UNCHANGED <<rounds, owner, charged>>,
         \A c \in Clients : Seated(c)' => Seated(c) \/ rounds = 0
  PROVE  PaidOnce'
BY DEF PaidOnce, Due

LEMMA PaidNext ==
  ASSUME HalfEnter = FALSE, Payor # "winner", TypeOK, OrderInv, IndexInv, PaidOnce,
         [Next]_vars
  PROVE  PaidOnce'
<1> USE DEF seatVars, bankVars, resultVars, clientVars, purseVars
<1>1. CASE GameTimer \/ \E c \in Clients : InGame(c)
  BY <1>1, PaidGame
<1>2. ASSUME NEW c \in Clients, CreateGame(c)
      PROVE  PaidOnce'
  <2>1. rounds = 0 /\ UNCHANGED <<rounds, charged>>
    BY <1>2 DEF CreateGame, Online, OrderInv, RoundInv
  <2>2. QED
    BY <2>1 DEF PaidOnce
<1>3. ASSUME NEW c \in Clients, JoinGame(c)
      PROVE  PaidOnce'
  <2>1. rounds = 0 /\ UNCHANGED <<rounds, owner, charged>>
    BY <1>3 DEF JoinGame, MayEnter
  <2>2. QED
    BY <2>1, PaidLeave
<1>4. ASSUME NEW c \in Clients, GiveUpWaiting(c) \/ GiveUpOver(c)
      PROVE  PaidOnce'
  <2>1. UNCHANGED <<rounds, owner, charged>>
    BY <1>4 DEF GiveUpWaiting, GiveUpOver
  <2>2. AbortGame \/ RemovePlayer(c)
    BY <1>4 DEF GiveUpWaiting, GiveUpOver
  <2>3. \A i \in Seats : seat'[i] \in {None, seat[i]}
    BY <2>2 DEF AbortGame, RemovePlayer, Nobody, TypeOK
  <2>4. \A d \in Clients : Seated(d)' => Seated(d)
    BY <2>3, ClientsAssumption DEF Seated
  <2>5. QED
    BY <2>1, <2>4, PaidLeave
<1>5. CASE VoteTimeout \/ SettleAllTimeout \/ DismissRoom
  <2>1. UNCHANGED <<rounds, owner, charged>>
    BY <1>5 DEF VoteTimeout, SettleAllTimeout, DismissRoom
  <2>2. \A d \in Clients : ~Seated(d)'
    BY <1>5, ClientsAssumption
       DEF VoteTimeout, SettleAllTimeout, DismissRoom, AbortGame, Nobody, Seated
  <2>3. QED
    BY <2>1, <2>2, PaidLeave
<1>6. CASE EraseClosed
  BY <1>6 DEF EraseClosed, NoBill, PaidOnce
<1>7. ASSUME NEW c \in Clients,
             Exchange(c) \/ Elsewhere(c)
             \/ \E t \in Clients, reply \in BOOLEAN : ReplyHalfEnter(c, t, reply)
      PROVE  PaidOnce'
  <2>1. UNCHANGED <<rounds, owner, seat, charged>>
    BY <1>7 DEF Exchange, Elsewhere, ReplyHalfEnter, Login, Disconnect, Evict,
       EnterOther, LeaveOther, Recharge
  <2>2. QED
    BY <2>1 DEF PaidOnce, Due, Seated
<1>8. CASE UNCHANGED vars
  BY <1>8 DEF vars, PaidOnce, Due, Seated
<1>9. QED
  BY <1>1, <1>2, <1>3, <1>4, <1>5, <1>6, <1>7, <1>8
     DEF Next, Message, Timer, InGame, GameTimer

\* When the owner pays for all, or each player for himself, the price of a game
\* is taken once from those who owe it and from nobody else, however often the
\* start is tried again, the players leave and the room is given up.
THEOREM PaysOnce ==
  ASSUME HalfEnter = FALSE, Payor # "winner"
  PROVE  Spec => []PaidOnce
<1> DEFINE Inv == TypeOK /\ OrderInv /\ IndexInv /\ PaidOnce
<1>1. Init => Inv
  BY InitType, OrderInit, IndexInit DEF Init, NoGame, NoBill, PaidOnce
<1>2. Inv /\ [Next]_vars => Inv'
  BY NextType, OrderNext, IndexNext, PaidNext
<1>3. Inv => PaidOnce
  OBVIOUS
<1>4. QED
  BY <1>1, <1>2, <1>3, PTL DEF Spec
\* Of a game that nobody has paid nothing is collected.
LEMMA NothingCollected ==
  ASSUME charged = NoBill
  PROVE  Collected = 0
BY SumOfZeros, ClientsAssumption DEF NoBill, Collected

\* The winners' shares, summed over those who hold the seats.
LEMMA SharesAddUp ==
  ASSUME NEW W \in SUBSET Seats, NEW who, \A i \in W : who[i] \in Clients, NEW share \in Nat
  PROVE  SumFunctionOnSet([c \in Clients |-> share * Cardinality({i \in W : who[i] = c})], Clients)
           = share * Cardinality(W)
<1> DEFINE K(A, c) == Cardinality({i \in A : who[i] = c})
           F(A) == [c \in Clients |-> share * K(A, c)]
           Good == {A \in SUBSET W : SumFunctionOnSet(F(A), Clients) = share * Cardinality(A)}
<1>1. IsFiniteSet(Clients) /\ IsFiniteSet(W)
  BY ClientsAssumption, SeatsFinite
<1>2. ASSUME NEW A \in SUBSET W, NEW c \in Clients
      PROVE  K(A, c) \in Nat /\ F(A)[c] = share * K(A, c) /\ F(A)[c] \in Int
  <2>1. {i \in A : who[i] = c} \in SUBSET Seats
    OBVIOUS
  <2>2. K(A, c) \in Nat
    BY <2>1, SeatsFinite
  <2> HIDE DEF K
  <2>3. QED
    BY <2>2
<1>3. {} \in Good
  <2>1. \A c \in Clients : {i \in {} : who[i] = c} = {}
    OBVIOUS
  <2>2. \A c \in Clients : F({})[c] = 0
    BY <2>1, FS_EmptySet
  <2>3. SumFunctionOnSet(F({}), Clients) = 0
    <3> HIDE DEF F
    <3> QED BY <1>1, <2>2, SumOfZeros
  <2>4. Cardinality({}) = 0
    BY FS_EmptySet
  <2>5. QED
    BY <2>3, <2>4
<1>4. ASSUME NEW A \in SUBSET W, NEW x \in W, A \in Good, x \notin A
      PROVE  A \union {x} \in Good
  <2> DEFINE a == who[x]
             B == A \union {x}
  <2>1. a \in Clients /\ B \in SUBSET W
    OBVIOUS
  <2>2. ASSUME NEW c \in Clients
        PROVE  K(B, c) = IF c = a THEN K(A, c) + 1 ELSE K(A, c)
    <3>1. {i \in B : who[i] = c} = IF c = a THEN {i \in A : who[i] = c} \union {x}
                                           ELSE {i \in A : who[i] = c}
      OBVIOUS
    <3>2. IsFiniteSet({i \in A : who[i] = c}) /\ x \notin {i \in A : who[i] = c}
      BY <1>1, <1>4, FS_Subset
    <3>3. Cardinality({i \in A : who[i] = c} \union {x}) = Cardinality({i \in A : who[i] = c}) + 1
      BY <3>2, FS_AddElement
    <3>4. QED
      BY <3>1, <3>3
  <2>3. \A c \in Clients : /\ K(A, c) \in Nat /\ K(B, c) \in Nat
                           /\ F(A)[c] = share * K(A, c) /\ F(B)[c] = share * K(B, c)
                           /\ F(A)[c] \in Int /\ F(B)[c] \in Int
    BY <1>2, <2>1
  <2>4. IsFiniteSet(A) /\ Cardinality(B) = Cardinality(A) + 1 /\ Cardinality(A) \in Nat
    BY <1>1, <1>4, FS_Subset, FS_AddElement, FS_CardinalityType
  <2>5. SumFunctionOnSet(F(A), Clients) = share * Cardinality(A)
    BY <1>4
  <2> HIDE DEF F, K, B, a
  <2> DEFINE f == F(A)
             g == F(B)
             S == Clients \ {a}
  <2>6. \A c \in S : f[c] \in Int /\ g[c] = f[c]
    BY <2>2, <2>3
  <2>7. f[a] \in Int /\ g[a] = f[a] + share
    <3>1. K(A, a) \in Nat /\ K(B, a) = K(A, a) + 1
      BY <2>1, <2>2, <2>3
    <3>2. share * (K(A, a) + 1) = share * K(A, a) + share
      BY <3>1
    <3>3. QED
      BY <2>1, <2>3, <3>1, <3>2
  <2>8. \A c \in Clients : f[c] \in Int /\ g[c] \in Int
    BY <2>3
  <2> HIDE DEF f, g
  <2>9. /\ SumFunctionOnSet(f, Clients) = f[a] + SumFunctionOnSet(f, S)
        /\ SumFunctionOnSet(g, Clients) = g[a] + SumFunctionOnSet(g, S)
    BY <1>1, <2>1, <2>8, SumTakesOut
  <2>10. IsFiniteSet(S)
    BY <1>1, FS_Subset
  <2> HIDE DEF S
  <2>11. SumFunctionOnSet(g, S) = SumFunctionOnSet(f, S) /\ SumFunctionOnSet(f, S) \in Int
    BY <2>6, <2>10, SumOfSame, SumIsInt
  <2>12. SumFunctionOnSet(g, Clients) = SumFunctionOnSet(f, Clients) + share
    BY <2>7, <2>9, <2>11
  <2>13. share * Cardinality(B) = share * Cardinality(A) + share
    <3> DEFINE n == Cardinality(A)
    <3>1. n \in Nat /\ Cardinality(B) = n + 1
      BY <2>4
    <3> HIDE DEF n
    <3>2. share * (n + 1) = share * n + share
      BY <3>1
    <3>3. QED
      BY <3>1, <3>2 DEF n
  <2>14. SumFunctionOnSet(g, Clients) = share * Cardinality(B)
    BY <2>5, <2>12, <2>13 DEF f
  <2>15. QED
    BY <2>1, <2>14 DEF g, B
<1> HIDE DEF Good
<1>5. W \in Good
  BY <1>1, <1>3, <1>4, FiniteSetInduction
<1>6. QED
  BY <1>5 DEF Good

\* A division that leaves something over, and leaves nobody free.
LEMMA SharesFit ==
  ASSUME NEW n \in 1 .. PlayerSize
  PROVE  /\ Total \div n \in Nat /\ (Total \div n) * n <= Total
         /\ Price > 0 => (Total \div n) * n > 0
<1>1. PlayerSize \in Nat /\ PlayerSize >= 1 /\ Price \in Nat /\ n \in Nat \ {0} /\ n <= PlayerSize
  BY SizeAssumption, MoneyAssumption
<1> DEFINE t == Total
           q == t \div n
<1>2. t \in Nat
  BY PriceTypes
<1>3. Price > 0 => t >= n
  <2>1. Price > 0 => Price * PlayerSize >= PlayerSize
    BY <1>1
  <2>2. QED
    BY <1>1, <2>1 DEF Total
<1> HIDE DEF t
<1>4. q \in Nat /\ t % n \in 0 .. n - 1 /\ t = n * q + (t % n)
  BY <1>1, <1>2
<1> HIDE DEF q
<1>5. n * q <= t /\ n * q = q * n /\ q * n \in Nat
  <2> DEFINE r == t % n
             p == n * q
  <2>1. p \in Nat /\ p = q * n
    BY <1>1, <1>4
  <2>2. r \in Nat /\ t = p + r
    BY <1>1, <1>4
  <2> HIDE DEF p, r
  <2>3. p <= t
    BY <1>2, <2>1, <2>2
  <2>4. QED
    BY <2>1, <2>3 DEF p
<1>6. Price > 0 => q # 0
  BY <1>1, <1>2, <1>3, <1>4
<1>7. q # 0 => q * n > 0
  BY <1>1, <1>4
<1>8. QED
  BY <1>4, <1>5, <1>6, <1>7 DEF q, t

\* Who has what of a game that the winners pay, and when.
PurseInv ==
  up => /\ status \notin {"settleAll", "closed"} => charged = NoBill
        /\ settled = Rounds => Collected <= Total /\ (Price > 0 => Collected > 0)

LEMMA DealIsFree ==
  ASSUME TypeOK, Payor = "winner", NEW ph, NEW s, TryStartRound(ph, s)
  PROVE  UNCHANGED charged
<1>1. FirstDealBill(s) = NoBill
  BY DEF FirstDealBill, NoBill
<1>2. QED
  BY <1>1, ChargeNothing DEF TryStartRound, StartRound, DealBill, purseVars

LEMMA QuickBallotIsFree ==
  ASSUME TypeOK, Payor = "winner", NEW v, CheckAllVotesQuickStart(v)
  PROVE  UNCHANGED charged
BY DealIsFree DEF CheckAllVotesQuickStart, purseVars

\* The last settlement collects the price, and does it once.
LEMMA LastSettlement ==
  ASSUME TypeOK, Payor = "winner", charged = NoBill, up',
         NEW n \in Nat \ {0}, SettleAll(n, seat, NoBill)
  PROVE  /\ status' = "settleAll"
         /\ Collected' <= Total /\ (Price > 0 => Collected' > 0)
<1>1. PICK W \in BigWinners(n) :
        /\ {i \in W : InMemory(seat[i])} = W
        /\ status' = "settleAll"
        /\ Pay(WinnersBill(NoBill, W, W, seat))
  BY DEF SettleAll
<1>2. W \in SUBSET Seats /\ W # {}
  BY SeatsFinite DEF BigWinners
<1>3. \A i \in W : seat[i] \in Clients
  BY <1>1 DEF InMemory
<1> DEFINE m == Cardinality(W)
           share == Total \div m
           f == [c \in Clients |-> share * Cardinality({i \in W : seat[i] = c})]
<1>4. m \in 1 .. PlayerSize
  <2>1. IsFiniteSet(Seats) /\ Cardinality(Seats) = PlayerSize
    BY SizeAssumption, FS_Interval DEF Seats
  <2>2. m \in Nat /\ m <= PlayerSize
    BY <1>2, <2>1, FS_Subset, FS_CardinalityType
  <2>3. m # 0
    BY <1>2, SeatsFinite, FS_EmptySet
  <2>4. QED
    BY <2>2, <2>3, SizeAssumption
<1>5. share \in Nat /\ share * m <= Total /\ (Price > 0 => share * m > 0)
  BY <1>4, SharesFit
<1>6. charged' = f
  <2>1. charged' = [c \in Clients |-> charged[c] + WinnersBill(NoBill, W, W, seat)[c]]
    BY <1>1 DEF Pay
  <2>2. ASSUME NEW c \in Clients
        PROVE  charged[c] + WinnersBill(NoBill, W, W, seat)[c] = f[c]
    <3>1. charged[c] = 0 /\ NoBill[c] = 0
      BY DEF NoBill
    <3> DEFINE k == Cardinality({i \in W : seat[i] = c})
    <3>2. WinnersBill(NoBill, W, W, seat)[c] = NoBill[c] + share * k /\ f[c] = share * k
      BY DEF WinnersBill
    <3>3. k \in Nat
      BY <1>2, SeatsFinite
    <3> HIDE DEF k, m, share
    <3>4. share * k \in Nat
      BY <1>5, <3>3
    <3> HIDE DEF f
    <3>5. QED
      BY <3>1, <3>2, <3>4
  <2>3. QED
    BY <2>1, <2>2
<1>7. SumFunctionOnSet(f, Clients) = share * m
  <2> HIDE DEF share
  <2> QED BY <1>2, <1>3, <1>5, SharesAddUp
<1> HIDE DEF f, share
<1>8. Collected' = share * m
  BY <1>6, <1>7 DEF Collected
<1>9. QED
  BY <1>1, <1>5, <1>8

\* A step that collects nothing and settles no round.
LEMMA PurseStays ==
  ASSUME PurseInv, up, UNCHANGED <<charged, settled>>,
         status' \notin {"settleAll", "closed"} => status \notin {"settleAll", "closed"}
  PROVE  PurseInv'
BY DEF PurseInv, Collected

LEMMA PurseGame ==
  ASSUME TypeOK, OrderInv, OrderInv', PurseInv, Payor = "winner", up, up',
         GameTimer \/ \E c \in Clients : InGame(c)
  PROVE  PurseInv'
<1> USE DEF seatVars, bankVars, resultVars, clientVars, purseVars
<1>1. /\ status \notin {"settleAll", "closed"}
      /\ charged = NoBill /\ settled # Rounds
  <2>1. status \notin {"settleAll", "closed"}
    BY DEF GameTimer, InGame, GiveUpPlaying, ReadyFlag, BringOut, VoteFoAbortGame,
       QuickStart, VoteForQuickStart, ChipInPoint, SelectMultiple, PrepareTick,
       QuickStartTimeout, SelBankerTimeout, SelMultipleTimeout, SettleTimeout, Elapsed
  <2>2. settled # Rounds
    BY <2>1, RoundsAssumption DEF OrderInv, RoundInv, TypeOK, GameStatus
  <2>3. QED
    BY <2>1, <2>2 DEF PurseInv
<1>2. UNCHANGED <<charged, settled>> => PurseInv'
  BY <1>1, PurseStays
<1>3. ASSUME NEW c \in Clients, GiveUpPlaying(c) \/ \E v \in Votes : VoteFoAbortGame(c, v)
      PROVE  PurseInv'
  <2>1. UNCHANGED settled /\ (UNCHANGED charged \/ \E v : CheckAllVotes(v))
    BY <1>3 DEF GiveUpPlaying, VoteFoAbortGame
  <2>2. ASSUME NEW v, CheckAllVotes(v)
        PROVE  UNCHANGED charged \/ status' = "settleAll"
    BY <2>2, AttrAssumption DEF CheckAllVotes, SettleAll
  <2>3. UNCHANGED charged \/ status' = "settleAll"
    BY <2>1, <2>2
  <2>4. QED
    BY <1>1, <1>2, <2>1, <2>3 DEF PurseInv
<1>4. ASSUME NEW c \in Clients, BringOut(c)
      PROVE  PurseInv'
  <2>1. PICK s : TrySettleGame(s)
    BY <1>4 DEF BringOut
  <2>2. rounds' = rounds
    BY <1>4 DEF BringOut
  <2>3. CASE UNCHANGED <<settled, charged>>
    BY <2>3, <1>2
  <2>4. CASE settled' = settled + 1 /\ ~LastRound /\ UNCHANGED charged
    <3>1. settled' # Rounds
      BY <2>2, <2>4, RoundsAssumption DEF LastRound, OrderInv, RoundInv, TypeOK
    <3>2. QED
      BY <1>1, <2>4, <3>1 DEF PurseInv
  <2>5. CASE SettleAll(settled + 1, seat, NoBill)
    <3>1. settled + 1 \in Nat \ {0}
      BY DEF TypeOK
    <3>2. /\ status' = "settleAll"
          /\ Collected' <= Total /\ (Price > 0 => Collected' > 0)
      BY <1>1, <2>5, <3>1, LastSettlement
    <3>3. QED
      BY <3>2 DEF PurseInv
  <2>6. QED
    BY <2>1, <2>3, <2>4, <2>5 DEF TrySettleGame
<1>5. ASSUME NEW c \in Clients, \E ready \in BOOLEAN : ReadyFlag(c, ready)
      PROVE  PurseInv'
  BY <1>2, <1>5, DealIsFree DEF ReadyFlag
<1>6. ASSUME NEW c \in Clients, QuickStart(c) \/ \E v \in Votes : VoteForQuickStart(c, v)
      PROVE  PurseInv'
  <2>1. UNCHANGED settled /\ (UNCHANGED charged \/ \E v : CheckAllVotesQuickStart(v))
    BY <1>6 DEF QuickStart, VoteForQuickStart
  <2>2. QED
    BY <1>2, <2>1, QuickBallotIsFree
<1>7. ASSUME NEW c \in Clients, NEW point \in Points,
             ChipInPoint(c, point) \/ SelectMultiple(c, point)
      PROVE  PurseInv'
  BY <1>2, <1>7 DEF ChipInPoint, SelectMultiple
<1>8. CASE SelBankerTimeout \/ SelMultipleTimeout
  BY <1>2, <1>8 DEF SelBankerTimeout, SelMultipleTimeout
<1>9. CASE PrepareTick \/ QuickStartTimeout \/ SettleTimeout
  BY <1>2, <1>9, DealIsFree DEF PrepareTick, QuickStartTimeout, SettleTimeout
<1>10. QED
  BY <1>3, <1>4, <1>5, <1>6, <1>7, <1>8, <1>9 DEF GameTimer, InGame

LEMMA PurseNext ==
  ASSUME TypeOK, OrderInv, OrderInv', PurseInv, Payor = "winner", [Next]_vars
  PROVE  PurseInv'
<1> SUFFICES ASSUME up'
             PROVE  PurseInv'
  BY DEF PurseInv
<1> USE DEF seatVars, bankVars, resultVars, clientVars, purseVars
<1>1. CASE UNCHANGED vars
  BY <1>1 DEF vars, PurseInv, Collected
<1>2. Next => up
  BY ZenonT(60) DEF Next, Message, Timer, Elsewhere, CreateGame, JoinGame, GiveUpWaiting,
     GiveUpPlaying, GiveUpOver, ReadyFlag, BringOut, VoteFoAbortGame, QuickStart,
     VoteForQuickStart, ReplyHalfEnter, ChipInPoint, SelectMultiple, Exchange,
     PrepareTick, QuickStartTimeout, SelBankerTimeout, SelMultipleTimeout,
     VoteTimeout, SettleTimeout, SettleAllTimeout, EraseClosed, DismissRoom, Login,
     Disconnect, Evict, MayEvict, EnterOther, LeaveOther, Recharge, InRoom, Online, Elapsed
<1>3. CASE Next /\ (GameTimer \/ \E c \in Clients : InGame(c))
  BY <1>3, <1>2, PurseGame
<1>4. ASSUME NEW c \in Clients,
             CreateGame(c) \/ JoinGame(c) \/ GiveUpWaiting(c) \/ GiveUpOver(c)
      PROVE  PurseInv'
  <2>1. up /\ UNCHANGED <<charged, settled>>
    BY <1>4 DEF CreateGame, JoinGame, GiveUpWaiting, GiveUpOver, InRoom, Online
  <2>2. status' \notin {"settleAll", "closed"} => status \notin {"settleAll", "closed"}
    BY <1>4 DEF CreateGame, JoinGame, GiveUpWaiting, GiveUpOver
  <2>3. QED
    BY <2>1, <2>2, PurseStays
<1>5. CASE VoteTimeout \/ SettleAllTimeout \/ DismissRoom
  <2>1. up /\ UNCHANGED <<charged, settled>> /\ status' = "closed"
    BY <1>5 DEF VoteTimeout, SettleAllTimeout, DismissRoom, Elapsed, AbortGame
  <2>2. QED
    BY <2>1, PurseStays
<1>6. CASE EraseClosed
  <2>1. charged' = NoBill /\ settled' = 0
    BY <1>6 DEF EraseClosed
  <2>2. QED
    BY <2>1, RoundsAssumption DEF PurseInv
<1>7. ASSUME NEW c \in Clients,
             Exchange(c) \/ Elsewhere(c)
             \/ \E t \in Clients, reply \in BOOLEAN : ReplyHalfEnter(c, t, reply)
      PROVE  PurseInv'
  <2>1. up /\ UNCHANGED <<status, charged, settled>>
    BY <1>7 DEF Exchange, Elsewhere, ReplyHalfEnter, Login, Disconnect, Evict, MayEvict,
       EnterOther, LeaveOther, Recharge, InRoom, Online
  <2>2. QED
    BY <2>1, PurseStays
<1>8. QED
  BY <1>1, <1>3, <1>2, <1>4, <1>5, <1>6, <1>7
     DEF Next, Message, Timer, InGame, GameTimer

\* In a game that the winners pay nothing is taken before the last settlement,
\* and after the last round they have paid its price, but for what is left over
\* when it is divided among them; whoever was dealt to, voted or left.
THEOREM TheWinnersPay == Spec => []WinnersPay
<1>1. CASE Payor = "winner"
  <2> DEFINE Inv == TypeOK /\ OrderInv /\ PurseInv
  <2>1. Init => Inv
    BY InitType, OrderInit, RoundsAssumption DEF Init, NoGame, PurseInv
  <2>2. Inv /\ [Next]_vars => Inv'
    BY <1>1, NextType, OrderNext, PurseNext
  <2>3. Inv => WinnersPay
    BY NothingCollected DEF PurseInv, WinnersPay
  <2>4. QED
    BY <2>1, <2>2, <2>3, PTL DEF Spec
<1>2. CASE Payor # "winner"
  <2>1. WinnersPay
    BY <1>2 DEF WinnersPay
  <2>2. QED
    BY <2>1, PTL
<1>3. QED
  BY <1>1, <1>2

-----------------------------------------------------------------------------
(*** Ballots ***)

\* A final settlement that a ballot brings about.
LEMMA VotedEnd ==
  ASSUME TypeOK, NEW k \in Seats, NEW x, CheckAllVotes([vote EXCEPT ![k] = x]),
         status' = "settleAll", status # "settleAll"
  PROVE  \A i, j \in Valid : vote[i] # "AYE" /\ vote[j] # "AYE" => i = j
<1>1. Agreed([vote EXCEPT ![k] = x])
  BY DEF CheckAllVotes
<1>2. \A i \in Seats \ {k} : i \in Valid => vote[i] = "AYE"
  BY <1>1 DEF Agreed, TypeOK, Valid, ValidIn
<1>3. QED
  BY <1>2 DEF Valid, ValidIn

\* A final settlement that follows a round has all rounds behind it.
LEMMA PlayedEnd ==
  ASSUME TypeOK, RoundInv, NEW s \in [Seats -> SeatStatus], TrySettleGame(s),
         status' = "settleAll", status # "settleAll"
  PROVE  settled' >= Rounds
<1>1. settled' = settled + 1 /\ rounds >= Rounds
  BY DEF TrySettleGame, LastRound
<1>2. QED
  BY <1>1, RoundsAssumption DEF RoundInv, TypeOK

\* A game is cut short only by a ballot of which at most one vote was missing,
\* in every kind of room: no timeout, refusal or late player ends one for the
\* others, and the last round is not mistaken for an earlier one.
THEOREM EndsAreUnanimous == Spec => UnanimousEnd
<1> USE DEF seatVars, bankVars, resultVars, clientVars, purseVars
<1> DEFINE Ends == status' = "settleAll" /\ status # "settleAll" /\ settled' < Rounds
           AllButOne == \A i, j \in Valid : vote[i] # "AYE" /\ vote[j] # "AYE" => i = j
<1>1. ASSUME TypeOK, OrderInv, [Next]_vars, Ends
      PROVE  AllButOne
  <2>1. ASSUME NEW c \in Clients, GiveUpPlaying(c) \/ \E v \in Votes : VoteFoAbortGame(c, v)
        PROVE  AllButOne
    <3>1. UNCHANGED status \/ \E k \in Seats, x \in Votes : CheckAllVotes([vote EXCEPT ![k] = x])
      BY <2>1 DEF GiveUpPlaying, VoteFoAbortGame, Votes
    <3>2. QED
      BY <1>1, <3>1, VotedEnd
  <2>2. ASSUME NEW c \in Clients, BringOut(c)
        PROVE  FALSE
    <3>1. PICK i \in Seats : TrySettleGame([st EXCEPT ![i] = "COMPARE"])
      BY <2>2 DEF BringOut
    <3>2. [st EXCEPT ![i] = "COMPARE"] \in [Seats -> SeatStatus] /\ RoundInv
      BY <1>1, <2>2 DEF TypeOK, SeatStatus, BringOut, InRoom, Online, OrderInv
    <3>3. settled' >= Rounds
      BY <1>1, <3>1, <3>2, PlayedEnd
    <3>4. settled' \in Nat
      BY <1>1, <3>1 DEF TrySettleGame, TypeOK
    <3>5. QED
      BY <1>1, <3>3, <3>4, RoundsAssumption
  <2>3. ASSUME NEW c \in Clients, NEW ready \in BOOLEAN, ReadyFlag(c, ready)
        PROVE  FALSE
    BY <1>1, <2>3 DEF ReadyFlag, TryStartRound, StartRound
  <2>4. ASSUME NEW c \in Clients, QuickStart(c) \/ \E v \in Votes : VoteForQuickStart(c, v)
        PROVE  FALSE
    BY <1>1, <2>4
       DEF QuickStart, VoteForQuickStart, CheckAllVotesQuickStart, TryStartRound, StartRound
  <2>5. ASSUME NEW c \in Clients, NEW point \in Points,
               ChipInPoint(c, point) \/ SelectMultiple(c, point)
        PROVE  FALSE
    BY <1>1, <2>5
       DEF ChipInPoint, SelectMultiple, CheckAllChipInPoint, CheckAllSelectMultiple
  <2>6. CASE GameTimer
    BY <1>1, <2>6
       DEF GameTimer, PrepareTick, QuickStartTimeout, SelBankerTimeout, SelMultipleTimeout,
           SettleTimeout, TryStartRound, StartRound, CheckAllChipInPoint,
           CheckAllSelectMultiple
  <2>7. CASE VoteTimeout \/ SettleAllTimeout \/ DismissRoom \/ EraseClosed
    BY <1>1, <2>7 DEF VoteTimeout, SettleAllTimeout, DismissRoom, EraseClosed, AbortGame
  <2>8. ASSUME NEW c \in Clients,
               CreateGame(c) \/ JoinGame(c) \/ GiveUpWaiting(c) \/ GiveUpOver(c)
        PROVE  FALSE
    BY <1>1, <2>8 DEF CreateGame, JoinGame, GiveUpWaiting, GiveUpOver, AbortGame
  <2>9. ASSUME NEW c \in Clients,
               Exchange(c) \/ Elsewhere(c)
               \/ \E t \in Clients, reply \in BOOLEAN : ReplyHalfEnter(c, t, reply)
        PROVE  FALSE
    BY <1>1, <2>9
       DEF Exchange, Elsewhere, ReplyHalfEnter, Login, Disconnect, Evict, EnterOther,
           LeaveOther, Recharge
  <2>10. CASE UNCHANGED vars
    BY <1>1, <2>10 DEF vars
  <2>11. QED
    BY <1>1, <2>1, <2>2, <2>3, <2>4, <2>5, <2>6, <2>7, <2>8, <2>9, <2>10
       DEF Next, Message, Timer, GameTimer
<1>2. Init => TypeOK /\ OrderInv
  BY InitType, OrderInit
<1>3. TypeOK /\ OrderInv /\ [Next]_vars => (TypeOK /\ OrderInv)'
  BY NextType, OrderNext
<1>4. TypeOK /\ OrderInv /\ [Next]_vars => [Ends => AllButOne]_vars
  BY <1>1
<1>5. QED
  BY <1>2, <1>3, <1>4, PTL DEF Spec, UnanimousEnd

\* What makes BallotsStartClean inductive: an empty seat has no vote either, so
\* that whoever takes it has none.  A ballot that the platform cuts short leaves
\* its votes to a closed room, which has no players.
BallotInv ==
  /\ status = "closed" => seat = Nobody
  /\ status \notin {"vote", "quickStart", "closed"} => vote = NoVotes
  /\ status # "closed" => \A i \in Seats : seat[i] = None => vote[i] = "NONE"

\* Taking the votes of the valid players back takes all of them back.
LEMMA BallotOverClears ==
  ASSUME TypeOK, NoWitness, BallotInv, status # "closed",
         NEW i \in Seats, seat[i] # None, NEW x \in Votes
  PROVE  BallotOver([vote EXCEPT ![i] = x]) = NoVotes
BY DEF BallotOver, BallotInv, NoVotes, NoWitness, Valid, ValidIn, TypeOK
LEMMA BallotGame ==
  ASSUME TypeOK, NoWitness, BallotInv, GameTimer \/ \E c \in Clients : InGame(c)
  PROVE  BallotInv'
<1> USE DEF seatVars, bankVars, resultVars, clientVars, purseVars
<1>1. /\ UNCHANGED seat
      /\ status \notin {"none", "closed"}
      /\ status' \notin {"none", "closed"}
  BY GameMovesNobody
<1>2. vote' = NoVotes => BallotInv'
  BY <1>1 DEF BallotInv, NoVotes
<1>3. status \notin {"vote", "quickStart"} /\ UNCHANGED vote => BallotInv'
  BY <1>1, <1>2 DEF BallotInv
<1>4. ASSUME NEW i \in Seats, seat[i] # None, NEW x \in Votes,
             vote' = [vote EXCEPT ![i] = x], status' \in {"vote", "quickStart"}
      PROVE  BallotInv'
  BY <1>1, <1>4 DEF BallotInv, TypeOK
<1>5. ASSUME NEW i \in Seats, seat[i] # None, NEW x \in Votes,
             \/ CheckAllVotes([vote EXCEPT ![i] = x])
             \/ CheckAllVotesQuickStart([vote EXCEPT ![i] = x])
      PROVE  BallotInv'
  <2>1. BallotOver([vote EXCEPT ![i] = x]) = NoVotes
    BY <1>1, <1>5, BallotOverClears
  <2>2. \/ vote' = NoVotes
        \/ vote' = [vote EXCEPT ![i] = x] /\ status' \in {"vote", "quickStart"}
    BY <1>5, <2>1 DEF CheckAllVotes, CheckAllVotesQuickStart
  <2>3. QED
    BY <1>2, <1>4, <1>5, <2>2
<1>6. ASSUME NEW c \in Clients,
             GiveUpPlaying(c) \/ QuickStart(c)
             \/ \E v \in Votes : VoteFoAbortGame(c, v) \/ VoteForQuickStart(c, v)
      PROVE  BallotInv'
  <2>1. \E i \in Seats, x \in Votes :
          /\ IsSeatOf(i, c)
          /\ \/ vote' = [vote EXCEPT ![i] = x] /\ status \in {"vote", "quickStart"}
                /\ UNCHANGED status
             \/ CheckAllVotes([vote EXCEPT ![i] = x])
             \/ CheckAllVotesQuickStart([vote EXCEPT ![i] = x])
    BY <1>6 DEF GiveUpPlaying, QuickStart, VoteFoAbortGame, VoteForQuickStart, Votes
  <2>2. QED
    BY <1>4, <1>5, <2>1, ClientsAssumption DEF IsSeatOf
<1>7. ASSUME NEW c \in Clients,
             BringOut(c) \/ \E ready \in BOOLEAN : ReadyFlag(c, ready)
             \/ \E point \in Points : ChipInPoint(c, point) \/ SelectMultiple(c, point)
      PROVE  BallotInv'
  BY <1>3, <1>7 DEF BringOut, ReadyFlag, ChipInPoint, SelectMultiple
<1>8. CASE PrepareTick \/ SelBankerTimeout \/ SelMultipleTimeout \/ SettleTimeout
  BY <1>3, <1>8 DEF PrepareTick, SelBankerTimeout, SelMultipleTimeout, SettleTimeout, Elapsed
<1>9. CASE QuickStartTimeout
  BY <1>2, <1>9 DEF QuickStartTimeout
<1>10. QED
  BY <1>6, <1>7, <1>8, <1>9 DEF GameTimer, InGame

LEMMA BallotNext ==
  ASSUME HalfEnter = FALSE, TypeOK, IndexInv, BallotInv, [Next]_vars
  PROVE  BallotInv'
<1> USE DEF seatVars, bankVars, resultVars, clientVars, purseVars
<1>1. CASE GameTimer \/ \E c \in Clients : InGame(c)
  BY <1>1, BallotGame DEF IndexInv
<1>2. ASSUME NEW c \in Clients, CreateGame(c) \/ JoinGame(c)
      PROVE  BallotInv'
  <2>1. vote = NoVotes /\ vote' = NoVotes
    BY <1>2 DEF CreateGame, JoinGame, MayEnter, BallotInv
  <2>2. status' # "closed"
    BY <1>2 DEF CreateGame, JoinGame
  <2>3. QED
    BY <2>1, <2>2 DEF BallotInv, NoVotes
<1>3. ASSUME AbortGame, UNCHANGED vote
      PROVE  BallotInv'
  BY <1>3 DEF AbortGame, BallotInv
<1>4. ASSUME NEW c \in Clients, RemovePlayer(c), UNCHANGED <<status, vote>>,
             status \notin {"vote", "quickStart"}
      PROVE  BallotInv'
  <2>1. status # "closed"
    BY <1>4, ClientsAssumption DEF RemovePlayer, IsSeatOf, BallotInv, Nobody
  <2>2. QED
    BY <1>4, <2>1 DEF BallotInv, NoVotes
<1>5. ASSUME NEW c \in Clients, GiveUpWaiting(c) \/ GiveUpOver(c)
      PROVE  BallotInv'
  BY <1>3, <1>4, <1>5 DEF GiveUpWaiting, GiveUpOver
<1>6. CASE SettleAllTimeout \/ DismissRoom
  BY <1>3, <1>6 DEF SettleAllTimeout, DismissRoom
<1>7. CASE VoteTimeout \/ EraseClosed
  BY <1>7 DEF VoteTimeout, EraseClosed, AbortGame, BallotInv, NoVotes
<1>8. ASSUME NEW c \in Clients,
             Exchange(c) \/ Elsewhere(c)
             \/ \E t \in Clients, reply \in BOOLEAN : ReplyHalfEnter(c, t, reply)
      PROVE  BallotInv'
  <2>1. UNCHANGED <<status, seat, vote>>
    BY <1>8 DEF Exchange, Elsewhere, ReplyHalfEnter, Login, Disconnect, Evict,
       EnterOther, LeaveOther, Recharge
  <2>2. QED
    BY <2>1 DEF BallotInv
<1>9. CASE UNCHANGED vars
  BY <1>9 DEF vars, BallotInv
<1>10. QED
  BY <1>1, <1>2, <1>5, <1>6, <1>7, <1>8, <1>9
     DEF Next, Message, Timer, InGame, GameTimer

\* In a room that takes nobody in during a game, no vote outlives its ballot:
\* neither a refusal, an agreement, a timeout nor the next game leaves one.
\* (With late players the votes of those who watch do.)
THEOREM NoVoteIsLeft ==
  ASSUME HalfEnter = FALSE
  PROVE  Spec => []BallotsStartClean
<1> DEFINE Inv == TypeOK /\ IndexInv /\ BallotInv
<1>1. Init => Inv
  BY InitType, IndexInit DEF Init, NoGame, BallotInv, NoVotes
<1>2. Inv /\ [Next]_vars => Inv'
  BY NextType, IndexNext, BallotNext
<1>3. Inv => BallotsStartClean
  BY DEF BallotInv, BallotsStartClean, Valid, ValidIn, NoVotes, Nobody
<1>4. QED
  BY <1>1, <1>2, <1>3, PTL DEF Spec
-----------------------------------------------------------------------------
(*** The cards of the second deal ***)

LEMMA ReserveStart ==
  ASSUME TypeOK, NEW s \in [Seats -> SeatStatus], StartRound(s), UNCHANGED seat
  PROVE  EnoughReserved'
<1>1. CASE PlayType = "banker"
  <2>1. Valid' = ValidIn(st')
    BY DEF Valid, ValidIn
  <2>2. reserved' = reserved + Cardinality(ValidIn(st'))
    BY <1>1 DEF StartRound, Kept
  <2>3. Cardinality(ValidIn(st')) \in Nat
    BY SeatsFinite DEF ValidIn
  <2>4. QED
    BY <2>1, <2>2, <2>3 DEF EnoughReserved, TypeOK
<1>2. CASE PlayType # "banker"
  BY <1>2 DEF StartRound, EnoughReserved
<1>3. QED
  BY <1>1, <1>2

LEMMA ReserveTryStart ==
  ASSUME TypeOK, NEW s \in [Seats -> SeatStatus],
         NEW ph \in {"prepare", "quickStart", "settle"}, TryStartRound(ph, s),
         UNCHANGED seat
  PROVE  EnoughReserved'
BY ReserveStart DEF TryStartRound, EnoughReserved

LEMMA ReserveGame ==
  ASSUME TypeOK, EnoughReserved, GameTimer \/ \E c \in Clients : InGame(c)
  PROVE  EnoughReserved'
<1> USE DEF seatVars, bankVars, resultVars, clientVars, purseVars
<1>1. UNCHANGED seat
  BY GameMovesNobody
<1>2. st \in [Seats -> SeatStatus]
  BY DEF TypeOK
<1>3. status' \notin {"selBanker", "selMultiple"} => EnoughReserved'
  BY DEF EnoughReserved
<1>4. ASSUME NEW c \in Clients, GiveUpPlaying(c) \/ \E v \in Votes : VoteFoAbortGame(c, v)
      PROVE  EnoughReserved'
  <2>1. status \notin {"selBanker", "selMultiple"}
    BY <1>4 DEF GiveUpPlaying, VoteFoAbortGame
  <2>2. UNCHANGED status \/ \E i \in Seats, x \in Votes : CheckAllVotes([vote EXCEPT ![i] = x])
    BY <1>4 DEF GiveUpPlaying, VoteFoAbortGame, Votes
  <2>3. \A i \in Seats, x \in Votes : [vote EXCEPT ![i] = x] \in [Seats -> Votes]
    BY DEF TypeOK
  <2>4. status' \in {status, "play", "vote", "settleAll"}
    BY <2>2, <2>3, CheckAllVotesPhase
  <2>5. QED
    BY <1>3, <2>1, <2>4
<1>5. ASSUME NEW c \in Clients, BringOut(c)
      PROVE  EnoughReserved'
  <2>1. PICK i \in Seats : TrySettleGame([st EXCEPT ![i] = "COMPARE"])
    BY <1>5 DEF BringOut
  <2>2. [st EXCEPT ![i] = "COMPARE"] \in [Seats -> SeatStatus]
    BY <1>2 DEF SeatStatus
  <2>3. status = "play" /\ status' \in {status, "settle", "settleAll"}
    BY <1>5, <2>1, <2>2, TrySettleGamePhase DEF BringOut
  <2>4. QED
    BY <1>3, <2>3
<1>6. ASSUME NEW c \in Clients, NEW ready \in BOOLEAN, ReadyFlag(c, ready)
      PROVE  EnoughReserved'
  <2>1. status \in {"prepare", "settle"}
    BY <1>6 DEF ReadyFlag
  <2>2. UNCHANGED status \/ \E i \in Seats : TryStartRound(status, [st EXCEPT ![i] = "READY"])
    BY <1>6 DEF ReadyFlag
  <2>3. \A i \in Seats : [st EXCEPT ![i] = "READY"] \in [Seats -> SeatStatus]
    BY <1>2 DEF SeatStatus
  <2>4. QED
    BY <1>1, <1>3, <2>1, <2>2, <2>3, ReserveTryStart
<1>7. ASSUME NEW c \in Clients, QuickStart(c) \/ \E v \in Votes : VoteForQuickStart(c, v)
      PROVE  EnoughReserved'
  <2>1. status' \in {"prepare", "quickStart"} \/ TryStartRound("quickStart", st)
    BY <1>7 DEF QuickStart, VoteForQuickStart, CheckAllVotesQuickStart
  <2>2. QED
    BY <1>1, <1>2, <1>3, <2>1, ReserveTryStart
<1>8. ASSUME NEW ch, CheckAllChipInPoint(ch), UNCHANGED reserved, status = "selBanker"
      PROVE  EnoughReserved'
  <2>1. \A i \in Seats : st'[i] = "WITNESS" <=> st[i] = "WITNESS"
    BY <1>8 DEF CheckAllChipInPoint, Valid, ValidIn
  <2>2. Valid' = Valid
    BY <1>1, <2>1 DEF Valid, ValidIn
  <2>3. QED
    BY <1>8, <2>2 DEF EnoughReserved
<1>9. ASSUME NEW m, CheckAllSelectMultiple(m)
      PROVE  EnoughReserved'
  <2>1. status' = "play" \/ UNCHANGED <<status, st, reserved>>
    BY <1>9 DEF CheckAllSelectMultiple
  <2>2. QED
    BY <1>1, <1>3, <2>1 DEF EnoughReserved, Valid, ValidIn
<1>10. ASSUME NEW c \in Clients, NEW point \in Points,
              ChipInPoint(c, point) \/ SelectMultiple(c, point)
       PROVE  EnoughReserved'
  BY <1>8, <1>9, <1>10 DEF ChipInPoint, SelectMultiple
<1>11. CASE SelBankerTimeout \/ SelMultipleTimeout
  BY <1>8, <1>9, <1>11 DEF SelBankerTimeout, SelMultipleTimeout, Elapsed
<1>12. CASE PrepareTick \/ QuickStartTimeout
  BY <1>1, <1>2, <1>12, ReserveTryStart DEF PrepareTick, QuickStartTimeout
<1>13. CASE SettleTimeout
  <2> DEFINE s == [i \in Seats |-> IF i \in Valid THEN "READY" ELSE st[i]]
  <2>1. s \in [Seats -> SeatStatus]
    BY <1>2 DEF SeatStatus
  <2>2. TryStartRound("settle", s)
    BY <1>13 DEF SettleTimeout
  <2> HIDE DEF s
  <2>3. QED
    BY <1>1, <2>1, <2>2, ReserveTryStart
<1>14. QED
  BY <1>4, <1>5, <1>6, <1>7, <1>10, <1>11, <1>12, <1>13 DEF GameTimer, InGame

LEMMA ReserveNext ==
  ASSUME HalfEnter = FALSE, TypeOK, NoWitness, EnoughReserved, [Next]_vars
  PROVE  EnoughReserved'
<1> USE DEF seatVars, bankVars, resultVars, clientVars, purseVars
<1>1. CASE GameTimer \/ \E c \in Clients : InGame(c)
  BY <1>1, ReserveGame
<1>2. ASSUME NEW c \in Clients,
             CreateGame(c) \/ JoinGame(c) \/ GiveUpWaiting(c) \/ GiveUpOver(c)
      PROVE  status' \notin {"selBanker", "selMultiple"}
  BY <1>2 DEF CreateGame, JoinGame, MayEnter, GiveUpWaiting, GiveUpOver, AbortGame
<1>3. CASE VoteTimeout \/ SettleAllTimeout \/ DismissRoom \/ EraseClosed
  BY <1>3
     DEF VoteTimeout, SettleAllTimeout, DismissRoom, EraseClosed, AbortGame, EnoughReserved
<1>4. ASSUME NEW c \in Clients,
             Exchange(c) \/ Elsewhere(c)
             \/ \E t \in Clients, reply \in BOOLEAN : ReplyHalfEnter(c, t, reply)
      PROVE  UNCHANGED <<status, seat, st, reserved>>
  BY <1>4 DEF Exchange, Elsewhere, ReplyHalfEnter, NoWitness, Login, Disconnect, Evict,
     EnterOther, LeaveOther, Recharge
<1>5. UNCHANGED <<status, seat, st, reserved>> => EnoughReserved'
  BY DEF EnoughReserved, Valid, ValidIn
<1>6. CASE UNCHANGED vars
  BY <1>5, <1>6 DEF vars
<1>7. QED
  BY <1>1, <1>2, <1>3, <1>4, <1>5, <1>6
     DEF Next, Message, Timer, InGame, GameTimer, EnoughReserved

\* The second deal of a banker's game never reads past the cards that were put
\* aside for it, when no late player joins those who were dealt to.
THEOREM ReserveSuffices ==
  ASSUME HalfEnter = FALSE
  PROVE  Spec => []EnoughReserved
<1> DEFINE Inv == TypeOK /\ IndexInv /\ EnoughReserved
<1>1. Init => Inv
  BY InitType, IndexInit DEF Init, NoGame, EnoughReserved
<1>2. Inv /\ [Next]_vars => Inv'
  BY NextType, IndexNext, ReserveNext DEF IndexInv
<1>3. Inv => EnoughReserved
  OBVIOUS
<1>4. QED
  BY <1>1, <1>2, <1>3, PTL DEF Spec
-----------------------------------------------------------------------------
(*** The settlement of a full room ***)

Full == \A i \in Seats : seat[i] # None

\* Whoever was in the last settled round is still in his seat.
ResultInv ==
  up /\ settled > 0 /\ status \notin {"settleAll", "closed"} => result = seat

LEMMA AllPresent ==
  ASSUME TypeOK, IndexInv, Full
  PROVE  \A i \in Seats : InMemory(seat[i])
BY DEF TypeOK, Cuids, Full, IndexInv, SeatedMeansHere, HereMeansSeated, Seated

LEMMA SettleAllLives ==
  ASSUME TypeOK, IndexInv, Full, NEW n, NEW res, NEW bill, n = 0 \/ res = seat,
         SettleAll(n, res, bill)
  PROVE  UNCHANGED up
<1>1. CASE Payor # "winner"
  BY <1>1 DEF SettleAll
<1>2. CASE Payor = "winner"
  <2>1. (IF n = 0 THEN seat ELSE res) = seat
    OBVIOUS
  <2>2. PICK W \in BigWinners(n) :
          LET present == {i \in W : InMemory(seat[i])} IN
          present = W => UNCHANGED up
    BY <1>2, <2>1 DEF SettleAll
  <2>3. W \subseteq Seats
    BY DEF BigWinners
  <2>4. {i \in W : InMemory(seat[i])} = W
    BY <2>3, AllPresent
  <2>5. QED
    BY <2>2, <2>4
<1>3. QED
  BY <1>1, <1>2
LEMMA ResultNext ==
  ASSUME HalfEnter = FALSE, TypeOK, OrderInv, ResultInv, [Next]_vars
  PROVE  ResultInv'
<1> USE DEF seatVars, bankVars, resultVars, clientVars, purseVars
<1>1. ASSUME NEW c \in Clients, BringOut(c)
      PROVE  ResultInv'
  <2>1. up /\ status = "play" /\ UNCHANGED seat
    BY <1>1 DEF BringOut, InRoom, Online
  <2>2. UNCHANGED <<settled, result>> \/ result' = seat
    BY <1>1 DEF BringOut, TrySettleGame
  <2>3. QED
    BY <2>1, <2>2 DEF ResultInv
<1>2. CASE /\ GameTimer \/ \E c \in Clients : InGame(c)
           /\ ~\E c \in Clients : BringOut(c)
  <2>1. UNCHANGED <<seat, settled, result>>
    BY <1>2
       DEF GameTimer, InGame, GiveUpPlaying, ReadyFlag, VoteFoAbortGame, QuickStart,
           VoteForQuickStart, ChipInPoint, SelectMultiple, PrepareTick, QuickStartTimeout,
           SelBankerTimeout, SelMultipleTimeout, SettleTimeout
  <2>2. up /\ status \notin {"settleAll", "closed"}
    BY <1>2
       DEF GameTimer, InGame, GiveUpPlaying, ReadyFlag, VoteFoAbortGame, QuickStart,
           VoteForQuickStart, ChipInPoint, SelectMultiple, PrepareTick, QuickStartTimeout,
           SelBankerTimeout, SelMultipleTimeout, SettleTimeout, Elapsed, InRoom, Online
  <2>3. QED
    BY <2>1, <2>2 DEF ResultInv
<1>3. ASSUME NEW c \in Clients, CreateGame(c) \/ JoinGame(c) \/ GiveUpWaiting(c)
      PROVE  ResultInv'
  <2>1. settled = 0 /\ UNCHANGED settled
    BY <1>3 DEF CreateGame, JoinGame, MayEnter, GiveUpWaiting, InRoom, Online, OrderInv, RoundInv
  <2>2. QED
    BY <2>1 DEF ResultInv
<1>4. ASSUME NEW c \in Clients, GiveUpOver(c)
      PROVE  ResultInv'
  BY <1>4 DEF GiveUpOver, ResultInv
<1>5. CASE VoteTimeout \/ SettleAllTimeout \/ DismissRoom \/ EraseClosed
  BY <1>5 DEF VoteTimeout, SettleAllTimeout, DismissRoom, EraseClosed, AbortGame, ResultInv
<1>6. ASSUME NEW c \in Clients,
             Exchange(c) \/ Elsewhere(c)
             \/ \E t \in Clients, reply \in BOOLEAN : ReplyHalfEnter(c, t, reply)
      PROVE  ResultInv'
  <2>1. UNCHANGED <<status, seat, settled, result, up>>
    BY <1>6 DEF Exchange, Elsewhere, ReplyHalfEnter, Login, Disconnect, Evict,
       EnterOther, LeaveOther, Recharge
  <2>2. QED
    BY <2>1 DEF ResultInv
<1>7. CASE UNCHANGED vars
  BY <1>7 DEF vars, ResultInv
<1>8. QED
  BY <1>1, <1>2, <1>3, <1>4, <1>5, <1>6, <1>7
     DEF Next, Message, Timer, InGame, GameTimer

\* No step kills the process in a full room with its owner.
LEMMA FullLives ==
  ASSUME TypeOK, OrderInv, IndexInv, EnoughReserved, ResultInv, Full,
         \E i \in Seats : seat[i] = owner, up, Next
  PROVE  up'
<1> USE DEF seatVars, bankVars, resultVars, clientVars, purseVars
<1>1. InMemory(owner)
  BY AllPresent
<1>2. settled \in Nat
  BY DEF TypeOK
<1>3. ASSUME NEW c \in Clients, GiveUpPlaying(c) \/ \E v \in Votes : VoteFoAbortGame(c, v)
      PROVE  up'
  <2>1. status \in {"play", "settle", "vote", "prepare"}
    BY <1>3 DEF GiveUpPlaying, VoteFoAbortGame
  <2>2. settled = 0 \/ result = seat
    BY <1>2, <2>1 DEF ResultInv
  <2>3. UNCHANGED up \/ \E v : CheckAllVotes(v)
    BY <1>3 DEF GiveUpPlaying, VoteFoAbortGame
  <2>4. QED
    BY <1>1, <2>2, <2>3, SettleAllLives DEF CheckAllVotes
<1>4. ASSUME NEW c \in Clients, BringOut(c)
      PROVE  up'
  <2>1. PICK s : TrySettleGame(s)
    BY <1>4 DEF BringOut
  <2>2. UNCHANGED up \/ SettleAll(settled + 1, seat, NoBill)
    BY <2>1 DEF TrySettleGame
  <2>3. QED
    BY <2>2, SettleAllLives
<1>5. ASSUME NEW m, CheckAllSelectMultiple(m), status = "selMultiple"
      PROVE  up'
  <2>1. Cardinality(Valid) <= reserved
    BY <1>5 DEF EnoughReserved
  <2>2. Cardinality(Valid) \in Nat /\ reserved \in Nat
    BY SeatsFinite DEF Valid, ValidIn, TypeOK
  <2>3. ~(Cardinality(Valid) > reserved)
    BY <2>1, <2>2
  <2>4. QED
    BY <1>5, <2>3 DEF CheckAllSelectMultiple
<1>6. CASE SelMultipleTimeout
           \/ \E c \in Clients, point \in Points : SelectMultiple(c, point)
  BY <1>5, <1>6 DEF SelMultipleTimeout, SelectMultiple, Elapsed
<1>7. CASE PrepareTick \/ QuickStartTimeout \/ SelBankerTimeout \/ SettleTimeout
           \/ VoteTimeout \/ SettleAllTimeout \/ DismissRoom \/ EraseClosed
  BY <1>7
     DEF PrepareTick, QuickStartTimeout, SelBankerTimeout, SettleTimeout, VoteTimeout,
         SettleAllTimeout, DismissRoom, EraseClosed
<1>8. ASSUME NEW c \in Clients,
             \/ CreateGame(c) \/ JoinGame(c) \/ GiveUpWaiting(c) \/ GiveUpOver(c)
             \/ QuickStart(c) \/ Exchange(c) \/ Elsewhere(c)
             \/ \E ready \in BOOLEAN : ReadyFlag(c, ready)
             \/ \E v \in Votes : VoteForQuickStart(c, v)
             \/ \E t \in Clients, reply \in BOOLEAN : ReplyHalfEnter(c, t, reply)
             \/ \E point \in Points : ChipInPoint(c, point)
      PROVE  up'
  BY <1>8
     DEF CreateGame, JoinGame, GiveUpWaiting, GiveUpOver, QuickStart, Exchange, Elsewhere,
         ReadyFlag, VoteForQuickStart, ReplyHalfEnter, ChipInPoint, Login, Disconnect,
         Evict, EnterOther, LeaveOther, Recharge
<1>9. QED
  BY <1>3, <1>4, <1>6, <1>7, <1>8 DEF Next, Message, Timer

\* A step that kills the process moves nobody, and a dead process takes none.
LEMMA DyingMovesNobody ==
  ASSUME TypeOK, ~up', [Next]_vars
  PROVE  UNCHANGED <<seat, owner>> /\ (~up => UNCHANGED vars)
<1> USE DEF seatVars, bankVars, resultVars, clientVars, purseVars
<1>1. ~up => UNCHANGED vars
  BY DEF Next, Message, Timer, Elsewhere, PrepareTick, QuickStartTimeout, SelBankerTimeout,
     SelMultipleTimeout, VoteTimeout, SettleTimeout, SettleAllTimeout, EraseClosed, Elapsed,
     DismissRoom, CreateGame, JoinGame, GiveUpWaiting, GiveUpPlaying, GiveUpOver, ReadyFlag,
     BringOut, VoteFoAbortGame, QuickStart, VoteForQuickStart, ReplyHalfEnter, ChipInPoint,
     SelectMultiple, Exchange, Login, Disconnect, Evict, MayEvict, EnterOther, LeaveOther,
     Recharge, InRoom, Online
<1>2. CASE GameTimer \/ \E c \in Clients : InGame(c)
  BY <1>1, <1>2
     DEF GameTimer, InGame, GiveUpPlaying, ReadyFlag, BringOut, VoteFoAbortGame, QuickStart,
         VoteForQuickStart, ChipInPoint, SelectMultiple, PrepareTick, QuickStartTimeout,
         SelBankerTimeout, SelMultipleTimeout, SettleTimeout
<1>3. CASE UNCHANGED vars
  BY <1>1, <1>3 DEF vars
<1>4. CASE up /\ ~(GameTimer \/ \E c \in Clients : InGame(c)) /\ Next
  BY <1>1, <1>4
     DEF Next, Message, Timer, GameTimer, InGame, Elsewhere, VoteTimeout, SettleAllTimeout,
         DismissRoom, EraseClosed, CreateGame, JoinGame, GiveUpWaiting, GiveUpOver,
         ReplyHalfEnter, Exchange, Login, Disconnect, Evict, EnterOther, LeaveOther, Recharge
<1>5. QED
  BY <1>1, <1>2, <1>3, <1>4

\* A full room with its owner in it never brings the process down, whoever is
\* offline, however its game ends and whoever pays: every client that the
\* settlement and the ballot dereference is in memory.
THEOREM FullRoomsLive ==
  ASSUME HalfEnter = FALSE
  PROVE  Spec => []FullRoomIsSafe
<1> DEFINE Inv == /\ TypeOK /\ OrderInv /\ IndexInv
                  /\ EnoughReserved /\ ResultInv /\ FullRoomIsSafe
<1>1. Init => Inv
  BY InitType, OrderInit, IndexInit
     DEF Init, NoGame, EnoughReserved, ResultInv, FullRoomIsSafe
<1>2. TypeOK /\ OrderInv /\ IndexInv /\ EnoughReserved /\ ResultInv /\ FullRoomIsSafe
      /\ [Next]_vars => FullRoomIsSafe'
  <2> SUFFICES ASSUME TypeOK, OrderInv, IndexInv, EnoughReserved, ResultInv,
                      FullRoomIsSafe, [Next]_vars, ~up',
                      Full', \E i \in Seats : seat'[i] = owner'
               PROVE  FALSE
    BY DEF FullRoomIsSafe, Full
  <2>1. UNCHANGED <<seat, owner>>
    BY DyingMovesNobody
  <2>2. Full /\ \E i \in Seats : seat[i] = owner
    BY <2>1 DEF Full
  <2>3. up
    BY <2>2 DEF FullRoomIsSafe, Full
  <2>4. Next
    BY <2>3 DEF vars
  <2>5. QED
    BY <2>2, <2>3, <2>4, FullLives
<1>3. Inv /\ [Next]_vars => Inv'
  BY <1>2, NextType, OrderNext, IndexNext, ReserveNext, ResultNext DEF IndexInv
<1>4. Inv => FullRoomIsSafe
  OBVIOUS
<1>5. QED
  BY <1>1, <1>3, <1>4, PTL DEF Spec
-----------------------------------------------------------------------------
(*** What a room waits for ***)

\* What makes NoMissedStep inductive: a started room has at least two players;
\* before the start the empty seats are not ready, and until the first banker is
\* found no multiple is chosen; no stake is left over; while a round is open its
\* players arrange their cards or have brought them out; and a ballot remembers
\* that it found someone who has not.
Company == \E i, j \in Seats : i # j /\ seat[i] # None /\ seat[j] # None

WaitInv ==
  /\ status = "none" => seat = Nobody /\ st = NoStatus
  /\ status \in {"none", "prepare", "quickStart"} =>
       /\ chipIn = NoPoints /\ multiple = NoPoints
       /\ \A i \in Seats : seat[i] = None => st[i] = "NONE"
  /\ status = "selBanker" /\ settled = 0 => multiple = NoPoints
  /\ status \in {"quickStart", "selBanker", "selMultiple", "play", "vote", "settle"} =>
       Company
  /\ status = "quickStart" => \E i \in Seats : st[i] # "READY"
  /\ up /\ status \in {"play", "vote"} /\ rounds # settled =>
       \A i \in Seats : seat[i] # None => st[i] \in {"SORT", "COMPARE"}
  /\ status = "vote" => \E i \in Seats : seat[i] # None /\ st[i] # "COMPARE"
  /\ status \notin {"selBanker", "closed"} =>
       \A i \in Seats : seat[i] # None => chipIn[i] = 0

Waits == WaitInv /\ NoMissedStep

LEMMA ValidIsSeated ==
  ASSUME NoWitness
  PROVE  \A i : i \in Valid <=> i \in Seats /\ seat[i] # None
BY DEF NoWitness, Valid, ValidIn

LEMMA ValidIsSeatedNext ==
  ASSUME NoWitness'
  PROVE  \A i : i \in Valid' <=> i \in Seats /\ seat'[i] # None
BY DEF NoWitness, Valid, ValidIn

LEMMA TwoAreMany ==
  ASSUME NEW S, IsFiniteSet(S), NEW i \in S, NEW j \in S, i # j
  PROVE  Cardinality(S) >= 2
<1>1. /\ IsFiniteSet(S \ {i}) /\ IsFiniteSet((S \ {i}) \ {j})
      /\ Cardinality(S \ {i}) = Cardinality(S) - 1
      /\ Cardinality((S \ {i}) \ {j}) = Cardinality(S \ {i}) - 1
  BY FS_RemoveElement
<1>2. Cardinality(S) \in Nat /\ Cardinality((S \ {i}) \ {j}) \in Nat
  BY <1>1, FS_CardinalityType
<1>3. QED
  BY <1>1, <1>2

LEMMA ManyAreTwo ==
  ASSUME NEW S, IsFiniteSet(S), Cardinality(S) >= 2
  PROVE  \E i, j \in S : i # j
<1>1. S # {}
  BY FS_EmptySet
<1>2. PICK i \in S : TRUE
  BY <1>1
<1>3. S # {i}
  BY FS_Singleton
<1>4. QED
  BY <1>2, <1>3

\* Of two players who have chosen nothing one choice is missing too many.
LEMMA NobodyHasChosen ==
  ASSUME NEW S \in SUBSET Seats, NEW i \in S, NEW j \in S, i # j
  PROVE  Cardinality({k \in S : NoPoints[k] > 0}) # Cardinality(S) - 1
<1>1. {k \in S : NoPoints[k] > 0} = {}
  BY DEF NoPoints
<1>2. Cardinality({k \in S : NoPoints[k] > 0}) = 0
  BY <1>1, FS_EmptySet
<1>3. IsFiniteSet(S) /\ Cardinality(S) \in Nat
  BY SeatsFinite
<1>4. Cardinality(S) >= 2
  BY <1>3, TwoAreMany
<1>5. QED
  BY <1>2, <1>3, <1>4

LEMMA WaitStart ==
  ASSUME TypeOK, NoWitness', WaitInv, NEW s \in [Seats -> SeatStatus],
         \A i \in Seats : s[i] # "WITNESS", Company,
         status \in {"prepare", "quickStart", "settle"},
         status = "settle" => settled # 0,
         StartRound(s), UNCHANGED <<seat, chipIn, multiple, settled, up>>
  PROVE  Waits'
<1>1. \/ status' = "selBanker"
      \/ status' = "play" /\ \A i \in Seats : st'[i] = "SORT"
  BY AttrAssumption DEF StartRound
<1>2. \A i \in Seats : seat'[i] # None => chipIn'[i] = 0
  BY DEF WaitInv
<1>3. WaitInv'
  BY <1>1, <1>2 DEF WaitInv, Company
<1>4. NoMissedStep'
  BY <1>1, <1>2, ValidIsSeatedNext DEF NoMissedStep, Company
<1>5. QED
  BY <1>3, <1>4 DEF Waits

\* A start that is tried and refused leaves the room as it was, with a player
\* who is not ready.
LEMMA WaitTryStart ==
  ASSUME TypeOK, IndexInv, NoWitness', Waits, NEW s \in [Seats -> SeatStatus],
         \A i \in Seats : s[i] # "WITNESS",
         \A i \in Seats : seat[i] = None => s[i] = st[i],
         status \in {"prepare", "quickStart", "settle"},
         status = "settle" => settled # 0,
         TryStartRound(status, s), UNCHANGED <<seat, chipIn, multiple, settled, up>>
  PROVE  Waits'
<1>1. WaitInv /\ NoMissedStep
  BY DEF Waits
<1>2. \A i \in Seats : seat[i] # None => InMemory(seat[i])
  BY DEF TypeOK, Cuids, IndexInv, SeatedMeansHere, HereMeansSeated, Seated
<1>3. CASE CanStart(status, s) /\ StartRound(s)
  <2>1. Company
    <3>1. CASE status = "prepare"
      <4>1. 1 \in Seats /\ 2 \in Seats /\ 1 # 2
        BY SizeAssumption DEF Seats
      <4>2. s[1] = "READY" /\ s[2] = "READY"
        BY <1>3, <3>1, <4>1 DEF CanStart
      <4>3. seat[1] # None /\ seat[2] # None
        BY <1>1, <3>1, <4>1, <4>2 DEF WaitInv
      <4>4. QED
        BY <4>1, <4>3 DEF Company
    <3>2. CASE status # "prepare"
      BY <1>1, <3>2 DEF WaitInv
    <3>3. QED
      BY <3>1, <3>2
  <2>2. QED
    BY <1>1, <1>3, <2>1, WaitStart
<1>4. CASE ~CanStart(status, s) /\ status' = status /\ st' = s
  <2>1. CASE status = "prepare"
    <3>1. \E i \in Seats : s[i] # "READY"
      BY <1>1, <1>2, <1>4, <2>1 DEF CanStart, WaitInv
    <3>2. NoMissedStep'
      BY <1>4, <2>1, <3>1 DEF NoMissedStep
    <3>3. WaitInv'
      BY <1>1, <1>4, <2>1 DEF WaitInv, Company
    <3>4. QED
      BY <3>2, <3>3 DEF Waits
  <2>2. CASE status = "settle"
    <3>1. PICK i \in Seats : seat[i] # None /\ s[i] # "READY"
      BY <1>4, <2>2 DEF CanStart, ValidIn
    <3>2. NoMissedStep'
      BY <1>4, <2>2, <3>1, ValidIsSeatedNext DEF NoMissedStep
    <3>3. WaitInv'
      BY <1>1, <1>4, <2>2 DEF WaitInv, Company
    <3>4. QED
      BY <3>2, <3>3 DEF Waits
  <2>3. QED
    BY <1>4, <2>1, <2>2 DEF CanStart
<1>5. QED
  BY <1>3, <1>4 DEF TryStartRound
LEMMA WaitCheckAllVotes ==
  ASSUME TypeOK, OrderInv, IndexInv, NoWitness', Waits, up,
         NEW i \in Seats, seat[i] # None, NEW x \in Votes,
         status \in {"play", "settle", "vote"},
         CheckAllVotes([vote EXCEPT ![i] = x]),
         UNCHANGED <<seat, st, chipIn, multiple, rounds, settled>>
  PROVE  Waits'
<1> DEFINE v == [vote EXCEPT ![i] = x]
<1>1. WaitInv /\ NoMissedStep /\ NoWitness
  BY DEF Waits, IndexInv
<1>2. \E j \in Seats : seat[j] # None /\ st[j] # "COMPARE"
  <2>1. CASE status = "vote"
    BY <1>1, <2>1 DEF WaitInv
  <2>2. CASE rounds # settled /\ status = "play"
    BY <1>1, <2>2, ValidIsSeated DEF NoMissedStep
  <2>3. CASE rounds = settled /\ status \in {"play", "settle"}
    BY <1>1, <2>3 DEF OrderInv, RoundInv, Resting, WaitInv, Company
  <2>4. status = "settle" => rounds = settled
    BY DEF OrderInv, RoundInv
  <2>5. QED
    BY <2>1, <2>2, <2>3, <2>4
<1>3. v \in [Seats -> Votes]
  BY DEF TypeOK
<1> HIDE DEF v
<1>4. CheckAllVotes(v)
  BY DEF v
<1>5. status' \in {status, "play", "vote", "settleAll"}
  BY <1>3, <1>4, CheckAllVotesPhase
<1>6. WaitInv'
  <2>1. status \in {"settle", "play", "vote"} /\ rounds # settled =>
          \A j \in Seats : seat[j] # None => st[j] \in {"SORT", "COMPARE"}
    BY <1>1 DEF WaitInv, OrderInv, RoundInv
  <2>2. QED
    BY <1>1, <1>2, <1>5, <2>1 DEF WaitInv, Company
<1>7. \/ status' = "play"
      \/ ~up'
      \/ status' = "settleAll"
      \/ /\ vote' = v /\ status' = "vote" /\ ~Agreed(v)
         /\ \A j \in Valid : v[j] # "NAY"
  BY <1>3, <1>4, SettleAllType, OwnerBillType DEF CheckAllVotes
<1>8. NoMissedStep'
  <2>1. up' /\ status' = "play" => rounds' = settled' \/ \E j \in Valid' : st'[j] = "SORT"
    BY <1>2, <1>6, ValidIsSeatedNext DEF WaitInv
  <2>2. QED
    BY <1>1, <1>2, <1>7, <2>1, ValidIsSeated, ValidIsSeatedNext DEF NoMissedStep, Agreed
<1>9. QED
  BY <1>6, <1>8 DEF Waits

LEMMA WaitCheckAllVotesQuickStart ==
  ASSUME TypeOK, IndexInv, NoWitness', Waits, up,
         NEW i \in Seats, seat[i] # None, NEW x \in Votes,
         status \in {"prepare", "quickStart"}, Company,
         CheckAllVotesQuickStart([vote EXCEPT ![i] = x]),
         UNCHANGED <<seat, chipIn, multiple, settled, up>>
  PROVE  Waits'
<1> DEFINE v == [vote EXCEPT ![i] = x]
<1>1. WaitInv /\ NoMissedStep /\ NoWitness
  BY DEF Waits, IndexInv
<1>2. \E j \in Seats : st[j] # "READY"
  BY <1>1 DEF WaitInv, NoMissedStep
<1> HIDE DEF v
<1>3. CheckAllVotesQuickStart(v)
  BY DEF v
<1>4. CASE TryStartRound("quickStart", st)
  <2>1. StartRound(st)
    BY <1>4 DEF TryStartRound, CanStart
  <2>2. QED
    BY <1>1, <2>1, WaitStart DEF NoWitness, TypeOK
<1>5. CASE status' = "prepare" /\ UNCHANGED st
  BY <1>1, <1>2, <1>5 DEF Waits, WaitInv, NoMissedStep, Company
<1>6. CASE /\ vote' = v /\ status' = "quickStart" /\ UNCHANGED st /\ ~Agreed(v)
           /\ \A j \in Valid : v[j] # "NAY"
  <2>1. WaitInv'
    BY <1>1, <1>2, <1>6 DEF WaitInv, Company
  <2>2. NoMissedStep'
    BY <1>1, <1>6, ValidIsSeated, ValidIsSeatedNext DEF NoMissedStep, Agreed
  <2>3. QED
    BY <2>1, <2>2 DEF Waits
<1>7. QED
  BY <1>3, <1>4, <1>5, <1>6 DEF CheckAllVotesQuickStart

LEMMA WaitTrySettleGame ==
  ASSUME TypeOK, IndexInv, NoWitness', Waits, up,
         NEW i \in Seats, seat[i] # None, NEW s \in [Seats -> SeatStatus],
         \A j \in Seats : s[j] # "WITNESS",
         rounds # settled => \A j \in Seats : seat[j] # None => s[j] \in {"SORT", "COMPARE"},
         status = "play", TrySettleGame(s), UNCHANGED <<seat, chipIn, multiple, rounds>>
  PROVE  Waits'
<1>1. WaitInv /\ NoMissedStep /\ NoWitness
  BY DEF Waits, IndexInv
<1>2. \A j : j \in ValidIn(s) <=> j \in Seats /\ seat[j] # None
  BY DEF ValidIn
<1>3. \A j \in Seats : seat[j] # None => InMemory(seat[j])
  BY DEF TypeOK, Cuids, IndexInv, SeatedMeansHere, HereMeansSeated, Seated
<1>4. status' \in {"play", "settle", "settleAll"}
  BY TrySettleGamePhase
<1>5. NoBill \in [Clients -> Nat]
  BY DEF NoBill
<1>6. \/ status' = "play" /\ st' = s /\ settled' = settled /\ ~AllCompared(s)
      \/ status' = "settle" /\ st' = Rested(s)
      \/ status' = "settleAll"
      \/ status' = "play" /\ ~up'
  BY <1>4, <1>5, SettleAllType DEF TrySettleGame, resultVars
<1>7. WaitInv'
  BY <1>1, <1>4, <1>6 DEF WaitInv, Company
<1>8. NoMissedStep'
  BY <1>2, <1>3, <1>6, ValidIsSeatedNext DEF NoMissedStep, AllCompared, Rested
<1>9. QED
  BY <1>7, <1>8 DEF Waits

LEMMA WaitCheckAllChipInPoint ==
  ASSUME TypeOK, NoWitness, NoWitness', Waits, NEW ch \in [Seats -> Int],
         status = "selBanker", CheckAllChipInPoint(ch),
         UNCHANGED <<seat, multiple, settled, up>>
  PROVE  Waits'
<1>1. WaitInv /\ NoMissedStep
  BY DEF Waits
<1>2. CASE chipIn' = StakesBack(ch) /\ status' = "selMultiple"
  <2>1. \A i \in Seats : seat'[i] # None => chipIn'[i] = 0
    BY <1>2, ValidIsSeated DEF StakesBack
  <2>2. Valid' = Valid /\ Valid \in SUBSET Seats
    BY ValidIsSeated, ValidIsSeatedNext
  <2>3. PICK i, j \in Valid : i # j
    BY <1>1, ValidIsSeated DEF WaitInv, Company
  <2>4. settled = 0 => ~AllSelected(multiple)'
    BY <1>1, <2>2, <2>3, NobodyHasChosen DEF WaitInv, AllSelected
  <2>5. WaitInv'
    BY <1>1, <1>2, <2>1 DEF WaitInv, Company
  <2>6. NoMissedStep'
    BY <1>2, <2>4 DEF NoMissedStep, AllSelected
  <2>7. QED
    BY <2>5, <2>6 DEF Waits
<1>3. CASE /\ Valid = {} \/ \E i \in Valid : ch[i] <= 0
           /\ chipIn' = ch /\ UNCHANGED <<status, st>>
  <2>1. PICK i \in Seats : seat[i] # None /\ ch[i] <= 0
    BY <1>1, <1>3, ValidIsSeated DEF WaitInv, Company
  <2>2. chipIn'[i] <= 0
    BY <1>3, <2>1
  <2>3. NoMissedStep'
    BY <1>3, <2>1, <2>2, ValidIsSeatedNext DEF NoMissedStep
  <2>4. WaitInv'
    BY <1>1, <1>3 DEF WaitInv, Company
  <2>5. QED
    BY <2>3, <2>4 DEF Waits
<1>4. QED
  BY <1>2, <1>3 DEF CheckAllChipInPoint

LEMMA WaitCheckAllSelectMultiple ==
  ASSUME TypeOK, NoWitness, NoWitness', Waits, NEW m,
         status = "selMultiple", CheckAllSelectMultiple(m),
         UNCHANGED <<seat, chipIn, rounds, settled>>, up
  PROVE  Waits'
<1>1. WaitInv /\ NoMissedStep
  BY DEF Waits
<1>2. CASE status' = "play" /\ st' = [i \in Seats |-> IF i \in Valid THEN "SORT" ELSE st[i]]
  <2>1. \A i \in Seats : seat[i] # None => st'[i] = "SORT"
    BY <1>2, ValidIsSeated
  <2>2. NoMissedStep'
    BY <1>1, <1>2, <2>1, ValidIsSeatedNext DEF NoMissedStep, WaitInv, Company
  <2>3. WaitInv'
    BY <1>1, <1>2, <2>1 DEF WaitInv, Company
  <2>4. QED
    BY <2>2, <2>3 DEF Waits
<1>3. CASE multiple' = m /\ ~AllSelected(m) /\ UNCHANGED <<status, st, up>>
  <2>1. Valid' = Valid
    BY ValidIsSeated, ValidIsSeatedNext
  <2>2. ~AllSelected(multiple)'
    BY <1>3, <2>1 DEF AllSelected
  <2>3. WaitInv'
    BY <1>1, <1>3 DEF WaitInv, Company
  <2>4. NoMissedStep'
    BY <1>3, <2>2 DEF NoMissedStep, AllSelected
  <2>5. QED
    BY <2>3, <2>4 DEF Waits
<1>4. QED
  BY <1>2, <1>3 DEF CheckAllSelectMultiple
LEMMA WaitGame ==
  ASSUME TypeOK, OrderInv, IndexInv, NoWitness', Waits,
         GameTimer \/ \E c \in Clients : InGame(c)
  PROVE  Waits'
<1> USE DEF seatVars, bankVars, resultVars, clientVars, purseVars
<1>1. UNCHANGED seat
  BY GameMovesNobody
<1>2. NoWitness /\ WaitInv /\ NoMissedStep
  BY DEF IndexInv, Waits
<1>3. st \in [Seats -> SeatStatus] /\ \A i \in Seats : st[i] # "WITNESS"
  BY <1>2 DEF TypeOK, NoWitness
<1>4. ASSUME NEW c \in Clients, NEW i \in Seats, IsSeatOf(i, c)
      PROVE  seat[i] # None
  BY <1>4, ClientsAssumption DEF IsSeatOf
<1>5. ASSUME NEW c \in Clients, GiveUpPlaying(c) \/ \E v \in Votes : VoteFoAbortGame(c, v)
      PROVE  Waits'
  <2>1. /\ up /\ status \in {"play", "settle", "vote"}
        /\ UNCHANGED <<st, chipIn, multiple, rounds, settled>>
    BY <1>5
       DEF GiveUpPlaying, VoteFoAbortGame, InRoom, Online, OrderInv, RoundInv
  <2>2. PICK i \in Seats :
          /\ IsSeatOf(i, c)
          /\ \/ /\ status = "vote" /\ vote' = [vote EXCEPT ![i] = "NONE"]
                /\ UNCHANGED <<status, up>>
             \/ \E x \in Votes : CheckAllVotes([vote EXCEPT ![i] = x])
    BY <1>5 DEF GiveUpPlaying, VoteFoAbortGame, Votes
  <2>3. CASE /\ status = "vote" /\ vote' = [vote EXCEPT ![i] = "NONE"]
             /\ UNCHANGED <<status, up>>
    <3>1. \A j \in Valid : vote[j] # "NAY"
      BY <1>2, <2>1, <2>3 DEF NoMissedStep
    <3>2. \A j \in Seats : vote'[j] = IF j = i THEN "NONE" ELSE vote[j]
      BY <2>3 DEF TypeOK
    <3>3. NoMissedStep'
      BY <1>1, <1>2, <1>4, <2>2, <2>3, <3>1, <3>2, ValidIsSeated, ValidIsSeatedNext
         DEF NoMissedStep
    <3>4. WaitInv'
      BY <1>1, <1>2, <2>1, <2>3 DEF WaitInv, Company
    <3>5. QED
      BY <3>3, <3>4 DEF Waits
  <2>4. QED
    BY <1>1, <1>4, <2>1, <2>2, <2>3, WaitCheckAllVotes
<1>6. ASSUME NEW c \in Clients, BringOut(c)
      PROVE  Waits'
  <2>1. PICK i \in Seats : IsSeatOf(i, c) /\ TrySettleGame([st EXCEPT ![i] = "COMPARE"])
    BY <1>6 DEF BringOut
  <2>2. /\ [st EXCEPT ![i] = "COMPARE"] \in [Seats -> SeatStatus]
        /\ \A j \in Seats : [st EXCEPT ![i] = "COMPARE"][j] # "WITNESS"
    BY <1>3 DEF SeatStatus
  <2>3. up /\ status = "play" /\ UNCHANGED <<chipIn, multiple, rounds>>
    BY <1>6 DEF BringOut, InRoom, Online
  <2>4. rounds # settled =>
          \A j \in Seats : seat[j] # None =>
            [st EXCEPT ![i] = "COMPARE"][j] \in {"SORT", "COMPARE"}
    BY <1>2, <1>3, <2>3 DEF WaitInv
  <2>5. QED
    BY <1>1, <1>4, <2>1, <2>2, <2>3, <2>4, WaitTrySettleGame
<1>7. ASSUME NEW c \in Clients, NEW ready \in BOOLEAN, ReadyFlag(c, ready)
      PROVE  Waits'
  <2>1. /\ status \in {"prepare", "settle"}
        /\ UNCHANGED <<chipIn, multiple, settled, up>>
        /\ status = "settle" => settled # 0
    BY <1>7 DEF ReadyFlag, InRoom, Online, OrderInv, RoundInv
  <2>2. PICK i \in Seats :
          /\ IsSeatOf(i, c)
          /\ \/ TryStartRound(status, [st EXCEPT ![i] = "READY"])
             \/ st' = [st EXCEPT ![i] = "PREP"] /\ UNCHANGED status
    BY <1>7 DEF ReadyFlag
  <2>3. CASE TryStartRound(status, [st EXCEPT ![i] = "READY"])
    <3>1. /\ [st EXCEPT ![i] = "READY"] \in [Seats -> SeatStatus]
          /\ \A j \in Seats : [st EXCEPT ![i] = "READY"][j] # "WITNESS"
          /\ \A j \in Seats : seat[j] = None => [st EXCEPT ![i] = "READY"][j] = st[j]
      BY <1>3, <1>4, <2>2 DEF SeatStatus
    <3>2. QED
      BY <1>1, <2>1, <2>3, <3>1, WaitTryStart
  <2>4. CASE st' = [st EXCEPT ![i] = "PREP"] /\ UNCHANGED status
    <3>1. st'[i] = "PREP" /\ seat'[i] # None
      BY <1>1, <1>3, <1>4, <2>2, <2>4
    <3>2. \A j \in Seats : seat[j] = None => st'[j] = st[j]
      BY <1>3, <1>4, <2>2, <2>4
    <3>3. NoMissedStep'
      BY <2>1, <2>4, <3>1, ValidIsSeatedNext DEF NoMissedStep
    <3>4. WaitInv'
      BY <1>1, <1>2, <2>1, <2>4, <3>2 DEF WaitInv, Company
    <3>5. QED
      BY <3>3, <3>4 DEF Waits
  <2>5. QED
    BY <2>2, <2>3, <2>4
<1>8. ASSUME NEW c \in Clients, QuickStart(c) \/ \E v \in Votes : VoteForQuickStart(c, v)
      PROVE  Waits'
  <2>1. /\ up /\ status \in {"prepare", "quickStart"}
        /\ UNCHANGED <<chipIn, multiple, settled, up>>
    BY <1>8 DEF QuickStart, VoteForQuickStart, InRoom, Online
  <2>2. Company
    <3>1. CASE status = "quickStart"
      BY <1>2, <3>1 DEF WaitInv
    <3>2. CASE Cardinality(Valid) >= 2
      <4>1. Valid \in SUBSET Seats
        BY DEF Valid, ValidIn
      <4>2. PICK i, j \in Valid : i # j
        BY <3>2, <4>1, SeatsFinite, ManyAreTwo
      <4>3. QED
        BY <4>1, <4>2, ValidIsSeated, <1>2 DEF Company
    <3>3. QED
      BY <1>8, <3>1, <3>2 DEF QuickStart, VoteForQuickStart
  <2>3. PICK i \in Seats :
          /\ IsSeatOf(i, c)
          /\ \/ /\ status = "quickStart" /\ vote' = [vote EXCEPT ![i] = "NONE"]
                /\ UNCHANGED <<status, st>>
             \/ \E x \in Votes : CheckAllVotesQuickStart([vote EXCEPT ![i] = x])
    BY <1>8 DEF QuickStart, VoteForQuickStart, Votes
  <2>4. CASE /\ status = "quickStart" /\ vote' = [vote EXCEPT ![i] = "NONE"]
             /\ UNCHANGED <<status, st>>
    <3>1. \A j \in Valid : vote[j] # "NAY"
      BY <1>2, <2>1, <2>4 DEF NoMissedStep
    <3>2. \A j \in Seats : vote'[j] = IF j = i THEN "NONE" ELSE vote[j]
      BY <2>4 DEF TypeOK
    <3>3. NoMissedStep'
      BY <1>1, <1>2, <1>4, <2>3, <2>4, <3>1, <3>2, ValidIsSeated, ValidIsSeatedNext
         DEF NoMissedStep
    <3>4. WaitInv'
      BY <1>1, <1>2, <2>1, <2>4 DEF WaitInv, Company
    <3>5. QED
      BY <3>3, <3>4 DEF Waits
  <2>5. QED
    BY <1>1, <1>4, <2>1, <2>2, <2>3, <2>4, WaitCheckAllVotesQuickStart
<1>9. ASSUME NEW c \in Clients, NEW point \in Points, ChipInPoint(c, point)
      PROVE  Waits'
  <2>1. PICK i \in Seats : CheckAllChipInPoint([chipIn EXCEPT ![i] = point])
    BY <1>9 DEF ChipInPoint
  <2>2. [chipIn EXCEPT ![i] = point] \in [Seats -> Int]
    BY AttrAssumption DEF TypeOK
  <2>3. status = "selBanker" /\ UNCHANGED <<multiple, settled, up>>
    BY <1>9 DEF ChipInPoint
  <2>4. QED
    BY <1>1, <1>2, <2>1, <2>2, <2>3, WaitCheckAllChipInPoint
<1>10. CASE SelBankerTimeout
  <2>1. Defaults(chipIn) \in [Seats -> Int]
    BY DEF Defaults, TypeOK
  <2>2. QED
    BY <1>1, <1>2, <1>10, <2>1, WaitCheckAllChipInPoint DEF SelBankerTimeout, Elapsed
<1>11. CASE SelMultipleTimeout
            \/ \E c \in Clients, point \in Points : SelectMultiple(c, point)
  BY <1>1, <1>2, <1>11, WaitCheckAllSelectMultiple
     DEF SelMultipleTimeout, SelectMultiple, Elapsed, InRoom, Online
<1>12. CASE PrepareTick \/ QuickStartTimeout
  BY <1>1, <1>3, <1>12, WaitTryStart DEF PrepareTick, QuickStartTimeout, Elapsed
<1>13. CASE SettleTimeout
  <2> DEFINE s == [i \in Seats |-> IF i \in Valid THEN "READY" ELSE st[i]]
  <2>1. /\ s \in [Seats -> SeatStatus]
        /\ \A i \in Seats : s[i] # "WITNESS"
        /\ \A i \in Seats : seat[i] = None => s[i] = st[i]
    BY <1>2, <1>3, ValidIsSeated DEF SeatStatus
  <2>2. /\ status = "settle" /\ TryStartRound(status, s) /\ settled # 0
        /\ UNCHANGED <<chipIn, multiple, settled, up>>
    BY <1>13 DEF SettleTimeout, Elapsed, OrderInv, RoundInv
  <2> HIDE DEF s
  <2>3. QED
    BY <1>1, <2>1, <2>2, WaitTryStart
<1>14. QED
  BY <1>5, <1>6, <1>7, <1>8, <1>9, <1>10, <1>11, <1>12, <1>13 DEF GameTimer, InGame

LEMMA WaitNext ==
  ASSUME HalfEnter = FALSE, TypeOK, OrderInv, IndexInv, NoWitness', Waits, [Next]_vars
  PROVE  Waits'
<1> USE DEF seatVars, bankVars, resultVars, clientVars, purseVars
<1>1. NoWitness /\ WaitInv /\ NoMissedStep
  BY DEF IndexInv, Waits
<1>2. CASE GameTimer \/ \E c \in Clients : InGame(c)
  BY <1>2, WaitGame
<1>3. ASSUME NEW c \in Clients, CreateGame(c)
      PROVE  Waits'
  <2>1. /\ 1 \in Seats /\ 2 \in Seats
        /\ status = "none" /\ status' = "prepare" /\ UNCHANGED <<chipIn, multiple>>
    BY <1>3, SizeAssumption DEF CreateGame, Seats
  <2>2. seat = Nobody /\ st = NoStatus /\ chipIn = NoPoints /\ multiple = NoPoints
    BY <1>1, <2>1 DEF WaitInv
  <2>3. \/ /\ seat' = [seat EXCEPT ![1] = c] /\ st' = [st EXCEPT ![1] = "PREP"]
        \/ UNCHANGED <<seat, st>>
    BY <1>3 DEF CreateGame
  <2>4. /\ \A i \in Seats : st'[i] # "READY"
        /\ \A i \in Seats : seat'[i] = None => st'[i] = "NONE"
    BY <2>1, <2>2, <2>3, ClientsAssumption DEF Nobody, NoStatus
  <2>5. WaitInv' /\ NoMissedStep'
    BY <2>1, <2>2, <2>4 DEF WaitInv, NoMissedStep, NoPoints
  <2>6. QED
    BY <2>5 DEF Waits
<1>4. ASSUME NEW c \in Clients, JoinGame(c)
      PROVE  Waits'
  <2>1. status = "prepare" /\ rounds = 0 /\ UNCHANGED <<status, chipIn, multiple>>
    BY <1>4 DEF JoinGame, MayEnter
  <2>2. PICK i \in Seats : seat' = [seat EXCEPT ![i] = c] /\ st' = [st EXCEPT ![i] = "PREP"]
    BY <1>4, <2>1 DEF JoinGame
  <2>3. /\ st'[i] = "PREP"
        /\ \A j \in Seats : seat'[j] = None => seat[j] = None /\ st'[j] = st[j]
    BY <2>2, ClientsAssumption DEF TypeOK
  <2>4. WaitInv' /\ NoMissedStep'
    BY <1>1, <2>1, <2>3 DEF WaitInv, NoMissedStep, NoPoints
  <2>5. QED
    BY <2>4 DEF Waits
<1>5. ASSUME status' = "closed"
      PROVE  Waits'
  BY <1>5 DEF Waits, WaitInv, NoMissedStep
<1>6. ASSUME NEW c \in Clients, RemovePlayer(c), UNCHANGED <<status, chipIn, multiple>>,
             status \in {"prepare", "settleAll", "closed"}
      PROVE  Waits'
  <2>1. PICK i \in Seats : seat' = [seat EXCEPT ![i] = None] /\ st' = [st EXCEPT ![i] = "NONE"]
    BY <1>6 DEF RemovePlayer
  <2>2. /\ st'[i] = "NONE"
        /\ \A j \in Seats : j # i => seat'[j] = seat[j] /\ st'[j] = st[j]
        /\ \A j \in Seats : seat'[j] # None => seat[j] # None
    BY <2>1 DEF TypeOK
  <2>3. WaitInv' /\ NoMissedStep'
    BY <1>1, <1>6, <2>2 DEF WaitInv, NoMissedStep
  <2>4. QED
    BY <2>3 DEF Waits
<1>7. ASSUME NEW c \in Clients, GiveUpWaiting(c) \/ GiveUpOver(c)
      PROVE  Waits'
  BY <1>5, <1>6, <1>7 DEF GiveUpWaiting, GiveUpOver, AbortGame
<1>8. CASE VoteTimeout \/ SettleAllTimeout \/ DismissRoom
  BY <1>5, <1>8 DEF VoteTimeout, SettleAllTimeout, DismissRoom, AbortGame
<1>9. CASE EraseClosed
  BY <1>9 DEF EraseClosed, Waits, WaitInv, NoMissedStep, Nobody, NoStatus, NoPoints
<1>10. ASSUME NEW c \in Clients,
              Exchange(c) \/ Elsewhere(c)
              \/ \E t \in Clients, reply \in BOOLEAN : ReplyHalfEnter(c, t, reply)
       PROVE  Waits'
  <2>1. UNCHANGED <<status, rounds, settled, seat, st, vote, chipIn, multiple, up>>
    BY <1>1, <1>10 DEF Exchange, Elsewhere, ReplyHalfEnter, NoWitness, Login, Disconnect,
       Evict, EnterOther, LeaveOther, Recharge
  <2>2. QED
    BY <1>1, <2>1 DEF Waits, WaitInv, NoMissedStep, Valid, ValidIn, Company
<1>11. CASE UNCHANGED vars
  BY <1>1, <1>11 DEF vars, Waits, WaitInv, NoMissedStep, Valid, ValidIn, Company
<1>12. QED
  BY <1>2, <1>3, <1>4, <1>7, <1>8, <1>9, <1>10, <1>11
     DEF Next, Message, Timer, InGame, GameTimer

\* A room that takes nobody in during a game never stands in a phase although its
\* players have done what ends it, the multiples of a first round included and
\* those of later rounds excepted, and an open round always has a player who can
\* bring out his cards: every handler that may find the last of them looks, and
\* finds every player in memory.  Of a room in play between two rounds, after a
\* refused ballot, it says nothing.
THEOREM NothingWaitsInVain ==
  ASSUME HalfEnter = FALSE
  PROVE  Spec => []NoMissedStep
<1> DEFINE Inv == TypeOK /\ OrderInv /\ IndexInv /\ Waits
<1>1. Init => Inv
  BY InitType, OrderInit, IndexInit
     DEF Init, NoGame, Waits, WaitInv, NoMissedStep, Nobody, NoStatus, NoPoints
<1>2. Inv /\ [Next]_vars => Inv'
  <2> SUFFICES ASSUME Inv, [Next]_vars
               PROVE  Inv'
    OBVIOUS
  <2>1. TypeOK' /\ OrderInv' /\ IndexInv'
    BY NextType, OrderNext, IndexNext
  <2>2. Waits'
    BY <2>1, WaitNext DEF IndexInv
  <2>3. QED
    BY <2>1, <2>2
<1>3. Inv => NoMissedStep
  BY DEF Waits
<1>4. QED
  BY <1>1, <1>2, <1>3, PTL DEF Spec

-----------------------------------------------------------------------------
(***************************************************************************)
(* The room implements the series of rounds: Spec => Series, for every     *)
(* number of seats and rounds, every way to pay and to play, with late     *)
(* players or without.                                                     *)
(*                                                                         *)
(* A step of the game proper is one of five kinds (GameStep); each kind is *)
(* a step of GameSeries, or no change of what GameSeries shows.            *)
(***************************************************************************)
Waiting == {"prepare", "quickStart"}
Playing == {"selBanker", "selMultiple", "play", "vote", "settle"}

Same ==
  /\ up' /\ UNCHANGED <<rounds, settled>>
  /\ \/ status \in Waiting /\ status' \in Waiting
     \/ status \in Playing /\ status' \in Playing

Dealt ==
  /\ up' /\ UNCHANGED settled
  /\ status \in Waiting \union {"settle"} /\ status' \in Playing
  /\ rounds = settled /\ rounds < Rounds /\ rounds' = rounds + 1

SettledRound ==
  /\ up' /\ UNCHANGED rounds
  /\ status = "play" /\ status' = IF settled' = Rounds THEN "settleAll" ELSE "settle"
  /\ settled < rounds /\ settled' = settled + 1

CalledOff ==
  /\ up' /\ UNCHANGED <<rounds, settled>>
  /\ status \in Playing /\ status' = "settleAll"

Fell == ~up' /\ status \in Playing

LEMMA StartStep ==
  ASSUME TypeOK, RoundInv, up, UNCHANGED <<settled, up>>,
         NEW s \in [Seats -> SeatStatus],
         NEW ph \in {"prepare", "quickStart", "settle"},
         status = ph \/ (status \in Waiting /\ ph \in Waiting),
         TryStartRound(ph, s)
  PROVE  Same \/ Dealt
<1>1. CASE StartRound(s)
  <2>1. status' \in {"selBanker", "play"} /\ rounds' = rounds + 1
    BY <1>1, StartRoundType
  <2>2. rounds = settled /\ rounds < Rounds
    BY RoundsAssumption DEF RoundInv, TypeOK, Waiting
  <2>3. QED
    BY <2>1, <2>2 DEF Dealt, Waiting, Playing
<1>2. CASE status' = ph /\ UNCHANGED rounds
  <2>1. up' /\ UNCHANGED <<rounds, settled>>
    BY <1>2
  <2>2. \/ status \in Waiting /\ status' \in Waiting
        \/ status \in Playing /\ status' \in Playing
    BY <1>2 DEF Waiting, Playing
  <2>3. QED
    BY <2>1, <2>2 DEF Same
<1>3. QED
  BY <1>1, <1>2 DEF TryStartRound

LEMMA BallotStep ==
  ASSUME TypeOK, up, UNCHANGED <<rounds, settled>>,
         status \in {"play", "vote", "settle"},
         NEW v \in [Seats -> Votes], CheckAllVotes(v)
  PROVE  Same \/ CalledOff \/ Fell
<1>1. CASE SettleAll(settled, result, OwnerBill)
  <2>1. (status' = "settleAll" /\ up') \/ ~up'
    BY <1>1, OwnerBillType, SettleAllType
  <2>2. QED
    BY <2>1 DEF CalledOff, Fell, Playing
<1>2. CASE status' \in {"play", "vote"} /\ UNCHANGED up
  BY <1>2 DEF Same, Playing
<1>3. CASE up' = FALSE
  BY <1>3 DEF Fell, Playing
<1>4. QED
  BY <1>1, <1>2, <1>3 DEF CheckAllVotes

LEMMA QuickBallotStep ==
  ASSUME TypeOK, RoundInv, up, UNCHANGED <<settled, up>>, status \in Waiting,
         NEW v \in [Seats -> Votes], CheckAllVotesQuickStart(v)
  PROVE  Same \/ Dealt
<1>1. st \in [Seats -> SeatStatus]
  BY DEF TypeOK
<1>2. CASE TryStartRound("quickStart", st)
  BY <1>1, <1>2, StartStep DEF Waiting
<1>3. CASE status' \in Waiting /\ UNCHANGED rounds
  <2>1. up' /\ UNCHANGED <<rounds, settled>>
    BY <1>3
  <2>2. QED
    BY <1>3, <2>1 DEF Same
<1>4. QED
  BY <1>2, <1>3 DEF CheckAllVotesQuickStart, Waiting

LEMMA SettleStep ==
  ASSUME TypeOK, RoundInv, up, UNCHANGED rounds,
         status = "play", rounds = settled + 1,
         NEW s \in [Seats -> SeatStatus], TrySettleGame(s)
  PROVE  Same \/ SettledRound \/ Fell
<1>1. CASE UNCHANGED <<status, resultVars, up>>
  BY <1>1 DEF Same, Playing, resultVars
<1>2. ASSUME settled' = settled + 1
      PROVE  (settled' = Rounds) <=> LastRound
  BY <1>2, RoundsAssumption DEF RoundInv, TypeOK, LastRound
<1>3. CASE settled' = settled + 1 /\ ~LastRound /\ status' = "settle" /\ UNCHANGED up
  BY <1>2, <1>3 DEF SettledRound, TypeOK
<1>4. CASE settled' = settled + 1 /\ LastRound /\ SettleAll(settled + 1, seat, NoBill)
  <2>1. NoBill \in [Clients -> Nat]
    BY DEF NoBill
  <2>2. (status' = "settleAll" /\ up') \/ ~up'
    BY <1>4, <2>1, SettleAllType
  <2>3. QED
    BY <1>2, <1>4, <2>2 DEF SettledRound, Fell, Playing, TypeOK
<1>5. QED
  BY <1>1, <1>3, <1>4 DEF TrySettleGame

LEMMA ChoiceStep ==
  ASSUME TypeOK, up, UNCHANGED <<rounds, settled>>,
         \/ status = "selBanker" /\ UNCHANGED up /\ \E ch : CheckAllChipInPoint(ch)
         \/ status = "selMultiple" /\ \E m : CheckAllSelectMultiple(m)
  PROVE  Same \/ Fell
<1>1. CASE status = "selBanker" /\ UNCHANGED up /\ \E ch : CheckAllChipInPoint(ch)
  BY <1>1 DEF CheckAllChipInPoint, Same, Playing
<1>2. CASE status = "selMultiple" /\ \E m : CheckAllSelectMultiple(m)
  <2>1. status' \in {"play", "selMultiple"} /\ up' \in BOOLEAN
    BY <1>2 DEF CheckAllSelectMultiple, TypeOK
  <2>2. QED
    BY <1>2, <2>1 DEF Same, Fell, Playing
<1>3. QED
  BY <1>1, <1>2

LEMMA GameStep ==
  ASSUME TypeOK, RoundInv, up, GameTimer \/ \E c \in Clients : InGame(c)
  PROVE  Same \/ Dealt \/ SettledRound \/ CalledOff \/ Fell
<1> USE DEF bankVars, resultVars
<1>1. ASSUME NEW i \in Seats, NEW v \in Votes
      PROVE  [vote EXCEPT ![i] = v] \in [Seats -> Votes]
  BY DEF TypeOK
<1>2. "AYE" \in Votes /\ st \in [Seats -> SeatStatus]
  BY DEF Votes, TypeOK
<1>3. ASSUME NEW c \in Clients, GiveUpPlaying(c)
      PROVE  Same \/ CalledOff \/ Fell
  <2>1. status \in {"play", "vote", "settle"}
    BY <1>3 DEF GiveUpPlaying, RoundInv
  <2>2. UNCHANGED <<rounds, settled>>
    BY <1>3 DEF GiveUpPlaying
  <2>3. PICK i \in Seats : CheckAllVotes([vote EXCEPT ![i] = "AYE"])
    BY <1>3 DEF GiveUpPlaying
  <2>4. QED
    BY <1>1, <1>2, <2>1, <2>2, <2>3, BallotStep
<1>4. ASSUME NEW c \in Clients, NEW ready \in BOOLEAN, ReadyFlag(c, ready)
      PROVE  Same \/ Dealt
  <2> DEFINE new == IF ready THEN "READY" ELSE "PREP"
  <2>1. PICK i \in Seats :
          TryStartRound(status, [st EXCEPT ![i] = new]) \/ UNCHANGED <<status, rounds>>
    BY <1>4 DEF ReadyFlag
  <2>2. status \in {"prepare", "settle"} /\ UNCHANGED <<settled, up>>
    BY <1>4 DEF ReadyFlag
  <2>3. [st EXCEPT ![i] = new] \in [Seats -> SeatStatus]
    BY <1>2 DEF SeatStatus
  <2> HIDE DEF new
  <2>4. CASE TryStartRound(status, [st EXCEPT ![i] = new])
    BY <2>2, <2>3, <2>4, StartStep
  <2>5. CASE UNCHANGED <<status, rounds>>
    BY <2>2, <2>5 DEF Same, Waiting, Playing
  <2>6. QED
    BY <2>1, <2>4, <2>5
<1>5. ASSUME NEW c \in Clients, BringOut(c)
      PROVE  Same \/ SettledRound \/ Fell
  <2>1. PICK i \in Seats : /\ seat[i] = c /\ st[i] = "SORT"
                           /\ TrySettleGame([st EXCEPT ![i] = "COMPARE"])
    BY <1>5 DEF BringOut, IsSeatOf, MayBringOut
  <2>2. [st EXCEPT ![i] = "COMPARE"] \in [Seats -> SeatStatus]
    BY <1>2 DEF SeatStatus
  <2>3. status = "play" /\ UNCHANGED rounds
    BY <1>5 DEF BringOut
  <2>4. ~Resting
    BY <2>1, ClientsAssumption DEF Resting
  <2>5. rounds = settled + 1
    BY <2>3, <2>4 DEF RoundInv, TypeOK
  <2>6. QED
    BY <2>1, <2>2, <2>3, <2>5, SettleStep
<1>6. ASSUME NEW c \in Clients, NEW v \in Votes, VoteFoAbortGame(c, v)
      PROVE  Same \/ CalledOff \/ Fell
  <2>1. status = "vote" /\ UNCHANGED <<rounds, settled>>
    BY <1>6 DEF VoteFoAbortGame
  <2>2. PICK i \in Seats : UNCHANGED <<status, up>> \/ CheckAllVotes([vote EXCEPT ![i] = v])
    BY <1>6 DEF VoteFoAbortGame
  <2>3. CASE UNCHANGED <<status, up>>
    BY <2>1, <2>3 DEF Same, Playing
  <2>4. CASE CheckAllVotes([vote EXCEPT ![i] = v])
    BY <1>1, <2>1, <2>4, BallotStep
  <2>5. QED
    BY <2>2, <2>3, <2>4
<1>7. ASSUME NEW c \in Clients, QuickStart(c)
      PROVE  Same \/ Dealt
  <2>1. status \in Waiting /\ UNCHANGED <<settled, up>>
    BY <1>7 DEF QuickStart, Waiting
  <2>2. PICK i \in Seats : CheckAllVotesQuickStart([vote EXCEPT ![i] = "AYE"])
    BY <1>7 DEF QuickStart
  <2>3. QED
    BY <1>1, <1>2, <2>1, <2>2, QuickBallotStep
<1>8. ASSUME NEW c \in Clients, NEW v \in Votes, VoteForQuickStart(c, v)
      PROVE  Same \/ Dealt
  <2>1. status \in Waiting /\ UNCHANGED <<settled, up>>
    BY <1>8 DEF VoteForQuickStart, Waiting
  <2>2. PICK i \in Seats : \/ UNCHANGED <<status, rounds>>
                           \/ CheckAllVotesQuickStart([vote EXCEPT ![i] = v])
    BY <1>8 DEF VoteForQuickStart
  <2>3. CASE UNCHANGED <<status, rounds>>
    BY <2>1, <2>3 DEF Same
  <2>4. CASE CheckAllVotesQuickStart([vote EXCEPT ![i] = v])
    BY <1>1, <2>1, <2>4, QuickBallotStep
  <2>5. QED
    BY <2>2, <2>3, <2>4
<1>9. ASSUME NEW c \in Clients, NEW point \in Points,
             ChipInPoint(c, point) \/ SelectMultiple(c, point)
      PROVE  Same \/ Fell
  BY <1>9, ChoiceStep DEF ChipInPoint, SelectMultiple
<1>10. CASE SelBankerTimeout \/ SelMultipleTimeout
  BY <1>10, ChoiceStep DEF SelBankerTimeout, SelMultipleTimeout, Elapsed
<1>11. CASE PrepareTick \/ QuickStartTimeout
  BY <1>2, <1>11, StartStep DEF PrepareTick, QuickStartTimeout, Elapsed
<1>12. CASE SettleTimeout
  <2> DEFINE s == [i \in Seats |-> IF i \in Valid THEN "READY" ELSE st[i]]
  <2>1. s \in [Seats -> SeatStatus]
    BY <1>2 DEF SeatStatus
  <2>2. TryStartRound("settle", s) /\ status = "settle" /\ UNCHANGED <<settled, up>>
    BY <1>12 DEF SettleTimeout, Elapsed
  <2> HIDE DEF s
  <2>3. QED
    BY <2>1, <2>2, StartStep
<1>13. QED
  BY <1>3, <1>4, <1>5, <1>6, <1>7, <1>8, <1>9, <1>10, <1>11, <1>12 DEF GameTimer, InGame

-----------------------------------------------------------------------------
(*** What GameSeries shows of a state ***)

LEMMA PhaseValues ==
  /\ ~up => Phase = "dead"
  /\ up /\ status \in {"none", "closed"} => Phase = "none"
  /\ up /\ status \in Waiting => Phase = "waiting"
  /\ up /\ status \in Playing => Phase = "playing"
  /\ up /\ status = "settleAll" => Phase = "over"
BY DEF Phase, Waiting, Playing

LEMMA PhaseValuesNext ==
  /\ ~up' => Phase' = "dead"
  /\ up' /\ status' \in {"none", "closed"} => Phase' = "none"
  /\ up' /\ status' \in Waiting => Phase' = "waiting"
  /\ up' /\ status' \in Playing => Phase' = "playing"
  /\ up' /\ status' = "settleAll" => Phase' = "over"
BY DEF Phase, Waiting, Playing

Sitting == {c \in Clients : Seated(c)}

\* A room that nobody has created has nobody in it.
EmptyInv == status = "none" => \A i \in Seats : seat[i] = None

LEMMA GameMaps ==
  ASSUME TypeOK, RoundInv, up, UNCHANGED seat,
         Same \/ Dealt \/ SettledRound \/ CalledOff \/ Fell
  PROVE  [Abstract!SNext]_Abstract!sVars
<1>1. Sitting' = Sitting
  BY DEF Sitting, Seated
<1>2. CASE Same
  <2>1. Phase' = Phase
    BY <1>2, PhaseValues, PhaseValuesNext DEF Same
  <2>2. QED
    BY <1>1, <1>2, <2>1 DEF Same, Abstract!sVars, Gone, Sitting
<1>3. CASE Dealt
  <2>1. Phase \in {"waiting", "playing"} /\ Phase' = "playing"
    BY <1>3, PhaseValues, PhaseValuesNext DEF Dealt, Waiting, Playing
  <2>2. Abstract!Deal
    BY <1>1, <1>3, <2>1 DEF Dealt, Abstract!Deal, Gone, Sitting
  <2>3. QED
    BY <2>2 DEF Abstract!SNext
<1>4. CASE SettledRound
  <2>1. Phase = "playing" /\ Phase' = IF settled' = Rounds THEN "over" ELSE "playing"
    BY <1>4, PhaseValues, PhaseValuesNext DEF SettledRound, Playing
  <2>2. Abstract!Settle
    BY <1>1, <1>4, <2>1 DEF SettledRound, Abstract!Settle, Gone, Sitting
  <2>3. QED
    BY <2>2 DEF Abstract!SNext
<1>5. CASE CalledOff
  <2>1. Phase = "playing" /\ Phase' = "over"
    BY <1>5, PhaseValues, PhaseValuesNext DEF CalledOff
  <2>2. Abstract!CallOff
    BY <1>1, <1>5, <2>1 DEF CalledOff, Abstract!CallOff, Gone, Sitting
  <2>3. QED
    BY <2>2 DEF Abstract!SNext
<1>6. CASE Fell
  <2>1. Phase = "playing" /\ Phase' = "dead"
    BY <1>6, PhaseValues, PhaseValuesNext DEF Fell
  <2>2. Abstract!Die
    BY <2>1 DEF Abstract!Die, Gone
  <2>3. QED
    BY <2>2 DEF Abstract!SNext
<1>7. QED
  BY <1>2, <1>3, <1>4, <1>5, <1>6

LEMMA CloseMaps ==
  ASSUME up, up', Phase \in {"waiting", "playing", "over"}, status' = "closed"
  PROVE  [Abstract!SNext]_Abstract!sVars
<1>1. Phase' = "none"
  BY PhaseValuesNext
<1>2. Abstract!Close
  BY <1>1 DEF Abstract!Close, Gone
<1>3. QED
  BY <1>2 DEF Abstract!SNext

LEMMA StayMaps ==
  ASSUME UNCHANGED <<status, rounds, settled, seat, up>>
  PROVE  [Abstract!SNext]_Abstract!sVars
BY DEF Abstract!sVars, Phase, Gone, Seated

\* Whoever leaves takes one seat with him; only a refused witness who came back
\* has two.
LEMMA LeaveMaps ==
  ASSUME TypeOK, up, UNCHANGED <<status, rounds, settled, up>>,
         status \in {"prepare", "settleAll", "closed"},
         NEW c \in Clients, RemovePlayer(c)
  PROVE  [Abstract!SNext]_Abstract!sVars
<1>1. PICK i \in Seats : seat[i] = c /\ seat' = [seat EXCEPT ![i] = None]
  BY DEF RemovePlayer, IsSeatOf
<1>2. \/ Sitting' = Sitting
      \/ Sitting' = Sitting \ {c}
  <2>1. \A d \in Clients \ {c} : Seated(d)' <=> Seated(d)
    BY <1>1, ClientsAssumption DEF Seated, TypeOK
  <2>2. Seated(c)
    BY <1>1 DEF Seated
  <2>3. CASE Seated(c)'
    BY <2>1, <2>2, <2>3 DEF Sitting
  <2>4. CASE ~Seated(c)'
    BY <2>1, <2>2, <2>4 DEF Sitting
  <2>5. QED
    BY <2>3, <2>4
<1>3. Phase' = Phase
  BY DEF Phase
<1>4. CASE status = "closed"
  <2>1. Phase = "none"
    BY <1>4, PhaseValues
  <2>2. QED
    BY <1>3, <2>1 DEF Abstract!sVars, Gone
<1>5. CASE status # "closed" /\ Sitting' = Sitting
  BY <1>3, <1>5 DEF Abstract!sVars, Gone, Sitting
<1>6. CASE status # "closed" /\ Sitting' = Sitting \ {c}
  <2>1. Phase \in {"waiting", "over"}
    BY <1>6, PhaseValues DEF Waiting
  <2>2. Abstract!Leave
    BY <1>3, <1>6, <2>1 DEF Abstract!Leave, Gone, Sitting
  <2>3. QED
    BY <2>2 DEF Abstract!SNext
<1>7. QED
  BY <1>2, <1>4, <1>5, <1>6

LEMMA OpenMaps ==
  ASSUME TypeOK, RoundInv, EmptyInv, up, NEW c \in Clients, CreateGame(c)
  PROVE  [Abstract!SNext]_Abstract!sVars
<1>1. /\ status = "none" /\ status' = "prepare"
      /\ UNCHANGED <<rounds, settled, up>>
  BY DEF CreateGame, resultVars
<1>2. seat' = [seat EXCEPT ![1] = c] \/ seat' = seat
  BY DEF CreateGame, seatVars
<1>3. 1 \in Seats /\ \A i \in Seats : seat[i] = None
  BY <1>1, SizeAssumption DEF EmptyInv, Seats
<1>4. Sitting' \in {{}, {c}}
  BY <1>2, <1>3, ClientsAssumption DEF Sitting, Seated, TypeOK
<1>5. Phase = "none" /\ Phase' = "waiting"
  BY <1>1, PhaseValues, PhaseValuesNext DEF Waiting
<1>6. rounds = 0 /\ settled = 0
  BY <1>1 DEF RoundInv
<1>7. Abstract!Open
  BY <1>1, <1>4, <1>5, <1>6 DEF Abstract!Open, Gone, Sitting
<1>8. QED
  BY <1>7 DEF Abstract!SNext

LEMMA EnterMaps ==
  ASSUME TypeOK, up, NEW c \in Clients, JoinGame(c)
  PROVE  [Abstract!SNext]_Abstract!sVars
<1>1. /\ status \notin {"none", "closed"}
      /\ UNCHANGED <<status, rounds, settled, up>>
      /\ HalfEnter \/ status = "prepare"
  BY DEF JoinGame, MayEnter, resultVars
<1>2. PICK i \in Seats : seat[i] = None /\ seat' = [seat EXCEPT ![i] = c]
  BY DEF JoinGame, IsEmptySeat, IsSeatOf
<1>3. Sitting' = Sitting \union {c}
  BY <1>2, ClientsAssumption DEF Sitting, Seated, TypeOK
<1>4. status \in Waiting \union Playing \union {"settleAll"}
  BY <1>1 DEF TypeOK, GameStatus, Waiting, Playing
<1>5. Phase' = Phase /\ Phase \in {"waiting", "playing", "over"}
  BY <1>1, <1>4, PhaseValues, PhaseValuesNext
<1>6. Phase = "waiting" \/ HalfEnter
  BY <1>1, PhaseValues DEF Waiting
<1>7. Abstract!Enter
  BY <1>1, <1>3, <1>5, <1>6 DEF Abstract!Enter, Gone, Sitting
<1>8. QED
  BY <1>7 DEF Abstract!SNext

LEMMA NextMaps ==
  TypeOK /\ OrderInv /\ EmptyInv /\ [Next]_vars => [Abstract!SNext]_Abstract!sVars
<1> SUFFICES ASSUME TypeOK, OrderInv, EmptyInv, [Next]_vars
             PROVE  [Abstract!SNext]_Abstract!sVars
  OBVIOUS
<1> USE DEF seatVars, bankVars, resultVars, clientVars, purseVars
<1>1. CASE UNCHANGED vars
  BY <1>1, StayMaps DEF vars
<1> SUFFICES ASSUME Next
             PROVE  [Abstract!SNext]_Abstract!sVars
  BY <1>1
<1>2. up
  BY ZenonT(60) DEF Next, Message, Timer, Elsewhere, CreateGame, JoinGame, GiveUpWaiting,
     GiveUpPlaying, GiveUpOver, ReadyFlag, BringOut, VoteFoAbortGame, QuickStart,
     VoteForQuickStart, ReplyHalfEnter, ChipInPoint, SelectMultiple, Exchange,
     PrepareTick, QuickStartTimeout, SelBankerTimeout, SelMultipleTimeout,
     VoteTimeout, SettleTimeout, SettleAllTimeout, EraseClosed, DismissRoom, Login,
     Disconnect, Evict, MayEvict, EnterOther, LeaveOther, Recharge, InRoom, Online, Elapsed
<1>3. RoundInv
  BY <1>2 DEF OrderInv
<1>4. CASE GameTimer \/ \E c \in Clients : InGame(c)
  <2>1. UNCHANGED seat
    BY <1>4, GameMovesNobody
  <2>2. QED
    BY <1>2, <1>3, <1>4, <2>1, GameStep, GameMaps
<1>5. ASSUME NEW c \in Clients, CreateGame(c) \/ JoinGame(c)
      PROVE  [Abstract!SNext]_Abstract!sVars
  BY <1>2, <1>3, <1>5, OpenMaps, EnterMaps
<1>6. ASSUME NEW c \in Clients, GiveUpWaiting(c)
      PROVE  [Abstract!SNext]_Abstract!sVars
  <2>1. status = "prepare" /\ UNCHANGED <<rounds, settled, up>>
    BY <1>6 DEF GiveUpWaiting
  <2>2. CASE AbortGame
    <3>1. Phase = "waiting" /\ status' = "closed"
      BY <1>2, <2>1, <2>2, PhaseValues DEF AbortGame, Waiting
    <3>2. QED
      BY <1>2, <2>1, <3>1, CloseMaps
  <2>3. CASE RemovePlayer(c) /\ UNCHANGED status
    BY <1>2, <2>1, <2>3, LeaveMaps
  <2>4. QED
    BY <1>6, <2>2, <2>3 DEF GiveUpWaiting
<1>7. ASSUME NEW c \in Clients, GiveUpOver(c)
      PROVE  [Abstract!SNext]_Abstract!sVars
  BY <1>2, <1>7, LeaveMaps DEF GiveUpOver
<1>8. CASE VoteTimeout \/ SettleAllTimeout \/ DismissRoom
  <2>1. status \notin {"none", "closed"} /\ status' = "closed" /\ UNCHANGED up
    BY <1>8 DEF VoteTimeout, SettleAllTimeout, DismissRoom, AbortGame, Elapsed
  <2>2. Phase \in {"waiting", "playing", "over"}
    BY <1>2, <2>1, PhaseValues DEF Waiting, Playing, TypeOK, GameStatus
  <2>3. QED
    BY <1>2, <2>1, <2>2, CloseMaps
<1>9. CASE EraseClosed
  <2>1. status = "closed" /\ status' = "none" /\ UNCHANGED up
    BY <1>9 DEF EraseClosed, Elapsed
  <2>2. Phase = "none" /\ Phase' = "none"
    BY <1>2, <2>1, PhaseValues, PhaseValuesNext
  <2>3. QED
    BY <2>2 DEF Abstract!sVars, Gone
<1>10. ASSUME NEW c \in Clients,
              \/ \E t \in Clients, reply \in BOOLEAN : ReplyHalfEnter(c, t, reply)
              \/ Exchange(c) \/ Elsewhere(c)
       PROVE  [Abstract!SNext]_Abstract!sVars
  <2>1. UNCHANGED <<status, rounds, settled, seat, up>>
    BY <1>10 DEF ReplyHalfEnter, Exchange, Elsewhere, Login, Disconnect, Evict,
       EnterOther, LeaveOther, Recharge
  <2>2. QED
    BY <2>1, StayMaps
<1>11. QED
  BY <1>4, <1>5, <1>6, <1>7, <1>8, <1>9, <1>10
     DEF Next, Message, Timer, InGame, GameTimer

LEMMA EmptyNext ==
  TypeOK /\ EmptyInv /\ [Next]_vars => EmptyInv'
<1> SUFFICES ASSUME TypeOK, EmptyInv, [Next]_vars, status' = "none"
             PROVE  \A i \in Seats : seat'[i] = None
  BY DEF EmptyInv
<1> USE DEF seatVars, bankVars, resultVars, clientVars, purseVars
<1>1. CASE GameTimer \/ \E c \in Clients : InGame(c)
  BY <1>1, GameMovesNobody
<1>2. ASSUME NEW c \in Clients,
             CreateGame(c) \/ JoinGame(c) \/ GiveUpWaiting(c) \/ GiveUpOver(c)
      PROVE  FALSE
  BY <1>2 DEF CreateGame, JoinGame, GiveUpWaiting, GiveUpOver, AbortGame
<1>3. CASE VoteTimeout \/ SettleAllTimeout \/ DismissRoom
  BY <1>3 DEF VoteTimeout, SettleAllTimeout, DismissRoom, AbortGame
<1>4. CASE EraseClosed
  BY <1>4 DEF EraseClosed, Nobody
<1>5. ASSUME NEW c \in Clients,
             \/ \E t \in Clients, reply \in BOOLEAN : ReplyHalfEnter(c, t, reply)
             \/ Exchange(c) \/ Elsewhere(c)
      PROVE  UNCHANGED <<status, seat>>
  BY <1>5 DEF ReplyHalfEnter, Exchange, Elsewhere, Login, Disconnect, Evict,
     EnterOther, LeaveOther, Recharge
<1>6. CASE UNCHANGED vars
  BY <1>6 DEF vars, EmptyInv
<1>7. QED
  BY <1>1, <1>2, <1>3, <1>4, <1>5, <1>6
     DEF Next, Message, Timer, InGame, GameTimer, EmptyInv

\* The room keeps the promise of GameSeries: at most the rounds agreed on, dealt
\* and settled in turn, among players who come in only while it waits or when
\* late players are let in, and who leave only when it is over or waits.
THEOREM Implements == Spec => Series
<1>1. Init => TypeOK /\ OrderInv /\ EmptyInv
  BY InitType, OrderInit DEF Init, NoGame, Nobody, EmptyInv
<1>2. TypeOK /\ OrderInv /\ EmptyInv /\ [Next]_vars => (TypeOK /\ OrderInv /\ EmptyInv)'
  BY NextType, OrderNext, EmptyNext
<1>3. Init => Abstract!SInit
  <2>1. ASSUME Init
        PROVE  Phase = "none"
    BY <2>1, PhaseValues DEF Init, NoGame
  <2>2. QED
    BY <2>1 DEF Abstract!SInit, Abstract!NoSeries, Gone
<1>4. QED
  BY <1>1, <1>2, <1>3, NextMaps, PTL DEF Spec, Series, Abstract!SSpec

-----------------------------------------------------------------------------
(*** The room with its copy: five kinds of steps, by what they write ***)

Play == GameTimer \/ \E c \in Clients : InGame(c)

\* The clients outside of the room, and the answers to late players
Aside ==
  \E c \in Clients :
    \/ Exchange(c) \/ Elsewhere(c)
    \/ \E t \in Clients, reply \in BOOLEAN : ReplyHalfEnter(c, t, reply)

Unwritten ==
  /\ up
  /\ \/ Play \/ Aside \/ EraseClosed
     \/ \E c \in Clients : CreateGame(c) /\ UNCHANGED <<seat, roomid>>
  /\ UNCHANGED dbVars

Written ==
  /\ up /\ up'
  /\ [Next]_vars
  /\ status' \notin {"none", "closed"}
  /\ Save(Snapshot')

Brought == \E c \in Clients : BringOut(c) /\ Save(BeforeSettling(c))

Closes ==
  /\ up
  /\ AbortGame
  /\ UNCHANGED <<rounds, owner, bankVars, resultVars, conn, purseVars, up>>

Erased ==
  /\ Next /\ Closes
  /\ \E afterwards \in BOOLEAN : Erase(afterwards)

Strayed == \E c \in Clients : StrayMessage(c)

\* What the kinds have in common
Noted == excused' = Excused /\ twice' = twice \union WithTwoSeats'

Alive == Unwritten \/ Written \/ Brought \/ Erased \/ Strayed

-----------------------------------------------------------------------------
(*** The types ***)

Copies ==
  [status : GameStatus \ {"none", "closed"}, rounds : Nat, owner : Cuids,
   seat : [Seats -> Cuids], st : [Seats -> SeatStatus], vote : [Seats -> Votes],
   chipIn : [Seats -> Int], multiple : [Seats -> Int], banker : Cuids,
   reserved : Nat, settled : Nat, result : [Seats -> Cuids],
   bill : [Clients -> Nat]]

DbTypeOK ==
  /\ TypeOK
  /\ saved \in Copies \union {NoCopy}
  /\ junk \in BOOLEAN /\ lost \in BOOLEAN
  /\ starts \in Nat \ {0}
  /\ excused \subseteq Clients /\ twice \subseteq Clients

LEMMA CopyHasRoom ==
  ASSUME DbTypeOK, saved # NoCopy
  PROVE  saved \in Copies /\ saved.status \notin {"none", "closed"}
BY DEF DbTypeOK, Copies

LEMMA CopyIsCopy ==
  ASSUME NEW g \in Copies
  PROVE  g # NoCopy
<1>1. g.status # "none"
  BY DEF Copies
<1>2. QED
  BY <1>1 DEF NoCopy

\* A room that has no number, or no player left, is empty; a number without a
\* room owes nothing.
RoomInv ==
  /\ status \in {"none", "closed"} => seat = Nobody
  /\ status = "none" => rounds = 0 /\ charged = NoBill

LEMMA NobodySits ==
  ASSUME seat = Nobody, NEW c \in Clients
  PROVE  ~Seated(c) /\ \A i \in Seats : ~IsSeatOf(i, c)
BY ClientsAssumption DEF Nobody, Seated, IsSeatOf

\* Nothing is played in an empty room.
LEMMA EmptyRoomRests ==
  ASSUME TypeOK, seat = Nobody, status \in {"none", "prepare", "closed"}
  PROVE  ~Play
<1>1. ASSUME NEW c \in Clients, InGame(c)
      PROVE  FALSE
  BY <1>1, NobodySits DEF InGame, GiveUpPlaying, ReadyFlag, BringOut, VoteFoAbortGame,
     QuickStart, VoteForQuickStart, ChipInPoint, SelectMultiple
<1>2. ~PrepareTick
  <2>1. 1 \in Seats
    BY SizeAssumption DEF Seats
  <2>2. ~InMemory(seat[1])
    BY <2>1, ClientsAssumption DEF Nobody, InMemory
  <2>3. QED
    BY <2>1, <2>2 DEF PrepareTick, CanStart
<1>3. ~GameTimer
  BY <1>2 DEF GameTimer, QuickStartTimeout, SelBankerTimeout, SelMultipleTimeout,
     SettleTimeout, Elapsed
<1>4. QED
  BY <1>1, <1>3 DEF Play

LEMMA KindOfMessage ==
  ASSUME DbTypeOK, RoomInv, NEW c \in Clients, SavedMessage(c)
  PROVE  Unwritten \/ Written \/ Brought \/ Erased
<1> USE DEF seatVars, clientVars, purseVars
<1>1. Message(c) => Next /\ [Next]_vars
  BY DEF Next
<1>2. SaveAtEnd /\ up' => Save(Snapshot')
  BY DEF SaveAtEnd
<1>3. SaveAtEnd /\ ~up' => UNCHANGED dbVars
  BY DEF SaveAtEnd
<1>4. InGame(c) => Message(c) /\ up /\ status' \notin {"none", "closed"}
  <2>1. InGame(c) => Message(c)
    BY DEF InGame, Message
  <2>2. InGame(c) => up
    BY DEF InGame, GiveUpPlaying, ReadyFlag, BringOut, VoteFoAbortGame,
     QuickStart, VoteForQuickStart, ChipInPoint, SelectMultiple, InRoom, Online
  <2>3. QED
    BY <2>1, <2>2, GameMovesNobody DEF DbTypeOK
<1>5. InGame(c) /\ (SaveAtEnd \/ UNCHANGED dbVars) => Unwritten \/ Written
  <2>1. up' \in BOOLEAN \/ ~InGame(c)
    BY <1>1, <1>4, NextType DEF DbTypeOK, TypeOK
  <2>2. QED
    BY <1>1, <1>2, <1>3, <1>4, <2>1 DEF Unwritten, Written, Play
<1>6. CASE DbCreateGame(c)
  <2>1. CreateGame(c) /\ up /\ up' /\ status' = "prepare"
    BY <1>6 DEF DbCreateGame, CreateGame, Online
  <2>2. CASE UNCHANGED <<seat, roomid>>
    <3>1. roomid'[c] = "none"
      BY <2>1, <2>2 DEF CreateGame
    <3>2. UNCHANGED dbVars
      BY <1>6, <3>1 DEF DbCreateGame
    <3>3. QED
      BY <2>1, <2>2, <3>2 DEF Unwritten
  <2>3. CASE roomid' = [roomid EXCEPT ![c] = "here"]
    <3>1. roomid'[c] = "here"
      BY <2>3 DEF DbTypeOK, TypeOK
    <3>2. SaveAtEnd
      BY <1>6, <3>1 DEF DbCreateGame
    <3>3. QED
      BY <1>1, <1>2, <2>1, <3>2 DEF Written, Message
  <2>4. QED
    BY <2>1, <2>2, <2>3 DEF CreateGame
<1>7. CASE DbJoinGame(c)
  <2>1. /\ JoinGame(c) /\ up /\ up' /\ status' \notin {"none", "closed"}
        /\ Message(c) /\ SaveAtEnd
    BY <1>7 DEF DbJoinGame, JoinGame, Online, Message
  <2>2. QED
    BY <1>1, <1>2, <2>1 DEF Written
<1>8. CASE DbGiveUp(c)
  <2>1. CASE GiveUpWaiting(c) /\ status' = "closed" /\ Erase(TRUE)
    <3>1. Closes
      BY <2>1 DEF GiveUpWaiting, InRoom, Online, Closes, RemovePlayer
    <3>2. QED
      BY <1>1, <2>1, <3>1 DEF Erased, Message
  <2>2. CASE GiveUpWaiting(c) /\ status' # "closed" /\ SaveAtEnd
    <3>1. up /\ up' /\ status' = "prepare"
      BY <2>2 DEF GiveUpWaiting, InRoom, Online, AbortGame
    <3>2. QED
      BY <1>1, <1>2, <2>2, <3>1 DEF Written, Message
  <2>3. CASE GiveUpPlaying(c) /\ SaveAtEnd
    BY <1>5, <2>3 DEF InGame
  <2>4. CASE GiveUpOver(c) /\ SaveAtEnd
    <3>1. seat # Nobody
      BY <2>4, NobodySits DEF GiveUpOver, RemovePlayer
    <3>2. up /\ up' /\ status' = "settleAll"
      BY <2>4, <3>1 DEF GiveUpOver, InRoom, Online, RoomInv
    <3>3. QED
      BY <1>1, <1>2, <2>4, <3>2 DEF Written, Message
  <2>5. QED
    BY <1>8, <2>1, <2>2, <2>3, <2>4 DEF DbGiveUp
<1>9. CASE DbReadyFlag(c)
  BY <1>5, <1>9 DEF DbReadyFlag, InGame
<1>10. CASE DbBringOut(c)
  BY <1>10 DEF DbBringOut, Brought
<1>11. CASE DbVote(c)
  <2>1. InGame(c) /\ (SaveAtEnd \/ UNCHANGED dbVars)
    BY <1>11 DEF DbVote, InGame
  <2>2. QED
    BY <1>5, <2>1
<1>12. CASE SaveAsItIs(c)
  <2>1. UNCHANGED vars /\ up /\ up' /\ status' \notin {"none", "closed"}
    BY <1>12 DEF SaveAsItIs, InRoom, Online, vars
  <2>2. Snapshot' = Snapshot
    BY <2>1 DEF Snapshot, vars
  <2>3. QED
    BY <1>12, <2>1, <2>2 DEF SaveAsItIs, Written
<1>13. QED
  BY <1>6, <1>7, <1>8, <1>9, <1>10, <1>11, <1>12 DEF SavedMessage

LEMMA KindOfStep ==
  ASSUME DbTypeOK, RoomInv,
         \/ \E c \in Clients : SavedMessage(c) \/ UnsavedMessage(c) \/ StrayMessage(c)
         \/ DbTimer
  PROVE  Alive
<1> USE DEF seatVars, clientVars, purseVars
<1>1. ASSUME NEW c \in Clients, UnsavedMessage(c)
      PROVE  Unwritten
  <2>1. up
    BY <1>1 DEF UnsavedMessage, QuickStart, ReplyHalfEnter, ChipInPoint, SelectMultiple,
       InRoom, Online, Exchange, Elsewhere, Login, Disconnect, Evict, EnterOther,
       LeaveOther, Recharge, MayEvict
  <2>2. UNCHANGED dbVars
    BY <1>1 DEF UnsavedMessage
  <2>3. Play \/ Aside
    BY <1>1 DEF UnsavedMessage, Play, InGame, Aside
  <2>4. QED
    BY <2>1, <2>2, <2>3 DEF Unwritten
<1>2. CASE DbTimer
  <2>1. Next
    BY <1>2 DEF DbTimer, Next
  <2>2. CASE VoteTimeout \/ SettleAllTimeout \/ DismissRoom
    <3>1. Closes
      BY <2>2 DEF VoteTimeout, SettleAllTimeout, DismissRoom, Elapsed, Closes
    <3>2. Erase(junk)
      BY <1>2, <3>1 DEF DbTimer, Closes, AbortGame
    <3>3. QED
      BY <2>1, <3>1, <3>2 DEF Alive, Erased, DbTypeOK
  <2>3. CASE EraseClosed
    <3>1. status' = "none" /\ up
      BY <2>3 DEF EraseClosed, Elapsed
    <3>2. UNCHANGED dbVars
      BY <1>2, <3>1 DEF DbTimer
    <3>3. QED
      BY <2>3, <3>1, <3>2 DEF Alive, Unwritten
  <2>4. CASE GameTimer
    <3>1. status' # "closed"
      BY <2>4, GameMovesNobody DEF DbTypeOK
    <3>2. UNCHANGED dbVars
      BY <1>2, <3>1 DEF DbTimer
    <3>3. up
      BY <2>4 DEF GameTimer, PrepareTick, QuickStartTimeout, SelBankerTimeout,
         SelMultipleTimeout, SettleTimeout, Elapsed
    <3>4. QED
      BY <2>4, <3>2, <3>3 DEF Alive, Unwritten, Play
  <2>5. QED
    BY <1>2, <2>2, <2>3, <2>4 DEF DbTimer, Timer, GameTimer
<1>3. QED
  BY <1>1, <1>2, KindOfMessage DEF Alive, Strayed

LEMMA KindsAreSteps ==
  ASSUME DbTypeOK, Unwritten \/ Written \/ Brought \/ Erased
  PROVE  [Next]_vars
<1>1. ASSUME NEW c \in Clients, InGame(c) \/ CreateGame(c) \/ Exchange(c)
             \/ \E t \in Clients, reply \in BOOLEAN : ReplyHalfEnter(c, t, reply)
      PROVE  Next
  BY <1>1 DEF Next, Message, InGame
<1>2. Play => Next
  BY <1>1 DEF Play, GameTimer, Next, Timer
<1>3. Aside => Next
  BY <1>1 DEF Aside, Next
<1>4. Brought => Next
  BY DEF Brought, Next, Message
<1>5. EraseClosed => Next
  BY DEF Next, Timer
<1>6. QED
  BY <1>1, <1>2, <1>3, <1>4, <1>5 DEF Unwritten, Written, Erased

LEMMA SnapshotType ==
  ASSUME TypeOK, status \notin {"none", "closed"}
  PROVE  Snapshot \in Copies
<1>1. NoBill \in [Clients -> Nat]
  BY DEF NoBill
<1>2. QED
  BY <1>1 DEF TypeOK, Snapshot, Copies

LEMMA SnapshotTypeNext ==
  ASSUME TypeOK', status' \notin {"none", "closed"}
  PROVE  Snapshot' \in Copies
<1>1. NoBill \in [Clients -> Nat]
  BY DEF NoBill
<1>2. QED
  BY <1>1 DEF TypeOK, Snapshot, Copies

LEMMA BeforeSettlingType ==
  ASSUME TypeOK, status \notin {"none", "closed"}, NEW c
  PROVE  BeforeSettling(c) \in Copies
<1> DEFINE s == [i \in Seats |-> IF IsSeatOf(i, c) THEN "COMPARE" ELSE st[i]]
<1>1. s \in [Seats -> SeatStatus]
  BY DEF TypeOK, SeatStatus
<1>2. BeforeSettling(c) = [Snapshot EXCEPT !.st = s]
  BY DEF BeforeSettling
<1> HIDE DEF s
<1>3. QED
  BY <1>1, <1>2, SnapshotType DEF Copies

LEMMA TypeAlive ==
  ASSUME DbTypeOK, Alive, Noted
  PROVE  DbTypeOK'
<1> USE DEF seatVars, clientVars, purseVars, dbVars
<1>1. TypeOK'
  <2>1. CASE Strayed
    BY <2>1 DEF Strayed, StrayMessage, DbTypeOK, TypeOK, bankVars, resultVars
  <2>2. CASE Unwritten \/ Written \/ Brought \/ Erased
    BY <2>2, KindsAreSteps, NextType DEF DbTypeOK
  <2>3. QED
    BY <2>1, <2>2 DEF Alive
<1>2. /\ saved' \in Copies \union {NoCopy}
      /\ junk' \in BOOLEAN /\ lost' \in BOOLEAN
      /\ starts' \in Nat \ {0}
  <2>1. CASE Unwritten \/ Strayed
    BY <2>1 DEF DbTypeOK, Unwritten, Strayed, StrayMessage
  <2>2. CASE Written
    BY <1>1, <2>2, SnapshotTypeNext DEF DbTypeOK, Written, Save
  <2>3. CASE Brought
    <3>1. PICK c \in Clients : BringOut(c) /\ Save(BeforeSettling(c))
      BY <2>3 DEF Brought
    <3>2. BeforeSettling(c) \in Copies
      BY <3>1, BeforeSettlingType DEF BringOut, DbTypeOK
    <3>3. QED
      BY <3>1, <3>2 DEF Save, DbTypeOK
  <2>4. CASE Erased
    BY <2>4 DEF DbTypeOK, Erased, Erase
  <2>5. QED
    BY <2>1, <2>2, <2>3, <2>4 DEF Alive
<1>3. excused' \subseteq Clients
  BY DEF DbTypeOK, Noted, Excused
<1>4. twice' \subseteq Clients
  BY DEF DbTypeOK, Noted, WithTwoSeats
<1>5. QED
  BY <1>1, <1>2, <1>3, <1>4 DEF DbTypeOK

\* What a death in the middle of a handler leaves alone
LEMMA TornFacts ==
  ASSUME DbTypeOK, Crash \/ Torn
  PROVE  /\ UNCHANGED <<status, rounds, owner, seat, st, vote, bankVars, resultVars, conn>>
         /\ UNCHANGED dbVars
         /\ up /\ up' = FALSE
         /\ roomid' \in [Clients -> {"none", "here", "other"}]
         /\ money' \in [Clients -> Int] /\ charged' \in [Clients -> Nat]
<1> USE DEF seatVars, clientVars, purseVars
<1>1. TypeOK
  BY DEF DbTypeOK
<1>2. CASE Crash
  BY <1>1, <1>2 DEF Crash, Died, TypeOK
<1>3. ASSUME NEW c \in Clients, TornEnter(c) \/ TornLeave(c)
      PROVE  /\ up /\ UNCHANGED purseVars
             /\ roomid' \in [Clients -> {"none", "here", "other"}]
  BY <1>1, <1>3 DEF TornEnter, TornLeave, InRoom, Online, TypeOK
<1>4. ASSUME NEW n \in Seats, TornAbort(n)
      PROVE  /\ up /\ UNCHANGED purseVars
             /\ roomid' \in [Clients -> {"none", "here", "other"}]
  BY <1>1, <1>4 DEF TornAbort, TypeOK
<1>5. ASSUME NEW n \in Seats, TornDeal(n)
      PROVE  /\ up /\ UNCHANGED roomid
             /\ money' \in [Clients -> Int] /\ charged' \in [Clients -> Nat]
  <2>1. PICK s : Pay([c \in Clients |-> IF \E i \in 1..n : seat[i] = c
                                           THEN FirstDealBill(s)[c] ELSE 0])
    BY <1>5 DEF TornDeal
  <2>2. [c \in Clients |-> IF \E i \in 1..n : seat[i] = c
                             THEN FirstDealBill(s)[c] ELSE 0] \in [Clients -> Nat]
    BY FirstDealBillType
  <2>3. QED
    BY <1>1, <1>5, <2>1, <2>2, PayType DEF TornDeal
<1>6. QED
  BY <1>1, <1>2, <1>3, <1>4, <1>5
     DEF Torn, TornEnter, TornLeave, TornAbort, TornDeal, Died, TypeOK

LEMMA TypeTorn ==
  ASSUME DbTypeOK, Crash \/ Torn, UNCHANGED <<excused, twice>>
  PROVE  DbTypeOK'
BY TornFacts DEF DbTypeOK, TypeOK, bankVars, resultVars, dbVars

LEMMA TypeRestart ==
  ASSUME DbTypeOK, Restart, UNCHANGED <<excused, twice>>
  PROVE  DbTypeOK'
<1>1. /\ conn' \in [Clients -> {"online", "offline", "absent"}]
      /\ roomid' \in [Clients -> {"none", "here", "other"}]
      /\ money' \in [Clients -> Int] /\ up' \in BOOLEAN
      /\ junk' \in BOOLEAN /\ starts' \in Nat \ {0}
      /\ excused' \subseteq Clients /\ twice' \subseteq Clients
  BY DEF Restart, DbTypeOK, TypeOK
<1>2. CASE Recovered
  <2>1. saved \in Copies
    BY <1>2, CopyHasRoom DEF Recovered
  <2>2. QED
    BY <1>1, <1>2, <2>1 DEF Recovered, DbTypeOK, TypeOK, Copies
<1>3. CASE NotRecovered
  <2>1. saved' \in Copies \union {NoCopy}
    BY <1>3, CopyHasRoom DEF NotRecovered, Copies, DbTypeOK, TypeOK
  <2>2. /\ NoBill \in [Clients -> Nat] /\ Nobody \in [Seats -> Cuids]
        /\ NoStatus \in [Seats -> SeatStatus] /\ NoVotes \in [Seats -> Votes]
        /\ NoPoints \in [Seats -> Int] /\ None \in Cuids
    BY DEF NoBill, Nobody, NoStatus, NoVotes, NoPoints, Cuids, SeatStatus, Votes
  <2>3. "none" \in GameStatus
    BY DEF GameStatus
  <2>4. lost' \in BOOLEAN
    BY <1>3 DEF NotRecovered
  <2>5. QED
    BY <1>1, <1>3, <2>1, <2>2, <2>3, <2>4 DEF NotRecovered, DbTypeOK, TypeOK
<1>4. QED
  BY <1>2, <1>3 DEF Restart

-----------------------------------------------------------------------------
(*** The room and its copy ***)

LEMMA PlayAdvances ==
  ASSUME TypeOK, Play
  PROVE  /\ UNCHANGED <<seat, owner>>
         /\ rounds' \in {rounds, rounds + 1}
         /\ status \notin {"none", "closed"} /\ status' \notin {"none", "closed"}
<1> USE DEF seatVars, clientVars, purseVars
<1>1. UNCHANGED owner
  BY DEF Play, GameTimer, InGame, GiveUpPlaying, ReadyFlag, BringOut, VoteFoAbortGame,
     QuickStart, VoteForQuickStart, ChipInPoint, SelectMultiple, PrepareTick,
     QuickStartTimeout, SelBankerTimeout, SelMultipleTimeout, SettleTimeout
<1>2. ASSUME NEW ph, NEW s, TryStartRound(ph, s)
      PROVE  rounds' \in {rounds, rounds + 1}
  BY <1>2 DEF TryStartRound, StartRound
<1>3. ASSUME NEW v, CheckAllVotesQuickStart(v)
      PROVE  rounds' \in {rounds, rounds + 1}
  BY <1>2, <1>3 DEF CheckAllVotesQuickStart
<1>4. ASSUME NEW c \in Clients, InGame(c)
      PROVE  rounds' \in {rounds, rounds + 1}
  <2>1. CASE \E ready \in BOOLEAN : ReadyFlag(c, ready)
    <3>1. UNCHANGED rounds \/ \E ph, s : TryStartRound(ph, s)
      BY <2>1 DEF ReadyFlag
    <3>2. QED
      BY <1>2, <3>1
  <2>2. CASE QuickStart(c) \/ \E v \in Votes : VoteForQuickStart(c, v)
    <3>1. UNCHANGED rounds \/ \E v : CheckAllVotesQuickStart(v)
      BY <2>2 DEF QuickStart, VoteForQuickStart
    <3>2. QED
      BY <1>3, <3>1
  <2>3. QED
    BY <1>4, <2>1, <2>2 DEF InGame, GiveUpPlaying, BringOut, VoteFoAbortGame, ChipInPoint,
       SelectMultiple
<1>5. GameTimer => rounds' \in {rounds, rounds + 1}
  BY <1>2 DEF GameTimer, PrepareTick, QuickStartTimeout, SelBankerTimeout,
     SelMultipleTimeout, SettleTimeout
<1>6. QED
  BY <1>1, <1>4, <1>5, GameMovesNobody DEF Play

LEMMA AsideIsIdle ==
  ASSUME Aside
  PROVE  UNCHANGED <<status, rounds, owner, seat, charged>>
BY DEF Aside, Exchange, Elsewhere, ReplyHalfEnter, Login, Disconnect, Evict,
   EnterOther, LeaveOther, Recharge, purseVars, seatVars

\* A step that writes its result leaves an open room behind.
LEMMA RoomAlive ==
  ASSUME DbTypeOK, RoomInv, Alive
  PROVE  RoomInv'
<1> USE DEF seatVars, purseVars
<1>1. CASE Written
  BY <1>1 DEF Written, RoomInv
<1>2. CASE Brought
  <2>1. Play
    BY <1>2 DEF Brought, Play, InGame
  <2>2. QED
    BY <2>1, PlayAdvances DEF RoomInv, DbTypeOK
<1>3. CASE Erased
  BY <1>3 DEF Erased, Closes, AbortGame, RoomInv
<1>4. CASE Strayed
  BY <1>4 DEF Strayed, StrayMessage, RoomInv
<1>5. CASE Unwritten
  <2>1. CASE Play
    BY <2>1, PlayAdvances DEF RoomInv, DbTypeOK
  <2>2. CASE Aside
    BY <2>2, AsideIsIdle DEF RoomInv
  <2>3. CASE EraseClosed
    BY <2>3 DEF EraseClosed, RoomInv
  <2>4. CASE \E c \in Clients : CreateGame(c)
    BY <2>4 DEF CreateGame, RoomInv
  <2>5. QED
    BY <1>5, <2>1, <2>2, <2>3, <2>4 DEF Unwritten
<1>6. QED
  BY <1>1, <1>2, <1>3, <1>4, <1>5 DEF Alive

\* A game that the process does not know has left nothing but an empty room.
LostInv ==
  lost => /\ saved # NoCopy
          /\ status \in {"none", "prepare"} /\ seat = Nobody
          /\ rounds = 0 /\ charged = NoBill

\* Otherwise the entry is of the room: of its owner, with its seats, and not
\* ahead of it.
CopyInv ==
  ~lost =>
    /\ status \in {"none", "closed"} => saved = NoCopy
    /\ status \notin {"none", "closed"} =>
         IF saved = NoCopy THEN seat = Nobody ELSE seat = saved.seat
    /\ saved # NoCopy => saved.rounds <= rounds /\ saved.owner = owner

LEMMA LostAlive ==
  ASSUME DbTypeOK, RoomInv, LostInv, Alive
  PROVE  LostInv'
<1> USE DEF seatVars, purseVars
<1>1. CASE Written \/ Brought \/ Erased
  BY <1>1 DEF Written, Brought, Erased, Save, Erase, LostInv
<1>2. CASE Strayed
  BY <1>2 DEF Strayed, StrayMessage, LostInv, dbVars
<1>3. CASE Unwritten
  <2>1. lost /\ Play => FALSE
    BY EmptyRoomRests DEF LostInv, DbTypeOK
  <2>2. CASE Aside
    BY <1>3, <2>2, AsideIsIdle DEF Unwritten, LostInv, dbVars
  <2>3. CASE EraseClosed
    BY <1>3, <2>3 DEF Unwritten, EraseClosed, Elapsed, LostInv, dbVars
  <2>4. CASE \E c \in Clients : CreateGame(c) /\ UNCHANGED <<seat, roomid>>
    BY <1>3, <2>4 DEF Unwritten, CreateGame, LostInv, dbVars
  <2>5. QED
    BY <1>3, <2>1, <2>2, <2>3, <2>4 DEF Unwritten, LostInv, dbVars
<1>4. QED
  BY <1>1, <1>2, <1>3 DEF Alive

LEMMA CopyAlive ==
  ASSUME DbTypeOK, RoomInv, CopyInv, Alive, Noted
  PROVE  CopyInv'
<1> USE DEF seatVars, purseVars
<1>1. TypeOK /\ DbTypeOK'
  BY TypeAlive DEF DbTypeOK
<1>2. CASE Written
  <2>1. status' \notin {"none", "closed"} /\ saved' = Snapshot'
    BY <1>2 DEF Written, Save
  <2>2. saved'.seat = seat' /\ saved'.rounds = rounds' /\ saved'.owner = owner'
    BY <2>1 DEF Snapshot
  <2>3. rounds' <= rounds'
    BY <1>1 DEF DbTypeOK, TypeOK
  <2>4. saved' # NoCopy
    BY <1>1, <2>1, SnapshotTypeNext, CopyIsCopy DEF DbTypeOK
  <2>5. QED
    BY <2>1, <2>2, <2>3, <2>4 DEF CopyInv
<1>3. CASE Brought
  <2>1. PICK c \in Clients : BringOut(c) /\ saved' = BeforeSettling(c)
    BY <1>3 DEF Brought, Save
  <2>2. Play
    BY <2>1 DEF Play, InGame
  <2>3. saved'.seat = seat /\ saved'.rounds = rounds /\ saved'.owner = owner
    BY <2>1 DEF BeforeSettling, Snapshot
  <2>4. UNCHANGED <<seat, owner, rounds>> /\ rounds <= rounds'
    BY <1>1, <2>1 DEF BringOut, TypeOK
  <2>5. saved' # NoCopy
    BY <1>1, <2>1, BeforeSettlingType, CopyIsCopy DEF BringOut
  <2>6. status' \notin {"none", "closed"}
    BY <1>1, <2>2, PlayAdvances
  <2>7. QED
    BY <2>3, <2>4, <2>5, <2>6 DEF CopyInv
<1>4. CASE Erased
  BY <1>4 DEF Erased, Closes, AbortGame, Erase, CopyInv
<1>5. CASE Strayed
  BY <1>5 DEF Strayed, StrayMessage, CopyInv, dbVars
<1>6. CASE Unwritten
  <2>1. UNCHANGED <<saved, lost>>
    BY <1>6 DEF Unwritten, dbVars
  <2>2. CASE Play
    <3>1. saved # NoCopy => saved.rounds \in Nat
      BY CopyHasRoom DEF Copies
    <3>2. QED
      BY <1>1, <2>1, <2>2, <3>1, PlayAdvances DEF CopyInv, TypeOK
  <2>3. CASE Aside
    BY <2>1, <2>3, AsideIsIdle DEF CopyInv
  <2>4. CASE EraseClosed
    BY <2>1, <2>4 DEF EraseClosed, Elapsed, CopyInv
  <2>5. CASE \E c \in Clients : CreateGame(c) /\ UNCHANGED <<seat, roomid>>
    BY <2>1, <2>5 DEF CreateGame, CopyInv, RoomInv
  <2>6. QED
    BY <1>6, <2>2, <2>3, <2>4, <2>5 DEF Unwritten
<1>7. QED
  BY <1>2, <1>3, <1>4, <1>5, <1>6 DEF Alive

LEMMA EntryTorn ==
  ASSUME DbTypeOK, RoomInv, LostInv, CopyInv, Crash \/ Torn
  PROVE  RoomInv' /\ LostInv' /\ CopyInv'
<1>1. seat = Nobody /\ status \in {"none", "prepare", "closed"} => UNCHANGED charged
  <2>1. ASSUME NEW n \in Seats, TornDeal(n), seat = Nobody
        PROVE  UNCHANGED charged
    <3>1. PICK s : Pay([c \in Clients |-> IF \E i \in 1..n : seat[i] = c
                                             THEN FirstDealBill(s)[c] ELSE 0])
      BY <2>1 DEF TornDeal
    <3>2. \A i \in 1..n : i \in Seats
      BY SizeAssumption DEF Seats
    <3>3. \A c \in Clients : ~\E i \in 1..n : seat[i] = c
      BY <2>1, <3>2, ClientsAssumption DEF Nobody
    <3>4. [c \in Clients |-> IF \E i \in 1..n : seat[i] = c
                               THEN FirstDealBill(s)[c] ELSE 0] = NoBill
      BY <3>3 DEF NoBill
    <3>5. QED
      BY <3>1, <3>4, ChargeNothing DEF DbTypeOK
  <2>2. QED
    BY <2>1 DEF Crash, Torn, TornEnter, TornLeave, TornAbort, purseVars
<1>2. UNCHANGED <<status, rounds, owner, seat, saved, lost>>
  BY TornFacts DEF dbVars
<1>3. RoomInv'
  BY <1>1, <1>2 DEF RoomInv
<1>4. LostInv'
  BY <1>1, <1>2 DEF LostInv
<1>5. CopyInv'
  BY <1>2 DEF CopyInv
<1>6. QED
  BY <1>3, <1>4, <1>5

LEMMA EntryRestart ==
  ASSUME DbTypeOK, RoomInv, LostInv, CopyInv, Restart
  PROVE  RoomInv' /\ LostInv' /\ CopyInv'
<1>1. CASE Recovered
  <2>1. saved # NoCopy /\ saved.status \notin {"none", "closed"} /\ saved.rounds \in Nat
    BY <1>1, CopyHasRoom DEF Recovered, Copies
  <2>2. QED
    BY <1>1, <2>1 DEF Recovered, RoomInv, LostInv, CopyInv
<1>2. CASE NotRecovered
  <2>1. saved # NoCopy => [saved EXCEPT !.bill = charged] \in Copies
    BY CopyHasRoom DEF Copies, DbTypeOK, TypeOK
  <2>2. saved # NoCopy => saved' # NoCopy
    BY <1>2, <2>1, CopyIsCopy DEF NotRecovered
  <2>3. saved = NoCopy => saved' = NoCopy
    BY <1>2 DEF NotRecovered
  <2>4. QED
    BY <1>2, <2>2, <2>3 DEF NotRecovered, RoomInv, LostInv, CopyInv
<1>3. QED
  BY <1>1, <1>2 DEF Restart

-----------------------------------------------------------------------------
(*** The order of the rounds ***)

\* RoundInv of the copy.  It is never taken of a round that is settled already.
CopyInOrder ==
  saved # NoCopy =>
    /\ saved.settled <= saved.rounds /\ saved.rounds <= saved.settled + 1
    /\ saved.rounds <= Rounds
    /\ saved.status \in {"prepare", "quickStart"} => saved.rounds = 0 /\ saved.settled = 0
    /\ saved.status \in {"selBanker", "selMultiple"} => saved.rounds = saved.settled + 1
    /\ saved.status = "settle" => saved.rounds = saved.settled
    /\ saved.status \in {"play", "vote", "settle"} =>
         /\ saved.rounds > 0
         /\ saved.rounds = saved.settled =>
              /\ saved.rounds < Rounds
              /\ \A i \in Seats : saved.seat[i] # None => saved.st[i] \notin {"SORT", "COMPARE"}

LEMMA OrderAlive ==
  ASSUME DbTypeOK, OrderInv, CopyInOrder, Alive
  PROVE  OrderInv' /\ CopyInOrder'
<1>1. TypeOK
  BY DEF DbTypeOK
<1>2. OrderInv'
  <2>1. CASE Strayed
    BY <2>1 DEF Strayed, StrayMessage, OrderInv, RoundInv, Resting, seatVars, resultVars
  <2>2. QED
    BY <1>1, <2>1, KindsAreSteps, OrderNext DEF Alive
<1>3. CASE Unwritten \/ Strayed
  BY <1>2, <1>3 DEF Unwritten, Strayed, StrayMessage, dbVars, CopyInOrder
<1>4. CASE Erased
  BY <1>2, <1>4 DEF Erased, Erase, CopyInOrder
<1>5. CASE Written
  <2>1. RoundInv' /\ saved' = Snapshot'
    BY <1>2, <1>5 DEF OrderInv, Written, Save
  <2>2. /\ saved'.status = status' /\ saved'.rounds = rounds' /\ saved'.settled = settled'
        /\ saved'.seat = seat' /\ saved'.st = st'
    BY <2>1 DEF Snapshot
  <2>3. CopyInOrder'
    BY <2>1, <2>2 DEF RoundInv, Resting, CopyInOrder
  <2>4. QED
    BY <1>2, <2>3
<1>6. CASE Brought
  <2>1. PICK c \in Clients : BringOut(c) /\ saved' = BeforeSettling(c)
    BY <1>6 DEF Brought, Save
  <2>2. PICK i \in Seats : IsSeatOf(i, c) /\ MayBringOut(i)
    BY <2>1 DEF BringOut
  <2>3. RoundInv /\ status = "play"
    BY <2>1 DEF BringOut, InRoom, Online, OrderInv
  <2>4. ~Resting
    BY <2>2, ClientsAssumption DEF IsSeatOf, MayBringOut, Resting
  <2>5. rounds # settled
    BY <2>3, <2>4 DEF RoundInv
  <2>6. saved'.status = "play" /\ saved'.rounds = rounds /\ saved'.settled = settled
    BY <2>1, <2>3 DEF BeforeSettling, Snapshot
  <2>7. CopyInOrder'
    BY <1>1, <2>3, <2>5, <2>6 DEF RoundInv, CopyInOrder, TypeOK
  <2>8. QED
    BY <1>2, <2>7
<1>7. QED
  BY <1>3, <1>4, <1>5, <1>6 DEF Alive

LEMMA OrderRestart ==
  ASSUME DbTypeOK, CopyInOrder, Restart
  PROVE  OrderInv' /\ CopyInOrder'
<1>1. CASE Recovered
  <2>1. saved # NoCopy /\ saved.status \notin {"none", "closed"}
    BY <1>1, CopyHasRoom DEF Recovered
  <2>2. QED
    BY <1>1, <2>1 DEF Recovered, CopyInOrder, OrderInv, RoundInv, Resting
<1>2. CASE NotRecovered
  <2>1. saved # NoCopy => saved \in Copies
    BY CopyHasRoom
  <2>2. saved' # NoCopy =>
          /\ saved # NoCopy
          /\ saved'.status = saved.status /\ saved'.rounds = saved.rounds
          /\ saved'.settled = saved.settled
          /\ saved'.seat = saved.seat /\ saved'.st = saved.st
    BY <1>2, <2>1 DEF NotRecovered, Copies
  <2>3. CopyInOrder'
    BY <2>2 DEF CopyInOrder
  <2>4. OrderInv'
    BY <1>2, RoundsAssumption DEF NotRecovered, OrderInv, RoundInv
  <2>5. QED
    BY <2>3, <2>4
<1>3. QED
  BY <1>1, <1>2 DEF Restart

-----------------------------------------------------------------------------
(*** What the first deal costs ***)

LEMMA Times ==
  /\ \A a, k \in Nat : a * k \in Nat
  /\ \A a, k \in Nat : k # 0 => a * k >= a
  /\ \A a, k \in Nat : k <= 1 => a * k <= a
  /\ \A a, k \in Nat : k # 0 => a * (k - 1) + a = a * k
<1>1. \A a, k \in Nat : a * k \in Nat
  OBVIOUS
<1>2. \A a, k \in Nat : k # 0 => a * (k - 1) + a = a * k /\ k - 1 \in Nat
  OBVIOUS
<1>3. \A a, k \in Nat : k # 0 => a * k >= a
  BY <1>1, <1>2
<1>4. \A a, k \in Nat : k <= 1 => a * k <= a
  OBVIOUS
<1>5. QED
  BY <1>1, <1>2, <1>3, <1>4

LEMMA DueType == \A c : Due(c) \in Nat
BY PriceTypes DEF Due

SeatsOf(s, c) == {i \in Seats : seat[i] = c /\ s[i] # "WITNESS"}

\* The bill of a player is what is due for each of his seats, if he is there.
LEMMA BillBySeats ==
  ASSUME Payor # "winner", NEW s, NEW c \in Clients
  PROVE  /\ Cardinality(SeatsOf(s, c)) \in Nat
         /\ Cardinality(SeatsOf(s, c)) = 0 <=> SeatsOf(s, c) = {}
         /\ FirstDealBill(s)[c] =
              IF InMemory(c) THEN Due(c) * Cardinality(SeatsOf(s, c)) ELSE 0
<1> DEFINE mine == SeatsOf(s, c)
<1>1. IsFiniteSet(mine) /\ Cardinality(mine) \in Nat
  BY SeatsFinite DEF SeatsOf
<1>2. Cardinality(mine) = 0 <=> mine = {}
  BY <1>1, FS_EmptySet
<1>3. FirstDealBill(s)[c] =
        IF mine = {} \/ ~InMemory(c) THEN 0
        ELSE CASE Payor = "banker" -> IF c = owner THEN Total * Cardinality(mine) ELSE 0
               [] Payor = "aa"     -> Price * Cardinality(mine)
               [] Payor = "winner" -> 0
  BY DEF FirstDealBill, SeatsOf
<1> HIDE DEF mine
<1>4. Payor \in {"aa", "banker"}
  BY AttrAssumption
<1>5. mine = {} => Due(c) * Cardinality(mine) = 0
  BY <1>2, DueType
<1>6. 0 * Cardinality(mine) = 0
  BY <1>1
<1>7. FirstDealBill(s)[c] = IF InMemory(c) THEN Due(c) * Cardinality(mine) ELSE 0
  BY <1>3, <1>4, <1>5, <1>6 DEF Due
<1>8. QED
  BY <1>1, <1>2, <1>7 DEF mine

LEMMA BillCovers ==
  ASSUME Payor # "winner", NEW s, \A i \in Seats : s[i] # "WITNESS",
         NEW c \in Clients, Seated(c), InMemory(c)
  PROVE  FirstDealBill(s)[c] >= Due(c)
<1>1. SeatsOf(s, c) # {}
  BY DEF Seated, SeatsOf
<1>2. /\ Cardinality(SeatsOf(s, c)) \in Nat /\ Cardinality(SeatsOf(s, c)) # 0
      /\ FirstDealBill(s)[c] = Due(c) * Cardinality(SeatsOf(s, c))
  BY <1>1, BillBySeats
<1>3. QED
  BY <1>2, Times, DueType

LEMMA BillIsShare ==
  ASSUME Payor # "winner", NEW s, NEW c \in Clients, c \notin WithTwoSeats
  PROVE  FirstDealBill(s)[c] <= Due(c)
<1>1. SeatsOf(s, c) = {} \/ \E i : SeatsOf(s, c) = {i}
  BY DEF WithTwoSeats, SeatsOf
<1>2. /\ Cardinality(SeatsOf(s, c)) \in Nat
      /\ FirstDealBill(s)[c] = IF InMemory(c) THEN Due(c) * Cardinality(SeatsOf(s, c)) ELSE 0
  BY BillBySeats
<1>3. Cardinality(SeatsOf(s, c)) <= 1
  <2>1. CASE SeatsOf(s, c) = {}
    BY <2>1, FS_EmptySet
  <2>2. ASSUME NEW i, SeatsOf(s, c) = {i}
        PROVE  Cardinality(SeatsOf(s, c)) <= 1
    <3>1. Cardinality({i}) = 1
      BY FS_Singleton
    <3>2. QED
      BY <2>2, <3>1
  <2>3. QED
    BY <1>1, <2>1, <2>2
<1>4. QED
  BY <1>2, <1>3, Times, DueType

Free == UNCHANGED charged /\ (rounds' = rounds \/ (rounds > 0 /\ rounds' = rounds + 1))

FirstDeal ==
  \E s \in [Seats -> SeatStatus] :
    /\ rounds = 0 /\ rounds' = 1
    /\ UNCHANGED <<seat, owner>>
    /\ NoWitness => \A i \in Seats : s[i] # "WITNESS"
    /\ charged' = [c \in Clients |-> charged[c] + FirstDealBill(s)[c]]

LEMMA BillOfStart ==
  ASSUME TypeOK, NEW ph, NEW s \in [Seats -> SeatStatus],
         NoWitness => \A i \in Seats : s[i] # "WITNESS",
         TryStartRound(ph, s), UNCHANGED <<seat, owner>>
  PROVE  Free \/ FirstDeal
<1>1. CASE StartRound(s) /\ rounds = 0
  <2>1. charged' = [c \in Clients |-> charged[c] + FirstDealBill(s)[c]]
    BY <1>1 DEF StartRound, Pay, DealBill
  <2>2. rounds' = 1
    BY <1>1 DEF StartRound
  <2>3. QED
    BY <1>1, <2>1, <2>2 DEF FirstDeal
<1>2. CASE StartRound(s) /\ rounds # 0
  <2>1. UNCHANGED charged
    BY <1>2, ChargeNothing DEF StartRound, DealBill
  <2>2. rounds > 0 /\ rounds' = rounds + 1
    BY <1>2 DEF StartRound, TypeOK
  <2>3. QED
    BY <2>1, <2>2 DEF Free
<1>3. CASE UNCHANGED <<rounds, charged>>
  BY <1>3 DEF Free
<1>4. QED
  BY <1>1, <1>2, <1>3 DEF TryStartRound, purseVars

LEMMA BillOfPlay ==
  ASSUME TypeOK, Payor # "winner", Play
  PROVE  Free \/ FirstDeal
<1> USE DEF seatVars, bankVars, resultVars, clientVars, purseVars
<1>1. st \in [Seats -> SeatStatus]
  BY DEF TypeOK
<1>2. UNCHANGED <<seat, owner>>
  BY PlayAdvances
<1>3. ASSUME NEW c \in Clients, GiveUpPlaying(c) \/ \E v \in Votes : VoteFoAbortGame(c, v)
      PROVE  Free
  BY <1>3, CheckAllVotesIsFree DEF GiveUpPlaying, VoteFoAbortGame, Free
<1>4. ASSUME NEW c \in Clients, BringOut(c)
      PROVE  Free
  BY <1>4, TrySettleGameIsFree DEF BringOut, Free
<1>5. ASSUME NEW c \in Clients, NEW ready \in BOOLEAN, ReadyFlag(c, ready)
      PROVE  Free \/ FirstDeal
  <2> DEFINE s(i) == [st EXCEPT ![i] = "READY"]
  <2>1. \/ \E i \in Seats : TryStartRound(status, s(i))
        \/ UNCHANGED <<rounds, charged>>
    BY <1>5 DEF ReadyFlag
  <2>2. \A i \in Seats : /\ s(i) \in [Seats -> SeatStatus]
                         /\ NoWitness => \A j \in Seats : s(i)[j] # "WITNESS"
    BY <1>1 DEF NoWitness, SeatStatus
  <2> HIDE DEF s
  <2>3. QED
    BY <1>2, <2>1, <2>2, BillOfStart DEF Free
<1>6. ASSUME NEW v, CheckAllVotesQuickStart(v)
      PROVE  Free \/ FirstDeal
  <2>1. TryStartRound("quickStart", st) \/ UNCHANGED <<rounds, charged>>
    BY <1>6 DEF CheckAllVotesQuickStart
  <2>2. NoWitness => \A i \in Seats : st[i] # "WITNESS"
    BY DEF NoWitness
  <2>3. QED
    BY <1>1, <1>2, <2>1, <2>2, BillOfStart DEF Free
<1>7. ASSUME NEW c \in Clients, QuickStart(c) \/ \E v \in Votes : VoteForQuickStart(c, v)
      PROVE  Free \/ FirstDeal
  <2>1. UNCHANGED <<rounds, charged>> \/ \E v : CheckAllVotesQuickStart(v)
    BY <1>7 DEF QuickStart, VoteForQuickStart
  <2>2. QED
    BY <1>6, <2>1 DEF Free
<1>8. ASSUME NEW c \in Clients, NEW point \in Points,
             ChipInPoint(c, point) \/ SelectMultiple(c, point)
      PROVE  Free
  BY <1>8 DEF ChipInPoint, SelectMultiple, Free
<1>9. CASE SelBankerTimeout \/ SelMultipleTimeout
  BY <1>9 DEF SelBankerTimeout, SelMultipleTimeout, Free
<1>10. CASE PrepareTick \/ QuickStartTimeout
  <2>1. \E ph : TryStartRound(ph, st)
    BY <1>10 DEF PrepareTick, QuickStartTimeout
  <2>2. NoWitness => \A i \in Seats : st[i] # "WITNESS"
    BY DEF NoWitness
  <2>3. QED
    BY <1>1, <1>2, <2>1, <2>2, BillOfStart
<1>11. CASE SettleTimeout
  <2> DEFINE s == [i \in Seats |-> IF i \in Valid THEN "READY" ELSE st[i]]
  <2>1. TryStartRound("settle", s)
    BY <1>11 DEF SettleTimeout
  <2>2. /\ s \in [Seats -> SeatStatus]
        /\ NoWitness => \A i \in Seats : s[i] # "WITNESS"
    BY <1>1 DEF NoWitness, SeatStatus
  <2> HIDE DEF s
  <2>3. QED
    BY <1>2, <2>1, <2>2, BillOfStart
<1>12. QED
  BY <1>3, <1>4, <1>5, <1>7, <1>8, <1>9, <1>10, <1>11 DEF Play, GameTimer, InGame

LEMMA StepCases ==
  ASSUME [Next]_vars
  PROVE  \/ Play \/ Aside \/ EraseClosed \/ UNCHANGED vars
         \/ VoteTimeout \/ SettleAllTimeout \/ DismissRoom
         \/ \E c \in Clients : CreateGame(c) \/ JoinGame(c) \/ GiveUpWaiting(c) \/ GiveUpOver(c)
BY DEF Next, Message, Timer, Play, InGame, GameTimer, Aside

LEMMA BillOfStep ==
  ASSUME TypeOK, Payor # "winner", [Next]_vars
  PROVE  EraseClosed \/ Free \/ FirstDeal
<1> USE DEF seatVars, purseVars
<1>1. CASE VoteTimeout \/ SettleAllTimeout \/ DismissRoom \/ UNCHANGED vars
  BY <1>1 DEF VoteTimeout, SettleAllTimeout, DismissRoom, vars, Free
<1>2. ASSUME NEW c \in Clients, CreateGame(c) \/ JoinGame(c) \/ GiveUpWaiting(c) \/ GiveUpOver(c)
      PROVE  Free
  BY <1>2 DEF CreateGame, JoinGame, GiveUpWaiting, GiveUpOver, Free
<1>3. Aside => Free
  BY AsideIsIdle DEF Free
<1>4. QED
  BY <1>1, <1>2, <1>3, BillOfPlay, StepCases

\* While a game without late players is played, nobody comes.
LEMMA NobodyComes ==
  ASSUME HalfEnter = FALSE, TypeOK, RoomInv, [Next]_vars, rounds > 0
  PROVE  EraseClosed \/ (owner' = owner /\ \A c \in Clients : Seated(c)' => Seated(c))
<1> USE DEF seatVars, purseVars
<1>1. UNCHANGED seat => \A c \in Clients : Seated(c)' => Seated(c)
  BY DEF Seated
<1>2. CASE Play
  BY <1>1, <1>2, PlayAdvances
<1>3. CASE Aside
  BY <1>1, <1>3, AsideIsIdle
<1>4. CASE UNCHANGED vars
  BY <1>1, <1>4 DEF vars
<1>5. ASSUME AbortGame
      PROVE  \A c \in Clients : ~Seated(c)'
  BY <1>5, ClientsAssumption DEF AbortGame, Nobody, Seated
<1>6. CASE VoteTimeout \/ SettleAllTimeout \/ DismissRoom
  BY <1>5, <1>6 DEF VoteTimeout, SettleAllTimeout, DismissRoom
<1>7. ASSUME NEW c \in Clients, CreateGame(c) \/ JoinGame(c)
      PROVE  FALSE
  BY <1>7 DEF CreateGame, JoinGame, MayEnter, RoomInv
<1>8. ASSUME NEW c \in Clients, RemovePlayer(c)
      PROVE  \A d \in Clients : Seated(d)' => Seated(d)
  <2>1. \A i \in Seats : seat'[i] \in {None, seat[i]}
    BY <1>8 DEF RemovePlayer, TypeOK
  <2>2. QED
    BY <2>1, ClientsAssumption DEF Seated
<1>9. ASSUME NEW c \in Clients, GiveUpWaiting(c) \/ GiveUpOver(c)
      PROVE  owner' = owner /\ \A d \in Clients : Seated(d)' => Seated(d)
  BY <1>5, <1>8, <1>9 DEF GiveUpWaiting, GiveUpOver
<1>10. QED
  BY <1>2, <1>3, <1>4, <1>6, <1>7, <1>9, StepCases

-----------------------------------------------------------------------------
(*** Nobody plays for nothing ***)

CopyNoWitness == saved # NoCopy => \A i \in Seats : saved.st[i] # "WITNESS"

LEMMA NoWitnessStep ==
  ASSUME HalfEnter = FALSE, TypeOK, NoWitness, [Next]_vars
  PROVE  NoWitness'
<1> USE DEF seatVars
<1>1. CASE Play
  BY <1>1, NoWitnessGame DEF Play
<1>2. CASE UNCHANGED vars \/ EraseClosed \/ VoteTimeout \/ SettleAllTimeout \/ DismissRoom
  BY <1>2 DEF vars, EraseClosed, VoteTimeout, SettleAllTimeout, DismissRoom, AbortGame,
     NoStatus, NoWitness
<1>3. CASE Aside
  BY <1>3 DEF Aside, Exchange, Elsewhere, ReplyHalfEnter, Login, Disconnect, Evict,
     EnterOther, LeaveOther, Recharge, NoWitness
<1>4. ASSUME NEW c \in Clients, CreateGame(c) \/ JoinGame(c) \/ GiveUpWaiting(c) \/ GiveUpOver(c)
      PROVE  NoWitness'
  <2>1. \/ UNCHANGED st \/ st' = NoStatus
        \/ \E i \in Seats, x \in {"NONE", "PREP"} : st' = [st EXCEPT ![i] = x]
    <3>1. 1 \in Seats
      BY SizeAssumption DEF Seats
    <3>2. QED
      BY <1>4, <3>1 DEF CreateGame, JoinGame, MayEnter, GiveUpWaiting, GiveUpOver,
         AbortGame, RemovePlayer
  <2>2. QED
    BY <2>1 DEF NoWitness, NoStatus, TypeOK
<1>5. QED
  BY <1>1, <1>2, <1>3, <1>4, StepCases

LEMMA NoWitnessAlive ==
  ASSUME HalfEnter = FALSE, DbTypeOK, NoWitness, CopyNoWitness, Alive
  PROVE  NoWitness' /\ CopyNoWitness'
<1>1. NoWitness'
  <2>1. CASE Strayed
    BY <2>1 DEF Strayed, StrayMessage, NoWitness, seatVars
  <2>2. QED
    BY <2>1, KindsAreSteps, NoWitnessStep DEF Alive, DbTypeOK
<1>2. CASE Unwritten \/ Strayed \/ Erased
  BY <1>1, <1>2 DEF Unwritten, Strayed, StrayMessage, Erased, Erase, dbVars, CopyNoWitness
<1>3. CASE Written
  <2>1. saved'.st = st'
    BY <1>3 DEF Written, Save, Snapshot
  <2>2. QED
    BY <1>1, <2>1 DEF CopyNoWitness, NoWitness
<1>4. CASE Brought
  <2>1. PICK c \in Clients :
          saved'.st = [i \in Seats |-> IF IsSeatOf(i, c) THEN "COMPARE" ELSE st[i]]
    BY <1>4 DEF Brought, Save, BeforeSettling, Snapshot
  <2>2. QED
    BY <1>1, <2>1 DEF CopyNoWitness, NoWitness
<1>5. QED
  BY <1>2, <1>3, <1>4 DEF Alive

LEMMA NoWitnessRestart ==
  ASSUME DbTypeOK, CopyNoWitness, Restart
  PROVE  NoWitness' /\ CopyNoWitness'
<1>1. CASE Recovered
  BY <1>1 DEF Recovered, NoWitness, CopyNoWitness
<1>2. CASE NotRecovered
  <2>1. saved # NoCopy => saved \in Copies
    BY CopyHasRoom
  <2>2. saved' # NoCopy => saved # NoCopy /\ saved'.st = saved.st
    BY <1>2, <2>1 DEF NotRecovered, Copies
  <2>3. NoWitness'
    BY <1>2 DEF NotRecovered, NoStatus, NoWitness
  <2>4. QED
    BY <2>2, <2>3 DEF CopyNoWitness
<1>3. QED
  BY <1>1, <1>2 DEF Restart

DueTo(o, c) == IF Payor = "aa" THEN Price ELSE IF c = o THEN Total ELSE 0

\* What was paid for the game of the copy
CopyBill == IF lost THEN saved.bill ELSE charged

PaidInv ==
  rounds > 0 => \A c \in Clients : Seated(c) /\ c \notin excused => charged[c] >= Due(c)

CopyPaid ==
  saved # NoCopy /\ saved.rounds > 0 =>
    \A c \in Clients \ excused :
      (\E i \in Seats : saved.seat[i] = c) => CopyBill[c] >= DueTo(saved.owner, c)

LEMMA PaidStep ==
  ASSUME HalfEnter = FALSE, Payor # "winner", TypeOK, RoomInv, NoWitness, PaidInv,
         [Next]_vars, excused' = Excused
  PROVE  PaidInv'
<1>1. \A c : Due(c) \in Nat
  BY DueType
<1>2. CASE EraseClosed
  BY <1>2 DEF EraseClosed, PaidInv
<1>3. CASE FirstDeal
  <2>1. PICK s \in [Seats -> SeatStatus] :
          /\ rounds = 0 /\ rounds' = 1
          /\ UNCHANGED <<seat, owner>>
          /\ \A i \in Seats : s[i] # "WITNESS"
          /\ charged' = [c \in Clients |-> charged[c] + FirstDealBill(s)[c]]
    BY <1>3 DEF FirstDeal
  <2>2. excused' = {c \in Clients : Seated(c) /\ ~InMemory(c)}
    BY <2>1 DEF Excused
  <2>3. ASSUME NEW c \in Clients, Seated(c), c \notin excused'
        PROVE  charged'[c] >= Due(c)
    <3>1. FirstDealBill(s)[c] >= Due(c)
      BY <2>1, <2>2, <2>3, BillCovers
    <3>2. FirstDealBill(s)[c] \in Nat /\ charged[c] \in Nat
      BY FirstDealBillType DEF TypeOK
    <3>3. QED
      BY <1>1, <2>1, <3>1, <3>2
  <2>4. \A c \in Clients : (Seated(c)' <=> Seated(c)) /\ Due(c)' = Due(c)
    BY <2>1 DEF Seated, Due
  <2>5. QED
    BY <2>3, <2>4 DEF PaidInv
<1>4. CASE Free /\ rounds > 0 /\ ~EraseClosed
  <2>1. owner' = owner /\ \A c \in Clients : Seated(c)' => Seated(c)
    BY <1>4, NobodyComes
  <2>2. rounds' > 0 /\ UNCHANGED charged
    BY <1>4 DEF Free, TypeOK
  <2>3. excused' = excused
    BY <1>4, <2>2 DEF Excused
  <2>4. QED
    BY <1>4, <2>1, <2>2, <2>3 DEF PaidInv, Due
<1>5. CASE Free /\ ~(rounds > 0)
  BY <1>5 DEF Free, PaidInv
<1>6. QED
  BY <1>2, <1>3, <1>4, <1>5, BillOfStep

LEMMA PaidAlive ==
  ASSUME HalfEnter = FALSE, Payor # "winner", DbTypeOK, RoomInv, LostInv, CopyInv,
         NoWitness, PaidInv, CopyPaid, Alive, Noted
  PROVE  PaidInv' /\ CopyPaid'
<1>1. TypeOK /\ TypeOK'
  BY TypeAlive DEF DbTypeOK
<1>2. excused' = Excused
  BY DEF Noted
<1>3. PaidInv'
  <2>1. CASE Strayed
    <3>1. UNCHANGED <<rounds, seat, owner, charged>>
      BY <2>1 DEF Strayed, StrayMessage, seatVars, purseVars
    <3>2. rounds > 0 => excused' = excused
      BY <1>1, <1>2, <3>1 DEF Excused, TypeOK
    <3>3. QED
      BY <3>1, <3>2 DEF PaidInv, Seated, Due
  <2>2. CASE ~Strayed
    BY <1>1, <1>2, <2>2, KindsAreSteps, PaidStep DEF Alive
  <2>3. QED
    BY <2>1, <2>2
<1>4. CASE Erased
  BY <1>3, <1>4 DEF Erased, Erase, CopyPaid
<1>5. CASE Written
  <2>1. saved' = Snapshot' /\ lost' = FALSE
    BY <1>5 DEF Written, Save
  <2>2. saved'.rounds = rounds' /\ saved'.seat = seat' /\ saved'.owner = owner'
    BY <2>1 DEF Snapshot
  <2>3. CopyPaid'
    BY <1>3, <2>1, <2>2 DEF PaidInv, CopyPaid, CopyBill, Seated, Due, DueTo
  <2>4. QED
    BY <1>3, <2>3
<1>6. CASE Brought
  <2>1. PICK c \in Clients : BringOut(c) /\ saved' = BeforeSettling(c) /\ lost' = FALSE
    BY <1>6 DEF Brought, Save
  <2>2. UNCHANGED <<rounds, seat, owner>>
    BY <2>1 DEF BringOut
  <2>3. saved'.rounds = rounds' /\ saved'.seat = seat' /\ saved'.owner = owner'
    BY <2>1, <2>2 DEF BeforeSettling, Snapshot
  <2>4. CopyPaid'
    BY <1>3, <2>1, <2>3 DEF PaidInv, CopyPaid, CopyBill, Seated, Due, DueTo
  <2>5. QED
    BY <1>3, <2>4
<1>7. CASE (Unwritten \/ Strayed) /\ saved # NoCopy /\ saved.rounds > 0
  <2>1. UNCHANGED <<saved, lost>>
    BY <1>7 DEF Unwritten, Strayed, StrayMessage, dbVars
  <2>2. saved.rounds \in Nat
    BY <1>7, CopyHasRoom DEF Copies
  <2>3. CASE lost
    <3>1. rounds' = 0
      <4>1. ~Play
        BY <2>3, EmptyRoomRests DEF LostInv, DbTypeOK
      <4>2. QED
        BY <1>7, <2>3, <4>1, AsideIsIdle
           DEF Unwritten, EraseClosed, CreateGame, Strayed, StrayMessage, LostInv
    <3>2. excused' = excused
      BY <1>2, <2>1, <2>3, <3>1 DEF Excused
    <3>3. QED
      BY <1>3, <2>1, <2>3, <3>2 DEF CopyPaid, CopyBill
  <2>4. CASE ~lost
    <3>1. rounds > 0 /\ status \notin {"none", "closed"}
      BY <1>1, <1>7, <2>2, <2>4 DEF CopyInv, TypeOK
    <3>2. ~EraseClosed
      BY <3>1 DEF EraseClosed, Elapsed
    <3>3. UNCHANGED charged /\ rounds' > 0
      <4>1. CASE Strayed
        BY <3>1, <4>1 DEF Strayed, StrayMessage, purseVars
      <4>2. CASE Unwritten
        <5>1. Free
          BY <1>1, <3>1, <3>2, <4>2, KindsAreSteps, BillOfStep DEF FirstDeal
        <5>2. QED
          BY <1>1, <3>1, <5>1 DEF Free, TypeOK
      <4>3. QED
        BY <1>7, <4>1, <4>2
    <3>4. excused' = excused
      BY <1>1, <1>2, <3>1, <3>3 DEF Excused, TypeOK
    <3>5. QED
      BY <1>3, <2>1, <2>4, <3>3, <3>4 DEF CopyPaid, CopyBill
  <2>5. QED
    BY <2>3, <2>4
<1>8. CASE (Unwritten \/ Strayed) /\ ~(saved # NoCopy /\ saved.rounds > 0)
  <2>1. UNCHANGED saved
    BY <1>8 DEF Unwritten, Strayed, StrayMessage, dbVars
  <2>2. QED
    BY <1>3, <1>8, <2>1 DEF CopyPaid
<1>9. QED
  BY <1>4, <1>5, <1>6, <1>7, <1>8 DEF Alive

\* A handler that dies may have charged some of the players, each no more than
\* the whole handler would have.
LEMMA BillTorn ==
  ASSUME DbTypeOK, Payor # "winner", Crash \/ Torn
  PROVE  /\ \A c \in Clients : charged'[c] >= charged[c]
         /\ \/ UNCHANGED charged
            \/ /\ rounds = 0
               /\ \A c \in Clients \ WithTwoSeats : charged'[c] <= charged[c] + Due(c)
<1>1. ASSUME NEW n \in Seats, TornDeal(n)
      PROVE  /\ rounds = 0
             /\ \A c \in Clients : charged'[c] >= charged[c]
             /\ \A c \in Clients \ WithTwoSeats : charged'[c] <= charged[c] + Due(c)
  <2>1. rounds = 0
    BY <1>1 DEF TornDeal
  <2>2. PICK s : Pay([c \in Clients |-> IF \E i \in 1..n : seat[i] = c
                                           THEN FirstDealBill(s)[c] ELSE 0])
    BY <1>1 DEF TornDeal
  <2>3. charged' = [c \in Clients |-> charged[c] + IF \E i \in 1..n : seat[i] = c
                                                     THEN FirstDealBill(s)[c] ELSE 0]
    BY <2>2 DEF Pay
  <2>4. FirstDealBill(s) \in [Clients -> Nat] /\ \A c \in Clients : charged[c] \in Nat
    BY FirstDealBillType DEF DbTypeOK, TypeOK
  <2>5. \A c \in Clients : charged'[c] >= charged[c]
    BY <2>3, <2>4
  <2>6. ASSUME NEW c \in Clients \ WithTwoSeats
        PROVE  charged'[c] <= charged[c] + Due(c)
    <3>1. FirstDealBill(s)[c] <= Due(c)
      BY BillIsShare
    <3>2. QED
      BY <2>3, <2>4, <3>1, DueType
  <2>7. QED
    BY <2>1, <2>5, <2>6
<1>2. UNCHANGED charged => \A c \in Clients : charged'[c] >= charged[c]
  BY DEF DbTypeOK, TypeOK
<1>3. QED
  BY <1>1, <1>2 DEF Crash, Torn, TornEnter, TornLeave, TornAbort, purseVars

LEMMA PaidTorn ==
  ASSUME DbTypeOK, Payor # "winner", LostInv, PaidInv, CopyPaid, Crash \/ Torn,
         UNCHANGED <<excused, twice>>
  PROVE  PaidInv' /\ CopyPaid'
<1>1. UNCHANGED <<rounds, owner, seat, saved, lost>> /\ charged' \in [Clients -> Nat]
  BY TornFacts DEF dbVars
<1>2. \A c \in Clients : charged'[c] >= charged[c] /\ charged[c] \in Nat /\ charged'[c] \in Nat
  BY <1>1, BillTorn DEF DbTypeOK, TypeOK
<1>3. \A c \in Clients : (Seated(c)' <=> Seated(c)) /\ Due(c)' = Due(c)
  BY <1>1 DEF Seated, Due
<1>4. PaidInv'
  BY <1>1, <1>2, <1>3, DueType DEF PaidInv
<1>5. CASE lost
  BY <1>1, <1>4, <1>5 DEF CopyPaid, CopyBill
<1>6. CASE ~lost
  <2>1. \A o, c : DueTo(o, c) \in Nat
    BY PriceTypes DEF DueTo
  <2>2. CopyBill = charged /\ CopyBill' = charged'
    BY <1>1, <1>6 DEF CopyBill
  <2>3. CopyPaid'
    BY <1>1, <1>2, <2>1, <2>2 DEF CopyPaid
  <2>4. QED
    BY <1>4, <2>3
<1>7. QED
  BY <1>5, <1>6

LEMMA PaidRestart ==
  ASSUME DbTypeOK, PaidInv, CopyPaid, Restart, UNCHANGED <<excused, twice>>
  PROVE  PaidInv' /\ CopyPaid'
<1>1. CASE Recovered
  <2>1. /\ saved # NoCopy /\ UNCHANGED saved /\ lost' = FALSE
        /\ rounds' = saved.rounds /\ owner' = saved.owner /\ seat' = saved.seat
        /\ charged' = CopyBill
    BY <1>1 DEF Recovered, CopyBill
  <2>2. PaidInv'
    BY <2>1 DEF PaidInv, CopyPaid, Seated, Due, DueTo
  <2>3. CopyPaid'
    BY <2>1 DEF CopyPaid, CopyBill
  <2>4. QED
    BY <2>2, <2>3
<1>2. CASE NotRecovered
  <2>1. rounds' = 0
    BY <1>2 DEF NotRecovered
  <2>2. ASSUME saved # NoCopy
        PROVE  /\ saved'.rounds = saved.rounds /\ saved'.owner = saved.owner
               /\ saved'.seat = saved.seat /\ saved'.bill = CopyBill /\ lost' = TRUE
    <3>1. saved \in Copies
      BY <2>2, CopyHasRoom
    <3>2. QED
      BY <1>2, <2>2, <3>1 DEF NotRecovered, CopyBill, Copies
  <2>3. saved = NoCopy => saved' = NoCopy
    BY <1>2 DEF NotRecovered
  <2>4. CopyPaid'
    BY <2>2, <2>3 DEF CopyPaid, CopyBill
  <2>5. QED
    BY <2>1, <2>4 DEF PaidInv
<1>3. QED
  BY <1>1, <1>2 DEF Restart

-----------------------------------------------------------------------------
(*** Each start costs at most one price ***)

TwiceInv ==
  /\ WithTwoSeats \subseteq twice
  /\ saved # NoCopy =>
       \A c \in Clients, i, j \in Seats :
         i # j /\ saved.seat[i] = c /\ saved.seat[j] = c => c \in twice

LEMMA TwiceAlive ==
  ASSUME DbTypeOK, TwiceInv, Alive, Noted
  PROVE  TwiceInv'
<1>1. WithTwoSeats' \subseteq twice' /\ twice \subseteq twice'
  BY DEF Noted
<1>2. CASE Unwritten \/ Strayed \/ Erased
  BY <1>1, <1>2 DEF Unwritten, Strayed, StrayMessage, Erased, Erase, dbVars, TwiceInv
<1>3. CASE Written
  <2>1. saved'.seat = seat'
    BY <1>3 DEF Written, Save, Snapshot
  <2>2. QED
    BY <1>1, <2>1 DEF TwiceInv, WithTwoSeats
<1>4. CASE Brought
  <2>1. saved'.seat = seat
    BY <1>4 DEF Brought, Save, BeforeSettling, Snapshot
  <2>2. QED
    BY <1>1, <2>1 DEF TwiceInv, WithTwoSeats
<1>5. QED
  BY <1>2, <1>3, <1>4 DEF Alive

LEMMA TwiceTorn ==
  ASSUME DbTypeOK, TwiceInv, Crash \/ Torn, UNCHANGED <<excused, twice>>
  PROVE  TwiceInv'
BY TornFacts DEF TwiceInv, WithTwoSeats, dbVars

LEMMA TwiceRestart ==
  ASSUME DbTypeOK, TwiceInv, Restart, UNCHANGED <<excused, twice>>
  PROVE  TwiceInv'
<1>1. CASE Recovered
  BY <1>1 DEF Recovered, TwiceInv, WithTwoSeats
<1>2. CASE NotRecovered
  <2>1. saved' # NoCopy => saved # NoCopy /\ saved'.seat = saved.seat
    BY <1>2, CopyHasRoom DEF NotRecovered, Copies
  <2>2. WithTwoSeats' = {}
    BY <1>2, ClientsAssumption DEF NotRecovered, Nobody, WithTwoSeats
  <2>3. QED
    BY <2>1, <2>2 DEF TwiceInv
<1>3. QED
  BY <1>1, <1>2 DEF Restart

\* The start that is under way has charged nobody before its first deal.
OwedInv ==
  \A c \in Clients \ twice :
    charged[c] <= Due(c) * (IF up /\ rounds = 0 THEN starts - 1 ELSE starts)

CopyOwed ==
  lost => \A c \in Clients \ twice : saved.bill[c] <= DueTo(saved.owner, c) * starts

\* One more start, or one price more, is enough for what has been charged.
LEMMA OnePriceMore ==
  ASSUME NEW d \in Nat, NEW n \in Nat \ {0}
  PROVE  /\ d * n \in Nat /\ d * (n - 1) \in Nat
         /\ d * (n - 1) + d = d * n /\ d * (n - 1) <= d * n
BY Times

LEMMA OwedStep ==
  ASSUME Payor # "winner", DbTypeOK, RoomInv, TwiceInv, OwedInv, up,
         [Next]_vars, UNCHANGED starts, twice' = twice \union WithTwoSeats'
  PROVE  OwedInv'
<1> USE DEF purseVars
<1>1. /\ TypeOK /\ starts \in Nat \ {0} /\ up' \in BOOLEAN
      /\ \A c \in Clients : charged[c] \in Nat
  BY NextType DEF DbTypeOK, TypeOK
<1>2. \A c : Due(c) \in Nat /\ Due(c)' \in Nat
  BY PriceTypes DEF Due
<1> DEFINE n == IF up /\ rounds = 0 THEN starts - 1 ELSE starts
           m == IF up' /\ rounds' = 0 THEN starts - 1 ELSE starts
<1>3. CASE charged' = NoBill
  <2>1. ASSUME NEW c \in Clients
        PROVE  charged'[c] <= Due(c)' * m
    <3>1. Due(c)' * m \in Nat
      BY <1>1, <1>2, OnePriceMore
    <3>2. charged'[c] = 0
      BY <1>3 DEF NoBill
    <3>3. QED
      BY <3>1, <3>2
  <2>2. QED
    BY <2>1 DEF OwedInv
<1>4. CASE Free /\ charged' # NoBill
  <2>1. ~\E c \in Clients : CreateGame(c)
    BY <1>4 DEF Free, CreateGame, RoomInv
  <2>2. ~EraseClosed
    BY <1>4 DEF EraseClosed
  <2>3. UNCHANGED owner
    <3>1. CASE Play
      BY <1>1, <3>1, PlayAdvances
    <3>2. QED
      BY <2>1, <2>2, <3>1, AsideIsIdle, StepCases
         DEF JoinGame, GiveUpWaiting, GiveUpOver, VoteTimeout, SettleAllTimeout,
             DismissRoom, vars
  <2>4. ASSUME NEW c \in Clients \ twice
        PROVE  charged[c] <= Due(c) * m
    <3>1. charged[c] <= Due(c) * n
      BY <2>4 DEF OwedInv
    <3>2. n = m \/ (n = starts - 1 /\ m = starts)
      BY <1>1, <1>4 DEF Free, TypeOK
    <3>3. Due(c) * n <= Due(c) * m /\ Due(c) * n \in Nat /\ Due(c) * m \in Nat
      BY <1>1, <1>2, <3>2, OnePriceMore
    <3>4. QED
      BY <1>1, <3>1, <3>3
  <2>5. UNCHANGED charged
    BY <1>4 DEF Free
  <2>6. QED
    BY <2>3, <2>4, <2>5 DEF OwedInv, Due
<1>5. CASE FirstDeal
  <2>1. PICK s \in [Seats -> SeatStatus] :
          /\ rounds = 0 /\ rounds' = 1
          /\ UNCHANGED <<seat, owner>>
          /\ charged' = [c \in Clients |-> charged[c] + FirstDealBill(s)[c]]
    BY <1>5 DEF FirstDeal
  <2>2. ASSUME NEW c \in Clients \ twice
        PROVE  charged'[c] <= Due(c) * starts
    <3>1. charged[c] <= Due(c) * (starts - 1)
      BY <2>1, <2>2 DEF OwedInv
    <3>2. FirstDealBill(s)[c] <= Due(c) /\ FirstDealBill(s)[c] \in Nat
      BY <2>2, BillIsShare, FirstDealBillType DEF TwiceInv
    <3>3. charged'[c] = charged[c] + FirstDealBill(s)[c]
      BY <2>1
    <3>4. QED
      BY <1>1, <1>2, <3>1, <3>2, <3>3, OnePriceMore
  <2>3. m = starts
    BY <2>1
  <2>4. QED
    BY <2>1, <2>2, <2>3 DEF OwedInv, Due
<1>6. EraseClosed => charged' = NoBill
  BY DEF EraseClosed
<1>7. QED
  BY <1>1, <1>3, <1>4, <1>5, <1>6, BillOfStep

LEMMA OwedAlive ==
  ASSUME Payor # "winner", DbTypeOK, RoomInv, TwiceInv, OwedInv, CopyOwed, Alive, Noted
  PROVE  OwedInv' /\ CopyOwed'
<1>1. UNCHANGED starts
  BY DEF Alive, Unwritten, Written, Brought, Erased, Strayed, StrayMessage, Save, Erase, dbVars
<1>2. up
  BY DEF Alive, Unwritten, Written, Brought, BringOut, InRoom, Erased, Closes, Strayed,
     StrayMessage, Online
<1>3. OwedInv'
  <2>1. CASE Strayed
    BY <1>1, <2>1 DEF Strayed, StrayMessage, Noted, OwedInv, Due, purseVars
  <2>2. CASE ~Strayed
    BY <1>1, <1>2, <2>2, KindsAreSteps, OwedStep DEF Alive, Noted
  <2>3. QED
    BY <2>1, <2>2
<1>4. CASE Written \/ Brought \/ Erased
  BY <1>3, <1>4 DEF Written, Brought, Save, Erased, Erase, CopyOwed
<1>5. CASE Unwritten \/ Strayed
  BY <1>3, <1>5 DEF Unwritten, Strayed, StrayMessage, dbVars, Noted, CopyOwed
<1>6. QED
  BY <1>4, <1>5 DEF Alive

LEMMA OwedTorn ==
  ASSUME Payor # "winner", DbTypeOK, TwiceInv, OwedInv, CopyOwed, Crash \/ Torn,
         UNCHANGED <<excused, twice>>
  PROVE  OwedInv' /\ CopyOwed'
<1>1. /\ UNCHANGED <<rounds, owner, seat, saved, lost, starts>>
      /\ up /\ up' = FALSE /\ charged' \in [Clients -> Nat]
  BY TornFacts DEF dbVars
<1>2. starts \in Nat \ {0} /\ \A c \in Clients : charged[c] \in Nat
  BY DEF DbTypeOK, TypeOK
<1>3. ASSUME NEW c \in Clients \ twice
      PROVE  charged'[c] <= Due(c) * starts
  <2>1. charged[c] <= Due(c) * (IF up /\ rounds = 0 THEN starts - 1 ELSE starts)
    BY <1>3 DEF OwedInv
  <2>2. \/ charged'[c] = charged[c]
        \/ rounds = 0 /\ charged'[c] <= charged[c] + Due(c)
    BY <1>3, BillTorn DEF TwiceInv
  <2>3. QED
    BY <1>1, <1>2, <2>1, <2>2, DueType, OnePriceMore
<1>4. OwedInv'
  BY <1>1, <1>3 DEF OwedInv, Due
<1>5. CopyOwed'
  BY <1>1 DEF CopyOwed
<1>6. QED
  BY <1>4, <1>5

LEMMA OwedRestart ==
  ASSUME DbTypeOK, CopyInv, OwedInv, CopyOwed, Restart, UNCHANGED <<excused, twice>>
  PROVE  OwedInv' /\ CopyOwed'
<1>1. /\ starts \in Nat \ {0} /\ starts' = starts + 1 /\ up = FALSE /\ up' = TRUE
      /\ \A c \in Clients : charged[c] \in Nat
  BY DEF Restart, DbTypeOK, TypeOK
<1>2. \A o, c : DueTo(o, c) \in Nat /\ Due(c) = DueTo(owner, c) /\ Due(c)' = DueTo(owner', c)
  BY PriceTypes DEF Due, DueTo
<1>3. \A c \in Clients \ twice : charged[c] <= DueTo(owner, c) * starts
  BY <1>1, <1>2 DEF OwedInv
<1>4. starts' - 1 = starts
  BY <1>1
<1>5. \A o, c : DueTo(o, c) * starts <= DueTo(o, c) * starts' /\ DueTo(o, c) * starts \in Nat
  BY <1>1, <1>2, <1>4, OnePriceMore
<1>6. ASSUME saved # NoCopy, NEW c \in Clients \ twice
      PROVE  CopyBill[c] <= DueTo(saved.owner, c) * starts
  BY <1>3, <1>6 DEF CopyBill, CopyOwed, CopyInv
<1>7. CASE Recovered
  <2>1. /\ saved # NoCopy /\ owner' = saved.owner /\ lost' = FALSE
        /\ charged' = CopyBill
    BY <1>7 DEF Recovered, CopyBill
  <2>2. saved.bill \in [Clients -> Nat]
    BY <2>1, CopyHasRoom DEF Copies
  <2>3. \A c \in Clients : CopyBill[c] \in Nat
    BY <1>1, <2>2 DEF CopyBill
  <2>4. ASSUME NEW c \in Clients \ twice
        PROVE  /\ charged'[c] <= Due(c)' * (starts' - 1)
               /\ charged'[c] <= Due(c)' * starts'
    <3>1. CopyBill[c] <= DueTo(saved.owner, c) * starts
      BY <1>6, <2>1, <2>4
    <3>2. DueTo(saved.owner, c) * starts \in Nat /\ DueTo(saved.owner, c) * starts' \in Nat
      BY <1>1, <1>2, <1>5, Times
    <3>3. QED
      BY <1>2, <1>4, <1>5, <2>1, <2>3, <2>4, <3>1, <3>2
  <2>5. OwedInv'
    BY <2>4 DEF OwedInv
  <2>6. QED
    BY <2>1, <2>5 DEF CopyOwed
<1>8. CASE NotRecovered
  <2>1. charged' = NoBill
    BY <1>8 DEF NotRecovered
  <2>2. ASSUME NEW c \in Clients \ twice
        PROVE  charged'[c] <= Due(c)' * (starts' - 1) /\ charged'[c] <= Due(c)' * starts'
    <3>1. charged'[c] = 0
      BY <2>1, <2>2 DEF NoBill
    <3>2. Due(c)' * starts \in Nat /\ Due(c)' * starts' \in Nat
      BY <1>1, <1>2, Times
    <3>3. QED
      BY <1>4, <3>1, <3>2
  <2>3. OwedInv'
    BY <2>2 DEF OwedInv
  <2>4. ASSUME lost', NEW c \in Clients \ twice
        PROVE  saved'.bill[c] <= DueTo(saved'.owner, c) * starts'
    <3>1. saved # NoCopy
      BY <1>8, <2>4 DEF NotRecovered
    <3>2. saved \in Copies
      BY <3>1, CopyHasRoom
    <3>3. saved'.bill = CopyBill /\ saved'.owner = saved.owner
      BY <1>8, <3>1, <3>2 DEF NotRecovered, CopyBill, Copies
    <3>4. CopyBill[c] <= DueTo(saved.owner, c) * starts /\ CopyBill[c] \in Nat
      BY <1>1, <1>6, <2>4, <3>1, <3>2 DEF CopyBill, Copies
    <3>5. DueTo(saved.owner, c) * starts' \in Nat
      BY <1>1, <1>2, Times
    <3>6. QED
      BY <1>5, <3>3, <3>4, <3>5
  <2>5. CopyOwed'
    BY <2>4 DEF CopyOwed
  <2>6. QED
    BY <2>3, <2>5
<1>9. QED
  BY <1>7, <1>8 DEF Restart

-----------------------------------------------------------------------------
(*** The theorems ***)

EntryInv == DbTypeOK /\ RoomInv /\ LostInv /\ CopyInv

LEMMA EntryInit == DbInit => EntryInv /\ OrderInv /\ CopyInOrder
<1>1. DbInit => TypeOK /\ OrderInv
  BY InitType, OrderInit DEF DbInit
<1>2. DbInit => DbTypeOK
  <2>1. DbInit => saved \in Copies \union {NoCopy} /\ lost \in BOOLEAN /\ junk \in BOOLEAN
    BY DEF DbInit
  <2>2. DbInit => starts \in Nat \ {0} /\ excused \subseteq Clients /\ twice \subseteq Clients
    BY DEF DbInit
  <2>3. QED
    BY <1>1, <2>1, <2>2 DEF DbTypeOK
<1>3. DbInit => RoomInv /\ LostInv /\ CopyInv
  BY DEF DbInit, Init, NoGame, RoomInv, LostInv, CopyInv
<1>4. DbInit => CopyInOrder
  BY DEF DbInit, CopyInOrder
<1>5. QED
  BY <1>1, <1>2, <1>3, <1>4 DEF EntryInv

\* Every step of the process is one of the kinds above, dies, or starts it.
LEMMA DbCases ==
  ASSUME EntryInv, [DbNext]_allDbVars
  PROVE  \/ Alive /\ Noted
         \/ (Crash \/ Torn) /\ UNCHANGED <<excused, twice>>
         \/ Restart /\ UNCHANGED <<excused, twice>>
         \/ UNCHANGED allDbVars
BY KindOfStep DEF EntryInv, DbNext, Noted

LEMMA EntryNext == EntryInv /\ [DbNext]_allDbVars => EntryInv'
<1> SUFFICES ASSUME EntryInv, [DbNext]_allDbVars PROVE EntryInv'
  OBVIOUS
<1>1. CASE Alive /\ Noted
  BY <1>1, TypeAlive, RoomAlive, LostAlive, CopyAlive DEF EntryInv
<1>2. CASE (Crash \/ Torn) /\ UNCHANGED <<excused, twice>>
  BY <1>2, TypeTorn, EntryTorn DEF EntryInv
<1>3. CASE Restart /\ UNCHANGED <<excused, twice>>
  BY <1>3, TypeRestart, EntryRestart DEF EntryInv
<1>4. CASE UNCHANGED allDbVars
  BY <1>4 DEF allDbVars, dbVars, vars, EntryInv, DbTypeOK, TypeOK, RoomInv, LostInv, CopyInv
<1>5. QED
  BY <1>1, <1>2, <1>3, <1>4, DbCases

\* The types of the room, its entry and the history, through crashes, torn
\* handlers and restarts: what a restart reads is a room.
THEOREM DbTypeCorrect == DbSpec => []DbTypeOK
<1>1. EntryInv => DbTypeOK
  BY DEF EntryInv
<1>2. QED
  BY <1>1, EntryInit, EntryNext, PTL DEF DbSpec

\* Who has a seat is in the entry, who has left is not, and a closed room has no
\* entry, in whatever order messages, deaths and starts come (saveToDB,
\* eraseFromDB, recoveryFromDB).
THEOREM SeatsStaySaved == DbSpec => []SeatsAreSaved
<1>1. EntryInv => SeatsAreSaved
  BY DEF EntryInv, CopyInv, SeatsAreSaved
<1>2. QED
  BY <1>1, EntryInit, EntryNext, PTL DEF DbSpec

LEMMA OrderDbNext ==
  ASSUME EntryInv, OrderInv, CopyInOrder, [DbNext]_allDbVars
  PROVE  OrderInv' /\ CopyInOrder'
<1>1. CASE Alive /\ Noted
  BY <1>1, OrderAlive DEF EntryInv
<1>2. CASE Crash \/ Torn
  BY <1>2, TornFacts DEF EntryInv, OrderInv, CopyInOrder, dbVars
<1>3. CASE Restart
  BY <1>3, OrderRestart DEF EntryInv
<1>4. CASE UNCHANGED allDbVars
  BY <1>4 DEF allDbVars, dbVars, vars, OrderInv, RoundInv, Resting, CopyInOrder
<1>5. QED
  BY <1>1, <1>2, <1>3, <1>4, DbCases

\* A game that comes back after a crash is one whose rounds are still dealt and
\* settled in turn: no save is taken in the middle of a settlement
\* (bringOut, saveToDB).
THEOREM OrderSurvives == DbSpec => []OrderInv
<1> DEFINE Inv == EntryInv /\ OrderInv /\ CopyInOrder
<1>1. Inv /\ [DbNext]_allDbVars => Inv'
  BY EntryNext, OrderDbNext
<1>2. QED
  BY <1>1, EntryInit, PTL DEF DbSpec

LEMMA PaidDbNext ==
  ASSUME HalfEnter = FALSE, Payor # "winner", EntryInv,
         NoWitness, CopyNoWitness, PaidInv, CopyPaid, [DbNext]_allDbVars
  PROVE  NoWitness' /\ CopyNoWitness' /\ PaidInv' /\ CopyPaid'
<1>1. CASE Alive /\ Noted
  BY <1>1, NoWitnessAlive, PaidAlive DEF EntryInv
<1>2. CASE (Crash \/ Torn) /\ UNCHANGED <<excused, twice>>
  <2>1. NoWitness' /\ CopyNoWitness'
    BY <1>2, TornFacts DEF EntryInv, NoWitness, CopyNoWitness, dbVars
  <2>2. QED
    BY <1>2, <2>1, PaidTorn DEF EntryInv
<1>3. CASE Restart /\ UNCHANGED <<excused, twice>>
  BY <1>3, NoWitnessRestart, PaidRestart DEF EntryInv
<1>4. CASE UNCHANGED allDbVars
  BY <1>4 DEF allDbVars, dbVars, vars, NoWitness, CopyNoWitness, PaidInv, CopyPaid,
     CopyBill, Seated, Due
<1>5. QED
  BY <1>1, <1>2, <1>3, <1>4, DbCases

\* Nobody plays for nothing whom the lobby found when it dealt: in a room without
\* late players whose owner pays, or each player for himself, a game that is
\* under way, recovered or not, has been paid for (tryStartRound, addMoney,
\* saveToDB).
THEOREM DealsArePaid ==
  ASSUME HalfEnter = FALSE, Payor # "winner"
  PROVE  DbSpec => []DealtIsPaid
<1> DEFINE Inv == EntryInv /\ NoWitness /\ CopyNoWitness /\ PaidInv /\ CopyPaid
<1>1. DbInit => Inv
  BY EntryInit DEF DbInit, Init, NoGame, NoStatus, NoWitness, CopyNoWitness, PaidInv, CopyPaid
<1>2. Inv /\ [DbNext]_allDbVars => Inv'
  BY EntryNext, PaidDbNext
<1>3. Inv => DealtIsPaid
  BY DEF PaidInv, DealtIsPaid
<1>4. QED
  BY <1>1, <1>2, <1>3, PTL DEF DbSpec

LEMMA OwedDbNext ==
  ASSUME Payor # "winner", EntryInv, TwiceInv, OwedInv, CopyOwed, [DbNext]_allDbVars
  PROVE  TwiceInv' /\ OwedInv' /\ CopyOwed'
<1>1. CASE Alive /\ Noted
  BY <1>1, TwiceAlive, OwedAlive DEF EntryInv
<1>2. CASE (Crash \/ Torn) /\ UNCHANGED <<excused, twice>>
  BY <1>2, TwiceTorn, OwedTorn DEF EntryInv
<1>3. CASE Restart /\ UNCHANGED <<excused, twice>>
  BY <1>3, TwiceRestart, OwedRestart DEF EntryInv
<1>4. CASE UNCHANGED allDbVars
  BY <1>4 DEF allDbVars, dbVars, vars, TwiceInv, WithTwoSeats, OwedInv, CopyOwed, Due
<1>5. QED
  BY <1>1, <1>2, <1>3, <1>4, DbCases

\* However often the lobby dies between the charge and the save, a player with
\* one seat pays at most one price for each time it was started, late players or
\* not (tryStartRound, recoveryFromDB).
THEOREM OnePricePerStart ==
  ASSUME Payor # "winner"
  PROVE  DbSpec => []ChargedOncePerStart
<1> DEFINE Inv == EntryInv /\ TwiceInv /\ OwedInv /\ CopyOwed
<1>1. DbInit => Inv
  <2>1. ASSUME DbInit PROVE TwiceInv /\ CopyOwed
    BY <2>1, ClientsAssumption
       DEF DbInit, Init, NoGame, Nobody, TwiceInv, WithTwoSeats, CopyOwed
  <2>2. ASSUME DbInit PROVE OwedInv
    <3>1. starts - 1 = 0 /\ charged = NoBill /\ up /\ rounds = 0
      BY <2>2 DEF DbInit, Init, NoGame
    <3>2. \A c \in Clients : charged[c] = 0 /\ Due(c) * 0 = 0
      BY <3>1, DueType DEF NoBill
    <3>3. QED
      BY <3>1, <3>2 DEF OwedInv
  <2>3. QED
    BY <2>1, <2>2, EntryInit
<1>2. Inv /\ [DbNext]_allDbVars => Inv'
  BY EntryNext, OwedDbNext
<1>3. Inv => ChargedOncePerStart
  <2>1. ASSUME Inv, NEW c \in Clients \ twice
        PROVE  charged[c] <= Due(c) * starts
    <3>1. starts \in Nat \ {0} /\ charged[c] \in Nat
      BY <2>1 DEF EntryInv, DbTypeOK, TypeOK
    <3>2. charged[c] <= Due(c) * (IF up /\ rounds = 0 THEN starts - 1 ELSE starts)
      BY <2>1 DEF OwedInv
    <3>3. QED
      BY <3>1, <3>2, DueType, OnePriceMore
  <2>2. QED
    BY <2>1 DEF ChargedOncePerStart
<1>4. QED
  BY <1>1, <1>2, <1>3, PTL DEF DbSpec

=============================================================================
