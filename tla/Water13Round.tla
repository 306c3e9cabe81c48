---------------------------- MODULE Water13Round ----------------------------
(***************************************************************************)
(* The cards of a room (Water13): they are dealt at the start of a round,  *)
(* in the banker's game in two parts, brought out by the players in three  *)
(* duns, and compared by all pairs of seats when the last player has.      *)
(*                                                                         *)
(* When a round starts and who sits where is in Water13Card; here the      *)
(* players keep their seats, and the other seats are empty.  An empty seat *)
(* is dealt to and compared like the others.                               *)
(*                                                                         *)
(* Left out: the points of each dun that are shown to the clients.         *)
(***************************************************************************)
EXTENDS Deck

CONSTANTS
  PlayerSize,
  Players,       \* the seats that have a player
  Rules,         \* the rules of a room: playType, daQiang, maPai
  ShootAddPoint, \* of game.xml
  Decks,         \* what the shuffle may give
  Memory,        \* what the hands of a new room, that nobody has written, may be
  Orders,        \* the arrangements of 13 cards that players try
  MaxRounds

Seats    == 1..PlayerSize
HandSize == 13

\* The attributes are checked when a room is made, and there are thirteen cards
\* for each seat, whatever suits are added.
ASSUME RoundAssumption ==
  /\ PlayerSize \in Nat \ {0}
  /\ Players \subseteq Seats
  /\ Rules \subseteq [playType : {"normal", "banker"}, daQiang : {0, 1}, maPai : Nat]
  /\ ShootAddPoint \in Int
  /\ \A deck \in Decks : deck \in Seq(Nat) /\ Len(deck) >= HandSize * PlayerSize
  /\ Memory \subseteq [Seats -> [1..HandSize -> Nat]]
  /\ Orders \subseteq Bijection(1..HandSize, 1..HandSize)
  /\ MaxRounds \in Nat

VARIABLES
  rules,
  rounds,
  phase,    \* "prepare", "selMultiple", "play", "settle", or "dead"
  hand,     \* PlayerInfo.cards, the indexes from 1
  st,       \* of the players
  special,  \* PlayerInfo.cardsSpecBrand
  remain,   \* remainBrands
  prize,    \* the prizes of the last round
  dealt     \* history: what has been dealt to each seat in this round

vars == <<rules, rounds, phase, hand, st, special, remain, prize, dealt>>

NoPrize == [i \in Seats |-> 0]

Init ==
  /\ rules \in Rules
  /\ rounds = 0
  /\ phase = "prepare"
  /\ hand \in Memory
  /\ st = [i \in Players |-> "READY"]
  /\ special = [i \in Seats |-> FALSE]
  /\ remain = <<>>
  /\ prize = NoPrize
  /\ dealt = [i \in Seats |-> <<>>]

-----------------------------------------------------------------------------
(*** Dealing ***)

InOrder(h) == Sorted(h)

\* The part of tryStartRound that deals: eight cards in the banker's game, which
\* are sorted together with what the other five places hold.
Deal ==
  LET n == IF rules.playType = "banker" THEN 8 ELSE HandSize IN
  /\ phase \in {"prepare", "settle"}
  /\ rounds < MaxRounds
  /\ rounds' = rounds + 1
  /\ \E deck \in Decks :
       LET got == [i \in Seats |-> SubSeq(deck, (i - 1) * n + 1, i * n)]
           used == PlayerSize * n IN
       /\ hand' = [i \in Seats |-> InOrder(got[i] \o SubSeq(hand[i], n + 1, HandSize))]
       /\ dealt' = got
       /\ remain' = IF rules.playType = "banker"
                      THEN SubSeq(deck, used + 1, used + 5 * Cardinality(Players))
                      ELSE <<>>
  /\ phase' = IF rules.playType = "banker" THEN "selMultiple" ELSE "play"
  /\ st' = [i \in Players |-> "SORT"]
  /\ UNCHANGED <<rules, special, prize>>

\* Each card is written to the next place and the hand sorted.
PutCards(h, cards) ==
  LET Put(acc, k) == InOrder([acc EXCEPT ![8 + k] = cards[k]]) IN
  Put(Put(Put(Put(Put(h, 1), 2), 3), 4), 5)

\* checkAllSelectMultiple, when all multiples are chosen
DealTheRest ==
  LET Before(i) == Cardinality({j \in Players : j < i})
      Five(i)   == SubSeq(remain, 5 * Before(i) + 1, 5 * Before(i) + 5) IN
  /\ phase = "selMultiple"
  /\ hand' = [i \in Seats |-> IF i \in Players THEN PutCards(hand[i], Five(i)) ELSE hand[i]]
  /\ dealt' = [i \in Seats |-> IF i \in Players THEN dealt[i] \o Five(i) ELSE dealt[i]]
  /\ remain' = <<>>
  /\ phase' = "play"
  /\ UNCHANGED <<rules, rounds, st, special, prize>>

-----------------------------------------------------------------------------
(*** calcRound ***)

Duns(h) == <<BrandInfo(SubSeq(h, 1, 3)), BrandInfo(SubSeq(h, 4, 8)), BrandInfo(SubSeq(h, 9, 13))>>

DataOf(h, sp, duns) ==
  [dun     |-> duns,
   spec    |-> IF sp THEN G13SpecialBrand(h, duns[2].b, duns[3].b) ELSE NoSpecial,
   hasMaPai |-> rules.maPai \in ToSet(h)]

Data(h, sp) == DataOf(h, sp, Duns(h))

\* What a dun of a brand takes besides the one point: rules 4 to 8
Extra(d, b) ==
  CASE d = 1 /\ b = Brand.threeOfKind   -> 2
    [] d = 2 /\ b = Brand.fullHouse     -> 1
    [] d = 2 /\ b = Brand.fiveOfKind    -> 19
    [] d = 2 /\ b = Brand.straightFlush -> 9
    [] d = 2 /\ b = Brand.fourOfKind    -> 7
    [] d = 3 /\ b = Brand.fiveOfKind    -> 9
    [] d = 3 /\ b = Brand.straightFlush -> 4
    [] d = 3 /\ b = Brand.fourOfKind    -> 3
    [] OTHER -> 0

Worth(d, info) == 1 + Extra(d, info.b)

\* Positive when x wins
DunPrize(x, y, d) ==
  CASE Beats(x.dun[d], y.dun[d]) -> Worth(d, x.dun[d])
    [] Beats(y.dun[d], x.dun[d]) -> -Worth(d, y.dun[d])
    [] OTHER                     -> 0

SpecPrize(spec) ==
  CASE spec = 135             -> 104
    [] spec = 124             -> 52
    [] spec \in {113, 103, 93} -> 26
    [] OTHER                  -> 6

\* The source's uint32_t and int32_t, with 16 bits
Word == 2^16
Unsigned(n) == n % Word
Signed_Wide(u) == u
Signed(u)   == IF u >= Word \div 2 THEN u - Word ELSE u

Entry(winner, loser, price, shot) ==
  [winner |-> winner, loser |-> loser, price |-> price, shot |-> shot]

\* The entry in losers that the comparison of two seats makes, if any: of two
\* seats one of which has a special brand
ComparedSpecs(x, y, i, j) ==
  CASE x.spec % 10 = y.spec % 10 -> {}
    [] x.spec % 10 > y.spec % 10 -> {Entry(i, j, SpecPrize(x.spec), FALSE)}
    [] OTHER -> {Entry(j, i, SpecPrize(y.spec), FALSE)}

\* Of two others.  The sum of the duns is unsigned: a loss without a shot is more
\* than 0, and so it is entered as a win of the first seat, by a price that is a
\* loss again when it is read.
PrizeEntry(p, sum, i, j) ==
  CASE rules.daQiang # 0 /\ (\A d \in 1..3 : p[d] > 0) -> {Entry(i, j, Signed(sum), TRUE)}
    [] rules.daQiang # 0 /\ (\A d \in 1..3 : p[d] < 0) -> {Entry(j, i, Signed(Unsigned(-sum)), TRUE)}
    [] OTHER -> IF sum = 0 THEN {} ELSE {Entry(i, j, Signed(sum), FALSE)}

DunEntry(p, i, j) == PrizeEntry(p, Unsigned(p[1] + p[2] + p[3]), i, j)

ComparedDuns(x, y, i, j) == DunEntry([d \in 1..3 |-> DunPrize(x, y, d)], i, j)

Compared(data, i, j) ==
  IF data[i].spec # NoSpecial \/ data[j].spec # NoSpecial
    THEN ComparedSpecs(data[i], data[j], i, j)
    ELSE ComparedDuns(data[i], data[j], i, j)

Entries(data) == UNION {Compared(data, q[1], q[2]) : q \in {p \in Seats \X Seats : p[1] < p[2]}}

\* A shot at everybody
QuanLeiDa(entries, i) ==
  LET won == {e \in entries : e.winner = i} IN
  PlayerSize > 2 /\ Cardinality(won) + 1 = PlayerSize /\ \A e \in won : e.shot

Price(data, entries, e) ==
  (IF ~e.shot THEN e.price ELSE IF rules.daQiang = 1 THEN e.price + ShootAddPoint ELSE e.price * 2)
    * (IF data[e.winner].hasMaPai \/ data[e.loser].hasMaPai THEN 2 ELSE 1)
    * (IF QuanLeiDa(entries, e.winner) THEN 2 ELSE 1)

Settled(data, entries) ==
  LET price == [e \in entries |-> Price(data, entries, e)] IN
  [i \in Seats |-> SumFunctionOnSet(price, {e \in entries : e.winner = i})
                   - SumFunctionOnSet(price, {e \in entries : e.loser = i})]

CalcRound(data) == Settled(data, Entries(data))

-----------------------------------------------------------------------------
(*** Bringing out ***)

\* The first card that is 0 fails an assertion, and of a dun of five ghosts the
\* source reads the card with the index -1, which is unsigned.
Readable(h) ==
  /\ 0 \notin ToSet(h)
  /\ \E k \in 4..8 : ~IsGhost(h[k])
  /\ \E k \in 9..13 : ~IsGhost(h[k])

HasGhost(h) == \E k \in DOMAIN h : IsGhost(h[k])

NoFoul(h, sp, duns) ==
  IF sp THEN ~HasGhost(h) /\ G13SpecialBrand(h, duns[2].b, duns[3].b) # NoSpecial
        ELSE ~Beats(duns[1], duns[2]) /\ ~Beats(duns[2], duns[3])

MayBringOut(h, sp) == NoFoul(h, sp, Duns(h))

Dies ==
  /\ phase' = "dead"
  /\ UNCHANGED <<rules, rounds, hand, st, special, remain, prize, dealt>>

\* bringOut, which ends with trySettleGame
BringOut(i) ==
  /\ phase = "play" /\ st[i] = "SORT"
  /\ \E order \in Orders, sp \in BOOLEAN :
       LET h     == [k \in 1..HandSize |-> hand[i][order[k]]]
           hands == [hand EXCEPT ![i] = h]
           specs == [special EXCEPT ![i] = sp]
           last  == \A j \in Players \ {i} : st[j] = "COMPARE" IN
       IF ~Readable(h) \/ (last /\ ~(\A j \in Seats : Readable(hands[j]))) THEN Dies
       ELSE
         /\ MayBringOut(h, sp)
         /\ hand' = hands
         /\ special' = specs
         /\ IF last
              THEN /\ phase' = "settle"
                   /\ prize' = CalcRound([j \in Seats |-> Data(hands[j], specs[j])])
                   /\ st' = [j \in Players |-> "PREP"]
              ELSE /\ st' = [st EXCEPT ![i] = "COMPARE"]
                   /\ UNCHANGED <<phase, prize>>
         /\ UNCHANGED <<rules, rounds, remain, dealt>>

Next == Deal \/ DealTheRest \/ \E i \in Players : BringOut(i)

Spec == Init /\ [][Next]_vars

-----------------------------------------------------------------------------
(*** What the rules say ***)

\* The points one seat takes from another in those duns where it is better, and
\* what it makes of them: rules 1 to 10 of the comments in calcRound.
Takes(x, y) == SumFunction([d \in 1..3 |-> IF Beats(x.dun[d], y.dun[d]) THEN Worth(d, x.dun[d]) ELSE 0])

Shoots(x, y) ==
  /\ x.spec = NoSpecial /\ y.spec = NoSpecial
  /\ \A d \in 1..3 : Beats(x.dun[d], y.dun[d])

\* What a shot adds: "daQiang: 0 the default (double), 1: +1" (water13.h:51).
ShotGain(x, y) ==
  IF ~Shoots(x, y) THEN 0 ELSE IF rules.daQiang = 0 THEN Takes(x, y) ELSE ShootAddPoint

Gain(x, y) ==
  IF x.spec # NoSpecial \/ y.spec # NoSpecial
    THEN IF x.spec % 10 > y.spec % 10 THEN SpecPrize(x.spec) ELSE 0
    ELSE Max({0, Takes(x, y) - Takes(y, x)}) + ShotGain(x, y)

Gains(data, i, j) ==
  Gain(data[i], data[j])
    * (IF data[i].hasMaPai \/ data[j].hasMaPai THEN 2 ELSE 1)
    * (IF PlayerSize > 2 /\ \A k \in Seats \ {i} : Shoots(data[i], data[k]) THEN 2 ELSE 1)

Balance(data) ==
  [i \in Seats |-> SumFunctionOnSet([j \in Seats |-> Gains(data, i, j) - Gains(data, j, i)], Seats \ {i})]

\* Every round is scored by the ten rules in the comments of calcRound.  "If all
\* three duns beat a player, collect the points times two from him"
\* (water13.cpp:1714): calcRound does not count a shot at all unless daQiang is 1,
\* since it tests `daQiang &&' where 0 is the default, which doubles.
ScoredByTheRules ==
  phase = "settle" => prize = Balance([i \in Seats |-> Data(hand[i], special[i])])

\* That is all that is wrong with it: where daQiang is 1 or nobody shoots at
\* another, a seat's prize is what it gains from every other seat less what that
\* one gains from it, wherever the two sit, although calcRound compares each pair
\* once, from the first seat's side, in unsigned numbers (calcRound).
ScoredButForShots ==
  phase = "settle" =>
    LET data == [i \in Seats |-> Data(hand[i], special[i])] IN
    \/ rules.daQiang = 0 /\ \E i, j \in Seats : Shoots(data[i], data[j])
    \/ prize = Balance(data)

\* "Deal the cards that remain, and go on to the arranging" (water13.cpp:2053):
\* who arranges his hand holds the cards that he has been dealt.
HandsAreDealt ==
  phase = "play" => \A i \in Players : st[i] = "SORT" => hand[i] = InOrder(dealt[i])

=============================================================================
