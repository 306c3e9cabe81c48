--------------------------- MODULE MCWater13Round ---------------------------
(***************************************************************************)
(* Two small instances beside each other.  At a table of three seats, one  *)
(* of them empty, rounds are played with a few of the orders that a deck   *)
(* of 54 cards can be shuffled into and that a hand can be arranged in:    *)
(* the multiples of a number, modulo a number that they are prime to.  And *)
(* at one of the tables, before the first round, a dun is drawn card by    *)
(* card from cards that every brand can be made of.                        *)
(***************************************************************************)
EXTENDS Water13Round

CONSTANTS
  Strides,     \* of the decks
  HandStrides, \* of the hands
  DunRanks,    \* of the cards that are drawn, in two suits
  PlayTypes

MCDecks  == {[k \in 1..39 |-> (k * m) % 55] : m \in Strides}
MCOrders == {[k \in 1..HandSize |-> ((k * m) % 13) + 1] : m \in HandStrides}
MCMemory == {[i \in Seats |-> [k \in 1..HandSize |-> 0]], [i \in Seats |-> [k \in 1..HandSize |-> k + 20]]}
MCRules  == [playType : PlayTypes, daQiang : {0, 1}, maPai : {0, 5}]

VARIABLE drawn

DunCards == {13 * s + r + 1 : s \in {0, 1}, r \in DunRanks}

\* A deck has at most two cards of a rank and suit.
Draw ==
  /\ phase = "prepare" /\ Len(drawn) < 5
  /\ rules = (CHOOSE r \in Rules : TRUE)
  /\ hand = (CHOOSE m \in Memory : TRUE)
  /\ \E c \in {d \in DunCards : drawn # <<>> => d >= Last(drawn)} :
       /\ Cardinality({i \in DOMAIN drawn : drawn[i] = c}) < 2
       /\ drawn' = Append(drawn, c)
  /\ UNCHANGED vars

MCInit == Init /\ drawn = <<>>
MCNext == Draw \/ (Next /\ drawn = <<>> /\ UNCHANGED drawn)
MCSpec == MCInit /\ [][MCNext]_<<vars, drawn>>

-----------------------------------------------------------------------------
\* The places of the cards of one rank, by falling number and rank
ByCount(r) ==
  SetToSortSeq({<<CountOf(r, k), k>> : k \in ToSet(r)},
               LAMBDA p, q : p[1] > q[1] \/ (p[1] = q[1] /\ p[2] > q[2]))

\* What decides between two duns of five, the most important first: their brand,
\* in a flush the pairs, then the ranks, those of more cards first; of a straight
\* the height, where the ace may be the lowest card of all and is worth more than
\* a king; and of three, four or five of a kind nothing but their rank.
DecisiveOf(b, r, ranks) ==
  CASE b \in {Brand.straight, Brand.straightFlush} ->
         <<b, IF r[5] # Ace THEN 0 ELSE 1, IF r = LittleStraight THEN 0 ELSE r[5]>>
    [] b \in {Brand.fiveOfKind, Brand.fourOfKind, Brand.fullHouse, Brand.threeOfKind} ->
         <<b, ranks[1]>>
    [] OTHER -> <<b, Cardinality(PairEnds(r))>> \o ranks

RanksOf(groups) == [i \in DOMAIN groups |-> groups[i][2]]

Decisive(c) == DecisiveOf(BrandInfo5(c).b, Ranks(c), RanksOf(ByCount(Ranks(c))))

More(s, t) ==
  \E i \in DOMAIN s \cap DOMAIN t : s[i] > t[i] /\ \A j \in 1..(i - 1) : s[j] = t[j]

\* Duns that every dun that is drawn is compared with
Yardstick ==
  {<<1, 2, 3, 4, 5>>, <<1, 2, 3, 4, 13>>, <<14, 2, 3, 4, 13>>, <<9, 10, 11, 12, 13>>, <<22, 10, 11, 12, 13>>,
   <<8, 9, 10, 11, 25>>, <<1, 1, 14, 14, 27>>, <<13, 26, 39, 52, 1>>, <<1, 14, 27, 40, 13>>,
   <<13, 26, 39, 12, 25>>, <<2, 15, 28, 1, 14>>, <<13, 13, 12, 12, 1>>, <<2, 2, 1, 1, 3>>, <<1, 1, 11, 12, 13>>,
   <<1, 2, 3, 4, 6>>, <<13, 12, 11, 10, 8>>, <<13, 26, 12, 25, 1>>, <<2, 15, 1, 14, 3>>, <<2, 15, 13, 12, 24>>,
   <<3, 16, 29, 1, 13>>, <<13, 26, 11, 10, 22>>, <<1, 14, 2, 3, 17>>, <<13, 25, 11, 10, 8>>, <<1, 2, 16, 4, 6>>,
   <<5, 18, 4, 17, 13>>}

YardInfo == [d \in Yardstick |-> BrandInfo5(d)]
YardKey  == [d \in Yardstick |-> Decisive(d)]

\* The best dun of three that ghosts make of one or two cards
BestOf(made) == CHOOSE x \in made : \A y \in made : ~Beats(y, x)

BestFront(c) == BestOf({BrandInfo3(c \o more) : more \in [1..(3 - Len(c)) -> 1..52]})

InOrderWithAll(info, key) ==
  \A d \in Yardstick :
    /\ Beats(info, YardInfo[d]) <=> More(key, YardKey[d])
    /\ Beats(YardInfo[d], info) <=> More(YardKey[d], key)

Equal(info, best) == info.b = best.b /\ info.point = best.point

\* The number in base 14 orders any two duns of five as the rules do, and the
\* ghosts of the first dun are worth the best cards they can stand for
\* (brandInfo5, ghostInfo3, cmpBrandInfo).
RankedByTheRules ==
  /\ Len(drawn) = 5 => InOrderWithAll(BrandInfo5(drawn), Decisive(drawn))
  /\ Len(drawn) \in {1, 2} =>
       Equal(BrandInfo(drawn \o [i \in 1..(3 - Len(drawn)) |-> 53]), BestFront(drawn))

=============================================================================
