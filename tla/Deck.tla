-------------------------------- MODULE Deck --------------------------------
(***************************************************************************)
(* What a few cards are worth (Deck): the brand of a dun of three or five  *)
(* cards, the number that orders duns of the same brand, and the special   *)
(* brands of all thirteen cards.                                           *)
(*                                                                         *)
(* A card is the number the protocol gives it: 1..52, and more than 52 for *)
(* a ghost, which stands for any card.  The source makes its checks in the *)
(* order of falling brands and returns at the first that fits, so a brand  *)
(* is the greatest of those that fit.                                      *)
(*                                                                         *)
(* The rank or suit of card 0 is an assertion that fails, and a dun of     *)
(* five ghosts is read before its first card; who uses these operators     *)
(* sees to both.  Nobody calls Deck::brand: it is left out, and so is the  *)
(* sorting of hands for the clients, which is commented out.               *)
(***************************************************************************)
EXTENDS Integers, SequencesExt

Suit(c) == (c - 1) \div 13
Rank(c) == (c - 1) % 13

IsGhost(c) == c > 52

Ace == 12

\* Brand, by its number
Brand == [fiveOfKind |-> 9, straightFlush |-> 8, fourOfKind |-> 7,
          fullHouse |-> 6, flush |-> 5, straight |-> 4, threeOfKind |-> 3,
          twoPairs |-> 2, onePair |-> 1, hightCard |-> 0]

Insert(r, x) == InsertAt(r, Cardinality({i \in DOMAIN r : r[i] <= x}) + 1, x)

\* std::sort
Sorted(s) ==
  LET first[n \in 0..Len(s)] == IF n = 0 THEN <<>> ELSE Insert(first[n - 1], s[n]) IN
  first[Len(s)]

\* The ranks of cards, in order
Ranks(c) == Sorted([i \in DOMAIN c |-> Rank(c[i])])

OneSuit(c) == \A i, j \in DOMAIN c : Suit(c[i]) = Suit(c[j])

LittleStraight == <<0, 1, 2, 3, Ace>>

Consecutive(r) == \A i \in 2..Len(r) : r[i] = r[i - 1] + 1

\* Where the second card of a pair is
PairEnds(r) == {i \in 2..Len(r) : r[i - 1] = r[i]}

\* The source's table of the powers of 14
Pow == <<1, 14, 196, 2744, 38416, 537824, 7529536>>

\* The ranks as the digits of a number, the greatest first
Weigh(r, add) == SumFunction([i \in DOMAIN r |-> (r[i] + add) * Pow[i]])

-----------------------------------------------------------------------------
(*** Five cards without a ghost ***)

\* Which of five ordered ranks is alone when the others are two pairs
TwoAndTwo(q) == q[1] = q[2] /\ q[3] = q[4]

Singles(r) == {k \in {1, 3, 5} : TwoAndTwo(RemoveAt(r, k))}

FitsFive(b, r, oneSuit) ==
  CASE b = Brand.fiveOfKind    -> r[1] = r[5]
    [] b = Brand.straightFlush -> oneSuit /\ (Consecutive(r) \/ r = LittleStraight)
    [] b = Brand.fourOfKind    -> r[1] = r[4] \/ r[2] = r[5]
    [] b = Brand.fullHouse     -> (r[1] = r[3] /\ r[4] = r[5]) \/ (r[3] = r[5] /\ r[1] = r[2])
    [] b = Brand.flush         -> oneSuit
    [] b = Brand.straight      -> Consecutive(r) \/ r = LittleStraight
    [] b = Brand.threeOfKind   -> \E i \in 1..3 : r[i] = r[i + 2]
    [] b = Brand.twoPairs      -> Singles(r) # {}
    [] b = Brand.onePair       -> PairEnds(r) # {}
    [] b = Brand.hightCard     -> TRUE

\* The straight to the five counts for more than all but that to the ace.
StraightPoint(r) ==
  IF r[5] = Ace THEN (IF r[1] = 0 THEN 14 ELSE 15) ELSE r[5] + 1

OnePairPoint_PairLast(r) ==
  LET i == Min(PairEnds(r)) IN
  (r[i] + 1) * 14 + Weigh(RemoveAt(RemoveAt(r, i), i - 1), 1)

OnePairPoint(r) ==
  LET i == Min(PairEnds(r)) IN
  (r[i] + 1) * 14^5 + Weigh(RemoveAt(RemoveAt(r, i), i - 1), 1)

\* The pairs first, also in a flush
PairsPoint(r) ==
  IF Singles(r) # {}
    THEN (r[4] + 1) * 14^6 + (r[2] + 1) * 14^5 + r[Max(Singles(r))] + 1
    ELSE IF PairEnds(r) # {} THEN OnePairPoint(r) ELSE Weigh(r, 1)

InfoOfFive(b, r) ==
  [b |-> b, isGhost |-> FALSE,
   point |-> IF b \in {Brand.straightFlush, Brand.straight} THEN StraightPoint(r)
             ELSE IF b \in {Brand.flush, Brand.twoPairs, Brand.onePair, Brand.hightCard}
                    THEN PairsPoint(r)
                    ELSE r[3] + 1]

RankedInfo5(r, oneSuit) == InfoOfFive(Max({n \in 0..9 : FitsFive(n, r, oneSuit)}), r)

BrandInfo5(c) == RankedInfo5(Ranks(c), OneSuit(c))

-----------------------------------------------------------------------------
(*** Three cards ***)

RankedInfo3(r) ==
  IF r[1] = r[3] THEN [b |-> Brand.threeOfKind, isGhost |-> FALSE, point |-> r[3] + 2]
  ELSE IF PairEnds(r) # {}
    THEN [b |-> Brand.onePair, isGhost |-> FALSE,
          point |-> (r[2] + 2) * 14^3 + (IF r[1] = r[2] THEN r[3] ELSE r[1]) + 2]
    ELSE [b |-> Brand.hightCard, isGhost |-> FALSE, point |-> Weigh(r, 2)]

BrandInfo3(c) == RankedInfo3(Ranks(c))

\* What is left of three cards without their ghosts
GhostRanked3(r) ==
  IF Len(r) = 2 /\ r[1] # r[2]
    THEN [b |-> Brand.onePair, isGhost |-> TRUE, point |-> (r[2] + 2) * 14^3 + r[1] + 2]
    ELSE [b |-> Brand.threeOfKind, isGhost |-> TRUE,
          point |-> (IF r = <<>> THEN Ace ELSE Last(r)) + 2]

GhostInfo3(c) == GhostRanked3(Ranks(c))

-----------------------------------------------------------------------------
(*** What is left of five cards without their ghosts ***)

\* Ghosts fill the gaps, one after the other.  Neighbours are taken for a gap that
\* cannot be filled, and equal cards give a ghost back.
FillGaps(r) ==
  LET Gap(i) == r[i + 1] - r[i] - 1
      Fills(i, ghosts) == Gap(i) # 0 /\ Gap(i) <= ghosts
      left[i \in 0..3] ==
        IF i = 0 THEN 5 - Len(r)
        ELSE IF Fills(i, left[i - 1]) THEN left[i - 1] - Gap(i) ELSE left[i - 1] IN
  [straight |-> \A i \in 1..(Len(r) - 1) : Fills(i, left[i - 1]),
   ghosts   |-> left[Len(r) - 1]]

Short(r) == PairEnds(r) = {} /\ ToSet(r) \subseteq ToSet(LittleStraight)

\* The ghosts that are left over, by the filled gaps f, lengthen a straight
\* upwards to the rank top.
Lengthened(r, f, top) ==
  [straight |-> f.straight \/ Short(r),
   point    |-> IF ~f.straight THEN 14 ELSE IF top = Ace THEN 15 ELSE top + 1,
   ghosts   |-> IF f.straight THEN f.ghosts - (top - Last(r)) ELSE f.ghosts]

Filled(r, f) == Lengthened(r, f, Min({Ace, Last(r) + f.ghosts}))

GhostScan(r) == Filled(r, FillGaps(r))

\* For n ordered ranks r, and what scan says of their gaps
GhostFits(b, n, r, oneSuit, scan) ==
  CASE b = Brand.fiveOfKind    -> r[1] = r[n]
    [] b = Brand.straightFlush -> oneSuit /\ scan.straight
    [] b = Brand.fourOfKind    -> n = 2 \/ r[1] = r[n - 1] \/ r[2] = r[n]
    [] b = Brand.fullHouse     -> <<scan.ghosts, Cardinality(PairEnds(r))>> \in {<<1, 2>>, <<2, 1>>}
    [] b = Brand.flush         -> oneSuit
    [] b = Brand.straight      -> scan.straight
    [] b = Brand.threeOfKind   -> scan.ghosts = 2 \/ PairEnds(r) # {}
    [] b = Brand.onePair       -> TRUE
    [] OTHER                   -> FALSE

TwoPairsPoint(high, second, single) == (high + 1) * 14^6 + (second + 1) * 14^5 + single + 1

GhostFlushPoint(n, r, left) ==
  IF left = 2 THEN TwoPairsPoint(r[n], r[2], r[1])
  ELSE IF left = 1 /\ PairEnds(r) # {}
    THEN IF r[n] = r[n - 1] THEN TwoPairsPoint(r[n], r[2], r[1])
         ELSE TwoPairsPoint(r[n], r[Max(PairEnds(r))],
                            IF Max(PairEnds(r)) = n - 1 THEN r[1] ELSE r[n - 1])
    ELSE (r[n] + 1) * 14^5 + Weigh(SubSeq(r, 1, 3), 1)

GhostInfoOfFive(b, n, r, scan) ==
  [b |-> b, isGhost |-> TRUE,
   point |->
     CASE b \in {Brand.straightFlush, Brand.straight} -> scan.point
       [] b = Brand.fourOfKind  -> (IF n = 2 \/ r[2] = r[n] THEN r[n] ELSE r[n - 1]) + 1
       [] b = Brand.flush       -> GhostFlushPoint(n, r, scan.ghosts)
       [] b = Brand.threeOfKind -> (IF scan.ghosts = 2 THEN r[n] ELSE r[Max(PairEnds(r))]) + 1
       [] b = Brand.onePair     -> IF scan.ghosts = 1 THEN r[n] + 1 ELSE 0
       [] OTHER                 -> r[n] + 1]

GhostRanked5(n, r, oneSuit, scan) ==
  GhostInfoOfFive(Max({b \in 0..9 : GhostFits(b, n, r, oneSuit, scan)}), n, r, scan)

GhostInfo5(c) == GhostRanked5(Len(c), Ranks(c), OneSuit(c), GhostScan(Ranks(c)))

-----------------------------------------------------------------------------
\* A dun of three or of five cards
InfoOf(c, plain) ==
  IF Len(c) = 3
    THEN IF Len(plain) = 3 THEN BrandInfo3(c) ELSE GhostInfo3(plain)
    ELSE IF Len(plain) = 5 THEN BrandInfo5(c) ELSE GhostInfo5(plain)

\* The cards that are no ghosts, which have the greatest numbers
Plain(c) == SubSeq(Sorted(c), 1, Cardinality({i \in DOMAIN c : ~IsGhost(c[i])}))

BrandInfo(c) == InfoOf(c, Plain(c))

\* cmpBrandInfo: of equal duns the one without a ghost
Beats(x, y) ==
  \/ x.b > y.b
  \/ x.b = y.b /\ x.point > y.point
  \/ x.b = y.b /\ x.point = y.point /\ ~x.isGhost /\ y.isGhost

-----------------------------------------------------------------------------
(*** Thirteen cards, none of them a ghost ***)

\* Groups of n equal cards, and one card more
InGroups(n, q) == \A i \in DOMAIN q : i % n = 0 => q[i - n + 1] = q[i]

GroupsOf(n, r) == \E k \in {i \in DOMAIN r : (i - 1) % n = 0} : InGroups(n, RemoveAt(r, k))

CountOf(r, k) == Cardinality({i \in DOMAIN r : r[i] = k})

\* Three of a rank that are no part of four, and the others in pairs; of the
\* greatest rank there are just the three.
PairsAndThree(r) ==
  \E k \in ToSet(r) :
    /\ CountOf(r, k) % 4 = 3
    /\ k = Last(r) => CountOf(r, k) = 3
    /\ \A m \in ToSet(r) \ {k} : CountOf(r, m) % 2 = 0

PairsIn(r) == MapThenSumSet(LAMBDA k : CountOf(r, k) \div 2, ToSet(r))

Red   == {0, 2}
Black == {1, 3}

\* The brands of the other two duns come with the first one.
ShortStraight(r) == Consecutive(r) \/ r = <<0, 1, Ace>>

DunsFit(s, front, behind) ==
  CASE s = 103 -> /\ ShortStraight(Ranks(front)) /\ OneSuit(front)
                  /\ behind \subseteq {Brand.straightFlush}
    [] s = 22  -> /\ ShortStraight(Ranks(front))
                  /\ behind \subseteq {Brand.straight, Brand.straightFlush}
    [] s = 12  -> OneSuit(front) /\ behind \subseteq {Brand.flush, Brand.straightFlush}

\* G13SpecialBrand, by its number; the last digit is its rank among the others.
SpecialFits(s, c, r, behind) ==
  CASE s = 135 -> Consecutive(r) /\ OneSuit(c)
    [] s = 124 -> Consecutive(r)
    [] s = 113 -> r[1] >= 9
    [] s = 93  -> GroupsOf(4, r)
    [] s = 82  -> r[1] >= 6
    [] s = 72  -> r[13] <= 6
    [] s = 62  -> \/ \A i \in DOMAIN c : Suit(c[i]) \in Red
                  \/ \A i \in DOMAIN c : Suit(c[i]) \in Black
    [] s = 52  -> GroupsOf(3, r)
    [] s = 42  -> PairsAndThree(r)
    [] s = 32  -> PairsIn(r) = 6
    [] s = 0   -> TRUE
    [] OTHER   -> DunsFit(s, SubSeq(c, 1, 3), behind)

NoSpecial == 0

RankedSpecial(c, r, behind) ==
  Max({s \in {135, 124, 113, 103, 93, 82, 72, 62, 52, 42, 32, 22, 12, NoSpecial} :
         SpecialFits(s, c, r, behind)})

G13SpecialBrand(c, b2, b3) == RankedSpecial(c, Ranks(c), {b2, b3})

=============================================================================
