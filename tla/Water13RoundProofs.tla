------------------------- MODULE Water13RoundProofs -------------------------
(***************************************************************************)
(* How the cards of a room are dealt and compared, for any number of seats *)
(* and players, any rules, any shuffle, any arrangements that players try  *)
(* and anything that the hands of a new room may hold.                     *)
(*                                                                         *)
(* First calcRound: between two seats there is at most one entry, and it   *)
(* says what one takes from the other (Fits), whichever seat comes first   *)
(* and whatever way round the unsigned sum has it entered; so a price with *)
(* its doublings is the net of the two (Net), and the prizes, which add    *)
(* entries, are the balances, which add pairs (CalcRoundCounts).  Only the *)
(* shots are not those of the rules: under the default rule, where a shot  *)
(* doubles, calcRound counts none (CalcRoundByTheRules).  All this needs   *)
(* numbers to compare: each dun of a hand that can be read has a brand and *)
(* a point, with ghosts and without (BrandInfoType).  Then the             *)
(* steps: the prizes stay those of the hands until the next deal           *)
(* (ScoredSoFar), and the five cards of each player are there for the      *)
(* second deal (RemainEnough).                                             *)
(*                                                                         *)
(* Then the cards: sorting and bringing out keep them and keep them in     *)
(* order.  Last the duns: a number in base 14 orders them as a list of     *)
(* ranks would, the pairs first (Decides5, Decides3).                      *)
(***************************************************************************)
EXTENDS Water13Round, Lemmas

-----------------------------------------------------------------------------
(*** Duns ***)

\* What brandInfo says of a dun (BrandInfo)
InfoType == [b : 0..9, isGhost : BOOLEAN, point : Int]

\* What calcRound knows of a seat (DataOf)
DatumType == [dun : [1..3 -> InfoType], spec : Int, hasMaPai : BOOLEAN]

\* A dun takes between one point and twenty (Worth).
LEMMA WorthBounds ==
  ASSUME NEW d \in 1..3, NEW x \in InfoType
  PROVE  Worth(d, x) \in 1..20
<1>1. Extra(d, x.b) \in {0, 1, 2, 3, 4, 7, 9, 19}
  BY DEF Extra
<1>2. QED
  BY <1>1 DEF Worth

\* Of two duns at most one beats the other (cmpBrandInfo, Beats).
LEMMA BeatsOneWay ==
  ASSUME NEW x \in InfoType, NEW y \in InfoType
  PROVE  ~(Beats(x, y) /\ Beats(y, x))
BY DEF InfoType, Beats

\* What a seat's dun takes from another's
Part(x, y, d) == IF Beats(x.dun[d], y.dun[d]) THEN Worth(d, x.dun[d]) ELSE 0

\* What DunPrize says is what the one dun takes less what the other does, and its
\* sign is the winner's.
LEMMA PartBounds ==
  ASSUME NEW x \in DatumType, NEW y \in DatumType, NEW d \in 1..3
  PROVE  /\ Part(x, y, d) \in 0..20 /\ Part(y, x, d) \in 0..20
         /\ DunPrize(x, y, d) = Part(x, y, d) - Part(y, x, d)
         /\ DunPrize(x, y, d) > 0 <=> Beats(x.dun[d], y.dun[d])
         /\ DunPrize(x, y, d) < 0 <=> Beats(y.dun[d], x.dun[d])
<1>1. x.dun[d] \in InfoType /\ y.dun[d] \in InfoType
  BY DEF DatumType
<1>2. Worth(d, x.dun[d]) \in 1..20 /\ Worth(d, y.dun[d]) \in 1..20
  BY <1>1, WorthBounds
<1>3. ~(Beats(x.dun[d], y.dun[d]) /\ Beats(y.dun[d], x.dun[d]))
  BY <1>1, BeatsOneWay
<1>4. QED
  BY <1>2, <1>3 DEF Part, DunPrize

\* A sum over three duns, written out
LEMMA SumOfThree ==
  ASSUME NEW f, DOMAIN f = 1..3, \A d \in 1..3 : f[d] \in Int
  PROVE  SumFunction(f) = f[1] + f[2] + f[3]
<1>1. IsFiniteSet({}) /\ IsFiniteSet({1}) /\ IsFiniteSet({1, 2})
  <2>1. IsFiniteSet({}) /\ IsFiniteSet({} \union {1})
    BY FS_EmptySet, FS_AddElement
  <2>2. IsFiniteSet({1}) /\ IsFiniteSet({1} \union {2})
    <3>1. {} \union {1} = {1}
      OBVIOUS
    <3>2. QED BY <2>1, <3>1, FS_AddElement
  <2>3. {1} \union {2} = {1, 2}
    OBVIOUS
  <2>4. QED BY <2>1, <2>2, <2>3
<1>2. SumFunctionOnSet(f, {}) = 0
  BY SumEmpty
<1>3. SumFunctionOnSet(f, {} \union {1}) = f[1]
  BY <1>1, <1>2, SumAdds
<1>4. SumFunctionOnSet(f, {1} \union {2}) = f[2] + SumFunctionOnSet(f, {1})
  <2>1. IsFiniteSet({1}) /\ (\A x \in {1} : f[x] \in Int) /\ 2 \notin {1} /\ f[2] \in Int
    BY <1>1
  <2>2. QED BY <2>1, SumAdds
<1>5. SumFunctionOnSet(f, {1, 2} \union {3}) = f[3] + SumFunctionOnSet(f, {1, 2})
  <2>1. IsFiniteSet({1, 2}) /\ (\A x \in {1, 2} : f[x] \in Int) /\ 3 \notin {1, 2} /\ f[3] \in Int
    BY <1>1
  <2>2. QED BY <2>1, SumAdds
<1>6. {} \union {1} = {1} /\ {1} \union {2} = {1, 2} /\ {1, 2} \union {3} = 1..3
  OBVIOUS
<1>7. SumFunction(f) = SumFunctionOnSet(f, 1..3)
  BY DEF SumFunction
<1>8. QED
  <2>1. SumFunctionOnSet(f, {1}) = f[1]
    BY <1>3, <1>6
  <2>2. SumFunctionOnSet(f, {1, 2}) = f[2] + f[1]
    BY <1>4, <1>6, <2>1
  <2>3. SumFunctionOnSet(f, 1..3) = f[3] + (f[2] + f[1])
    BY <1>5, <1>6, <2>2
  <2>4. f[1] \in Int /\ f[2] \in Int /\ f[3] \in Int
    OBVIOUS
  <2>5. QED
    BY <1>7, <2>3, <2>4

\* What a seat takes is the sum of what its duns take (Takes).
LEMMA TakesByDun ==
  ASSUME NEW x \in DatumType, NEW y \in DatumType
  PROVE  Takes(x, y) = Part(x, y, 1) + Part(x, y, 2) + Part(x, y, 3)
<1> DEFINE f == [d \in 1..3 |-> Part(x, y, d)]
<1>1. \A d \in 1..3 : f[d] \in Int
  BY PartBounds
<1>2. SumFunction(f) = f[1] + f[2] + f[3]
  BY <1>1, SumOfThree
<1>3. Takes(x, y) = SumFunction(f)
  BY DEF Takes, Part
<1>4. QED
  BY <1>2, <1>3

\* Nothing is lost in 16 bits.
LEMMA SignedAgain ==
  ASSUME NEW n \in -60..60
  PROVE  /\ Signed(Unsigned(n)) = n /\ Signed(Unsigned(-Unsigned(n))) = -n
         /\ Unsigned(n) = 0 <=> n = 0
<1>1. Word = 65536
  BY DEF Word
<1>2. QED
  BY <1>1 DEF Signed, Unsigned

\* Max of 0 and a number is the number's positive part.
LEMMA MaxOfTwo ==
  ASSUME NEW n \in Int
  PROVE  Max({0, n}) = IF n > 0 THEN n ELSE 0
BY DEF Max

-----------------------------------------------------------------------------
(*** The entry of two seats ***)

\* The shots that calcRound counts, and the balance that counts no others
CountedShot(x, y) == rules.daQiang = 1 /\ Shoots(x, y)

CountedGain(x, y) ==
  IF x.spec # NoSpecial \/ y.spec # NoSpecial
    THEN IF x.spec % 10 > y.spec % 10 THEN SpecPrize(x.spec) ELSE 0
    ELSE Max({0, Takes(x, y) - Takes(y, x)}) + (IF CountedShot(x, y) THEN ShootAddPoint ELSE 0)

CountedGains(data, i, j) ==
  CountedGain(data[i], data[j])
    * (IF data[i].hasMaPai \/ data[j].hasMaPai THEN 2 ELSE 1)
    * (IF PlayerSize > 2 /\ \A k \in Seats \ {i} : CountedShot(data[i], data[k]) THEN 2 ELSE 1)

CountedBalance(data) ==
  [i \in Seats |-> SumFunctionOnSet([j \in Seats |-> CountedGains(data, i, j) - CountedGains(data, j, i)],
                                    Seats \ {i})]

\* What the entry of two seats, of which x wins, is to that balance
Fits(x, y, p, shot) ==
  /\ shot <=> CountedShot(x, y)
  /\ ~CountedShot(y, x)
  /\ CountedGain(x, y) \in Int /\ CountedGain(y, x) \in Int
  /\ shot => CountedGain(y, x) = 0
  /\ CountedGain(x, y) - CountedGain(y, x) = p + (IF shot THEN ShootAddPoint ELSE 0)

\* Neither of two seats takes anything from the other.
EvenOut(x, y) == CountedGain(x, y) = 0 /\ CountedGain(y, x) = 0 /\ ~CountedShot(x, y) /\ ~CountedShot(y, x)

\* The price of a special brand is a number (SpecPrize).
LEMMA SpecPrizeIsInt ==
  ASSUME NEW s
  PROVE  SpecPrize(s) \in Int
BY DEF SpecPrize

\* The comparison of two seats of which one has a special brand makes one entry, which
\* fits, or none, and then nothing is owed (ComparedSpecs).
LEMMA OneEntryOfSpecs ==
  ASSUME NEW x \in DatumType, NEW y \in DatumType, NEW i, NEW j,
         x.spec # NoSpecial \/ y.spec # NoSpecial
  PROVE  \/ ComparedSpecs(x, y, i, j) = {} /\ EvenOut(x, y)
         \/ \E p \in Int : ComparedSpecs(x, y, i, j) = {Entry(i, j, p, FALSE)} /\ Fits(x, y, p, FALSE)
         \/ \E p \in Int : ComparedSpecs(x, y, i, j) = {Entry(j, i, p, FALSE)} /\ Fits(y, x, p, FALSE)
<1> DEFINE u == x.spec % 10
           v == y.spec % 10
           px == SpecPrize(x.spec)
           py == SpecPrize(y.spec)
           ex == {Entry(i, j, px, FALSE)}
           ey == {Entry(j, i, py, FALSE)}
           c  == ComparedSpecs(x, y, i, j)
<1>1. u \in Int /\ v \in Int /\ px \in Int /\ py \in Int
  BY SpecPrizeIsInt DEF DatumType
<1>2. ~CountedShot(x, y) /\ ~CountedShot(y, x)
  BY DEF CountedShot, Shoots
<1>3. CountedGain(x, y) = (IF u > v THEN px ELSE 0) /\ CountedGain(y, x) = (IF v > u THEN py ELSE 0)
  BY DEF CountedGain
<1>4. c = CASE u = v -> {} [] u > v -> ex [] OTHER -> ey
  BY DEF ComparedSpecs
<1> HIDE DEF u, v, px, py, ex, ey, c
<1>5. CASE u = v
  <2>1. c = {}
    BY <1>1, <1>4, <1>5
  <2>2. EvenOut(x, y)
    BY <1>1, <1>2, <1>3, <1>5 DEF EvenOut
  <2>3. QED
    BY <2>1, <2>2 DEF c
<1>6. CASE u > v
  <2>1. u # v /\ ~(v > u)
    BY <1>1, <1>6
  <2>2. c = ex
    BY <1>4, <1>6, <2>1
  <2>3. Fits(x, y, px, FALSE)
    BY <1>1, <1>2, <1>3, <1>6, <2>1 DEF Fits
  <2>4. QED
    BY <1>1, <2>2, <2>3 DEF c, ex, ey
<1>7. CASE v > u
  <2>1. u # v /\ ~(u > v)
    BY <1>1, <1>7
  <2>2. c = ey
    BY <1>4, <1>7, <2>1
  <2>3. Fits(y, x, py, FALSE)
    BY <1>1, <1>2, <1>3, <1>7, <2>1 DEF Fits
  <2>4. QED
    BY <1>1, <2>2, <2>3 DEF c, ex, ey
<1>8. u = v \/ u > v \/ v > u
  BY <1>1
<1>9. QED
  BY <1>5, <1>6, <1>7, <1>8

\* So does the comparison of two others, dun by dun, with and without a shot
\* (ComparedDuns, PrizeEntry).
LEMMA OneEntryOfDuns ==
  ASSUME rules.daQiang \in {0, 1}, ShootAddPoint \in Int,
         NEW x \in DatumType, NEW y \in DatumType, NEW i, NEW j,
         x.spec = NoSpecial, y.spec = NoSpecial
  PROVE  \/ ComparedDuns(x, y, i, j) = {} /\ EvenOut(x, y)
         \/ \E p \in Int, shot \in BOOLEAN :
              ComparedDuns(x, y, i, j) = {Entry(i, j, p, shot)} /\ Fits(x, y, p, shot)
         \/ \E p \in Int, shot \in BOOLEAN :
              ComparedDuns(x, y, i, j) = {Entry(j, i, p, shot)} /\ Fits(y, x, p, shot)
<1> DEFINE p == [d \in 1..3 |-> DunPrize(x, y, d)]
           n == p[1] + p[2] + p[3]
           a == Part(x, y, 1) + Part(x, y, 2) + Part(x, y, 3)
           b == Part(y, x, 1) + Part(y, x, 2) + Part(y, x, 3)
<1>1. /\ \A d \in 1..3 : Part(x, y, d) \in 0..20 /\ Part(y, x, d) \in 0..20
      /\ \A d \in 1..3 : p[d] = Part(x, y, d) - Part(y, x, d)
      /\ \A d \in 1..3 : p[d] > 0 <=> Beats(x.dun[d], y.dun[d])
      /\ \A d \in 1..3 : p[d] < 0 <=> Beats(y.dun[d], x.dun[d])
  BY PartBounds
<1>2. /\ Takes(x, y) = a /\ Takes(y, x) = b
      /\ a \in 0..60 /\ b \in 0..60 /\ n = a - b /\ n \in -60..60
  <2>1. Takes(x, y) = a /\ Takes(y, x) = b
    BY TakesByDun
  <2>2. /\ Part(x, y, 1) \in 0..20 /\ Part(x, y, 2) \in 0..20 /\ Part(x, y, 3) \in 0..20
        /\ Part(y, x, 1) \in 0..20 /\ Part(y, x, 2) \in 0..20 /\ Part(y, x, 3) \in 0..20
        /\ p[1] = Part(x, y, 1) - Part(y, x, 1) /\ p[2] = Part(x, y, 2) - Part(y, x, 2)
        /\ p[3] = Part(x, y, 3) - Part(y, x, 3)
    BY <1>1
  <2> HIDE DEF p
  <2>3. a \in 0..60 /\ b \in 0..60
    BY <2>2
  <2>4. n = a - b
    <3> DEFINE x1 == Part(x, y, 1)
               x2 == Part(x, y, 2)
               x3 == Part(x, y, 3)
               y1 == Part(y, x, 1)
               y2 == Part(y, x, 2)
               y3 == Part(y, x, 3)
    <3>1. n = (x1 - y1) + (x2 - y2) + (x3 - y3) /\ a = x1 + x2 + x3 /\ b = y1 + y2 + y3
      BY <2>2
    <3>2. x1 \in Int /\ x2 \in Int /\ x3 \in Int /\ y1 \in Int /\ y2 \in Int /\ y3 \in Int
      BY <2>2
    <3> HIDE DEF x1, x2, x3, y1, y2, y3, n, a, b
    <3>3. QED
      BY <3>1, <3>2
  <2>5. QED
    BY <2>1, <2>3, <2>4
<1>3. /\ Signed(Unsigned(n)) = n /\ Signed(Unsigned(-Unsigned(n))) = -n
      /\ Unsigned(n) = 0 <=> n = 0
  BY <1>2, SignedAgain
<1> DEFINE shotX == rules.daQiang # 0 /\ \A d \in 1..3 : p[d] > 0
           shotY == rules.daQiang # 0 /\ \A d \in 1..3 : p[d] < 0
<1>4. /\ shotX <=> CountedShot(x, y)
      /\ shotY <=> CountedShot(y, x)
  BY <1>1 DEF CountedShot, Shoots
<1>5. /\ shotX => n > 0 /\ ~shotY
      /\ shotY => n < 0 /\ ~shotX
  <2>1. p[1] \in Int /\ p[2] \in Int /\ p[3] \in Int
    <3>1. \A d \in 1..3 : Part(x, y, d) \in 0..20 /\ Part(y, x, d) \in 0..20 /\ p[d] = Part(x, y, d) - Part(y, x, d)
      BY <1>1
    <3> HIDE DEF p
    <3> QED BY <3>1
  <2> HIDE DEF p
  <2> QED
    BY <2>1
<1>6. /\ CountedGain(x, y) = (IF n > 0 THEN n ELSE 0) + (IF shotX THEN ShootAddPoint ELSE 0)
      /\ CountedGain(y, x) = (IF n < 0 THEN -n ELSE 0) + (IF shotY THEN ShootAddPoint ELSE 0)
  <2>1. /\ CountedGain(x, y) = Max({0, a - b}) + (IF CountedShot(x, y) THEN ShootAddPoint ELSE 0)
        /\ CountedGain(y, x) = Max({0, b - a}) + (IF CountedShot(y, x) THEN ShootAddPoint ELSE 0)
    BY <1>2 DEF CountedGain
  <2> HIDE DEF a, b, n, shotX, shotY
  <2>2. Max({0, a - b}) = (IF n > 0 THEN n ELSE 0) /\ Max({0, b - a}) = (IF n < 0 THEN -n ELSE 0)
    <3>1. a - b = n /\ b - a = -n /\ a - b \in Int /\ b - a \in Int
      BY <1>2
    <3>2. Max({0, a - b}) = (IF a - b > 0 THEN a - b ELSE 0) /\ Max({0, b - a}) = (IF b - a > 0 THEN b - a ELSE 0)
      BY <3>1, MaxOfTwo
    <3>3. QED BY <1>2, <3>1, <3>2
  <2>3. QED
    BY <1>4, <2>1, <2>2
<1>7. ComparedDuns(x, y, i, j) =
        CASE shotX -> {Entry(i, j, n, TRUE)}
          [] shotY -> {Entry(j, i, -n, TRUE)}
          [] OTHER -> IF n = 0 THEN {} ELSE {Entry(i, j, n, FALSE)}
  BY <1>3 DEF ComparedDuns, DunEntry, PrizeEntry
<1> HIDE DEF a, b, n, p, shotX, shotY
<1>8. n \in Int
  BY <1>2
<1>9. CASE shotX
  <2>1. ComparedDuns(x, y, i, j) = {Entry(i, j, n, TRUE)}
    BY <1>5, <1>7, <1>9
  <2>2. Fits(x, y, n, TRUE)
    BY <1>4, <1>5, <1>6, <1>8, <1>9 DEF Fits
  <2>3. QED
    BY <1>8, <2>1, <2>2
<1>10. CASE shotY
  <2>1. ComparedDuns(x, y, i, j) = {Entry(j, i, -n, TRUE)}
    BY <1>5, <1>7, <1>10
  <2>2. Fits(y, x, -n, TRUE)
    BY <1>4, <1>5, <1>6, <1>8, <1>10 DEF Fits
  <2>3. -n \in Int
    BY <1>8
  <2>4. QED
    BY <2>1, <2>2, <2>3
<1>11. CASE ~shotX /\ ~shotY /\ n = 0
  <2>1. ComparedDuns(x, y, i, j) = {}
    BY <1>7, <1>11
  <2>2. EvenOut(x, y)
    BY <1>4, <1>6, <1>11 DEF EvenOut
  <2>3. QED
    BY <2>1, <2>2
<1>12. CASE ~shotX /\ ~shotY /\ n # 0
  <2>1. ComparedDuns(x, y, i, j) = {Entry(i, j, n, FALSE)}
    BY <1>7, <1>12
  <2>2. Fits(x, y, n, FALSE)
    BY <1>4, <1>6, <1>8, <1>12 DEF Fits
  <2>3. QED
    BY <1>8, <2>1, <2>2
<1>13. QED
  BY <1>9, <1>10, <1>11, <1>12

-----------------------------------------------------------------------------
(*** The entries ***)

\* What calcRound knows of all seats
DataType == [Seats -> DatumType]

\* What the comparison needs of the room's rules
RulesFit == rules.daQiang \in {0, 1} /\ ShootAddPoint \in Int /\ PlayerSize \in Nat

\* The pairs in the order in which calcRound compares them
Seats2 == {p \in Seats \X Seats : p[1] < p[2]}

\* What the comparison of two seats gives
Outcome(data, i, j, C) ==
  \/ C = {} /\ EvenOut(data[i], data[j])
  \/ \E p \in Int, shot \in BOOLEAN : C = {Entry(i, j, p, shot)} /\ Fits(data[i], data[j], p, shot)
  \/ \E p \in Int, shot \in BOOLEAN : C = {Entry(j, i, p, shot)} /\ Fits(data[j], data[i], p, shot)

\* The comparison of two seats fits (Compared).
LEMMA ComparedFits ==
  ASSUME RulesFit, NEW data \in DataType, NEW i \in Seats, NEW j \in Seats
  PROVE  Outcome(data, i, j, Compared(data, i, j))
<1> DEFINE x == data[i]
           y == data[j]
<1>1. x \in DatumType /\ y \in DatumType
  BY DEF DataType
<1>2. CASE x.spec # NoSpecial \/ y.spec # NoSpecial
  <2>1. Compared(data, i, j) = ComparedSpecs(x, y, i, j)
    BY <1>2 DEF Compared
  <2> HIDE DEF x, y
  <2>2. \/ ComparedSpecs(x, y, i, j) = {} /\ EvenOut(x, y)
        \/ \E p \in Int : ComparedSpecs(x, y, i, j) = {Entry(i, j, p, FALSE)} /\ Fits(x, y, p, FALSE)
        \/ \E p \in Int : ComparedSpecs(x, y, i, j) = {Entry(j, i, p, FALSE)} /\ Fits(y, x, p, FALSE)
    BY <1>1, <1>2, OneEntryOfSpecs
  <2>3. QED
    BY <2>1, <2>2 DEF Outcome, x, y
<1>3. CASE ~(x.spec # NoSpecial \/ y.spec # NoSpecial)
  <2>1. Compared(data, i, j) = ComparedDuns(x, y, i, j)
    BY <1>3 DEF Compared
  <2> HIDE DEF x, y
  <2>2. \/ ComparedDuns(x, y, i, j) = {} /\ EvenOut(x, y)
        \/ \E p \in Int, shot \in BOOLEAN :
             ComparedDuns(x, y, i, j) = {Entry(i, j, p, shot)} /\ Fits(x, y, p, shot)
        \/ \E p \in Int, shot \in BOOLEAN :
             ComparedDuns(x, y, i, j) = {Entry(j, i, p, shot)} /\ Fits(y, x, p, shot)
    BY <1>1, <1>3, OneEntryOfDuns DEF RulesFit
  <2>3. QED
    BY <2>1, <2>2 DEF Outcome, x, y
<1>4. QED
  BY <1>2, <1>3

\* The comparison of two seats, whichever is first
Pair(data, i, j) == IF i < j THEN Compared(data, i, j) ELSE Compared(data, j, i)

\* So it is whichever of the two sits first.
LEMMA PairFits ==
  ASSUME RulesFit, NEW data \in DataType, NEW i \in Seats, NEW j \in Seats
  PROVE  Outcome(data, i, j, Pair(data, i, j))
<1>1. Outcome(data, i, j, Compared(data, i, j)) /\ Outcome(data, j, i, Compared(data, j, i))
  BY ComparedFits
<1>2. ASSUME NEW C, Outcome(data, j, i, C)
      PROVE  Outcome(data, i, j, C)
  BY <1>2 DEF Outcome, EvenOut
<1>3. QED
  BY <1>1, <1>2 DEF Pair

\* The entries between two seats are those of their comparison.
LEMMA EntriesBetween ==
  ASSUME RulesFit, NEW data \in DataType, NEW i \in Seats, NEW j \in Seats, i # j
  PROVE  /\ Pair(data, i, j) \subseteq Entries(data)
         /\ \A e \in Pair(data, i, j) : {e.winner, e.loser} = {i, j}
         /\ \A e \in Entries(data) : e.winner = i /\ e.loser = j => e \in Pair(data, i, j)
<1>1. i \in Int /\ j \in Int /\ (i < j \/ j < i)
  BY DEF Seats, RulesFit
<1>2. Pair(data, i, j) \subseteq Entries(data)
  <2>1. CASE i < j
    <3>1. Pair(data, i, j) = Compared(data, i, j) /\ <<i, j>> \in {p \in Seats \X Seats : p[1] < p[2]}
      BY <2>1 DEF Pair
    <3>2. Compared(data, i, j) = Compared(data, <<i, j>>[1], <<i, j>>[2])
      OBVIOUS
    <3>3. QED
      BY <3>1, <3>2, Zenon DEF Entries
  <2>2. CASE j < i
    <3>1. ~(i < j)
      BY <1>1, <2>2
    <3>2. Pair(data, i, j) = Compared(data, j, i) /\ <<j, i>> \in {p \in Seats \X Seats : p[1] < p[2]}
      BY <2>2, <3>1 DEF Pair
    <3>3. Compared(data, j, i) = Compared(data, <<j, i>>[1], <<j, i>>[2])
      OBVIOUS
    <3>4. QED
      BY <3>2, <3>3, Zenon DEF Entries
  <2>3. QED
    BY <1>1, <2>1, <2>2
<1>3. \A a, b \in Seats : \A e \in Compared(data, a, b) : {e.winner, e.loser} = {a, b}
  <2> TAKE a, b \in Seats
  <2> TAKE e \in Compared(data, a, b)
  <2>1. \/ \E p \in Int, shot \in BOOLEAN : e = Entry(a, b, p, shot)
        \/ \E p \in Int, shot \in BOOLEAN : e = Entry(b, a, p, shot)
    BY ComparedFits DEF Outcome
  <2>2. QED
    BY <2>1 DEF Entry
<1>4. ASSUME NEW e \in Entries(data), e.winner = i, e.loser = j
      PROVE  e \in Pair(data, i, j)
  <2>1. PICK a \in Seats, b \in Seats : a < b /\ e \in Compared(data, a, b)
    BY DEF Entries
  <2>2. {a, b} = {i, j}
    BY <1>3, <1>4, <2>1
  <2>3. a \in Int /\ b \in Int
    BY DEF Seats, RulesFit
  <2>4. CASE a = i /\ b = j
    BY <2>1, <2>4 DEF Pair
  <2>5. CASE a = j /\ b = i
    <3>1. ~(i < j)
      BY <1>1, <2>1, <2>5
    <3>2. QED
      BY <2>1, <2>5, <3>1 DEF Pair
  <2>6. QED
    BY <2>2, <2>4, <2>5
<1>5. QED
  <2>1. \A e \in Pair(data, i, j) : {e.winner, e.loser} = {i, j}
    BY <1>3 DEF Pair
  <2>2. QED
    BY <1>2, <1>4, <2>1

\* The entries are finitely many, between two different seats each (Entries).
LEMMA EntriesType ==
  ASSUME RulesFit, NEW data \in DataType
  PROVE  /\ IsFiniteSet(Entries(data))
         /\ \A e \in Entries(data) : e.winner \in Seats /\ e.loser \in Seats /\ e.winner # e.loser
                                     /\ e.price \in Int /\ e.shot \in BOOLEAN
<1> DEFINE C == {Compared(data, q[1], q[2]) : q \in Seats2}
<1>1. IsFiniteSet(C)
  <2>1. IsFiniteSet(Seats \X Seats)
    <3>1. IsFiniteSet(Seats)
      BY FS_Interval DEF Seats, RulesFit
    <3>2. QED
      BY <3>1, FS_Product
  <2>2. IsFiniteSet(Seats2)
    BY <2>1, FS_Subset DEF Seats2
  <2> DEFINE f == [q \in Seats2 |-> Compared(data, q[1], q[2])]
  <2>3. f \in Surjection(Seats2, C)
    BY DEF Surjection
  <2> HIDE DEF f, C
  <2>4. QED
    BY <2>2, <2>3, FS_Surjection
<1>2. \A i, j \in Seats : i < j =>
        /\ IsFiniteSet(Compared(data, i, j))
        /\ \A e \in Compared(data, i, j) : e.winner \in Seats /\ e.loser \in Seats /\ e.winner # e.loser
                                             /\ e.price \in Int /\ e.shot \in BOOLEAN
  <2> SUFFICES ASSUME NEW i \in Seats, NEW j \in Seats, i < j
               PROVE  /\ IsFiniteSet(Compared(data, i, j))
                      /\ \A e \in Compared(data, i, j) :
                           e.winner \in Seats /\ e.loser \in Seats /\ e.winner # e.loser
                             /\ e.price \in Int /\ e.shot \in BOOLEAN
    OBVIOUS
  <2>1. i # j
    BY DEF Seats, RulesFit
  <2>2. \/ Compared(data, i, j) = {}
        \/ \E p \in Int, shot \in BOOLEAN : Compared(data, i, j) = {Entry(i, j, p, shot)}
        \/ \E p \in Int, shot \in BOOLEAN : Compared(data, i, j) = {Entry(j, i, p, shot)}
    BY ComparedFits DEF Outcome
  <2>3. IsFiniteSet(Compared(data, i, j))
    <3>1. \A z : IsFiniteSet({z})
      BY FS_Singleton
    <3>2. IsFiniteSet({})
      BY FS_EmptySet
    <3>3. QED
      BY <2>2, <3>1, <3>2
  <2>4. QED
    BY <2>1, <2>2, <2>3 DEF Entry
<1>3. Entries(data) = UNION C
  BY DEF Entries, Seats2
<1>4. \A T \in C : \E i, j \in Seats : i < j /\ T = Compared(data, i, j)
  BY DEF Seats2
<1> HIDE DEF C
<1>5. IsFiniteSet(UNION C)
  <2>1. \A T \in C : IsFiniteSet(T)
    BY <1>2, <1>4
  <2>2. QED
    BY <1>1, <2>1, FS_UNION
<1>6. QED
  BY <1>2, <1>3, <1>4, <1>5

-----------------------------------------------------------------------------
(*** Who shoots at everybody ***)

\* An entry is the only one between its two seats, and it fits.
LEMMA WonFrom ==
  ASSUME RulesFit, NEW data \in DataType, NEW e \in Entries(data)
  PROVE  LET x == data[e.winner]
             y == data[e.loser] IN
         /\ Pair(data, e.winner, e.loser) = {e}
         /\ Fits(x, y, e.price, e.shot)
<1> DEFINE i == e.winner
           k == e.loser
<1>1. i \in Seats /\ k \in Seats /\ i # k
  BY EntriesType
<1>2. e \in Pair(data, i, k)
  <2>1. \A a, b \in Seats : a # b => \A f \in Entries(data) : f.winner = a /\ f.loser = b => f \in Pair(data, a, b)
    BY EntriesBetween
  <2>2. QED
    BY <1>1, <2>1
<1> HIDE DEF i, k
<1>3. Outcome(data, i, k, Pair(data, i, k))
  BY <1>1, PairFits
<1>4. CASE Pair(data, i, k) = {}
  BY <1>2, <1>4
<1>5. CASE \E p \in Int, shot \in BOOLEAN :
             Pair(data, i, k) = {Entry(i, k, p, shot)} /\ Fits(data[i], data[k], p, shot)
  <2>1. PICK p \in Int, shot \in BOOLEAN :
             Pair(data, i, k) = {Entry(i, k, p, shot)} /\ Fits(data[i], data[k], p, shot)
    BY <1>5
  <2>2. e = Entry(i, k, p, shot)
    BY <1>2, <2>1
  <2>3. e.price = p /\ e.shot = shot
    BY <2>2 DEF Entry
  <2>4. QED
    BY <2>1, <2>2, <2>3 DEF i, k
<1>6. CASE \E p \in Int, shot \in BOOLEAN :
             Pair(data, i, k) = {Entry(k, i, p, shot)} /\ Fits(data[k], data[i], p, shot)
  <2>1. PICK p \in Int, shot \in BOOLEAN : Pair(data, i, k) = {Entry(k, i, p, shot)}
    BY <1>6
  <2>2. e = Entry(k, i, p, shot)
    BY <1>2, <2>1
  <2>3. e.winner = k
    BY <2>2 DEF Entry
  <2>4. QED
    BY <1>1, <2>3 DEF i
<1>7. QED
  BY <1>3, <1>4, <1>5, <1>6 DEF Outcome

\* Who shoots at another has an entry against him.
LEMMA ShotIsEntered ==
  ASSUME RulesFit, NEW data \in DataType, NEW i \in Seats, NEW k \in Seats, i # k,
         CountedShot(data[i], data[k])
  PROVE  \E e \in Entries(data) : e.winner = i /\ e.loser = k
<1>1. Outcome(data, i, k, Pair(data, i, k))
  BY PairFits
<1>2. PICK p \in Int, shot \in BOOLEAN : Pair(data, i, k) = {Entry(i, k, p, shot)}
  BY <1>1 DEF Outcome, EvenOut, Fits
<1>3. Entry(i, k, p, shot) \in Entries(data)
  BY <1>2, EntriesBetween
<1>4. QED
  BY <1>3 DEF Entry

\* Who shoots at everybody
ShootsAll(data, i) == PlayerSize > 2 /\ \A k \in Seats \ {i} : CountedShot(data[i], data[k])

\* The source counts the entries of a winner to find a shot at everybody; the rules
\* ask for a shot at each seat.  They agree (QuanLeiDa).
LEMMA ShotAtAll ==
  ASSUME RulesFit, NEW data \in DataType, NEW i \in Seats
  PROVE  QuanLeiDa(Entries(data), i) <=> ShootsAll(data, i)
<1> DEFINE won == {e \in Entries(data) : e.winner = i}
           others == Seats \ {i}
           loser == [e \in won |-> e.loser]
<1>1. \A e \in won : /\ e \in Entries(data) /\ e.winner = i /\ e.loser \in others
                     /\ e.shot <=> CountedShot(data[i], data[e.loser])
                     /\ Pair(data, i, e.loser) = {e}
  BY EntriesType, WonFrom DEF Fits
<1>2. IsFiniteSet(others) /\ Cardinality(others) = PlayerSize - 1
  <2>1. IsFiniteSet(Seats) /\ Cardinality(Seats) = PlayerSize
    BY FS_Interval DEF Seats, RulesFit
  <2>2. QED
    BY <2>1, FS_RemoveElement
<1>3. loser \in Injection(won, others)
  <2>1. loser \in [won -> others]
    BY <1>1
  <2>2. ASSUME NEW e \in won, NEW f \in won, loser[e] = loser[f]
        PROVE  e = f
    <3>1. e.loser = f.loser
      BY <2>2
    <3>2. {e} = {f}
      BY <1>1, <3>1
    <3>3. QED
      BY <3>2
  <2> HIDE DEF won, others, loser
  <2>3. QED
    BY <2>1, <2>2 DEF Injection, IsInjective
<1>4. Cardinality(won) = Cardinality(others) <=> loser \in Surjection(won, others)
  BY <1>2, <1>3, FS_Injection
<1>5. Cardinality(won) \in Nat
  BY <1>2, <1>3, FS_Injection, FS_CardinalityType
<1>6. QuanLeiDa(Entries(data), i) <=>
        PlayerSize > 2 /\ Cardinality(won) + 1 = PlayerSize /\ \A e \in won : e.shot
  BY DEF QuanLeiDa
<1>7. Cardinality(won) + 1 = PlayerSize <=> Cardinality(won) = Cardinality(others)
  BY <1>2, <1>5 DEF RulesFit
<1>8. ASSUME QuanLeiDa(Entries(data), i)
      PROVE  ShootsAll(data, i)
  <2>1. PlayerSize > 2 /\ loser \in Surjection(won, others) /\ \A e \in won : e.shot
    BY <1>4, <1>6, <1>7, <1>8
  <2>2. ASSUME NEW k \in others
        PROVE  CountedShot(data[i], data[k])
    <3>1. PICK e \in won : loser[e] = k
      BY <2>1 DEF Surjection
    <3>2. e.loser = k
      BY <3>1
    <3>3. QED
      BY <1>1, <2>1, <3>2
  <2>3. QED
    BY <2>1, <2>2 DEF ShootsAll
<1>9. ASSUME ShootsAll(data, i)
      PROVE  QuanLeiDa(Entries(data), i)
  <2>1. \A k \in others : \E e \in won : e.loser = k
    BY <1>9, ShotIsEntered DEF ShootsAll
  <2>2. loser \in Surjection(won, others)
    <3>1. loser \in [won -> others]
      BY <1>1
    <3>2. \A k \in others : \E e \in won : loser[e] = k
      BY <2>1
    <3> HIDE DEF loser, won, others
    <3>3. QED
      BY <3>1, <3>2 DEF Surjection
  <2>3. \A e \in won : e.shot
    BY <1>1, <1>9 DEF ShootsAll
  <2>4. QED
    BY <1>4, <1>6, <1>7, <1>9, <2>2, <2>3 DEF ShootsAll
<1>10. QED
  BY <1>8, <1>9

-----------------------------------------------------------------------------
(*** Prices ***)

\* What i takes from j, all told, and less what j takes from i
Net(data, i, j) == CountedGains(data, i, j) - CountedGains(data, j, i)

\* The price of an entry, with its doublings, is what its winner takes from its loser
\* (Price, CountedGains).
LEMMA PriceCounts ==
  ASSUME RulesFit, NEW data \in DataType, NEW e \in Entries(data)
  PROVE  /\ Price(data, Entries(data), e) = Net(data, e.winner, e.loser)
         /\ Price(data, Entries(data), e) \in Int
<1> DEFINE i == e.winner
           j == e.loser
           x == data[i]
           y == data[j]
           m == IF x.hasMaPai \/ y.hasMaPai THEN 2 ELSE 1
           q == IF ShootsAll(data, i) THEN 2 ELSE 1
           c == IF e.shot THEN e.price + ShootAddPoint ELSE e.price
           g == CountedGain(x, y)
           h == CountedGain(y, x)
<1>1. i \in Seats /\ j \in Seats /\ i # j /\ e.price \in Int /\ e.shot \in BOOLEAN
  BY EntriesType
<1>2. Fits(x, y, e.price, e.shot)
  BY WonFrom
<1>3. QuanLeiDa(Entries(data), i) <=> ShootsAll(data, i)
  BY <1>1, ShotAtAll
<1>4. ~ShootsAll(data, j)
  BY <1>1, <1>2 DEF Fits, ShootsAll
<1>5. ~e.shot => ~ShootsAll(data, i)
  BY <1>1, <1>2 DEF Fits, ShootsAll
<1>6. e.shot => rules.daQiang = 1
  BY <1>2 DEF Fits, CountedShot, Shoots
<1>7. Price(data, Entries(data), e) = c * m * q
  BY <1>1, <1>3, <1>6 DEF Price
<1>8. CountedGains(data, i, j) = g * m * q
  BY DEF CountedGains, ShootsAll
<1>9. CountedGains(data, j, i) = h * m
  <2>1. m = IF y.hasMaPai \/ x.hasMaPai THEN 2 ELSE 1
    OBVIOUS
  <2>2. CountedGains(data, j, i) = h * m * 1
    BY <1>4, <2>1 DEF CountedGains, ShootsAll
  <2>3. h \in Int /\ m \in Int
    BY <1>2 DEF Fits
  <2> HIDE DEF h, m
  <2>4. QED
    BY <2>2, <2>3
<1>10. g \in Int /\ h \in Int /\ g - h = c /\ (e.shot => h = 0) /\ c \in Int
  BY <1>1, <1>2 DEF Fits, RulesFit
<1>11. m \in {1, 2} /\ q \in {1, 2} /\ (~e.shot => q = 1)
  BY <1>5
<1> HIDE DEF c, g, h, m, q, i, j
<1>12. c * m * q = g * m * q - h * m /\ c * m * q \in Int
  <2>1. CASE e.shot
    BY <1>10, <1>11, <2>1
  <2>2. CASE ~e.shot
    BY <1>10, <1>11, <2>2
  <2>3. QED
    BY <2>1, <2>2
<1>13. QED
  BY <1>7, <1>8, <1>9, <1>12 DEF Net, i, j

\* Two seats between which nothing is entered owe each other nothing.
LEMMA NothingBetween ==
  ASSUME RulesFit, NEW data \in DataType, NEW i \in Seats, NEW j \in Seats,
         Pair(data, i, j) = {}
  PROVE  Net(data, i, j) = 0
<1>1. CountedGain(data[i], data[j]) = 0 /\ CountedGain(data[j], data[i]) = 0
  <2>1. Outcome(data, i, j, {})
    BY PairFits
  <2>2. QED
    BY <2>1 DEF Outcome, EvenOut
<1>2. ASSUME NEW a, NEW b, CountedGain(data[a], data[b]) = 0
      PROVE  CountedGains(data, a, b) = 0
  <2> DEFINE m == IF data[a].hasMaPai \/ data[b].hasMaPai THEN 2 ELSE 1
             q == IF ShootsAll(data, a) THEN 2 ELSE 1
  <2>1. CountedGains(data, a, b) = 0 * m * q
    BY <1>2 DEF CountedGains, ShootsAll
  <2>2. m \in Int /\ q \in Int
    OBVIOUS
  <2> HIDE DEF m, q
  <2>3. QED
    BY <2>1, <2>2
<1>3. CountedGains(data, i, j) = 0 /\ CountedGains(data, j, i) = 0
  BY <1>1, <1>2
<1>4. QED
  BY <1>3 DEF Net

\* What one seat takes from another is a number, and the other's loss.
LEMMA NetType ==
  ASSUME RulesFit, NEW data \in DataType, NEW i \in Seats, NEW j \in Seats, i # j
  PROVE  Net(data, i, j) \in Int /\ Net(data, j, i) = -Net(data, i, j)
<1>1. CountedGains(data, i, j) \in Int /\ CountedGains(data, j, i) \in Int
  <2>1. CountedGain(data[i], data[j]) \in Int /\ CountedGain(data[j], data[i]) \in Int
    <3>1. Outcome(data, i, j, Pair(data, i, j))
      BY PairFits
    <3>2. QED
      BY <3>1 DEF Outcome, EvenOut, Fits
  <2>2. ASSUME NEW a, NEW b, CountedGain(data[a], data[b]) \in Int
        PROVE  CountedGains(data, a, b) \in Int
    <3> DEFINE m == IF data[a].hasMaPai \/ data[b].hasMaPai THEN 2 ELSE 1
               q == IF ShootsAll(data, a) THEN 2 ELSE 1
    <3>1. CountedGains(data, a, b) = CountedGain(data[a], data[b]) * m * q
      BY DEF CountedGains, ShootsAll
    <3>2. m \in Int /\ q \in Int
      OBVIOUS
    <3> HIDE DEF m, q
    <3>3. QED
      BY <2>2, <3>1, <3>2
  <2>3. QED
    BY <2>1, <2>2
<1>2. QED
  BY <1>1 DEF Net

-----------------------------------------------------------------------------
(*** calcRound computes the balance ***)

\* The prices of all entries
PriceOf(data) == [e \in Entries(data) |-> Price(data, Entries(data), e)]

\* Prices are numbers, namely what is taken.
LEMMA PriceOfType ==
  ASSUME RulesFit, NEW data \in DataType, NEW T \in SUBSET Entries(data)
  PROVE  /\ IsFiniteSet(T)
         /\ \A e \in T : PriceOf(data)[e] \in Int /\ PriceOf(data)[e] = Net(data, e.winner, e.loser)
<1>1. IsFiniteSet(T)
  BY EntriesType, FS_Subset
<1>2. QED
  BY <1>1, PriceCounts DEF PriceOf

\* A sum over one is that one.
LEMMA SumOfOne ==
  ASSUME NEW f, NEW x, f[x] \in Int
  PROVE  SumFunctionOnSet(f, {x}) = f[x]
<1>1. SumFunctionOnSet(f, {} \union {x}) = f[x] + SumFunctionOnSet(f, {})
  BY FS_EmptySet, SumAdds
<1>2. {} \union {x} = {x}
  OBVIOUS
<1>3. QED
  BY <1>1, <1>2, SumEmpty

\* What is entered between two seats is what the one takes from the other.
LEMMA BetweenTwo ==
  ASSUME RulesFit, NEW data \in DataType, NEW i \in Seats, NEW j \in Seats, i # j
  PROVE  SumFunctionOnSet(PriceOf(data), {e \in Entries(data) : e.winner = i /\ e.loser = j})
           - SumFunctionOnSet(PriceOf(data), {e \in Entries(data) : e.loser = i /\ e.winner = j})
         = Net(data, i, j)
<1> DEFINE f == PriceOf(data)
           won == {e \in Entries(data) : e.winner = i /\ e.loser = j}
           lost == {e \in Entries(data) : e.loser = i /\ e.winner = j}
<1>1. /\ Pair(data, i, j) \subseteq Entries(data)
      /\ \A e \in Pair(data, i, j) : {e.winner, e.loser} = {i, j}
      /\ won \subseteq Pair(data, i, j)
  BY EntriesBetween
<1>2. lost \subseteq Pair(data, i, j)
  <2>1. lost \subseteq Pair(data, j, i)
    BY EntriesBetween
  <2>2. Pair(data, j, i) = Pair(data, i, j)
    BY DEF Pair, Seats, RulesFit
  <2>3. QED
    BY <2>1, <2>2
<1>3. CASE Pair(data, i, j) = {}
  <2>1. won = {} /\ lost = {}
    BY <1>1, <1>2, <1>3
  <2>2. Net(data, i, j) = 0
    BY <1>3, NothingBetween
  <2> HIDE DEF won, lost, f
  <2>3. QED
    BY <2>1, <2>2, SumEmpty DEF won, lost, f
<1>4. CASE \E e : Pair(data, i, j) = {e}
  <2>1. PICK e : Pair(data, i, j) = {e}
    BY <1>4
  <2>2. e \in Entries(data) /\ {e.winner, e.loser} = {i, j}
    BY <1>1, <2>1
  <2>3. f[e] \in Int /\ f[e] = Net(data, e.winner, e.loser)
    <3>1. {e} \in SUBSET Entries(data)
      BY <2>2
    <3>2. QED
      BY <3>1, PriceOfType
  <2>4. SumFunctionOnSet(f, {e}) = f[e] /\ SumFunctionOnSet(f, {}) = 0
    <3> HIDE DEF f
    <3>1. QED
      BY <2>3, SumOfOne, SumEmpty
  <2>5. Net(data, i, j) \in Int /\ Net(data, j, i) = -Net(data, i, j)
    BY NetType
  <2>6. CASE e.winner = i /\ e.loser = j
    <3>1. won = {e} /\ lost = {}
      BY <1>1, <1>2, <2>1, <2>2, <2>6
    <3>2. SumFunctionOnSet(f, won) = Net(data, i, j) /\ SumFunctionOnSet(f, lost) = 0
      BY <2>3, <2>4, <2>6, <3>1
    <3>3. QED
      BY <2>5, <3>2
  <2>7. CASE e.winner = j /\ e.loser = i
    <3>1. won = {} /\ lost = {e}
      BY <1>1, <1>2, <2>1, <2>2, <2>7
    <3>2. SumFunctionOnSet(f, won) = 0 /\ SumFunctionOnSet(f, lost) = -Net(data, i, j)
      BY <2>3, <2>4, <2>5, <2>7, <3>1
    <3>3. QED
      BY <2>5, <3>2
  <2>8. QED
    BY <2>2, <2>6, <2>7
<1>5. QED
  <2>1. Outcome(data, i, j, Pair(data, i, j))
    BY PairFits
  <2>2. Pair(data, i, j) = {} \/ \E e : Pair(data, i, j) = {e}
    BY <2>1 DEF Outcome
  <2>3. QED
    BY <1>3, <1>4, <2>2

\* A seat's prize is the sum, over the other seats, of what is between the two.
LEMMA SettledByPairs ==
  ASSUME RulesFit, NEW data \in DataType, NEW i \in Seats,
         NEW net, \A j \in Seats \ {i} : net[j] = Net(data, i, j)
  PROVE  SumFunctionOnSet(PriceOf(data), {e \in Entries(data) : e.winner = i})
           - SumFunctionOnSet(PriceOf(data), {e \in Entries(data) : e.loser = i})
         = SumFunctionOnSet(net, Seats \ {i})
<1> DEFINE f == PriceOf(data)
           others == Seats \ {i}
           won(T) == {e \in Entries(data) : e.winner = i /\ e.loser \in T}
           lost(T) == {e \in Entries(data) : e.loser = i /\ e.winner \in T}
           F == {T \in SUBSET others :
                   SumFunctionOnSet(f, won(T)) - SumFunctionOnSet(f, lost(T)) = SumFunctionOnSet(net, T)}
<1>1. IsFiniteSet(others)
  <2>1. IsFiniteSet(Seats)
    BY FS_Interval DEF Seats, RulesFit
  <2>2. QED
    BY <2>1, FS_Subset
<1>2. \A T \in SUBSET others :
        /\ IsFiniteSet(T) /\ \A j \in T : net[j] \in Int
        /\ SumFunctionOnSet(net, T) \in Int
  <2> TAKE T \in SUBSET others
  <2>1. IsFiniteSet(T) /\ \A j \in T : net[j] \in Int
    BY <1>1, FS_Subset, NetType
  <2>2. QED
    BY <2>1, SumIsInt
<1>3. \A T \in SUBSET Entries(data) : IsFiniteSet(T) /\ (\A e \in T : f[e] \in Int) /\ SumFunctionOnSet(f, T) \in Int
  <2> TAKE T \in SUBSET Entries(data)
  <2>1. IsFiniteSet(T) /\ \A e \in T : f[e] \in Int
    BY PriceOfType
  <2> HIDE DEF f
  <2>2. QED
    BY <2>1, SumIsInt
<1>4. {} \in F
  <2>1. won({}) = {} /\ lost({}) = {}
    OBVIOUS
  <2>2. SumFunctionOnSet(f, won({})) - SumFunctionOnSet(f, lost({})) = SumFunctionOnSet(net, {})
    <3> HIDE DEF f, won, lost
    <3> QED BY <2>1, SumEmpty
  <2>3. QED
    BY <2>2
<1>5. ASSUME NEW A \in SUBSET others, NEW j \in others, A \in F, j \notin A
      PROVE  A \union {j} \in F
  <2> DEFINE w == {e \in Entries(data) : e.winner = i /\ e.loser = j}
             l == {e \in Entries(data) : e.loser = i /\ e.winner = j}
             B == A \union {j}
  <2>1. /\ won(B) = won(A) \union w /\ won(A) \cap w = {}
        /\ lost(B) = lost(A) \union l /\ lost(A) \cap l = {}
    BY <1>5
  <2>2. /\ won(A) \in SUBSET Entries(data) /\ w \in SUBSET Entries(data)
        /\ lost(A) \in SUBSET Entries(data) /\ l \in SUBSET Entries(data)
    OBVIOUS
  <2>3. SumFunctionOnSet(f, w) - SumFunctionOnSet(f, l) = Net(data, i, j)
    BY BetweenTwo
  <2>4. SumFunctionOnSet(f, won(A)) - SumFunctionOnSet(f, lost(A)) = SumFunctionOnSet(net, A)
    BY <1>5
  <2> HIDE DEF f, won, lost, w, l
  <2>5. /\ SumFunctionOnSet(f, won(B)) = SumFunctionOnSet(f, won(A)) + SumFunctionOnSet(f, w)
        /\ SumFunctionOnSet(f, lost(B)) = SumFunctionOnSet(f, lost(A)) + SumFunctionOnSet(f, l)
    <3>1. \A S, T \in SUBSET Entries(data) :
             S \cap T = {} => SumFunctionOnSet(f, S \union T) = SumFunctionOnSet(f, S) + SumFunctionOnSet(f, T)
      <4> TAKE S, T \in SUBSET Entries(data)
      <4> HAVE S \cap T = {}
      <4>1. IsFiniteSet(S) /\ IsFiniteSet(T) /\ \A e \in S \union T : f[e] \in Int
        BY <1>3
      <4>2. QED
        BY <4>1, SumOfUnion
    <3>2. QED
      BY <2>1, <2>2, <3>1
  <2>6. SumFunctionOnSet(net, B) = net[j] + SumFunctionOnSet(net, A)
    <3>1. IsFiniteSet(A) /\ (\A k \in A : net[k] \in Int) /\ net[j] \in Int
      <4>1. {j} \in SUBSET others
        OBVIOUS
      <4>2. QED
        BY <1>2, <4>1
    <3>2. QED
      BY <1>5, <3>1, SumAdds
  <2>7. net[j] = Net(data, i, j)
    OBVIOUS
  <2>8. /\ SumFunctionOnSet(f, won(A)) \in Int /\ SumFunctionOnSet(f, lost(A)) \in Int
        /\ SumFunctionOnSet(f, w) \in Int /\ SumFunctionOnSet(f, l) \in Int
        /\ SumFunctionOnSet(net, A) \in Int
    BY <1>2, <1>3, <2>2
  <2>9. SumFunctionOnSet(f, won(B)) - SumFunctionOnSet(f, lost(B)) = SumFunctionOnSet(net, B)
    BY <2>3, <2>4, <2>5, <2>6, <2>7, <2>8
  <2>10. B \in SUBSET others
    BY <1>5
  <2>11. QED
    BY <2>9, <2>10 DEF f, won, lost
<1>6. others \in F
  <2> HIDE DEF F
  <2>1. QED
    BY <1>1, <1>4, <1>5, FiniteSetInduction
<1>7. /\ won(others) = {e \in Entries(data) : e.winner = i}
      /\ lost(others) = {e \in Entries(data) : e.loser = i}
  BY EntriesType
<1>8. SumFunctionOnSet(f, won(others)) - SumFunctionOnSet(f, lost(others)) = SumFunctionOnSet(net, others)
  BY <1>6
<1> HIDE DEF won, lost
<1>9. QED
  BY <1>7, <1>8

\* calcRound computes the balance with the shots that it counts (CalcRound).
THEOREM CalcRoundCounts ==
  ASSUME RulesFit, NEW data \in DataType
  PROVE  CalcRound(data) = CountedBalance(data)
<1>1. ASSUME NEW i \in Seats
      PROVE  SumFunctionOnSet(PriceOf(data), {e \in Entries(data) : e.winner = i})
               - SumFunctionOnSet(PriceOf(data), {e \in Entries(data) : e.loser = i})
             = SumFunctionOnSet([j \in Seats |-> Net(data, i, j)], Seats \ {i})
  <2> DEFINE net == [j \in Seats |-> Net(data, i, j)]
  <2>1. \A j \in Seats \ {i} : net[j] = Net(data, i, j)
    OBVIOUS
  <2> HIDE DEF net
  <2>2. SumFunctionOnSet(PriceOf(data), {e \in Entries(data) : e.winner = i})
               - SumFunctionOnSet(PriceOf(data), {e \in Entries(data) : e.loser = i})
             = SumFunctionOnSet(net, Seats \ {i})
    BY <2>1, SettledByPairs
  <2>3. QED
    BY <2>2 DEF net
<1>2. CalcRound(data) =
        [i \in Seats |-> SumFunctionOnSet(PriceOf(data), {e \in Entries(data) : e.winner = i})
                         - SumFunctionOnSet(PriceOf(data), {e \in Entries(data) : e.loser = i})]
  BY DEF CalcRound, Settled, PriceOf
<1>3. CountedBalance(data) = [i \in Seats |-> SumFunctionOnSet([j \in Seats |-> Net(data, i, j)], Seats \ {i})]
  BY DEF CountedBalance, Net
<1>4. QED
  BY <1>1, <1>2, <1>3

\* Without a shot under the default rule all shots are counted (Shoots, daQiang).
ShotsCount(data) == rules.daQiang = 1 \/ \A i, j \in Seats : ~Shoots(data[i], data[j])

\* Then the balance with the shots that count is the balance of the rules (Balance).
LEMMA SameBalance ==
  ASSUME RulesFit, NEW data \in DataType, ShotsCount(data)
  PROVE  CountedBalance(data) = Balance(data)
<1>1. ASSUME NEW i \in Seats, NEW j \in Seats
      PROVE  CountedShot(data[i], data[j]) <=> Shoots(data[i], data[j])
  BY DEF CountedShot, ShotsCount
<1>2. ASSUME NEW i \in Seats, NEW j \in Seats
      PROVE  CountedGain(data[i], data[j]) = Gain(data[i], data[j])
  <2>1. ShotGain(data[i], data[j]) = IF CountedShot(data[i], data[j]) THEN ShootAddPoint ELSE 0
    <3>1. CASE Shoots(data[i], data[j])
      <4>1. rules.daQiang = 1
        BY <3>1 DEF ShotsCount
      <4>2. QED
        BY <1>1, <3>1, <4>1 DEF ShotGain
    <3>2. CASE ~Shoots(data[i], data[j])
      BY <1>1, <3>2 DEF ShotGain
    <3>3. QED
      BY <3>1, <3>2
  <2>2. QED
    BY <2>1 DEF CountedGain, Gain
<1>3. ASSUME NEW i \in Seats, NEW j \in Seats
      PROVE  CountedGains(data, i, j) = Gains(data, i, j)
  <2>1. (\A k \in Seats \ {i} : CountedShot(data[i], data[k])) <=> (\A k \in Seats \ {i} : Shoots(data[i], data[k]))
    BY <1>1
  <2>2. QED
    BY <1>2, <2>1 DEF CountedGains, Gains
<1>4. ASSUME NEW i \in Seats
      PROVE  [j \in Seats |-> CountedGains(data, i, j) - CountedGains(data, j, i)]
             = [j \in Seats |-> Gains(data, i, j) - Gains(data, j, i)]
  BY <1>3
<1>5. QED
  BY <1>4 DEF CountedBalance, Balance

\* calcRound computes the balance of the rules, for any cards that have a worth,
\* unless there is a shot under the default rule, which it does not count (CalcRound).
THEOREM CalcRoundByTheRules ==
  ASSUME RulesFit, NEW data \in DataType, ShotsCount(data)
  PROVE  CalcRound(data) = Balance(data)
BY CalcRoundCounts, SameBalance

-----------------------------------------------------------------------------
(*** The balances add up to nothing ***)

\* What every member of a finite set takes from every other adds up to nothing.
LEMMA Cancels ==
  ASSUME NEW S, IsFiniteSet(S), NEW a,
         \A i, j \in S : i # j => a[i][j] \in Int /\ a[j][i] = -a[i][j]
  PROVE  SumFunctionOnSet([i \in S |-> SumFunctionOnSet(a[i], S \ {i})], S) = 0
<1> DEFINE row(T) == [i \in S |-> SumFunctionOnSet(a[i], T \ {i})]
           F == {T \in SUBSET S : SumFunctionOnSet(row(T), T) = 0}
<1>1. {} \in F
  BY SumEmpty
<1>2. ASSUME NEW T \in SUBSET S, NEW k \in S, T \in F, k \notin T
      PROVE  T \union {k} \in F
  <2> DEFINE U == T \union {k}
             column == [i \in S |-> a[i][k]]
             zero == [i \in S |-> 0]
             g == row(T)
             h == row(U)
  <2>1. IsFiniteSet(T)
    BY FS_Subset
  <2>2. \A i \in T : /\ column[i] = -a[k][i] /\ a[k][i] \in Int /\ column[i] \in Int
                     /\ g[i] \in Int /\ h[i] = column[i] + g[i]
    <3> TAKE i \in T
    <3>1. i # k /\ a[i][k] \in Int /\ a[k][i] = -a[i][k] /\ column[i] = a[i][k]
      BY <1>2
    <3>2. IsFiniteSet(T \ {i}) /\ (\A j \in T \ {i} : a[i][j] \in Int) /\ k \notin T \ {i}
      BY <1>2, <2>1, FS_RemoveElement
    <3>3. SumFunctionOnSet(a[i], T \ {i}) \in Int
      BY <3>2, SumIsInt
    <3>4. SumFunctionOnSet(a[i], (T \ {i}) \union {k}) = a[i][k] + SumFunctionOnSet(a[i], T \ {i})
      BY <3>1, <3>2, SumAdds
    <3>5. (T \ {i}) \union {k} = U \ {i}
      BY <3>1
    <3>6. h[i] = a[i][k] + g[i]
      BY <3>4, <3>5
    <3>7. QED
      BY <3>1, <3>3, <3>6
  <2>3. h[k] = SumFunctionOnSet(a[k], T)
    <3>1. U \ {k} = T
      BY <1>2
    <3>2. QED
      BY <3>1
  <2>4. SumFunctionOnSet(g, T) = 0
    BY <1>2
  <2> HIDE DEF row, g, h, column
  <2>5. SumFunctionOnSet(h, T) = SumFunctionOnSet(column, T) + SumFunctionOnSet(g, T)
    BY <2>1, <2>2, SumOfSums
  <2>6. \A i \in T : column[i] \in Int /\ a[k][i] \in Int /\ zero[i] = column[i] + a[k][i]
    BY <2>2
  <2>7. SumFunctionOnSet(zero, T) = SumFunctionOnSet(column, T) + SumFunctionOnSet(a[k], T)
    <3> HIDE DEF zero
    <3> QED BY <2>1, <2>6, SumOfSums
  <2>8. SumFunctionOnSet(zero, T) = 0
    <3>1. \A i \in T : zero[i] = 0
      OBVIOUS
    <3> HIDE DEF zero
    <3>2. QED
      BY <2>1, <3>1, SumOfZeros
  <2>9. /\ SumFunctionOnSet(a[k], T) \in Int /\ SumFunctionOnSet(column, T) \in Int
        /\ \A i \in T : h[i] \in Int
    BY <2>1, <2>2, SumIsInt
  <2>10. SumFunctionOnSet(h, U) = h[k] + SumFunctionOnSet(h, T)
    BY <1>2, <2>1, <2>3, <2>9, SumAdds
  <2>11. SumFunctionOnSet(h, U) = 0
    BY <2>3, <2>4, <2>5, <2>7, <2>8, <2>9, <2>10
  <2>12. QED
    BY <1>2, <2>11 DEF h
<1>3. S \in F
  <2> HIDE DEF F
  <2>1. QED
    BY <1>1, <1>2, FiniteSetInduction
<1>4. QED
  BY <1>3

\* With the shots that count every seat has a balance, and the balances add up to
\* nothing (CalcRound).
LEMMA BalanceType ==
  ASSUME RulesFit, NEW data \in DataType
  PROVE  CountedBalance(data) \in [Seats -> Int] /\ SumFunction(CountedBalance(data)) = 0
<1> DEFINE a == [i \in Seats |-> [j \in Seats |-> Net(data, i, j)]]
<1>1. IsFiniteSet(Seats)
  BY FS_Interval DEF Seats, RulesFit
<1>2. \A i, j \in Seats : i # j => a[i][j] \in Int /\ a[j][i] = -a[i][j]
  BY NetType
<1>3. CountedBalance(data) = [i \in Seats |-> SumFunctionOnSet(a[i], Seats \ {i})]
  BY DEF CountedBalance, Net
<1> HIDE DEF a
<1>4. \A i \in Seats : SumFunctionOnSet(a[i], Seats \ {i}) \in Int
  <2> TAKE i \in Seats
  <2>1. IsFiniteSet(Seats \ {i}) /\ \A j \in Seats \ {i} : a[i][j] \in Int
    BY <1>1, <1>2, FS_RemoveElement
  <2>2. QED
    BY <2>1, SumIsInt
<1>5. SumFunctionOnSet([i \in Seats |-> SumFunctionOnSet(a[i], Seats \ {i})], Seats) = 0
  BY <1>1, <1>2, Cancels
<1>6. QED
  BY <1>3, <1>4, <1>5 DEF SumFunction

-----------------------------------------------------------------------------
(*** Sorting ***)

\* The numbers up to one are that many.
LEMMA UpTo ==
  ASSUME NEW k \in Nat
  PROVE  IsFiniteSet(1..k) /\ Cardinality(1..k) = k
<1>1. 1 \in Int /\ k \in Int
  OBVIOUS
<1>2. IsFiniteSet(1..k) /\ Cardinality(1..k) = IF 1 > k THEN 0 ELSE k - 1 + 1
  BY <1>1, FS_Interval
<1>3. QED
  BY <1>2

\* How many cards of a hand stay in front of another that is inserted
Below(r, x) == Cardinality({i \in DOMAIN r : r[i] <= x})

\* As many as the hand has, at most
LEMMA BelowBounds ==
  ASSUME NEW B, NEW r \in Seq(B), NEW x
  PROVE  Below(r, x) \in 0..Len(r)
<1> DEFINE T == {i \in DOMAIN r : r[i] <= x}
<1>1. DOMAIN r = 1..Len(r) /\ Len(r) \in Nat
  OBVIOUS
<1>2. IsFiniteSet(1..Len(r)) /\ Cardinality(1..Len(r)) = Len(r)
  BY <1>1, UpTo
<1>3. T \in SUBSET (1..Len(r))
  BY <1>1
<1>4. Below(r, x) = Cardinality(T)
  BY DEF Below
<1> HIDE DEF T
<1>5. IsFiniteSet(T) /\ Cardinality(T) <= Cardinality(1..Len(r))
  BY <1>2, <1>3, FS_Subset
<1>6. Cardinality(T) \in Nat
  BY <1>5, FS_CardinalityType
<1>7. QED
  BY <1>1, <1>2, <1>4, <1>5, <1>6

\* A sequence with one more member (Insert)
LEMMA InsertType ==
  ASSUME NEW B, NEW r \in Seq(B), NEW x \in B
  PROVE  Insert(r, x) \in Seq(B) /\ Len(Insert(r, x)) = Len(r) + 1
<1> DEFINE T == {i \in DOMAIN r : r[i] <= x}
           n == Cardinality(T)
           a == SubSeq(r, 1, n)
           b == SubSeq(r, n + 1, Len(r))
<1>1. n \in 0..Len(r)
  BY BelowBounds DEF Below
<1>2. Insert(r, x) = (a \o <<x>>) \o b
  <2>1. Insert(r, x) = SubSeq(r, 1, (n + 1) - 1) \o <<x>> \o SubSeq(r, n + 1, Len(r))
    BY DEF Insert, InsertAt
  <2>2. (n + 1) - 1 = n
    BY <1>1
  <2>3. QED
    BY <2>1, <2>2
<1> HIDE DEF n
<1>3. a \in Seq(B) /\ Len(a) = n /\ b \in Seq(B) /\ Len(b) = Len(r) - n
  BY <1>1, CutInTwo
<1> HIDE DEF a, b
<1>4. a \o <<x>> \in Seq(B) /\ Len(a \o <<x>>) = n + 1
  <2>1. <<x>> \in Seq(B) /\ Len(<<x>>) = 1
    OBVIOUS
  <2>2. QED
    BY <1>3, <2>1, ConcatProperties
<1> DEFINE c == a \o <<x>>
<1>5. c \o b \in Seq(B) /\ Len(c \o b) = (n + 1) + (Len(r) - n)
  <2>1. c \in Seq(B) /\ Len(c) = n + 1
    BY <1>4
  <2> HIDE DEF c
  <2>2. c \o b \in Seq(B) /\ Len(c \o b) = Len(c) + Len(b)
    BY <1>3, <2>1, ConcatProperties
  <2>3. QED
    BY <1>3, <2>1, <2>2
<1>6. QED
  BY <1>1, <1>2, <1>5

\* g holds the first n members of s, sorted, for each n: the function in Sorted.
SortsUp(g, s, n) == g = [k \in 0..n |-> IF k = 0 THEN << >> ELSE Insert(g[k - 1], s[k])]

\* There is such a function, although it is defined by recursion.
LEMMA SortsUpExists ==
  ASSUME NEW s, NEW n \in Nat
  PROVE  \E g : SortsUp(g, s, n)
<1> DEFINE T == {m \in Nat : \E g : SortsUp(g, s, m)}
<1>1. 0 \in T
  <2> DEFINE g == [k \in 0..0 |-> << >>]
  <2>1. SortsUp(g, s, 0)
    BY DEF SortsUp
  <2>2. QED
    BY <2>1
<1>2. ASSUME NEW m \in Nat, m \in T
      PROVE  m + 1 \in T
  <2>1. PICK g : SortsUp(g, s, m)
    BY <1>2
  <2> DEFINE h == [k \in 0..(m + 1) |-> IF k = m + 1 THEN Insert(g[m], s[m + 1]) ELSE g[k]]
  <2>2. \A k \in 0..m : h[k] = g[k]
    OBVIOUS
  <2>3. \A k \in 0..(m + 1) : h[k] = IF k = 0 THEN << >> ELSE Insert(h[k - 1], s[k])
    <3> TAKE k \in 0..(m + 1)
    <3>1. CASE k = m + 1
      <4>1. h[m] = g[m] /\ h[k] = Insert(g[m], s[m + 1]) /\ k - 1 = m /\ k # 0
        BY <3>1
      <4>2. QED
        BY <3>1, <4>1
    <3>2. CASE k \in 0..m
      <4>1. h[k] = g[k] /\ g[k] = IF k = 0 THEN << >> ELSE Insert(g[k - 1], s[k])
        BY <2>1, <2>2, <3>2 DEF SortsUp
      <4>2. k # 0 => h[k - 1] = g[k - 1]
        BY <2>2, <3>2
      <4>3. QED
        BY <4>1, <4>2
    <3>3. QED
      BY <3>1, <3>2
  <2>4. SortsUp(h, s, m + 1)
    <3>1. h = [k \in 0..(m + 1) |-> h[k]]
      OBVIOUS
    <3> HIDE DEF h
    <3>2. QED
      BY <2>3, <3>1 DEF SortsUp
  <2>5. QED
    BY <2>4
<1>3. Nat \subseteq T
  <2> HIDE DEF T
  <2>1. QED
    BY <1>1, <1>2, NatSetInduction
<1>4. QED
  BY <1>3

\* Sorting keeps the length, and makes up no values (std::sort, Sorted).
LEMMA SortedType ==
  ASSUME NEW B, NEW s \in Seq(B)
  PROVE  Sorted(s) \in Seq(B) /\ Len(Sorted(s)) = Len(s)
<1> DEFINE first == CHOOSE g : SortsUp(g, s, Len(s))
           T == {m \in Nat : m <= Len(s) => first[m] \in Seq(B) /\ Len(first[m]) = m}
<1>1. SortsUp(first, s, Len(s))
  BY SortsUpExists
<1>2. Sorted(s) = first[Len(s)]
  BY DEF Sorted, SortsUp
<1> HIDE DEF first
<1>3. 0 \in T
  BY <1>1 DEF SortsUp
<1>4. ASSUME NEW m \in Nat, m \in T
      PROVE  m + 1 \in T
  <2> SUFFICES ASSUME m + 1 <= Len(s)
               PROVE  first[m + 1] \in Seq(B) /\ Len(first[m + 1]) = m + 1
    OBVIOUS
  <2>1. first[m] \in Seq(B) /\ Len(first[m]) = m
    BY <1>4
  <2>2. first[m + 1] = Insert(first[m], s[m + 1])
    BY <1>1 DEF SortsUp
  <2>3. s[m + 1] \in B
    OBVIOUS
  <2>4. Insert(first[m], s[m + 1]) \in Seq(B) /\ Len(Insert(first[m], s[m + 1])) = Len(first[m]) + 1
    BY <2>1, <2>3, InsertType
  <2>5. QED
    BY <2>1, <2>2, <2>4
<1>5. Nat \subseteq T
  <2> HIDE DEF T
  <2>1. QED
    BY <1>3, <1>4, NatSetInduction
<1>6. Len(s) \in Nat
  OBVIOUS
<1>7. QED
  BY <1>2, <1>5, <1>6

-----------------------------------------------------------------------------
(*** What a dun is worth, without ghosts ***)

\* A set of numbers with a bound has a greatest member.
LEMMA MaxIsGreatest ==
  ASSUME NEW T \in SUBSET Nat, T # {}, NEW n \in Nat, \A x \in T : x <= n
  PROVE  Max(T) \in T /\ \A x \in T : Max(T) >= x
<1> DEFINE D == {n - x : x \in T}
<1>1. D \in SUBSET Nat /\ D # {}
  <2>1. \A x \in T : n - x \in Nat
    OBVIOUS
  <2>2. QED
    BY <2>1
<1>2. PICK d \in D : \A y \in D : d <= y
  <2> HIDE DEF D
  <2> QED BY <1>1, LeastNat
<1>3. PICK x \in T : d = n - x
  OBVIOUS
<1>4. \A y \in T : x >= y
  <2> TAKE y \in T
  <2>1. n - y \in D
    OBVIOUS
  <2>2. n - x <= n - y
    BY <1>2, <1>3, <2>1
  <2>3. QED
    BY <2>2
<1>5. QED
  BY <1>4 DEF Max

\* Deck::rank
RankType == 0..12

\* There is a rank for each card (Ranks).
LEMMA RanksType ==
  ASSUME NEW c \in Seq(Nat)
  PROVE  Ranks(c) \in Seq(RankType) /\ Len(Ranks(c)) = Len(c)
<1> DEFINE s == [i \in DOMAIN c |-> Rank(c[i])]
<1>1. s \in Seq(RankType) /\ Len(s) = Len(c)
  <2>1. \A i \in DOMAIN c : Rank(c[i]) \in RankType
    <3>1. \A m \in Nat : (m - 1) % 13 \in 0..12
      OBVIOUS
    <3>2. \A i \in DOMAIN c : c[i] \in Nat
      OBVIOUS
    <3>3. QED
      BY <3>1, <3>2 DEF Rank, RankType
  <2>2. s = [i \in 1..Len(c) |-> Rank(c[i])] /\ Len(c) \in Nat
    OBVIOUS
  <2>3. QED
    BY <2>1, <2>2
<1> HIDE DEF s
<1>2. Sorted(s) \in Seq(RankType) /\ Len(Sorted(s)) = Len(s)
  BY <1>1, SortedType
<1>3. QED
  BY <1>1, <1>2 DEF Ranks, s

\* A sequence with one member less
LEMMA RemoveAtType ==
  ASSUME NEW B, NEW r \in Seq(B), NEW i \in 1..Len(r)
  PROVE  RemoveAt(r, i) \in Seq(B) /\ Len(RemoveAt(r, i)) = Len(r) - 1
<1> DEFINE a == SubSeq(r, 1, i - 1)
           b == SubSeq(r, i + 1, Len(r))
<1>1. a \in Seq(B) /\ Len(a) = i - 1
  <2>1. i - 1 \in 0..Len(r)
    OBVIOUS
  <2>2. QED
    BY <2>1, CutInTwo
<1>2. b \in Seq(B) /\ Len(b) = Len(r) - i
  <2>1. i \in 0..Len(r)
    OBVIOUS
  <2>2. QED
    BY <2>1, CutInTwo
<1>3. RemoveAt(r, i) = a \o b
  BY DEF RemoveAt
<1> HIDE DEF a, b
<1>4. a \o b \in Seq(B) /\ Len(a \o b) = Len(a) + Len(b)
  BY <1>1, <1>2, ConcatProperties
<1>5. QED
  BY <1>1, <1>2, <1>3, <1>4

\* The weight of up to five ranks is a number (Weigh).
LEMMA WeighIsInt ==
  ASSUME NEW r \in Seq(RankType), Len(r) <= 5, NEW add \in Int
  PROVE  Weigh(r, add) \in Int
<1> DEFINE f == [i \in DOMAIN r |-> (r[i] + add) * Pow[i]]
<1>1. IsFiniteSet(DOMAIN r)
  BY FS_Interval
<1>2. \A i \in DOMAIN r : f[i] \in Int
  <2> TAKE i \in DOMAIN r
  <2>1. i \in 1..7
    OBVIOUS
  <2>2. Pow[i] \in Int
    BY <2>1 DEF Pow
  <2>3. r[i] + add \in Int
    BY DEF RankType
  <2>4. (r[i] + add) * Pow[i] \in Int
    <3>1. \A x, y \in Int : x * y \in Int
      OBVIOUS
    <3> QED BY <2>2, <2>3, <3>1
  <2>5. QED
    BY <2>4
<1>3. DOMAIN f = DOMAIN r
  OBVIOUS
<1>4. Weigh(r, add) = SumFunctionOnSet(f, DOMAIN r)
  BY <1>3 DEF Weigh, SumFunction
<1> HIDE DEF f
<1>5. QED
  BY <1>1, <1>2, <1>4, SumIsInt

\* Each rank of a sequence of ranks is one.
LEMMA RankIs ==
  ASSUME NEW r \in Seq(RankType)
  PROVE  \A i \in 1..Len(r) : r[i] \in 0..12
BY DEF RankType

\* The weight of three or five ranks is a number.
LEMMA WeighShort ==
  ASSUME NEW r \in Seq(RankType), Len(r) = 3 \/ Len(r) = 5, NEW add \in Int
  PROVE  Weigh(r, add) \in Int
<1>1. CASE Len(r) = 3
  <2>1. Len(r) <= 5
    BY <1>1
  <2>2. QED
    BY <2>1, WeighIsInt
<1>2. CASE Len(r) = 5
  <2>1. Len(r) <= 5
    BY <1>2
  <2>2. QED
    BY <2>1, WeighIsInt
<1>3. QED
  BY <1>1, <1>2

\* Products of numbers are numbers.
LEMMA ProductIsInt == \A x, y \in Int : x * y \in Int
OBVIOUS

\* So are the powers of 14 that the points are made with.
LEMMA PowersAreInt == 14^3 \in Int /\ 14^5 \in Int /\ 14^6 \in Int
OBVIOUS

\* The first and the last pair, where there is one (PairEnds)
LEMMA PairEndsType ==
  ASSUME NEW r \in Seq(RankType), PairEnds(r) # {}
  PROVE  Min(PairEnds(r)) \in 2..Len(r) /\ Max(PairEnds(r)) \in 2..Len(r)
<1>1. PairEnds(r) \subseteq 2..Len(r) /\ Len(r) \in Nat
  BY DEF PairEnds
<1>2. PairEnds(r) \in SUBSET Nat /\ \A x \in PairEnds(r) : x <= Len(r)
  BY <1>1
<1>3. QED
  BY <1>1, <1>2, MinIsLeast, MaxIsGreatest

\* The brand and the point of five cards
LEMMA InfoOfFiveType ==
  ASSUME NEW r \in Seq(RankType), Len(r) = 5, NEW oneSuit
  PROVE  RankedInfo5(r, oneSuit) \in InfoType
<1> DEFINE T == {n \in 0..9 : FitsFive(n, r, oneSuit)}
           b == Max(T)
<1>1. b \in 0..9
  <2>1. FitsFive(0, r, oneSuit)
    BY DEF FitsFive, Brand
  <2>2. T \in SUBSET Nat /\ 0 \in T /\ \A x \in T : x <= 9
    BY <2>1
  <2>3. T \subseteq 0..9
    OBVIOUS
  <2> HIDE DEF T
  <2>4. Max(T) \in T
    BY <2>2, MaxIsGreatest
  <2>5. QED
    BY <2>3, <2>4
<1>2. r[1] \in 0..12 /\ r[2] \in 0..12 /\ r[3] \in 0..12 /\ r[4] \in 0..12 /\ r[5] \in 0..12
  <2>1. \A i \in 1..5 : r[i] \in 0..12
    BY RankIs
  <2>2. QED
    BY <2>1
<1>3. StraightPoint(r) \in Int
  BY <1>2 DEF StraightPoint
<1>4. PairsPoint(r) \in Int
  <2>1. CASE Singles(r) # {}
    <3>1. Singles(r) \in SUBSET Nat /\ Singles(r) \subseteq {1, 3, 5} /\ \A x \in Singles(r) : x <= 5
      BY DEF Singles
    <3>2. Max(Singles(r)) \in {1, 3, 5}
      BY <2>1, <3>1, MaxIsGreatest
    <3>3. r[Max(Singles(r))] \in 0..12
      BY <1>2, <3>2
    <3>4. PairsPoint(r) = (r[4] + 1) * 14^6 + (r[2] + 1) * 14^5 + r[Max(Singles(r))] + 1
      BY <2>1 DEF PairsPoint
    <3> DEFINE k5 == 14^5
               k6 == 14^6
               x == r[Max(Singles(r))]
    <3>5. k5 \in Int /\ k6 \in Int
      BY PowersAreInt
    <3>6. PairsPoint(r) = (r[4] + 1) * k6 + (r[2] + 1) * k5 + x + 1
      BY <3>4
    <3> HIDE DEF k5, k6, x
    <3>7. r[4] + 1 \in Int /\ r[2] + 1 \in Int
      BY <1>2
    <3>8. (r[4] + 1) * k6 \in Int /\ (r[2] + 1) * k5 \in Int
      BY <3>5, <3>7, ProductIsInt
    <3>9. x \in Int
      BY <3>3 DEF x
    <3>10. QED
      BY <3>6, <3>8, <3>9
  <2>2. CASE Singles(r) = {} /\ PairEnds(r) # {}
    <3> DEFINE i == Min(PairEnds(r))
               q == RemoveAt(RemoveAt(r, i), i - 1)
    <3>1. i \in 2..5
      BY <2>2, PairEndsType
    <3> HIDE DEF i
    <3>2. RemoveAt(r, i) \in Seq(RankType) /\ Len(RemoveAt(r, i)) = 4
      <4>1. i \in 1..Len(r)
        BY <3>1
      <4>2. RemoveAt(r, i) \in Seq(RankType) /\ Len(RemoveAt(r, i)) = Len(r) - 1
        BY <4>1, RemoveAtType
      <4>3. QED
        BY <4>2
    <3>3. q \in Seq(RankType) /\ Len(q) = 3
      <4>1. i - 1 \in 1..Len(RemoveAt(r, i))
        BY <3>1, <3>2
      <4>2. q \in Seq(RankType) /\ Len(q) = Len(RemoveAt(r, i)) - 1
        BY <3>2, <4>1, RemoveAtType
      <4>3. QED
        BY <3>2, <4>2
    <3>4. Weigh(q, 1) \in Int
      BY <3>3, WeighShort
    <3>5. r[i] \in 0..12
      BY <1>2, <3>1
    <3>6. PairsPoint(r) = (r[i] + 1) * 14^5 + Weigh(q, 1)
      BY <2>2 DEF PairsPoint, OnePairPoint, i
    <3> DEFINE k5 == 14^5
               w == Weigh(q, 1)
    <3>7. k5 \in Int /\ w \in Int /\ PairsPoint(r) = (r[i] + 1) * k5 + w
      BY <3>4, <3>6, PowersAreInt
    <3> HIDE DEF k5, w
    <3>8. r[i] + 1 \in Int
      BY <3>5
    <3>9. (r[i] + 1) * k5 \in Int
      BY <3>7, <3>8, ProductIsInt
    <3>10. QED
      BY <3>7, <3>9
  <2>3. CASE Singles(r) = {} /\ PairEnds(r) = {}
    <3>1. PairsPoint(r) = Weigh(r, 1)
      BY <2>3 DEF PairsPoint
    <3>2. QED
      BY <3>1, WeighShort
  <2>4. QED
    BY <2>1, <2>2, <2>3
<1>5. InfoOfFive(b, r) \in InfoType
  <2> HIDE DEF b
  <2>1. QED
    BY <1>1, <1>2, <1>3, <1>4 DEF InfoOfFive, InfoType
<1>6. QED
  BY <1>5 DEF RankedInfo5

\* Of three cards
LEMMA InfoOfThreeType ==
  ASSUME NEW r \in Seq(RankType), Len(r) = 3
  PROVE  RankedInfo3(r) \in InfoType
<1>1. r[1] \in 0..12 /\ r[2] \in 0..12 /\ r[3] \in 0..12
  <2>1. \A i \in 1..3 : r[i] \in 0..12
    BY RankIs
  <2>2. QED
    BY <2>1
<1>2. Weigh(r, 2) \in Int
  BY WeighShort
<1> DEFINE k3 == 14^3
           x == IF r[1] = r[2] THEN r[3] ELSE r[1]
           w == Weigh(r, 2)
<1>3. /\ k3 \in Int /\ x \in 0..12 /\ w \in Int
      /\ RankedInfo3(r) =
           IF r[1] = r[3] THEN [b |-> 3, isGhost |-> FALSE, point |-> r[3] + 2]
           ELSE IF PairEnds(r) # {} THEN [b |-> 1, isGhost |-> FALSE, point |-> (r[2] + 2) * k3 + x + 2]
           ELSE [b |-> 0, isGhost |-> FALSE, point |-> w]
  BY <1>1, <1>2, PowersAreInt DEF RankedInfo3, Brand
<1> HIDE DEF k3, x, w
<1>4. (r[2] + 2) * k3 \in Int /\ r[2] + 2 \in Int
  <2>1. r[2] + 2 \in Int
    BY <1>1
  <2>2. QED
    BY <1>3, <2>1, ProductIsInt
<1>5. QED
  <2> DEFINE p == (r[2] + 2) * k3
             q == p + x + 2
  <2>1. p \in Int
    BY <1>4
  <2> HIDE DEF p
  <2>2. q \in Int /\ r[3] + 2 \in Int
    BY <1>1, <1>3, <2>1
  <2>3. RankedInfo3(r) \in {[b |-> 3, isGhost |-> FALSE, point |-> r[3] + 2],
                            [b |-> 1, isGhost |-> FALSE, point |-> q],
                            [b |-> 0, isGhost |-> FALSE, point |-> w]}
    BY <1>3 DEF p
  <2> HIDE DEF q
  <2>4. QED
    BY <1>3, <2>2, <2>3 DEF InfoType

\* Of three cards with ghosts
LEMMA GhostOfThreeType ==
  ASSUME NEW r \in Seq(RankType), Len(r) <= 2
  PROVE  GhostRanked3(r) \in InfoType
<1>1. CASE Len(r) = 2 /\ r[1] # r[2]
  <2>1. r[1] \in 0..12 /\ r[2] \in 0..12
    <3>1. \A i \in 1..2 : r[i] \in 0..12
      BY <1>1, RankIs
    <3>2. QED
      BY <3>1
  <2> DEFINE k3 == 14^3
  <2>2. k3 \in Int /\ GhostRanked3(r) = [b |-> 1, isGhost |-> TRUE, point |-> (r[2] + 2) * k3 + r[1] + 2]
    BY <1>1, PowersAreInt DEF GhostRanked3, Brand
  <2> HIDE DEF k3
  <2>3. (r[2] + 2) * k3 \in Int
    <3>1. r[2] + 2 \in Int
      BY <2>1
    <3>2. QED
      BY <2>2, <3>1, ProductIsInt
  <2>4. QED
    <3> DEFINE p == (r[2] + 2) * k3
               x == r[1]
               q == p + x + 2
    <3>1. q \in Int
      <4>1. p \in Int /\ x \in Int
        BY <2>1, <2>3
      <4> HIDE DEF p, x
      <4>2. QED
        BY <4>1
    <3>2. GhostRanked3(r) = [b |-> 1, isGhost |-> TRUE, point |-> q]
      BY <2>2
    <3> HIDE DEF q
    <3>3. QED
      BY <3>1, <3>2 DEF InfoType
<1>2. CASE ~(Len(r) = 2 /\ r[1] # r[2])
  <2>1. GhostRanked3(r) = [b |-> 3, isGhost |-> TRUE, point |-> (IF r = << >> THEN Ace ELSE Last(r)) + 2]
    BY <1>2 DEF GhostRanked3, Brand
  <2>2. r # << >> => Last(r) \in 0..12
    <3>1. r # << >> => Len(r) \in 1..Len(r)
      OBVIOUS
    <3>2. QED
      BY <3>1, RankIs DEF Last
  <2>3. QED
    BY <2>1, <2>2 DEF InfoType, Ace
<1>3. QED
  BY <1>1, <1>2

-----------------------------------------------------------------------------
(*** Straights with ghosts ***)

\* There are ghosts enough for the gap before a rank.
FillsGap(r, i, ghosts) == r[i + 1] - r[i] - 1 # 0 /\ r[i + 1] - r[i] - 1 <= ghosts

\* The ghosts that are left after each gap
LeftsUp(g, r) ==
  g = [i \in 0..3 |->
         IF i = 0 THEN 5 - Len(r)
         ELSE IF FillsGap(r, i, g[i - 1]) THEN g[i - 1] - (r[i + 1] - r[i] - 1) ELSE g[i - 1]]

\* There are such functions, up to five cards.
LEMMA LeftsUpExists ==
  ASSUME NEW r
  PROVE  \E g : LeftsUp(g, r)
<1> DEFINE Step(i, n) == IF FillsGap(r, i, n) THEN n - (r[i + 1] - r[i] - 1) ELSE n
           a == 5 - Len(r)
           b == Step(1, a)
           c == Step(2, b)
           d == Step(3, c)
           g == [i \in 0..3 |-> CASE i = 0 -> a [] i = 1 -> b [] i = 2 -> c [] OTHER -> d]
<1>1. g[0] = a /\ g[1] = b /\ g[2] = c /\ g[3] = d
  <2> HIDE DEF a, b, c, d
  <2>1. QED
    OBVIOUS
<1>2. g[1] = Step(1, g[0]) /\ g[2] = Step(2, g[1]) /\ g[3] = Step(3, g[2])
  BY <1>1
<1>3. g = [i \in 0..3 |-> g[i]]
  OBVIOUS
<1> HIDE DEF g
<1>4. \A i \in 0..3 : g[i] = IF i = 0 THEN a ELSE Step(i, g[i - 1])
  <2> HIDE DEF a, Step
  <2> TAKE i \in 0..3
  <2>1. CASE i = 0
    BY <1>1, <2>1
  <2>2. CASE i = 1
    BY <1>2, <2>2
  <2>3. CASE i = 2
    BY <1>2, <2>3
  <2>4. CASE i = 3
    BY <1>2, <2>4
  <2>5. QED
    BY <2>1, <2>2, <2>3, <2>4
<1>5. LeftsUp(g, r)
  BY <1>3, <1>4, Zenon DEF LeftsUp
<1>6. QED
  BY <1>5

\* Filling the gaps gives an answer and a number of ghosts (FillGaps).
LEMMA FillGapsType ==
  ASSUME NEW r \in Seq(RankType), Len(r) \in 1..4
  PROVE  FillGaps(r).straight \in BOOLEAN /\ FillGaps(r).ghosts \in Int
<1> DEFINE g == CHOOSE h : LeftsUp(h, r)
<1>1. LeftsUp(g, r)
  BY LeftsUpExists
<1>2. FillGaps(r) = [straight |-> \A i \in 1..(Len(r) - 1) : FillsGap(r, i, g[i - 1]),
                     ghosts   |-> g[Len(r) - 1]]
  BY DEF FillGaps, LeftsUp, FillsGap
<1> HIDE DEF g
<1>3. \A i \in 1..Len(r) : r[i] \in Int
  BY RankIs
<1>4. g[0] \in Int /\ \A i \in 1..3 : g[i] = IF FillsGap(r, i, g[i - 1]) THEN g[i - 1] - (r[i + 1] - r[i] - 1)
                                             ELSE g[i - 1]
  <2>1. g[0] = 5 - Len(r)
    BY <1>1 DEF LeftsUp
  <2>2. \A i \in 1..3 : g[i] = IF FillsGap(r, i, g[i - 1]) THEN g[i - 1] - (r[i + 1] - r[i] - 1)
                                             ELSE g[i - 1]
    BY <1>1 DEF LeftsUp
  <2>3. QED
    BY <2>1, <2>2
<1>5. ASSUME NEW i \in 1..3, g[i - 1] \in Int, i + 1 <= Len(r)
      PROVE  g[i] \in Int
  <2>1. r[i + 1] \in Int /\ r[i] \in Int
    <3>1. i \in 1..Len(r) /\ i + 1 \in 1..Len(r)
      BY <1>5
    <3>2. QED
      BY <1>3, <3>1
  <2>2. g[i] = g[i - 1] \/ g[i] = g[i - 1] - (r[i + 1] - r[i] - 1)
    BY <1>4
  <2>3. QED
    BY <1>5, <2>1, <2>2
<1>6. g[Len(r) - 1] \in Int
  <2>1. CASE Len(r) = 1
    BY <1>4, <2>1
  <2>2. Len(r) >= 2 => g[1] \in Int
    <3>1. g[1 - 1] \in Int /\ 1 \in 1..3
      BY <1>4
    <3>2. QED
      BY <1>5, <3>1
  <2>3. Len(r) >= 3 => g[2] \in Int
    <3>1. Len(r) >= 3 => g[2 - 1] \in Int /\ 2 \in 1..3 /\ 2 + 1 <= Len(r)
      BY <2>2
    <3>2. QED
      BY <1>5, <3>1
  <2>4. Len(r) >= 4 => g[3] \in Int
    <3>1. Len(r) >= 4 => g[3 - 1] \in Int /\ 3 \in 1..3 /\ 3 + 1 <= Len(r)
      BY <2>3
    <3>2. QED
      BY <1>5, <3>1
  <2>5. Len(r) = 1 \/ Len(r) = 2 \/ Len(r) = 3 \/ Len(r) = 4
    OBVIOUS
  <2>6. CASE Len(r) = 2
    <3>1. Len(r) - 1 = 1 /\ g[1] \in Int
      BY <2>2, <2>6
    <3>2. QED
      BY <3>1
  <2>7. CASE Len(r) = 3
    <3>1. Len(r) - 1 = 2 /\ g[2] \in Int
      BY <2>3, <2>7
    <3>2. QED
      BY <3>1
  <2>8. CASE Len(r) = 4
    <3>1. Len(r) - 1 = 3 /\ g[3] \in Int
      BY <2>4, <2>8
    <3>2. QED
      BY <3>1
  <2>9. QED
    BY <2>1, <2>5, <2>6, <2>7, <2>8
<1>7. QED
  BY <1>2, <1>6

\* So does the scan for straights of ghostInfo5 (GhostScan).
LEMMA GhostScanType ==
  ASSUME NEW r \in Seq(RankType), Len(r) \in 1..4
  PROVE  /\ GhostScan(r).straight \in BOOLEAN
         /\ GhostScan(r).point \in Int /\ GhostScan(r).ghosts \in Int
<1> DEFINE f == FillGaps(r)
           top == Min({Ace, Last(r) + f.ghosts})
<1>1. f.straight \in BOOLEAN /\ f.ghosts \in Int
  BY FillGapsType
<1>2. Last(r) \in Int
  BY RankIs DEF Last
<1> HIDE DEF f
<1>3. top \in Int
  <2> DEFINE n == Last(r) + f.ghosts
  <2>1. n \in Int
    BY <1>1, <1>2
  <2> HIDE DEF n
  <2>2. Min({12, n}) \in {12, n}
    BY <2>1 DEF Min
  <2>3. QED
    BY <2>1, <2>2 DEF Ace, n
<1> HIDE DEF top
<1>4. GhostScan(r) = Lengthened(r, f, top)
  BY DEF GhostScan, Filled, f, top
<1>5. QED
  BY <1>1, <1>2, <1>3, <1>4 DEF Lengthened, Short

-----------------------------------------------------------------------------
(*** What a dun is worth ***)

\* The point of two pairs is a number (TwoPairsPoint).
LEMMA TwoPairsPointType ==
  ASSUME NEW x \in Int, NEW y \in Int, NEW z \in Int
  PROVE  TwoPairsPoint(x, y, z) \in Int
<1> DEFINE k5 == 14^5
           k6 == 14^6
<1>1. k5 \in Int /\ k6 \in Int /\ TwoPairsPoint(x, y, z) = (x + 1) * k6 + (y + 1) * k5 + z + 1
  BY PowersAreInt DEF TwoPairsPoint
<1> HIDE DEF k5, k6
<1>2. (x + 1) * k6 \in Int /\ (y + 1) * k5 \in Int
  BY <1>1
<1>3. QED
  BY <1>1, <1>2

\* So is the point of a flush with ghosts (GhostFlushPoint).
LEMMA GhostFlushPointType ==
  ASSUME NEW r \in Seq(RankType), NEW n \in {3, 4}, Len(r) = n, NEW left
  PROVE  GhostFlushPoint(n, r, left) \in Int
<1>1. \A i \in 1..n : r[i] \in Int
  BY RankIs
<1>2. r[1] \in Int /\ r[2] \in Int /\ r[n] \in Int /\ r[n - 1] \in Int
  <2>1. 1 \in 1..n /\ 2 \in 1..n /\ n \in 1..n /\ n - 1 \in 1..n
    OBVIOUS
  <2>2. QED
    BY <1>1, <2>1
<1>3. CASE left = 2
  BY <1>2, <1>3, TwoPairsPointType DEF GhostFlushPoint
<1>4. CASE left # 2 /\ left = 1 /\ PairEnds(r) # {}
  <2>1. Max(PairEnds(r)) \in 2..n
    BY <1>4, PairEndsType
  <2>2. r[Max(PairEnds(r))] \in Int
    BY <1>1, <2>1
  <2> DEFINE y == r[Max(PairEnds(r))]
             z == IF Max(PairEnds(r)) = n - 1 THEN r[1] ELSE r[n - 1]
  <2>3. y \in Int /\ z \in Int
    BY <1>2, <2>2
  <2>4. GhostFlushPoint(n, r, left) =
          IF r[n] = r[n - 1] THEN TwoPairsPoint(r[n], r[2], r[1]) ELSE TwoPairsPoint(r[n], y, z)
    BY <1>4 DEF GhostFlushPoint
  <2> HIDE DEF y, z
  <2>5. TwoPairsPoint(r[n], r[2], r[1]) \in Int /\ TwoPairsPoint(r[n], y, z) \in Int
    BY <1>2, <2>3, TwoPairsPointType
  <2>6. QED
    BY <2>4, <2>5
<1>5. CASE left # 2 /\ ~(left = 1 /\ PairEnds(r) # {})
  <2> DEFINE q == SubSeq(r, 1, 3)
             k5 == 14^5
  <2>1. q \in Seq(RankType) /\ Len(q) = 3
    <3>1. 3 \in 0..Len(r)
      OBVIOUS
    <3>2. QED
      BY <3>1, CutInTwo
  <2>2. GhostFlushPoint(n, r, left) = (r[n] + 1) * k5 + Weigh(q, 1)
    BY <1>5 DEF GhostFlushPoint
  <2>3. k5 \in Int
    BY PowersAreInt
  <2> HIDE DEF q, k5
  <2>4. Weigh(q, 1) \in Int
    BY <2>1, WeighShort
  <2>5. (r[n] + 1) * k5 \in Int
    BY <1>2, <2>3
  <2>6. QED
    BY <2>2, <2>4, <2>5
<1>6. QED
  BY <1>3, <1>4, <1>5

\* What is left of five cards without their ghosts, one card at least
LEMMA GhostOfFiveType ==
  ASSUME NEW r \in Seq(RankType), NEW n \in 1..4, Len(r) = n, NEW oneSuit
  PROVE  GhostRanked5(n, r, oneSuit, GhostScan(r)) \in InfoType
<1> DEFINE scan == GhostScan(r)
           T == {b \in 0..9 : GhostFits(b, n, r, oneSuit, scan)}
           b == Max(T)
<1>1. scan.point \in Int
  BY GhostScanType
<1>2. \A i \in 1..n : r[i] \in Int
  BY RankIs
<1> HIDE DEF scan
<1>3. b \in T /\ (\A x \in T : x <= b) /\ T \subseteq 0..9
  <2>1. GhostFits(1, n, r, oneSuit, scan)
    BY DEF GhostFits, Brand
  <2>2. T \in SUBSET Nat /\ 1 \in T /\ \A x \in T : x <= 9
    BY <2>1
  <2>3. T \subseteq 0..9
    OBVIOUS
  <2> HIDE DEF T
  <2>4. Max(T) \in T /\ \A x \in T : Max(T) >= x
    BY <2>2, MaxIsGreatest
  <2>5. QED
    BY <2>2, <2>3, <2>4
<1> HIDE DEF b
<1>4. b \in 0..9 /\ GhostFits(b, n, r, oneSuit, scan)
  BY <1>3
<1>5. n = 1 => b = 9
  <2>1. n = 1 => GhostFits(9, n, r, oneSuit, scan)
    BY DEF GhostFits, Brand
  <2>2. n = 1 => 9 \in T
    BY <2>1
  <2> HIDE DEF T
  <2>3. QED
    BY <1>3, <1>4, <2>2
<1>6. n = 2 => b >= 7
  <2>1. n = 2 => GhostFits(7, n, r, oneSuit, scan)
    BY DEF GhostFits, Brand
  <2>2. n = 2 => 7 \in T
    BY <2>1
  <2> HIDE DEF T
  <2>3. QED
    BY <1>3, <1>4, <2>2
<1> DEFINE point == GhostInfoOfFive(b, n, r, scan).point
<1>7. r[n] \in Int
  BY <1>2
<1>8. ASSUME b \in {8, 4}
      PROVE  point \in Int
  <2>1. point = scan.point
    BY <1>8 DEF GhostInfoOfFive, Brand
  <2>2. QED
    BY <1>1, <2>1
<1>9. ASSUME b = 7
      PROVE  point \in Int
  <2>1. n - 1 \in 1..n
    BY <1>5, <1>9
  <2>2. r[n - 1] \in Int
    BY <1>2, <2>1
  <2>3. point = (IF n = 2 \/ r[2] = r[n] THEN r[n] ELSE r[n - 1]) + 1
    BY <1>9 DEF GhostInfoOfFive, Brand
  <2>4. QED
    BY <1>7, <2>2, <2>3
<1>10. ASSUME b = 5
      PROVE  point \in Int
  <2>1. n \in {3, 4}
    BY <1>5, <1>6, <1>10
  <2>2. point = GhostFlushPoint(n, r, scan.ghosts)
    BY <1>10 DEF GhostInfoOfFive, Brand
  <2>3. QED
    BY <2>1, <2>2, GhostFlushPointType
<1>11. ASSUME b = 3
      PROVE  point \in Int
  <2>1. scan.ghosts = 2 \/ PairEnds(r) # {}
    BY <1>4, <1>11 DEF GhostFits, Brand
  <2>2. PairEnds(r) # {} => r[Max(PairEnds(r))] \in Int
    <3>1. PairEnds(r) # {} => Max(PairEnds(r)) \in 2..n
      BY PairEndsType
    <3>2. QED
      BY <1>2, <3>1
  <2>3. point = (IF scan.ghosts = 2 THEN r[n] ELSE r[Max(PairEnds(r))]) + 1
    BY <1>11 DEF GhostInfoOfFive, Brand
  <2>4. QED
    BY <1>7, <2>1, <2>2, <2>3
<1>12. ASSUME b = 1
      PROVE  point \in Int
  <2>1. point = IF scan.ghosts = 1 THEN r[n] + 1 ELSE 0
    BY <1>12 DEF GhostInfoOfFive, Brand
  <2>2. QED
    BY <1>7, <2>1
<1>13. ASSUME b \notin {8, 4, 7, 5, 3, 1}
      PROVE  point \in Int
  <2>1. point = r[n] + 1
    BY <1>13 DEF GhostInfoOfFive, Brand
  <2>2. QED
    BY <1>7, <2>1
<1>14. point \in Int
  BY <1>8, <1>9, <1>10, <1>11, <1>12, <1>13
<1>15. GhostInfoOfFive(b, n, r, scan) = [b |-> b, isGhost |-> TRUE, point |-> point]
  BY DEF GhostInfoOfFive
<1> HIDE DEF point
<1>16. GhostInfoOfFive(b, n, r, scan) \in InfoType
  BY <1>4, <1>14, <1>15 DEF InfoType
<1>17. QED
  BY <1>16 DEF GhostRanked5, scan, b

\* The cards that are no ghosts; some are left unless all were ghosts (Plain).
LEMMA PlainType ==
  ASSUME NEW c \in Seq(Nat)
  PROVE  /\ Plain(c) \in Seq(Nat) /\ Len(Plain(c)) <= Len(c)
         /\ (\E i \in DOMAIN c : ~IsGhost(c[i])) => Len(Plain(c)) # 0
<1> DEFINE T == {i \in DOMAIN c : ~IsGhost(c[i])}
           n == Cardinality(T)
<1>1. n \in 0..Len(c) /\ (T # {} => n # 0)
  <2>1. DOMAIN c = 1..Len(c) /\ Len(c) \in Nat
    OBVIOUS
  <2>2. IsFiniteSet(1..Len(c)) /\ Cardinality(1..Len(c)) = Len(c)
    BY <2>1, UpTo
  <2>3. T \in SUBSET (1..Len(c))
    BY <2>1
  <2> HIDE DEF T
  <2>4. IsFiniteSet(T) /\ Cardinality(T) <= Cardinality(1..Len(c))
    BY <2>2, <2>3, FS_Subset
  <2>5. Cardinality(T) \in Nat /\ (Cardinality(T) = 0 <=> T = {})
    BY <2>4, FS_CardinalityType, FS_EmptySet
  <2>6. QED
    BY <2>1, <2>2, <2>4, <2>5
<1>2. (\E i \in DOMAIN c : ~IsGhost(c[i])) => T # {}
  OBVIOUS
<1>3. Sorted(c) \in Seq(Nat) /\ Len(Sorted(c)) = Len(c)
  BY SortedType
<1> HIDE DEF T
<1>4. Plain(c) = SubSeq(Sorted(c), 1, n)
  BY DEF Plain, T
<1> HIDE DEF n
<1>5. SubSeq(Sorted(c), 1, n) \in Seq(Nat) /\ Len(SubSeq(Sorted(c), 1, n)) = n
  BY <1>1, <1>3, CutInTwo
<1>6. QED
  BY <1>1, <1>2, <1>4, <1>5

\* What a dun is worth is a brand and a number, unless it is five ghosts.
LEMMA BrandInfoType ==
  ASSUME NEW c \in Seq(Nat),
         Len(c) = 3 \/ (Len(c) = 5 /\ \E i \in DOMAIN c : ~IsGhost(c[i]))
  PROVE  BrandInfo(c) \in InfoType
<1> DEFINE p == Plain(c)
<1>1. p \in Seq(Nat) /\ Len(p) <= Len(c) /\ Len(p) \in Nat
  BY PlainType
<1>2. BrandInfo(c) = InfoOf(c, p)
  BY DEF BrandInfo
<1>3. Len(c) = 5 => Len(p) # 0
  <2>1. Len(c) = 5 => \E i \in DOMAIN c : ~IsGhost(c[i])
    OBVIOUS
  <2>2. QED
    BY <2>1, PlainType
<1> HIDE DEF p
<1>4. /\ Ranks(c) \in Seq(RankType) /\ Len(Ranks(c)) = Len(c)
      /\ Ranks(p) \in Seq(RankType) /\ Len(Ranks(p)) = Len(p)
  BY <1>1, RanksType
<1>5. CASE Len(c) = 3 /\ Len(p) = 3
  <2>1. BrandInfo(c) = RankedInfo3(Ranks(c))
    BY <1>2, <1>5 DEF InfoOf, BrandInfo3
  <2>2. QED
    BY <1>4, <1>5, <2>1, InfoOfThreeType
<1>6. CASE Len(c) = 3 /\ Len(p) # 3
  <2>1. BrandInfo(c) = GhostRanked3(Ranks(p))
    BY <1>2, <1>6 DEF InfoOf, GhostInfo3
  <2>2. Len(Ranks(p)) <= 2
    BY <1>1, <1>4, <1>6
  <2>3. QED
    BY <1>4, <2>1, <2>2, GhostOfThreeType
<1>7. CASE Len(c) = 5 /\ Len(p) = 5
  <2>1. BrandInfo(c) = RankedInfo5(Ranks(c), OneSuit(c))
    BY <1>2, <1>7 DEF InfoOf, BrandInfo5
  <2>2. QED
    BY <1>4, <1>7, <2>1, InfoOfFiveType
<1>8. CASE Len(c) = 5 /\ Len(p) # 5
  <2>1. BrandInfo(c) = GhostRanked5(Len(p), Ranks(p), OneSuit(p), GhostScan(Ranks(p)))
    BY <1>2, <1>8 DEF InfoOf, GhostInfo5
  <2>2. Len(p) \in 1..4
    <3>1. Len(p) \in Nat /\ Len(p) <= 5 /\ Len(p) # 0 /\ Len(p) # 5
      BY <1>1, <1>3, <1>8
    <3>2. \A m \in Nat : m <= 5 /\ m # 0 /\ m # 5 => m \in 1..4
      OBVIOUS
    <3>3. QED
      BY <3>1, <3>2
  <2>3. QED
    BY <1>4, <2>1, <2>2, GhostOfFiveType
<1>9. QED
  BY <1>5, <1>6, <1>7, <1>8

-----------------------------------------------------------------------------
(*** The invariant ***)

\* The hands of all seats
Hands == [Seats -> [1..HandSize -> Nat]]

\* What calcRound is given
AllData(hands, specs) == [i \in Seats |-> Data(hands[i], specs[i])]

\* The type of every variable: of the hands, thirteen cards, also where the source reads
\* what nobody has written; of the prizes, numbers, for which every dun that is
\* compared has to have a brand and a point.
TypeOK ==
  /\ rules \in Rules
  /\ rounds \in 0..MaxRounds
  /\ phase \in {"prepare", "selMultiple", "play", "settle", "dead"}
  /\ hand \in Hands
  /\ st \in [Players -> {"READY", "SORT", "COMPARE", "PREP"}]
  /\ special \in [Seats -> BOOLEAN]
  /\ remain \in Seq(Nat)
  /\ prize \in [Seats -> Int]
  /\ dealt \in [Seats -> Seq(Nat)]

\* While multiples are chosen, five cards for each player remain (remainBrands): the
\* second deal does not read past their end.
RemainEnough == phase = "selMultiple" => Len(remain) = 5 * Cardinality(Players)

\* From the end of a round to the next deal the prizes are what calcRound makes of the
\* hands and the special brands that are still there, and every hand can be read.
ScoredSoFar ==
  phase = "settle" =>
    /\ \A i \in Seats : Readable(hand[i])
    /\ prize = CalcRound(AllData(hand, special))

\* What the winners of a round get is what the losers pay (calcRound).
PrizesAddUp == phase = "settle" => SumFunction(prize) = 0

\* The inductive invariant
IInv == TypeOK /\ RemainEnough /\ ScoredSoFar

-----------------------------------------------------------------------------
(*** Hands ***)

\* A hand is a sequence of thirteen cards.
LEMMA HandIsSeq ==
  ASSUME NEW h \in [1..HandSize -> Nat]
  PROVE  h \in Seq(Nat) /\ Len(h) = 13 /\ DOMAIN h = 1..13
<1>1. h = [i \in 1..13 |-> h[i]] /\ \A i \in 1..13 : h[i] \in Nat
  BY DEF HandSize
<1>2. QED
  BY <1>1

\* And a sequence of thirteen cards is a hand.
LEMMA SeqIsHand ==
  ASSUME NEW s \in Seq(Nat), Len(s) = 13
  PROVE  s \in [1..HandSize -> Nat]
<1>1. s \in [1..Len(s) -> Nat]
  BY LenProperties
<1>2. QED
  BY <1>1 DEF HandSize

\* Sorted, a hand stays a hand.
LEMMA SortedHand ==
  ASSUME NEW s \in Seq(Nat), Len(s) = 13
  PROVE  InOrder(s) \in [1..HandSize -> Nat]
<1>1. Sorted(s) \in Seq(Nat) /\ Len(Sorted(s)) = 13
  BY SortedType
<1>2. QED
  BY <1>1, SeqIsHand DEF InOrder

\* n members from a place on
LEMMA PartOfSeq ==
  ASSUME NEW s \in Seq(Nat), NEW a \in Nat, NEW n \in Nat, a + n <= Len(s)
  PROVE  /\ SubSeq(s, a + 1, a + n) \in Seq(Nat) /\ Len(SubSeq(s, a + 1, a + n)) = n
         /\ \A i \in 1..n : SubSeq(s, a + 1, a + n)[i] = s[a + i]
<1>1. a + 1 \in Int /\ a + n \in Int /\ \A i \in (a + 1)..(a + n) : s[i] \in Nat
  OBVIOUS
<1>2. /\ SubSeq(s, a + 1, a + n) \in Seq(Nat)
      /\ Len(SubSeq(s, a + 1, a + n)) = IF a + 1 <= a + n THEN (a + n) - (a + 1) + 1 ELSE 0
      /\ \A i \in 1..((a + n) - (a + 1) + 1) : SubSeq(s, a + 1, a + n)[i] = s[(a + 1) + i - 1]
  BY <1>1, SubSeqProperties
<1>3. /\ (IF a + 1 <= a + n THEN (a + n) - (a + 1) + 1 ELSE 0) = n /\ (a + n) - (a + 1) + 1 = n
      /\ \A i \in 1..n : (a + 1) + i - 1 = a + i
  OBVIOUS
<1>4. QED
  BY <1>2, <1>3

\* The special brand is a number (G13SpecialBrand).
LEMMA SpecialIsInt ==
  ASSUME NEW c, NEW b2, NEW b3
  PROVE  G13SpecialBrand(c, b2, b3) \in Int
<1> DEFINE T == {s \in {135, 124, 113, 103, 93, 82, 72, 62, 52, 42, 32, 22, 12, NoSpecial} :
                   SpecialFits(s, c, Ranks(c), {b2, b3})}
<1>1. SpecialFits(0, c, Ranks(c), {b2, b3})
  BY DEF SpecialFits
<1>2. T \in SUBSET Nat /\ T # {} /\ \A x \in T : x <= 135
  BY <1>1 DEF NoSpecial
<1>3. Max(T) \in T
  <2> HIDE DEF T
  <2> QED BY <1>2, MaxIsGreatest
<1>4. G13SpecialBrand(c, b2, b3) = Max(T)
  BY DEF G13SpecialBrand, RankedSpecial
<1>5. QED
  BY <1>2, <1>3, <1>4

\* Of a hand that can be read, each dun has a brand and a point (Data).
LEMMA DatumOfHand ==
  ASSUME NEW h \in [1..HandSize -> Nat], Readable(h), NEW sp \in BOOLEAN
  PROVE  Data(h, sp) \in DatumType
<1>1. h \in Seq(Nat) /\ Len(h) = 13
  BY HandIsSeq
<1> DEFINE f == SubSeq(h, 1, 3)
           m == SubSeq(h, 4, 8)
           b == SubSeq(h, 9, 13)
<1>2. f \in Seq(Nat) /\ Len(f) = 3
  <2>1. SubSeq(h, 0 + 1, 0 + 3) \in Seq(Nat) /\ Len(SubSeq(h, 0 + 1, 0 + 3)) = 3
    <3>1. 0 \in Nat /\ 3 \in Nat /\ 0 + 3 <= Len(h)
      BY <1>1
    <3>2. QED
      BY <1>1, <3>1, PartOfSeq
  <2>2. QED
    BY <2>1
<1>3. m \in Seq(Nat) /\ Len(m) = 5 /\ \A i \in 1..5 : m[i] = h[3 + i]
  <2>1. /\ SubSeq(h, 3 + 1, 3 + 5) \in Seq(Nat) /\ Len(SubSeq(h, 3 + 1, 3 + 5)) = 5
        /\ \A i \in 1..5 : SubSeq(h, 3 + 1, 3 + 5)[i] = h[3 + i]
    <3>1. 3 \in Nat /\ 5 \in Nat /\ 3 + 5 <= Len(h)
      BY <1>1
    <3>2. QED
      BY <1>1, <3>1, PartOfSeq
  <2>2. 3 + 1 = 4 /\ 3 + 5 = 8
    OBVIOUS
  <2>3. QED
    BY <2>1, <2>2
<1>4. b \in Seq(Nat) /\ Len(b) = 5 /\ \A i \in 1..5 : b[i] = h[8 + i]
  <2>1. /\ SubSeq(h, 8 + 1, 8 + 5) \in Seq(Nat) /\ Len(SubSeq(h, 8 + 1, 8 + 5)) = 5
        /\ \A i \in 1..5 : SubSeq(h, 8 + 1, 8 + 5)[i] = h[8 + i]
    <3>1. 8 \in Nat /\ 5 \in Nat /\ 8 + 5 <= Len(h)
      BY <1>1
    <3>2. QED
      BY <1>1, <3>1, PartOfSeq
  <2>2. 8 + 1 = 9 /\ 8 + 5 = 13
    OBVIOUS
  <2>3. QED
    BY <2>1, <2>2
<1> HIDE DEF f, m, b
<1>5. BrandInfo(f) \in InfoType
  BY <1>2, BrandInfoType
<1>6. BrandInfo(m) \in InfoType
  <2>1. PICK k \in 4..8 : ~IsGhost(h[k])
    BY DEF Readable
  <2>2. k - 3 \in 1..5 /\ m[k - 3] = h[k]
    BY <1>3
  <2>3. \E i \in DOMAIN m : ~IsGhost(m[i])
    BY <1>3, <2>1, <2>2
  <2>4. QED
    BY <1>3, <2>3, BrandInfoType
<1>7. BrandInfo(b) \in InfoType
  <2>1. PICK k \in 9..13 : ~IsGhost(h[k])
    BY DEF Readable
  <2>2. k - 8 \in 1..5 /\ b[k - 8] = h[k]
    BY <1>4
  <2>3. \E i \in DOMAIN b : ~IsGhost(b[i])
    BY <1>4, <2>1, <2>2
  <2>4. QED
    BY <1>4, <2>3, BrandInfoType
<1> DEFINE duns == <<BrandInfo(f), BrandInfo(m), BrandInfo(b)>>
           spec == IF sp THEN G13SpecialBrand(h, duns[2].b, duns[3].b) ELSE NoSpecial
<1>8. duns \in [1..3 -> InfoType]
  BY <1>5, <1>6, <1>7
<1>9. spec \in Int
  BY SpecialIsInt DEF NoSpecial
<1>10. Data(h, sp) = [dun |-> duns, spec |-> spec, hasMaPai |-> rules.maPai \in ToSet(h)]
  BY DEF Data, DataOf, Duns, f, m, b
<1> HIDE DEF duns, spec
<1>11. (rules.maPai \in ToSet(h)) \in BOOLEAN
  OBVIOUS
<1>12. QED
  BY <1>8, <1>9, <1>10, <1>11 DEF DatumType

-----------------------------------------------------------------------------
(*** The deal ***)

\* Players have seats, of which there are finitely many.
LEMMA Sizes ==
  /\ PlayerSize \in Nat \ {0} /\ IsFiniteSet(Players) /\ Cardinality(Players) \in Nat
  /\ Cardinality(Players) <= PlayerSize
<1>1. PlayerSize \in Nat \ {0} /\ Players \subseteq Seats
  BY RoundAssumption
<1>2. IsFiniteSet(Seats) /\ Cardinality(Seats) = PlayerSize
  BY <1>1, FS_Interval DEF Seats
<1>3. IsFiniteSet(Players) /\ Cardinality(Players) <= Cardinality(Seats)
  BY <1>1, <1>2, FS_Subset
<1>4. QED
  BY <1>1, <1>2, <1>3, FS_CardinalityType

\* The rules of a room are such as the comparison needs.
LEMMA RulesFitAlways ==
  ASSUME rules \in Rules
  PROVE  RulesFit
<1>1. rules \in [playType : {"normal", "banker"}, daQiang : {0, 1}, maPai : Nat]
  BY RoundAssumption
<1>2. QED
  BY <1>1, RoundAssumption DEF RulesFit

\* A new room satisfies the invariant.
LEMMA InitHolds == Init => IInv
<1> SUFFICES ASSUME Init
             PROVE  IInv
  OBVIOUS
<1>1. hand \in Hands
  BY RoundAssumption DEF Init, Hands
<1>2. prize \in [Seats -> Int]
  BY DEF Init, NoPrize
<1>3. dealt \in [Seats -> Seq(Nat)]
  <2>1. << >> \in Seq(Nat)
    OBVIOUS
  <2>2. QED
    BY <2>1 DEF Init
<1>4. TypeOK
  <2>1. remain \in Seq(Nat)
    BY DEF Init
  <2>2. rounds \in 0..MaxRounds
    BY RoundAssumption DEF Init
  <2>3. QED
    BY <1>1, <1>2, <1>3, <2>1, <2>2 DEF Init, TypeOK
<1>5. QED
  BY <1>4 DEF Init, IInv, RemainEnough, ScoredSoFar

\* The cards for one seat
LEMMA ShareOfDeck ==
  ASSUME NEW deck \in Decks, NEW i \in Seats, NEW n \in Nat, n = 8 \/ n = 13
  PROVE  /\ SubSeq(deck, (i - 1) * n + 1, i * n) \in Seq(Nat)
         /\ Len(SubSeq(deck, (i - 1) * n + 1, i * n)) = n
<1>1. deck \in Seq(Nat) /\ Len(deck) >= 13 * PlayerSize /\ Len(deck) \in Nat
  <2>1. deck \in Seq(Nat) /\ Len(deck) >= 13 * PlayerSize
    BY RoundAssumption DEF HandSize
  <2>2. QED
    BY <2>1
<1>2. i \in 1..PlayerSize /\ PlayerSize \in Nat
  BY Sizes DEF Seats
<1> DEFINE a == (i - 1) * n
<1>3. a \in Nat /\ a + n = i * n /\ a + n <= Len(deck)
  <2>1. CASE n = 8
    BY <1>1, <1>2, <2>1
  <2>2. CASE n = 13
    BY <1>1, <1>2, <2>2
  <2>3. QED
    BY <2>1, <2>2
<1> HIDE DEF a
<1>4. SubSeq(deck, a + 1, a + n) \in Seq(Nat) /\ Len(SubSeq(deck, a + 1, a + n)) = n
  BY <1>1, <1>3, PartOfSeq
<1>5. QED
  BY <1>3, <1>4 DEF a

\* What a deal leaves of the hand of before
LEMMA RestOfHand ==
  ASSUME NEW h \in [1..HandSize -> Nat], NEW n \in Nat, n = 8 \/ n = 13
  PROVE  /\ SubSeq(h, n + 1, HandSize) \in Seq(Nat)
         /\ Len(SubSeq(h, n + 1, HandSize)) = 13 - n
<1>1. h \in Seq(Nat) /\ Len(h) = 13
  BY HandIsSeq
<1> DEFINE k == 13 - n
<1>2. k \in Nat /\ n + k = 13 /\ n + k <= Len(h)
  BY <1>1
<1> HIDE DEF k
<1>3. SubSeq(h, n + 1, n + k) \in Seq(Nat) /\ Len(SubSeq(h, n + 1, n + k)) = k
  BY <1>1, <1>2, PartOfSeq
<1>4. QED
  BY <1>2, <1>3 DEF HandSize, k

\* A deal to a seat makes a hand.
LEMMA DealtHand ==
  ASSUME NEW s \in Seq(Nat), NEW n \in Nat, n = 8 \/ n = 13, Len(s) = n,
         NEW h \in [1..HandSize -> Nat]
  PROVE  InOrder(s \o SubSeq(h, n + 1, HandSize)) \in [1..HandSize -> Nat]
<1> DEFINE t == SubSeq(h, n + 1, HandSize)
<1>1. t \in Seq(Nat) /\ Len(t) = 13 - n
  BY RestOfHand
<1> HIDE DEF t
<1>2. s \o t \in Seq(Nat) /\ Len(s \o t) = Len(s) + Len(t)
  BY <1>1, ConcatProperties
<1>3. Len(s \o t) = 13
  BY <1>1, <1>2
<1>4. QED
  BY <1>2, <1>3, SortedHand DEF t

\* The deal at the start of a round keeps the invariant (tryStartRound).
LEMMA DealKeeps ==
  ASSUME IInv, Deal
  PROVE  IInv'
<1> DEFINE n == IF rules.playType = "banker" THEN 8 ELSE HandSize
<1>1. n \in Nat /\ (n = 8 \/ n = 13)
  BY DEF HandSize
<1>2. PICK deck \in Decks :
        LET got == [i \in Seats |-> SubSeq(deck, (i - 1) * n + 1, i * n)]
            used == PlayerSize * n IN
        /\ hand' = [i \in Seats |-> InOrder(got[i] \o SubSeq(hand[i], n + 1, HandSize))]
        /\ dealt' = got
        /\ remain' = IF rules.playType = "banker"
                       THEN SubSeq(deck, used + 1, used + 5 * Cardinality(Players))
                       ELSE << >>
  BY DEF Deal
<1> DEFINE got == [i \in Seats |-> SubSeq(deck, (i - 1) * n + 1, i * n)]
           m == 5 * Cardinality(Players)
           rest == SubSeq(deck, PlayerSize * 8 + 1, PlayerSize * 8 + m)
<1>3. rest \in Seq(Nat) /\ Len(rest) = m
  <2>1. deck \in Seq(Nat) /\ Len(deck) >= 13 * PlayerSize /\ Len(deck) \in Nat
    BY RoundAssumption DEF HandSize
  <2>2. PlayerSize * 8 \in Nat /\ m \in Nat /\ PlayerSize * 8 + m <= Len(deck)
    BY <2>1, Sizes
  <2> DEFINE a == PlayerSize * 8
  <2> HIDE DEF a, m
  <2>3. SubSeq(deck, a + 1, a + m) \in Seq(Nat) /\ Len(SubSeq(deck, a + 1, a + m)) = m
    BY <2>1, <2>2, PartOfSeq DEF a
  <2>4. QED
    BY <2>3 DEF a
<1>4. /\ hand' = [i \in Seats |-> InOrder(got[i] \o SubSeq(hand[i], n + 1, HandSize))]
      /\ dealt' = got
      /\ remain' = IF rules.playType = "banker" THEN rest ELSE << >>
  BY <1>2
<1> HIDE DEF n, rest, m
<1>5. got \in [Seats -> Seq(Nat)] /\ \A i \in Seats : Len(got[i]) = n
  BY <1>1, ShareOfDeck
<1> HIDE DEF got
<1>6. hand' \in Hands
  <2>1. \A i \in Seats : InOrder(got[i] \o SubSeq(hand[i], n + 1, HandSize)) \in [1..HandSize -> Nat]
    <3> TAKE i \in Seats
    <3>1. hand[i] \in [1..HandSize -> Nat] /\ got[i] \in Seq(Nat) /\ Len(got[i]) = n
      BY <1>5 DEF IInv, TypeOK, Hands
    <3>2. QED
      BY <1>1, <3>1, DealtHand
  <2>2. QED
    BY <1>4, <2>1 DEF Hands
<1>7. remain' \in Seq(Nat) /\ RemainEnough'
  <2>1. << >> \in Seq(Nat)
    OBVIOUS
  <2>2. remain' \in Seq(Nat)
    BY <1>3, <1>4, <2>1
  <2>3. RemainEnough'
    BY <1>3, <1>4 DEF RemainEnough, Deal, m
  <2>4. QED
    BY <2>2, <2>3
<1>8. rounds' \in 0..MaxRounds
  BY RoundAssumption DEF Deal, IInv, TypeOK
<1>9. TypeOK'
  BY <1>4, <1>5, <1>6, <1>7, <1>8 DEF Deal, IInv, TypeOK
<1>10. ScoredSoFar'
  BY DEF Deal, ScoredSoFar
<1>11. QED
  BY <1>7, <1>9, <1>10 DEF IInv

-----------------------------------------------------------------------------
(*** The second deal and the bringing out ***)

\* Five cards put into a hand, one by one, make a hand.
LEMMA PutCardsType ==
  ASSUME NEW h \in [1..HandSize -> Nat], NEW cards \in Seq(Nat), Len(cards) = 5
  PROVE  PutCards(h, cards) \in [1..HandSize -> Nat]
<1> DEFINE Put(acc, k) == InOrder([acc EXCEPT ![8 + k] = cards[k]])
<1>1. ASSUME NEW acc \in [1..HandSize -> Nat], NEW k \in 1..5
      PROVE  Put(acc, k) \in [1..HandSize -> Nat]
  <2> DEFINE s == [acc EXCEPT ![8 + k] = cards[k]]
  <2>1. cards[k] \in Nat
    <3>1. cards \in [1..5 -> Nat]
      BY LenProperties
    <3>2. QED
      BY <3>1
  <2>2. s \in [1..HandSize -> Nat]
    BY <2>1
  <2> HIDE DEF s
  <2>3. s \in Seq(Nat) /\ Len(s) = 13
    BY <2>2, HandIsSeq
  <2>4. InOrder(s) \in [1..HandSize -> Nat]
    BY <2>3, SortedHand
  <2>5. QED
    BY <2>4 DEF s
<1>2. PutCards(h, cards) = Put(Put(Put(Put(Put(h, 1), 2), 3), 4), 5)
  BY DEF PutCards
<1> HIDE DEF Put
<1>3. Put(h, 1) \in [1..HandSize -> Nat]
  BY <1>1
<1>4. Put(Put(h, 1), 2) \in [1..HandSize -> Nat]
  BY <1>1, <1>3
<1>5. Put(Put(Put(h, 1), 2), 3) \in [1..HandSize -> Nat]
  BY <1>1, <1>4
<1>6. Put(Put(Put(Put(h, 1), 2), 3), 4) \in [1..HandSize -> Nat]
  BY <1>1, <1>5
<1>7. Put(Put(Put(Put(Put(h, 1), 2), 3), 4), 5) \in [1..HandSize -> Nat]
  BY <1>1, <1>6
<1>8. QED
  BY <1>2, <1>7

\* The five cards of a player are among those that remain.
LEMMA FiveOfPlayer ==
  ASSUME remain \in Seq(Nat), Len(remain) = 5 * Cardinality(Players), NEW i \in Players
  PROVE  LET n == Cardinality({j \in Players : j < i})
             five == SubSeq(remain, 5 * n + 1, 5 * n + 5) IN
         five \in Seq(Nat) /\ Len(five) = 5
<1> DEFINE T == {j \in Players : j < i}
           n == Cardinality(T)
<1>1. n \in Nat /\ n + 1 <= Cardinality(Players)
  <2>1. IsFiniteSet(Players \ {i}) /\ Cardinality(Players \ {i}) = Cardinality(Players) - 1
    BY Sizes, FS_RemoveElement
  <2>2. i \in Int
    BY RoundAssumption DEF Seats
  <2>3. T \in SUBSET (Players \ {i})
    BY <2>2
  <2> HIDE DEF T
  <2>4. IsFiniteSet(T) /\ Cardinality(T) <= Cardinality(Players \ {i})
    BY <2>1, <2>3, FS_Subset
  <2>5. Cardinality(T) \in Nat
    BY <2>4, FS_CardinalityType
  <2>6. QED
    BY <2>1, <2>4, <2>5, Sizes
<1> HIDE DEF n
<1>2. 5 * n \in Nat /\ 5 * n + 5 <= Len(remain)
  BY <1>1, Sizes
<1> DEFINE a == 5 * n
<1> HIDE DEF a
<1>3. SubSeq(remain, a + 1, a + 5) \in Seq(Nat) /\ Len(SubSeq(remain, a + 1, a + 5)) = 5
  <2>1. a \in Nat /\ 5 \in Nat /\ a + 5 <= Len(remain)
    BY <1>2 DEF a
  <2>2. QED
    BY <2>1, PartOfSeq
<1>4. QED
  BY <1>3 DEF a, n

\* The second deal keeps the invariant (checkAllSelectMultiple).
LEMMA DealTheRestKeeps ==
  ASSUME IInv, DealTheRest
  PROVE  IInv'
<1> DEFINE Five(i) == SubSeq(remain, 5 * Cardinality({j \in Players : j < i}) + 1,
                                     5 * Cardinality({j \in Players : j < i}) + 5)
<1>1. \A i \in Players : Five(i) \in Seq(Nat) /\ Len(Five(i)) = 5
  BY FiveOfPlayer DEF IInv, TypeOK, RemainEnough, DealTheRest
<1>2. /\ hand' = [i \in Seats |-> IF i \in Players THEN PutCards(hand[i], Five(i)) ELSE hand[i]]
      /\ dealt' = [i \in Seats |-> IF i \in Players THEN dealt[i] \o Five(i) ELSE dealt[i]]
      /\ remain' = << >> /\ phase' = "play"
      /\ UNCHANGED <<rules, rounds, st, special, prize>>
  BY DEF DealTheRest
<1> HIDE DEF Five
<1>3. \A i \in Seats : hand[i] \in [1..HandSize -> Nat] /\ dealt[i] \in Seq(Nat)
  BY DEF IInv, TypeOK, Hands
<1>4. hand' \in Hands
  <2>1. \A i \in Seats : (IF i \in Players THEN PutCards(hand[i], Five(i)) ELSE hand[i]) \in [1..HandSize -> Nat]
    BY <1>1, <1>3, PutCardsType
  <2>2. QED
    BY <1>2, <2>1 DEF Hands
<1>5. dealt' \in [Seats -> Seq(Nat)]
  <2>1. \A s, t \in Seq(Nat) : s \o t \in Seq(Nat)
    BY ConcatProperties
  <2>2. \A i \in Seats : (IF i \in Players THEN dealt[i] \o Five(i) ELSE dealt[i]) \in Seq(Nat)
    BY <1>1, <1>3, <2>1
  <2>3. QED
    BY <1>2, <2>2
<1>6. remain' \in Seq(Nat)
  BY <1>2
<1>7. TypeOK'
  BY <1>2, <1>4, <1>5, <1>6 DEF IInv, TypeOK
<1>8. RemainEnough' /\ ScoredSoFar'
  BY <1>2 DEF RemainEnough, ScoredSoFar
<1>9. QED
  BY <1>7, <1>8 DEF IInv

\* When all hands can be read, calcRound is given brands and points.
LEMMA AllDataType ==
  ASSUME NEW hands \in Hands, NEW specs \in [Seats -> BOOLEAN], \A i \in Seats : Readable(hands[i])
  PROVE  AllData(hands, specs) \in DataType
<1>1. \A i \in Seats : Data(hands[i], specs[i]) \in DatumType
  BY DatumOfHand DEF Hands
<1>2. QED
  BY <1>1 DEF AllData, DataType

\* What calcRound computes depends on no variable but the rules.
LEMMA SameRules ==
  ASSUME rules' = rules, NEW CONSTANT d
  PROVE  CalcRound(d)' = CalcRound(d)
<1>1. ASSUME NEW i, NEW j
      PROVE  Compared(d, i, j)' = Compared(d, i, j)
  BY DEF Compared, ComparedDuns, DunEntry, PrizeEntry
<1>2. Entries(d)' = Entries(d)
  BY <1>1 DEF Entries
<1>3. ASSUME NEW E, NEW e
      PROVE  Price(d, E, e)' = Price(d, E, e)
  BY DEF Price
<1>4. QED
  BY <1>2, <1>3 DEF CalcRound, Settled

\* An arrangement that players try is a function from places to places.
LEMMA OrderType ==
  ASSUME NEW order \in Orders
  PROVE  order \in [1..HandSize -> 1..HandSize]
<1>1. order \in Surjection(1..HandSize, 1..HandSize)
  BY RoundAssumption, Zenon DEF Bijection
<1>2. QED
  BY <1>1 DEF Surjection

\* Bringing out keeps the invariant, with the settlement that the last player's ends in
\* (bringOut, trySettleGame).
LEMMA BringOutKeeps ==
  ASSUME IInv, NEW i \in Players, BringOut(i)
  PROVE  IInv'
<1>1. PICK order \in Orders, sp \in BOOLEAN :
        LET h     == [k \in 1..HandSize |-> hand[i][order[k]]]
            hands == [hand EXCEPT ![i] = h]
            specs == [special EXCEPT ![i] = sp]
            last  == \A j \in Players \ {i} : st[j] = "COMPARE" IN
        IF ~Readable(h) \/ (last /\ ~(\A j \in Seats : Readable(hands[j]))) THEN Dies
        ELSE
          /\ MayBringOut(h, sp)
          /\ hand' = hands
          /\ special' = specs
          /\ IF last
               THEN /\ phase' = "settle"
                    /\ prize' = CalcRound([j \in Seats |-> Data(hands[j], specs[j])])
                    /\ st' = [j \in Players |-> "PREP"]
               ELSE /\ st' = [st EXCEPT ![i] = "COMPARE"]
                    /\ UNCHANGED <<phase, prize>>
          /\ UNCHANGED <<rules, rounds, remain, dealt>>
  BY DEF BringOut
<1> DEFINE h     == [k \in 1..HandSize |-> hand[i][order[k]]]
           hands == [hand EXCEPT ![i] = h]
           specs == [special EXCEPT ![i] = sp]
           last  == \A j \in Players \ {i} : st[j] = "COMPARE"
<1>2. phase = "play" /\ i \in Seats
  BY RoundAssumption DEF BringOut
<1>3. hands \in Hands /\ specs \in [Seats -> BOOLEAN]
  <2>1. order \in [1..HandSize -> 1..HandSize]
    BY OrderType
  <2>2. h \in [1..HandSize -> Nat]
    <3>1. hand[i] \in [1..HandSize -> Nat]
      BY <1>2 DEF IInv, TypeOK, Hands
    <3>2. \A k \in 1..HandSize : hand[i][order[k]] \in Nat
      BY <2>1, <3>1
    <3>3. QED
      BY <3>2
  <2> HIDE DEF h
  <2>3. QED
    BY <1>2, <2>2 DEF IInv, TypeOK, Hands
<1>4. CASE Dies
  BY <1>4 DEF Dies, IInv, TypeOK, RemainEnough, ScoredSoFar
<1>5. CASE ~Dies
  <2>1. /\ ~(last /\ ~(\A j \in Seats : Readable(hands[j])))
        /\ hand' = hands /\ special' = specs
        /\ last => /\ phase' = "settle"
                   /\ prize' = CalcRound([j \in Seats |-> Data(hands[j], specs[j])])
                   /\ st' = [j \in Players |-> "PREP"]
        /\ ~last => st' = [st EXCEPT ![i] = "COMPARE"] /\ UNCHANGED <<phase, prize>>
        /\ UNCHANGED <<rules, rounds, remain, dealt>>
    BY <1>1, <1>5
  <2> HIDE DEF h, hands, specs, last
  <2>2. CASE last
    <3>1. AllData(hands, specs) \in DataType
      BY <1>3, <2>1, <2>2, AllDataType
    <3>2. prize' = CalcRound(AllData(hands, specs))
      BY <2>1, <2>2 DEF AllData
    <3>3. RulesFit
      BY RulesFitAlways DEF IInv, TypeOK
    <3>4. prize' \in [Seats -> Int]
      BY <3>1, <3>2, <3>3, CalcRoundCounts, BalanceType
    <3>5. TypeOK'
      BY <1>3, <2>1, <2>2, <3>4 DEF IInv, TypeOK
    <3>6. RemainEnough'
      BY <2>1, <2>2 DEF RemainEnough
    <3>7. AllData(hands, specs) = AllData(hand, special)'
      BY <2>1 DEF AllData, Data, DataOf
    <3>8. CalcRound(AllData(hands, specs)) = CalcRound(AllData(hand, special))'
      <4>1. PICK d : d = AllData(hands, specs)
        OBVIOUS
      <4>2. CalcRound(d)' = CalcRound(d)
        BY <2>1, SameRules
      <4>3. AllData(hand, special)' = d
        BY <3>7, <4>1
      <4>4. CalcRound(AllData(hand, special))' = CalcRound(d)'
        BY <4>3
      <4>5. QED
        BY <4>1, <4>2, <4>4
    <3>9. ScoredSoFar'
      BY <2>1, <2>2, <3>2, <3>8 DEF ScoredSoFar
    <3>10. QED
      BY <3>5, <3>6, <3>9 DEF IInv
  <2>3. CASE ~last
    <3>1. TypeOK'
      BY <1>3, <2>1, <2>3 DEF IInv, TypeOK
    <3>2. RemainEnough' /\ ScoredSoFar'
      BY <1>2, <2>1, <2>3 DEF RemainEnough, ScoredSoFar
    <3>3. QED
      BY <3>1, <3>2 DEF IInv
  <2>4. QED
    BY <2>2, <2>3
<1>6. QED
  BY <1>4, <1>5

-----------------------------------------------------------------------------
(*** What is settled ***)

\* The inductive invariant holds for every number of seats, set of players, shuffle, rule
\* and arrangement that players try.
THEOREM InvHolds == Spec => []IInv
<1>1. Init => IInv
  BY InitHolds
<1>2. IInv /\ [Next]_vars => IInv'
  <2> SUFFICES ASSUME IInv, [Next]_vars
               PROVE  IInv'
    OBVIOUS
  <2>1. CASE Deal
    BY <2>1, DealKeeps
  <2>2. CASE DealTheRest
    BY <2>2, DealTheRestKeeps
  <2>3. ASSUME NEW i \in Players, BringOut(i)
        PROVE  IInv'
    BY <2>3, BringOutKeeps
  <2>4. CASE UNCHANGED vars
    <3>1. /\ rules' = rules /\ rounds' = rounds /\ phase' = phase /\ hand' = hand /\ st' = st
          /\ special' = special /\ remain' = remain /\ prize' = prize /\ dealt' = dealt
      BY <2>4 DEF vars
    <3>2. TypeOK' /\ RemainEnough'
      BY <3>1 DEF IInv, TypeOK, RemainEnough
    <3>3. AllData(hand, special)' = AllData(hand, special)
      BY <3>1 DEF AllData, Data, DataOf
    <3>4. CalcRound(AllData(hand, special))' = CalcRound(AllData(hand, special))
      <4>1. PICK d : d = AllData(hand, special)
        OBVIOUS
      <4>2. CalcRound(d)' = CalcRound(d)
        BY <3>1, SameRules
      <4>3. AllData(hand, special)' = d
        BY <3>3, <4>1
      <4>4. CalcRound(AllData(hand, special))' = CalcRound(d)'
        BY <4>3
      <4>5. QED
        BY <4>1, <4>2, <4>4
    <3>5. ScoredSoFar'
      BY <3>1, <3>4 DEF IInv, ScoredSoFar
    <3>6. QED
      BY <3>2, <3>5 DEF IInv
  <2>5. QED
    BY <2>1, <2>2, <2>3, <2>4 DEF Next
<1>3. QED
  BY <1>1, <1>2, PTL DEF Spec

\* Every variable has its type; in particular every prize is a number.
THEOREM TypeCorrect == Spec => []TypeOK
<1>1. IInv => TypeOK
  BY DEF IInv
<1>2. QED
  BY <1>1, InvHolds, PTL

\* After a settlement the prizes are calcRound's, of data in their types.
LEMMA SettledData ==
  ASSUME IInv, phase = "settle"
  PROVE  /\ RulesFit /\ AllData(hand, special) \in DataType
         /\ prize = CalcRound(AllData(hand, special))
<1>1. AllData(hand, special) \in DataType
  BY AllDataType DEF IInv, TypeOK, ScoredSoFar
<1>2. RulesFit
  BY RulesFitAlways DEF IInv, TypeOK
<1>3. QED
  BY <1>1, <1>2 DEF IInv, ScoredSoFar

\* A settled round is scored by the ten rules, from every seat's side, although calcRound
\* compares each pair once, in unsigned numbers, and counts entries to find a shot at
\* everybody - except that it counts no shot under the default rule
\* (calcRound, ScoredButForShots).
THEOREM ScoredAsRuled == Spec => []ScoredButForShots
<1>1. IInv => ScoredButForShots
  <2> SUFFICES ASSUME IInv, phase = "settle",
                      ~(rules.daQiang = 0 /\ \E i, j \in Seats : Shoots(AllData(hand, special)[i], AllData(hand, special)[j]))
               PROVE  prize = Balance(AllData(hand, special))
    BY DEF ScoredButForShots, AllData
  <2>1. RulesFit /\ AllData(hand, special) \in DataType /\ prize = CalcRound(AllData(hand, special))
    BY SettledData
  <2>2. ShotsCount(AllData(hand, special))
    BY <2>1 DEF ShotsCount, RulesFit
  <2>3. QED
    BY <2>1, <2>2, CalcRoundByTheRules
<1>2. QED
  BY <1>1, InvHolds, PTL

\* The prizes of a settled round add up to nothing: no points are made or lost
\* (calcRound, PrizesAddUp).
THEOREM ZeroSum == Spec => []PrizesAddUp
<1>1. IInv => PrizesAddUp
  <2> SUFFICES ASSUME IInv, phase = "settle"
               PROVE  SumFunction(prize) = 0
    BY DEF PrizesAddUp
  <2>1. /\ prize = CountedBalance(AllData(hand, special))
        /\ RulesFit /\ AllData(hand, special) \in DataType
    BY SettledData, CalcRoundCounts
  <2>2. QED
    BY <2>1, BalanceType
<1>2. QED
  BY <1>1, InvHolds, PTL

\* In the normal game who arranges his hand holds what he has been dealt.
DealtWhole ==
  rules.playType # "banker" =>
    /\ phase # "selMultiple"
    /\ phase = "play" => \A i \in Players : st[i] = "SORT" => hand[i] = InOrder(dealt[i])

\* In the normal game who arranges his hand holds what he has been dealt; in the banker's
\* game the second deal breaks it (HandsAreDealt).
THEOREM NormalHands == Spec => [](rules.playType # "banker" => HandsAreDealt)
<1>1. Init => DealtWhole
  BY DEF Init, DealtWhole
<1>2. TypeOK /\ DealtWhole /\ [Next]_vars => DealtWhole'
  <2> SUFFICES ASSUME TypeOK, DealtWhole, [Next]_vars, rules'.playType # "banker"
               PROVE  /\ phase' # "selMultiple"
                      /\ phase' = "play" => \A i \in Players : st'[i] = "SORT" => hand'[i] = InOrder(dealt'[i])
    BY DEF DealtWhole
  <2>1. CASE Deal
    <3>1. rules.playType # "banker"
      BY <2>1 DEF Deal
    <3>2. PICK deck \in Decks :
            LET got == [i \in Seats |-> SubSeq(deck, (i - 1) * 13 + 1, i * 13)] IN
            /\ hand' = [i \in Seats |-> InOrder(got[i] \o SubSeq(hand[i], 13 + 1, HandSize))]
            /\ dealt' = got
      BY <2>1, <3>1 DEF Deal, HandSize
    <3> DEFINE got == [i \in Seats |-> SubSeq(deck, (i - 1) * 13 + 1, i * 13)]
    <3>3. /\ hand' = [i \in Seats |-> InOrder(got[i] \o SubSeq(hand[i], 13 + 1, HandSize))]
          /\ dealt' = got
      BY <3>2
    <3>4. \A i \in Seats : got[i] \in Seq(Nat)
      BY ShareOfDeck
    <3> HIDE DEF got
    <3>5. \A i \in Seats : got[i] \o SubSeq(hand[i], 13 + 1, HandSize) = got[i]
      <4> TAKE i \in Seats
      <4>1. SubSeq(hand[i], 13 + 1, HandSize) = << >>
        BY SubSeqEmpty DEF HandSize
      <4>2. got[i] \o << >> = got[i]
        BY <3>4, ConcatEmptySeq
      <4>3. QED
        BY <4>1, <4>2
    <3>6. \A i \in Seats : hand'[i] = InOrder(dealt'[i])
      BY <3>3, <3>5
    <3>7. Players \subseteq Seats
      BY RoundAssumption
    <3>8. phase' # "selMultiple"
      BY <2>1, <3>1 DEF Deal
    <3>9. QED
      BY <3>6, <3>7, <3>8
  <2>2. CASE DealTheRest
    <3>1. rules.playType # "banker" /\ phase = "selMultiple"
      BY <2>2 DEF DealTheRest
    <3>2. QED
      BY <3>1 DEF DealtWhole
  <2>3. ASSUME NEW j \in Players, BringOut(j)
        PROVE  /\ phase' # "selMultiple"
               /\ phase' = "play" => \A i \in Players : st'[i] = "SORT" => hand'[i] = InOrder(dealt'[i])
    <3>1. phase = "play" /\ rules' = rules /\ dealt' = dealt
      BY <2>3 DEF BringOut, Dies
    <3>2. phase' = "play" => /\ st' = [st EXCEPT ![j] = "COMPARE"]
                             /\ \E h : hand' = [hand EXCEPT ![j] = h]
      BY <2>3 DEF BringOut, Dies
    <3>3. phase' \in {"play", "settle", "dead"}
      BY <2>3, <3>1 DEF BringOut, Dies
    <3>4. ASSUME phase' = "play", NEW i \in Players, st'[i] = "SORT"
          PROVE  hand'[i] = InOrder(dealt'[i])
      <4>1. i # j
        BY <3>2, <3>4 DEF TypeOK
      <4>2. st[i] = "SORT" /\ hand'[i] = hand[i]
        BY <3>2, <3>4, <4>1, RoundAssumption DEF TypeOK, Hands
      <4>3. hand[i] = InOrder(dealt[i])
        BY <3>1, <4>2 DEF DealtWhole
      <4>4. QED
        BY <3>1, <4>2, <4>3
    <3>5. QED
      BY <3>3, <3>4
  <2>4. CASE UNCHANGED vars
    BY <2>4 DEF vars, DealtWhole
  <2>5. QED
    BY <2>1, <2>2, <2>3, <2>4 DEF Next
<1>3. DealtWhole => (rules.playType # "banker" => HandsAreDealt)
  BY DEF DealtWhole, HandsAreDealt
<1>4. QED
  BY <1>1, <1>2, <1>3, TypeCorrect, PTL DEF Spec

-----------------------------------------------------------------------------
(*** No card is lost ***)

\* Where the cards of a hand are after one has been inserted
LEMMA InsertPlaces ==
  ASSUME NEW B, NEW r \in Seq(B), NEW x \in B
  PROVE  /\ Insert(r, x) \in Seq(B) /\ Len(Insert(r, x)) = Len(r) + 1
         /\ \A i \in 1..Below(r, x) : Insert(r, x)[i] = r[i]
         /\ Insert(r, x)[Below(r, x) + 1] = x
         /\ \A i \in (Below(r, x) + 1)..Len(r) : Insert(r, x)[i + 1] = r[i]
<1> DEFINE n == Below(r, x)
           t == Insert(r, x)
           a == SubSeq(r, 1, n)
           b == SubSeq(r, n + 1, Len(r))
           c == a \o <<x>>
<1>1. n \in 0..Len(r) /\ Len(r) \in Nat
  BY BelowBounds
<1>2. t = c \o b
  <2>1. t = SubSeq(r, 1, (n + 1) - 1) \o <<x>> \o SubSeq(r, n + 1, Len(r))
    BY DEF Insert, InsertAt, Below
  <2>2. (n + 1) - 1 = n
    BY <1>1
  <2>3. QED
    BY <2>1, <2>2
<1> HIDE DEF n, t
<1>3. /\ a \in Seq(B) /\ Len(a) = n /\ \A i \in 1..n : a[i] = r[i]
      /\ b \in Seq(B) /\ Len(b) = Len(r) - n /\ \A i \in 1..(Len(r) - n) : b[i] = r[n + i]
  BY <1>1, CutInTwo
<1> HIDE DEF a, b
<1>4. /\ c \in Seq(B) /\ Len(c) = n + 1 /\ (\A i \in 1..n : c[i] = r[i]) /\ c[n + 1] = x
  <2>1. <<x>> \in Seq(B) /\ Len(<<x>>) = 1 /\ <<x>>[1] = x
    OBVIOUS
  <2> DEFINE y == <<x>>
  <2> HIDE DEF y
  <2>2. /\ a \o y \in Seq(B) /\ Len(a \o y) = Len(a) + Len(y)
        /\ \A i \in 1..(Len(a) + Len(y)) : (a \o y)[i] = IF i <= Len(a) THEN a[i] ELSE y[i - Len(a)]
    BY <1>3, <2>1, ConcatProperties DEF y
  <2>3. Len(y) = 1 /\ y[1] = x
    BY <2>1 DEF y
  <2>4. (a \o y)[n + 1] = x
    <3>1. n + 1 \in 1..(Len(a) + Len(y)) /\ ~(n + 1 <= Len(a)) /\ n + 1 - Len(a) = 1
      BY <1>1, <1>3, <2>3
    <3>2. QED
      BY <2>2, <2>3, <3>1
  <2>5. \A i \in 1..n : (a \o y)[i] = r[i]
    <3>1. \A i \in 1..n : i \in 1..(Len(a) + Len(y)) /\ i <= Len(a)
      BY <1>1, <1>3, <2>3
    <3>2. QED
      BY <1>3, <2>2, <3>1
  <2>6. QED
    BY <1>1, <1>3, <2>2, <2>3, <2>4, <2>5 DEF y
<1> HIDE DEF c
<1>5. /\ t \in Seq(B) /\ Len(t) = Len(c) + Len(b)
      /\ \A i \in 1..(Len(c) + Len(b)) : t[i] = IF i <= Len(c) THEN c[i] ELSE b[i - Len(c)]
  <2>1. c \in Seq(B) /\ b \in Seq(B)
    BY <1>3, <1>4
  <2>2. /\ c \o b \in Seq(B) /\ Len(c \o b) = Len(c) + Len(b)
        /\ \A i \in 1..(Len(c) + Len(b)) : (c \o b)[i] = IF i <= Len(c) THEN c[i] ELSE b[i - Len(c)]
    BY <2>1, ConcatProperties
  <2>3. QED
    BY <1>2, <2>2
<1>6. Len(t) = Len(r) + 1
  BY <1>1, <1>3, <1>4, <1>5
<1>7. \A i \in 1..(n + 1) : t[i] = c[i]
  <2> TAKE i \in 1..(n + 1)
  <2>1. i \in 1..(Len(c) + Len(b)) /\ i <= Len(c)
    BY <1>1, <1>3, <1>4
  <2>2. QED
    BY <1>5, <2>1
<1>8. (\A i \in 1..n : t[i] = r[i]) /\ t[n + 1] = x
  BY <1>1, <1>4, <1>7
<1>9. \A i \in (n + 1)..Len(r) : t[i + 1] = r[i]
  <2> TAKE i \in (n + 1)..Len(r)
  <2>1. i + 1 \in 1..(Len(c) + Len(b)) /\ ~(i + 1 <= Len(c)) /\ i + 1 - Len(c) = i - n
    BY <1>1, <1>3, <1>4
  <2>2. i - n \in 1..(Len(r) - n) /\ n + (i - n) = i
    BY <1>1
  <2>3. t[i + 1] = b[i - n]
    BY <1>5, <2>1
  <2>4. b[i - n] = r[n + (i - n)]
    BY <1>3, <2>2
  <2>5. QED
    BY <2>2, <2>3, <2>4
<1>10. QED
  BY <1>5, <1>6, <1>8, <1>9 DEF n, t

\* t holds what s holds, at the places p, from which q leads back.
Matches(p, q, s, t) ==
  /\ p \in [DOMAIN s -> DOMAIN t] /\ q \in [DOMAIN t -> DOMAIN s]
  /\ \A i \in DOMAIN s : q[p[i]] = i /\ t[p[i]] = s[i]
  /\ \A j \in DOMAIN t : p[q[j]] = j

\* The same cards in another order, none lost and none doubled
Rearranged(s, t) == \E p, q : Matches(p, q, s, t)

\* Rearranged twice is rearranged.
LEMMA RearrangedTwice ==
  ASSUME NEW s, NEW t, NEW u, Rearranged(s, t), Rearranged(t, u)
  PROVE  Rearranged(s, u)
<1>1. PICK p, q : Matches(p, q, s, t)
  BY DEF Rearranged
<1>2. PICK v, w : Matches(v, w, t, u)
  BY DEF Rearranged
<1> DEFINE a == [i \in DOMAIN s |-> v[p[i]]]
           b == [j \in DOMAIN u |-> q[w[j]]]
<1>3. Matches(a, b, s, u)
  BY <1>1, <1>2 DEF Matches
<1>4. QED
  BY <1>3 DEF Rearranged

\* Left alone is rearranged.
LEMMA RearrangedSelf ==
  ASSUME NEW s
  PROVE  Rearranged(s, s)
<1> DEFINE p == [i \in DOMAIN s |-> i]
<1>1. Matches(p, p, s, s)
  BY DEF Matches
<1>2. QED
  BY <1>1 DEF Rearranged

\* The same card put behind both
LEMMA RearrangedAppended ==
  ASSUME NEW B, NEW s \in Seq(B), NEW t \in Seq(B), NEW x \in B, Rearranged(s, t)
  PROVE  Rearranged(Append(s, x), Append(t, x))
<1>1. PICK p, q : Matches(p, q, s, t)
  BY DEF Rearranged
<1> DEFINE m == Len(s)
           n == Len(t)
           ss == Append(s, x)
           tt == Append(t, x)
           a == [i \in 1..(m + 1) |-> IF i = m + 1 THEN n + 1 ELSE p[i]]
           b == [j \in 1..(n + 1) |-> IF j = n + 1 THEN m + 1 ELSE q[j]]
<1>2. m \in Nat /\ n \in Nat /\ DOMAIN s = 1..m /\ DOMAIN t = 1..n
  OBVIOUS
<1>3. /\ DOMAIN ss = 1..(m + 1) /\ ss[m + 1] = x /\ \A i \in 1..m : ss[i] = s[i]
      /\ DOMAIN tt = 1..(n + 1) /\ tt[n + 1] = x /\ \A i \in 1..n : tt[i] = t[i]
  OBVIOUS
<1> HIDE DEF m, n, ss, tt
<1>4. /\ p \in [1..m -> 1..n] /\ q \in [1..n -> 1..m]
      /\ \A i \in 1..m : q[p[i]] = i /\ t[p[i]] = s[i]
      /\ \A j \in 1..n : p[q[j]] = j
  BY <1>1, <1>2 DEF Matches
<1>5. a \in [1..(m + 1) -> 1..(n + 1)] /\ b \in [1..(n + 1) -> 1..(m + 1)]
  BY <1>2, <1>4
<1>6. \A i \in 1..(m + 1) : b[a[i]] = i /\ tt[a[i]] = ss[i]
  <2> TAKE i \in 1..(m + 1)
  <2>1. CASE i = m + 1
    BY <1>2, <1>3, <2>1
  <2>2. CASE i \in 1..m
    <3>1. a[i] = p[i] /\ p[i] \in 1..n /\ p[i] # n + 1 /\ p[i] \in 1..(n + 1)
      BY <1>2, <1>4, <2>2
    <3>2. b[a[i]] = q[p[i]] /\ tt[a[i]] = t[p[i]]
      BY <1>3, <3>1
    <3>3. QED
      BY <1>3, <1>4, <2>2, <3>2
  <2>3. QED
    BY <1>2, <2>1, <2>2
<1>7. \A j \in 1..(n + 1) : a[b[j]] = j
  <2> TAKE j \in 1..(n + 1)
  <2>1. CASE j = n + 1
    BY <1>2, <2>1
  <2>2. CASE j \in 1..n
    <3>1. b[j] = q[j] /\ q[j] \in 1..m /\ q[j] # m + 1 /\ q[j] \in 1..(m + 1)
      BY <1>2, <1>4, <2>2
    <3>2. a[b[j]] = p[q[j]]
      BY <3>1
    <3>3. QED
      BY <1>4, <2>2, <3>2
  <2>3. QED
    BY <1>2, <2>1, <2>2
<1> HIDE DEF a, b
<1>8. Matches(a, b, ss, tt)
  BY <1>3, <1>5, <1>6, <1>7 DEF Matches
<1>9. QED
  BY <1>8 DEF Rearranged, ss, tt

\* To insert a card is to put it behind and rearrange.
LEMMA InsertRearranges ==
  ASSUME NEW B, NEW r \in Seq(B), NEW x \in B
  PROVE  Rearranged(Append(r, x), Insert(r, x))
<1> DEFINE m == Len(r)
           n == Below(r, x)
           s == Append(r, x)
           t == Insert(r, x)
           a == [i \in 1..(m + 1) |-> IF i <= n THEN i ELSE IF i = m + 1 THEN n + 1 ELSE i + 1]
           b == [j \in 1..(m + 1) |-> IF j <= n THEN j ELSE IF j = n + 1 THEN m + 1 ELSE j - 1]
<1>1. m \in Nat /\ n \in 0..m
  BY BelowBounds
<1>2. DOMAIN s = 1..(m + 1) /\ s[m + 1] = x /\ \A i \in 1..m : s[i] = r[i]
  OBVIOUS
<1>3. /\ DOMAIN t = 1..(m + 1) /\ t[n + 1] = x /\ \A i \in 1..n : t[i] = r[i]
      /\ \A i \in (n + 1)..m : t[i + 1] = r[i]
  <2>1. /\ t \in Seq(B) /\ Len(t) = m + 1
        /\ \A i \in 1..n : t[i] = r[i]
        /\ t[n + 1] = x
        /\ \A i \in (n + 1)..m : t[i + 1] = r[i]
    <3> HIDE DEF s, a, b
    <3>1. t \in Seq(B) /\ Len(t) = m + 1
      BY InsertPlaces
    <3>2. (\A i \in 1..n : t[i] = r[i]) /\ t[n + 1] = x
      BY InsertPlaces
    <3>3. \A i \in (n + 1)..m : t[i + 1] = r[i]
      BY InsertPlaces
    <3>4. QED
      BY <3>1, <3>2, <3>3
  <2>2. DOMAIN t = 1..(m + 1)
    BY <2>1, LenProperties
  <2>3. QED
    BY <2>1, <2>2
<1> HIDE DEF m, n, s, t
<1>4. a \in [1..(m + 1) -> 1..(m + 1)] /\ b \in [1..(m + 1) -> 1..(m + 1)]
  BY <1>1
<1>5. \A i \in 1..(m + 1) : b[a[i]] = i
  BY <1>1
<1>6. \A i \in 1..(m + 1) : t[a[i]] = s[i]
  <2> TAKE i \in 1..(m + 1)
  <2>1. CASE i <= n
    BY <1>1, <1>2, <1>3, <2>1
  <2>2. CASE i > n /\ i = m + 1
    BY <1>1, <1>2, <1>3, <2>2
  <2>3. CASE i > n /\ i # m + 1
    <3>1. a[i] = i + 1 /\ i \in (n + 1)..m /\ i \in 1..m
      BY <1>1, <2>3
    <3>2. QED
      BY <1>2, <1>3, <3>1
  <2>4. QED
    BY <1>1, <2>1, <2>2, <2>3
<1>7. \A j \in 1..(m + 1) : a[b[j]] = j
  BY <1>1
<1> HIDE DEF a, b
<1>8. Matches(a, b, s, t)
  BY <1>2, <1>3, <1>4, <1>5, <1>6, <1>7 DEF Matches
<1>9. QED
  BY <1>8 DEF Rearranged, s, t

\* Sorting rearranges: no card is lost and none is doubled (std::sort, Sorted).
LEMMA SortedRearranges ==
  ASSUME NEW B, NEW s \in Seq(B)
  PROVE  Rearranged(s, Sorted(s))
<1> DEFINE first == CHOOSE g : SortsUp(g, s, Len(s))
           Begin(m) == SubSeq(s, 1, m)
           T == {m \in Nat : m <= Len(s) => first[m] \in Seq(B) /\ Rearranged(Begin(m), first[m])}
<1>1. SortsUp(first, s, Len(s))
  BY SortsUpExists
<1>2. Sorted(s) = first[Len(s)]
  BY DEF Sorted, SortsUp
<1> HIDE DEF first
<1>3. 0 \in T
  <2>1. first[0] = << >>
    BY <1>1 DEF SortsUp
  <2>2. Begin(0) = << >>
    BY SubSeqEmpty
  <2>3. << >> \in Seq(B) /\ Rearranged(<< >>, << >>)
    BY RearrangedSelf
  <2>4. QED
    BY <2>1, <2>2, <2>3
<1>4. ASSUME NEW m \in Nat, m \in T
      PROVE  m + 1 \in T
  <2> SUFFICES ASSUME m + 1 <= Len(s)
               PROVE  first[m + 1] \in Seq(B) /\ Rearranged(Begin(m + 1), first[m + 1])
    OBVIOUS
  <2>1. m <= Len(s) /\ m \in 0..Len(s) /\ m + 1 \in 0..Len(s) /\ m + 1 \in 1..Len(s)
    OBVIOUS
  <2>2. first[m] \in Seq(B) /\ Rearranged(Begin(m), first[m])
    BY <1>4, <2>1
  <2>3. first[m + 1] = Insert(first[m], s[m + 1])
    BY <1>1, <2>1 DEF SortsUp
  <2>4. s[m + 1] \in B
    BY <2>1
  <2>5. Begin(m) \in Seq(B)
    BY <2>1, CutInTwo
  <2>6. Begin(m + 1) = Append(Begin(m), s[m + 1])
    <3>1. /\ 1 \in Int /\ m + 1 \in Int /\ 1 <= m + 1 /\ (m + 1) - 1 = m
          /\ \A i \in 1..(m + 1) : s[i] \in B
      BY <2>1
    <3>2. Begin(m + 1) = SubSeq(s, 1, (m + 1) - 1) \o <<s[m + 1]>>
      BY <3>1, SubSeqRecursiveSecond
    <3>3. Append(Begin(m), s[m + 1]) = Begin(m) \o <<s[m + 1]>>
      BY <2>4, <2>5, AppendIsConcat
    <3>4. QED
      BY <3>1, <3>2, <3>3
  <2> DEFINE a == first[m]
             x == s[m + 1]
             b == Begin(m)
  <2> HIDE DEF a, x, b, Begin
  <2>7. Rearranged(Append(b, x), Append(a, x))
    BY <2>2, <2>4, <2>5, RearrangedAppended DEF a, x, b
  <2>8. Rearranged(Append(a, x), Insert(a, x))
    BY <2>2, <2>4, InsertRearranges DEF a, x
  <2>9. Rearranged(Append(b, x), Insert(a, x))
    BY <2>7, <2>8, RearrangedTwice
  <2>10. Insert(a, x) \in Seq(B)
    BY <2>2, <2>4, InsertType DEF a, x
  <2>11. QED
    BY <2>3, <2>6, <2>9, <2>10 DEF a, x, b
<1>5. Nat \subseteq T
  <2> HIDE DEF T
  <2>1. QED
    BY <1>3, <1>4, NatSetInduction
<1>6. Len(s) \in Nat /\ Begin(Len(s)) = s
  BY SubSeqFull
<1>7. QED
  <2>1. Len(s) \in T
    BY <1>5, <1>6
  <2>2. Rearranged(Begin(Len(s)), first[Len(s)])
    BY <1>6, <2>1
  <2>3. QED
    BY <1>2, <1>6, <2>2

\* An arrangement that a player tries rearranges too, since bringOut compares it, sorted, with
\* his cards.
LEMMA BroughtOut ==
  ASSUME NEW h \in [1..HandSize -> Nat], NEW o \in Bijection(1..HandSize, 1..HandSize)
  PROVE  Rearranged(h, [k \in 1..HandSize |-> h[o[k]]])
<1> DEFINE N == 1..HandSize
           u == [k \in N |-> h[o[k]]]
           p == [i \in N |-> CHOOSE k \in N : o[k] = i]
<1>1. o \in [N -> N] /\ \A i \in N : \E k \in N : o[k] = i
  BY DEF Bijection, Surjection
<1>2. \A k, j \in N : o[k] = o[j] => k = j
  BY DEF Bijection, Injection, IsInjective
<1> HIDE DEF N
<1>3. p \in [N -> N] /\ \A i \in N : o[p[i]] = i
  BY <1>1
<1>4. \A k \in N : p[o[k]] = k
  BY <1>1, <1>2, <1>3
<1>5. DOMAIN h = N /\ DOMAIN u = N /\ \A k \in N : u[k] = h[o[k]]
  BY DEF N
<1> HIDE DEF p, u
<1>6. Matches(p, o, h, u)
  BY <1>1, <1>3, <1>4, <1>5 DEF Matches
<1>7. Rearranged(h, u)
  BY <1>6 DEF Rearranged
<1>8. QED
  BY <1>7 DEF u, N

\* In the normal game each seat holds the cards it has been dealt in this round, in some
\* order, until the next deal.
CardsKept ==
  rules.playType # "banker" =>
    /\ phase # "selMultiple"
    /\ rounds > 0 => \A i \in Seats : Rearranged(dealt[i], hand[i])

\* From deal to deal no card of the normal game is lost, doubled or exchanged, by sorting
\* or by bringing out (tryStartRound, bringOut).
THEOREM NoCardLost == Spec => []CardsKept
<1>1. Init => CardsKept
  BY DEF Init, CardsKept
<1>2. TypeOK /\ CardsKept /\ [Next]_vars => CardsKept'
  <2> SUFFICES ASSUME TypeOK, CardsKept, [Next]_vars, rules'.playType # "banker"
               PROVE  /\ phase' # "selMultiple"
                      /\ rounds' > 0 => \A i \in Seats : Rearranged(dealt'[i], hand'[i])
    BY DEF CardsKept, Rearranged, Matches
  <2>1. CASE Deal
    <3>1. rules.playType # "banker" /\ phase' = "play"
      BY <2>1 DEF Deal
    <3>2. PICK deck \in Decks :
            LET got == [i \in Seats |-> SubSeq(deck, (i - 1) * 13 + 1, i * 13)] IN
            /\ hand' = [i \in Seats |-> InOrder(got[i] \o SubSeq(hand[i], 13 + 1, HandSize))]
            /\ dealt' = got
      BY <2>1, <3>1 DEF Deal, HandSize
    <3> DEFINE got == [i \in Seats |-> SubSeq(deck, (i - 1) * 13 + 1, i * 13)]
    <3>3. /\ hand' = [i \in Seats |-> InOrder(got[i] \o SubSeq(hand[i], 13 + 1, HandSize))]
          /\ dealt' = got
      BY <3>2
    <3>4. \A i \in Seats : got[i] \in Seq(Nat)
      BY ShareOfDeck
    <3> HIDE DEF got
    <3>5. \A i \in Seats : got[i] \o SubSeq(hand[i], 13 + 1, HandSize) = got[i]
      <4> TAKE i \in Seats
      <4>1. SubSeq(hand[i], 13 + 1, HandSize) = << >>
        BY SubSeqEmpty DEF HandSize
      <4>2. got[i] \o << >> = got[i]
        BY <3>4, ConcatEmptySeq
      <4>3. QED
        BY <4>1, <4>2
    <3>6. \A i \in Seats : Rearranged(got[i], Sorted(got[i]))
      BY <3>4, SortedRearranges
    <3>7. \A i \in Seats : dealt'[i] = got[i] /\ hand'[i] = Sorted(got[i])
      BY <3>3, <3>5 DEF InOrder
    <3>8. QED
      BY <3>1, <3>6, <3>7
  <2>2. CASE DealTheRest
    <3>1. rules.playType # "banker" /\ phase = "selMultiple"
      BY <2>2 DEF DealTheRest
    <3>2. QED
      BY <3>1 DEF CardsKept
  <2>3. ASSUME NEW j \in Players, BringOut(j)
        PROVE  /\ phase' # "selMultiple"
               /\ rounds' > 0 => \A i \in Seats : Rearranged(dealt'[i], hand'[i])
    <3>1. phase = "play" /\ rules' = rules /\ rounds' = rounds /\ dealt' = dealt
      BY <2>3 DEF BringOut, Dies
    <3>2. \/ hand' = hand
          \/ \E o \in Orders : hand' = [hand EXCEPT ![j] = [k \in 1..HandSize |-> hand[j][o[k]]]]
      BY <2>3 DEF BringOut, Dies
    <3>3. phase' \in {"play", "settle", "dead"}
      BY <2>3, <3>1 DEF BringOut, Dies
    <3>4. ASSUME rounds > 0, NEW i \in Seats
          PROVE  Rearranged(dealt[i], hand'[i])
      <4>1. Rearranged(dealt[i], hand[i])
        BY <3>1, <3>4 DEF CardsKept
      <4>2. CASE hand'[i] = hand[i]
        BY <4>1, <4>2
      <4>3. CASE hand'[i] # hand[i]
        <5>1. PICK o \in Orders : hand' = [hand EXCEPT ![j] = [k \in 1..HandSize |-> hand[j][o[k]]]]
          BY <3>2, <4>3
        <5>2. hand[i] \in [1..HandSize -> Nat] /\ i \in DOMAIN hand
          BY DEF TypeOK, Hands
        <5>3. i = j /\ hand'[i] = [k \in 1..HandSize |-> hand[i][o[k]]]
          BY <4>3, <5>1, <5>2
        <5>4. Rearranged(hand[i], [k \in 1..HandSize |-> hand[i][o[k]]])
          BY <5>2, BroughtOut, RoundAssumption
        <5>5. QED
          BY <4>1, <5>3, <5>4, RearrangedTwice
      <4>4. QED
        BY <4>2, <4>3
    <3>5. QED
      BY <3>1, <3>3, <3>4
  <2>4. CASE UNCHANGED vars
    BY <2>4 DEF vars, CardsKept
  <2>5. QED
    BY <2>1, <2>2, <2>3, <2>4 DEF Next
<1>3. QED
  BY <1>1, <1>2, TypeCorrect, PTL DEF Spec

-----------------------------------------------------------------------------
(*** Hands are in order ***)

\* In ascending order, as bringOut's comparison with the sorted cards supposes
Ordered(s) == \A i, j \in DOMAIN s : i <= j => s[i] <= s[j]

\* A set of places that has all places before each of its own is known by its size.
LEMMA FirstPlaces ==
  ASSUME NEW m \in Nat, NEW T \in SUBSET (1..m), \A i \in T : \A j \in 1..i : j \in T
  PROVE  T = 1..Cardinality(T)
<1>1. CASE T = {}
  BY <1>1, FS_EmptySet
<1>2. CASE T # {}
  <2>1. T \in SUBSET Nat /\ \A i \in T : i <= m
    OBVIOUS
  <2> DEFINE k == Max(T)
  <2>2. k \in T /\ \A i \in T : i <= k
    BY <1>2, <2>1, MaxIsGreatest
  <2> HIDE DEF k
  <2>3. T = 1..k
    <3>1. k \in 1..m /\ \A i \in T : i \in 1..k
      BY <2>1, <2>2
    <3>2. \A i \in 1..k : i \in T
      BY <2>2
    <3>3. QED
      BY <3>1, <3>2
  <2>4. Cardinality(1..k) = k
    <3>1. k \in Nat /\ 1 \in Int
      BY <2>2
    <3>2. Cardinality(1..k) = IF 1 > k THEN 0 ELSE k - 1 + 1
      BY <3>1, FS_Interval
    <3>3. QED
      BY <2>2, <3>2
  <2>5. QED
    BY <2>3, <2>4
<1>3. QED
  BY <1>1, <1>2

\* Insert keeps the order.
LEMMA InsertOrdered ==
  ASSUME NEW r \in Seq(Nat), NEW x \in Nat, Ordered(r)
  PROVE  Ordered(Insert(r, x))
<1>0. \A i \in (Below(r, x) + 1)..Len(r) : Insert(r, x)[i + 1] = r[i]
  <2>1. PICK S : S = Nat
    OBVIOUS
  <2>2. r \in Seq(S) /\ x \in S
    BY <2>1
  <2>3. QED
    BY <2>2, InsertPlaces
<1> DEFINE n == Below(r, x)
           t == Insert(r, x)
           m == Len(r)
           T == {i \in DOMAIN r : r[i] <= x}
<1>1. m \in Nat /\ DOMAIN r = 1..m /\ \A i \in 1..m : r[i] \in Nat
  OBVIOUS
<1>2. n \in 0..m
  BY BelowBounds
<1>3. T = 1..n
  <2>1. T \in SUBSET (1..m)
    BY <1>1
  <2>2. \A i \in T : \A j \in 1..i : j \in T
    <3> TAKE i \in T
    <3> TAKE j \in 1..i
    <3>1. i \in 1..m /\ r[i] <= x /\ j \in 1..m /\ j <= i
      BY <1>1
    <3>2. r[j] <= r[i]
      BY <1>1, <3>1 DEF Ordered
    <3>3. r[j] <= x
      BY <1>1, <3>1, <3>2
    <3>4. QED
      BY <1>1, <3>1, <3>3
  <2>3. n = Cardinality(T)
    BY DEF Below
  <2> HIDE DEF T, n
  <2>4. QED
    BY <1>1, <2>1, <2>2, <2>3, FirstPlaces
<1>4. \A i \in 1..n : r[i] <= x
  BY <1>3
<1>5. \A i \in (n + 1)..m : r[i] > x
  <2> TAKE i \in (n + 1)..m
  <2>1. i \in 1..m /\ i \notin 1..n
    BY <1>1, <1>2
  <2>2. ~(r[i] <= x)
    BY <1>1, <1>3, <2>1
  <2>3. QED
    BY <1>1, <2>1, <2>2
<1>6. /\ t \in Seq(Nat) /\ Len(t) = m + 1
  BY InsertPlaces
<1>7. (\A i \in 1..n : t[i] = r[i]) /\ t[n + 1] = x
  BY InsertPlaces
<1>8. \A i \in (n + 1)..m : t[i + 1] = r[i]
  BY <1>0
<1>9. DOMAIN t = 1..(m + 1)
  BY <1>6, LenProperties
<1> HIDE DEF n, t, m, T
<1>10. SUFFICES ASSUME NEW i \in 1..(m + 1), NEW j \in 1..(m + 1), i <= j
                PROVE  t[i] <= t[j]
  BY <1>9 DEF Ordered, t
<1>11. \A a, b \in 1..m : a <= b => r[a] <= r[b]
  BY <1>1 DEF Ordered
<1>12. CASE i <= n /\ j <= n
  BY <1>1, <1>2, <1>7, <1>10, <1>11, <1>12
<1>13. CASE i <= n /\ j = n + 1
  BY <1>2, <1>4, <1>7, <1>13
<1>14. CASE i <= n /\ j > n + 1
  <2>1. i \in 1..m /\ i \in 1..n /\ j - 1 \in (n + 1)..m /\ j - 1 \in 1..m /\ (j - 1) + 1 = j /\ i <= j - 1
    BY <1>1, <1>2, <1>14
  <2>2. t[j] = r[j - 1] /\ t[i] = r[i]
    BY <1>7, <1>8, <2>1
  <2>3. QED
    BY <1>11, <2>1, <2>2
<1>15. CASE i = n + 1 /\ j = n + 1
  BY <1>7, <1>15
<1>16. CASE i = n + 1 /\ j > n + 1
  <2>1. j - 1 \in (n + 1)..m /\ j - 1 \in 1..m /\ (j - 1) + 1 = j
    BY <1>1, <1>2, <1>16
  <2>2. t[j] = r[j - 1] /\ r[j - 1] > x /\ r[j - 1] \in Nat
    BY <1>1, <1>5, <1>8, <2>1
  <2>3. QED
    BY <1>7, <1>16, <2>2
<1>17. CASE i > n + 1
  <2>1. /\ i - 1 \in (n + 1)..m /\ i - 1 \in 1..m /\ (i - 1) + 1 = i
        /\ j - 1 \in (n + 1)..m /\ j - 1 \in 1..m /\ (j - 1) + 1 = j /\ i - 1 <= j - 1
    BY <1>1, <1>2, <1>10, <1>17
  <2>2. t[j] = r[j - 1] /\ t[i] = r[i - 1]
    BY <1>8, <2>1
  <2>3. QED
    BY <1>11, <2>1, <2>2
<1>18. QED
  BY <1>2, <1>10, <1>12, <1>13, <1>14, <1>15, <1>16, <1>17

\* Sorted is in order (std::sort, Sorted).
LEMMA SortedIsOrdered ==
  ASSUME NEW s \in Seq(Nat)
  PROVE  Ordered(Sorted(s))
<1> DEFINE first == CHOOSE g : SortsUp(g, s, Len(s))
           T == {m \in Nat : m <= Len(s) => first[m] \in Seq(Nat) /\ Ordered(first[m])}
<1>1. SortsUp(first, s, Len(s))
  BY SortsUpExists
<1>2. Sorted(s) = first[Len(s)]
  BY DEF Sorted, SortsUp
<1> HIDE DEF first
<1>3. 0 \in T
  BY <1>1 DEF SortsUp, Ordered
<1>4. ASSUME NEW m \in Nat, m \in T
      PROVE  m + 1 \in T
  <2> SUFFICES ASSUME m + 1 <= Len(s)
               PROVE  first[m + 1] \in Seq(Nat) /\ Ordered(first[m + 1])
    OBVIOUS
  <2>1. first[m] \in Seq(Nat) /\ Ordered(first[m])
    BY <1>4
  <2>2. first[m + 1] = Insert(first[m], s[m + 1])
    BY <1>1 DEF SortsUp
  <2>3. s[m + 1] \in Nat
    OBVIOUS
  <2>4. Insert(first[m], s[m + 1]) \in Seq(Nat) /\ Ordered(Insert(first[m], s[m + 1]))
    BY <2>1, <2>3, InsertType, InsertOrdered
  <2>5. QED
    BY <2>2, <2>4
<1>5. Nat \subseteq T
  <2> HIDE DEF T
  <2>1. QED
    BY <1>3, <1>4, NatSetInduction
<1>6. Len(s) \in Nat
  OBVIOUS
<1>7. QED
  BY <1>2, <1>5, <1>6

\* The hand of each player who has still to arrange it is in order.
InOrderToArrange ==
  phase \in {"selMultiple", "play"} =>
    \A i \in Seats : (i \in Players => st[i] = "SORT") => Ordered(hand[i])

\* After the five cards of the second deal the hand is in order.
LEMMA PutCardsOrdered ==
  ASSUME NEW h \in [1..HandSize -> Nat], NEW cards \in Seq(Nat), Len(cards) = 5
  PROVE  Ordered(PutCards(h, cards))
<1> DEFINE Put(acc, k) == InOrder([acc EXCEPT ![8 + k] = cards[k]])
<1>1. ASSUME NEW acc \in [1..HandSize -> Nat], NEW k \in 1..5
      PROVE  Put(acc, k) \in [1..HandSize -> Nat] /\ Ordered(Put(acc, k))
  <2> DEFINE s == [acc EXCEPT ![8 + k] = cards[k]]
  <2>1. cards[k] \in Nat
    <3>1. cards \in [1..5 -> Nat]
      BY LenProperties
    <3>2. QED
      BY <3>1
  <2>2. s \in [1..HandSize -> Nat]
    BY <2>1
  <2> HIDE DEF s
  <2>3. s \in Seq(Nat) /\ Len(s) = 13
    BY <2>2, HandIsSeq
  <2>4. InOrder(s) \in [1..HandSize -> Nat] /\ Ordered(InOrder(s))
    BY <2>3, SortedHand, SortedIsOrdered DEF InOrder
  <2>5. QED
    BY <2>4 DEF s
<1>2. PutCards(h, cards) = Put(Put(Put(Put(Put(h, 1), 2), 3), 4), 5)
  BY DEF PutCards
<1> HIDE DEF Put
<1>3. Put(h, 1) \in [1..HandSize -> Nat]
  BY <1>1
<1>4. Put(Put(h, 1), 2) \in [1..HandSize -> Nat]
  BY <1>1, <1>3
<1>5. Put(Put(Put(h, 1), 2), 3) \in [1..HandSize -> Nat]
  BY <1>1, <1>4
<1>6. Put(Put(Put(Put(h, 1), 2), 3), 4) \in [1..HandSize -> Nat]
  BY <1>1, <1>5
<1>7. Ordered(Put(Put(Put(Put(Put(h, 1), 2), 3), 4), 5))
  BY <1>1, <1>6
<1>8. QED
  BY <1>2, <1>7

\* After a deal the hand is in order.
LEMMA DealtOrdered ==
  ASSUME NEW s \in Seq(Nat), NEW n \in Nat, n = 8 \/ n = 13, Len(s) = n,
         NEW h \in [1..HandSize -> Nat]
  PROVE  Ordered(InOrder(s \o SubSeq(h, n + 1, HandSize)))
<1> DEFINE t == SubSeq(h, n + 1, HandSize)
<1>1. t \in Seq(Nat)
  BY RestOfHand
<1> HIDE DEF t
<1>2. s \o t \in Seq(Nat)
  BY <1>1, ConcatProperties
<1>3. QED
  BY <1>2, SortedIsOrdered DEF InOrder, t

\* A player who has still to arrange his hand holds it in order, in the banker's game too:
\* bringOut compares the cards that it is sent, sorted, with his card by card, and so it
\* would refuse every arrangement of a hand that is not (bringOut).
THEOREM HandsInOrder == Spec => []InOrderToArrange
<1>1. Init => InOrderToArrange
  BY DEF Init, InOrderToArrange
<1>2. IInv /\ InOrderToArrange /\ [Next]_vars => InOrderToArrange'
  <2> SUFFICES ASSUME IInv, InOrderToArrange, [Next]_vars, phase' \in {"selMultiple", "play"},
                      NEW i \in Seats, i \in Players => st'[i] = "SORT"
               PROVE  Ordered(hand'[i])
    BY DEF InOrderToArrange, Ordered
  <2>1. hand[i] \in [1..HandSize -> Nat] /\ i \in DOMAIN hand
    BY DEF IInv, TypeOK, Hands
  <2>2. CASE Deal
    <3> DEFINE n == IF rules.playType = "banker" THEN 8 ELSE HandSize
    <3>1. n \in Nat /\ (n = 8 \/ n = 13)
      BY DEF HandSize
    <3>2. PICK deck \in Decks :
            LET got == [k \in Seats |-> SubSeq(deck, (k - 1) * n + 1, k * n)] IN
            hand' = [k \in Seats |-> InOrder(got[k] \o SubSeq(hand[k], n + 1, HandSize))]
      BY <2>2 DEF Deal
    <3> DEFINE s == SubSeq(deck, (i - 1) * n + 1, i * n)
    <3>3. hand'[i] = InOrder(s \o SubSeq(hand[i], n + 1, HandSize))
      BY <3>2
    <3> HIDE DEF n
    <3>4. s \in Seq(Nat) /\ Len(s) = n
      BY <3>1, ShareOfDeck
    <3> HIDE DEF s
    <3>5. QED
      BY <2>1, <3>1, <3>3, <3>4, DealtOrdered
  <2>3. CASE DealTheRest
    <3> DEFINE Five(k) == SubSeq(remain, 5 * Cardinality({j \in Players : j < k}) + 1,
                                         5 * Cardinality({j \in Players : j < k}) + 5)
    <3>1. i \in Players => Five(i) \in Seq(Nat) /\ Len(Five(i)) = 5
      BY <2>3, FiveOfPlayer DEF IInv, TypeOK, RemainEnough, DealTheRest
    <3>2. /\ phase = "selMultiple" /\ st' = st
          /\ hand' = [k \in Seats |-> IF k \in Players THEN PutCards(hand[k], Five(k)) ELSE hand[k]]
      BY <2>3 DEF DealTheRest
    <3> HIDE DEF Five
    <3>3. CASE i \in Players
      BY <2>1, <3>1, <3>2, <3>3, PutCardsOrdered
    <3>4. CASE i \notin Players
      BY <3>2, <3>4 DEF InOrderToArrange
    <3>5. QED
      BY <3>3, <3>4
  <2>4. ASSUME NEW j \in Players, BringOut(j)
        PROVE  Ordered(hand'[i])
    <3>1. phase = "play"
      BY <2>4 DEF BringOut
    <3>2. phase' = "play" => /\ st' = [st EXCEPT ![j] = "COMPARE"]
                             /\ \E h : hand' = [hand EXCEPT ![j] = h]
      BY <2>4 DEF BringOut, Dies
    <3>3. phase' = "play"
      BY <2>4, <3>1 DEF BringOut, Dies
    <3>4. i # j /\ (i \in Players => st[i] = "SORT")
      BY <3>2, <3>3 DEF IInv, TypeOK
    <3>5. hand'[i] = hand[i]
      BY <2>1, <3>2, <3>3, <3>4
    <3>6. QED
      BY <3>1, <3>4, <3>5 DEF InOrderToArrange
  <2>5. CASE UNCHANGED vars
    BY <2>5 DEF vars, InOrderToArrange
  <2>6. QED
    BY <2>2, <2>3, <2>4, <2>5 DEF Next
<1>3. QED
  BY <1>1, <1>2, InvHolds, PTL DEF Spec

-----------------------------------------------------------------------------
(*** What decides between two duns ***)

\* In base 14 a greater digit counts for more than all after it.
LEMMA OneDigit ==
  ASSUME NEW h \in Int, NEW k \in Int, NEW x \in 0..13, NEW y \in 0..13
  PROVE  /\ h * 14 + x > k * 14 + y <=> (h > k \/ (h = k /\ x > y))
         /\ h * 14 + x = k * 14 + y <=> (h = k /\ x = y)
         /\ h * 14 + x \in Int
OBVIOUS

\* Numbers of seven digits in base 14
Digits == [1..7 -> 0..13]

\* The number of the first digits, as far as the seventh
First1(D) == D[1]
First2(D) == First1(D) * 14 + D[2]
First3(D) == First2(D) * 14 + D[3]
First4(D) == First3(D) * 14 + D[4]
First5(D) == First4(D) * 14 + D[5]
First6(D) == First5(D) * 14 + D[6]
First7(D) == First6(D) * 14 + D[7]

\* Of two lists the first place where they differ decides.
Above(s, t) == \E i \in DOMAIN s \cap DOMAIN t : s[i] > t[i] /\ \A j \in 1..(i - 1) : s[j] = t[j]

\* The same for seven places
AboveOfSeven(D, E) ==
  \/ D[1] > E[1]
  \/ D[1] = E[1] /\
     \/ D[2] > E[2]
     \/ D[2] = E[2] /\
        \/ D[3] > E[3]
        \/ D[3] = E[3] /\
           \/ D[4] > E[4]
           \/ D[4] = E[4] /\
              \/ D[5] > E[5]
              \/ D[5] = E[5] /\
                 \/ D[6] > E[6]
                 \/ D[6] = E[6] /\ D[7] > E[7]

\* A number of seven digits is the greater by its first digit that differs.
LEMMA SevenDigits ==
  ASSUME NEW D \in Digits, NEW E \in Digits
  PROVE  First7(D) > First7(E) <=> AboveOfSeven(D, E)
<1>1. /\ D[1] \in 0..13 /\ D[2] \in 0..13 /\ D[3] \in 0..13 /\ D[4] \in 0..13 /\ D[5] \in 0..13
      /\ D[6] \in 0..13 /\ D[7] \in 0..13
      /\ E[1] \in 0..13 /\ E[2] \in 0..13 /\ E[3] \in 0..13 /\ E[4] \in 0..13 /\ E[5] \in 0..13
      /\ E[6] \in 0..13 /\ E[7] \in 0..13
  BY DEF Digits
<1>2. /\ First2(D) \in Int /\ First2(E) \in Int
      /\ First2(D) > First2(E) <=> (First1(D) > First1(E) \/ (First1(D) = First1(E) /\ D[2] > E[2]))
      /\ First2(D) = First2(E) <=> (First1(D) = First1(E) /\ D[2] = E[2])
  <2>1. First1(D) \in Int /\ First1(E) \in Int
    BY <1>1 DEF First1
  <2>2. QED
    BY <1>1, <2>1, OneDigit DEF First2
<1>3. /\ First3(D) \in Int /\ First3(E) \in Int
      /\ First3(D) > First3(E) <=> (First2(D) > First2(E) \/ (First2(D) = First2(E) /\ D[3] > E[3]))
      /\ First3(D) = First3(E) <=> (First2(D) = First2(E) /\ D[3] = E[3])
  BY <1>1, <1>2, OneDigit DEF First3
<1>4. /\ First4(D) \in Int /\ First4(E) \in Int
      /\ First4(D) > First4(E) <=> (First3(D) > First3(E) \/ (First3(D) = First3(E) /\ D[4] > E[4]))
      /\ First4(D) = First4(E) <=> (First3(D) = First3(E) /\ D[4] = E[4])
  BY <1>1, <1>3, OneDigit DEF First4
<1>5. /\ First5(D) \in Int /\ First5(E) \in Int
      /\ First5(D) > First5(E) <=> (First4(D) > First4(E) \/ (First4(D) = First4(E) /\ D[5] > E[5]))
      /\ First5(D) = First5(E) <=> (First4(D) = First4(E) /\ D[5] = E[5])
  BY <1>1, <1>4, OneDigit DEF First5
<1>6. /\ First6(D) \in Int /\ First6(E) \in Int
      /\ First6(D) > First6(E) <=> (First5(D) > First5(E) \/ (First5(D) = First5(E) /\ D[6] > E[6]))
      /\ First6(D) = First6(E) <=> (First5(D) = First5(E) /\ D[6] = E[6])
  BY <1>1, <1>5, OneDigit DEF First6
<1>7. First7(D) > First7(E) <=> (First6(D) > First6(E) \/ (First6(D) = First6(E) /\ D[7] > E[7]))
  BY <1>1, <1>6, OneDigit DEF First7
<1>8. QED
  BY <1>2, <1>3, <1>4, <1>5, <1>6, <1>7, Zenon DEF AboveOfSeven, First1

\* Lists that differ in their first place need no other.
LEMMA FirstDecides ==
  ASSUME NEW s, NEW t, NEW m \in Nat \ {0}, NEW n \in Nat \ {0}, DOMAIN s = 1..m, DOMAIN t = 1..n, s[1] # t[1]
  PROVE  Above(s, t) <=> s[1] > t[1]
<1>1. ASSUME NEW i \in 1..m, i \in 1..n, s[i] > t[i], \A j \in 1..(i - 1) : s[j] = t[j]
      PROVE  s[1] > t[1]
  <2>1. i = 1
    <3>1. i - 1 < 1
      BY <1>1
    <3>2. QED
      BY <1>1, <3>1
  <2>2. QED
    BY <1>1, <2>1
<1>2. ASSUME s[1] > t[1]
      PROVE  Above(s, t)
  <2>1. 1 \in DOMAIN s \cap DOMAIN t /\ \A j \in 1..(1 - 1) : s[j] = t[j]
    OBVIOUS
  <2>2. QED
    BY <1>2, <2>1 DEF Above
<1>3. QED
  BY <1>1, <1>2 DEF Above

\* The first place from k on where two lists of n differ decides.
AboveFrom(k, n, s, t) == \E i \in k..n : s[i] > t[i] /\ \A j \in k..(i - 1) : s[j] = t[j]

\* Place k decides, or the places after it do.
LEMMA AboveByOne ==
  ASSUME NEW n \in Nat, NEW s \in [1..n -> Int], NEW t \in [1..n -> Int], NEW k \in 1..n
  PROVE  /\ AboveFrom(k, n, s, t) <=> s[k] > t[k] \/ (s[k] = t[k] /\ AboveFrom(k + 1, n, s, t))
         /\ ~AboveFrom(n + 1, n, s, t)
<1>1. s[k] \in Int /\ t[k] \in Int
  OBVIOUS
<1>2. ASSUME NEW i \in k..n, s[i] > t[i], \A j \in k..(i - 1) : s[j] = t[j], ~(s[k] > t[k])
      PROVE  s[k] = t[k] /\ AboveFrom(k + 1, n, s, t)
  <2>1. i # k
    BY <1>2
  <2>2. k \in k..(i - 1) /\ i \in (k + 1)..n
    BY <1>2, <2>1
  <2>3. \A j \in (k + 1)..(i - 1) : j \in k..(i - 1)
    OBVIOUS
  <2>4. QED
    BY <1>2, <2>2, <2>3 DEF AboveFrom
<1>3. ASSUME s[k] > t[k]
      PROVE  AboveFrom(k, n, s, t)
  <2>1. k \in k..n /\ \A j \in k..(k - 1) : s[j] = t[j]
    OBVIOUS
  <2>2. QED
    BY <1>3, <2>1 DEF AboveFrom
<1>4. ASSUME s[k] = t[k], AboveFrom(k + 1, n, s, t)
      PROVE  AboveFrom(k, n, s, t)
  <2>1. PICK i \in (k + 1)..n : s[i] > t[i] /\ \A j \in (k + 1)..(i - 1) : s[j] = t[j]
    BY <1>4 DEF AboveFrom
  <2>2. i \in k..n /\ \A j \in k..(i - 1) : j = k \/ j \in (k + 1)..(i - 1)
    BY <2>1
  <2>3. QED
    BY <1>4, <2>1, <2>2 DEF AboveFrom
<1>5. ~AboveFrom(n + 1, n, s, t)
  BY DEF AboveFrom
<1>6. AboveFrom(k, n, s, t) => s[k] > t[k] \/ (s[k] = t[k] /\ AboveFrom(k + 1, n, s, t))
  BY <1>2 DEF AboveFrom
<1>7. QED
  BY <1>3, <1>4, <1>5, <1>6

\* All places are those from the first on.
LEMMA AboveIsFromOne ==
  ASSUME NEW n \in Nat, NEW s \in [1..n -> Int], NEW t \in [1..n -> Int]
  PROVE  Above(s, t) <=> AboveFrom(1, n, s, t)
<1>1. DOMAIN s \cap DOMAIN t = 1..n
  OBVIOUS
<1>2. QED
  BY <1>1 DEF Above, AboveFrom

\* A sum up to the next number has one more summand.
LEMMA SumUpToNext ==
  ASSUME NEW f, NEW n \in Nat, \A i \in 1..(n + 1) : f[i] \in Int
  PROVE  SumFunctionOnSet(f, 1..(n + 1)) = f[n + 1] + SumFunctionOnSet(f, 1..n)
<1>1. IsFiniteSet(1..n) /\ (\A i \in 1..n : f[i] \in Int) /\ n + 1 \notin 1..n /\ f[n + 1] \in Int
  BY UpTo
<1>2. SumFunctionOnSet(f, (1..n) \union {n + 1}) = f[n + 1] + SumFunctionOnSet(f, 1..n)
  BY <1>1, SumAdds
<1>3. (1..n) \union {n + 1} = 1..(n + 1)
  OBVIOUS
<1>4. QED
  BY <1>2, <1>3

\* A sum of five
LEMMA SumOfFive ==
  ASSUME NEW f, \A i \in 1..5 : f[i] \in Int
  PROVE  SumFunctionOnSet(f, 1..5) = f[1] + f[2] + f[3] + f[4] + f[5]
<1> DEFINE S(n) == SumFunctionOnSet(f, 1..n)
<1>1. S(0) = 0
  <2>1. 1..0 = {}
    OBVIOUS
  <2>2. QED
    BY <2>1, SumEmpty
<1>2. ASSUME NEW n \in 0..4
      PROVE  S(n + 1) = f[n + 1] + S(n)
  BY SumUpToNext
<1> HIDE DEF S
<1>3. /\ S(0 + 1) = f[0 + 1] + S(0) /\ S(1 + 1) = f[1 + 1] + S(1) /\ S(2 + 1) = f[2 + 1] + S(2)
      /\ S(3 + 1) = f[3 + 1] + S(3) /\ S(4 + 1) = f[4 + 1] + S(4)
  BY <1>2
<1>4. /\ S(1) = f[1] + S(0) /\ S(2) = f[2] + S(1) /\ S(3) = f[3] + S(2)
      /\ S(4) = f[4] + S(3) /\ S(5) = f[5] + S(4)
  BY <1>3
<1>5. f[1] \in Int /\ f[2] \in Int /\ f[3] \in Int /\ f[4] \in Int /\ f[5] \in Int
  OBVIOUS
<1>6. S(5) = f[1] + f[2] + f[3] + f[4] + f[5]
  BY <1>1, <1>4, <1>5
<1>7. QED
  BY <1>6 DEF S

\* Three and five ranks as the digits of a number in base 14
ThreeWeight(q, add) == (q[1] + add) + (q[2] + add) * 14 + (q[3] + add) * 196
FiveWeight(q, add)  == ThreeWeight(q, add) + (q[4] + add) * 2744 + (q[5] + add) * 38416

\* The weight of three ranks (Weigh)
LEMMA WeighThree ==
  ASSUME NEW q \in Seq(RankType), Len(q) = 3, NEW add \in Int
  PROVE  Weigh(q, add) = ThreeWeight(q, add)
<1> DEFINE f == [i \in DOMAIN q |-> (q[i] + add) * Pow[i]]
<1>1. DOMAIN q = 1..3 /\ q[1] \in Int /\ q[2] \in Int /\ q[3] \in Int
  <2>1. DOMAIN q = 1..3
    OBVIOUS
  <2>2. \A i \in 1..3 : q[i] \in 0..12
    BY RankIs
  <2>3. QED
    BY <2>1, <2>2
<1>2. Pow[1] = 1 /\ Pow[2] = 14 /\ Pow[3] = 196
  BY DEF Pow
<1>3. f[1] = q[1] + add /\ f[2] = (q[2] + add) * 14 /\ f[3] = (q[3] + add) * 196
  <2>1. \A i \in 1..3 : f[i] = (q[i] + add) * Pow[i]
    BY <1>1
  <2> HIDE DEF f
  <2>2. f[1] = (q[1] + add) * Pow[1] /\ f[2] = (q[2] + add) * Pow[2] /\ f[3] = (q[3] + add) * Pow[3]
    BY <2>1
  <2>3. QED
    BY <1>1, <1>2, <2>2
<1>4. DOMAIN f = 1..3 /\ Weigh(q, add) = SumFunction(f)
  BY <1>1 DEF Weigh
<1> HIDE DEF f
<1>5. \A d \in 1..3 : f[d] \in Int
  <2> DEFINE x == q[1] + add
             y == q[2] + add
             z == q[3] + add
  <2>1. x \in Int /\ y \in Int /\ z \in Int /\ f[1] = x /\ f[2] = y * 14 /\ f[3] = z * 196
    <3>1. \A i \in Int : i + add \in Int
      OBVIOUS
    <3>2. QED
      BY <1>1, <1>3, <3>1, Zenon
  <2> HIDE DEF x, y, z
  <2>2. y * 14 \in Int /\ z * 196 \in Int
    BY <2>1, ProductIsInt
  <2>3. f[1] \in Int /\ f[2] \in Int /\ f[3] \in Int
    BY <2>1, <2>2
  <2>4. QED
    BY <2>3
<1>6. SumFunction(f) = f[1] + f[2] + f[3]
  BY <1>4, <1>5, SumOfThree
<1>7. QED
  BY <1>3, <1>4, <1>6 DEF ThreeWeight

\* The weight of five ranks (Weigh)
LEMMA WeighFive ==
  ASSUME NEW q \in Seq(RankType), Len(q) = 5, NEW add \in Int
  PROVE  Weigh(q, add) = FiveWeight(q, add)
<1> DEFINE f == [i \in DOMAIN q |-> (q[i] + add) * Pow[i]]
<1>1. DOMAIN q = 1..5 /\ q[1] \in Int /\ q[2] \in Int /\ q[3] \in Int /\ q[4] \in Int /\ q[5] \in Int
  <2>1. DOMAIN q = 1..5
    OBVIOUS
  <2>2. \A i \in 1..5 : q[i] \in 0..12
    BY RankIs
  <2>3. QED
    BY <2>1, <2>2
<1>2. Pow[1] = 1 /\ Pow[2] = 14 /\ Pow[3] = 196 /\ Pow[4] = 2744 /\ Pow[5] = 38416
  BY DEF Pow
<1>3. /\ f[1] = q[1] + add /\ f[2] = (q[2] + add) * 14 /\ f[3] = (q[3] + add) * 196
      /\ f[4] = (q[4] + add) * 2744 /\ f[5] = (q[5] + add) * 38416
  <2>1. \A i \in 1..5 : f[i] = (q[i] + add) * Pow[i]
    BY <1>1
  <2> HIDE DEF f
  <2>2. f[1] = (q[1] + add) * Pow[1] /\ f[2] = (q[2] + add) * Pow[2] /\ f[3] = (q[3] + add) * Pow[3] /\ f[4] = (q[4] + add) * Pow[4] /\ f[5] = (q[5] + add) * Pow[5]
    BY <2>1
  <2>3. QED
    BY <1>1, <1>2, <2>2
<1>4. Weigh(q, add) = SumFunctionOnSet(f, 1..5)
  <2>1. DOMAIN f = 1..5
    BY <1>1
  <2>2. QED
    BY <2>1 DEF Weigh, SumFunction
<1> HIDE DEF f
<1>5. \A d \in 1..5 : f[d] \in Int
  <2> DEFINE v == q[1] + add
             w == q[2] + add
             x == q[3] + add
             y == q[4] + add
             z == q[5] + add
  <2>1. v \in Int /\ w \in Int /\ x \in Int /\ y \in Int /\ z \in Int
    <3>1. \A i \in Int : i + add \in Int
      OBVIOUS
    <3>2. QED
      BY <1>1, <3>1, Zenon
  <2>2. f[1] = v /\ f[2] = w * 14 /\ f[3] = x * 196 /\ f[4] = y * 2744 /\ f[5] = z * 38416
    BY <1>3
  <2> HIDE DEF v, w, x, y, z
  <2>3. w * 14 \in Int /\ x * 196 \in Int
    BY <2>1, ProductIsInt
  <2>4. y * 2744 \in Int /\ z * 38416 \in Int
    BY <2>1, ProductIsInt, SMT
  <2>5. f[1] \in Int /\ f[2] \in Int /\ f[3] \in Int
    BY <2>1, <2>2, <2>3, SMT
  <2>6. f[4] \in Int /\ f[5] \in Int
    BY <2>2, <2>4, SMT
  <2>7. QED
    BY <2>5, <2>6
<1>6. SumFunctionOnSet(f, 1..5) = f[1] + f[2] + f[3] + f[4] + f[5]
  BY <1>5, SumOfFive
<1>7. QED
  BY <1>3, <1>4, <1>6, SMT DEF FiveWeight, ThreeWeight

\* Four places, one after the other
LEMMA AboveOfFour ==
  ASSUME NEW s \in [1..4 -> Int], NEW t \in [1..4 -> Int]
  PROVE  Above(s, t) <=>
           \/ s[1] > t[1]
           \/ /\ s[1] = t[1]
              /\ \/ s[2] > t[2]
                 \/ /\ s[2] = t[2]
                    /\ s[3] > t[3] \/ (s[3] = t[3] /\ s[4] > t[4])
<1>1. \A k \in 1..4 : AboveFrom(k, 4, s, t) <=> s[k] > t[k] \/ (s[k] = t[k] /\ AboveFrom(k + 1, 4, s, t))
  BY AboveByOne
<1>2. ~AboveFrom(4 + 1, 4, s, t)
  BY DEF AboveFrom
<1>3. Above(s, t) <=> AboveFrom(1, 4, s, t)
  BY AboveIsFromOne
<1>4. /\ AboveFrom(1, 4, s, t) <=> s[1] > t[1] \/ (s[1] = t[1] /\ AboveFrom(2, 4, s, t))
      /\ AboveFrom(2, 4, s, t) <=> s[2] > t[2] \/ (s[2] = t[2] /\ AboveFrom(3, 4, s, t))
      /\ AboveFrom(3, 4, s, t) <=> s[3] > t[3] \/ (s[3] = t[3] /\ AboveFrom(4, 4, s, t))
      /\ AboveFrom(4, 4, s, t) <=> s[4] > t[4] \/ (s[4] = t[4] /\ AboveFrom(5, 4, s, t))
      /\ ~AboveFrom(5, 4, s, t)
  <2>1. 1 \in 1..4 /\ 2 \in 1..4 /\ 3 \in 1..4 /\ 4 \in 1..4 /\ 1 + 1 = 2 /\ 2 + 1 = 3 /\ 3 + 1 = 4 /\ 4 + 1 = 5
    OBVIOUS
  <2>2. /\ AboveFrom(1, 4, s, t) <=> s[1] > t[1] \/ (s[1] = t[1] /\ AboveFrom(1 + 1, 4, s, t))
        /\ AboveFrom(2, 4, s, t) <=> s[2] > t[2] \/ (s[2] = t[2] /\ AboveFrom(2 + 1, 4, s, t))
        /\ AboveFrom(3, 4, s, t) <=> s[3] > t[3] \/ (s[3] = t[3] /\ AboveFrom(3 + 1, 4, s, t))
        /\ AboveFrom(4, 4, s, t) <=> s[4] > t[4] \/ (s[4] = t[4] /\ AboveFrom(4 + 1, 4, s, t))
    BY <1>1, <2>1, Zenon
  <2>3. QED
    BY <1>2, <2>1, <2>2
<1>5. QED
  BY <1>3, <1>4, Zenon

\* Five places, one after the other
LEMMA AboveOfFive ==
  ASSUME NEW s \in [1..5 -> Int], NEW t \in [1..5 -> Int]
  PROVE  Above(s, t) <=>
           \/ s[1] > t[1]
           \/ /\ s[1] = t[1]
              /\ \/ s[2] > t[2]
                 \/ /\ s[2] = t[2]
                    /\ \/ s[3] > t[3]
                       \/ /\ s[3] = t[3]
                          /\ s[4] > t[4] \/ (s[4] = t[4] /\ s[5] > t[5])
<1>1. \A k \in 1..5 : AboveFrom(k, 5, s, t) <=> s[k] > t[k] \/ (s[k] = t[k] /\ AboveFrom(k + 1, 5, s, t))
  BY AboveByOne
<1>2. ~AboveFrom(5 + 1, 5, s, t)
  BY DEF AboveFrom
<1>3. Above(s, t) <=> AboveFrom(1, 5, s, t)
  BY AboveIsFromOne
<1>4. /\ AboveFrom(1, 5, s, t) <=> s[1] > t[1] \/ (s[1] = t[1] /\ AboveFrom(2, 5, s, t))
      /\ AboveFrom(2, 5, s, t) <=> s[2] > t[2] \/ (s[2] = t[2] /\ AboveFrom(3, 5, s, t))
      /\ AboveFrom(3, 5, s, t) <=> s[3] > t[3] \/ (s[3] = t[3] /\ AboveFrom(4, 5, s, t))
      /\ AboveFrom(4, 5, s, t) <=> s[4] > t[4] \/ (s[4] = t[4] /\ AboveFrom(5, 5, s, t))
      /\ AboveFrom(5, 5, s, t) <=> s[5] > t[5] \/ (s[5] = t[5] /\ AboveFrom(6, 5, s, t))
      /\ ~AboveFrom(6, 5, s, t)
  <2>1. 1 \in 1..5 /\ 2 \in 1..5 /\ 3 \in 1..5 /\ 4 \in 1..5 /\ 5 \in 1..5
        /\ 1 + 1 = 2 /\ 2 + 1 = 3 /\ 3 + 1 = 4 /\ 4 + 1 = 5 /\ 5 + 1 = 6
    OBVIOUS
  <2>2. /\ AboveFrom(1, 5, s, t) <=> s[1] > t[1] \/ (s[1] = t[1] /\ AboveFrom(1 + 1, 5, s, t))
        /\ AboveFrom(2, 5, s, t) <=> s[2] > t[2] \/ (s[2] = t[2] /\ AboveFrom(2 + 1, 5, s, t))
        /\ AboveFrom(3, 5, s, t) <=> s[3] > t[3] \/ (s[3] = t[3] /\ AboveFrom(3 + 1, 5, s, t))
        /\ AboveFrom(4, 5, s, t) <=> s[4] > t[4] \/ (s[4] = t[4] /\ AboveFrom(4 + 1, 5, s, t))
        /\ AboveFrom(5, 5, s, t) <=> s[5] > t[5] \/ (s[5] = t[5] /\ AboveFrom(5 + 1, 5, s, t))
    BY <1>1, <2>1, Zenon
  <2>3. QED
    BY <1>2, <2>1, <2>2
<1>5. QED
  BY <1>3, <1>4, Zenon

\* Six places, one after the other
LEMMA AboveOfSix ==
  ASSUME NEW s \in [1..6 -> Int], NEW t \in [1..6 -> Int]
  PROVE  Above(s, t) <=>
           \/ s[1] > t[1]
           \/ /\ s[1] = t[1]
              /\ \/ s[2] > t[2]
                 \/ /\ s[2] = t[2]
                    /\ \/ s[3] > t[3]
                       \/ /\ s[3] = t[3]
                          /\ \/ s[4] > t[4]
                             \/ /\ s[4] = t[4]
                                /\ s[5] > t[5] \/ (s[5] = t[5] /\ s[6] > t[6])
<1>1. \A k \in 1..6 : AboveFrom(k, 6, s, t) <=> s[k] > t[k] \/ (s[k] = t[k] /\ AboveFrom(k + 1, 6, s, t))
  BY AboveByOne
<1>2. ~AboveFrom(6 + 1, 6, s, t)
  BY DEF AboveFrom
<1>3. Above(s, t) <=> AboveFrom(1, 6, s, t)
  BY AboveIsFromOne
<1>4. /\ AboveFrom(1, 6, s, t) <=> s[1] > t[1] \/ (s[1] = t[1] /\ AboveFrom(2, 6, s, t))
      /\ AboveFrom(2, 6, s, t) <=> s[2] > t[2] \/ (s[2] = t[2] /\ AboveFrom(3, 6, s, t))
      /\ AboveFrom(3, 6, s, t) <=> s[3] > t[3] \/ (s[3] = t[3] /\ AboveFrom(4, 6, s, t))
      /\ AboveFrom(4, 6, s, t) <=> s[4] > t[4] \/ (s[4] = t[4] /\ AboveFrom(5, 6, s, t))
      /\ AboveFrom(5, 6, s, t) <=> s[5] > t[5] \/ (s[5] = t[5] /\ AboveFrom(6, 6, s, t))
      /\ AboveFrom(6, 6, s, t) <=> s[6] > t[6] \/ (s[6] = t[6] /\ AboveFrom(7, 6, s, t))
      /\ ~AboveFrom(7, 6, s, t)
  <2>1. 1 \in 1..6 /\ 2 \in 1..6 /\ 3 \in 1..6 /\ 4 \in 1..6 /\ 5 \in 1..6 /\ 6 \in 1..6
        /\ 1 + 1 = 2 /\ 2 + 1 = 3 /\ 3 + 1 = 4 /\ 4 + 1 = 5 /\ 5 + 1 = 6 /\ 6 + 1 = 7
    OBVIOUS
  <2>2. /\ AboveFrom(1, 6, s, t) <=> s[1] > t[1] \/ (s[1] = t[1] /\ AboveFrom(1 + 1, 6, s, t))
        /\ AboveFrom(2, 6, s, t) <=> s[2] > t[2] \/ (s[2] = t[2] /\ AboveFrom(2 + 1, 6, s, t))
        /\ AboveFrom(3, 6, s, t) <=> s[3] > t[3] \/ (s[3] = t[3] /\ AboveFrom(3 + 1, 6, s, t))
        /\ AboveFrom(4, 6, s, t) <=> s[4] > t[4] \/ (s[4] = t[4] /\ AboveFrom(4 + 1, 6, s, t))
        /\ AboveFrom(5, 6, s, t) <=> s[5] > t[5] \/ (s[5] = t[5] /\ AboveFrom(5 + 1, 6, s, t))
        /\ AboveFrom(6, 6, s, t) <=> s[6] > t[6] \/ (s[6] = t[6] /\ AboveFrom(6 + 1, 6, s, t))
    BY <1>1, <2>1, Zenon
  <2>3. QED
    BY <1>2, <2>1, <2>2
<1>5. QED
  BY <1>3, <1>4, Zenon

\* The digits of a point: of two pairs and the card that is left,
OfTwoPairs(a, b, x) == <<a + 1, b + 1, 0, 0, 0, 0, x + 1>>
\* of a pair and three others,
OfOnePair(a, x, y, z) == <<0, a + 1, 0, 0, x + 1, y + 1, z + 1>>
\* and of five different ranks.
OfNoPair(v, w, x, y, z) == <<0, 0, v + 1, w + 1, x + 1, y + 1, z + 1>>

\* Ranks and one more are digits in base 14.
LEMMA DigitsOfPairs ==
  /\ \A a, b, x \in RankType : OfTwoPairs(a, b, x) \in Digits
  /\ \A a, x, y, z \in RankType : OfOnePair(a, x, y, z) \in Digits
  /\ \A v, w, x, y, z \in RankType : OfNoPair(v, w, x, y, z) \in Digits
<1>1. 0 \in 0..13 /\ \A a \in RankType : a + 1 \in 0..13
  BY DEF RankType
<1>2. \A a, b, c, d, e, f, g \in 0..13 : <<a, b, c, d, e, f, g>> \in Digits
  BY DEF Digits
<1>3. ASSUME NEW a \in RankType, NEW b \in RankType, NEW x \in RankType
      PROVE  OfTwoPairs(a, b, x) \in Digits
  BY <1>1, <1>2 DEF OfTwoPairs
<1>4. ASSUME NEW a \in RankType, NEW x \in RankType, NEW y \in RankType, NEW z \in RankType
      PROVE  OfOnePair(a, x, y, z) \in Digits
  BY <1>1, <1>2 DEF OfOnePair
<1>5. ASSUME NEW v \in RankType, NEW w \in RankType, NEW x \in RankType, NEW y \in RankType, NEW z \in RankType
      PROVE  OfNoPair(v, w, x, y, z) \in Digits
  BY <1>1, <1>2 DEF OfNoPair
<1>6. QED
  BY <1>3, <1>4, <1>5

\* Two duns of two pairs: the higher pair, the other pair, the card that is left
LEMMA TwoPairsDecide ==
  ASSUME NEW a \in RankType, NEW b \in RankType, NEW x \in RankType,
         NEW k \in RankType, NEW l \in RankType, NEW u \in RankType
  PROVE  AboveOfSeven(OfTwoPairs(a, b, x), OfTwoPairs(k, l, u)) <=> Above(<<2, a, b, x>>, <<2, k, l, u>>)
<1> DEFINE s == <<2, a, b, x>>
           t == <<2, k, l, u>>
<1>1. a \in Int /\ b \in Int /\ x \in Int /\ k \in Int /\ l \in Int /\ u \in Int
  BY DEF RankType
<1>2. s \in [1..4 -> Int] /\ t \in [1..4 -> Int]
  BY <1>1
<1>3. s[1] = 2 /\ s[2] = a /\ s[3] = b /\ s[4] = x /\ t[1] = 2 /\ t[2] = k /\ t[3] = l /\ t[4] = u
  OBVIOUS
<1>4. Above(s, t) <=> a > k \/ (a = k /\ (b > l \/ (b = l /\ x > u)))
  <2> HIDE DEF s, t
  <2>1. Above(s, t) <=>
           \/ s[1] > t[1]
           \/ /\ s[1] = t[1]
              /\ \/ s[2] > t[2]
                 \/ /\ s[2] = t[2]
                    /\ s[3] > t[3] \/ (s[3] = t[3] /\ s[4] > t[4])
    BY <1>2, AboveOfFour
  <2>2. QED
    BY <1>1, <1>3, <2>1
<1> HIDE DEF s, t
<1>5. AboveOfSeven(OfTwoPairs(a, b, x), OfTwoPairs(k, l, u)) <=> a > k \/ (a = k /\ (b > l \/ (b = l /\ x > u)))
  BY <1>1 DEF AboveOfSeven, OfTwoPairs
<1>6. QED
  BY <1>4, <1>5 DEF s, t

\* Two duns of one pair: the pair, then the others from the highest on
LEMMA OnePairDecides ==
  ASSUME NEW a \in RankType, NEW x \in RankType, NEW y \in RankType, NEW z \in RankType,
         NEW k \in RankType, NEW u \in RankType, NEW v \in RankType, NEW w \in RankType
  PROVE  AboveOfSeven(OfOnePair(a, x, y, z), OfOnePair(k, u, v, w))
           <=> Above(<<1, a, x, y, z>>, <<1, k, u, v, w>>)
<1> DEFINE s == <<1, a, x, y, z>>
           t == <<1, k, u, v, w>>
<1>1. a \in Int /\ x \in Int /\ y \in Int /\ z \in Int /\ k \in Int /\ u \in Int /\ v \in Int /\ w \in Int
  BY DEF RankType
<1>2. s \in [1..5 -> Int] /\ t \in [1..5 -> Int]
  BY <1>1
<1>3. /\ s[1] = 1 /\ s[2] = a /\ s[3] = x /\ s[4] = y /\ s[5] = z
      /\ t[1] = 1 /\ t[2] = k /\ t[3] = u /\ t[4] = v /\ t[5] = w
  OBVIOUS
<1>4. Above(s, t) <=> a > k \/ (a = k /\ (x > u \/ (x = u /\ (y > v \/ (y = v /\ z > w)))))
  <2> HIDE DEF s, t
  <2>1. Above(s, t) <=>
           \/ s[1] > t[1]
           \/ /\ s[1] = t[1]
              /\ \/ s[2] > t[2]
                 \/ /\ s[2] = t[2]
                    /\ \/ s[3] > t[3]
                       \/ /\ s[3] = t[3]
                          /\ s[4] > t[4] \/ (s[4] = t[4] /\ s[5] > t[5])
    BY <1>2, AboveOfFive
  <2>2. QED
    BY <1>1, <1>3, <2>1
<1> HIDE DEF s, t
<1>5. AboveOfSeven(OfOnePair(a, x, y, z), OfOnePair(k, u, v, w))
        <=> a > k \/ (a = k /\ (x > u \/ (x = u /\ (y > v \/ (y = v /\ z > w)))))
  BY <1>1 DEF AboveOfSeven, OfOnePair
<1>6. QED
  BY <1>4, <1>5 DEF s, t

\* Two duns without a pair: the ranks from the highest on
LEMMA NoPairDecides ==
  ASSUME NEW a \in RankType, NEW b \in RankType, NEW x \in RankType, NEW y \in RankType, NEW z \in RankType,
         NEW k \in RankType, NEW l \in RankType, NEW u \in RankType, NEW v \in RankType, NEW w \in RankType
  PROVE  AboveOfSeven(OfNoPair(a, b, x, y, z), OfNoPair(k, l, u, v, w))
           <=> Above(<<0, a, b, x, y, z>>, <<0, k, l, u, v, w>>)
<1> DEFINE s == <<0, a, b, x, y, z>>
           t == <<0, k, l, u, v, w>>
<1>1. /\ a \in Int /\ b \in Int /\ x \in Int /\ y \in Int /\ z \in Int
      /\ k \in Int /\ l \in Int /\ u \in Int /\ v \in Int /\ w \in Int
  BY DEF RankType
<1>2. s \in [1..6 -> Int] /\ t \in [1..6 -> Int]
  BY <1>1
<1>3. /\ s[1] = 0 /\ s[2] = a /\ s[3] = b /\ s[4] = x /\ s[5] = y /\ s[6] = z
      /\ t[1] = 0 /\ t[2] = k /\ t[3] = l /\ t[4] = u /\ t[5] = v /\ t[6] = w
  OBVIOUS
<1>4. Above(s, t) <=>
        a > k \/ (a = k /\ (b > l \/ (b = l /\ (x > u \/ (x = u /\ (y > v \/ (y = v /\ z > w)))))))
  <2> HIDE DEF s, t
  <2>1. Above(s, t) <=>
           \/ s[1] > t[1]
           \/ /\ s[1] = t[1]
              /\ \/ s[2] > t[2]
                 \/ /\ s[2] = t[2]
                    /\ \/ s[3] > t[3]
                       \/ /\ s[3] = t[3]
                          /\ \/ s[4] > t[4]
                             \/ /\ s[4] = t[4]
                                /\ s[5] > t[5] \/ (s[5] = t[5] /\ s[6] > t[6])
    BY <1>2, AboveOfSix
  <2>2. QED
    BY <1>1, <1>3, <2>1
<1> HIDE DEF s, t
<1>5. AboveOfSeven(OfNoPair(a, b, x, y, z), OfNoPair(k, l, u, v, w)) <=>
        a > k \/ (a = k /\ (b > l \/ (b = l /\ (x > u \/ (x = u /\ (y > v \/ (y = v /\ z > w)))))))
  BY <1>1 DEF AboveOfSeven, OfNoPair
<1>6. QED
  BY <1>4, <1>5 DEF s, t

\* What the rules look at where pairs count, the most important first: how many pairs there
\* are, the ranks of the pairs, and the ranks of the others from the highest on
Standing(r) ==
  IF Singles(r) # {} THEN <<2, r[4], r[2], r[Max(Singles(r))]>>
  ELSE IF PairEnds(r) # {}
    THEN LET i == Min(PairEnds(r))
             q == RemoveAt(RemoveAt(r, i), i - 1) IN
         <<1, r[i], q[3], q[2], q[1]>>
  ELSE <<0, r[5], r[4], r[3], r[2], r[1]>>

\* A dun that stands as sr has the point p, and two pairs,
IsOfTwoPairs(sr, p) ==
  \E a, b, x \in RankType : sr = <<2, a, b, x>> /\ p = First7(OfTwoPairs(a, b, x))
\* one pair,
IsOfOnePair(sr, p) ==
  \E a, x, y, z \in RankType : sr = <<1, a, x, y, z>> /\ p = First7(OfOnePair(a, x, y, z))
\* or none.
IsOfNoPair(sr, p) ==
  \E v, w, x, y, z \in RankType :
    sr = <<0, v, w, x, y, z>> /\ p = First7(OfNoPair(v, w, x, y, z))

\* The sums that brandInfo5 computes are these numbers in base 14 (PairsPoint).
LEMMA PointOfDigits ==
  /\ \A a, b, x \in RankType : First7(OfTwoPairs(a, b, x)) = (a + 1) * 14^6 + (b + 1) * 14^5 + x + 1
  /\ \A a, x, y, z \in RankType :
       First7(OfOnePair(a, x, y, z)) = (a + 1) * 14^5 + ((z + 1) + (y + 1) * 14 + (x + 1) * 196)
  /\ \A v, w, x, y, z \in RankType :
       First7(OfNoPair(v, w, x, y, z)) =
         (z + 1) + (y + 1) * 14 + (x + 1) * 196 + (w + 1) * 2744 + (v + 1) * 38416
<1>1. 14^6 = 7529536 /\ 14^5 = 537824
  BY SMT
<1>3. ASSUME NEW a \in RankType, NEW b \in RankType, NEW x \in RankType
      PROVE  First7(OfTwoPairs(a, b, x)) = (a + 1) * 14^6 + (b + 1) * 14^5 + x + 1
  <2>1. a \in Int /\ b \in Int /\ x \in Int /\ a + 1 \in Int /\ b + 1 \in Int /\ x + 1 \in Int /\ 0 \in Int
    BY DEF RankType
  <2>2. QED
    BY <2>1, SMT DEF OfTwoPairs, First1, First2, First3, First4, First5, First6, First7
<1>4. ASSUME NEW a \in RankType, NEW x \in RankType, NEW y \in RankType, NEW z \in RankType
      PROVE  First7(OfOnePair(a, x, y, z)) = (a + 1) * 14^5 + ((z + 1) + (y + 1) * 14 + (x + 1) * 196)
  <2>1. /\ a \in Int /\ x \in Int /\ y \in Int /\ z \in Int /\ 0 \in Int
        /\ a + 1 \in Int /\ x + 1 \in Int /\ y + 1 \in Int /\ z + 1 \in Int
    BY DEF RankType
  <2>2. QED
    BY <2>1, SMT DEF OfOnePair, First1, First2, First3, First4, First5, First6, First7
<1>5. ASSUME NEW v \in RankType, NEW w \in RankType, NEW x \in RankType, NEW y \in RankType, NEW z \in RankType
      PROVE  First7(OfNoPair(v, w, x, y, z)) =
               (z + 1) + (y + 1) * 14 + (x + 1) * 196 + (w + 1) * 2744 + (v + 1) * 38416
  <2>1. /\ v \in Int /\ w \in Int /\ x \in Int /\ y \in Int /\ z \in Int /\ 0 \in Int
        /\ v + 1 \in Int /\ w + 1 \in Int /\ x + 1 \in Int /\ y + 1 \in Int /\ z + 1 \in Int
    BY DEF RankType
  <2>2. QED
    BY <2>1, SMT DEF OfNoPair, First1, First2, First3, First4, First5, First6, First7
<1>6. QED
  BY <1>3, <1>4, <1>5, SMT

\* Every five ranks have two pairs, one, or none, and the point that belongs to it.
LEMMA PointOfShape ==
  ASSUME NEW r \in Seq(RankType), Len(r) = 5
  PROVE  \/ IsOfTwoPairs(Standing(r), PairsPoint(r))
         \/ IsOfOnePair(Standing(r), PairsPoint(r))
         \/ IsOfNoPair(Standing(r), PairsPoint(r))
<1>1. r[1] \in RankType /\ r[2] \in RankType /\ r[3] \in RankType /\ r[4] \in RankType /\ r[5] \in RankType
  <2>1. \A i \in 1..5 : r[i] \in 0..12
    BY RankIs
  <2>2. QED
    BY <2>1 DEF RankType
<1>2. CASE Singles(r) # {}
  <2> DEFINE x == r[Max(Singles(r))]
  <2>1. Singles(r) \in SUBSET Nat /\ Singles(r) # {} /\ \A k \in Singles(r) : k <= 5
    BY <1>2 DEF Singles
  <2>2. Max(Singles(r)) \in Singles(r)
    BY <2>1, MaxIsGreatest
  <2>3. x \in RankType
    <3>1. Max(Singles(r)) \in {1, 3, 5}
      BY <2>2 DEF Singles
    <3>2. QED
      BY <1>1, <3>1
  <2>4. Standing(r) = <<2, r[4], r[2], x>>
    BY <1>2 DEF Standing
  <2>5. PairsPoint(r) = (r[4] + 1) * 14^6 + (r[2] + 1) * 14^5 + x + 1
    BY <1>2, SMT DEF PairsPoint
  <2> HIDE DEF x
  <2>6. PairsPoint(r) = First7(OfTwoPairs(r[4], r[2], x))
    BY <1>1, <2>3, <2>5, PointOfDigits, SMT
  <2>7. QED
    BY <1>1, <2>3, <2>4, <2>6 DEF IsOfTwoPairs
<1>3. CASE Singles(r) = {} /\ PairEnds(r) # {}
  <2> DEFINE i == Min(PairEnds(r))
             q == RemoveAt(RemoveAt(r, i), i - 1)
  <2>1. i \in 2..5
    BY <1>3, PairEndsType
  <2>2. q \in Seq(RankType) /\ Len(q) = 3
    <3>1. i \in 1..Len(r) /\ i - 1 \in 1..4
      BY <2>1
    <3> HIDE DEF i
    <3>2. RemoveAt(r, i) \in Seq(RankType) /\ Len(RemoveAt(r, i)) = 4
      <4>1. PICK B : B = RankType
        OBVIOUS
      <4>2. RemoveAt(r, i) \in Seq(B) /\ Len(RemoveAt(r, i)) = Len(r) - 1
        BY <3>1, <4>1, RemoveAtType
      <4>3. QED
        BY <4>1, <4>2
    <3>3. q \in Seq(RankType) /\ Len(q) = Len(RemoveAt(r, i)) - 1
      <4> DEFINE m == RemoveAt(r, i)
      <4>1. m \in Seq(RankType) /\ i - 1 \in 1..Len(m)
        BY <3>1, <3>2
      <4> HIDE DEF m
      <4>2. RemoveAt(m, i - 1) \in Seq(RankType) /\ Len(RemoveAt(m, i - 1)) = Len(m) - 1
        BY <4>1, RemoveAtType
      <4>3. QED
        BY <4>2 DEF m
    <3>4. QED
      BY <3>2, <3>3
  <2>3. r[i] \in RankType
    <3>1. i \in {2, 3, 4, 5}
      BY <2>1
    <3> HIDE DEF i
    <3>2. QED
      BY <1>1, <3>1
  <2>4. Standing(r) = <<1, r[i], q[3], q[2], q[1]>>
    BY <1>3 DEF Standing
  <2>5. PairsPoint(r) = (r[i] + 1) * 14^5 + Weigh(q, 1)
    BY <1>3, SMT DEF PairsPoint, OnePairPoint
  <2> HIDE DEF i, q
  <2>6. q[1] \in RankType /\ q[2] \in RankType /\ q[3] \in RankType
    <3>1. \A j \in 1..3 : q[j] \in 0..12
      BY <2>2, RankIs
    <3>2. QED
      BY <3>1 DEF RankType
  <2>7. Weigh(q, 1) = ThreeWeight(q, 1)
    BY <2>2, WeighThree
  <2>8. PairsPoint(r) = First7(OfOnePair(r[i], q[3], q[2], q[1]))
    <3> DEFINE a == r[i]
               x == q[3]
               y == q[2]
               z == q[1]
    <3>1. a \in RankType /\ x \in RankType /\ y \in RankType /\ z \in RankType
      BY <2>3, <2>6
    <3>2. PairsPoint(r) = (a + 1) * 14^5 + ((z + 1) + (y + 1) * 14 + (x + 1) * 196)
      BY <2>5, <2>7, SMT DEF ThreeWeight
    <3> HIDE DEF a, x, y, z
    <3>3. First7(OfOnePair(a, x, y, z)) = (a + 1) * 14^5 + ((z + 1) + (y + 1) * 14 + (x + 1) * 196)
      BY <3>1, PointOfDigits, SMT
    <3>4. PairsPoint(r) = First7(OfOnePair(a, x, y, z))
      BY <3>2, <3>3, Zenon
    <3>5. QED
      BY <3>4 DEF a, x, y, z
  <2>9. QED
    BY <2>3, <2>4, <2>6, <2>8 DEF IsOfOnePair
<1>4. CASE Singles(r) = {} /\ PairEnds(r) = {}
  <2>1. Standing(r) = <<0, r[5], r[4], r[3], r[2], r[1]>> /\ PairsPoint(r) = Weigh(r, 1)
    BY <1>4 DEF Standing, PairsPoint
  <2>2. Weigh(r, 1) = FiveWeight(r, 1)
    BY WeighFive
  <2>3. PairsPoint(r) = First7(OfNoPair(r[5], r[4], r[3], r[2], r[1]))
    <3> DEFINE v == r[5]
               w == r[4]
               x == r[3]
               y == r[2]
               z == r[1]
    <3>1. v \in RankType /\ w \in RankType /\ x \in RankType /\ y \in RankType /\ z \in RankType
      BY <1>1
    <3>2. PairsPoint(r) = ((z + 1) + (y + 1) * 14 + (x + 1) * 196) + (w + 1) * 2744 + (v + 1) * 38416
      BY <2>1, <2>2, SMT DEF FiveWeight, ThreeWeight
    <3> DEFINE p == PairsPoint(r)
               n == ((z + 1) + (y + 1) * 14 + (x + 1) * 196) + (w + 1) * 2744 + (v + 1) * 38416
               o == First7(OfNoPair(v, w, x, y, z))
    <3> HIDE DEF v, w, x, y, z
    <3>3. o = n
      BY <3>1, PointOfDigits, SMTT(60)
    <3>4. p = n
      BY <3>2
    <3> HIDE DEF p, n, o
    <3>5. p = o
      BY <3>3, <3>4
    <3>6. PairsPoint(r) = First7(OfNoPair(v, w, x, y, z))
      BY <3>5 DEF p, o
    <3>7. QED
      BY <3>6 DEF v, w, x, y, z
  <2>4. QED
    BY <1>1, <2>1, <2>3 DEF IsOfNoPair
<1>5. QED
  BY <1>2, <1>3, <1>4

\* A greater first digit decides, and a greater second after equal first ones.
LEMMA FirstOfSeven ==
  ASSUME NEW D \in Digits, NEW E \in Digits
  PROVE  /\ D[1] > E[1] => First7(D) > First7(E) /\ ~(First7(E) > First7(D))
         /\ D[1] = E[1] /\ D[2] > E[2] => First7(D) > First7(E) /\ ~(First7(E) > First7(D))
<1>1. D[1] \in Int /\ E[1] \in Int /\ D[2] \in Int /\ E[2] \in Int
  BY DEF Digits
<1>2. First7(D) > First7(E) <=> AboveOfSeven(D, E)
  BY SevenDigits
<1>3. First7(E) > First7(D) <=> AboveOfSeven(E, D)
  BY SevenDigits
<1>4. QED
  BY <1>1, <1>2, <1>3 DEF AboveOfSeven

\* More pairs have the greater point, whatever their ranks: no digit runs over into the pairs'.
LEMMA MorePairs ==
  ASSUME NEW sr, NEW p, NEW ss, NEW q,
         \/ IsOfTwoPairs(sr, p) /\ (IsOfOnePair(ss, q) \/ IsOfNoPair(ss, q))
         \/ IsOfOnePair(sr, p) /\ IsOfNoPair(ss, q)
  PROVE  p > q /\ ~(q > p) /\ Above(sr, ss) /\ ~Above(ss, sr)
<1>1. ASSUME NEW D \in Digits, NEW E \in Digits, D[1] > E[1] \/ (D[1] = E[1] /\ D[2] > E[2]),
             p = First7(D), q = First7(E)
      PROVE  p > q /\ ~(q > p)
  BY <1>1, FirstOfSeven, Zenon
<1>2. ASSUME NEW m \in Nat \ {0}, NEW n \in Nat \ {0}, DOMAIN sr = 1..m, DOMAIN ss = 1..n,
             sr[1] \in Int, ss[1] \in Int, sr[1] > ss[1]
      PROVE  Above(sr, ss) /\ ~Above(ss, sr)
  <2>1. sr[1] # ss[1] /\ ~(ss[1] > sr[1])
    BY <1>2
  <2>2. Above(sr, ss) <=> sr[1] > ss[1]
    BY <1>2, <2>1, FirstDecides
  <2>3. Above(ss, sr) <=> ss[1] > sr[1]
    BY <1>2, <2>1, FirstDecides
  <2>4. QED
    BY <1>2, <2>1, <2>2, <2>3
<1>3. ASSUME NEW a \in RankType, NEW b \in RankType, NEW x \in RankType,
             sr = <<2, a, b, x>>, p = First7(OfTwoPairs(a, b, x)), IsOfOnePair(ss, q)
      PROVE  p > q /\ ~(q > p) /\ Above(sr, ss) /\ ~Above(ss, sr)
  <2>1. PICK k \in RankType, u \in RankType, v \in RankType, w \in RankType :
          ss = <<1, k, u, v, w>> /\ q = First7(OfOnePair(k, u, v, w))
    BY <1>3 DEF IsOfOnePair
  <2>2. OfTwoPairs(a, b, x) \in Digits /\ OfOnePair(k, u, v, w) \in Digits
    BY DigitsOfPairs
  <2>3. OfTwoPairs(a, b, x)[1] > OfOnePair(k, u, v, w)[1]
    BY DEF OfTwoPairs, OfOnePair, RankType
  <2>4. p > q /\ ~(q > p)
    BY <1>1, <1>3, <2>1, <2>2, <2>3
  <2>5. DOMAIN sr = 1..4 /\ DOMAIN ss = 1..5 /\ sr[1] = 2 /\ ss[1] = 1
    BY <1>3, <2>1
  <2>6. QED
    BY <1>2, <2>4, <2>5
<1>4. ASSUME NEW a \in RankType, NEW b \in RankType, NEW x \in RankType,
             sr = <<2, a, b, x>>, p = First7(OfTwoPairs(a, b, x)), IsOfNoPair(ss, q)
      PROVE  p > q /\ ~(q > p) /\ Above(sr, ss) /\ ~Above(ss, sr)
  <2>1. PICK k \in RankType, l \in RankType, u \in RankType, v \in RankType, w \in RankType :
          ss = <<0, k, l, u, v, w>> /\ q = First7(OfNoPair(k, l, u, v, w))
    BY <1>4 DEF IsOfNoPair
  <2>2. OfTwoPairs(a, b, x) \in Digits /\ OfNoPair(k, l, u, v, w) \in Digits
    BY DigitsOfPairs
  <2>3. OfTwoPairs(a, b, x)[1] > OfNoPair(k, l, u, v, w)[1]
    BY DEF OfTwoPairs, OfNoPair, RankType
  <2>4. p > q /\ ~(q > p)
    BY <1>1, <1>4, <2>1, <2>2, <2>3
  <2>5. DOMAIN sr = 1..4 /\ DOMAIN ss = 1..6 /\ sr[1] = 2 /\ ss[1] = 0
    BY <1>4, <2>1
  <2>6. QED
    BY <1>2, <2>4, <2>5
<1>5. ASSUME NEW a \in RankType, NEW x \in RankType, NEW y \in RankType, NEW z \in RankType,
             sr = <<1, a, x, y, z>>, p = First7(OfOnePair(a, x, y, z)), IsOfNoPair(ss, q)
      PROVE  p > q /\ ~(q > p) /\ Above(sr, ss) /\ ~Above(ss, sr)
  <2>1. PICK k \in RankType, l \in RankType, u \in RankType, v \in RankType, w \in RankType :
          ss = <<0, k, l, u, v, w>> /\ q = First7(OfNoPair(k, l, u, v, w))
    BY <1>5 DEF IsOfNoPair
  <2>2. OfOnePair(a, x, y, z) \in Digits /\ OfNoPair(k, l, u, v, w) \in Digits
    BY DigitsOfPairs
  <2>3. /\ OfOnePair(a, x, y, z)[1] = OfNoPair(k, l, u, v, w)[1]
        /\ OfOnePair(a, x, y, z)[2] > OfNoPair(k, l, u, v, w)[2]
    BY DEF OfOnePair, OfNoPair, RankType
  <2>4. p > q /\ ~(q > p)
    BY <1>1, <1>5, <2>1, <2>2, <2>3
  <2>5. DOMAIN sr = 1..5 /\ DOMAIN ss = 1..6 /\ sr[1] = 1 /\ ss[1] = 0
    BY <1>5, <2>1
  <2>6. QED
    BY <1>2, <2>4, <2>5
<1>6. ASSUME IsOfTwoPairs(sr, p), IsOfOnePair(ss, q) \/ IsOfNoPair(ss, q)
      PROVE  p > q /\ ~(q > p) /\ Above(sr, ss) /\ ~Above(ss, sr)
  BY <1>3, <1>4, <1>6 DEF IsOfTwoPairs
<1>7. ASSUME IsOfOnePair(sr, p), IsOfNoPair(ss, q)
      PROVE  p > q /\ ~(q > p) /\ Above(sr, ss) /\ ~Above(ss, sr)
  BY <1>5, <1>7 DEF IsOfOnePair
<1>8. QED
  BY <1>6, <1>7

\* With the same number of pairs the ranks decide.
LEMMA SamePairs ==
  ASSUME NEW sr, NEW p, NEW ss, NEW q,
         \/ IsOfTwoPairs(sr, p) /\ IsOfTwoPairs(ss, q)
         \/ IsOfOnePair(sr, p) /\ IsOfOnePair(ss, q)
         \/ IsOfNoPair(sr, p) /\ IsOfNoPair(ss, q)
  PROVE  p > q <=> Above(sr, ss)
<1>1. CASE IsOfTwoPairs(sr, p) /\ IsOfTwoPairs(ss, q)
  <2>1. PICK a \in RankType, b \in RankType, x \in RankType :
          sr = <<2, a, b, x>> /\ p = First7(OfTwoPairs(a, b, x))
    BY <1>1 DEF IsOfTwoPairs
  <2>2. PICK k \in RankType, l \in RankType, u \in RankType :
          ss = <<2, k, l, u>> /\ q = First7(OfTwoPairs(k, l, u))
    BY <1>1 DEF IsOfTwoPairs
  <2>3. OfTwoPairs(a, b, x) \in Digits /\ OfTwoPairs(k, l, u) \in Digits
    BY DigitsOfPairs
  <2>4. p > q <=> AboveOfSeven(OfTwoPairs(a, b, x), OfTwoPairs(k, l, u))
    BY <2>1, <2>2, <2>3, SevenDigits
  <2>5. QED
    BY <2>1, <2>2, <2>4, TwoPairsDecide
<1>2. CASE IsOfOnePair(sr, p) /\ IsOfOnePair(ss, q)
  <2>1. PICK a \in RankType, x \in RankType, y \in RankType, z \in RankType :
          sr = <<1, a, x, y, z>> /\ p = First7(OfOnePair(a, x, y, z))
    BY <1>2 DEF IsOfOnePair
  <2>2. PICK k \in RankType, u \in RankType, v \in RankType, w \in RankType :
          ss = <<1, k, u, v, w>> /\ q = First7(OfOnePair(k, u, v, w))
    BY <1>2 DEF IsOfOnePair
  <2>3. OfOnePair(a, x, y, z) \in Digits /\ OfOnePair(k, u, v, w) \in Digits
    BY DigitsOfPairs
  <2>4. p > q <=> AboveOfSeven(OfOnePair(a, x, y, z), OfOnePair(k, u, v, w))
    BY <2>1, <2>2, <2>3, SevenDigits
  <2>5. QED
    BY <2>1, <2>2, <2>4, OnePairDecides
<1>3. CASE IsOfNoPair(sr, p) /\ IsOfNoPair(ss, q)
  <2>1. PICK a \in RankType, b \in RankType, x \in RankType, y \in RankType, z \in RankType :
          sr = <<0, a, b, x, y, z>> /\ p = First7(OfNoPair(a, b, x, y, z))
    BY <1>3 DEF IsOfNoPair
  <2>2. PICK k \in RankType, l \in RankType, u \in RankType, v \in RankType, w \in RankType :
          ss = <<0, k, l, u, v, w>> /\ q = First7(OfNoPair(k, l, u, v, w))
    BY <1>3 DEF IsOfNoPair
  <2>3. OfNoPair(a, b, x, y, z) \in Digits /\ OfNoPair(k, l, u, v, w) \in Digits
    BY DigitsOfPairs
  <2>4. p > q <=> AboveOfSeven(OfNoPair(a, b, x, y, z), OfNoPair(k, l, u, v, w))
    BY <2>1, <2>2, <2>3, SevenDigits
  <2>5. QED
    BY <2>1, <2>2, <2>4, NoPairDecides
<1>4. QED
  BY <1>1, <1>2, <1>3

\* The point orders five ranks as their standing does (PairsPoint).
LEMMA PointsByStanding ==
  ASSUME NEW r \in Seq(RankType), Len(r) = 5, NEW s \in Seq(RankType), Len(s) = 5
  PROVE  PairsPoint(r) > PairsPoint(s) <=> Above(Standing(r), Standing(s))
<1> DEFINE sr == Standing(r)
           p == PairsPoint(r)
           ss == Standing(s)
           q == PairsPoint(s)
<1>1. IsOfTwoPairs(sr, p) \/ IsOfOnePair(sr, p) \/ IsOfNoPair(sr, p)
  BY PointOfShape
<1>2. IsOfTwoPairs(ss, q) \/ IsOfOnePair(ss, q) \/ IsOfNoPair(ss, q)
  BY PointOfShape
<1> HIDE DEF sr, p, ss, q
<1>3. CASE \/ IsOfTwoPairs(sr, p) /\ IsOfTwoPairs(ss, q)
           \/ IsOfOnePair(sr, p) /\ IsOfOnePair(ss, q)
           \/ IsOfNoPair(sr, p) /\ IsOfNoPair(ss, q)
  <2>1. p > q <=> Above(sr, ss)
    BY <1>3, SamePairs
  <2>2. QED
    BY <2>1 DEF sr, p, ss, q
<1>4. CASE \/ IsOfTwoPairs(sr, p) /\ (IsOfOnePair(ss, q) \/ IsOfNoPair(ss, q))
           \/ IsOfOnePair(sr, p) /\ IsOfNoPair(ss, q)
  <2>1. p > q /\ Above(sr, ss)
    BY <1>4, MorePairs
  <2>2. QED
    BY <2>1 DEF sr, p, ss, q
<1>5. CASE \/ IsOfTwoPairs(ss, q) /\ (IsOfOnePair(sr, p) \/ IsOfNoPair(sr, p))
           \/ IsOfOnePair(ss, q) /\ IsOfNoPair(sr, p)
  <2>1. ~(p > q) /\ ~Above(sr, ss)
    BY <1>5, MorePairs
  <2>2. QED
    BY <2>1 DEF sr, p, ss, q
<1>6. QED
  BY <1>1, <1>2, <1>3, <1>4, <1>5

\* The brands that are ordered by their height,
Straights == {Brand.straightFlush, Brand.straight}
\* and those of which only the rank of three or more equal cards counts
Likes == {Brand.fiveOfKind, Brand.fourOfKind, Brand.fullHouse, Brand.threeOfKind}

\* What the rules look at between two duns of five of one brand: in a straight whether it has
\* the ace, and then its height, where the one from the ace to the five is the lowest with an
\* ace; the rank of three or more alike; or how the dun stands
DecidesInBrand(b, r) ==
  CASE b \in Straights -> <<IF r[5] = Ace THEN 1 ELSE 0, IF r = LittleStraight THEN 0 ELSE r[5]>>
    [] b \in Likes     -> <<r[3]>>
    [] OTHER           -> Standing(r)

\* and before all that the brand
Decides5(info, r) == <<info.b>> \o DecidesInBrand(info.b, r)

\* A dun of five has a brand that fits it (RankedInfo5).
LEMMA FiveBrand ==
  ASSUME NEW r \in Seq(RankType), Len(r) = 5, NEW oneSuit
  PROVE  LET b == RankedInfo5(r, oneSuit).b IN b \in 0..9 /\ FitsFive(b, r, oneSuit)
<1> DEFINE T == {n \in 0..9 : FitsFive(n, r, oneSuit)}
           b == Max(T)
<1>1. T \in SUBSET Nat /\ T # {} /\ \A n \in T : n <= 9
  <2>1. 0 \in T
    BY DEF FitsFive, Brand
  <2>2. QED
    BY <2>1
<1>2. b \in T
  BY <1>1, MaxIsGreatest
<1>3. RankedInfo5(r, oneSuit).b = b
  BY DEF RankedInfo5, InfoOfFive
<1>4. QED
  BY <1>2, <1>3

\* One place
LEMMA AboveOfOne ==
  ASSUME NEW x \in Int, NEW y \in Int
  PROVE  Above(<<x>>, <<y>>) <=> x > y
<1> DEFINE s == <<x>>
           t == <<y>>
<1>1. DOMAIN s \cap DOMAIN t = {1} /\ s[1] = x /\ t[1] = y /\ \A j \in 1..(1 - 1) : s[j] = t[j]
  OBVIOUS
<1> HIDE DEF s, t
<1>2. Above(s, t) <=> x > y
  BY <1>1 DEF Above
<1>3. QED
  BY <1>2 DEF s, t

\* Two places
LEMMA AboveOfTwo ==
  ASSUME NEW a \in Int, NEW b \in Int, NEW k \in Int, NEW l \in Int
  PROVE  Above(<<a, b>>, <<k, l>>) <=> a > k \/ (a = k /\ b > l)
<1> DEFINE s == <<a, b>>
           t == <<k, l>>
<1>1. s \in [1..2 -> Int] /\ t \in [1..2 -> Int] /\ s[1] = a /\ s[2] = b /\ t[1] = k /\ t[2] = l
  OBVIOUS
<1> HIDE DEF s, t
<1>2. Above(s, t) <=> AboveFrom(1, 2, s, t)
  BY <1>1, AboveIsFromOne
<1>3. \A i \in 1..2 : AboveFrom(i, 2, s, t) <=> s[i] > t[i] \/ (s[i] = t[i] /\ AboveFrom(i + 1, 2, s, t))
  BY <1>1, AboveByOne
<1>4. ~AboveFrom(2 + 1, 2, s, t)
  BY DEF AboveFrom
<1>5. /\ AboveFrom(1, 2, s, t) <=> s[1] > t[1] \/ (s[1] = t[1] /\ AboveFrom(1 + 1, 2, s, t))
      /\ AboveFrom(2, 2, s, t) <=> s[2] > t[2] \/ (s[2] = t[2] /\ AboveFrom(2 + 1, 2, s, t))
      /\ 1 + 1 = 2
  BY <1>3
<1>6. Above(s, t) <=> a > k \/ (a = k /\ b > l)
  BY <1>1, <1>2, <1>4, <1>5, Zenon
<1>7. QED
  BY <1>6 DEF s, t

\* Four steps of one rank
LEMMA FourUp ==
  ASSUME NEW a \in 0..12, NEW b \in 0..12, NEW k \in 0..12, NEW l \in 0..12, NEW m \in 0..12,
         b = a + 1, k = b + 1, l = k + 1, m = l + 1
  PROVE  m = a + 4
OBVIOUS

\* 14 and 15 are the points of the straights with an ace, one more than the height those of the others.
LEMMA AceThenHeight ==
  ASSUME NEW a, NEW b, NEW p, NEW k, NEW l, NEW q,
         \/ a = 1 /\ b = 0 /\ p = 14
         \/ a = 1 /\ b = 12 /\ p = 15
         \/ a = 0 /\ b \in 0..11 /\ p = b + 1,
         \/ k = 1 /\ l = 0 /\ q = 14
         \/ k = 1 /\ l = 12 /\ q = 15
         \/ k = 0 /\ l \in 0..11 /\ q = l + 1
  PROVE  p > q <=> a > k \/ (a = k /\ b > l)
<1>1. CASE a = 1 /\ b = 0 /\ p = 14
  BY <1>1
<1>2. CASE a = 1 /\ b = 12 /\ p = 15
  BY <1>2
<1>3. CASE a = 0 /\ b \in 0..11 /\ p = b + 1
  BY <1>3
<1>4. QED
  BY <1>1, <1>2, <1>3

\* The points of straights order them (StraightPoint).
LEMMA StraightsByHeight ==
  ASSUME NEW r \in Seq(RankType), Len(r) = 5, Consecutive(r) \/ r = LittleStraight,
         NEW s \in Seq(RankType), Len(s) = 5, Consecutive(s) \/ s = LittleStraight
  PROVE  StraightPoint(r) > StraightPoint(s)
           <=> Above(<<IF r[5] = Ace THEN 1 ELSE 0, IF r = LittleStraight THEN 0 ELSE r[5]>>,
                     <<IF s[5] = Ace THEN 1 ELSE 0, IF s = LittleStraight THEN 0 ELSE s[5]>>)
<1>1. ASSUME NEW q \in Seq(RankType), Len(q) = 5, Consecutive(q) \/ q = LittleStraight
      PROVE  /\ q[1] \in 0..12 /\ q[5] \in 0..12
             /\ q = LittleStraight <=> q[5] = Ace /\ q[1] = 0
  <2>1. \A i \in 1..5 : q[i] \in 0..12
    BY <1>1, RankIs
  <2>2. q[1] \in 0..12 /\ q[2] \in 0..12 /\ q[3] \in 0..12 /\ q[4] \in 0..12 /\ q[5] \in 0..12
    BY <2>1
  <2>3. CASE q = LittleStraight
    BY <2>2, <2>3 DEF LittleStraight
  <2>4. CASE Consecutive(q)
    <3>1. \A i \in 2..5 : q[i] = q[i - 1] + 1
      BY <1>1, <2>4 DEF Consecutive
    <3>2. q[2] = q[2 - 1] + 1 /\ q[3] = q[3 - 1] + 1 /\ q[4] = q[4 - 1] + 1 /\ q[5] = q[5 - 1] + 1
      BY <3>1
    <3>3. q[5] = q[1] + 4
      <4>1. 2 - 1 = 1 /\ 3 - 1 = 2 /\ 4 - 1 = 3 /\ 5 - 1 = 4
        OBVIOUS
      <4>2. q[2] = q[1] + 1 /\ q[3] = q[2] + 1 /\ q[4] = q[3] + 1 /\ q[5] = q[4] + 1
        BY <3>2, <4>1
      <4> DEFINE a == q[1]
                 b == q[2]
                 k == q[3]
                 l == q[4]
                 m == q[5]
      <4>3. /\ a \in 0..12 /\ b \in 0..12 /\ k \in 0..12 /\ l \in 0..12 /\ m \in 0..12
            /\ b = a + 1 /\ k = b + 1 /\ l = k + 1 /\ m = l + 1
        BY <2>2, <4>2, Zenon
      <4> HIDE DEF a, b, k, l, m
      <4>4. m = a + 4
        BY <4>3, FourUp
      <4>5. QED
        BY <4>4, Zenon DEF a, m
    <3>4. ~(q[5] = Ace /\ q[1] = 0)
      BY <2>2, <3>3 DEF Ace
    <3>5. q = LittleStraight => q[5] = Ace /\ q[1] = 0
      BY DEF LittleStraight
    <3>6. QED
      BY <2>2, <3>4, <3>5
  <2>5. QED
    BY <1>1, <2>3, <2>4
<1>2. /\ r[1] \in 0..12 /\ r[5] \in 0..12 /\ s[1] \in 0..12 /\ s[5] \in 0..12
      /\ r = LittleStraight <=> r[5] = Ace /\ r[1] = 0
      /\ s = LittleStraight <=> s[5] = Ace /\ s[1] = 0
  BY <1>1
<1> DEFINE a == IF r[5] = Ace THEN 1 ELSE 0
           b == IF r = LittleStraight THEN 0 ELSE r[5]
           k == IF s[5] = Ace THEN 1 ELSE 0
           l == IF s = LittleStraight THEN 0 ELSE s[5]
<1>3. a \in Int /\ b \in Int /\ k \in Int /\ l \in Int
  BY <1>2
<1>4. StraightPoint(r) > StraightPoint(s) <=> a > k \/ (a = k /\ b > l)
  <2>1. \/ a = 1 /\ b = 0 /\ StraightPoint(r) = 14
        \/ a = 1 /\ b = 12 /\ StraightPoint(r) = 15
        \/ a = 0 /\ b \in 0..11 /\ StraightPoint(r) = b + 1
    BY <1>2 DEF StraightPoint, Ace
  <2>2. \/ k = 1 /\ l = 0 /\ StraightPoint(s) = 14
        \/ k = 1 /\ l = 12 /\ StraightPoint(s) = 15
        \/ k = 0 /\ l \in 0..11 /\ StraightPoint(s) = l + 1
    BY <1>2 DEF StraightPoint, Ace
  <2> HIDE DEF a, b, k, l
  <2>3. QED
    BY <2>1, <2>2, AceThenHeight
<1> HIDE DEF a, b, k, l
<1>5. Above(<<a, b>>, <<k, l>>) <=> a > k \/ (a = k /\ b > l)
  BY <1>3, AboveOfTwo
<1>6. QED
  BY <1>4, <1>5 DEF a, b, k, l

\* An equal first place decides nothing.
LEMMA AboveInBrand ==
  ASSUME NEW b \in Int, NEW s, NEW t, NEW m \in Nat, NEW n \in Nat, DOMAIN s = 1..m, DOMAIN t = 1..n,
         s \in Seq(Int), t \in Seq(Int)
  PROVE  Above(<<b>> \o s, <<b>> \o t) <=> Above(s, t)
<1> DEFINE v == <<b>> \o s
           w == <<b>> \o t
<1>1. /\ DOMAIN v = 1..(m + 1) /\ DOMAIN w = 1..(n + 1) /\ v[1] = b /\ w[1] = b
      /\ \A i \in 1..m : v[i + 1] = s[i]
      /\ \A i \in 1..n : w[i + 1] = t[i]
  <2>1. Len(s) = m /\ Len(t) = n
    OBVIOUS
  <2>2. <<b>> \in Seq(Int) /\ Len(<<b>>) = 1
    OBVIOUS
  <2>3. QED
    BY <2>1, <2>2
<1> HIDE DEF v, w
<1>2. ASSUME NEW i \in 1..m, i \in 1..n, s[i] > t[i], \A j \in 1..(i - 1) : s[j] = t[j]
      PROVE  Above(v, w)
  <2>1. i + 1 \in DOMAIN v \cap DOMAIN w /\ v[i + 1] > w[i + 1]
    BY <1>1, <1>2
  <2>2. ASSUME NEW j \in 1..i
        PROVE  v[j] = w[j]
    <3>1. CASE j = 1
      BY <1>1, <3>1
    <3>2. CASE j # 1
      <4>1. j - 1 \in 1..(i - 1) /\ j - 1 \in 1..m /\ j - 1 \in 1..n /\ (j - 1) + 1 = j
        BY <1>2, <3>2
      <4>2. v[(j - 1) + 1] = s[j - 1] /\ w[(j - 1) + 1] = t[j - 1] /\ s[j - 1] = t[j - 1]
        BY <1>1, <1>2, <4>1
      <4>3. QED
        BY <4>1, <4>2
    <3>3. QED
      BY <3>1, <3>2
  <2>3. (i + 1) - 1 = i
    OBVIOUS
  <2>4. QED
    BY <2>1, <2>2, <2>3 DEF Above
<1>3. ASSUME NEW i \in 1..(m + 1), i \in 1..(n + 1), v[i] > w[i], \A j \in 1..(i - 1) : v[j] = w[j]
      PROVE  Above(s, t)
  <2>1. i # 1
    BY <1>1, <1>3
  <2>2. i - 1 \in 1..m /\ i - 1 \in 1..n /\ (i - 1) + 1 = i
    BY <1>3, <2>1
  <2>3. s[i - 1] = v[(i - 1) + 1] /\ t[i - 1] = w[(i - 1) + 1]
    BY <1>1, <2>2
  <2>4. s[i - 1] > t[i - 1]
    BY <1>3, <2>2, <2>3
  <2>5. ASSUME NEW j \in 1..((i - 1) - 1)
        PROVE  s[j] = t[j]
    <3>1. j + 1 \in 1..(i - 1) /\ j \in 1..m /\ j \in 1..n
      BY <2>2
    <3>2. v[j + 1] = w[j + 1] /\ v[j + 1] = s[j] /\ w[j + 1] = t[j]
      BY <1>1, <1>3, <3>1
    <3>3. QED
      BY <3>2
  <2>6. QED
    BY <2>2, <2>4, <2>5 DEF Above
<1>4. Above(v, w) <=> Above(s, t)
  BY <1>1, <1>2, <1>3 DEF Above
<1>5. QED
  BY <1>4 DEF v, w

\* The brands by their numbers
LEMMA StraightsAndLikes ==
  Straights = {8, 4} /\ Likes = {9, 7, 6, 3}
BY DEF Straights, Likes, Brand

\* What decides are numbers.
LEMMA DecidesType ==
  ASSUME NEW r \in Seq(RankType), Len(r) = 5, NEW b \in 0..9
  PROVE  DecidesInBrand(b, r) \in Seq(Int)
<1>1. r[1] \in 0..12 /\ r[2] \in 0..12 /\ r[3] \in 0..12 /\ r[4] \in 0..12 /\ r[5] \in 0..12
  <2>1. \A i \in 1..5 : r[i] \in 0..12
    BY RankIs
  <2>2. QED
    BY <2>1
<1>2. CASE b \in Straights
  <2> DEFINE x == IF r[5] = Ace THEN 1 ELSE 0
             y == IF r = LittleStraight THEN 0 ELSE r[5]
  <2>1. x \in Int /\ y \in Int
    BY <1>1
  <2>2. DecidesInBrand(b, r) = <<x, y>>
    <3>1. b \notin Likes
      BY <1>2, StraightsAndLikes
    <3>2. QED
      BY <1>2, <3>1 DEF DecidesInBrand
  <2> HIDE DEF x, y
  <2>3. QED
    BY <2>1, <2>2
<1>3. CASE b \in Likes
  <2>1. b \notin Straights
    BY <1>3 DEF Straights, Likes, Brand
  <2>2. DecidesInBrand(b, r) = <<r[3]>>
    BY <1>3, <2>1 DEF DecidesInBrand
  <2>3. QED
    BY <1>1, <2>2
<1>4. CASE b \notin Straights /\ b \notin Likes
  <2>1. DecidesInBrand(b, r) = Standing(r)
    BY <1>4 DEF DecidesInBrand
  <2>2. \A x \in RankType : x \in Int
    BY DEF RankType
  <2>3. CASE IsOfTwoPairs(Standing(r), PairsPoint(r))
    <3>1. PICK a \in RankType, c \in RankType, x \in RankType : Standing(r) = <<2, a, c, x>>
      BY <2>3 DEF IsOfTwoPairs
    <3>2. a \in Int /\ c \in Int /\ x \in Int
      BY <2>2
    <3>3. QED
      BY <2>1, <3>1, <3>2
  <2>4. CASE IsOfOnePair(Standing(r), PairsPoint(r))
    <3>1. PICK a \in RankType, x \in RankType, y \in RankType, z \in RankType : Standing(r) = <<1, a, x, y, z>>
      BY <2>4 DEF IsOfOnePair
    <3>2. a \in Int /\ x \in Int /\ y \in Int /\ z \in Int
      BY <2>2
    <3>3. QED
      BY <2>1, <3>1, <3>2
  <2>5. CASE IsOfNoPair(Standing(r), PairsPoint(r))
    <3>1. PICK v \in RankType, w \in RankType, x \in RankType, y \in RankType, z \in RankType :
            Standing(r) = <<0, v, w, x, y, z>>
      BY <2>5 DEF IsOfNoPair
    <3>2. v \in Int /\ w \in Int /\ x \in Int /\ y \in Int /\ z \in Int
      BY <2>2
    <3>3. QED
      BY <2>1, <3>1, <3>2
  <2>6. QED
    BY <2>3, <2>4, <2>5, PointOfShape
<1>5. QED
  BY <1>2, <1>3, <1>4

\* A dun of a straight's brand is a straight (FitsFive).
LEMMA StraightsFit ==
  ASSUME NEW r, NEW oneSuit, NEW b \in Straights, FitsFive(b, r, oneSuit)
  PROVE  Consecutive(r) \/ r = LittleStraight
<1>1. CASE b = 8
  <2>1. FitsFive(8, r, oneSuit)
    BY <1>1
  <2>2. QED
    BY <2>1 DEF FitsFive, Brand
<1>2. CASE b = 4
  <2>1. FitsFive(4, r, oneSuit)
    BY <1>2
  <2>2. QED
    BY <2>1 DEF FitsFive, Brand
<1>3. QED
  BY <1>1, <1>2, StraightsAndLikes

\* Two duns of five whose brands fit them are ordered by what decides.
LEMMA FiveInOrder ==
  ASSUME NEW r \in Seq(RankType), Len(r) = 5, NEW flushR, NEW b \in 0..9, FitsFive(b, r, flushR),
         NEW s \in Seq(RankType), Len(s) = 5, NEW flushS, NEW k \in 0..9, FitsFive(k, s, flushS)
  PROVE  Beats(InfoOfFive(b, r), InfoOfFive(k, s))
           <=> Above(<<b>> \o DecidesInBrand(b, r), <<k>> \o DecidesInBrand(k, s))
<1> DEFINE x == InfoOfFive(b, r)
           y == InfoOfFive(k, s)
           v == DecidesInBrand(b, r)
           w == DecidesInBrand(k, s)
<1>1. x.b = b /\ y.b = k /\ ~x.isGhost /\ ~y.isGhost
  BY DEF InfoOfFive
<1>2. Beats(x, y) <=> b > k \/ (b = k /\ x.point > y.point)
  <2> HIDE DEF x, y
  <2>1. QED
    BY <1>1 DEF Beats
<1>3. v \in Seq(Int) /\ w \in Seq(Int) /\ b \in Int /\ k \in Int
  <2>1. DecidesInBrand(b, r) \in Seq(Int)
    BY DecidesType
  <2>2. DecidesInBrand(k, s) \in Seq(Int)
    BY DecidesType
  <2>3. QED
    BY <2>1, <2>2
<1>8. CASE b # k
  <2> HIDE DEF x, y, v, w
  <2>1. /\ DOMAIN (<<b>> \o v) = 1..(Len(v) + 1) /\ (<<b>> \o v)[1] = b
        /\ DOMAIN (<<k>> \o w) = 1..(Len(w) + 1) /\ (<<k>> \o w)[1] = k
        /\ Len(v) + 1 \in Nat \ {0} /\ Len(w) + 1 \in Nat \ {0}
    <3>1. <<b>> \in Seq(Int) /\ <<k>> \in Seq(Int) /\ Len(<<b>>) = 1 /\ Len(<<k>>) = 1
      BY <1>3
    <3>2. Len(v) \in Nat /\ Len(w) \in Nat
      BY <1>3
    <3>3. QED
      BY <1>3, <3>1, <3>2
  <2>2. Above(<<b>> \o v, <<k>> \o w) <=> (<<b>> \o v)[1] > (<<k>> \o w)[1]
    BY <1>8, <2>1, FirstDecides
  <2>3. QED
    BY <1>2, <1>8, <2>1, <2>2 DEF x, y, v, w
<1>9. CASE b = k
  <2>1. Above(<<b>> \o v, <<k>> \o w) <=> Above(v, w)
    <3> HIDE DEF x, y, v, w
    <3>1. Len(v) \in Nat /\ Len(w) \in Nat /\ DOMAIN v = 1..Len(v) /\ DOMAIN w = 1..Len(w)
      BY <1>3
    <3>2. Above(<<b>> \o v, <<b>> \o w) <=> Above(v, w)
      BY <1>3, <3>1, AboveInBrand
    <3>3. QED
      BY <1>9, <3>2
  <2>2. x.point > y.point <=> Above(v, w)
    <3>1. CASE b \in Straights
      <4>1. Consecutive(r) \/ r = LittleStraight
        BY <3>1, StraightsFit
      <4>2. Consecutive(s) \/ s = LittleStraight
        BY <1>9, <3>1, StraightsFit
      <4>3. x.point = StraightPoint(r) /\ y.point = StraightPoint(s)
        BY <1>9, <3>1 DEF InfoOfFive, Straights
      <4>4. /\ v = <<IF r[5] = Ace THEN 1 ELSE 0, IF r = LittleStraight THEN 0 ELSE r[5]>>
            /\ w = <<IF s[5] = Ace THEN 1 ELSE 0, IF s = LittleStraight THEN 0 ELSE s[5]>>
        BY <1>9, <3>1, StraightsAndLikes DEF DecidesInBrand
      <4>5. QED
        BY <4>1, <4>2, <4>3, <4>4, StraightsByHeight
    <3>2. CASE b \in Likes
      <4>1. b \notin {Brand.straightFlush, Brand.straight} /\ b \notin {Brand.flush, Brand.twoPairs, Brand.onePair, Brand.hightCard}
        BY <3>2 DEF Likes, Brand
      <4>2. x.point = r[3] + 1 /\ y.point = s[3] + 1
        BY <1>9, <4>1 DEF InfoOfFive
      <4>3. v = <<r[3]>> /\ w = <<s[3]>>
        BY <1>9, <3>2, <4>1 DEF DecidesInBrand, Straights
      <4>4. r[3] \in Int /\ s[3] \in Int
        <5>1. \A i \in 1..5 : r[i] \in 0..12
          BY RankIs
        <5>2. \A i \in 1..5 : s[i] \in 0..12
          BY RankIs
        <5>3. QED
          BY <5>1, <5>2
      <4>5. Above(<<r[3]>>, <<s[3]>>) <=> r[3] > s[3]
        BY <4>4, AboveOfOne
      <4>6. QED
        BY <4>2, <4>3, <4>4, <4>5
    <3>3. CASE b \notin Straights /\ b \notin Likes
      <4>1. b \in {Brand.flush, Brand.twoPairs, Brand.onePair, Brand.hightCard} /\ b \notin {Brand.straightFlush, Brand.straight}
        BY <3>3 DEF Likes, Straights, Brand
      <4>2. x.point = PairsPoint(r) /\ y.point = PairsPoint(s)
        BY <1>9, <4>1 DEF InfoOfFive
      <4>3. v = Standing(r) /\ w = Standing(s)
        BY <1>9, <3>3 DEF DecidesInBrand
      <4>4. QED
        BY <4>2, <4>3, PointsByStanding
    <3>4. QED
      BY <3>1, <3>2, <3>3
  <2>3. b \in Int /\ ~(b > k)
    BY <1>3, <1>9
  <2>4. QED
    BY <1>2, <1>9, <2>1, <2>2, <2>3
<1>10. QED
  BY <1>8, <1>9

\* The brand and then the number in base 14 order five ranks as the rules do, whichever of the
\* duns are of one suit (brandInfo5, cmpBrandInfo).
THEOREM FiveByTheRules ==
  ASSUME NEW r \in Seq(RankType), Len(r) = 5, NEW flushR,
         NEW s \in Seq(RankType), Len(s) = 5, NEW flushS
  PROVE  LET x == RankedInfo5(r, flushR)
             y == RankedInfo5(s, flushS) IN
         Beats(x, y) <=> Above(Decides5(x, r), Decides5(y, s))
<1> DEFINE x == RankedInfo5(r, flushR)
           y == RankedInfo5(s, flushS)
<1>1. x.b \in 0..9 /\ FitsFive(x.b, r, flushR)
  BY FiveBrand
<1>2. y.b \in 0..9 /\ FitsFive(y.b, s, flushS)
  BY FiveBrand
<1>3. x = InfoOfFive(x.b, r) /\ y = InfoOfFive(y.b, s)
  BY DEF RankedInfo5, InfoOfFive
<1> HIDE DEF x, y
<1>4. Beats(InfoOfFive(x.b, r), InfoOfFive(y.b, s))
        <=> Above(<<x.b>> \o DecidesInBrand(x.b, r), <<y.b>> \o DecidesInBrand(y.b, s))
  BY <1>1, <1>2, FiveInOrder
<1>5. Beats(x, y) <=> Above(Decides5(x, r), Decides5(y, s))
  BY <1>3, <1>4 DEF Decides5
<1>6. QED
  BY <1>5 DEF x, y

\* What the rules look at between two duns of three: three alike, a pair, or none, and the ranks,
\* the pair's first
Decides3(r) ==
  IF r[1] = r[3] THEN <<3, r[3]>>
  ELSE IF PairEnds(r) # {} THEN <<1, r[2], IF r[1] = r[2] THEN r[3] ELSE r[1]>>
  ELSE <<0, r[3], r[2], r[1]>>

\* The point of a pair, and of three different ranks, in a dun of three (RankedInfo3)
FrontPairPoint(a, x) == (a + 2) * 14^3 + x + 2
FrontPoint(x, y, z)  == (z + 2) + (y + 2) * 14 + (x + 2) * 196

\* A dun of three with what decides and what brandInfo3 says: three alike,
AlikeThree(key, info) == \E a \in RankType : key = <<3, a>> /\ info = [b |-> 3, isGhost |-> FALSE, point |-> a + 2]
\* a pair,
PairOfThree(key, info) ==
  \E a, x \in RankType : key = <<1, a, x>> /\ info = [b |-> 1, isGhost |-> FALSE, point |-> FrontPairPoint(a, x)]
\* or three different ranks.
NoneOfThree(key, info) ==
  \E x, y, z \in RankType :
    /\ key = <<0, x, y, z>>
    /\ info = [b |-> 0, isGhost |-> FALSE, point |-> FrontPoint(x, y, z)]

\* Every three ranks are one of these.
LEMMA ShapesOfThree ==
  ASSUME NEW r \in Seq(RankType), Len(r) = 3
  PROVE  \/ AlikeThree(Decides3(r), RankedInfo3(r))
         \/ PairOfThree(Decides3(r), RankedInfo3(r))
         \/ NoneOfThree(Decides3(r), RankedInfo3(r))
<1>1. r[1] \in RankType /\ r[2] \in RankType /\ r[3] \in RankType
  <2>1. \A i \in 1..3 : r[i] \in 0..12
    BY RankIs
  <2>2. QED
    BY <2>1 DEF RankType
<1>2. CASE r[1] = r[3]
  BY <1>1, <1>2 DEF AlikeThree, Decides3, RankedInfo3, Brand
<1>3. CASE r[1] # r[3] /\ PairEnds(r) # {}
  <2> DEFINE x == IF r[1] = r[2] THEN r[3] ELSE r[1]
  <2>1. x \in RankType
    BY <1>1
  <2>2. Decides3(r) = <<1, r[2], x>>
    BY <1>3 DEF Decides3
  <2>3. RankedInfo3(r) = [b |-> 1, isGhost |-> FALSE, point |-> FrontPairPoint(r[2], x)]
    BY <1>3 DEF RankedInfo3, Brand, FrontPairPoint
  <2> HIDE DEF x
  <2>4. QED
    BY <1>1, <2>1, <2>2, <2>3 DEF PairOfThree
<1>4. CASE r[1] # r[3] /\ PairEnds(r) = {}
  <2>1. Decides3(r) = <<0, r[3], r[2], r[1]>>
    BY <1>4 DEF Decides3
  <2>2. RankedInfo3(r) = [b |-> 0, isGhost |-> FALSE, point |-> Weigh(r, 2)]
    BY <1>4 DEF RankedInfo3, Brand
  <2>3. Weigh(r, 2) = FrontPoint(r[3], r[2], r[1])
    BY WeighThree DEF ThreeWeight, FrontPoint
  <2>4. QED
    BY <1>1, <2>1, <2>2, <2>3 DEF NoneOfThree
<1>5. QED
  <2>1. r[1] = r[3] \/ (r[1] # r[3] /\ PairEnds(r) # {}) \/ (r[1] # r[3] /\ PairEnds(r) = {})
    OBVIOUS
  <2>2. QED
    BY <1>2, <1>3, <1>4, <2>1, Zenon

\* More cards alike beat fewer.
LEMMA MoreAlike ==
  ASSUME NEW key, NEW x, NEW kez, NEW z,
         \/ AlikeThree(key, x) /\ (PairOfThree(kez, z) \/ NoneOfThree(kez, z))
         \/ PairOfThree(key, x) /\ NoneOfThree(kez, z)
  PROVE  Beats(x, z) /\ ~Beats(z, x) /\ Above(key, kez) /\ ~Above(kez, key)
<1>1. \/ x.b = 3 /\ z.b \in {0, 1}
      \/ x.b = 1 /\ z.b = 0
  BY DEF AlikeThree, PairOfThree, NoneOfThree
<1>2. Beats(x, z) /\ ~Beats(z, x)
  BY <1>1 DEF Beats
<1>3. /\ key[1] = x.b /\ kez[1] = z.b
      /\ \E m \in Nat \ {0} : DOMAIN key = 1..m
      /\ \E n \in Nat \ {0} : DOMAIN kez = 1..n
  <2>1. ASSUME NEW p, NEW q, AlikeThree(p, q) \/ PairOfThree(p, q) \/ NoneOfThree(p, q)
        PROVE  p[1] = q.b /\ \E m \in Nat \ {0} : DOMAIN p = 1..m
    <3>1. CASE AlikeThree(p, q)
      <4>1. p[1] = q.b /\ DOMAIN p = 1..2
        BY <3>1 DEF AlikeThree
      <4>2. QED
        BY <4>1
    <3>2. CASE PairOfThree(p, q)
      <4>1. p[1] = q.b /\ DOMAIN p = 1..3
        BY <3>2 DEF PairOfThree
      <4>2. QED
        BY <4>1
    <3>3. CASE NoneOfThree(p, q)
      <4>1. p[1] = q.b /\ DOMAIN p = 1..4
        BY <3>3 DEF NoneOfThree
      <4>2. QED
        BY <4>1
    <3>4. QED
      BY <2>1, <3>1, <3>2, <3>3
  <2>2. QED
    BY <2>1
<1>4. PICK m \in Nat \ {0}, n \in Nat \ {0} : DOMAIN key = 1..m /\ DOMAIN kez = 1..n
  BY <1>3
<1>5. key[1] # kez[1] /\ key[1] > kez[1] /\ ~(kez[1] > key[1])
  BY <1>1, <1>3
<1>6. Above(key, kez) <=> key[1] > kez[1]
  BY <1>4, <1>5, FirstDecides
<1>7. Above(kez, key) <=> kez[1] > key[1]
  BY <1>4, <1>5, FirstDecides
<1>8. QED
  BY <1>2, <1>5, <1>6, <1>7

\* Three places, one after the other
LEMMA AboveOfThree ==
  ASSUME NEW s \in [1..3 -> Int], NEW t \in [1..3 -> Int]
  PROVE  Above(s, t) <=> s[1] > t[1] \/ (s[1] = t[1] /\ (s[2] > t[2] \/ (s[2] = t[2] /\ s[3] > t[3])))
<1>1. \A k \in 1..3 : AboveFrom(k, 3, s, t) <=> s[k] > t[k] \/ (s[k] = t[k] /\ AboveFrom(k + 1, 3, s, t))
  BY AboveByOne
<1>2. ~AboveFrom(3 + 1, 3, s, t)
  BY DEF AboveFrom
<1>3. Above(s, t) <=> AboveFrom(1, 3, s, t)
  BY AboveIsFromOne
<1>4. /\ AboveFrom(1, 3, s, t) <=> s[1] > t[1] \/ (s[1] = t[1] /\ AboveFrom(1 + 1, 3, s, t))
      /\ AboveFrom(2, 3, s, t) <=> s[2] > t[2] \/ (s[2] = t[2] /\ AboveFrom(2 + 1, 3, s, t))
      /\ AboveFrom(3, 3, s, t) <=> s[3] > t[3] \/ (s[3] = t[3] /\ AboveFrom(3 + 1, 3, s, t))
      /\ 1 + 1 = 2 /\ 2 + 1 = 3
  BY <1>1
<1>5. QED
  BY <1>2, <1>3, <1>4, Zenon

\* With as many alike the ranks decide.  The digits of three different ranks reach 14, the base
\* itself, but each of them starts at 2.
LEMMA SameAlike ==
  ASSUME NEW key, NEW x, NEW kez, NEW z,
         \/ AlikeThree(key, x) /\ AlikeThree(kez, z)
         \/ PairOfThree(key, x) /\ PairOfThree(kez, z)
         \/ NoneOfThree(key, x) /\ NoneOfThree(kez, z)
  PROVE  Beats(x, z) <=> Above(key, kez)
<1>1. \A n \in RankType : n \in 0..12 /\ n \in Int
  BY DEF RankType
<1>2. CASE AlikeThree(key, x) /\ AlikeThree(kez, z)
  <2>1. PICK a \in RankType : key = <<3, a>> /\ x = [b |-> 3, isGhost |-> FALSE, point |-> a + 2]
    BY <1>2 DEF AlikeThree
  <2>2. PICK c \in RankType : kez = <<3, c>> /\ z = [b |-> 3, isGhost |-> FALSE, point |-> c + 2]
    BY <1>2 DEF AlikeThree
  <2>3. a \in Int /\ c \in Int
    BY <1>1
  <2>4. Above(<<3, a>>, <<3, c>>) <=> a > c
    <3>1. Above(<<3, a>>, <<3, c>>) <=> 3 > 3 \/ (3 = 3 /\ a > c)
      BY <2>3, AboveOfTwo
    <3>2. QED
      BY <3>1
  <2>5. Beats(x, z) <=> a > c
    BY <2>1, <2>2, <2>3 DEF Beats
  <2>6. QED
    BY <2>1, <2>2, <2>4, <2>5
<1>3. CASE PairOfThree(key, x) /\ PairOfThree(kez, z)
  <2>1. PICK a \in RankType, u \in RankType :
          key = <<1, a, u>> /\ x = [b |-> 1, isGhost |-> FALSE, point |-> FrontPairPoint(a, u)]
    BY <1>3 DEF PairOfThree
  <2>2. PICK c \in RankType, v \in RankType :
          kez = <<1, c, v>> /\ z = [b |-> 1, isGhost |-> FALSE, point |-> FrontPairPoint(c, v)]
    BY <1>3 DEF PairOfThree
  <2>3. a \in 0..12 /\ u \in 0..12 /\ c \in 0..12 /\ v \in 0..12
    BY <1>1
  <2>4. Beats(x, z) <=> FrontPairPoint(a, u) > FrontPairPoint(c, v)
    BY <2>1, <2>2 DEF Beats
  <2>5. Beats(x, z) <=> a > c \/ (a = c /\ u > v)
    BY <2>3, <2>4, SMT DEF FrontPairPoint
  <2>6. Above(key, kez) <=> a > c \/ (a = c /\ u > v)
    <3>1. /\ key \in [1..3 -> Int] /\ kez \in [1..3 -> Int]
          /\ key[1] = 1 /\ key[2] = a /\ key[3] = u /\ kez[1] = 1 /\ kez[2] = c /\ kez[3] = v
      BY <2>1, <2>2, <2>3
    <3>2. Above(key, kez) <=> key[1] > kez[1]
            \/ (key[1] = kez[1] /\ (key[2] > kez[2] \/ (key[2] = kez[2] /\ key[3] > kez[3])))
      BY <3>1, AboveOfThree
    <3>3. QED
      BY <2>3, <3>1, <3>2
  <2>7. QED
    BY <2>5, <2>6
<1>4. CASE NoneOfThree(key, x) /\ NoneOfThree(kez, z)
  <2>1. PICK a \in RankType, u \in RankType, m \in RankType :
          key = <<0, a, u, m>> /\ x = [b |-> 0, isGhost |-> FALSE, point |-> FrontPoint(a, u, m)]
    BY <1>4 DEF NoneOfThree
  <2>2. PICK c \in RankType, v \in RankType, n \in RankType :
          kez = <<0, c, v, n>> /\ z = [b |-> 0, isGhost |-> FALSE, point |-> FrontPoint(c, v, n)]
    BY <1>4 DEF NoneOfThree
  <2>3. a \in 0..12 /\ u \in 0..12 /\ m \in 0..12 /\ c \in 0..12 /\ v \in 0..12 /\ n \in 0..12
    BY <1>1
  <2>4. Beats(x, z) <=> FrontPoint(a, u, m) > FrontPoint(c, v, n)
    BY <2>1, <2>2 DEF Beats
  <2>5. Beats(x, z) <=> a > c \/ (a = c /\ (u > v \/ (u = v /\ m > n)))
    BY <2>3, <2>4, SMT DEF FrontPoint
  <2>6. Above(key, kez) <=> a > c \/ (a = c /\ (u > v \/ (u = v /\ m > n)))
    <3>1. /\ key \in [1..4 -> Int] /\ kez \in [1..4 -> Int]
          /\ key[1] = 0 /\ key[2] = a /\ key[3] = u /\ key[4] = m
          /\ kez[1] = 0 /\ kez[2] = c /\ kez[3] = v /\ kez[4] = n
      BY <2>1, <2>2, <2>3
    <3>2. Above(key, kez) <=>
            \/ key[1] > kez[1]
            \/ /\ key[1] = kez[1]
               /\ \/ key[2] > kez[2]
                  \/ /\ key[2] = kez[2]
                     /\ key[3] > kez[3] \/ (key[3] = kez[3] /\ key[4] > kez[4])
      BY <3>1, AboveOfFour
    <3>3. QED
      BY <2>3, <3>1, <3>2
  <2>7. QED
    BY <2>5, <2>6
<1>5. QED
  BY <1>2, <1>3, <1>4

\* The brand and the point order three ranks as the rules do.
LEMMA ThreeByTheRules ==
  ASSUME NEW r \in Seq(RankType), Len(r) = 3, NEW s \in Seq(RankType), Len(s) = 3
  PROVE  Beats(RankedInfo3(r), RankedInfo3(s)) <=> Above(Decides3(r), Decides3(s))
<1> DEFINE key == Decides3(r)
           x == RankedInfo3(r)
           kez == Decides3(s)
           z == RankedInfo3(s)
<1>1. AlikeThree(key, x) \/ PairOfThree(key, x) \/ NoneOfThree(key, x)
  BY ShapesOfThree
<1>2. AlikeThree(kez, z) \/ PairOfThree(kez, z) \/ NoneOfThree(kez, z)
  BY ShapesOfThree
<1> HIDE DEF key, x, kez, z
<1>3. Beats(x, z) <=> Above(key, kez)
  <2>1. CASE \/ AlikeThree(key, x) /\ AlikeThree(kez, z)
             \/ PairOfThree(key, x) /\ PairOfThree(kez, z)
             \/ NoneOfThree(key, x) /\ NoneOfThree(kez, z)
    BY <2>1, SameAlike
  <2>2. CASE \/ AlikeThree(key, x) /\ (PairOfThree(kez, z) \/ NoneOfThree(kez, z))
             \/ PairOfThree(key, x) /\ NoneOfThree(kez, z)
    BY <2>2, MoreAlike
  <2>3. CASE \/ AlikeThree(kez, z) /\ (PairOfThree(key, x) \/ NoneOfThree(key, x))
             \/ PairOfThree(kez, z) /\ NoneOfThree(key, x)
    BY <2>3, MoreAlike
  <2>4. QED
    BY <1>1, <1>2, <2>1, <2>2, <2>3
<1>4. QED
  BY <1>3 DEF key, x, kez, z

\* Three ordered ranks to which a ghost or more can complete the ordered ranks r
Completes(t, r) ==
  /\ t \in Seq(RankType) /\ Len(t) = 3 /\ t[1] <= t[2] /\ t[2] <= t[3]
  /\ \E f \in [DOMAIN r -> 1..3] :
       /\ \A i \in DOMAIN r : r[i] = t[f[i]]
       /\ \A i, j \in DOMAIN r : i < j => f[i] < f[j]

\* cmpBrandInfo, but for the ghosts
Better(x, y) == x.b > y.b \/ (x.b = y.b /\ x.point > y.point)

\* What three ordered ranks are worth (RankedInfo3)
LEMMA FrontByCases ==
  ASSUME NEW t \in Seq(RankType), Len(t) = 3, t[1] <= t[2], t[2] <= t[3]
  PROVE  /\ t[1] \in 0..12 /\ t[2] \in 0..12 /\ t[3] \in 0..12
         /\ t[1] = t[3] => RankedInfo3(t).b = 3 /\ RankedInfo3(t).point = t[3] + 2
         /\ t[1] # t[3] /\ t[1] = t[2] =>
              RankedInfo3(t).b = 1 /\ RankedInfo3(t).point = FrontPairPoint(t[2], t[3])
         /\ t[1] # t[3] /\ t[2] = t[3] =>
              RankedInfo3(t).b = 1 /\ RankedInfo3(t).point = FrontPairPoint(t[2], t[1])
         /\ t[1] # t[2] /\ t[2] # t[3] => RankedInfo3(t).b = 0
<1>1. t[1] \in 0..12 /\ t[2] \in 0..12 /\ t[3] \in 0..12
  <2>1. \A i \in 1..3 : t[i] \in 0..12
    BY RankIs
  <2>2. QED
    BY <2>1
<1>2. PairEnds(t) # {} <=> t[1] = t[2] \/ t[2] = t[3]
  <2>1. PairEnds(t) = {i \in {2, 3} : t[i - 1] = t[i]}
    BY DEF PairEnds
  <2>2. 2 - 1 = 1 /\ 3 - 1 = 2
    OBVIOUS
  <2>3. QED
    BY <2>1, <2>2
<1>3. t[1] = t[3] => RankedInfo3(t).b = 3 /\ RankedInfo3(t).point = t[3] + 2
  BY DEF RankedInfo3, Brand
<1>4. t[1] # t[3] /\ (t[1] = t[2] \/ t[2] = t[3]) =>
        /\ RankedInfo3(t).b = 1
        /\ RankedInfo3(t).point = FrontPairPoint(t[2], IF t[1] = t[2] THEN t[3] ELSE t[1])
  BY <1>2 DEF RankedInfo3, Brand, FrontPairPoint
<1>5. t[1] # t[2] /\ t[2] # t[3] => t[1] # t[3]
  BY <1>1
<1>6. t[1] # t[2] /\ t[2] # t[3] => RankedInfo3(t).b = 0
  BY <1>2, <1>5 DEF RankedInfo3, Brand
<1>7. QED
  BY <1>1, <1>3, <1>4, <1>6

\* Three ordered ranks are as much as three alike only when they are.
LEMMA FrontAlike ==
  ASSUME NEW t \in Seq(RankType), Len(t) = 3, t[1] <= t[2], t[2] <= t[3]
  PROVE  \/ RankedInfo3(t).b \in {0, 1}
         \/ /\ t[1] = t[3] /\ t[2] = t[3]
            /\ RankedInfo3(t).b = 3 /\ RankedInfo3(t).point = t[3] + 2
<1>1. t[1] \in 0..12 /\ t[2] \in 0..12 /\ t[3] \in 0..12
  BY FrontByCases
<1>2. CASE t[1] = t[3]
  <2>1. t[2] = t[3]
    BY <1>1, <1>2
  <2>2. RankedInfo3(t).b = 3 /\ RankedInfo3(t).point = t[3] + 2
    BY <1>2, FrontByCases
  <2>3. QED
    BY <1>2, <2>1, <2>2
<1>3. CASE t[1] # t[3] /\ t[1] = t[2]
  <2>1. RankedInfo3(t).b = 1
    BY <1>3, FrontByCases
  <2>2. QED
    BY <2>1
<1>4. CASE t[1] # t[3] /\ t[2] = t[3]
  <2>1. RankedInfo3(t).b = 1
    BY <1>4, FrontByCases
  <2>2. QED
    BY <2>1
<1>5. CASE t[1] # t[2] /\ t[2] # t[3]
  <2>1. RankedInfo3(t).b = 0
    BY <1>5, FrontByCases
  <2>2. QED
    BY <2>1
<1>6. QED
  BY <1>2, <1>3, <1>4, <1>5

\* Ghosts beside none, one or two equal ranks make three alike, of the highest rank they can.
LEMMA GhostsMakeThree ==
  ASSUME NEW r \in Seq(RankType), Len(r) \in {0, 1} \/ (Len(r) = 2 /\ r[1] = r[2])
  PROVE  LET g == GhostRanked3(r) IN
         /\ \E t : Completes(t, r) /\ RankedInfo3(t).b = g.b /\ RankedInfo3(t).point = g.point
         /\ \A t : Completes(t, r) => ~Better(RankedInfo3(t), g)
<1> DEFINE g == GhostRanked3(r)
           a == IF r = <<>> THEN Ace ELSE Last(r)
<1>1. a \in 0..12 /\ \A i \in DOMAIN r : r[i] = a
  <2>1. CASE Len(r) = 0
    <3>1. r = <<>> /\ DOMAIN r = {}
      BY <2>1
    <3>2. QED
      BY <3>1 DEF Ace
  <2>2. CASE Len(r) = 1
    <3>1. r # <<>> /\ DOMAIN r = {1} /\ Last(r) = r[1]
      BY <2>2 DEF Last
    <3>2. \A i \in 1..1 : r[i] \in 0..12
      BY <2>2, RankIs
    <3>3. QED
      BY <3>1, <3>2
  <2>3. CASE Len(r) = 2 /\ r[1] = r[2]
    <3>1. r # <<>> /\ DOMAIN r = {1, 2} /\ Last(r) = r[2]
      <4>1. r # <<>> /\ Last(r) = r[Len(r)] /\ DOMAIN r = 1..2
        <5>1. r # <<>> /\ DOMAIN r = 1..2
          <6>1. Len(r) = 2
            BY <2>3
          <6> HIDE DEF a, g
          <6>2. DOMAIN r = 1..Len(r)
            OBVIOUS
          <6>3. r # <<>>
            <7>1. Len(<<>>) = 0 /\ 2 # 0
              OBVIOUS
            <7>2. QED
              BY <6>1, <7>1, Zenon
          <6>4. QED
            BY <6>1, <6>2, <6>3
        <5>2. Last(r) = r[Len(r)]
          BY DEF Last
        <5>3. QED
          BY <5>1, <5>2
      <4>2. 1..2 = {1, 2}
        OBVIOUS
      <4>3. QED
        BY <2>3, <4>1, <4>2
    <3>2. \A i \in 1..2 : r[i] \in 0..12
      BY <2>3, RankIs
    <3>3. QED
      BY <2>3, <3>1, <3>2
  <2>4. QED
    BY <2>1, <2>2, <2>3
<1>2. g.b = 3 /\ g.point = a + 2
  <2>1. ~(Len(r) = 2 /\ r[1] # r[2])
    OBVIOUS
  <2>2. QED
    BY <2>1 DEF GhostRanked3, Brand
<1>3. (r = <<>> /\ a = 12) \/ 1 \in DOMAIN r
  BY DEF Ace
<1>4. DOMAIN r \subseteq {1, 2}
  OBVIOUS
<1> HIDE DEF g, a
<1>5. \E t : Completes(t, r) /\ RankedInfo3(t).b = g.b /\ RankedInfo3(t).point = g.point
  <2> DEFINE t == <<a, a, a>>
  <2>1. t \in Seq(RankType) /\ Len(t) = 3 /\ t[1] = a /\ t[2] = a /\ t[3] = a
    BY <1>1 DEF RankType
  <2> HIDE DEF t
  <2>2. Completes(t, r)
    <3> DEFINE f == [i \in DOMAIN r |-> i]
    <3>1. f \in [DOMAIN r -> 1..3] /\ \A i \in DOMAIN r : f[i] = i /\ r[i] = t[f[i]]
      <4>1. \A i \in DOMAIN r : i \in 1..3 /\ i \in {1, 2}
        BY <1>4
      <4>2. \A i \in DOMAIN r : r[i] = t[i]
        BY <1>1, <2>1, <4>1
      <4>3. QED
        BY <4>1, <4>2
    <3> HIDE DEF f
    <3>2. \A i, j \in DOMAIN r : i < j => f[i] < f[j]
      BY <3>1
    <3>3. t[1] <= t[2] /\ t[2] <= t[3]
      BY <1>1, <2>1
    <3>4. QED
      BY <2>1, <3>1, <3>2, <3>3 DEF Completes
  <2>3. RankedInfo3(t).b = 3 /\ RankedInfo3(t).point = t[3] + 2
    BY <1>1, <2>1, FrontByCases
  <2>4. QED
    BY <1>2, <2>1, <2>2, <2>3
<1>6. ASSUME NEW t, Completes(t, r)
      PROVE  ~Better(RankedInfo3(t), g)
  <2>1. t \in Seq(RankType) /\ Len(t) = 3 /\ t[1] <= t[2] /\ t[2] <= t[3]
    BY <1>6 DEF Completes
  <2>2. PICK f \in [DOMAIN r -> 1..3] : \A i \in DOMAIN r : r[i] = t[f[i]]
    BY <1>6 DEF Completes
  <2>3. t[3] \in 0..12
    BY <2>1, FrontByCases
  <2>4. CASE /\ t[1] = t[3] /\ t[2] = t[3]
             /\ RankedInfo3(t).b = 3 /\ RankedInfo3(t).point = t[3] + 2
    <3>1. t[3] <= a
      <4>1. CASE 1 \in DOMAIN r
        <5>1. r[1] = a /\ r[1] = t[f[1]] /\ f[1] \in {1, 2, 3}
          BY <1>1, <2>2, <4>1
        <5>2. a = t[3]
          BY <2>4, <5>1
        <5>3. QED
          BY <2>3, <5>2
      <4>2. CASE a = 12
        BY <2>3, <4>2
      <4>3. QED
        BY <1>3, <4>1, <4>2
    <3> DEFINE p == RankedInfo3(t).point
    <3>2. p = t[3] + 2 /\ ~(RankedInfo3(t).b > g.b)
      BY <1>2, <2>4
    <3> DEFINE u == t[3]
               h == g.point
    <3>3. u \in 0..12 /\ a \in 0..12 /\ u <= a /\ p = u + 2 /\ h = a + 2
      BY <1>1, <1>2, <2>3, <3>1, <3>2
    <3> HIDE DEF p, u, h
    <3>4. ~(p > h)
      BY <3>3
    <3>5. QED
      BY <3>2, <3>4 DEF Better, p, h
  <2>5. CASE RankedInfo3(t).b \in {0, 1}
    BY <1>2, <2>5 DEF Better
  <2>6. QED
    BY <2>1, <2>4, <2>5, FrontAlike
<1>7. QED
  BY <1>5, <1>6 DEF g

\* A ghost beside two ranks doubles the higher.
LEMMA GhostMakesPair ==
  ASSUME NEW r \in Seq(RankType), Len(r) = 2, r[1] < r[2]
  PROVE  LET g == GhostRanked3(r) IN
         /\ \E t : Completes(t, r) /\ RankedInfo3(t).b = g.b /\ RankedInfo3(t).point = g.point
         /\ \A t : Completes(t, r) => ~Better(RankedInfo3(t), g)
<1> DEFINE g == GhostRanked3(r)
           x == r[1]
           y == r[2]
<1>1. x \in 0..12 /\ y \in 0..12 /\ x < y /\ DOMAIN r = {1, 2}
  <2>1. \A i \in 1..2 : r[i] \in 0..12
    BY RankIs
  <2>2. QED
    BY <2>1
<1>2. g.b = 1 /\ g.point = FrontPairPoint(y, x)
  <2>1. Len(r) = 2 /\ r[1] # r[2]
    BY <1>1
  <2>2. QED
    BY <2>1 DEF GhostRanked3, Brand, FrontPairPoint
<1> HIDE DEF g
<1>3. \E t : Completes(t, r) /\ RankedInfo3(t).b = g.b /\ RankedInfo3(t).point = g.point
  <2> DEFINE t == <<x, y, y>>
  <2>1. t \in Seq(RankType) /\ Len(t) = 3 /\ t[1] = x /\ t[2] = y /\ t[3] = y
    BY <1>1 DEF RankType
  <2> HIDE DEF t
  <2>2. Completes(t, r)
    <3> DEFINE f == [i \in DOMAIN r |-> i]
    <3>1. f \in [DOMAIN r -> 1..3] /\ \A i \in DOMAIN r : f[i] = i /\ r[i] = t[f[i]]
      <4>1. \A i \in DOMAIN r : i \in 1..3 /\ i \in {1, 2}
        BY <1>1
      <4>2. \A i \in DOMAIN r : r[i] = t[i]
        BY <1>1, <2>1, <4>1
      <4>3. QED
        BY <4>1, <4>2
    <3> HIDE DEF f
    <3>2. \A i, j \in DOMAIN r : i < j => f[i] < f[j]
      BY <3>1
    <3> HIDE DEF x, y
    <3>3. x <= y /\ y <= y
      BY <1>1
    <3>4. t[1] <= t[2] /\ t[2] <= t[3]
      BY <2>1, <3>3, Zenon
    <3>5. (\A i \in DOMAIN r : r[i] = t[f[i]]) /\ (\A i, j \in DOMAIN r : i < j => f[i] < f[j])
      BY <3>1, <3>2
    <3>6. \E e \in [DOMAIN r -> 1..3] : /\ \A i \in DOMAIN r : r[i] = t[e[i]]
                                      /\ \A i, j \in DOMAIN r : i < j => e[i] < e[j]
      BY <3>1, <3>5
    <3>7. QED
      BY <2>1, <3>4, <3>6 DEF Completes
  <2>3. t[1] # t[3] /\ t[2] = t[3] /\ t[1] <= t[2] /\ t[2] <= t[3]
    BY <1>1, <2>1, SMTT(60)
  <2>4. RankedInfo3(t).b = 1 /\ RankedInfo3(t).point = FrontPairPoint(t[2], t[1])
    BY <2>1, <2>3, FrontByCases
  <2>5. QED
    BY <1>2, <2>1, <2>2, <2>4
<1>4. ASSUME NEW t, Completes(t, r)
      PROVE  ~Better(RankedInfo3(t), g)
  <2>1. t \in Seq(RankType) /\ Len(t) = 3 /\ t[1] <= t[2] /\ t[2] <= t[3]
    BY <1>4 DEF Completes
  <2>2. PICK f \in [DOMAIN r -> 1..3] :
          (\A i \in DOMAIN r : r[i] = t[f[i]]) /\ (\A i, j \in DOMAIN r : i < j => f[i] < f[j])
    BY <1>4 DEF Completes
  <2>3. f[1] \in 1..3 /\ f[2] \in 1..3 /\ f[1] < f[2] /\ x = t[f[1]] /\ y = t[f[2]]
    BY <1>1, <2>2
  <2>4. \/ x = t[1] /\ y = t[2]
        \/ x = t[1] /\ y = t[3]
        \/ x = t[2] /\ y = t[3]
    <3>1. (f[1] = 1 /\ f[2] = 2) \/ (f[1] = 1 /\ f[2] = 3) \/ (f[1] = 2 /\ f[2] = 3)
      BY <2>3
    <3>2. QED
      BY <2>3, <3>1
  <2> HIDE DEF x, y
  <2>5. t[1] \in 0..12 /\ t[2] \in 0..12 /\ t[3] \in 0..12
    BY <2>1, FrontByCases
  <2>6. t[1] # t[3]
    BY <1>1, <2>1, <2>4, <2>5
  <2>7. CASE t[1] = t[2]
    <3>1. RankedInfo3(t).b = 1 /\ RankedInfo3(t).point = FrontPairPoint(t[2], t[3])
      BY <2>1, <2>6, <2>7, FrontByCases
    <3>2. t[2] = x /\ t[3] = y
      BY <1>1, <2>1, <2>4, <2>5, <2>7
    <3>3. ~(FrontPairPoint(x, y) > FrontPairPoint(y, x))
      BY <1>1, SMT DEF FrontPairPoint
    <3>4. QED
      BY <1>2, <3>1, <3>2, <3>3 DEF Better
  <2>8. CASE t[2] = t[3]
    <3>1. RankedInfo3(t).b = 1 /\ RankedInfo3(t).point = FrontPairPoint(t[2], t[1])
      BY <2>1, <2>6, <2>8, FrontByCases
    <3>2. t[1] = x /\ t[2] = y
      BY <1>1, <2>1, <2>4, <2>5, <2>8
    <3>3. FrontPairPoint(y, x) \in Int
      BY <1>1, SMT DEF FrontPairPoint
    <3>4. QED
      BY <1>2, <3>1, <3>2, <3>3 DEF Better
  <2>9. CASE t[1] # t[2] /\ t[2] # t[3]
    <3>1. RankedInfo3(t).b = 0
      BY <2>1, <2>9, FrontByCases
    <3>2. QED
      BY <1>2, <3>1 DEF Better
  <2>10. QED
    BY <2>7, <2>8, <2>9
<1>5. QED
  BY <1>3, <1>4 DEF g

\* What ghosts are taken for can be had, and nothing better can (GhostRanked3).
LEMMA GhostsInFront ==
  ASSUME NEW r \in Seq(RankType), Len(r) \in 0..2, Len(r) = 2 => r[1] <= r[2]
  PROVE  LET g == GhostRanked3(r) IN
         /\ \E t : Completes(t, r) /\ RankedInfo3(t).b = g.b /\ RankedInfo3(t).point = g.point
         /\ \A t : Completes(t, r) => ~Better(RankedInfo3(t), g)
<1>1. CASE Len(r) \in {0, 1} \/ (Len(r) = 2 /\ r[1] = r[2])
  BY <1>1, GhostsMakeThree
<1>2. CASE Len(r) = 2 /\ r[1] # r[2]
  <2>1. r[1] \in Int /\ r[2] \in Int
    <3>1. \A i \in 1..2 : r[i] \in 0..12
      BY <1>2, RankIs
    <3>2. QED
      BY <3>1
  <2>2. r[1] < r[2]
    BY <1>2, <2>1
  <2>3. QED
    BY <1>2, <2>2, GhostMakesPair
<1>3. QED
  BY <1>1, <1>2

\* Of any two duns of five without ghosts that one beats the other which does so by the rules:
\* in the number in base 14 no lower card ever outweighs a higher one or a pair, whatever the
\* cards and however many decks they come from (brandInfo5, cmpBrandInfo).
THEOREM MiddleAndBackByTheRules ==
  ASSUME NEW c \in Seq(Nat), Len(c) = 5, NEW d \in Seq(Nat), Len(d) = 5
  PROVE  Beats(BrandInfo5(c), BrandInfo5(d))
           <=> Above(Decides5(BrandInfo5(c), Ranks(c)), Decides5(BrandInfo5(d), Ranks(d)))
<1>1. Ranks(c) \in Seq(RankType) /\ Len(Ranks(c)) = 5
  BY RanksType
<1>2. Ranks(d) \in Seq(RankType) /\ Len(Ranks(d)) = 5
  BY RanksType
<1>3. BrandInfo5(c) = RankedInfo5(Ranks(c), OneSuit(c)) /\ BrandInfo5(d) = RankedInfo5(Ranks(d), OneSuit(d))
  BY DEF BrandInfo5
<1>4. Beats(RankedInfo5(Ranks(c), OneSuit(c)), RankedInfo5(Ranks(d), OneSuit(d)))
        <=> Above(Decides5(RankedInfo5(Ranks(c), OneSuit(c)), Ranks(c)),
                  Decides5(RankedInfo5(Ranks(d), OneSuit(d)), Ranks(d)))
  BY <1>1, <1>2, FiveByTheRules
<1>5. QED
  BY <1>3, <1>4

\* The same for duns of three, whose digits start at 2 and so reach the base (brandInfo3,
\* cmpBrandInfo).
THEOREM FrontByTheRules ==
  ASSUME NEW c \in Seq(Nat), Len(c) = 3, NEW d \in Seq(Nat), Len(d) = 3
  PROVE  Beats(BrandInfo3(c), BrandInfo3(d)) <=> Above(Decides3(Ranks(c)), Decides3(Ranks(d)))
<1>1. Ranks(c) \in Seq(RankType) /\ Len(Ranks(c)) = 3
  BY RanksType
<1>2. Ranks(d) \in Seq(RankType) /\ Len(Ranks(d)) = 3
  BY RanksType
<1>3. QED
  BY <1>1, <1>2, ThreeByTheRules DEF BrandInfo3

\* Ghosts in a dun of three are worth the best cards that they can stand for: those can be had,
\* and no others would be worth more (ghostInfo3).
THEOREM GhostsInFrontAreTheBest ==
  ASSUME NEW c \in Seq(Nat), Len(c) \in 0..2
  PROVE  /\ \E t : /\ Completes(t, Ranks(c))
                   /\ RankedInfo3(t).b = GhostInfo3(c).b
                   /\ RankedInfo3(t).point = GhostInfo3(c).point
         /\ \A t : Completes(t, Ranks(c)) => ~Better(RankedInfo3(t), GhostInfo3(c))
<1> DEFINE r == Ranks(c)
           s == [i \in DOMAIN c |-> Rank(c[i])]
<1>1. r \in Seq(RankType) /\ Len(r) = Len(c)
  BY RanksType
<1>2. s \in Seq(Nat)
  <2>1. \A i \in DOMAIN c : Rank(c[i]) \in Nat
    <3>1. \A m \in Nat : (m - 1) % 13 \in 0..12
      OBVIOUS
    <3>2. \A i \in DOMAIN c : c[i] \in Nat
      OBVIOUS
    <3>3. QED
      BY <3>1, <3>2 DEF Rank
  <2>2. s = [i \in 1..Len(c) |-> Rank(c[i])] /\ Len(c) \in Nat
    OBVIOUS
  <2>3. QED
    BY <2>1, <2>2
<1>3. Ordered(r)
  <2>1. Ordered(Sorted(s))
    BY <1>2, SortedIsOrdered
  <2>2. QED
    BY <2>1 DEF Ranks
<1>4. GhostInfo3(c) = GhostRanked3(r)
  BY DEF GhostInfo3
<1> HIDE DEF r, s
<1>5. Len(r) = 2 => r[1] <= r[2]
  BY <1>1, <1>3 DEF Ordered
<1>6. /\ \E t : /\ Completes(t, r)
                /\ RankedInfo3(t).b = GhostRanked3(r).b
                /\ RankedInfo3(t).point = GhostRanked3(r).point
      /\ \A t : Completes(t, r) => ~Better(RankedInfo3(t), GhostRanked3(r))
  BY <1>1, <1>5, GhostsInFront
<1>7. QED
  BY <1>4, <1>6 DEF r

=============================================================================
