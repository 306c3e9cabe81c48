------------------------------- MODULE Lemmas -------------------------------
(***************************************************************************)
(* What the proofs need about data and no library theorem gives in a form  *)
(* that the provers take: induction over the natural numbers and over      *)
(* finite sets, and from it sums over finite sets and the concatenation of *)
(* sequences of sequences, as the community modules define them.           *)
(*                                                                         *)
(* The library's induction theorems take the property as an operator.      *)
(* Here it is a set: that a family of finite sets has a least member is a  *)
(* theorem about sets only (LeastSet), and induction is the statement that *)
(* there is no least counterexample.                                       *)
(***************************************************************************)
EXTENDS Integers, Sequences, FiniteSets, SequencesExt, FiniteSetTheorems, SequenceTheorems,
        WellFoundedInduction, TLAPS

-----------------------------------------------------------------------------
(*** Induction ***)

\* Every family of finite sets has a member that no other member is a part of.
LEMMA LeastSet ==
  ASSUME NEW S, NEW F \in SUBSET FiniteSubsetsOf(S), F # {}
  PROVE  \E A \in F : \A B \in F : B \subseteq A => B = A
<1>1. PICK A \in F : \A B \in F : ~(<<B, A>> \in StrictSubsetOrdering(S))
  BY FS_StrictSubsetOrderingWellFounded, WFMin
<1>2. \A B \in F : B \in SUBSET S
  BY DEF FiniteSubsetsOf
<1>3. QED
  BY <1>1, <1>2 DEF StrictSubsetOrdering

LEMMA LeastNat ==
  ASSUME NEW T \in SUBSET Nat, T # {}
  PROVE  \E x \in T : \A y \in T : x <= y
<1> DEFINE F == {1..n : n \in T}
<1>1. F \in SUBSET FiniteSubsetsOf(Nat)
  BY FS_Interval DEF FiniteSubsetsOf
<1>2. F # {}
  OBVIOUS
<1>3. PICK A \in F : \A B \in F : B \subseteq A => B = A
  <2> HIDE DEF F
  <2> QED BY <1>1, <1>2, LeastSet
<1>4. PICK x \in T : A = 1..x
  OBVIOUS
<1>5. ASSUME NEW y \in T, y < x
      PROVE  FALSE
  <2>1. 1..y \in F /\ 1..y \subseteq A
    BY <1>4, <1>5
  <2>2. x \in A /\ x \notin 1..y
    BY <1>4, <1>5
  <2>3. QED
    BY <1>3, <2>1, <2>2
<1>6. QED
  BY <1>5

LEMMA NatSetInduction ==
  ASSUME NEW T, 0 \in T, \A n \in Nat : n \in T => n + 1 \in T
  PROVE  Nat \subseteq T
<1>1. SUFFICES ASSUME Nat \ T # {}
               PROVE  FALSE
  OBVIOUS
<1>2. PICK x \in Nat \ T : \A y \in Nat \ T : x <= y
  BY <1>1, LeastNat
<1>3. x # 0 /\ x - 1 \in Nat /\ x - 1 \in T
  BY <1>2
<1>4. QED
  BY <1>3

LEMMA FiniteSetInduction ==
  ASSUME NEW S, IsFiniteSet(S), NEW F, {} \in F,
         \A A \in SUBSET S, x \in S : A \in F /\ x \notin A => A \union {x} \in F
  PROVE  S \in F
<1>1. SUFFICES ASSUME S \notin F
               PROVE  FALSE
  OBVIOUS
<1> DEFINE G == {A \in SUBSET S : S \ A \in F}
<1>2. G \in SUBSET FiniteSubsetsOf(S) /\ S \in G
  BY FS_Subset DEF FiniteSubsetsOf
<1>3. PICK A \in G : \A B \in G : B \subseteq A => B = A
  <2> HIDE DEF G
  <2> QED BY <1>2, LeastSet
<1>4. A # {}
  BY <1>1
<1>5. PICK x \in A : TRUE
  BY <1>4
<1>6. S \ (A \ {x}) = (S \ A) \union {x} /\ A \ {x} \in SUBSET S
  OBVIOUS
<1>7. A \ {x} \in G
  BY <1>6
<1>8. QED
  BY <1>3, <1>7

LEMMA MinIsLeast ==
  ASSUME NEW T \in SUBSET Nat, T # {}
  PROVE  Min(T) \in T /\ \A y \in T : Min(T) <= y
BY LeastNat DEF Min

-----------------------------------------------------------------------------
(*** Sums ***)

Some(s) == CHOOSE x \in s : TRUE

\* g gives the sum of f over every part of S.
SumsUp(g, f, S) ==
  g = [s \in SUBSET S |-> IF s = {} THEN 0 ELSE f[Some(s)] + g[s \ {Some(s)}]]

SumBy(f, S) == CHOOSE g : SumsUp(g, f, S)

LEMMA SumIsChosen ==
  ASSUME NEW f, NEW S
  PROVE  SumFunctionOnSet(f, S) = SumBy(f, S)[S]
BY DEF SumFunctionOnSet, FoldFunctionOnSet, MapThenFoldSet, SumBy, SumsUp, Some

LEMMA SumsUpAgree ==
  ASSUME NEW f, NEW S, IsFiniteSet(S), NEW T \in SUBSET S, NEW g, NEW h,
         SumsUp(g, f, S), SumsUp(h, f, T)
  PROVE  \A s \in SUBSET T : g[s] = h[s]
<1> DEFINE D == {s \in SUBSET T : g[s] # h[s]}
<1>1. SUFFICES ASSUME D # {}
               PROVE  FALSE
  OBVIOUS
<1>2. D \in SUBSET FiniteSubsetsOf(S)
  BY FS_Subset DEF FiniteSubsetsOf
<1>3. PICK A \in D : \A B \in D : B \subseteq A => B = A
  <2> HIDE DEF D
  <2> QED BY <1>1, <1>2, LeastSet
<1>4. CASE A = {}
  BY <1>4 DEF SumsUp
<1>5. CASE A # {}
  <2>1. Some(A) \in A
    BY <1>5 DEF Some
  <2>2. A \ {Some(A)} \in SUBSET T /\ A \ {Some(A)} # A
    BY <2>1
  <2>3. g[A \ {Some(A)}] = h[A \ {Some(A)}]
    BY <1>3, <2>2
  <2>4. g[A] = f[Some(A)] + g[A \ {Some(A)}] /\ h[A] = f[Some(A)] + h[A \ {Some(A)}]
    BY <1>5 DEF SumsUp
  <2>5. QED
    BY <2>3, <2>4
<1>6. QED
  BY <1>4, <1>5

LEMMA SumsUpExists ==
  ASSUME NEW f, NEW S, IsFiniteSet(S)
  PROVE  \A A \in SUBSET S : SumsUp(SumBy(f, A), f, A)
<1> DEFINE D == {A \in SUBSET S : ~SumsUp(SumBy(f, A), f, A)}
<1>1. SUFFICES ASSUME D # {}
               PROVE  FALSE
  OBVIOUS
<1>2. D \in SUBSET FiniteSubsetsOf(S)
  BY FS_Subset DEF FiniteSubsetsOf
<1>3. PICK A \in D : \A B \in D : B \subseteq A => B = A
  <2> HIDE DEF D
  <2> QED BY <1>1, <1>2, LeastSet
<1>4. \A B \in SUBSET A : B # A => SumsUp(SumBy(f, B), f, B)
  BY <1>3
<1> DEFINE below == [s \in (SUBSET A) \ {A} |-> SumBy(f, s)[s]]
           g == [s \in SUBSET A |-> IF s = A THEN (IF A = {} THEN 0 ELSE f[Some(A)] + below[A \ {Some(A)}])
                                             ELSE below[s]]
<1>5. ASSUME NEW s \in SUBSET A, s # {}
      PROVE  /\ Some(s) \in s
             /\ s \ {Some(s)} \in (SUBSET A) \ {A}
             /\ s \ {Some(s)} \in (SUBSET s) \ {s}
  BY <1>5 DEF Some
<1>6. ASSUME NEW s \in SUBSET A, s # A, s # {}
      PROVE  below[s] = f[Some(s)] + below[s \ {Some(s)}]
  <2> DEFINE r == s \ {Some(s)}
  <2>1. SumsUp(SumBy(f, s), f, s) /\ SumsUp(SumBy(f, r), f, r) /\ r \in SUBSET s
    BY <1>4, <1>5, <1>6
  <2>2. SumBy(f, s)[s] = f[Some(s)] + SumBy(f, s)[r]
    <3> HIDE DEF r
    <3>1. SumBy(f, s) = [t \in SUBSET s |-> IF t = {} THEN 0 ELSE f[Some(t)] + SumBy(f, s)[t \ {Some(t)}]]
      BY <2>1 DEF SumsUp
    <3>2. QED
      BY <3>1, <1>6 DEF r
  <2>3. IsFiniteSet(s)
    BY FS_Subset
  <2>4. SumBy(f, s)[r] = SumBy(f, r)[r]
    <3> HIDE DEF r
    <3>1. QED
      BY <2>1, <2>3, SumsUpAgree
  <2>5. below[s] = SumBy(f, s)[s]
    BY <1>6
  <2>6. below[r] = SumBy(f, r)[r]
    BY <1>5, <1>6
  <2>7. QED
    BY <2>2, <2>4, <2>5, <2>6
<1>7. ASSUME NEW s \in SUBSET A
      PROVE  g[s] = IF s = {} THEN 0 ELSE f[Some(s)] + g[s \ {Some(s)}]
  <2>1. CASE s = {} /\ A = {}
    BY <2>1
  <2>2. CASE s = {} /\ A # {}
    <3>1. SumsUp(SumBy(f, {}), f, {})
      BY <2>2, <1>4
    <3>2. SumBy(f, {}) = [t \in SUBSET {} |-> IF t = {} THEN 0 ELSE f[Some(t)] + SumBy(f, {})[t \ {Some(t)}]]
      BY <3>1 DEF SumsUp
    <3>3. SumBy(f, {})[{}] = 0
      BY <3>2
    <3>4. QED
      BY <2>2, <3>3
  <2>3. CASE s # {} /\ s = A
    <3>1. A \ {Some(A)} # A /\ A \ {Some(A)} \in SUBSET A
      BY <2>3, <1>5
    <3>2. g[A \ {Some(A)}] = below[A \ {Some(A)}] /\ g[A] = f[Some(A)] + below[A \ {Some(A)}]
      BY <3>1, <2>3
    <3>3. QED
      BY <3>2, <2>3
  <2>4. CASE s # {} /\ s # A
    <3>1. g[s] = below[s] /\ g[s \ {Some(s)}] = below[s \ {Some(s)}]
      BY <2>4, <1>5
    <3>2. QED
      BY <3>1, <2>4, <1>6
  <2>5. QED
    BY <2>1, <2>2, <2>3, <2>4
<1>8. SumsUp(g, f, A)
  <2>1. g = [s \in SUBSET A |-> g[s]]
    OBVIOUS
  <2> HIDE DEF g
  <2>2. QED
    BY <2>1, <1>7 DEF SumsUp
<1>9. SumsUp(SumBy(f, A), f, A)
  <2> HIDE DEF g
  <2>1. QED
    BY <1>8 DEF SumBy
<1>10. QED
  BY <1>3, <1>9

LEMMA SumEmpty ==
  ASSUME NEW f
  PROVE  SumFunctionOnSet(f, {}) = 0
<1>1. IsFiniteSet({})
  BY FS_EmptySet
<1>2. SumsUp(SumBy(f, {}), f, {})
  BY <1>1, SumsUpExists
<1>3. SumBy(f, {})[{}] = 0
  BY <1>2 DEF SumsUp
<1>4. QED
  BY <1>3, SumIsChosen

LEMMA SumChosen ==
  ASSUME NEW f, NEW S, IsFiniteSet(S), S # {}
  PROVE  /\ Some(S) \in S
         /\ SumFunctionOnSet(f, S) = f[Some(S)] + SumFunctionOnSet(f, S \ {Some(S)})
<1> DEFINE R == S \ {Some(S)}
<1>1. Some(S) \in S
  BY DEF Some
<1>2. SumsUp(SumBy(f, S), f, S) /\ SumsUp(SumBy(f, R), f, R) /\ R \in SUBSET S
  BY SumsUpExists
<1>3. SumBy(f, S)[S] = f[Some(S)] + SumBy(f, S)[R]
  <2> HIDE DEF R
  <2>1. SumBy(f, S) = [t \in SUBSET S |-> IF t = {} THEN 0 ELSE f[Some(t)] + SumBy(f, S)[t \ {Some(t)}]]
    BY <1>2 DEF SumsUp
  <2>2. QED
    BY <2>1 DEF R
<1>4. SumBy(f, S)[R] = SumBy(f, R)[R]
  <2> HIDE DEF R
  <2>1. QED
    BY <1>2, SumsUpAgree
<1>5. QED
  BY <1>1, <1>3, <1>4, SumIsChosen

LEMMA SumIsInt ==
  ASSUME NEW f, NEW S, IsFiniteSet(S), \A x \in S : f[x] \in Int
  PROVE  SumFunctionOnSet(f, S) \in Int
<1> DEFINE D == {A \in SUBSET S : SumFunctionOnSet(f, A) \notin Int}
<1>1. SUFFICES ASSUME D # {}
               PROVE  FALSE
  OBVIOUS
<1>2. D \in SUBSET FiniteSubsetsOf(S)
  BY FS_Subset DEF FiniteSubsetsOf
<1>3. PICK A \in D : \A B \in D : B \subseteq A => B = A
  <2> HIDE DEF D
  <2> QED BY <1>1, <1>2, LeastSet
<1>4. A # {}
  BY SumEmpty
<1>5. IsFiniteSet(A)
  BY FS_Subset
<1>6. Some(A) \in A /\ SumFunctionOnSet(f, A) = f[Some(A)] + SumFunctionOnSet(f, A \ {Some(A)})
  BY <1>4, <1>5, SumChosen
<1>7. A \ {Some(A)} \in (SUBSET S) /\ A \ {Some(A)} # A
  BY <1>6
<1>8. SumFunctionOnSet(f, A \ {Some(A)}) \in Int
  BY <1>3, <1>7
<1>9. QED
  BY <1>6, <1>8

\* The elements may be taken in any order.
LEMMA SumTakesOut ==
  ASSUME NEW f, NEW S, IsFiniteSet(S), \A x \in S : f[x] \in Int, NEW x \in S
  PROVE  SumFunctionOnSet(f, S) = f[x] + SumFunctionOnSet(f, S \ {x})
<1> DEFINE D == {A \in SUBSET S : \E y \in A :
                   SumFunctionOnSet(f, A) # f[y] + SumFunctionOnSet(f, A \ {y})}
<1>1. SUFFICES ASSUME D # {}
               PROVE  FALSE
  OBVIOUS
<1>2. D \in SUBSET FiniteSubsetsOf(S)
  BY FS_Subset DEF FiniteSubsetsOf
<1>3. PICK A \in D : \A B \in D : B \subseteq A => B = A
  <2> HIDE DEF D
  <2> QED BY <1>1, <1>2, LeastSet
<1>4. PICK y \in A : SumFunctionOnSet(f, A) # f[y] + SumFunctionOnSet(f, A \ {y})
  OBVIOUS
<1> DEFINE c == Some(A)
           rest == (A \ {c}) \ {y}
<1>5. IsFiniteSet(A) /\ IsFiniteSet(A \ {y}) /\ IsFiniteSet(A \ {c}) /\ IsFiniteSet(rest)
  BY FS_Subset
<1>6. c \in A /\ SumFunctionOnSet(f, A) = f[c] + SumFunctionOnSet(f, A \ {c})
  BY <1>5, SumChosen
<1>7. c # y
  BY <1>4, <1>6
<1>8. \A B \in SUBSET A : \A z \in B : B # A => SumFunctionOnSet(f, B) = f[z] + SumFunctionOnSet(f, B \ {z})
  BY <1>3
<1> HIDE DEF c
<1>9. SumFunctionOnSet(f, A \ {c}) = f[y] + SumFunctionOnSet(f, rest)
  <2>1. A \ {c} \in SUBSET A /\ A \ {c} # A /\ y \in A \ {c}
    BY <1>6, <1>7
  <2>2. QED
    BY <1>8, <2>1
<1>10. SumFunctionOnSet(f, A \ {y}) = f[c] + SumFunctionOnSet(f, rest)
  <2>1. A \ {y} \in SUBSET A /\ A \ {y} # A /\ c \in A \ {y}
    BY <1>6, <1>7
  <2>2. (A \ {y}) \ {c} = rest
    OBVIOUS
  <2>3. QED
    BY <1>8, <2>1, <2>2
<1>11. f[c] \in Int /\ f[y] \in Int /\ SumFunctionOnSet(f, rest) \in Int
  <2>1. \A z \in rest : f[z] \in Int
    OBVIOUS
  <2>2. QED
    BY <1>5, <1>6, <2>1, SumIsInt
<1>12. QED
  BY <1>4, <1>6, <1>9, <1>10, <1>11

LEMMA SumAdds ==
  ASSUME NEW f, NEW S, IsFiniteSet(S), \A x \in S : f[x] \in Int, NEW x, x \notin S, f[x] \in Int
  PROVE  SumFunctionOnSet(f, S \union {x}) = f[x] + SumFunctionOnSet(f, S)
<1>1. IsFiniteSet(S \union {x}) /\ \A y \in S \union {x} : f[y] \in Int
  BY FS_AddElement
<1>2. (S \union {x}) \ {x} = S
  OBVIOUS
<1>3. QED
  BY <1>1, <1>2, SumTakesOut

LEMMA SumOfSame ==
  ASSUME NEW f, NEW g, NEW S, IsFiniteSet(S), \A x \in S : f[x] \in Int /\ g[x] = f[x]
  PROVE  SumFunctionOnSet(g, S) = SumFunctionOnSet(f, S)
<1> DEFINE F == {A \in SUBSET S : SumFunctionOnSet(g, A) = SumFunctionOnSet(f, A)}
<1>1. {} \in F
  BY SumEmpty
<1>2. ASSUME NEW A \in SUBSET S, NEW x \in S, A \in F, x \notin A
      PROVE  A \union {x} \in F
  BY <1>2, FS_Subset, SumAdds
<1>3. S \in F
  <2> HIDE DEF F
  <2> QED BY <1>1, <1>2, FiniteSetInduction
<1>4. QED
  BY <1>3

LEMMA SumOfZeros ==
  ASSUME NEW f, NEW S, IsFiniteSet(S), \A x \in S : f[x] = 0
  PROVE  SumFunctionOnSet(f, S) = 0
<1> DEFINE F == {A \in SUBSET S : SumFunctionOnSet(f, A) = 0}
<1>1. {} \in F
  BY SumEmpty
<1>2. ASSUME NEW A \in SUBSET S, NEW x \in S, A \in F, x \notin A
      PROVE  A \union {x} \in F
  <2>1. IsFiniteSet(A)
    BY FS_Subset
  <2>2. SumFunctionOnSet(f, A \union {x}) = f[x] + SumFunctionOnSet(f, A)
    BY <1>2, <2>1, SumAdds
  <2>3. QED
    BY <1>2, <2>2
<1> HIDE DEF F
<1>3. S \in F
  BY <1>1, <1>2, FiniteSetInduction
<1>4. QED
  BY <1>3 DEF F

LEMMA SumOfSums ==
  ASSUME NEW f, NEW g, NEW h, NEW S, IsFiniteSet(S),
         \A x \in S : f[x] \in Int /\ g[x] \in Int /\ h[x] = f[x] + g[x]
  PROVE  SumFunctionOnSet(h, S) = SumFunctionOnSet(f, S) + SumFunctionOnSet(g, S)
<1> DEFINE F == {A \in SUBSET S : SumFunctionOnSet(h, A) = SumFunctionOnSet(f, A) + SumFunctionOnSet(g, A)}
<1>1. {} \in F
  BY SumEmpty
<1>2. ASSUME NEW A \in SUBSET S, NEW x \in S, A \in F, x \notin A
      PROVE  A \union {x} \in F
  <2>1. IsFiniteSet(A)
    BY FS_Subset
  <2>2. SumFunctionOnSet(f, A) \in Int /\ SumFunctionOnSet(g, A) \in Int
    BY <2>1, SumIsInt
  <2>3. /\ SumFunctionOnSet(h, A \union {x}) = h[x] + SumFunctionOnSet(h, A)
        /\ SumFunctionOnSet(f, A \union {x}) = f[x] + SumFunctionOnSet(f, A)
        /\ SumFunctionOnSet(g, A \union {x}) = g[x] + SumFunctionOnSet(g, A)
    BY <2>1, <1>2, SumAdds
  <2>4. SumFunctionOnSet(h, A) = SumFunctionOnSet(f, A) + SumFunctionOnSet(g, A)
    BY <1>2
  <2>5. f[x] \in Int /\ g[x] \in Int /\ h[x] = f[x] + g[x]
    OBVIOUS
  <2>6. QED
    BY <2>2, <2>3, <2>4, <2>5
<1>3. S \in F
  <2> HIDE DEF F
  <2> QED BY <1>1, <1>2, FiniteSetInduction
<1>4. QED
  BY <1>3

\* Terms of at most k, or of at least k
LEMMA SumBounds ==
  ASSUME NEW f, NEW S, IsFiniteSet(S), NEW low \in Int, NEW high \in Int,
         \A x \in S : f[x] \in Int /\ low <= f[x] /\ f[x] <= high
  PROVE  /\ low * Cardinality(S) <= SumFunctionOnSet(f, S)
         /\ SumFunctionOnSet(f, S) <= high * Cardinality(S)
<1> DEFINE F == {A \in SUBSET S : /\ low * Cardinality(A) <= SumFunctionOnSet(f, A)
                                  /\ SumFunctionOnSet(f, A) <= high * Cardinality(A)}
<1>1. {} \in F
  BY SumEmpty, FS_EmptySet
<1>2. ASSUME NEW A \in SUBSET S, NEW x \in S, A \in F, x \notin A
      PROVE  A \union {x} \in F
  <2>1. IsFiniteSet(A) /\ Cardinality(A) \in Nat
    BY FS_Subset, FS_CardinalityType
  <2>2. Cardinality(A \union {x}) = Cardinality(A) + 1
    BY <2>1, <1>2, FS_AddElement
  <2>3. SumFunctionOnSet(f, A \union {x}) = f[x] + SumFunctionOnSet(f, A)
    BY <2>1, <1>2, SumAdds
  <2>4. SumFunctionOnSet(f, A) \in Int
    BY <2>1, SumIsInt
  <2>5. /\ low * (Cardinality(A) + 1) = low * Cardinality(A) + low
        /\ high * (Cardinality(A) + 1) = high * Cardinality(A) + high
    BY <2>1
  <2>6. low * Cardinality(A) \in Int /\ high * Cardinality(A) \in Int
    BY <2>1
  <2>7. f[x] \in Int /\ low <= f[x] /\ f[x] <= high
    OBVIOUS
  <2>8. low * Cardinality(A) <= SumFunctionOnSet(f, A) /\ SumFunctionOnSet(f, A) <= high * Cardinality(A)
    BY <1>2
  <2> HIDE DEF F
  <2>9. /\ low * Cardinality(A \union {x}) <= SumFunctionOnSet(f, A \union {x})
        /\ SumFunctionOnSet(f, A \union {x}) <= high * Cardinality(A \union {x})
    BY <2>2, <2>3, <2>4, <2>5, <2>6, <2>7, <2>8
  <2>10. QED
    BY <2>9 DEF F
<1>3. S \in F
  <2> HIDE DEF F
  <2> QED BY <1>1, <1>2, FiniteSetInduction
<1>4. QED
  BY <1>3

LEMMA SumOfUnion ==
  ASSUME NEW f, NEW S, IsFiniteSet(S), NEW T, IsFiniteSet(T), S \cap T = {},
         \A x \in S \union T : f[x] \in Int
  PROVE  SumFunctionOnSet(f, S \union T) = SumFunctionOnSet(f, S) + SumFunctionOnSet(f, T)
<1> DEFINE F == {A \in SUBSET S : SumFunctionOnSet(f, A \union T) = SumFunctionOnSet(f, A) + SumFunctionOnSet(f, T)}
<1>1. {} \in F
  <2>1. {} \union T = T /\ SumFunctionOnSet(f, T) \in Int
    BY SumIsInt
  <2>2. QED
    BY <2>1, SumEmpty
<1>2. ASSUME NEW A \in SUBSET S, NEW x \in S, A \in F, x \notin A
      PROVE  A \union {x} \in F
  <2>1. IsFiniteSet(A) /\ IsFiniteSet(A \union T)
    BY FS_Subset, FS_Union
  <2>2. SumFunctionOnSet(f, A) \in Int /\ SumFunctionOnSet(f, T) \in Int
    BY <2>1, SumIsInt
  <2>3. SumFunctionOnSet(f, A \union {x}) = f[x] + SumFunctionOnSet(f, A)
    BY <2>1, <1>2, SumAdds
  <2>4. (A \union {x}) \union T = (A \union T) \union {x} /\ x \notin A \union T
    BY <1>2
  <2>5. SumFunctionOnSet(f, (A \union T) \union {x}) = f[x] + SumFunctionOnSet(f, A \union T)
    BY <2>1, <2>4, SumAdds
  <2>6. SumFunctionOnSet(f, A \union T) = SumFunctionOnSet(f, A) + SumFunctionOnSet(f, T)
    BY <1>2
  <2>7. f[x] \in Int
    OBVIOUS
  <2> HIDE DEF F
  <2>8. SumFunctionOnSet(f, (A \union {x}) \union T) = SumFunctionOnSet(f, A \union {x}) + SumFunctionOnSet(f, T)
    <3>1. SumFunctionOnSet(f, (A \union {x}) \union T) = SumFunctionOnSet(f, (A \union T) \union {x})
      BY <2>4
    <3>2. SumFunctionOnSet(f, (A \union T) \union {x}) = SumFunctionOnSet(f, A \union {x}) + SumFunctionOnSet(f, T)
      BY <2>2, <2>3, <2>5, <2>6, <2>7
    <3>3. QED
      BY <3>1, <3>2
  <2>9. QED
    BY <2>8 DEF F
<1>3. S \in F
  <2> HIDE DEF F
  <2> QED BY <1>1, <1>2, FiniteSetInduction
<1>4. QED
  BY <1>3

-----------------------------------------------------------------------------
(*** Concatenation ***)

\* g gives the concatenation of the first i sequences of s.
JoinsUp(g, s) == g = [i \in 1..Len(s) |-> IF i = 1 THEN s[i] ELSE g[i-1] \o s[i]]

JoinBy(s) == CHOOSE g : JoinsUp(g, s)

LEMMA FlattenIsChosen ==
  ASSUME NEW s
  PROVE  FlattenSeq(s) = IF Len(s) = 0 THEN s ELSE JoinBy(s)[Len(s)]
BY DEF FlattenSeq, JoinBy, JoinsUp

LEMMA JoinsUpExists ==
  ASSUME NEW s, Len(s) \in Nat
  PROVE  JoinsUp(JoinBy(s), s)
<1> DEFINE Joins(g, n) == g = [i \in 1..n |-> IF i = 1 THEN s[i] ELSE g[i-1] \o s[i]]
           T == {n \in Nat : \E g : Joins(g, n)}
<1>1. 0 \in T
  <2> DEFINE g == [i \in 1..0 |-> s[i]]
  <2>1. Joins(g, 0)
    OBVIOUS
  <2>2. QED
    BY <2>1
<1>2. ASSUME NEW n \in Nat, n \in T
      PROVE  n + 1 \in T
  <2>1. PICK g : Joins(g, n)
    BY <1>2
  <2> DEFINE h == [i \in 1..(n + 1) |-> IF i = 1 THEN s[i] ELSE g[i-1] \o s[i]]
  <2>2. \A i \in 1..n : g[i] = IF i = 1 THEN s[i] ELSE g[i-1] \o s[i]
    BY <2>1
  <2>3. \A i \in 1..n : h[i] = g[i]
    BY <2>2
  <2>4. \A i \in 1..(n + 1) : i # 1 => i - 1 \in 1..n
    OBVIOUS
  <2>5. \A i \in 1..(n + 1) : (IF i = 1 THEN s[i] ELSE g[i-1] \o s[i]) = (IF i = 1 THEN s[i] ELSE h[i-1] \o s[i])
    BY <2>3, <2>4
  <2>6. h = [i \in 1..(n + 1) |-> IF i = 1 THEN s[i] ELSE h[i-1] \o s[i]]
    <3>1. h = [i \in 1..(n + 1) |-> h[i]] /\ \A i \in 1..(n + 1) : h[i] = IF i = 1 THEN s[i] ELSE g[i-1] \o s[i]
      OBVIOUS
    <3> HIDE DEF h
    <3>2. QED
      BY <3>1, <2>5, ZenonT(60)
  <2>7. Joins(h, n + 1)
    BY <2>6
  <2>8. \E gg : Joins(gg, n + 1)
    <3> HIDE DEF h
    <3> QED BY <2>7
  <2>9. QED
    <3> HIDE DEF Joins
    <3> QED BY <2>8
<1>3. Len(s) \in T
  <2> HIDE DEF T
  <2> QED BY <1>1, <1>2, NatSetInduction
<1>4. QED
  BY <1>3 DEF JoinBy, JoinsUp

LEMMA JoinsUpTo ==
  ASSUME NEW s, Len(s) \in Nat, NEW i \in 1..Len(s)
  PROVE  JoinBy(s)[i] = IF i = 1 THEN s[1] ELSE JoinBy(s)[i-1] \o s[i]
<1>1. JoinBy(s) = [j \in 1..Len(s) |-> IF j = 1 THEN s[j] ELSE JoinBy(s)[j-1] \o s[j]]
  BY JoinsUpExists DEF JoinsUp
<1>2. QED
  BY <1>1

LEMMA JoinFirst ==
  ASSUME NEW s, Len(s) \in Nat \ {0}
  PROVE  JoinBy(s)[1] = s[1]
BY JoinsUpTo

LEMMA JoinNext ==
  ASSUME NEW s, Len(s) \in Nat, NEW n \in Nat \ {0}, n + 1 <= Len(s)
  PROVE  JoinBy(s)[n + 1] = JoinBy(s)[n] \o s[n + 1]
<1> DEFINE i == n + 1
<1>1. i \in 1..Len(s) /\ i # 1 /\ i - 1 = n
  OBVIOUS
<1> HIDE DEF i
<1>2. JoinBy(s)[i] = JoinBy(s)[i - 1] \o s[i]
  BY <1>1, JoinsUpTo
<1>3. JoinBy(s)[i] = JoinBy(s)[n] \o s[i]
  BY <1>1, <1>2
<1>4. QED
  BY <1>3 DEF i

LEMMA JoinType ==
  ASSUME NEW B, NEW s \in Seq(Seq(B)), NEW i \in 1..Len(s)
  PROVE  JoinBy(s)[i] \in Seq(B)
<1> DEFINE T == {n \in Nat : n = 0 \/ n > Len(s) \/ JoinBy(s)[n] \in Seq(B)}
<1>1. 0 \in T
  OBVIOUS
<1>2. ASSUME NEW n \in Nat, n \in T
      PROVE  n + 1 \in T
  <2>1. SUFFICES ASSUME n + 1 <= Len(s)
                 PROVE  JoinBy(s)[n + 1] \in Seq(B)
    OBVIOUS
  <2>2. Len(s) \in Nat /\ s[n + 1] \in Seq(B)
    BY <2>1
  <2>3. CASE n = 0
    BY <2>1, <2>2, <2>3, JoinFirst
  <2>4. CASE n # 0
    <3>1. JoinBy(s)[n] \in Seq(B)
      BY <1>2, <2>1, <2>4
    <3> HIDE DEF T
    <3>2. JoinBy(s)[n + 1] = JoinBy(s)[n] \o s[n + 1]
      BY <2>1, <2>2, <2>4, JoinNext
    <3>3. QED
      BY <2>2, <3>1, <3>2
  <2>5. QED
    BY <2>3, <2>4
<1>3. i \in T
  <2> HIDE DEF T
  <2>1. Nat \subseteq T
    BY <1>1, <1>2, NatSetInduction
  <2>2. i \in Nat
    OBVIOUS
  <2>3. QED
    BY <2>1, <2>2
<1>4. QED
  BY <1>3

LEMMA FlattenEmpty == FlattenSeq(<< >>) = << >>
BY FlattenIsChosen

LEMMA FlattenType ==
  ASSUME NEW B, NEW s \in Seq(Seq(B))
  PROVE  FlattenSeq(s) \in Seq(B)
<1>1. CASE s = << >>
  <2>1. << >> \in Seq(B)
    BY EmptySeq
  <2>2. QED
    BY <1>1, <2>1, FlattenEmpty
<1>2. CASE s # << >>
  <2>1. Len(s) \in Nat \ {0} /\ Len(s) \in 1..Len(s)
    BY <1>2
  <2>2. JoinBy(s)[Len(s)] \in Seq(B)
    BY <2>1, JoinType
  <2>3. FlattenSeq(s) = JoinBy(s)[Len(s)]
    <3>1. FlattenSeq(s) = IF Len(s) = 0 THEN s ELSE JoinBy(s)[Len(s)]
      BY FlattenIsChosen
    <3>2. QED
      BY <2>1, <3>1
  <2>4. QED
    BY <2>2, <2>3
<1>3. QED
  BY <1>1, <1>2

\* Two sequences that begin alike are joined alike so far.
LEMMA JoinsAlike ==
  ASSUME NEW s, Len(s) \in Nat, NEW t, Len(t) \in Nat, NEW n \in Nat,
         n <= Len(s), n <= Len(t), \A i \in 1..n : s[i] = t[i]
  PROVE  \A i \in 1..n : JoinBy(s)[i] = JoinBy(t)[i]
<1> DEFINE T == {k \in Nat : k = 0 \/ k > n \/ JoinBy(s)[k] = JoinBy(t)[k]}
<1>1. 0 \in T
  OBVIOUS
<1>2. ASSUME NEW k \in Nat, k \in T
      PROVE  k + 1 \in T
  <2>1. SUFFICES ASSUME k + 1 <= n
                 PROVE  JoinBy(s)[k + 1] = JoinBy(t)[k + 1]
    OBVIOUS
  <2>2. k + 1 <= Len(s) /\ k + 1 <= Len(t) /\ s[k + 1] = t[k + 1] /\ Len(s) # 0 /\ Len(t) # 0
    BY <2>1
  <2>3. k = 0 \/ JoinBy(s)[k] = JoinBy(t)[k]
    BY <1>2, <2>1
  <2> HIDE DEF T
  <2>4. CASE k = 0
    BY <2>2, <2>4, JoinFirst
  <2>5. CASE k # 0
    BY <2>2, <2>3, <2>5, JoinNext
  <2>6. QED
    BY <2>4, <2>5
<1>3. Nat \subseteq T
  <2> HIDE DEF T
  <2> QED BY <1>1, <1>2, NatSetInduction
<1>4. QED
  BY <1>3

LEMMA FlattenAppend ==
  ASSUME NEW B, NEW s \in Seq(Seq(B)), NEW x \in Seq(B)
  PROVE  FlattenSeq(Append(s, x)) = FlattenSeq(s) \o x
<1> DEFINE t == Append(s, x)
           n == Len(s)
<1>1. /\ t \in Seq(Seq(B)) /\ Len(t) = n + 1 /\ n \in Nat /\ t[n + 1] = x
      /\ \A i \in 1..n : t[i] = s[i] /\ s[i] = t[i]
  OBVIOUS
<1>2. Len(t) \in Nat \ {0} /\ n <= Len(s) /\ n <= Len(t) /\ Len(s) \in Nat
  BY <1>1
<1> HIDE DEF t
<1>3. FlattenSeq(t) = JoinBy(t)[n + 1]
  BY <1>1, FlattenIsChosen
<1>4. CASE n = 0
  <2>1. JoinBy(t)[n + 1] = x /\ s = << >>
    BY <1>2, <1>1, <1>4, JoinFirst
  <2>2. FlattenSeq(s) = << >>
    BY <2>1, FlattenEmpty
  <2>3. QED
    BY <1>3, <2>1, <2>2 DEF t
<1>5. CASE n # 0
  <2>1. JoinBy(t)[n + 1] = JoinBy(t)[n] \o x
    <3>1. n \in Nat \ {0} /\ n + 1 <= Len(t) /\ Len(t) \in Nat
      BY <1>2, <1>1, <1>5
    <3>2. QED
      BY <3>1, <1>1, JoinNext
  <2>2. JoinBy(t)[n] = JoinBy(s)[n]
    <3>1. \A i \in 1..n : JoinBy(t)[i] = JoinBy(s)[i]
      <4>1. Len(t) \in Nat /\ Len(s) \in Nat /\ n \in Nat /\ n <= Len(t) /\ n <= Len(s)
        BY <1>2, <1>1
      <4>2. QED
        BY <4>1, <1>1, JoinsAlike
    <3>2. QED
      BY <3>1, <1>1, <1>5
  <2>3. FlattenSeq(s) = JoinBy(s)[n]
    BY <1>5, FlattenIsChosen
  <2>4. QED
    BY <1>1, <1>3, <2>1, <2>2, <2>3 DEF t
<1>6. QED
  BY <1>4, <1>5, <1>1

LEMMA FlattenHeadTail ==
  ASSUME NEW B, NEW s \in Seq(Seq(B)), s # << >>
  PROVE  FlattenSeq(s) = Head(s) \o FlattenSeq(Tail(s))
<1> DEFINE t == Tail(s)
           h == Head(s)
           n == Len(t)
<1>1. /\ t \in Seq(Seq(B)) /\ n \in Nat /\ Len(s) = n + 1 /\ h = s[1] /\ h \in Seq(B)
      /\ \A i \in 1..n : t[i] = s[i + 1] /\ t[i] \in Seq(B)
  <2>1. Len(s) \in Nat \ {0} /\ t \in Seq(Seq(B)) /\ Len(t) = Len(s) - 1 /\ h = s[1] /\ h \in Seq(B)
    BY HeadTailProperties, EmptySeq
  <2>2. \A i \in 1..n : t[i] = s[i + 1]
    BY <2>1, HeadTailProperties
  <2>3. \A i \in 1..n : t[i] \in Seq(B)
    BY <2>1, ElementOfSeq
  <2>4. QED
    BY <2>1, <2>2, <2>3
<1> HIDE DEF t, h, n
<1>2. Len(t) = n /\ Len(t) \in Nat /\ Len(s) \in Nat \ {0}
  BY <1>1 DEF n
<1>3. CASE n = 0
  <2>1. JoinBy(s)[1] = h /\ Len(s) = 1
    BY <1>1, <1>2, <1>3, JoinFirst
  <2>2. FlattenSeq(s) = h
    <3>1. FlattenSeq(s) = IF Len(s) = 0 THEN s ELSE JoinBy(s)[Len(s)]
      BY FlattenIsChosen
    <3>2. QED
      BY <2>1, <3>1
  <2>3. t = << >> /\ h \o << >> = h
    BY <1>1, <1>2, <1>3
  <2>4. QED
    BY <2>2, <2>3, FlattenEmpty DEF t, h
<1>4. CASE n # 0
  <2> DEFINE L(k) == JoinBy(s)[k + 1]
             R(k) == h \o JoinBy(t)[k]
             T == {k \in Nat : k = 0 \/ k > n \/ L(k) = R(k)}
  <2> HIDE DEF L, R
  <2>1. 0 \in T
    OBVIOUS
  <2>2. ASSUME NEW k \in Nat, k \in T
        PROVE  k + 1 \in T
    <3>1. SUFFICES ASSUME k + 1 <= n
                   PROVE  L(k + 1) = R(k + 1)
      BY <1>1
    <3>2. k = 0 \/ L(k) = R(k)
      BY <1>1, <2>2, <3>1
    <3> HIDE DEF T
    <3>3. k \in 0..n /\ k + 1 \in 1..n
      BY <1>1, <3>1
    <3>4. s[(k + 1) + 1] = t[k + 1] /\ t[k + 1] \in Seq(B)
      BY <1>1, <3>3
    <3>5. L(k + 1) = JoinBy(s)[k + 1] \o t[k + 1]
      <4> DEFINE i == k + 1
      <4> HIDE DEF i
      <4>1. Len(s) \in Nat /\ i \in Nat \ {0} /\ i + 1 <= Len(s) /\ s[i + 1] = t[i]
        BY <1>1, <1>2, <3>3, <3>4 DEF i
      <4>2. JoinBy(s)[i + 1] = JoinBy(s)[i] \o s[i + 1]
        BY <4>1, JoinNext
      <4>3. QED
        BY <4>1, <4>2 DEF i, L
    <3>6. CASE k = 0
      <4>1. JoinBy(s)[1] = h /\ JoinBy(t)[1] = t[1] /\ k + 1 = 1
        <5>1. Len(s) \in Nat \ {0} /\ Len(t) \in Nat \ {0} /\ h = s[1]
          BY <1>1, <1>2, <1>4
        <5>2. QED
          BY <5>1, <3>6, JoinFirst
      <4>2. L(k + 1) = h \o t[1] /\ R(k + 1) = h \o t[1]
        BY <4>1, <3>5 DEF R
      <4>3. QED
        BY <4>2
    <3>7. CASE k # 0
      <4>1. k \in 1..Len(t) /\ k \in Nat \ {0} /\ k + 1 <= Len(t)
        BY <3>3, <3>7, <1>2, <3>1
      <4>2. JoinBy(t)[k + 1] = JoinBy(t)[k] \o t[k + 1]
        BY <4>1, <1>2, JoinNext
      <4>3. JoinBy(t)[k] \in Seq(B)
        BY <1>1, <4>1, JoinType
      <4>4. (h \o JoinBy(t)[k]) \o t[k + 1] = h \o (JoinBy(t)[k] \o t[k + 1])
        <5>1. \A u, v, w \in Seq(B) : (u \o v) \o w = u \o (v \o w)
          BY ConcatAssociative, SMTT(30)
        <5>2. h \in Seq(B) /\ t[k + 1] \in Seq(B)
          BY <1>1, <3>4
        <5>3. QED
          BY <4>3, <5>1, <5>2
      <4>5. L(k) \o t[k + 1] = L(k + 1)
        BY <3>5 DEF L
      <4>6. L(k + 1) = R(k) \o t[k + 1]
        BY <4>5, <3>2, <3>7
      <4>7. QED
        BY <4>2, <4>4, <4>6 DEF R
    <3>8. QED
      BY <3>6, <3>7
  <2>3. Nat \subseteq T
    <3> HIDE DEF T
    <3> QED BY <2>1, <2>2, NatSetInduction
  <2>4. n \in T
    BY <1>1, <2>3
  <2>5. L(n) = R(n)
    BY <1>1, <1>4, <2>4
  <2>6. FlattenSeq(s) = JoinBy(s)[n + 1] /\ FlattenSeq(t) = JoinBy(t)[n]
    BY <1>1, <1>2, <1>4, FlattenIsChosen
  <2>7. QED
    BY <2>5, <2>6 DEF t, h, L, R
<1>5. QED
  BY <1>3, <1>4, <1>1

-----------------------------------------------------------------------------
(*** A sequence in two parts ***)

LEMMA CutInTwo ==
  ASSUME NEW B, NEW s \in Seq(B), NEW n \in 0..Len(s)
  PROVE  /\ SubSeq(s, 1, n) \in Seq(B) /\ Len(SubSeq(s, 1, n)) = n
         /\ SubSeq(s, n + 1, Len(s)) \in Seq(B) /\ Len(SubSeq(s, n + 1, Len(s))) = Len(s) - n
         /\ \A i \in 1..n : SubSeq(s, 1, n)[i] = s[i]
         /\ \A i \in 1..(Len(s) - n) : SubSeq(s, n + 1, Len(s))[i] = s[n + i]
         /\ SubSeq(s, 1, n) \o SubSeq(s, n + 1, Len(s)) = s
<1>1. Len(s) \in Nat /\ n \in Nat /\ \A i \in 1..Len(s) : s[i] \in B
  OBVIOUS
<1> DEFINE a == SubSeq(s, 1, n)
           b == SubSeq(s, n + 1, Len(s))
<1>2. a \in Seq(B) /\ Len(a) = n /\ \A i \in 1..n : a[i] = s[i]
  BY <1>1, SubSeqProperties
<1>3. b \in Seq(B) /\ Len(b) = Len(s) - n /\ \A i \in 1..(Len(s) - n) : b[i] = s[n + i]
  <2>1. \A i \in (n + 1)..Len(s) : s[i] \in B
    BY <1>1
  <2>2. b \in Seq(B) /\ Len(b) = (IF n + 1 <= Len(s) THEN Len(s) - (n + 1) + 1 ELSE 0)
        /\ \A i \in 1..(Len(s) - (n + 1) + 1) : b[i] = s[(n + 1) + i - 1]
    BY <1>1, <2>1, SubSeqProperties
  <2> HIDE DEF b
  <2>3. QED
    BY <1>1, <2>2
<1> HIDE DEF a, b
<1>4. a \o b = s
  <2>1. a \o b \in Seq(B) /\ Len(a \o b) = Len(s)
        /\ \A i \in 1..Len(s) : (a \o b)[i] = IF i <= n THEN a[i] ELSE b[i - n]
    BY <1>1, <1>2, <1>3, ConcatProperties
  <2>2. \A i \in 1..Len(s) : (a \o b)[i] = s[i]
    <3>1. SUFFICES ASSUME NEW i \in 1..Len(s)
                   PROVE  (a \o b)[i] = s[i]
      OBVIOUS
    <3>2. CASE i <= n
      BY <1>1, <1>2, <2>1, <3>2
    <3>3. CASE ~(i <= n)
      <4>1. i - n \in 1..(Len(s) - n) /\ n + (i - n) = i
        BY <1>1, <3>3
      <4>2. b[i - n] = s[n + (i - n)]
        BY <1>3, <4>1
      <4>3. QED
        BY <4>1, <4>2, <2>1, <3>3
    <3>4. QED
      BY <3>2, <3>3
  <2>3. QED
    BY <2>1, <2>2, SeqEqual
<1>5. QED
  BY <1>2, <1>3, <1>4 DEF a, b

LEMMA CutAtTheEnds ==
  ASSUME NEW B, NEW s \in Seq(B)
  PROVE  /\ SubSeq(s, 1, 0) = << >> /\ SubSeq(s, 0 + 1, Len(s)) = s
         /\ SubSeq(s, 1, Len(s)) = s /\ SubSeq(s, Len(s) + 1, Len(s)) = << >>
BY SubSeqFull, SubSeqEmpty

\* The parts of a sequence are known by their concatenation and the length of one.
LEMMA CutOfConcat ==
  ASSUME NEW B, NEW s \in Seq(B), NEW t \in Seq(B), NEW n \in 0..Len(s)
  PROVE  /\ Len(s \o t) = Len(s) + Len(t) /\ s \o t \in Seq(B) /\ n \in 0..Len(s \o t)
         /\ SubSeq(s \o t, 1, n) = SubSeq(s, 1, n)
         /\ SubSeq(s \o t, n + 1, Len(s \o t)) = SubSeq(s, n + 1, Len(s)) \o t
<1> DEFINE u == s \o t
           a == SubSeq(s, 1, n)
           b == SubSeq(s, n + 1, Len(s))
           c == SubSeq(u, 1, n)
           d == SubSeq(u, n + 1, Len(u))
<1>1. /\ u \in Seq(B) /\ Len(u) = Len(s) + Len(t) /\ Len(s) \in Nat /\ Len(t) \in Nat
      /\ \A i \in 1..(Len(s) + Len(t)) : u[i] = IF i <= Len(s) THEN s[i] ELSE t[i - Len(s)]
  BY ConcatProperties
<1>2. n \in 0..Len(u)
  BY <1>1
<1> HIDE DEF u
<1>3. a \in Seq(B) /\ Len(a) = n /\ b \in Seq(B) /\ Len(b) = Len(s) - n /\ a \o b = s
      /\ \A i \in 1..n : a[i] = s[i]
  BY CutInTwo
<1>4. c \in Seq(B) /\ Len(c) = n /\ d \in Seq(B) /\ c \o d = u /\ \A i \in 1..n : c[i] = u[i]
  BY <1>1, <1>2, CutInTwo
<1> HIDE DEF a, b, c, d
<1>5. a = c
  <2>1. \A i \in 1..n : a[i] = c[i]
    BY <1>1, <1>3, <1>4
  <2>2. QED
    BY <1>3, <1>4, <2>1, SeqEqual
<1>6. a \o (b \o t) = u
  <2>1. \A x, y, z \in Seq(B) : (x \o y) \o z = x \o (y \o z)
    BY ConcatAssociative, SMTT(30)
  <2>2. (a \o b) \o t = a \o (b \o t)
    BY <1>3, <2>1, ZenonT(60)
  <2>3. QED
    BY <1>3, <2>2 DEF u
<1>7. b \o t \in Seq(B)
  BY <1>3, ConcatProperties
<1>8. d = b \o t
  <2> DEFINE e == b \o t
  <2>1. e \in Seq(B) /\ a \o e = c \o d
    BY <1>4, <1>6, <1>7
  <2> HIDE DEF e
  <2>2. a \o d = a \o e
    BY <1>5, <2>1
  <2>3. \A x, y, z \in Seq(B) : x \o y = x \o z => y = z
    BY ConcatSimplifications
  <2>4. d = e
    BY <1>3, <1>4, <2>1, <2>2, <2>3
  <2>5. QED
    BY <2>4 DEF e
<1>9. QED
  BY <1>1, <1>2, <1>5, <1>8 DEF a, b, c, d, u

LEMMA CutTwice ==
  ASSUME NEW B, NEW s \in Seq(B), NEW n \in 0..Len(s), NEW m \in 0..(Len(s) - n)
  PROVE  LET t == SubSeq(s, n + 1, Len(s)) IN
         n + m \in 0..Len(s) /\ SubSeq(t, m + 1, Len(t)) = SubSeq(s, (n + m) + 1, Len(s))
<1> DEFINE t == SubSeq(s, n + 1, Len(s))
           u == SubSeq(t, m + 1, Len(t))
           k == n + m
           v == SubSeq(s, k + 1, Len(s))
<1>1. Len(s) \in Nat /\ n \in Nat /\ m \in Nat /\ k \in 0..Len(s)
  OBVIOUS
<1>2. t \in Seq(B) /\ Len(t) = Len(s) - n /\ \A i \in 1..(Len(s) - n) : t[i] = s[n + i]
  BY CutInTwo
<1> HIDE DEF t
<1>3. u \in Seq(B) /\ Len(u) = Len(t) - m /\ \A i \in 1..(Len(t) - m) : u[i] = t[m + i]
  <2>1. m \in 0..Len(t)
    BY <1>2
  <2>2. QED
    BY <1>2, <2>1, CutInTwo
<1> HIDE DEF u
<1>4. v \in Seq(B) /\ Len(v) = Len(s) - k /\ \A i \in 1..(Len(s) - k) : v[i] = s[k + i]
  <2> HIDE DEF k
  <2> QED BY <1>1, CutInTwo
<1> HIDE DEF v
<1>5. Len(u) = Len(v)
  BY <1>1, <1>2, <1>3, <1>4
<1>6. ASSUME NEW i \in 1..Len(u)
      PROVE  u[i] = v[i]
  <2>1. i \in Nat /\ i \in 1..(Len(t) - m) /\ m + i \in 1..(Len(s) - n) /\ i \in 1..(Len(s) - k) /\ n + (m + i) = k + i
    BY <1>1, <1>2, <1>3
  <2>2. u[i] = t[m + i]
    BY <2>1, <1>3
  <2>3. t[m + i] = s[n + (m + i)]
    <3> DEFINE j == m + i
    <3> HIDE DEF j
    <3>1. j \in 1..(Len(s) - n)
      BY <2>1 DEF j
    <3>2. t[j] = s[n + j]
      BY <1>2, <3>1
    <3>3. QED
      BY <3>2 DEF j
  <2>4. v[i] = s[k + i]
    BY <2>1, <1>4
  <2>5. QED
    BY <2>1, <2>2, <2>3, <2>4
<1>7. u = v
  BY <1>3, <1>4, <1>5, <1>6, SeqEqual
<1>8. QED
  BY <1>1, <1>7 DEF t, u, v
=============================================================================
