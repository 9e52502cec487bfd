------------------------------ MODULE FoldFacts ------------------------------
(***************************************************************************)
(* What a FoldLeft computes, for any operator Op and any sequence: the     *)
(* loops of the code are folds.  A module that proves something of one     *)
(* takes this module with its own operator for Op, so that the facts below *)
(* are facts about it; Op's first argument c is what stays the same        *)
(* throughout the fold.  The facts rest on induction over the natural      *)
(* numbers, with a set in the place of the predicate.                      *)
(***************************************************************************)
EXTENDS SequencesExt, FiniteSetTheorems, WellFoundedInduction, TLAPS

CONSTANT Op(_, _, _)

-----------------------------------------------------------------------------
(* Induction.                                                              *)

LEMMA LeastElement ==
  ASSUME NEW T \in SUBSET Nat, T # {}
  PROVE  \E n \in T : \A m \in T : n <= m
<1>1. PICK n \in T : \A m \in T : <<m, n>> \notin OpToRel(<, Nat)
  BY NatLessThanWellFounded, WFMin
<1>2. \A m \in T : ~(m < n)
  BY <1>1 DEF OpToRel
<1> QED BY <1>2

\* What holds of 0 and is passed on to the next number holds up to n.
LEMMA InductionTo ==
  ASSUME NEW n \in Nat, NEW T, 0 \in T, \A i \in 0..n - 1 : i \in T => i + 1 \in T
  PROVE  0..n \subseteq T
<1> DEFINE U == (0..n) \ T
<1> SUFFICES ASSUME U # {} PROVE FALSE
  OBVIOUS
<1>1. PICK i \in U : \A k \in U : i <= k
  <2>1. U \in SUBSET Nat /\ U # {}
    OBVIOUS
  <2> HIDE DEF U
  <2> QED BY <2>1, LeastElement
<1>2. i # 0 /\ i - 1 \in 0..n - 1 /\ i - 1 \in 0..n /\ ~(i <= i - 1) /\ (i - 1) + 1 = i
  BY <1>1
<1>3. i - 1 \in T
  BY <1>1, <1>2
<1>4. i \in T
  BY <1>2, <1>3
<1> QED BY <1>1, <1>4

-----------------------------------------------------------------------------
(* Folds.                                                                  *)

\* Op(c, x, e) is what element e makes of x; c is what the loop does not change.
Fold(c, base, seq) == FoldLeft(LAMBDA x, e : Op(c, x, e), base, seq)

\* f[i] is what the first i elements make of base.
Unfolds(c, f, base, seq, n) ==
  /\ f[0] = base
  /\ \A i \in 1..n : f[i] = Op(c, f[i - 1], seq[i])

\* FoldLeft's own recursion, over the subsets of 1..n.
Folds(c, g, base, seq, n) ==
  g = [s \in SUBSET (1..n) |->
         IF s = {} THEN base ELSE Op(c, g[s \ {Max(s)}], seq[Max(s)])]

LEMMA MaxOfNext ==
  ASSUME NEW n \in Nat, NEW s \in SUBSET (1..n + 1), n + 1 \in s
  PROVE  Max(s) = n + 1
<1>1. \A y \in s : n + 1 >= y
  OBVIOUS
<1>2. \A x \in s : (\A y \in s : x >= y) => x = n + 1
  OBVIOUS
<1>3. Max(s) = CHOOSE x \in s : \A y \in s : x >= y
  BY DEF Max
<1>4. Max(s) \in s /\ \A y \in s : Max(s) >= y
  BY <1>1, <1>3
<1> QED BY <1>2, <1>4

LEMMA MaxWithin ==
  ASSUME NEW n \in Nat, NEW s \in SUBSET (1..n), s # {}
  PROVE  Max(s) \in s
<1> DEFINE T == {n - x : x \in s}
<1>1. T \in SUBSET Nat /\ T # {}
  <2>1. \A x \in s : n - x \in Nat
    OBVIOUS
  <2> QED BY <2>1
<1>2. PICK m \in T : \A k \in T : m <= k
  BY <1>1, LeastElement
<1>3. PICK x \in s : m = n - x
  BY <1>2
<1>4. \A y \in s : x >= y
  <2> TAKE y \in s
  <2>1. n - y \in T
    OBVIOUS
  <2> QED BY <1>2, <1>3, <2>1
<1> QED BY <1>3, <1>4 DEF Max

LEMMA FoldsExist ==
  ASSUME NEW c, NEW base, NEW seq, NEW n \in Nat
  PROVE  \E g : Folds(c, g, base, seq, n)
<1> DEFINE T == {i \in Nat : \E g : Folds(c, g, base, seq, i)}
<1>1. 0 \in T
  <2> DEFINE g == [s \in SUBSET (1..0) |-> base]
  <2>1. \A s \in SUBSET (1..0) : s = {}
    OBVIOUS
  <2>2. Folds(c, g, base, seq, 0)
    BY <2>1 DEF Folds
  <2> QED BY <2>2
<1>2. ASSUME NEW i \in Nat, NEW g, Folds(c, g, base, seq, i)
      PROVE  \E h : Folds(c, h, base, seq, i + 1)
  <2> DEFINE h == [s \in SUBSET (1..i + 1) |->
                     IF i + 1 \in s THEN Op(c, g[s \ {i + 1}], seq[i + 1]) ELSE g[s]]
             next(s) == IF s = {} THEN base ELSE Op(c, h[s \ {Max(s)}], seq[Max(s)])
  <2>1. \A s \in SUBSET (1..i + 1) : i + 1 \notin s => s \in SUBSET (1..i) /\ h[s] = g[s]
    OBVIOUS
  <2>2. ASSUME NEW s \in SUBSET (1..i + 1) PROVE h[s] = next(s)
    <3>1. CASE i + 1 \in s
      <4>1. Max(s) = i + 1
        BY <3>1, MaxOfNext
      <4>2. h[s \ {i + 1}] = g[s \ {i + 1}]
        BY <2>1
      <4> QED BY <3>1, <4>1, <4>2
    <3>2. CASE i + 1 \notin s /\ s # {}
      <4>1. Max(s) \in s /\ s \in SUBSET (1..i)
        BY <2>1, <3>2, MaxWithin
      <4>2. h[s] = g[s] /\ h[s \ {Max(s)}] = g[s \ {Max(s)}]
        BY <2>1, <3>2, <4>1
      <4>3. g[s] = Op(c, g[s \ {Max(s)}], seq[Max(s)])
        BY <1>2, <3>2, <4>1 DEF Folds
      <4> QED BY <3>2, <4>2, <4>3
    <3>3. CASE s = {}
      <4>1. h[s] = g[s] /\ s \in SUBSET (1..i)
        BY <2>1, <3>3
      <4> QED BY <1>2, <3>3, <4>1 DEF Folds
    <3> QED BY <3>1, <3>2, <3>3
  <2>3. h = [s \in SUBSET (1..i + 1) |-> next(s)]
    <3> HIDE DEF next
    <3> QED BY <2>2
  <2>4. Folds(c, h, base, seq, i + 1)
    <3> HIDE DEF h
    <3> QED BY <2>3 DEF Folds
  <2> QED BY <2>4
<1>3. \A i \in 0..n - 1 : i \in T => i + 1 \in T
  BY <1>2
<1>4. n \in T
  <2> HIDE DEF T
  <2> QED BY <1>1, <1>3, InductionTo
<1> QED BY <1>4

LEMMA FoldUnfolds ==
  ASSUME NEW c, NEW base, NEW seq, NEW n \in Nat, DOMAIN seq = 1..n
  PROVE  \E f : Unfolds(c, f, base, seq, n) /\ Fold(c, base, seq) = f[n]
<1> DEFINE g == CHOOSE h : Folds(c, h, base, seq, n)
           f == [i \in 0..n |-> g[1..i]]
<1>1. Folds(c, g, base, seq, n)
  BY FoldsExist
<1>2. Fold(c, base, seq) = g[1..n]
  BY DEF Fold, FoldLeft, MapThenFoldSet, Folds
<1> HIDE DEF g
<1>3. f[0] = base
  BY <1>1 DEF Folds
<1>4. ASSUME NEW i \in 1..n PROVE f[i] = Op(c, f[i - 1], seq[i])
  <2>1. i - 1 \in Nat /\ (i - 1) + 1 = i /\ 1..i \in SUBSET (1..n) /\ i \in 1..i /\ 1..i # {}
    OBVIOUS
  <2>2. Max(1..i) = i
    BY <2>1, MaxOfNext
  <2>3. (1..i) \ {i} = 1..i - 1
    OBVIOUS
  <2>4. g[1..i] = Op(c, g[(1..i) \ {i}], seq[i])
    <3>1. \A s \in SUBSET (1..n) : s # {} => g[s] = Op(c, g[s \ {Max(s)}], seq[Max(s)])
      BY <1>1 DEF Folds
    <3> QED BY <2>1, <2>2, <3>1
  <2>5. f[i] = g[1..i] /\ f[i - 1] = g[1..i - 1]
    BY <2>1
  <2>6. Op(c, g[(1..i) \ {i}], seq[i]) = Op(c, f[i - 1], seq[i])
    BY <2>3, <2>5
  <2> QED BY <2>4, <2>5, <2>6
<1>5. Fold(c, base, seq) = f[n]
  BY <1>2
<1>6. Unfolds(c, f, base, seq, n)
  BY <1>3, <1>4 DEF Unfolds
<1> HIDE DEF f
<1> QED BY <1>5, <1>6

\* P relates how many elements a loop has seen to what it may hold by then.
Carries(c, P, seq, n) ==
  \A i \in 1..n : \A x : <<i - 1, x>> \in P => <<i, Op(c, x, seq[i])>> \in P

\* A loop invariant holds at the end of the loop.
LEMMA FoldKeeps ==
  ASSUME NEW c, NEW base, NEW seq, NEW n \in Nat, DOMAIN seq = 1..n,
         NEW P, <<0, base>> \in P, Carries(c, P, seq, n)
  PROVE  <<n, Fold(c, base, seq)>> \in P
<1>1. PICK f : Unfolds(c, f, base, seq, n) /\ Fold(c, base, seq) = f[n]
  BY FoldUnfolds
<1> DEFINE T == {i \in 0..n : <<i, f[i]>> \in P}
<1>2. 0 \in T
  BY <1>1 DEF Unfolds
<1>3. ASSUME NEW i \in 0..n - 1, i \in T PROVE i + 1 \in T
  <2>1. i + 1 \in 1..n /\ (i + 1) - 1 = i /\ i + 1 \in 0..n
    OBVIOUS
  <2>2. f[i + 1] = Op(c, f[i], seq[i + 1])
    BY <1>1, <2>1 DEF Unfolds
  <2>3. <<i + 1, Op(c, f[i], seq[i + 1])>> \in P
    BY <1>3, <2>1 DEF Carries
  <2> QED BY <2>1, <2>2, <2>3
<1>4. n \in T
  <2>1. 0..n \subseteq T
    <3> HIDE DEF T
    <3> QED BY <1>2, <1>3, InductionTo
  <2> QED BY <2>1
<1> QED BY <1>1, <1>4
=============================================================================
