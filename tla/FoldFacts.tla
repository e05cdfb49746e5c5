------------------------------ MODULE FoldFacts ------------------------------
(***************************************************************************)
(* What FoldLeft does with an operator Op, for proofs: an invariant of the *)
(* fold, given for every position of the sequence, holds at the end.       *)
(* Instantiated with Op for each fold that a proof is about.               *)
(***************************************************************************)
EXTENDS Integers, Sequences, SequencesExt, WellFoundedInduction, TLAPS

CONSTANT Op(_, _)

Fold(base, seq) == FoldLeft(Op, base, seq)

-----------------------------------------------------------------------------
(* Every set of natural numbers that is not empty has a least element.     *)
LEMMA LeastNumber ==
    ASSUME NEW T \in SUBSET Nat, T # {}
    PROVE  \E x \in T : \A y \in T : x <= y
<1> DEFINE R == OpToRel(<, Nat)
<1>1. IsWellFoundedOn(R, Nat)
  BY NatLessThanWellFounded
<1>2. \A x, y \in Nat : <<y, x>> \in R <=> y < x
  BY DEF OpToRel
<1> HIDE DEF R
<1>3. PICK x \in T : \A y \in T : ~ (<<y, x>> \in R)
  BY <1>1, WFMin
<1>4. \A y \in T : x <= y
  <2> TAKE y \in T
  <2>1. x \in Nat /\ y \in Nat
    OBVIOUS
  <2>2. ~ (y < x)
    BY <1>2, <1>3, <2>1
  <2> QED BY <2>1, <2>2
<1> QED BY <1>4

(* Induction, for sets of numbers.                                         *)
LEMMA Induction ==
    ASSUME NEW S, 0 \in S, \A n \in Nat : n \in S => n + 1 \in S
    PROVE  Nat \subseteq S
<1> DEFINE T == {n \in Nat : n \notin S}
<1>1. SUFFICES ASSUME T # {} PROVE FALSE
  OBVIOUS
<1>2. PICK x \in T : \A y \in T : x <= y
  BY <1>1, LeastNumber
<1>3. x # 0 /\ x \in Nat
  OBVIOUS
<1>4. x - 1 \in Nat /\ x - 1 \notin T
  BY <1>2, <1>3
<1> QED BY <1>3, <1>4

(* A set of numbers up to n has a greatest element.                        *)
LEMMA GreatestNumber ==
    ASSUME NEW n \in Nat, NEW T \in SUBSET (1 .. n), T # {}
    PROVE  /\ Max(T) \in T
           /\ \A y \in T : Max(T) >= y
<1> DEFINE D == {n - y : y \in T}
<1>1. D \in SUBSET Nat /\ D # {}
  <2>1. \A y \in T : n - y \in Nat
    OBVIOUS
  <2> QED BY <2>1
<1>2. PICK d \in D : \A e \in D : d <= e
  BY <1>1, LeastNumber
<1>3. PICK x \in T : d = n - x
  OBVIOUS
<1>4. \A y \in T : x >= y
  <2> TAKE y \in T
  <2>1. n - y \in D
    OBVIOUS
  <2>2. n - x <= n - y
    BY <1>2, <1>3, <2>1
  <2> QED BY <2>2
<1> QED BY <1>3, <1>4 DEF Max

-----------------------------------------------------------------------------
(* The recursive function by which the library defines FoldLeft, over the  *)
(* sets of positions up to n.                                              *)
IsIter(f, base, seq, n) ==
    f = [s \in SUBSET (1 .. n) |->
            IF s = {} THEN base ELSE Op(f[s \ {Max(s)}], seq[Max(s)])]

LEMMA IterExists ==
    ASSUME NEW base, NEW seq
    PROVE  \A n \in Nat : \E f : IsIter(f, base, seq, n)
<1> DEFINE S == {n \in Nat : \E f : IsIter(f, base, seq, n)}
<1>1. 0 \in S
  <2> DEFINE f == [s \in SUBSET (1 .. 0) |-> base]
  <2>1. \A s \in SUBSET (1 .. 0) : s = {}
    OBVIOUS
  <2>2. f = [s \in SUBSET (1 .. 0) |->
               IF s = {} THEN base ELSE Op(f[s \ {Max(s)}], seq[Max(s)])]
    BY <2>1
  <2> QED BY <2>2 DEF IsIter
<1>2. ASSUME NEW n \in Nat, n \in S PROVE n + 1 \in S
  <2>1. PICK f : IsIter(f, base, seq, n)
    BY <1>2
  <2>2. \A s \in SUBSET (1 .. n) :
          f[s] = IF s = {} THEN base ELSE Op(f[s \ {Max(s)}], seq[Max(s)])
    BY <2>1 DEF IsIter
  <2> DEFINE g == [s \in SUBSET (1 .. n + 1) |->
                     IF n + 1 \in s THEN Op(f[s \ {n + 1}], seq[n + 1]) ELSE f[s]]
  <2>3. ASSUME NEW s \in SUBSET (1 .. n + 1)
        PROVE  g[s] = IF s = {} THEN base ELSE Op(g[s \ {Max(s)}], seq[Max(s)])
    <3>1. CASE n + 1 \in s
      <4>1. Max(s) \in s /\ \A y \in s : Max(s) >= y
        <5>1. n + 1 \in Nat /\ s # {}
          BY <3>1
        <5> QED BY <5>1, GreatestNumber
      <4>2. Max(s) = n + 1
        <5>1. Max(s) \in 1 .. n + 1 /\ Max(s) >= n + 1
          BY <3>1, <4>1
        <5> HIDE DEF g
        <5> QED BY <5>1
      <4>3. s \ {n + 1} \in SUBSET (1 .. n + 1) /\ n + 1 \notin s \ {n + 1}
        OBVIOUS
      <4>4. g[s \ {n + 1}] = f[s \ {n + 1}]
        BY <4>3
      <4>5. g[s] = Op(f[s \ {n + 1}], seq[n + 1])
        BY <3>1
      <4> QED BY <3>1, <4>2, <4>4, <4>5
    <3>2. CASE n + 1 \notin s
      <4>1. s \in SUBSET (1 .. n) /\ g[s] = f[s]
        BY <3>2
      <4>2. s # {} => g[s \ {Max(s)}] = f[s \ {Max(s)}]
        BY <3>2
      <4> HIDE DEF g
      <4> QED BY <2>2, <4>1, <4>2
    <3> QED BY <3>1, <3>2
  <2>4. g = [s \in SUBSET (1 .. n + 1) |-> g[s]]
    OBVIOUS
  <2> HIDE DEF g
  <2>5. IsIter(g, base, seq, n + 1)
    BY <2>3, <2>4 DEF IsIter
  <2> QED BY <2>5
<1>3. Nat \subseteq S
  <2> HIDE DEF S
  <2> QED BY <1>1, <1>2, Induction
<1> QED BY <1>3

(* What the library's definition of FoldLeft comes to.                     *)
LEMMA FoldIter ==
    ASSUME NEW base, NEW seq, NEW n \in Nat, DOMAIN seq = 1 .. n
    PROVE  \E f : IsIter(f, base, seq, n) /\ Fold(base, seq) = f[1 .. n]
<1> DEFINE f == CHOOSE f : f = [s \in SUBSET (DOMAIN seq) |->
            IF s = {} THEN base ELSE Op(f[s \ {Max(s)}], seq[Max(s)])]
<1>1. Fold(base, seq) = f[DOMAIN seq]
  BY DEF Fold, FoldLeft, MapThenFoldSet
<1>2. \E g : g = [s \in SUBSET (DOMAIN seq) |->
            IF s = {} THEN base ELSE Op(g[s \ {Max(s)}], seq[Max(s)])]
  <2>1. PICK g : IsIter(g, base, seq, n)
    BY IterExists
  <2>2. g = [s \in SUBSET (DOMAIN seq) |->
               IF s = {} THEN base ELSE Op(g[s \ {Max(s)}], seq[Max(s)])]
    BY <2>1 DEF IsIter
  <2> QED BY <2>2
<1>3. f = [s \in SUBSET (DOMAIN seq) |->
            IF s = {} THEN base ELSE Op(f[s \ {Max(s)}], seq[Max(s)])]
  BY <1>2
<1> HIDE DEF f
<1>4. IsIter(f, base, seq, n)
  BY <1>3 DEF IsIter
<1> QED BY <1>1, <1>4

(* An invariant of the fold: J[k] holds the results for the first k        *)
(* elements.                                                               *)
THEOREM FoldThrough ==
    ASSUME NEW n \in Nat, NEW seq, DOMAIN seq = 1 .. n, NEW J, NEW base \in J[0],
           \A k \in 1 .. n : \A s \in J[k - 1] : Op(s, seq[k]) \in J[k]
    PROVE  Fold(base, seq) \in J[n]
<1>1. PICK f : IsIter(f, base, seq, n) /\ Fold(base, seq) = f[1 .. n]
  BY FoldIter
<1>2. \A s \in SUBSET (1 .. n) :
        f[s] = IF s = {} THEN base ELSE Op(f[s \ {Max(s)}], seq[Max(s)])
  BY <1>1 DEF IsIter
<1> DEFINE S == {k \in Nat : k <= n => f[1 .. k] \in J[k]}
<1>3. 0 \in S
  <2>1. 1 .. 0 = {} /\ 1 .. 0 \in SUBSET (1 .. n)
    OBVIOUS
  <2> QED BY <1>2, <2>1
<1>4. ASSUME NEW k \in Nat, k \in S PROVE k + 1 \in S
  <2> SUFFICES ASSUME k + 1 <= n PROVE f[1 .. k + 1] \in J[k + 1]
    <3> k + 1 \in Nat
      OBVIOUS
    <3> QED OBVIOUS
  <2> DEFINE s == 1 .. k + 1
  <2>1. s \in SUBSET (1 .. n) /\ s # {} /\ k + 1 \in s
    <3>1. k + 1 \in s
      OBVIOUS
    <3>2. \A y \in s : y \in 1 .. n
      OBVIOUS
    <3> QED BY <3>1, <3>2
  <2>2. Max(s) \in s /\ \A y \in s : Max(s) >= y
    BY <2>1, GreatestNumber
  <2>3. Max(s) = k + 1 /\ s \ {k + 1} = 1 .. k
    BY <2>1, <2>2
  <2> HIDE DEF s
  <2>4. f[s] = Op(f[1 .. k], seq[k + 1])
    BY <1>2, <2>1, <2>3
  <2>5. f[1 .. k] \in J[k] /\ k + 1 \in 1 .. n /\ (k + 1) - 1 = k
    BY <1>4
  <2> QED BY <2>4, <2>5 DEF s
<1>5. Nat \subseteq S
  <2> HIDE DEF S
  <2> QED BY <1>3, <1>4, Induction
<1> QED BY <1>1, <1>5
=============================================================================
