------------------------------ MODULE Induction ------------------------------
(***************************************************************************)
(* Induction over the naturals as facts about sets, and the existence of   *)
(* what a fold computes: for the proofs about folds and recursive          *)
(* functions.  A proof by induction on P takes the set of the numbers that *)
(* satisfy P.                                                              *)
(***************************************************************************)
EXTENDS Integers, SequencesExt, FiniteSetTheorems, SequenceTheorems, WellFoundedInduction,
    TLAPS

\* Every set of naturals has a least element.
LEMMA LeastNatural ==
    ASSUME NEW T \in SUBSET Nat, T # {}
    PROVE  \E x \in T : \A y \in T : x <= y
<1> DEFINE R == OpToRel(<, Nat)
<1>1. IsWellFoundedOn(R, Nat)
  BY NatLessThanWellFounded
<1>2. \A x, y \in Nat : <<x, y>> \in R <=> x < y
  BY DEF OpToRel
<1> HIDE DEF R
<1>3. PICK x \in T : \A y \in T : <<y, x>> \notin R
  BY <1>1, WFMin
<1>4. ASSUME NEW y \in T PROVE x <= y
  <2>1. x \in Nat /\ y \in Nat
    OBVIOUS
  <2>2. ~(y < x)
    BY <1>2, <1>3, <2>1
  <2> QED
    BY <2>1, <2>2
<1> QED
  BY <1>3, <1>4

\* A set that holds 0, and with each number the next one, holds all.
LEMMA InductionOnNat ==
    ASSUME NEW T, 0 \in T, \A n \in Nat : n \in T => n + 1 \in T
    PROVE  Nat \subseteq T
<1> SUFFICES ASSUME NEW k \in Nat, k \notin T PROVE FALSE
  OBVIOUS
<1> DEFINE F == {n \in Nat : n \notin T}
<1>1. PICK x \in F : \A y \in F : x <= y
  BY LeastNatural
<1>2. x # 0 /\ x - 1 \in Nat /\ x - 1 \notin F
  BY <1>1
<1> QED
  BY <1>1, <1>2

\* The same for the numbers up to n.
LEMMA InductionUpTo ==
    ASSUME NEW n \in Nat, NEW T, 0 \in T, \A k \in 0..(n - 1) : k \in T => k + 1 \in T
    PROVE  0..n \subseteq T
<1> DEFINE U == T \cup {k \in Nat : k > n}
<1>1. 0 \in U /\ \A k \in Nat : k \in U => k + 1 \in U
  OBVIOUS
<1> HIDE DEF U
<1>2. Nat \subseteq U
  BY <1>1, InductionOnNat
<1> QED
  BY <1>2 DEF U

\* A set that holds 0, and up to n the successor of each it holds, holds n.
LEMMA InductionTo ==
    ASSUME NEW n \in Nat, NEW T, 0 \in T, \A k \in 0..(n - 1) : k \in T => k + 1 \in T
    PROVE  n \in T
<1>1. 0..n \subseteq T
  BY InductionUpTo
<1> QED
  BY <1>1

\* Min and Max are what they are called.
LEMMA MinIsLeast ==
    ASSUME NEW T \in SUBSET Nat, T # {}
    PROVE  Min(T) \in T /\ \A y \in T : Min(T) <= y
BY LeastNatural DEF Min

LEMMA MaxIsGreatest ==
    ASSUME NEW n \in Nat, NEW T \in SUBSET (1..n), T # {}
    PROVE  Max(T) \in T /\ \A y \in T : Max(T) >= y
<1> DEFINE U == {n - x : x \in T}
<1>1. PICK u \in U : \A y \in U : u <= y
  <2>1. \A x \in T : x \in 1..n
    OBVIOUS
  <2>2. \A x \in 1..n : n - x \in Nat
    OBVIOUS
  <2>3. U \in SUBSET Nat /\ U # {}
    BY <2>1, <2>2
  <2> HIDE DEF U
  <2> QED
    BY <2>3, LeastNatural
<1>2. PICK x \in T : u = n - x
  OBVIOUS
<1>3. ASSUME NEW y \in T PROVE x >= y
  <2>1. n - x <= n - y
    BY <1>1, <1>2
  <2> QED
    BY <2>1
<1>4. \E z \in T : \A y \in T : z >= y
  BY <1>3
<1> QED
  BY <1>4 DEF Max

LEMMA MaxOfInterval == ASSUME NEW k \in Nat \ {0} PROVE Max(1..k) = k /\ (1..k) \ {k} = 1..(k - 1)
<1>1. 1..k \in SUBSET (1..k) /\ k \in 1..k
  OBVIOUS
<1>2. Max(1..k) \in 1..k /\ Max(1..k) >= k
  BY <1>1, MaxIsGreatest
<1> QED
  BY <1>2

-----------------------------------------------------------------------------
(* Folds over the places 1..n, the last place first.                       *)

\* The equation of a fold, with F for the operator.
Solves(g, n, base, F) ==
    \A s \in SUBSET (1..n) : g[s] = IF s = {} THEN base ELSE F[Max(s)][g[s \ {Max(s)}]]

\* The same when F stands for it only on X.
IsFold(g, n, X, base, F) ==
    /\ g[{}] = base
    /\ \A s \in SUBSET (1..n) :
         s # {} /\ g[s \ {Max(s)}] \in X => g[s] = F[Max(s)][g[s \ {Max(s)}]]

\* It has a solution.
LEMMA FoldExists ==
    ASSUME NEW n \in Nat, NEW X, NEW base \in X, NEW F \in [1..n -> [X -> X]]
    PROVE  \E g \in [SUBSET (1..n) -> X] : Solves(g, n, base, F)
<1> DEFINE D == 1..n
           Small(k) == {s \in SUBSET D : Cardinality(s) <= k}
           Up(g, k) == /\ g \in [Small(k) -> X]
                       /\ \A s \in Small(k) : g[s] = IF s = {} THEN base ELSE F[Max(s)][g[s \ {Max(s)}]]
           T == {k \in Nat : \E g : Up(g, k)}
<1>1. ASSUME NEW s \in SUBSET D
      PROVE  IsFiniteSet(s) /\ Cardinality(s) \in Nat /\ Cardinality(s) <= n
  <2>1. IsFiniteSet(D) /\ Cardinality(D) = n
    BY FS_Interval
  <2> HIDE DEF D
  <2>2. IsFiniteSet(s) /\ Cardinality(s) <= Cardinality(D)
    BY <2>1, FS_Subset
  <2>3. Cardinality(s) \in Nat
    BY <2>2, FS_CardinalityType
  <2> QED
    BY <2>1, <2>2, <2>3
<1>2. \A s \in SUBSET D : s # {} => Max(s) \in s
  BY MaxIsGreatest
<1>3. 0 \in T
  <2>1. \A s \in Small(0) : s = {}
    BY <1>1, FS_EmptySet
  <2>2. Up([s \in Small(0) |-> base], 0)
    BY <2>1
  <2> QED
    BY <2>2
<1>4. ASSUME NEW k \in Nat, k \in T PROVE k + 1 \in T
  <2>1. PICK g : Up(g, k)
    BY <1>4
  <2> DEFINE h == [s \in Small(k + 1) |-> IF s = {} THEN base ELSE F[Max(s)][g[s \ {Max(s)}]]]
  <2>2. ASSUME NEW s \in Small(k + 1), s # {} PROVE s \ {Max(s)} \in Small(k) /\ Max(s) \in D
    <3>1. Max(s) \in s /\ IsFiniteSet(s) /\ Cardinality(s) \in Nat
      BY <1>1, <1>2, <2>2
    <3>2. Cardinality(s \ {Max(s)}) = Cardinality(s) - 1
      BY <3>1, FS_RemoveElement
    <3>3. Cardinality(s) <= k + 1 /\ s \in SUBSET D
      OBVIOUS
    <3> DEFINE m == Max(s)
    <3> HIDE DEF m
    <3>4. m \in s /\ Cardinality(s \ {m}) = Cardinality(s) - 1
      BY <3>1, <3>2 DEF m
    <3>5. s \ {m} \in SUBSET D /\ m \in D
      BY <3>3, <3>4
    <3>6. Cardinality(s \ {m}) <= k
      BY <3>1, <3>3, <3>4
    <3> QED
      BY <3>5, <3>6 DEF m
  <2>3. \A s \in Small(k) : s \in Small(k + 1) /\ h[s] = g[s]
    <3>1. \A s \in Small(k) : s \in Small(k + 1)
      BY <1>1
    <3> QED
      BY <2>1, <3>1
  <2>4. h \in [Small(k + 1) -> X]
    <3>1. ASSUME NEW s \in Small(k + 1)
          PROVE  (IF s = {} THEN base ELSE F[Max(s)][g[s \ {Max(s)}]]) \in X
      <4>1. CASE s # {}
        <5> DEFINE m == Max(s)
        <5> HIDE DEF m
        <5>1. g[s \ {m}] \in X /\ m \in D
          BY <2>1, <2>2, <4>1 DEF m
        <5> QED
          BY <4>1, <5>1 DEF m
      <4> QED
        BY <4>1
    <3> QED
      BY <3>1
  <2>5. ASSUME NEW s \in Small(k + 1)
        PROVE  h[s] = IF s = {} THEN base ELSE F[Max(s)][h[s \ {Max(s)}]]
    BY <2>2, <2>3
  <2>6. Up(h, k + 1)
    <3> HIDE DEF h
    <3> QED
      BY <2>4, <2>5
  <2>7. \E f : Up(f, k + 1)
    BY <2>6
  <2> HIDE DEF Up
  <2> QED
    BY <2>7
<1>5. n \in T
  <2> HIDE DEF T
  <2> QED
    BY <1>3, <1>4, InductionOnNat
<1>6. PICK g : Up(g, n)
  BY <1>5
<1>7. Small(n) = SUBSET D
  BY <1>1
<1> HIDE DEF Small
<1> QED
  BY <1>6, <1>7 DEF Solves

\* h takes the steps of F, from base on.
Takes(h, n, X, base, F) ==
    h \in [0..n -> X] /\ h[0] = base /\ \A k \in 0..n - 1 : h[k + 1] = F[k + 1][h[k]]

\* What a fold computes, place by place.
LEMMA FoldSteps ==
    ASSUME NEW n \in Nat, NEW X, NEW base \in X, NEW F \in [1..n -> [X -> X]],
           NEW g, IsFold(g, n, X, base, F)
    PROVE  \E h : Takes(h, n, X, base, F) /\ h[n] = g[1..n]
<1> DEFINE h == [k \in 0..n |-> g[1..k]]
           T == {k \in 0..n : h[k] \in X}
<1>1. h[0] = base /\ h[n] = g[1..n]
  BY DEF IsFold
<1>2. ASSUME NEW k \in 0..n - 1, h[k] \in X PROVE h[k + 1] = F[k + 1][h[k]]
  <2>1. k + 1 \in Nat \ {0} /\ k + 1 \in 0..n /\ k \in 0..n /\ (k + 1) - 1 = k
    OBVIOUS
  <2>2. Max(1..(k + 1)) = k + 1 /\ (1..(k + 1)) \ {k + 1} = 1..k
    BY <2>1, MaxOfInterval
  <2>3. 1..(k + 1) \in SUBSET (1..n) /\ 1..(k + 1) # {}
    <3>1. 1 \in 1..(k + 1) /\ \A i \in 1..(k + 1) : i \in 1..n
      OBVIOUS
    <3> QED
      BY <3>1
  <2>4. g[1..k] \in X
    BY <1>2, <2>1
  <2>5. g[1..(k + 1)] = F[k + 1][g[1..k]]
    BY <2>2, <2>3, <2>4 DEF IsFold
  <2> QED
    BY <2>1, <2>5
<1> HIDE DEF h
<1>3. 0 \in T
  BY <1>1
<1>4. ASSUME NEW k \in 0..(n - 1), k \in T PROVE k + 1 \in T
  <2>1. k + 1 \in 0..n /\ k + 1 \in 1..n /\ h[k] \in X
    BY <1>4
  <2> QED
    BY <1>2, <2>1
<1>5. 0..n \subseteq T
  <2> HIDE DEF T
  <2> QED
    BY <1>3, <1>4, InductionUpTo
<1>6. h \in [0..n -> X] /\ \A k \in 0..n - 1 : h[k] \in X
  <2>1. \A k \in 0..n : h[k] \in X
    BY <1>5
  <2> QED
    BY <2>1 DEF h
<1> QED
  BY <1>1, <1>2, <1>6 DEF Takes

\* Any sequence of steps from base can be taken.
LEMMA StepsExist ==
    ASSUME NEW n \in Nat, NEW X, NEW base \in X, NEW F \in [1..n -> [X -> X]]
    PROVE  \E h : Takes(h, n, X, base, F)
<1>1. PICK g \in [SUBSET (1..n) -> X] : Solves(g, n, base, F)
  BY FoldExists
<1>2. IsFold(g, n, X, base, F)
  <2>1. {} \in SUBSET (1..n)
    OBVIOUS
  <2> QED
    BY <1>1, <2>1 DEF IsFold, Solves
<1> QED
  BY <1>2, FoldSteps

\* h holds what the first sequences of seqs make, one after the other.
Appends(h, A, seqs) ==
    /\ h \in [0..Len(seqs) -> Seq(A)] /\ h[0] = <<>>
    /\ \A k \in 0..Len(seqs) - 1 : h[k + 1] = h[k] \o seqs[k + 1]

\* That is how FlattenSeq makes one of them.
LEMMA FlattenSteps ==
    ASSUME NEW A, NEW seqs \in Seq(Seq(A))
    PROVE  \E h : Appends(h, A, seqs) /\ h[Len(seqs)] = FlattenSeq(seqs)
<1> DEFINE n == Len(seqs)
           F == [i \in 1..n |-> [x \in Seq(A) |-> x \o seqs[i]]]
           flatten == CHOOSE g : g = [i \in 1..n |-> IF i = 1 THEN seqs[i] ELSE g[i - 1] \o seqs[i]]
<1>1. n \in Nat /\ \A i \in 1..n : seqs[i] \in Seq(A)
  OBVIOUS
<1>2. F \in [1..n -> [Seq(A) -> Seq(A)]] /\ <<>> \in Seq(A)
  BY <1>1
<1>3. \A i \in 1..n, x \in Seq(A) : F[i][x] = x \o seqs[i]
  OBVIOUS
<1>4. FlattenSeq(seqs) = IF n = 0 THEN seqs ELSE flatten[n]
  BY DEF FlattenSeq
<1> HIDE DEF F
<1>5. PICK h : Takes(h, n, Seq(A), <<>>, F)
  BY <1>1, <1>2, StepsExist
<1>6. \A k \in 0..n - 1 : h[k + 1] = h[k] \o seqs[k + 1]
  <2>1. \A k \in 0..n - 1 : k \in 0..n /\ k + 1 \in 1..n
    BY <1>1
  <2> QED
    BY <1>3, <1>5, <2>1 DEF Takes
<1>7. \A i \in 1..n : h[i] = IF i = 1 THEN seqs[i] ELSE h[i - 1] \o seqs[i]
  <2>1. ASSUME NEW i \in 1..n PROVE h[i] = h[i - 1] \o seqs[i]
    <3>1. i - 1 \in 0..n - 1 /\ (i - 1) + 1 = i
      BY <1>1
    <3> QED
      BY <1>6, <3>1
  <2>2. ASSUME NEW i \in 1..n, i = 1 PROVE h[i] = seqs[i]
    <3>1. h[i - 1] = <<>> /\ seqs[i] \in Seq(A)
      BY <1>1, <1>5, <2>2 DEF Takes
    <3>2. <<>> \o seqs[i] = seqs[i]
      BY <3>1
    <3> QED
      BY <2>1, <3>1, <3>2
  <2> QED
    BY <2>1, <2>2
<1>8. \E g : g = [i \in 1..n |-> IF i = 1 THEN seqs[i] ELSE g[i - 1] \o seqs[i]]
  <2> DEFINE g == [i \in 1..n |-> h[i]]
  <2>1. \A i \in 1..n : i # 1 => i - 1 \in 1..n
    BY <1>1
  <2>2. g = [i \in 1..n |-> IF i = 1 THEN seqs[i] ELSE g[i - 1] \o seqs[i]]
    BY <1>7, <2>1
  <2> QED
    BY <2>2
<1>9. flatten = [i \in 1..n |-> IF i = 1 THEN seqs[i] ELSE flatten[i - 1] \o seqs[i]]
  BY <1>8
<1> HIDE DEF flatten
<1> DEFINE T == {k \in 0..n : k = 0 \/ flatten[k] = h[k]}
<1>10. ASSUME NEW k \in 0..(n - 1), k \in T PROVE k + 1 \in T
  <2>1. k + 1 \in 1..n /\ (k + 1) - 1 = k /\ k + 1 \in 0..n /\ (k + 1 = 1 <=> k = 0)
    BY <1>1
  <2>2. flatten[k + 1] = IF k = 0 THEN seqs[k + 1] ELSE flatten[k] \o seqs[k + 1]
    BY <1>9, <2>1
  <2>3. h[k + 1] = IF k = 0 THEN seqs[k + 1] ELSE h[k] \o seqs[k + 1]
    BY <1>7, <2>1
  <2> QED
    BY <1>10, <2>1, <2>2, <2>3
<1>11. 0..n \subseteq T
  <2>1. 0 \in T
    BY <1>1
  <2> HIDE DEF T
  <2> QED
    BY <1>1, <1>10, <2>1, InductionUpTo
<1>12. h[n] = FlattenSeq(seqs)
  <2>1. CASE n = 0
    BY <1>4, <1>5, <2>1 DEF Takes
  <2>2. CASE n # 0
    <3>1. n \in 0..n
      BY <1>1
    <3> QED
      BY <1>4, <1>11, <2>2, <3>1
  <2> QED
    BY <2>1, <2>2
<1> QED
  BY <1>5, <1>6, <1>12 DEF Takes, Appends
=============================================================================
