---------------------------- MODULE SetInduction ----------------------------
(***************************************************************************)
(* Induction over the natural numbers for sets instead of predicates: to   *)
(* prove P(n) for every n, apply it to {n \in Nat : P(n)}.  The library's  *)
(* induction theorems take P as an operator parameter, which no installed  *)
(* prover instantiates; here the parameter is a set, and the proof rests   *)
(* on the well-foundedness of inclusion between finite sets.               *)
(***************************************************************************)
EXTENDS Integers, SequenceTheorems, WellFoundedInduction, FiniteSetTheorems, TLAPS

\* Every set of natural numbers that is not empty has a least element: the
\* shortest of the intervals 1..n is the one of the least n.
LEMMA LeastElement ==
  ASSUME NEW T \in SUBSET Nat, T # {}
  PROVE  \E x \in T : \A y \in T : x <= y
<1> DEFINE Upto == {1..n : n \in T}
<1>1. Upto \subseteq FiniteSubsetsOf(Nat)
  BY FS_Interval DEF FiniteSubsetsOf
<1>2. Upto # {}
  OBVIOUS
<1>3. PICK S \in Upto : \A Q \in Upto : <<Q, S>> \notin StrictSubsetOrdering(Nat)
  <2> HIDE DEF Upto
  <2> QED
    BY <1>1, <1>2, FS_StrictSubsetOrderingWellFounded, WFMin
<1>4. PICK x \in T : S = 1..x
  OBVIOUS
<1>5. ASSUME NEW y \in T, y < x
      PROVE  FALSE
  <2>1. <<1..y, 1..x>> \notin StrictSubsetOrdering(Nat)
    BY <1>3, <1>4
  <2>2. 1..y \subseteq 1..x /\ x \in 1..x /\ x \notin 1..y
    BY <1>5
  <2>3. 1..y \in SUBSET Nat /\ 1..x \in SUBSET Nat
    OBVIOUS
  <2>4. QED
    BY <2>1, <2>2, <2>3 DEF StrictSubsetOrdering
<1>6. QED
  BY <1>5

\* A set that holds 0 and the successor of each natural number in it holds
\* them all.
THEOREM NatSetInduction ==
  ASSUME NEW S, 0 \in S, \A n \in Nat : n \in S => n + 1 \in S
  PROVE  Nat \subseteq S
<1> DEFINE T == Nat \ S
<1>1. SUFFICES ASSUME T # {} PROVE FALSE
  OBVIOUS
<1>2. PICK x \in T : \A y \in T : x <= y
  BY <1>1, LeastElement
<1>3. x # 0 /\ x - 1 \in Nat /\ x - 1 \notin T
  BY <1>2
<1>4. QED
  BY <1>3

\* The same up to a bound.
THEOREM IntervalInduction ==
  ASSUME NEW m \in Nat, NEW S, 0 \in S,
         \A n \in 0..(m - 1) : n \in S => n + 1 \in S
  PROVE  0..m \subseteq S
<1> DEFINE U == {n \in Nat : n <= m => n \in S}
<1>1. 0 \in U
  OBVIOUS
<1>2. \A n \in Nat : n \in U => n + 1 \in U
  OBVIOUS
<1>3. Nat \subseteq U
  <2> HIDE DEF U
  <2> QED
    BY <1>1, <1>2, NatSetInduction
<1>4. QED
  BY <1>3

\* A set that holds the empty sequence, and each sequence of it with one more
\* element, holds all sequences.
THEOREM SeqSetInduction ==
  ASSUME NEW A, NEW S, <<>> \in S, \A s \in Seq(A), e \in A : s \in S => Append(s, e) \in S
  PROVE  Seq(A) \subseteq S
<1> DEFINE U == {n \in Nat : \A s \in Seq(A) : Len(s) = n => s \in S}
<1>1. 0 \in U
  <2>1. \A s \in Seq(A) : Len(s) = 0 => s = <<>>
    BY EmptySeq
  <2>2. QED
    BY <2>1
<1>2. ASSUME NEW n \in Nat, n \in U
      PROVE  n + 1 \in U
  <2>1. SUFFICES ASSUME NEW s \in Seq(A), Len(s) = n + 1
                 PROVE  s \in S
    OBVIOUS
  <2>2. PICK t \in Seq(A), e \in A : s = Append(t, e)
    BY <2>1, EmptySeq, SequenceEmptyOrAppend
  <2>3. Len(t) = n
    BY <2>1, <2>2, AppendProperties, LenProperties
  <2>4. QED
    BY <1>2, <2>2, <2>3
<1>3. Nat \subseteq U
  <2> HIDE DEF U
  <2> QED
    BY <1>1, <1>2, NatSetInduction
<1>4. QED
  BY <1>3, LenProperties

\* step[n] takes a value of V to a value of V.
StepWithin(step, a, m, V) == \A n \in a..m, v \in V : step[n][v] \in V

\* f starts from base, and follows step.
Recursive(f, a, m, base, step) ==
  f[a] = base /\ \A n \in a..m : n # a => f[n] = step[n][f[n - 1]]

\* A function on an interval given by its first value and by how each value
\* follows from the one before exists.
THEOREM RecursiveFunction ==
  ASSUME NEW a \in Nat, NEW m \in Nat, a <= m, NEW V, NEW base \in V,
         NEW step, StepWithin(step, a, m, V)
  PROVE  \E f \in [a..m -> V] : Recursive(f, a, m, base, step)
<1> DEFINE Fits(f, k) ==
             f = [n \in a..(a + k) |-> IF n = a THEN base ELSE step[n][f[n - 1]]]
           Built == {k \in Nat : a + k <= m => \E f \in [a..(a + k) -> V] : Fits(f, k)}
<1>0. \A k \in Nat :
        k \in Built <=> (a + k <= m => \E f \in [a..(a + k) -> V] : Fits(f, k))
  <2> HIDE DEF Fits
  <2> QED
    OBVIOUS
<1> HIDE DEF Built
<1>1. 0 \in Built
  <2>1. Fits([n \in a..(a + 0) |-> base], 0)
    OBVIOUS
  <2>2. QED
    <3> HIDE DEF Fits
    <3> QED
      BY <1>0, <2>1
<1>2. ASSUME NEW k \in Nat, k \in Built
      PROVE  k + 1 \in Built
  <2>1. SUFFICES ASSUME a + (k + 1) <= m
                 PROVE  \E f \in [a..(a + (k + 1)) -> V] : Fits(f, k + 1)
    <3> HIDE DEF Fits
    <3> QED
      BY <1>0
  <2>2. PICK f \in [a..(a + k) -> V] : Fits(f, k)
    <3> HIDE DEF Fits
    <3> QED
      BY <1>0, <1>2, <2>1
  <2> DEFINE last == a + (k + 1)
             g == [n \in a..last |-> IF n = last THEN step[last][f[a + k]] ELSE f[n]]
  <2>3. g \in [a..last -> V]
    <3>1. f[a + k] \in V
      OBVIOUS
    <3>2. step[last][f[a + k]] \in V
      BY <2>1, <3>1 DEF StepWithin
    <3>3. QED
      BY <3>2
  <2>4. ASSUME NEW n \in a..last
        PROVE  g[n] = IF n = a THEN base ELSE step[n][g[n - 1]]
    <3>1. n # last => f[n] = IF n = a THEN base ELSE step[n][f[n - 1]]
      BY <2>2
    <3>2. n # a => g[n - 1] = f[n - 1]
      OBVIOUS
    <3>3. QED
      BY <3>1, <3>2
  <2>5. Fits(g, k + 1)
    <3>1. g = [n \in a..last |-> g[n]]
      OBVIOUS
    <3> HIDE DEF g
    <3>2. QED
      BY <2>4, <3>1
  <2>6. QED
    <3> HIDE DEF Fits, g
    <3> QED
      BY <2>3, <2>5
<1>3. m - a \in Built
  <2>1. Nat \subseteq Built
    BY <1>1, <1>2, NatSetInduction
  <2>2. QED
    BY <2>1
<1>4. QED
  <2>1. PICK f \in [a..(a + (m - a)) -> V] : Fits(f, m - a)
    <3> HIDE DEF Fits
    <3> QED
      BY <1>0, <1>3
  <2>2. a + (m - a) = m
    OBVIOUS
  <2>3. ASSUME NEW n \in a..m
        PROVE  f[n] = IF n = a THEN base ELSE step[n][f[n - 1]]
    BY <2>1, <2>2
  <2>4. f[a] = base
    BY <2>3
  <2>5. QED
    BY <2>1, <2>2, <2>3, <2>4 DEF Recursive
=============================================================================
