------------------------------ MODULE Induction ------------------------------
(***************************************************************************)
(* Induction and recursion over the natural numbers, for proofs.  The      *)
(* theorems of NaturalsInduction take an operator as a parameter, which    *)
(* the provers cannot instantiate; here a set and a function take its      *)
(* place.                                                                  *)
(***************************************************************************)
EXTENDS Integers, FiniteSetTheorems, TLAPS

\* A set of natural numbers that is not empty has a least one.
LEMMA Least ==
  ASSUME NEW S \in SUBSET Nat, S # {}
  PROVE  \E n \in S : \A m \in S : n <= m
<1> DEFINE Upto == {0 .. n : n \in S}
<1>1. IsWellFoundedOn(StrictSubsetOrdering(Nat), FiniteSubsetsOf(Nat))
  BY FS_StrictSubsetOrderingWellFounded
<1>2. Upto \subseteq FiniteSubsetsOf(Nat)
  <2> SUFFICES ASSUME NEW n \in S PROVE 0 .. n \in FiniteSubsetsOf(Nat)  OBVIOUS
  <2>1. 0 \in Int /\ n \in Int  OBVIOUS
  <2>2. IsFiniteSet(0 .. n)  BY <2>1, FS_Interval
  <2>3. 0 .. n \in SUBSET Nat  OBVIOUS
  <2> QED  BY <2>2, <2>3 DEF FiniteSubsetsOf
<1>3. PICK x \in Upto : \A y \in Upto : <<y, x>> \notin StrictSubsetOrdering(Nat)
  <2>1. Upto # {}  OBVIOUS
  <2> HIDE DEF Upto
  <2> QED  BY <1>1, <1>2, <2>1, WFMin
<1>4. PICK n \in S : x = 0 .. n  OBVIOUS
<1>5. ASSUME NEW m \in S, m < n
      PROVE  FALSE
  <2>1. 0 .. m \subseteq 0 .. n /\ n \in 0 .. n /\ n \notin 0 .. m  BY <1>5
  <2>2. 0 .. m \in SUBSET Nat /\ 0 .. n \in SUBSET Nat  OBVIOUS
  <2>3. <<0 .. m, 0 .. n>> \in StrictSubsetOrdering(Nat)
    BY <2>1, <2>2 DEF StrictSubsetOrdering
  <2>4. 0 .. m \in Upto  OBVIOUS
  <2> QED  BY <1>3, <1>4, <2>3, <2>4
<1> QED  BY <1>5

\* Induction, as a fact about a set.
LEMMA Induction ==
  ASSUME NEW S, 0 \in S, \A n \in Nat : n \in S => n + 1 \in S
  PROVE  Nat \subseteq S
<1> SUFFICES ASSUME Nat \ S # {} PROVE FALSE  OBVIOUS
<1>1. PICK n \in Nat \ S : \A m \in Nat \ S : n <= m  BY Least
<1>2. n # 0 /\ n - 1 \in Nat  OBVIOUS
<1>3. n - 1 \in S  BY <1>1, <1>2
<1> QED  BY <1>1, <1>2, <1>3

\* Induction from a to b.
LEMMA RangeInduction ==
  ASSUME NEW a \in Nat, NEW b \in Nat, NEW S, a \in S,
         \A n \in a + 1 .. b : n - 1 \in S => n \in S
  PROVE  a .. b \subseteq S
<1> SUFFICES ASSUME (a .. b) \ S # {} PROVE FALSE  OBVIOUS
<1>1. (a .. b) \ S \in SUBSET Nat  OBVIOUS
<1>2. PICK n \in (a .. b) \ S : \A m \in (a .. b) \ S : n <= m  BY <1>1, Least
<1>3. n \in a + 1 .. b /\ n - 1 \in a .. b  BY <1>2
<1>4. n - 1 \in S  BY <1>2, <1>3
<1> QED  BY <1>3, <1>4

-----------------------------------------------------------------------------

\* A function is defined by its first value and by the step from each value to the
\* next.
IsRecursive(g, a, b, X, c, D) ==
  /\ g \in [a .. b -> X]
  /\ \A k \in a .. b : g[k] = IF k = a THEN c ELSE D[<<k, g[k - 1]>>]

\* There is a function with a first value and a step.
LEMMA Recursion ==
  ASSUME NEW a \in Nat, NEW b \in Nat, NEW X, NEW c \in X, NEW D \in [Nat \X X -> X]
  PROVE  \E g : IsRecursive(g, a, b, X, c, D)
<1> USE DEF IsRecursive
<1> DEFINE Good(g, n) == \A k \in a .. n : g[k] = IF k = a THEN c ELSE D[<<k, g[k - 1]>>]
           S == {d \in Nat : \E g \in [a .. a + d -> X] : Good(g, a + d)}
<1>1. 0 \in S
  <2> DEFINE g == [k \in a .. a + 0 |-> c]
  <2>1. g \in [a .. a + 0 -> X]  OBVIOUS
  <2>2. \A k \in a .. a + 0 : k = a /\ g[k] = c  OBVIOUS
  <2>3. Good(g, a + 0)
    <3> HIDE DEF g
    <3> QED  BY <2>2
  <2> HIDE DEF g, Good
  <2> QED  BY <2>1, <2>3
<1>2. ASSUME NEW d \in Nat, d \in S
      PROVE  d + 1 \in S
  <2>1. PICK f \in [a .. a + d -> X] : Good(f, a + d)  BY <1>2
  <2> DEFINE e == a + d + 1
             g == [k \in a .. e |-> IF k = e THEN D[<<e, f[a + d]>>] ELSE f[k]]
  <2>2. e \in Nat /\ a + d \in a .. a + d /\ e - 1 = a + d /\ e # a  OBVIOUS
  <2>3. <<e, f[a + d]>> \in Nat \X X  BY <2>2
  <2>4. D[<<e, f[a + d]>>] \in X  BY <2>3
  <2>5. \A k \in a .. e : k # e => k \in a .. a + d  OBVIOUS
  <2>6. g \in [a .. e -> X]  BY <2>4, <2>5
  <2>7. Good(g, e)
    <3> SUFFICES ASSUME NEW k \in a .. e
                 PROVE  g[k] = IF k = a THEN c ELSE D[<<k, g[k - 1]>>]
      OBVIOUS
    <3>1. CASE k = e
      <4>1. g[k] = D[<<e, f[a + d]>>]  BY <3>1
      <4>2. k - 1 \in a .. e /\ k - 1 # e /\ k - 1 = a + d  BY <2>2, <3>1
      <4>3. g[k - 1] = f[a + d]  BY <4>2
      <4> QED  BY <2>2, <3>1, <4>1, <4>3
    <3>2. CASE k # e
      <4>1. k \in a .. a + d  BY <2>5, <3>2
      <4>2. g[k] = f[k]  BY <3>2
      <4>3. k # a => k - 1 \in a .. e /\ k - 1 # e  BY <4>1
      <4>4. k # a => g[k - 1] = f[k - 1]  BY <4>3
      <4> QED  BY <2>1, <4>1, <4>2, <4>4
    <3> QED  BY <3>1, <3>2
  <2>8. a + (d + 1) = e  OBVIOUS
  <2> HIDE DEF e, g, Good
  <2> QED  BY <2>6, <2>7, <2>8
<1>3. Nat \subseteq S
  <2> HIDE DEF S
  <2> QED  BY <1>1, <1>2, Induction
<1>4. CASE b < a
  <2>1. a .. b = {}  BY <1>4
  <2>2. [k \in a .. b |-> c] \in [a .. b -> X]  OBVIOUS
  <2> QED  BY <2>1, <2>2
<1>5. CASE b >= a
  <2>1. b - a \in Nat /\ a + (b - a) = b  BY <1>5
  <2>2. b - a \in S  BY <1>3, <2>1
  <2>3. PICK g \in [a .. b -> X] : Good(g, b)  BY <2>1, <2>2
  <2> QED  BY <2>3
<1> QED  BY <1>4, <1>5
===============================================================================
