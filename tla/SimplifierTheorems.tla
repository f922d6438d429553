--------------------------- MODULE SimplifierTheorems ---------------------------
(***************************************************************************)
(* Whatever a base solver does to its clauses at level 0, for any formula: *)
(* everything it keeps and offers to the other threads follows from the    *)
(* formula; no clause has a variable that was eliminated; the clause       *)
(* imported last still prunes; and the extension stack makes a solution of *)
(* the formula of whatever the search finds. One lemma for each technique  *)
(* and each of the four invariants.                                        *)
(***************************************************************************)
EXTENDS Simplifier, Induction

-----------------------------------------------------------------------------
(* Literals, clauses and assignments                                       *)

\* Taking the complement twice gives the literal back.
LEMMA Literals ==
  \A l \in Literal : /\ -l \in Literal /\ -(-l) = l /\ l # -l /\ l \in Int
                     /\ Var(l) \in 1 .. NumVars /\ Var(-l) = Var(l)
                     /\ \A k \in Literal : Var(k) = Var(l) <=> k = l \/ k = -l
BY NumVarsAssumption DEF Literal, Var

\* An assignment makes a literal or its complement true, and not both.
LEMMA Values ==
  ASSUME NEW a \in Assignment
  PROVE  /\ a \in SUBSET Literal
         /\ \A l \in Literal : l \in a <=> -l \notin a
BY DEF Assignment

\* Literals are all false if and only if their complements are true.
LEMMA Complements ==
  ASSUME NEW a \in Assignment, NEW lits \in SUBSET Literal
  PROVE  /\ Complement(lits) \in SUBSET Literal
         /\ Complement(lits) \subseteq a <=> lits \cap a = {}
         /\ lits \subseteq a <=> Complement(lits) \cap a = {}
BY Literals, Values DEF Complement

\* The assignments that satisfy the formula.
Models == {a \in Assignment : Satisfies(a, Input)}

\* Clauses without complementary literals; the empty one is among them.
Proper == {c \in SUBSET Literal : \A l \in c : -l \notin c}

-----------------------------------------------------------------------------
(* Propagation                                                             *)

\* The function that Propagated takes its value from.
IsPropagation(g, cs, lits) ==
  /\ g \in [0 .. NumVars -> SUBSET Literal]
  /\ Propagated(cs, lits) = g[NumVars]
  /\ g[0] = lits
  /\ \A k \in 1 .. NumVars : g[k] = g[k - 1] \cup Units(cs, g[k - 1])

\* There is such a function.
LEMMA PropagatedIs ==
  ASSUME NEW cs, NEW lits \in SUBSET Literal
  PROVE  \E g : IsPropagation(g, cs, lits)
<1> DEFINE X == SUBSET Literal
           Body(g) == [n \in 0 .. NumVars |->
                         IF n = 0 THEN lits ELSE g[n - 1] \cup Units(cs, g[n - 1])]
           D == [x \in Nat \X X |-> x[2] \cup Units(cs, x[2])]
           F == CHOOSE g : g = Body(g)
<1>1. D \in [Nat \X X -> X]  BY DEF Units
<1>2. 0 \in Nat /\ NumVars \in Nat /\ lits \in X  BY NumVarsAssumption
<1>3. PICK h : IsRecursive(h, 0, NumVars, X, lits, D)
  <2> HIDE DEF D, X
  <2> QED  BY <1>1, <1>2, Recursion
<1>4. h \in [0 .. NumVars -> X]  BY <1>3 DEF IsRecursive
<1>5. \A k \in 0 .. NumVars :
        h[k] = IF k = 0 THEN lits ELSE h[k - 1] \cup Units(cs, h[k - 1])
  <2> SUFFICES ASSUME NEW k \in 0 .. NumVars
               PROVE  h[k] = IF k = 0 THEN lits ELSE h[k - 1] \cup Units(cs, h[k - 1])
    OBVIOUS
  <2>1. CASE k = 0  BY <1>3, <2>1 DEF IsRecursive
  <2>2. CASE k # 0
    <3>1. k \in Nat /\ k - 1 \in 0 .. NumVars  BY <1>2, <2>2
    <3>2. h[k - 1] \in X  BY <1>4, <3>1
    <3>3. h[k] = D[<<k, h[k - 1]>>]  BY <1>3, <2>2 DEF IsRecursive
    <3>4. D[<<k, h[k - 1]>>] = h[k - 1] \cup Units(cs, h[k - 1])  BY <3>1, <3>2
    <3> HIDE DEF D
    <3> QED  BY <2>2, <3>3, <3>4
  <2> QED  BY <2>1, <2>2
<1>6. h = Body(h)  BY <1>4, <1>5
<1>7. F = Body(F)
  <2> HIDE DEF Body
  <2> QED  BY <1>6
<1>8. Propagated(cs, lits) = F[NumVars]  BY DEF Propagated
<1> HIDE DEF F
<1>9. \A k \in 0 .. NumVars :
        F[k] = IF k = 0 THEN lits ELSE F[k - 1] \cup Units(cs, F[k - 1])
  <2>1. \A k \in 0 .. NumVars : F[k] = Body(F)[k]  BY <1>7
  <2> QED  BY <2>1
<1>10. F[0] = lits /\ \A k \in 1 .. NumVars : F[k] = F[k - 1] \cup Units(cs, F[k - 1])
  <2>1. \A k \in 1 .. NumVars : k \in 0 .. NumVars /\ k # 0  BY <1>2
  <2>2. 0 \in 0 .. NumVars  BY <1>2
  <2> QED  BY ONLY <1>9, <2>1, <2>2
<1>11. F \in [0 .. NumVars -> X]
  <2> DEFINE S == {k \in 0 .. NumVars : F[k] \in X}
  <2>1. 0 \in S  BY <1>2, <1>10
  <2>2. ASSUME NEW k \in 0 + 1 .. NumVars, k - 1 \in S PROVE k \in S
    BY <1>2, <1>10, <2>2 DEF Units
  <2>3. 0 .. NumVars \subseteq S
    <3> HIDE DEF S
    <3> QED  BY <1>2, <2>1, <2>2, RangeInduction
  <2>4. \A k \in 0 .. NumVars : F[k] \in X  BY <2>3
  <2>5. F = [k \in 0 .. NumVars |-> F[k]]
    <3>1. Body(F) = [k \in 0 .. NumVars |-> Body(F)[k]]  OBVIOUS
    <3> HIDE DEF Body
    <3> QED  BY <1>7, <3>1
  <2> DEFINE H == [k \in 0 .. NumVars |-> F[k]]
  <2>6. H \in [0 .. NumVars -> X]  BY <2>4
  <2>7. F = H  BY <2>5
  <2> HIDE DEF H, X
  <2> QED  BY <2>6, <2>7
<1> QED  BY <1>8, <1>10, <1>11 DEF IsPropagation

\* What is propagated contains what it began with, and is true in every assignment
\* that satisfies the clauses and makes that true.
LEMMA PropagatedTrue ==
  ASSUME NEW cs, NEW lits \in SUBSET Literal
  PROVE  /\ Propagated(cs, lits) \in SUBSET Literal
         /\ lits \subseteq Propagated(cs, lits)
         /\ \A a \in Assignment :
              Satisfies(a, cs) /\ lits \subseteq a => Propagated(cs, lits) \subseteq a
<1>0. PICK g : IsPropagation(g, cs, lits)  BY PropagatedIs
<1>1. /\ g \in [0 .. NumVars -> SUBSET Literal]
      /\ Propagated(cs, lits) = g[NumVars]
      /\ g[0] = lits
      /\ \A k \in 1 .. NumVars : g[k] = g[k - 1] \cup Units(cs, g[k - 1])
  BY <1>0 DEF IsPropagation
<1>2. 0 \in Nat /\ NumVars \in Nat /\ NumVars \in 0 .. NumVars /\ 0 \in 0 .. NumVars
  BY NumVarsAssumption
<1>3. lits \subseteq Propagated(cs, lits)
  <2> DEFINE S == {k \in 0 .. NumVars : lits \subseteq g[k]}
  <2>1. 0 \in S  BY <1>1, <1>2
  <2>2. ASSUME NEW k \in 0 + 1 .. NumVars, k - 1 \in S PROVE k \in S
    <3>1. k \in 1 .. NumVars /\ k \in 0 .. NumVars /\ lits \subseteq g[k - 1]
      BY <1>2, <2>2
    <3>2. g[k] = g[k - 1] \cup Units(cs, g[k - 1])  BY <1>1, <3>1
    <3> QED  BY <3>1, <3>2
  <2>3. 0 .. NumVars \subseteq S
    <3> HIDE DEF S
    <3> QED  BY <1>2, <2>1, <2>2, RangeInduction
  <2>4. lits \subseteq g[NumVars]  BY <1>2, <2>3
  <2> QED  BY <1>1, <2>4
<1>4. ASSUME NEW a \in Assignment, Satisfies(a, cs), lits \subseteq a
      PROVE  Propagated(cs, lits) \subseteq a
  <2> DEFINE S == {k \in 0 .. NumVars : g[k] \subseteq a}
  <2>1. 0 \in S  BY <1>1, <1>2, <1>4
  <2>2. ASSUME NEW k \in 0 + 1 .. NumVars, k - 1 \in S PROVE k \in S
    <3>1. k - 1 \in 0 .. NumVars /\ k \in 1 .. NumVars /\ g[k - 1] \subseteq a
      BY <1>2, <2>2
    <3>2. ASSUME NEW l \in Units(cs, g[k - 1]) PROVE l \in a
      <4>1. PICK c \in cs : l \in c /\ c \ {l} \subseteq Complement(g[k - 1])
        BY DEF Units
      <4>2. c \cap a # {}  BY <1>4, <4>1 DEF Satisfies
      <4>3. g[k - 1] \in SUBSET Literal  BY <1>1, <3>1
      <4>4. Complement(g[k - 1]) \cap a = {}  BY <3>1, <4>3, Complements
      <4> QED  BY <4>1, <4>2, <4>4
    <3> QED  BY <1>1, <1>2, <3>1, <3>2
  <2>3. 0 .. NumVars \subseteq S
    <3> HIDE DEF S
    <3> QED  BY <1>2, <2>1, <2>2, RangeInduction
  <2>4. g[NumVars] \subseteq a  BY <1>2, <2>3
  <2> QED  BY <1>1, <2>4
<1> QED  BY <1>1, <1>2, <1>3, <1>4

\* Clauses that an assignment satisfies are not all false in it.
LEMMA NotFalsified ==
  ASSUME NEW a \in Assignment, NEW cs, Satisfies(a, cs),
         NEW lits \in SUBSET Literal, lits \subseteq a
  PROVE  ~Falsified(cs, lits)
<1>1. Complement(lits) \cap a = {}  BY Complements
<1> QED  BY <1>1 DEF Falsified, Satisfies

\* Clauses whose propagation leads to a conflict: some literal it begins with is false.
LEMMA ConflictRefutes ==
  ASSUME NEW a \in Assignment, NEW cs, Satisfies(a, cs),
         NEW lits \in SUBSET Literal, Falsified(cs, Propagated(cs, lits))
  PROVE  ~(lits \subseteq a)
BY PropagatedTrue, NotFalsified

\* Clauses keep their truth without false literals.
LEMMA TidiedTrue ==
  ASSUME NEW cs \in SUBSET Proper, NEW lits \in SUBSET Literal
  PROVE  /\ Tidied(cs, lits) \in SUBSET Proper
         /\ \A a \in Assignment :
              Satisfies(a, cs) /\ lits \subseteq a => Satisfies(a, Tidied(cs, lits))
<1>1. Tidied(cs, lits) \in SUBSET Proper  BY DEF Tidied, Proper
<1>2. ASSUME NEW a \in Assignment, Satisfies(a, cs), lits \subseteq a,
             NEW c \in cs
      PROVE  (c \ Complement(lits)) \cap a # {}
  <2>1. c \cap a # {}  BY <1>2 DEF Satisfies
  <2>2. Complement(lits) \cap a = {}  BY <1>2, Complements
  <2> QED  BY <2>1, <2>2
<1> QED  BY <1>1, <1>2 DEF Tidied, Satisfies

-----------------------------------------------------------------------------
(* The invariant                                                           *)

\* ImportsAreSound and the types of what it speaks of.
SoundInv ==
  /\ formula \in Seq(Clauses) /\ loaded \in Nat
  /\ irredundant \in SUBSET Proper /\ redundant \in SUBSET Proper
  /\ fixed \in SUBSET Literal
  /\ ok \in BOOLEAN
  /\ ImportsAreSound

\* What is true in the models of the formula.
LEMMA Known ==
  ASSUME SoundInv, ok
  PROVE  /\ Models \in SUBSET Assignment
         /\ irredundant \in SUBSET Proper /\ redundant \in SUBSET Proper
         /\ fixed \in SUBSET Literal /\ formula \in Seq(Clauses) /\ loaded \in Nat
         /\ \A a \in Models : /\ \A c \in irredundant : c \cap a # {}
                              /\ \A c \in redundant : c \cap a # {}
                              /\ fixed \subseteq a
BY DEF SoundInv, ImportsAreSound, Models, Satisfies

\* The models depend on the formula only.
LEMMA SameModels == ASSUME formula' = formula PROVE Models' = Models
BY DEF Models, Input

\* Clauses and literals that follow from the formula.
Sound(irr, red, lits) ==
  /\ irr \in SUBSET Proper /\ red \in SUBSET Proper /\ lits \in SUBSET Literal
  /\ \A a \in Models : /\ \A c \in irr : c \cap a # {}
                       /\ \A c \in red : c \cap a # {}
                       /\ lits \subseteq a

\* Nothing but UNSAT and the right clauses and literals.
LEMMA SoundIs ==
  ASSUME SoundInv, formula' = formula, loaded' \in Nat, ok' \in BOOLEAN,
         irredundant' \in SUBSET Proper, redundant' \in SUBSET Proper,
         fixed' \in SUBSET Literal,
         ~ok' => Models = {},
         ok' => \A a \in Models : /\ \A c \in irredundant' : c \cap a # {}
                                  /\ \A c \in redundant' : c \cap a # {}
                                  /\ fixed' \subseteq a
  PROVE  SoundInv'
<1>1. Input' = Input  BY DEF Input
<1>2. ImportsAreSound'  BY <1>1 DEF ImportsAreSound, Models, Satisfies
<1> QED  BY <1>2 DEF SoundInv

\* Clauses and literals that follow from the formula may be settled.
LEMMA SettleSound ==
  ASSUME SoundInv, ok, UNCHANGED <<formula, loaded>>,
         NEW irr, NEW red, NEW lits, Sound(irr, red, lits), Settle(irr, red, lits)
  PROVE  SoundInv'
<1> USE DEF Sound
<1> DEFINE cs == irr \cup red
           all == Propagated(cs, lits)
<1>1. /\ Models \in SUBSET Assignment /\ fixed \in SUBSET Literal
      /\ formula \in Seq(Clauses) /\ loaded \in Nat
  BY Known
<1>2. all \in SUBSET Literal /\ \A a \in Models : Satisfies(a, cs) /\ all \subseteq a
  <2>1. \A a \in Models : Satisfies(a, cs)  BY DEF Satisfies
  <2> HIDE DEF cs
  <2> QED  BY <1>1, <2>1, PropagatedTrue
<1>3. CASE Falsified(cs, all)
  <2>1. irredundant' = irr /\ redundant' = red /\ ok' = FALSE /\ fixed' = fixed
    BY <1>3 DEF Settle
  <2>2. Models = {}
    <3> HIDE DEF cs, all
    <3> QED  BY <1>1, <1>2, <1>3, NotFalsified
  <2> QED  BY <1>1, <2>1, <2>2, SoundIs
<1>4. CASE ~Falsified(cs, all)
  <2>1. /\ irredundant' = Tidied(irr, all) /\ redundant' = Tidied(red, all)
        /\ ok' = ok /\ fixed' = all
    BY <1>4 DEF Settle
  <2> HIDE DEF all
  <2>2. irredundant' \in SUBSET Proper /\ redundant' \in SUBSET Proper
    BY <1>2, <2>1, TidiedTrue
  <2>3. ASSUME NEW a \in Models
        PROVE  /\ \A c \in irredundant' : c \cap a # {}
               /\ \A c \in redundant' : c \cap a # {}
    <3>1. Satisfies(a, irr) /\ Satisfies(a, red)  BY DEF Satisfies
    <3>2. Satisfies(a, Tidied(irr, all)) /\ Satisfies(a, Tidied(red, all))
      BY <1>1, <1>2, <3>1, TidiedTrue
    <3> QED  BY <2>1, <3>2 DEF Satisfies
  <2> QED  BY <1>1, <1>2, <2>1, <2>2, <2>3, SoundIs
<1> QED  BY <1>3, <1>4

\* The same for a literal more, or for other clauses of one kind.
LEMMA SettleMore ==
  ASSUME SoundInv, ok, UNCHANGED inputVars
  PROVE  /\ Sound(irredundant, redundant, fixed)
         /\ \A lit \in Literal :
              (\A a \in Models : lit \in a) /\ LearnUnit(lit) => SoundInv'
         /\ \A irr \in SUBSET Proper :
              /\ \A a \in Models : \A c \in irr : c \cap a # {}
              /\ Settle(irr, redundant, fixed)
              => SoundInv'
         /\ \A red \in SUBSET Proper :
              /\ \A a \in Models : \A c \in red : c \cap a # {}
              /\ Settle(irredundant, red, fixed)
              => SoundInv'
<1>1. Sound(irredundant, redundant, fixed)  BY Known DEF Sound
<1>2. UNCHANGED <<formula, loaded>>  BY DEF inputVars
<1>3. ASSUME NEW lit \in Literal, \A a \in Models : lit \in a, LearnUnit(lit)
      PROVE  SoundInv'
  <2>1. Sound(irredundant, redundant, fixed \cup {lit})  BY <1>1, <1>3 DEF Sound
  <2>2. Settle(irredundant, redundant, fixed \cup {lit})  BY <1>3 DEF LearnUnit
  <2> QED  BY <1>2, <2>1, <2>2, SettleSound
<1>4. ASSUME NEW irr \in SUBSET Proper, \A a \in Models : \A c \in irr : c \cap a # {},
             Settle(irr, redundant, fixed)
      PROVE  SoundInv'
  <2>1. Sound(irr, redundant, fixed)  BY <1>1, <1>4 DEF Sound
  <2> QED  BY <1>2, <1>4, <2>1, SettleSound
<1>5. ASSUME NEW red \in SUBSET Proper, \A a \in Models : \A c \in red : c \cap a # {},
             Settle(irredundant, red, fixed)
      PROVE  SoundInv'
  <2>1. Sound(irredundant, red, fixed)  BY <1>1, <1>5 DEF Sound
  <2> QED  BY <1>2, <1>5, <2>1, SettleSound
<1> QED  BY <1>1, <1>3, <1>4, <1>5

\* A resolvent is true if both clauses are.
LEMMA ResolventTrue ==
  ASSUME NEW a \in Assignment, NEW c, NEW d, NEW l \in Literal,
         c \cap a # {}, d \cap a # {}
  PROVE  ((c \ {l}) \cup (d \ {-l})) \cap a # {}
BY Values

\* A literal that can be removed: the clause stays true without it.
LEMMA RemovableTrue ==
  ASSUME NEW c \in Proper, NEW d \in Proper, NEW l \in Removable(c, d)
  PROVE  /\ l \in Literal /\ c \ {l} \in Proper
         /\ \A a \in Assignment : c \cap a # {} /\ d \cap a # {} => (c \ {l}) \cap a # {}
<1>1. l \in c /\ -l \in d /\ d \ {-l} \subseteq c /\ l \in Literal  BY DEF Removable, Proper
<1>2. ASSUME NEW a \in Assignment, c \cap a # {}, d \cap a # {}
      PROVE  (c \ {l}) \cap a # {}
  <2>1. ((c \ {l}) \cup (d \ {-l})) \cap a # {}  BY <1>1, <1>2, ResolventTrue
  <2>2. d \ {-l} \subseteq c \ {l}
    <3>1. l \notin d
      <4>1. -(-l) = l  BY <1>1, Literals
      <4> QED  BY <1>1, <4>1 DEF Proper
    <3> QED  BY <1>1, <3>1
  <2> QED  BY <2>1, <2>2
<1> QED  BY <1>1, <1>2 DEF Proper

-----------------------------------------------------------------------------
(* Loading, imported clauses, deletion                                     *)

\* In the beginning there is nothing.
LEMMA InitSound == ASSUME Init PROVE SoundInv
<1>1. formula \in Seq(Clauses)  BY SimplificationAssumption DEF Init
<1>2. ImportsAreSound  BY DEF Init, ImportsAreSound, Satisfies
<1> QED  BY <1>1, <1>2 DEF Init, SoundInv

\* A step that leaves the clauses as they are.
LEMMA SameClauses ==
  ASSUME SoundInv, UNCHANGED <<inputVars, clauseVars, ok>>
  PROVE  SoundInv'
BY DEF SoundInv, ImportsAreSound, Input, inputVars, clauseVars

\* A step that removes clauses.
LEMMA FewerClauses ==
  ASSUME SoundInv, ok, UNCHANGED <<formula, loaded, fixed, ok>>,
         irredundant' \subseteq irredundant, redundant' \subseteq redundant
  PROVE  SoundInv'
<1>1. /\ irredundant' \in SUBSET Proper /\ redundant' \in SUBSET Proper
      /\ fixed' \in SUBSET Literal /\ loaded' \in Nat /\ ok'
  BY Known
<1> QED  BY <1>1, Known, SoundIs

\* A clause of the formula is added.
LEMMA AddClauseSound == ASSUME SoundInv, AddClause PROVE SoundInv'
<1> DEFINE c == formula[loaded + 1]
           clauses == irredundant \cup {c \ FalseLits}
<1>1. /\ ok /\ formula' = formula /\ loaded' \in Nat /\ redundant' = redundant
      /\ c \in Clauses /\ \A a \in Models : c \cap a # {}
  <2>1. loaded + 1 \in DOMAIN formula  BY DEF AddClause, SoundInv
  <2>2. c \in Input  BY <2>1 DEF Input, ToSet
  <2>3. formula \in Seq(Clauses) /\ loaded \in Nat  BY DEF SoundInv
  <2> QED  BY <2>1, <2>2, <2>3 DEF AddClause, Models, Satisfies
<1>2. CASE UNCHANGED <<irredundant, fixed, ok>>
  <2>1. irredundant' \subseteq irredundant /\ redundant' \subseteq redundant
        /\ UNCHANGED <<formula, fixed, ok>>
    BY <1>1, <1>2
  <2> HIDE DEF clauses, c
  <2> QED  BY <1>1, <2>1, Known, SoundIs
<1>3. CASE /\ irredundant' = {d \in clauses : Cardinality(d) > 1}
           /\ fixed' = Propagated(clauses, fixed)
           /\ ok' = ~Falsified(clauses, fixed')
  <2>1. clauses \in SUBSET Proper
    <3>1. c \ FalseLits \in Proper  BY <1>1 DEF Clauses, Proper
    <3> QED  BY <1>1, <3>1, Known
  <2>2. \A a \in Models : Satisfies(a, clauses)
    <3> SUFFICES ASSUME NEW a \in Models PROVE (c \ FalseLits) \cap a # {}
      BY <1>1, Known DEF Satisfies
    <3>1. FalseLits \cap a = {}  BY <1>1, Known, Complements DEF FalseLits
    <3> QED  BY <1>1, <3>1
  <2> HIDE DEF clauses, c
  <2>3. /\ fixed \in SUBSET Literal /\ Models \in SUBSET Assignment
        /\ \A a \in Models : fixed \subseteq a
    BY <1>1, Known
  <2>4. fixed' \in SUBSET Literal /\ \A a \in Models : fixed' \subseteq a
    BY <1>3, <2>2, <2>3, PropagatedTrue
  <2>5. Models # {} => ok'  BY <1>3, <2>2, <2>3, <2>4, NotFalsified
  <2>6. \A a \in Models : \A d \in irredundant' : d \cap a # {}
    BY <1>3, <2>2 DEF Satisfies
  <2>7. irredundant' \in SUBSET Proper /\ redundant' \in SUBSET Proper /\ ok' \in BOOLEAN
    BY <1>1, <1>3, <2>1, Known
  <2> QED  BY <1>1, <2>4, <2>5, <2>6, <2>7, Known, SoundIs
<1> QED  BY <1>2, <1>3 DEF AddClause

\* The clauses are simplified for the first time.
LEMMA FinishLoadingSound == ASSUME SoundInv, FinishLoading PROVE SoundInv'
<1>1. ok /\ UNCHANGED inputVars  BY DEF FinishLoading
<1>2. CASE UNCHANGED <<clauseVars, ok>>  BY <1>1, <1>2, SameClauses DEF FinishLoading
<1>3. CASE Settle(irredundant, redundant, fixed)
  BY <1>1, <1>3, Known, SettleMore
<1> QED  BY <1>2, <1>3 DEF FinishLoading

\* A clause that follows from the formula comes from another thread.
LEMMA ImportSound ==
  ASSUME SoundInv, NEW c \in Arriving, Implies(Input, c),
         AddImportedClause(c) \/ IgnoreImportedClause(c)
  PROVE  SoundInv'
<1>1. ok /\ UNCHANGED inputVars  BY DEF AddImportedClause, IgnoreImportedClause
<1>2. CASE IgnoreImportedClause(c)  BY <1>2, SameClauses DEF IgnoreImportedClause
<1>3. CASE AddImportedClause(c)
  <2>1. c \in Proper  BY SimplificationAssumption DEF Clauses, Proper
  <2>2. \A a \in Models : c \cap a # {}  BY DEF Implies, Models
  <2>3. redundant \cup {c} \in SUBSET Proper  BY <1>1, <2>1, Known
  <2> DEFINE red == redundant \cup {c}
  <2>4. \A a \in Models : \A d \in red : d \cap a # {}  BY <1>1, <2>2, Known
  <2>5. Settle(irredundant, red, fixed)  BY <1>3 DEF AddImportedClause
  <2> HIDE DEF Models
  <2> QED  BY <1>1, <2>3, <2>4, <2>5, SettleMore
<1> QED  BY <1>2, <1>3

\* Redundant clauses are deleted.
LEMMA ReduceSound == ASSUME SoundInv, Reduce PROVE SoundInv'
BY FewerClauses DEF Reduce, inputVars

-----------------------------------------------------------------------------
(* Subsumption and strengthening                                           *)

\* A clause is strengthened by resolution.
LEMMA StrengthenedSound ==
  ASSUME SoundInv, ok, UNCHANGED inputVars,
         NEW c \in irredundant, NEW d \in irredundant, NEW l \in Removable(c, d),
         Settle((irredundant \ {c}) \cup {c \ {l}}, redundant, fixed)
  PROVE  SoundInv'
<1> DEFINE irr == (irredundant \ {c}) \cup {c \ {l}}
<1>1. c \in Proper /\ d \in Proper  BY Known
<1>2. c \ {l} \in Proper /\ \A a \in Models : (c \ {l}) \cap a # {}
  <2>1. \A a \in Models : a \in Assignment /\ c \cap a # {} /\ d \cap a # {}
    BY Known DEF Models
  <2> QED  BY <1>1, <2>1, RemovableTrue
<1>3. irr \in SUBSET Proper /\ \A a \in Models : \A e \in irr : e \cap a # {}
  BY <1>2, Known
<1>4. Settle(irr, redundant, fixed)  OBVIOUS
<1> HIDE DEF irr
<1> QED  BY <1>3, <1>4, SettleMore

\* Subsumption removes clauses, and strengthening is resolution, in either family.
LEMMA SubsumptionSound ==
  ASSUME SoundInv, BackwardSubsume \/ StrengthenClause \/ EndSubsumption
                   \/ Subsume \/ Strengthen \/ EndElimination
  PROVE  SoundInv'
<1>1. ok  BY DEF BackwardSubsume, StrengthenClause, EndSubsumption, EndElimination,
                 Subsume, Strengthen, AtRoot
<1>2. CASE BackwardSubsume \/ Subsume
  BY <1>1, <1>2, FewerClauses DEF BackwardSubsume, Subsume, inputVars
<1>3. CASE EndSubsumption \/ EndElimination
  BY <1>3, SameClauses DEF EndSubsumption, EndElimination
<1>4. CASE StrengthenClause \/ Strengthen
  <2>1. UNCHANGED inputVars  BY <1>4 DEF StrengthenClause, Strengthen
  <2>2. PICK c \in irredundant, d \in irredundant : \E l \in Removable(c, d) :
           Settle((irredundant \ {c}) \cup {c \ {l}}, redundant, fixed)
    BY <1>4 DEF StrengthenClause, Strengthen
  <2> QED  BY <1>1, <2>1, <2>2, StrengthenedSound
<1> QED  BY <1>2, <1>3, <1>4

-----------------------------------------------------------------------------
(* Elimination of variables                                                *)

\* Resolvents follow from the clauses, whatever gate chooses the pairs.
LEMMA ResolventsTrue ==
  ASSUME NEW cs \in SUBSET Proper, NEW lit \in Literal, NEW gate
  PROVE  /\ Resolvents(cs, lit, gate) \in SUBSET Proper
         /\ \A a \in Assignment : (\A c \in cs : c \cap a # {}) =>
              \A c \in Resolvents(cs, lit, gate) : c \cap a # {}
<1>1. Resolvents(cs, lit, gate) \in SUBSET Proper  BY DEF Resolvents, Clauses, Proper
<1>2. ASSUME NEW a \in Assignment, \A c \in cs : c \cap a # {},
             NEW e \in Resolvents(cs, lit, gate)
      PROVE  e \cap a # {}
  <2>1. PICK p \in Pairs(cs, lit, gate) : e = (p[1] \ {lit}) \cup (p[2] \ {-lit})
    BY DEF Resolvents
  <2>2. p[1] \in cs /\ p[2] \in cs  BY DEF Pairs, Occurring
  <2> QED  BY <1>2, <2>1, <2>2, ResolventTrue
<1> QED  BY <1>1, <1>2

\* The variables are literals, and so are their complements.
LEMMA Variables ==
  \A v \in 1 .. NumVars : v \in Literal /\ -v \in Literal
BY NumVarsAssumption DEF Literal

\* Elimination in the MiniSat family.
LEMMA EliminateVarSound ==
  ASSUME SoundInv, NEW v \in 1 .. NumVars, EliminateVar(v)
  PROVE  SoundInv'
<1> DEFINE irr == Without(irredundant, {v}) \cup Resolvents(irredundant, v, NoGate)
<1>1. ok /\ UNCHANGED inputVars /\ Settle(irr, redundant, fixed)  BY DEF EliminateVar
<1>2. irr \in SUBSET Proper
  BY <1>1, Known, ResolventsTrue, Variables DEF Without
<1>3. \A a \in Models : \A c \in irr : c \cap a # {}
  <2>1. ASSUME NEW a \in Models
        PROVE  \A c \in Resolvents(irredundant, v, NoGate) : c \cap a # {}
    <3>1. a \in Assignment  BY DEF Models
    <3> QED  BY <1>1, <3>1, Known, ResolventsTrue, Variables
  <2> QED  BY <1>1, <2>1, Known DEF Without
<1> HIDE DEF irr
<1> QED  BY <1>1, <1>2, <1>3, SettleMore

\* What kissat_backward_subsume_temporary leaves of the clauses.
LEMMA ReducedTrue ==
  ASSUME NEW cs \in SUBSET Proper, NEW new \in SUBSET cs
  PROVE  /\ Reduced(cs, new) \in SUBSET Proper
         /\ \A a \in Assignment : (\A c \in cs : c \cap a # {}) =>
              \A c \in Reduced(cs, new) : c \cap a # {}
<1> SUFFICES ASSUME NEW e \in Reduced(cs, new)
             PROVE  /\ e \in Proper
                    /\ \A a \in Assignment : (\A c \in cs : c \cap a # {}) => e \cap a # {}
  OBVIOUS
<1> DEFINE Goes(c, l) == \E d \in new : l \in Removable(c, d)
<1>1. PICK c \in cs : e = IF \E d \in new : Removable(c, d) # {}
                          THEN c \ {CHOOSE l \in c : Goes(c, l)} ELSE c
  BY DEF Reduced
<1>2. CASE \E d \in new : Removable(c, d) # {}
  <2>1. \E l \in c : Goes(c, l)  BY <1>2 DEF Removable
  <2>2. PICK l \in c : e = c \ {l} /\ Goes(c, l)
    <3> HIDE DEF Goes
    <3> QED  BY <1>1, <1>2, <2>1
  <2>3. PICK d \in new : l \in Removable(c, d)  BY <2>2
  <2> QED  BY <2>2, <2>3, RemovableTrue
<1>3. CASE ~ \E d \in new : Removable(c, d) # {}
  BY <1>1, <1>3
<1> QED  BY <1>2, <1>3

\* Elimination in Kissat.
LEMMA EliminateSound ==
  ASSUME SoundInv, NEW v \in 1 .. NumVars, Eliminate(v)
  PROVE  SoundInv'
<1> DEFINE rest == Without(irredundant, {v})
           lit == Rarer(v)
           red == Without(redundant, {v})
           New(gate) == Added(Resolvents(irredundant, lit, gate), rest)
<1>1. /\ ok /\ UNCHANGED inputVars
      /\ \E gate \in GatesOf(lit) :
           \E irr \in {rest \cup New(gate), Reduced(rest \cup New(gate), New(gate))} :
             Settle(irr, red, fixed)
  BY DEF Eliminate, AtRoot
<1>2. lit \in Literal  BY Variables DEF Rarer
<1>3. /\ rest \in SUBSET Proper /\ rest \subseteq irredundant
      /\ red \in SUBSET Proper /\ red \subseteq redundant
  BY <1>1, Known DEF Without
<1> HIDE DEF lit, rest, red
<1>a. PICK gate \in GatesOf(lit) :
         \E irr \in {rest \cup New(gate), Reduced(rest \cup New(gate), New(gate))} :
           Settle(irr, red, fixed)
  BY <1>1
<1>4. PICK irr \in {rest \cup New(gate), Reduced(rest \cup New(gate), New(gate))} :
         Settle(irr, red, fixed)
  BY <1>a
<1> DEFINE new == New(gate)  cs == rest \cup new
<1>5. new \subseteq Resolvents(irredundant, lit, gate)  BY DEF Added
<1> HIDE DEF New
<1>6. cs \in SUBSET Proper  BY <1>1, <1>2, <1>3, <1>5, Known, ResolventsTrue
<1>7. \A a \in Models : a \in Assignment /\ \A c \in cs : c \cap a # {}
  <2> SUFFICES ASSUME NEW a \in Models PROVE a \in Assignment /\ \A c \in cs : c \cap a # {}
    OBVIOUS
  <2>1. a \in Assignment  BY DEF Models
  <2>2. \A c \in new : c \cap a # {}
    <3>1. \A c \in irredundant : c \cap a # {}  BY <1>1, Known
    <3> QED  BY <1>1, <1>2, <1>5, <2>1, <3>1, Known, ResolventsTrue
  <2> QED  BY <1>1, <1>3, <2>1, <2>2, Known
<1>8. irr = cs \/ irr = Reduced(cs, new)  BY <1>4
<1>9. new \in SUBSET cs  OBVIOUS
<1> HIDE DEF cs, new
<1>10. irr \in SUBSET Proper /\ \A a \in Models : \A c \in irr : c \cap a # {}
  BY <1>6, <1>7, <1>8, <1>9, ReducedTrue
<1>11. Sound(irr, red, fixed)  BY <1>1, <1>3, <1>10, Known DEF Sound
<1> QED  BY <1>1, <1>4, <1>11, SettleSound DEF inputVars

\* A unit resolvent is learnt.
LEMMA LearnUnitResolventSound ==
  ASSUME SoundInv, NEW v \in 1 .. NumVars, LearnUnitResolvent(v)
  PROVE  SoundInv'
<1> DEFINE lit == Rarer(v)
<1>1. ok /\ UNCHANGED inputVars  BY DEF LearnUnitResolvent, AtRoot
<1>a. PICK gate \in GatesOf(lit) : \E c \in Resolvents(irredundant, lit, gate) :
         \E unit \in c : c = {unit} /\ LearnUnit(unit)
  BY DEF LearnUnitResolvent
<1>2. PICK c \in Resolvents(irredundant, lit, gate) :
         \E unit \in c : c = {unit} /\ LearnUnit(unit)
  BY <1>a
<1>3. PICK unit \in c : c = {unit} /\ LearnUnit(unit)  BY <1>2
<1>4. lit \in Literal  BY Variables DEF Rarer
<1> HIDE DEF lit
<1>5. c \in Proper /\ \A a \in Models : c \cap a # {}
  <2>1. \A a \in Models : a \in Assignment /\ \A d \in irredundant : d \cap a # {}
    BY <1>1, Known DEF Models
  <2> QED  BY <1>1, <1>4, <2>1, Known, ResolventsTrue
<1>6. unit \in Literal /\ \A a \in Models : unit \in a  BY <1>3, <1>5 DEF Proper
<1> QED  BY <1>1, <1>3, <1>6, SettleMore

\* A core with clauses on one side only.
LEMMA LearnDefinedUnitSound ==
  ASSUME SoundInv, NEW lit \in Literal, LearnDefinedUnit(lit)
  PROVE  SoundInv'
<1>1. ok /\ UNCHANGED inputVars  BY DEF LearnDefinedUnit, AtRoot
<1>2. PICK core \in Cores(irredundant, lit) : core = Occurring(core, lit) /\ LearnUnit(lit)
  BY DEF LearnDefinedUnit
<1>3. ASSUME NEW a \in Models PROVE lit \in a
  <2> SUFFICES ASSUME lit \notin a PROVE FALSE  OBVIOUS
  <2>1. a \in Assignment /\ \A d \in irredundant : d \cap a # {}
    BY <1>1, Known DEF Models
  <2>2. ASSUME NEW c \in core PROVE (c \ {lit, -lit}) \cap a # {}
    <3>1. c \in irredundant /\ lit \in c  BY <1>2 DEF Cores, Occurring
    <3>2. c \in Proper  BY <1>1, <3>1, Known
    <3>3. -lit \notin c  BY <3>1, <3>2 DEF Proper
    <3> QED  BY <2>1, <3>1, <3>3
  <2>3. Satisfies(a, {c \ {lit, -lit} : c \in core})  BY <2>2 DEF Satisfies
  <2> QED  BY <2>1, <2>3 DEF Cores
<1> QED  BY <1>1, <1>2, <1>3, SettleMore

-----------------------------------------------------------------------------
(* Substitution of equivalent literals                                     *)

\* The literals that are implied by some of these by one binary clause.
NextReached(s) ==
  {l \in Literal : \E k \in s : {-k, l} \in Binaries(irredundant \cup redundant)}

\* The function that Reached takes its value from.
IsReach(g, lit) ==
  /\ g \in [0 .. 2 * NumVars -> SUBSET Literal]
  /\ Reached(lit) = g[2 * NumVars]
  /\ g[0] = {lit}
  /\ \A k \in 1 .. 2 * NumVars : g[k] = g[k - 1] \cup NextReached(g[k - 1])

\* There is such a function.
LEMMA ReachedIs ==
  ASSUME NEW lit \in Literal
  PROVE  \E g : IsReach(g, lit)
<1> DEFINE X == SUBSET Literal
           N == 2 * NumVars
           Body(g) == [n \in 0 .. N |->
                         IF n = 0 THEN {lit} ELSE g[n - 1] \cup NextReached(g[n - 1])]
           D == [x \in Nat \X X |-> x[2] \cup NextReached(x[2])]
           F == CHOOSE g : g = Body(g)
<1>1. D \in [Nat \X X -> X]  BY DEF NextReached
<1>2. 0 \in Nat /\ N \in Nat /\ {lit} \in X  BY NumVarsAssumption
<1>a. Reached(lit) = F[2 * NumVars]  BY DEF Reached, NextReached
<1>3. Reached(lit) = F[N]  BY <1>a
<1> HIDE DEF N
<1>4. PICK h : IsRecursive(h, 0, N, X, {lit}, D)
  <2> HIDE DEF D, X
  <2> QED  BY <1>1, <1>2, Recursion
<1>5. h \in [0 .. N -> X]  BY <1>4 DEF IsRecursive
<1>6. \A k \in 0 .. N :
        h[k] = IF k = 0 THEN {lit} ELSE h[k - 1] \cup NextReached(h[k - 1])
  <2> SUFFICES ASSUME NEW k \in 0 .. N
               PROVE  h[k] = IF k = 0 THEN {lit} ELSE h[k - 1] \cup NextReached(h[k - 1])
    OBVIOUS
  <2>1. CASE k = 0  BY <1>4, <2>1 DEF IsRecursive
  <2>2. CASE k # 0
    <3>1. k \in Nat /\ k - 1 \in 0 .. N  BY <1>2, <2>2
    <3>2. h[k - 1] \in X  BY <1>5, <3>1
    <3>3. h[k] = D[<<k, h[k - 1]>>]  BY <1>4, <2>2 DEF IsRecursive
    <3>4. D[<<k, h[k - 1]>>] = h[k - 1] \cup NextReached(h[k - 1])  BY <3>1, <3>2
    <3> HIDE DEF D
    <3> QED  BY <2>2, <3>3, <3>4
  <2> QED  BY <2>1, <2>2
<1>7. h = Body(h)  BY <1>5, <1>6
<1>8. F = Body(F)
  <2> HIDE DEF Body
  <2> QED  BY <1>7
<1> HIDE DEF F
<1>9. \A k \in 0 .. N :
        F[k] = IF k = 0 THEN {lit} ELSE F[k - 1] \cup NextReached(F[k - 1])
  <2>1. \A k \in 0 .. N : F[k] = Body(F)[k]  BY <1>8
  <2> QED  BY <2>1
<1>10. F[0] = {lit} /\ \A k \in 1 .. N : F[k] = F[k - 1] \cup NextReached(F[k - 1])
  <2>1. \A k \in 1 .. N : k \in 0 .. N /\ k # 0  BY <1>2
  <2>2. 0 \in 0 .. N  BY <1>2
  <2> QED  BY ONLY <1>9, <2>1, <2>2
<1>11. F \in [0 .. N -> X]
  <2> DEFINE S == {k \in 0 .. N : F[k] \in X}
  <2>1. 0 \in S  BY <1>2, <1>10
  <2>2. ASSUME NEW k \in 0 + 1 .. N, k - 1 \in S PROVE k \in S
    BY <1>2, <1>10, <2>2 DEF NextReached
  <2>3. 0 .. N \subseteq S
    <3> HIDE DEF S
    <3> QED  BY <1>2, <2>1, <2>2, RangeInduction
  <2>4. \A k \in 0 .. N : F[k] \in X  BY <2>3
  <2>5. F = [k \in 0 .. N |-> F[k]]
    <3>1. Body(F) = [k \in 0 .. N |-> Body(F)[k]]  OBVIOUS
    <3> HIDE DEF Body
    <3> QED  BY <1>8, <3>1
  <2> DEFINE H == [k \in 0 .. N |-> F[k]]
  <2>6. H \in [0 .. N -> X]  BY <2>4
  <2>7. F = H  BY <2>5
  <2> HIDE DEF H, X
  <2> QED  BY <2>6, <2>7
<1> HIDE DEF Body
<1> QED  BY <1>3, <1>10, <1>11 DEF IsReach, N

\* A literal reaches itself and what is true with it in all models.
LEMMA ReachedTrue ==
  ASSUME SoundInv, ok, NEW lit \in Literal
  PROVE  /\ Reached(lit) \in SUBSET Literal
         /\ lit \in Reached(lit)
         /\ \A a \in Models : lit \in a => Reached(lit) \subseteq a
<1>0. PICK g : IsReach(g, lit)  BY ReachedIs
<1> DEFINE N == 2 * NumVars
<1>1. /\ g \in [0 .. N -> SUBSET Literal]
      /\ Reached(lit) = g[N]
      /\ g[0] = {lit}
      /\ \A k \in 1 .. N : g[k] = g[k - 1] \cup NextReached(g[k - 1])
  BY <1>0 DEF IsReach
<1>2. 0 \in Nat /\ N \in Nat /\ N \in 0 .. N /\ 0 \in 0 .. N
  BY NumVarsAssumption
<1> HIDE DEF N
<1>3. lit \in Reached(lit)
  <2> DEFINE S == {k \in 0 .. N : lit \in g[k]}
  <2>1. 0 \in S  BY <1>1, <1>2
  <2>2. ASSUME NEW k \in 0 + 1 .. N, k - 1 \in S PROVE k \in S
    <3>1. k \in 1 .. N /\ k \in 0 .. N /\ lit \in g[k - 1]  BY <1>2, <2>2
    <3>2. g[k] = g[k - 1] \cup NextReached(g[k - 1])  BY <1>1, <3>1
    <3> QED  BY <3>1, <3>2
  <2>3. 0 .. N \subseteq S
    <3> HIDE DEF S
    <3> QED  BY <1>2, <2>1, <2>2, RangeInduction
  <2>4. lit \in g[N]  BY <1>2, <2>3
  <2> QED  BY <1>1, <2>4
<1>4. ASSUME NEW a \in Models, lit \in a
      PROVE  Reached(lit) \subseteq a
  <2> DEFINE S == {k \in 0 .. N : g[k] \subseteq a}
  <2>1. 0 \in S  BY <1>1, <1>2, <1>4
  <2>2. ASSUME NEW k \in 0 + 1 .. N, k - 1 \in S PROVE k \in S
    <3>1. k - 1 \in 0 .. N /\ k \in 1 .. N /\ k \in 0 .. N /\ g[k - 1] \subseteq a
      BY <1>2, <2>2
    <3>2. ASSUME NEW l \in NextReached(g[k - 1]) PROVE l \in a
      <4>1. PICK m \in g[k - 1] : {-m, l} \in irredundant \cup redundant
        BY DEF NextReached, Binaries
      <4>2. {-m, l} \cap a # {} /\ a \in Assignment  BY <4>1, Known DEF Models
      <4>3. m \in a /\ m \in Literal  BY <3>1, <4>1, <4>2, Values
      <4> QED  BY <4>2, <4>3, Values
    <3>3. g[k] = g[k - 1] \cup NextReached(g[k - 1])  BY <1>1, <3>1
    <3> QED  BY <3>1, <3>2, <3>3
  <2>3. 0 .. N \subseteq S
    <3> HIDE DEF S
    <3> QED  BY <1>2, <2>1, <2>2, RangeInduction
  <2>4. g[N] \subseteq a  BY <1>2, <2>3
  <2> QED  BY <1>1, <2>4
<1> QED  BY <1>1, <1>2, <1>3, <1>4

\* In a model a literal is true if and only if its representative is.
LEMMA RepresentativeTrue ==
  ASSUME SoundInv, ok, NEW lit \in Literal
  PROVE  /\ Representative(lit) \in Literal
         /\ \A a \in Models : lit \in a <=> Representative(lit) \in a
<1> DEFINE same == {l \in Reached(lit) : lit \in Reached(l)}
           r == CHOOSE l \in same : \A k \in same : Var(l) <= Var(k)
<1>1. same \in SUBSET Literal /\ lit \in same  BY ReachedTrue
<1>2. \E l \in same : \A k \in same : Var(l) <= Var(k)
  <2> DEFINE V == {Var(l) : l \in same}
  <2>1. V \in SUBSET Nat /\ V # {}
    <3> HIDE DEF same
    <3> QED  BY <1>1, Literals, NumVarsAssumption
  <2>2. PICK n \in V : \A m \in V : n <= m
    <3> HIDE DEF V
    <3> QED  BY <2>1, Least
  <2> HIDE DEF same
  <2> QED  BY <2>2
<1>3. r \in same
  <2> HIDE DEF same
  <2> QED  BY <1>2
<1>4. Representative(lit) = r  BY DEF Representative
<1> HIDE DEF r
<1>5. r \in Literal /\ r \in Reached(lit) /\ lit \in Reached(r)  BY <1>1, <1>3
<1> QED  BY <1>4, <1>5, ReachedTrue

\* So clauses keep their truth when representatives take the place of literals.
LEMMA SubstitutedTrue ==
  ASSUME SoundInv, ok, NEW cs \in SUBSET Proper,
         \A a \in Models : \A c \in cs : c \cap a # {}
  PROVE  /\ Substituted(cs) \in SUBSET Proper
         /\ \A a \in Models : \A c \in Substituted(cs) : c \cap a # {}
<1>1. Substituted(cs) \in SUBSET Proper  BY DEF Substituted, Clauses, Proper
<1>2. ASSUME NEW a \in Models, NEW c \in cs
      PROVE  SubstitutedLits(c) \cap a # {}
  <2>1. PICK l \in c : l \in a /\ l \in Literal  BY DEF Proper
  <2>2. Representative(l) \in a  BY <2>1, RepresentativeTrue
  <2> QED  BY <2>2 DEF SubstitutedLits
<1> QED  BY <1>1, <1>2 DEF Substituted

\* A literal that reaches its complement is false in all models.
LEMMA FailedRootFalse ==
  ASSUME SoundInv, ok, NEW l \in FailedRoots
  PROVE  l \in Literal /\ -l \in Literal /\ \A a \in Models : -l \in a
<1>1. l \in Literal /\ -l \in Literal /\ \E k \in Reached(l) : -k \in Reached(l)
  BY Literals DEF FailedRoots
<1>2. ASSUME NEW a \in Models, l \in a PROVE FALSE
  <2>1. a \in Assignment  BY DEF Models
  <2>2. Reached(l) \subseteq a /\ Reached(l) \in SUBSET Literal
    BY <1>1, <1>2, ReachedTrue
  <2> QED  BY <1>1, <2>1, <2>2, Values
<1>3. \A a \in Models : a \in Assignment  BY DEF Models
<1> QED  BY <1>1, <1>2, <1>3, Values

\* A round of substitution.
LEMMA SubstituteRoundSound == ASSUME SoundInv, SubstituteRound PROVE SoundInv'
<1>1. ok /\ UNCHANGED inputVars  BY DEF SubstituteRound, AtRoot
<1>2. \/ /\ \E l \in FailedRoots : -l \in Reached(l) /\ l \in Reached(-l)
         /\ ok' = FALSE
         /\ UNCHANGED clauseVars
      \/ \E l \in FailedRoots : LearnUnit(-l)
      \/ Settle(Substituted(irredundant), Substituted(redundant), fixed)
  BY DEF SubstituteRound
<1>3. CASE /\ \E l \in FailedRoots : -l \in Reached(l) /\ l \in Reached(-l)
           /\ ok' = FALSE
           /\ UNCHANGED clauseVars
  <2>1. PICK l \in FailedRoots : l \in Reached(-l)  BY <1>3
  <2>2. l \in Literal /\ -l \in Literal /\ \A a \in Models : -l \in a
    BY <1>1, FailedRootFalse
  <2>3. \A a \in Models : a \in Assignment  BY DEF Models
  <2>4. \A a \in Models : l \in a  BY <1>1, <2>1, <2>2, ReachedTrue
  <2>5. Models = {}  BY <2>2, <2>3, <2>4, Values
  <2> QED  BY <1>1, <1>3, <2>5, Known, SoundIs DEF clauseVars, inputVars
<1>4. CASE \E l \in FailedRoots : LearnUnit(-l)
  BY <1>1, <1>4, FailedRootFalse, SettleMore
<1>5. CASE Settle(Substituted(irredundant), Substituted(redundant), fixed)
  <2>1. Sound(Substituted(irredundant), Substituted(redundant), fixed)
    BY <1>1, Known, SubstitutedTrue DEF Sound
  <2> QED  BY <1>1, <1>5, <2>1, SettleSound DEF inputVars
<1> QED  BY <1>2, <1>3, <1>4, <1>5

-----------------------------------------------------------------------------
(* Ternary resolution, vivification, probing, autarkies                    *)

\* Two binary clauses resolve to a unit.
LEMMA ResolveBinariesSound ==
  ASSUME SoundInv, NEW lit \in Literal, ResolveBinaries(lit)
  PROVE  SoundInv'
<1>1. ok /\ UNCHANGED inputVars /\ LearnUnit(lit)  BY DEF ResolveBinaries, AtRoot
<1>2. PICK other \in Literal : {{lit, other}, {lit, -other}} \subseteq irredundant
  BY DEF ResolveBinaries
<1>3. ASSUME NEW a \in Models PROVE lit \in a
  <2>1. a \in Assignment  BY DEF Models
  <2>2. {lit, other} \cap a # {} /\ {lit, -other} \cap a # {}  BY <1>1, <1>2, Known
  <2>3. other \in a <=> -other \notin a  BY <2>1, Values
  <2> QED  BY <2>2, <2>3
<1> QED  BY <1>1, <1>3, SettleMore

\* A resolvent of two ternary clauses is added, or replaces them.
LEMMA ResolveTernarySound == ASSUME SoundInv, ResolveTernary PROVE SoundInv'
<1> DEFINE all == irredundant \cup redundant
           Ternary == {e \in all : Cardinality(e) = 3}
           New(c, d, l) == (c \ {l}) \cup (d \ {-l})
           Result(c, d, new) ==
             \/ /\ Cardinality(new) = 3 /\ ~Found(new, all)
                /\ Settle(irredundant, redundant \cup {new}, fixed)
             \/ /\ Cardinality(new) = 2 /\ RedundantIfBoth(c, d)
                /\ Settle(irredundant, (redundant \ {c, d}) \cup
                            (IF Found(new, all) THEN {} ELSE {new}), fixed)
             \/ /\ Cardinality(new) = 2 /\ ~RedundantIfBoth(c, d)
                /\ Settle((irredundant \ {c, d}) \cup {new}, redundant \ {c, d}, fixed)
<1>1. ok /\ UNCHANGED inputVars  BY DEF ResolveTernary, AtRoot
<1>2. \E c, d \in Ternary : \E l \in c :
         /\ -l \in d /\ New(c, d, l) \in Clauses
         /\ Result(c, d, New(c, d, l))
  BY DEF ResolveTernary
<1> HIDE DEF Result
<1>3. PICK c \in Ternary, d \in Ternary : \E l \in c :
         /\ -l \in d /\ New(c, d, l) \in Clauses
         /\ Result(c, d, New(c, d, l))
  BY <1>2
<1>4. PICK l \in c : New(c, d, l) \in Clauses /\ Result(c, d, New(c, d, l))
  BY <1>3
<1> DEFINE new == New(c, d, l)
<1>5. new \in Proper /\ \A a \in Models : new \cap a # {}
  <2>1. l \in Literal  BY <1>1, Known DEF Proper
  <2>2. \A a \in Models : a \in Assignment /\ c \cap a # {} /\ d \cap a # {}
    BY <1>1, Known DEF Models
  <2>3. \A a \in Models : ((c \ {l}) \cup (d \ {-l})) \cap a # {}
    BY <2>1, <2>2, ResolventTrue
  <2>4. new \in Proper  BY <1>4 DEF Clauses, Proper
  <2> QED  BY <2>3, <2>4
<1>6. c \in all /\ d \in all  OBVIOUS
<1> HIDE DEF New, Ternary
<1>7. CASE Settle(irredundant, redundant \cup {new}, fixed)
  <2>1. Sound(irredundant, redundant \cup {new}, fixed)  BY <1>1, <1>5, Known DEF Sound
  <2> QED  BY <1>1, <1>7, <2>1, SettleSound DEF inputVars
<1>8. CASE Settle(irredundant, (redundant \ {c, d}) \cup
                    (IF Found(new, all) THEN {} ELSE {new}), fixed)
  <2> DEFINE red == (redundant \ {c, d}) \cup (IF Found(new, all) THEN {} ELSE {new})
  <2>1. red \subseteq redundant \cup {new}  OBVIOUS
  <2>2. Settle(irredundant, red, fixed)  BY <1>8
  <2> HIDE DEF red, new
  <2>3. Sound(irredundant, red, fixed)  BY <1>1, <1>5, <2>1, Known DEF Sound
  <2> QED  BY <1>1, <2>2, <2>3, SettleSound DEF inputVars
<1>9. CASE Settle((irredundant \ {c, d}) \cup {new}, redundant \ {c, d}, fixed)
  <2>1. Sound((irredundant \ {c, d}) \cup {new}, redundant \ {c, d}, fixed)
    <3> HIDE DEF new
    <3> QED  BY <1>1, <1>5, Known DEF Sound
  <2> QED  BY <1>1, <1>9, <2>1, SettleSound DEF inputVars
<1> QED  BY <1>4, <1>7, <1>8, <1>9 DEF Result

\* What vivification keeps of a clause follows from the clause and the others.
LEMMA KeptTrue ==
  ASSUME NEW c \in Proper, NEW others, NEW kept \in Kept(c, others),
         fixed \in SUBSET Literal
  PROVE  /\ kept \in Proper
         /\ \A a \in Assignment :
              /\ c \cap a # {} /\ fixed \subseteq a
              /\ \A d \in others : d \cap a # {}
              => kept \cap a # {}
<1>1. kept \in SUBSET c /\ c \in SUBSET Literal /\ kept \in SUBSET Literal /\ kept \in Proper
  BY DEF Kept, Proper
<1>2. ASSUME NEW a \in Assignment, c \cap a # {}, fixed \subseteq a,
             \A d \in others : d \cap a # {},
             kept \cap a = {}
      PROVE  FALSE
  <2> DEFINE lits == fixed \cup Complement(kept)
  <2>1. lits \in SUBSET Literal /\ lits \subseteq a  BY <1>1, <1>2, Complements
  <2>2. Satisfies(a, others)  BY <1>2 DEF Satisfies
  <2> HIDE DEF lits
  <2>3. Propagated(others, lits) \in SUBSET Literal /\ Propagated(others, lits) \subseteq a
    BY <2>1, <2>2, PropagatedTrue
  <2>4. ~Falsified(others, Propagated(others, lits))  BY <2>2, <2>3, NotFalsified
  <2>5. c \ kept \subseteq Complement(Propagated(others, lits))
    BY <2>4 DEF Kept, Refuted, Conflicting, lits
  <2>6. Complement(Propagated(others, lits)) \cap a = {}  BY <2>3, Complements
  <2> QED  BY <1>2, <2>5, <2>6
<1> QED  BY <1>1, <1>2

\* Vivification makes a clause shorter.
LEMMA VivifyShortenSound == ASSUME SoundInv, VivifyShorten PROVE SoundInv'
<1> DEFINE all == irredundant \cup redundant
<1>1. ok /\ UNCHANGED inputVars  BY DEF VivifyShorten, AtRoot
<1>2. ASSUME NEW c \in all, NEW kept \in Kept(c, all \ {c})
      PROVE  kept \in Proper /\ \A a \in Models : kept \cap a # {}
  <2>1. c \in Proper /\ fixed \in SUBSET Literal  BY <1>1, Known
  <2>2. \A a \in Models : /\ a \in Assignment /\ c \cap a # {} /\ fixed \subseteq a
                          /\ \A d \in all \ {c} : d \cap a # {}
    BY <1>1, Known DEF Models
  <2> HIDE DEF all
  <2> QED  BY <2>1, <2>2, KeptTrue
<1>3. CASE \E c \in irredundant : \E kept \in Kept(c, all \ {c}) :
             Settle((irredundant \ {c}) \cup {kept}, redundant, fixed)
  <2>1. PICK c \in irredundant : \E kept \in Kept(c, all \ {c}) :
             Settle((irredundant \ {c}) \cup {kept}, redundant, fixed)
    BY <1>3
  <2>2. PICK kept \in Kept(c, all \ {c}) :
             Settle((irredundant \ {c}) \cup {kept}, redundant, fixed)
    BY <2>1
  <2>3. Sound((irredundant \ {c}) \cup {kept}, redundant, fixed)
    BY <1>1, <1>2, Known DEF Sound
  <2> QED  BY <1>1, <2>2, <2>3, SettleSound DEF inputVars
<1>4. CASE \E c \in redundant : \E kept \in Kept(c, all \ {c}) :
             Settle(irredundant, (redundant \ {c}) \cup {kept}, fixed)
  <2>1. PICK c \in redundant : \E kept \in Kept(c, all \ {c}) :
             Settle(irredundant, (redundant \ {c}) \cup {kept}, fixed)
    BY <1>4
  <2>2. PICK kept \in Kept(c, all \ {c}) :
             Settle(irredundant, (redundant \ {c}) \cup {kept}, fixed)
    BY <2>1
  <2>3. Sound(irredundant, (redundant \ {c}) \cup {kept}, fixed)
    BY <1>1, <1>2, Known DEF Sound
  <2> QED  BY <1>1, <2>2, <2>3, SettleSound DEF inputVars
<1> QED  BY <1>3, <1>4 DEF VivifyShorten

\* Clauses that others imply, or variables in an autarky, are removed.
LEMMA RemovalSound ==
  ASSUME SoundInv, VivifyRemove \/ TransitiveReduce \/ Autarky
  PROVE  SoundInv'
<1>1. ok /\ UNCHANGED <<formula, loaded, fixed, ok>>
  BY DEF VivifyRemove, TransitiveReduce, Autarky, AtRoot, inputVars
<1>2. irredundant' \subseteq irredundant /\ redundant' \subseteq redundant
  BY DEF VivifyRemove, TransitiveReduce, Autarky, Without
<1> QED  BY <1>1, <1>2, FewerClauses

\* If a literal leads to a conflict its complement is true in all models.
LEMMA ProbeTrue ==
  ASSUME SoundInv, ok, NEW lit \in Literal, NEW cs, cs \subseteq irredundant \cup redundant,
         NEW lits, lits \in {{lit}, fixed \cup {lit}}
  PROVE  /\ \A a \in Models : lit \in a => Propagated(cs, lits) \subseteq a
         /\ Propagated(cs, lits) \in SUBSET Literal
         /\ Falsified(cs, Propagated(cs, lits)) => \A a \in Models : -lit \in a
<1>1. lits \in SUBSET Literal /\ \A a \in Models : lit \in a => lits \subseteq a  BY Known
<1>2. \A a \in Models : a \in Assignment /\ Satisfies(a, cs)
  BY Known DEF Models, Satisfies
<1>3. /\ \A a \in Models : lit \in a => Propagated(cs, lits) \subseteq a
      /\ Propagated(cs, lits) \in SUBSET Literal
  BY <1>1, <1>2, PropagatedTrue
<1>4. ASSUME NEW a \in Models, Falsified(cs, Propagated(cs, lits)) PROVE -lit \in a
  <2>1. lit \notin a  BY <1>1, <1>2, <1>4, ConflictRefutes
  <2> QED  BY <1>2, <2>1, Values
<1> QED  BY <1>3, <1>4

\* Failed literals.
LEMMA FailedLiteralSound ==
  ASSUME SoundInv, NEW lit \in Literal, FailedLiteral(lit) \/ Backbone(lit)
  PROVE  SoundInv'
<1> DEFINE all == irredundant \cup redundant
<1>1. ok /\ UNCHANGED inputVars /\ LearnUnit(-lit)
  BY DEF FailedLiteral, Backbone, AtRoot
<1>2. \A a \in Models : -lit \in a
  <2>1. CASE FailedLiteral(lit)
    <3>1. Falsified(all, Propagated(all, fixed \cup {lit}))
      BY <2>1 DEF FailedLiteral, Conflicting
    <3> QED  BY <1>1, <3>1, ProbeTrue
  <2>2. CASE Backbone(lit)
    <3>1. Falsified(Binaries(all), Propagated(Binaries(all), {lit}))
      BY <2>2 DEF Backbone, BinaryPropagated
    <3>2. Binaries(all) \subseteq all  BY DEF Binaries
    <3> QED  BY <1>1, <3>1, <3>2, ProbeTrue
  <2> QED  BY <2>1, <2>2
<1>3. -lit \in Literal  BY Literals
<1> QED  BY <1>1, <1>2, <1>3, SettleMore

\* A hyper binary resolvent.
LEMMA HyperBinarySound ==
  ASSUME SoundInv, NEW dom \in Literal, NEW lit \in Literal, HyperBinary(dom, lit)
  PROVE  SoundInv'
<1> DEFINE all == irredundant \cup redundant
           red == redundant \cup {{-dom, lit}}
<1>1. /\ ok /\ UNCHANGED inputVars /\ {-dom, lit} \in Clauses
      /\ Settle(irredundant, red, fixed)
      /\ \E c \in all : Dominates(dom, lit, c)
  BY DEF HyperBinary, AtRoot
<1>2. PICK c \in all : Dominates(dom, lit, c)  BY <1>1
<1>3. ASSUME NEW a \in Models, dom \in a
      PROVE  lit \in a
  <2> DEFINE lits == Propagated(Binaries(all), {dom})
  <2>1. Binaries(all) \subseteq all  BY DEF Binaries
  <2>2. lits \subseteq a /\ lits \in SUBSET Literal
    <3> HIDE DEF Models
    <3> QED  BY <1>1, <1>3, <2>1, ProbeTrue
  <2>3. a \in Assignment /\ c \cap a # {}  BY <1>1, Known DEF Models
  <2>4. c \ {lit} \subseteq Complement(lits)  BY <1>2 DEF Dominates, BinaryPropagated
  <2> HIDE DEF lits
  <2>5. Complement(lits) \cap a = {}  BY <2>2, <2>3, Complements
  <2> QED  BY <2>3, <2>4, <2>5
<1>4. \A a \in Models : {-dom, lit} \cap a # {}
  <2> SUFFICES ASSUME NEW a \in Models PROVE {-dom, lit} \cap a # {}  OBVIOUS
  <2>1. a \in Assignment  BY DEF Models
  <2> QED  BY <1>3, <2>1, Values
<1>5. {-dom, lit} \in Proper  BY <1>1 DEF Clauses, Proper
<1>6. Sound(irredundant, red, fixed)  BY <1>1, <1>4, <1>5, Known DEF Sound
<1> HIDE DEF red
<1> QED  BY <1>1, <1>6, SettleSound DEF inputVars

-----------------------------------------------------------------------------
(* Gaussian elimination                                                    *)

\* Equations over the variables of the formula.
Equations == [vars : SUBSET (1 .. NumVars), rhs : BOOLEAN]

\* An odd number of the variables is true if the right side says so.
Holds(a, x) == x.rhs <=> Cardinality(x.vars \cap a) % 2 = 1

\* The symmetric difference.
Difference(A, B) == (A \ B) \cup (B \ A)

\* What an equation consists of.
LEMMA EquationIs ==
  /\ \A vs \in SUBSET (1 .. NumVars), rhs \in BOOLEAN : Xor(vs, rhs) \in Equations
  /\ \A x \in Equations : /\ x = Xor(x.vars, x.rhs)
                          /\ x.vars \in SUBSET (1 .. NumVars) /\ x.rhs \in BOOLEAN
<1>1. ASSUME NEW vs \in SUBSET (1 .. NumVars), NEW rhs \in BOOLEAN
      PROVE  Xor(vs, rhs) \in Equations
  <2>1. Xor(vs, rhs) = [vars |-> vs, rhs |-> rhs]  BY DEF Xor
  <2>2. [vars |-> vs, rhs |-> rhs] \in [vars : SUBSET (1 .. NumVars), rhs : BOOLEAN]
    BY Zenon
  <2> QED  BY <2>1, <2>2 DEF Equations
<1>2. ASSUME NEW x \in Equations
      PROVE  /\ x = Xor(x.vars, x.rhs)
             /\ x.vars \in SUBSET (1 .. NumVars) /\ x.rhs \in BOOLEAN
  BY DEF Equations, Xor
<1> QED  BY <1>1, <1>2

\* The variables are finite in number, and so are the equations.
LEMMA FinitelyManyEquations ==
  /\ \A vs \in SUBSET (1 .. NumVars) : IsFiniteSet(vs) /\ Cardinality(vs) \in Nat
  /\ IsFiniteSet(Equations)
  /\ \A cs : Xors(cs) \in SUBSET Equations /\ IsFiniteSet(Xors(cs))
<1>1. IsFiniteSet(1 .. NumVars) /\ IsFiniteSet(0 .. NumVars)
  BY NumVarsAssumption, FS_Interval
<1>2. \A vs \in SUBSET (1 .. NumVars) : IsFiniteSet(vs) /\ Cardinality(vs) \in Nat
  BY <1>1, FS_Subset, FS_CardinalityType
<1>3. IsFiniteSet(Equations)
  <2> DEFINE S == SUBSET (0 .. NumVars)
             f == [x \in Equations |-> IF x.rhs THEN x.vars \cup {0} ELSE x.vars]
  <2>1. IsFiniteSet(S)  BY <1>1, FS_SUBSET
  <2>2. \A x \in Equations : x.vars \in SUBSET (1 .. NumVars) /\ 0 \notin x.vars
    BY EquationIs
  <2>3. f \in [Equations -> S]
    <3>1. \A x \in Equations : x.vars \in S /\ x.vars \cup {0} \in S
      BY <2>2, NumVarsAssumption
    <3> HIDE DEF S
    <3> QED  BY <3>1
  <2>4. ASSUME NEW x \in Equations, NEW y \in Equations, f[x] = f[y]
        PROVE  x = y
    <3>1. /\ f[x] = IF x.rhs THEN x.vars \cup {0} ELSE x.vars
          /\ f[y] = IF y.rhs THEN y.vars \cup {0} ELSE y.vars
      OBVIOUS
    <3>2. (x.rhs <=> 0 \in f[x]) /\ (y.rhs <=> 0 \in f[y])  BY <2>2, <3>1
    <3>3. x.vars = f[x] \ {0} /\ y.vars = f[y] \ {0}
      <4> HIDE DEF f
      <4> QED  BY <2>2, <3>1
    <3> HIDE DEF f
    <3>4. (x.rhs <=> y.rhs) /\ x.vars = y.vars  BY <2>4, <3>2, <3>3
    <3>5. x.rhs = y.rhs
      <4>1. x.rhs \in BOOLEAN /\ y.rhs \in BOOLEAN  BY EquationIs
      <4> QED  BY <3>4, <4>1
    <3>6. x = Xor(x.vars, x.rhs) /\ y = Xor(y.vars, y.rhs)  BY EquationIs
    <3> QED  BY <3>4, <3>5, <3>6
  <2>5. f \in Injection(Equations, S)
    <3> HIDE DEF f, S
    <3> QED  BY <2>3, <2>4 DEF Injection, IsInjective
  <2> HIDE DEF f, S
  <2> QED  BY <2>1, <2>5, FS_Injection
<1>4. ASSUME NEW cs PROVE Xors(cs) \in SUBSET Equations
  BY EquationIs DEF Xors
<1> QED  BY <1>2, <1>3, <1>4, FS_Subset

\* A clause is false if and only if as many of its literals are negative as of its
\* variables are true.
LEMMA NegativesAreTrueVariables ==
  ASSUME NEW a \in Assignment, NEW c \in SUBSET Literal, c \cap a = {},
         NEW vs, vs = {Var(l) : l \in c}
  PROVE  Cardinality({l \in c : l < 0}) = Cardinality(vs \cap a)
<1> DEFINE N == {l \in c : l < 0}
           T == vs \cap a
           f == [v \in T |-> -v]
<1>1. \A v \in T : v \in 1 .. NumVars /\ -v \in c /\ v \in Literal
  <2> SUFFICES ASSUME NEW v \in T PROVE v \in 1 .. NumVars /\ -v \in c /\ v \in Literal
    OBVIOUS
  <2>1. PICK l \in c : v = Var(l)  OBVIOUS
  <2>2. v = l \/ v = -l  BY <2>1 DEF Var
  <2>3. l # v  BY <2>1
  <2>4. -v = l  BY <2>1, <2>2, <2>3, Literals
  <2> QED  BY <2>1, <2>4, Literals, NumVarsAssumption DEF Literal
<1>2. \A l \in N : -l \in T /\ -(-l) = l
  <2> SUFFICES ASSUME NEW l \in N PROVE -l \in T /\ -(-l) = l  OBVIOUS
  <2>1. Var(l) = -l /\ l \in Literal /\ l \notin a  BY DEF Var
  <2> QED  BY <2>1, Literals, Values
<1>3. f \in [T -> N]  BY <1>1, NumVarsAssumption
<1>4. \A v, w \in T : f[v] = f[w] => v = w  BY <1>1
<1>5. \A l \in N : \E v \in T : f[v] = l  BY <1>2
<1>6. ExistsBijection(T, N)
  <2>1. f \in Bijection(T, N)
    <3> HIDE DEF f, T, N
    <3> QED  BY <1>3, <1>4, <1>5 DEF Bijection, Injection, Surjection, IsInjective
  <2> QED  BY <2>1 DEF ExistsBijection
<1>7. IsFiniteSet(T)
  <2>1. T \in SUBSET (1 .. NumVars)  BY <1>1
  <2> HIDE DEF T
  <2> QED  BY <2>1, FinitelyManyEquations
<1> HIDE DEF T, N
<1>8. Cardinality(N) = Cardinality(T)  BY <1>6, <1>7, FS_Bijection
<1> QED  BY <1>8 DEF T, N

\* An equation all clauses of which are true holds.
LEMMA ClausesMakeEquation ==
  ASSUME NEW a \in Assignment, NEW x \in Equations, x.vars # {},
         \A c \in ClausesOf(x) : c \cap a # {}
  PROVE  Holds(a, x)
<1> DEFINE c == {l \in Literal : Var(l) \in x.vars /\ l \notin a}
<1>1. x.vars \in SUBSET (1 .. NumVars) /\ x.rhs \in BOOLEAN  BY DEF Equations
<1>2. c \in SUBSET Literal /\ c \cap a = {}  OBVIOUS
<1>3. {Var(l) : l \in c} = x.vars
  <2>1. \A v \in x.vars : \E l \in c : Var(l) = v
    <3> SUFFICES ASSUME NEW v \in x.vars PROVE \E l \in c : Var(l) = v  OBVIOUS
    <3>1. v \in Literal /\ -v \in Literal /\ Var(v) = v /\ Var(-v) = v
      BY <1>1, NumVarsAssumption DEF Literal, Var
    <3>2. v \notin a \/ -v \notin a  BY <3>1, Values
    <3> QED  BY <3>1, <3>2
  <2> QED  BY <2>1
<1>4. c # {} /\ \A l \in c : -l \notin c
  <2>1. \A l \in Literal : l \notin a => -l \in a  BY Values
  <2> QED  BY <1>3, <2>1
<1>5. Cardinality({l \in c : l < 0}) = Cardinality(x.vars \cap a)
  <2> HIDE DEF c
  <2> QED  BY <1>2, <1>3, NegativesAreTrueVariables
<1>6. Cardinality(x.vars \cap a) \in Nat
  BY <1>1, FinitelyManyEquations
<1>7. c \notin ClausesOf(x)  BY <1>2
<1>8. c \in Clauses  BY <1>2, <1>4 DEF Clauses
<1> HIDE DEF c
<1>9. ~(x.rhs <=> Cardinality({l \in c : l < 0}) % 2 = 0)
  BY <1>3, <1>7, <1>8 DEF ClausesOf
<1>10. ~(x.rhs <=> Cardinality(x.vars \cap a) % 2 = 0)  BY <1>5, <1>9
<1> QED  BY <1>6, <1>10 DEF Holds

\* All clauses of an equation that holds are true.
LEMMA EquationMakesClauses ==
  ASSUME NEW a \in Assignment, NEW x \in Equations, Holds(a, x),
         NEW c \in ClausesOf(x)
  PROVE  c \in Proper /\ c \cap a # {}
<1>1. x.vars \in SUBSET (1 .. NumVars)  BY DEF Equations
<1>2. /\ c \in SUBSET Literal /\ c \in Proper /\ {Var(l) : l \in c} = x.vars
      /\ x.rhs <=> Cardinality({l \in c : l < 0}) % 2 = 0
  BY DEF ClausesOf, Clauses, Proper
<1>3. Cardinality(x.vars \cap a) \in Nat  BY <1>1, FinitelyManyEquations
<1>4. ASSUME c \cap a = {} PROVE FALSE
  <2>1. Cardinality({l \in c : l < 0}) = Cardinality(x.vars \cap a)
    BY <1>2, <1>4, NegativesAreTrueVariables
  <2>2. x.rhs <=> Cardinality(x.vars \cap a) % 2 = 0  BY <1>2, <2>1
  <2> QED  BY <1>3, <2>2 DEF Holds
<1> QED  BY <1>2, <1>4

\* The parity of a symmetric difference.
LEMMA ParityOfDifference ==
  ASSUME NEW A, NEW B, IsFiniteSet(A), IsFiniteSet(B)
  PROVE  /\ Cardinality(Difference(A, B)) \in Nat
         /\ Cardinality(Difference(A, B)) % 2 = 1 <=>
              ~(Cardinality(A) % 2 = 1 <=> Cardinality(B) % 2 = 1)
<1>1. /\ IsFiniteSet(A \ B) /\ IsFiniteSet(B \ A)
      /\ Cardinality(A \ B) = Cardinality(A) - Cardinality(A \cap B)
      /\ Cardinality(B \ A) = Cardinality(B) - Cardinality(B \cap A)
  BY FS_Difference
<1>2. (A \ B) \cap (B \ A) = {} /\ A \cap B = B \cap A  OBVIOUS
<1>3. Cardinality({}) = 0  BY FS_EmptySet
<1>4. /\ IsFiniteSet(Difference(A, B))
      /\ Cardinality(Difference(A, B)) = Cardinality(A \ B) + Cardinality(B \ A)
                                           - Cardinality((A \ B) \cap (B \ A))
  BY <1>1, FS_Union DEF Difference
<1>5. IsFiniteSet(A \cap B)  BY FS_Intersection
<1>6. /\ Cardinality(A) \in Nat /\ Cardinality(B) \in Nat /\ Cardinality(A \cap B) \in Nat
      /\ Cardinality(Difference(A, B)) \in Nat
  BY <1>4, <1>5, FS_CardinalityType
<1>7. Cardinality(Difference(A, B))
        = Cardinality(A) + Cardinality(B) - 2 * Cardinality(A \cap B)
  <2>1. Cardinality(Difference(A, B)) = (Cardinality(A) - Cardinality(A \cap B))
          + (Cardinality(B) - Cardinality(A \cap B)) - 0
    BY <1>1, <1>2, <1>3, <1>4
  <2> QED  BY ONLY <1>6, <2>1
<1>8. \A i, j, k, n \in Nat : n = i + j - 2 * k =>
        (n % 2 = 1 <=> ~(i % 2 = 1 <=> j % 2 = 1))
  OBVIOUS
<1> QED  BY <1>6, <1>7, <1>8
-----------------------------------------------------------------------------

\* The sum with one equation more.
LEMMA OneMore ==
  ASSUME NEW t \in SUBSET Equations, NEW x \in t, NEW u, u = t \ {x},
         IsFiniteSet(t)
  PROVE  /\ Sum(t) \in Equations /\ Sum(u) \in Equations
         /\ Sum(t).vars = Difference(Sum(u).vars, x.vars)
         /\ Sum(t).rhs <=> ~(Sum(u).rhs <=> x.rhs)
<1> DEFINE With(s, v) == {y \in s : v \in y.vars}
           True(s) == {y \in s : y.rhs}
           Odd(s) == Cardinality(s) % 2 = 1
<1>0. ASSUME NEW r, NEW s, r \in SUBSET t, s \in SUBSET t, x \notin r
      PROVE  /\ s = r \cup {x} => (Odd(s) <=> ~Odd(r))
             /\ s = r => (Odd(s) <=> Odd(r))
  <2>1. IsFiniteSet(r) /\ Cardinality(r) \in Nat
    BY <1>0, FS_Subset, FS_CardinalityType
  <2>2. Cardinality(r \cup {x}) = Cardinality(r) + 1  BY <1>0, <2>1, FS_AddElement
  <2>3. \A m \in Nat : (m + 1) % 2 = 1 <=> ~(m % 2 = 1)  OBVIOUS
  <2>4. Odd(r \cup {x}) <=> ~Odd(r)  BY <2>1, <2>2, <2>3
  <2> HIDE DEF Odd
  <2> QED  BY <2>4
<1>1. \A v : /\ With(u, v) \in SUBSET t /\ With(t, v) \in SUBSET t /\ x \notin With(u, v)
             /\ v \in x.vars => With(t, v) = With(u, v) \cup {x}
             /\ v \notin x.vars => With(t, v) = With(u, v)
  OBVIOUS
<1>2. /\ True(u) \in SUBSET t /\ True(t) \in SUBSET t /\ x \notin True(u)
      /\ x.rhs => True(t) = True(u) \cup {x}
      /\ ~x.rhs => True(t) = True(u)
  OBVIOUS
<1>3. \A s : /\ Sum(s) = Xor({v \in 1 .. NumVars : Odd(With(s, v))}, Odd(True(s)))
             /\ Odd(True(s)) \in BOOLEAN
  BY DEF Sum
<1> HIDE DEF With, True, Odd
<1>4. \A v : Odd(With(t, v)) <=> ~(Odd(With(u, v)) <=> v \in x.vars)
  BY <1>0, <1>1
<1>5. Odd(True(t)) <=> ~(Odd(True(u)) <=> x.rhs)
  BY <1>0, <1>2
<1>6. \A s : /\ Sum(s) \in Equations
             /\ Sum(s).vars = {v \in 1 .. NumVars : Odd(With(s, v))}
             /\ Sum(s).rhs = Odd(True(s))
  <2> SUFFICES ASSUME NEW s
               PROVE  /\ Sum(s) \in Equations
                      /\ Sum(s).vars = {v \in 1 .. NumVars : Odd(With(s, v))}
                      /\ Sum(s).rhs = Odd(True(s))
    OBVIOUS
  <2> DEFINE W == {v \in 1 .. NumVars : Odd(With(s, v))}
             b == Odd(True(s))
  <2>1. W \in SUBSET (1 .. NumVars) /\ b \in BOOLEAN /\ Sum(s) = Xor(W, b)  BY <1>3
  <2> HIDE DEF W, b
  <2>2. Xor(W, b) \in Equations  BY <2>1, EquationIs
  <2>3. Xor(W, b).vars = W /\ Xor(W, b).rhs = b  BY <2>1, Zenon DEF Xor
  <2> QED  BY <2>1, <2>2, <2>3 DEF W, b
<1>7. x.vars \in SUBSET (1 .. NumVars)  BY EquationIs
<1>8. Sum(t).vars = Difference(Sum(u).vars, x.vars)
  BY <1>4, <1>6, <1>7 DEF Difference
<1>9. Sum(t).rhs <=> ~(Sum(u).rhs <=> x.rhs)  BY <1>5, <1>6
<1> QED  BY <1>6, <1>8, <1>9

\* The sum of equations that hold does.
LEMMA SumHolds ==
  ASSUME NEW a \in Assignment, NEW xs \in SUBSET Equations, IsFiniteSet(xs),
         \A x \in xs : Holds(a, x)
  PROVE  \A t \in SUBSET xs : Sum(t) \in Equations /\ Holds(a, Sum(t))
<1> DEFINE S == {n \in Nat : \A t \in SUBSET xs : Cardinality(t) = n =>
                               Sum(t) \in Equations /\ Holds(a, Sum(t))}
<1>0. \A t \in SUBSET xs : IsFiniteSet(t) /\ Cardinality(t) \in Nat
  BY FS_Subset, FS_CardinalityType
<1>1. 0 \in S
  <2> SUFFICES ASSUME NEW t \in SUBSET xs, Cardinality(t) = 0
               PROVE  Sum(t) \in Equations /\ Holds(a, Sum(t))
    OBVIOUS
  <2>1. t = {}  BY <1>0, FS_EmptySet
  <2>2. Cardinality({}) = 0  BY FS_EmptySet
  <2>3. \A v : {y \in t : v \in y.vars} = {} /\ {y \in t : y.rhs} = {}  BY <2>1
  <2>4. Sum(t) = Xor({}, FALSE)
    <3>1. {v \in 1 .. NumVars : Cardinality({y \in t : v \in y.vars}) % 2 = 1} = {}
      <4> SUFFICES ASSUME NEW v \in 1 .. NumVars
                   PROVE  Cardinality({y \in t : v \in y.vars}) % 2 # 1
        OBVIOUS
      <4>1. Cardinality({y \in t : v \in y.vars}) = 0  BY <2>2, <2>3
      <4> QED  BY <4>1
    <3>2. (Cardinality({y \in t : y.rhs}) % 2 = 1) = FALSE  BY <2>2, <2>3
    <3> QED  BY <3>1, <3>2, Zenon DEF Sum
  <2>5. Sum(t) \in Equations /\ Sum(t).vars = {} /\ ~Sum(t).rhs
    <3> DEFINE x == Xor({}, FALSE)
    <3>1. x.vars = {} /\ x.rhs = FALSE  BY Zenon DEF Xor
    <3>2. x \in Equations  BY EquationIs
    <3>3. Sum(t) = x  BY <2>4
    <3> HIDE DEF x
    <3> QED  BY <3>1, <3>2, <3>3
  <2>6. {} \cap a = {}  OBVIOUS
  <2> QED  BY <2>2, <2>5, <2>6 DEF Holds
<1>2. ASSUME NEW n \in Nat, n \in S
      PROVE  n + 1 \in S
  <2> SUFFICES ASSUME NEW t \in SUBSET xs, Cardinality(t) = n + 1
               PROVE  Sum(t) \in Equations /\ Holds(a, Sum(t))
    OBVIOUS
  <2>1. t # {} /\ IsFiniteSet(t)  BY <1>0, FS_EmptySet
  <2>2. PICK x \in t : TRUE  BY <2>1
  <2> DEFINE u == t \ {x}
  <2>3. u \in SUBSET xs /\ Cardinality(u) = n
    <3>1. Cardinality(t \ {x}) = Cardinality(t) - 1  BY <2>1, <2>2, FS_RemoveElement
    <3>2. (n + 1) - 1 = n  OBVIOUS
    <3> QED  BY <3>1, <3>2
  <2>4. Holds(a, Sum(u)) /\ Holds(a, x)  BY <1>2, <2>3
  <2>5. /\ Sum(t) \in Equations /\ Sum(u) \in Equations
        /\ Sum(t).vars = Difference(Sum(u).vars, x.vars)
        /\ Sum(t).rhs <=> ~(Sum(u).rhs <=> x.rhs)
    <3>1. t \in SUBSET Equations  OBVIOUS
    <3> HIDE DEF u, S
    <3>2. u = t \ {x}  BY DEF u
    <3> QED  BY <2>1, <2>2, <3>1, <3>2, OneMore
  <2> DEFINE A == Sum(u).vars \cap a
             B == x.vars \cap a
  <2>6. Sum(t).vars \cap a = Difference(A, B)  BY <2>5 DEF Difference
  <2>7. IsFiniteSet(A) /\ IsFiniteSet(B)
    <3>1. A \in SUBSET (1 .. NumVars) /\ B \in SUBSET (1 .. NumVars)  BY <2>5, EquationIs
    <3> HIDE DEF A, B
    <3> QED  BY <3>1, FinitelyManyEquations
  <2>8. /\ Sum(u).rhs <=> Cardinality(A) % 2 = 1
        /\ x.rhs <=> Cardinality(B) % 2 = 1
    BY <2>4 DEF Holds
  <2> HIDE DEF A, B, S, u
  <2>9. Cardinality(Difference(A, B)) % 2 = 1 <=>
          ~(Cardinality(A) % 2 = 1 <=> Cardinality(B) % 2 = 1)
    BY <2>7, ParityOfDifference
  <2>10. Sum(t).rhs <=> Cardinality(Difference(A, B)) % 2 = 1  BY <2>5, <2>8, <2>9
  <2> QED  BY <2>5, <2>6, <2>10 DEF Holds
<1>3. Nat \subseteq S
  <2> HIDE DEF S
  <2> QED  BY <1>1, <1>2, Induction
<1> QED  BY <1>0, <1>3

-----------------------------------------------------------------------------

\* The exclusive ors that are found hold in every model.
LEMMA XorsHold ==
  ASSUME SoundInv, ok, NEW a \in Models
  PROVE  \A x \in Xors(irredundant) : Holds(a, x)
<1> SUFFICES ASSUME NEW x \in Xors(irredundant) PROVE Holds(a, x)  OBVIOUS
<1>1. a \in Assignment /\ \A c \in irredundant : c \cap a # {}  BY Known
<1>2. x \in Equations  BY FinitelyManyEquations
<1>3. ClausesOf(x) \subseteq irredundant /\ Cardinality(x.vars) \in 3 .. 6  BY DEF Xors
<1>4. x.vars # {}
  <2>1. Cardinality({}) = 0  BY FS_EmptySet
  <2> QED  BY <1>3, <2>1
<1> QED  BY <1>1, <1>2, <1>3, <1>4, ClausesMakeEquation

\* Gaussian elimination.
LEMMA GaussElimSound ==
  ASSUME SoundInv, ok, UNCHANGED inputVars, GaussElim
  PROVE  SoundInv'
<1> DEFINE xs == Xors(irredundant)
           systems == {s \in Components(xs) : Cardinality(s) > 1}
           equations == UNION {Echelon(s) : s \in systems}
           short == {y \in equations : Cardinality(y.vars) <= 2}
           clauses == UNION {ClausesOf(x) : x \in short}
           units == UNION {c \in clauses : Cardinality(c) = 1}
           lits == (fixed \ Complement(units)) \cup units
<1>1. /\ Models \in SUBSET Assignment /\ fixed \in SUBSET Literal
      /\ irredundant \in SUBSET Proper /\ redundant \in SUBSET Proper
      /\ formula \in Seq(Clauses) /\ loaded \in Nat
      /\ \A a \in Models : /\ \A c \in irredundant : c \cap a # {}
                           /\ \A c \in redundant : c \cap a # {}
                           /\ fixed \subseteq a
  BY Known
<1>2. xs \in SUBSET Equations /\ IsFiniteSet(xs)  BY FinitelyManyEquations
<1>3. \A s \in systems : s \in SUBSET xs  BY DEF Components
<1>4. ASSUME NEW a \in Models, NEW s \in systems, NEW t \in SUBSET s
      PROVE  Sum(t) \in Equations /\ Holds(a, Sum(t))
  <2>1. t \in SUBSET xs  BY <1>3
  <2>2. \A x \in xs : Holds(a, x)  BY XorsHold
  <2>3. a \in Assignment  BY <1>1
  <2> HIDE DEF xs, systems
  <2> QED  BY <1>2, <2>1, <2>2, <2>3, SumHolds
<1>5. /\ formula' = formula /\ loaded' = loaded /\ UNCHANGED <<formula, loaded>>
  BY DEF inputVars
<1>6. \/ /\ \E s \in systems : \E t \in SUBSET s : Sum(t) = Xor({}, TRUE)
         /\ ok' = FALSE /\ UNCHANGED clauseVars
      \/ Settle(irredundant \cup clauses, redundant, lits)
  BY DEF GaussElim
<1>7. CASE /\ \E s \in systems : \E t \in SUBSET s : Sum(t) = Xor({}, TRUE)
           /\ ok' = FALSE /\ UNCHANGED clauseVars
  <2>1. PICK s \in systems : \E t \in SUBSET s : Sum(t) = Xor({}, TRUE)  BY <1>7
  <2>2. PICK t \in SUBSET s : Sum(t) = Xor({}, TRUE)  BY <2>1
  <2>3. ASSUME NEW a \in Models PROVE FALSE
    <3> DEFINE x == Xor({}, TRUE)
    <3>1. Holds(a, x)  BY <1>4, <2>2
    <3>2. x.vars = {} /\ x.rhs = TRUE  BY Zenon DEF Xor
    <3>3. Cardinality({}) = 0 /\ {} \cap a = {}  BY FS_EmptySet
    <3> HIDE DEF x
    <3> QED  BY <3>1, <3>2, <3>3 DEF Holds
  <2>4. Models = {}  BY <2>3
  <2>5. irredundant' = irredundant /\ redundant' = redundant /\ fixed' = fixed
    BY <1>7 DEF clauseVars
  <2> QED  BY <1>1, <1>5, <1>7, <2>4, <2>5, SoundIs
<1>8. CASE Settle(irredundant \cup clauses, redundant, lits)
  <2>1. ASSUME NEW c \in clauses
        PROVE  c \in Proper /\ \A a \in Models : c \cap a # {}
    <3>1. PICK x \in short : c \in ClausesOf(x)  OBVIOUS
    <3>2. PICK s \in systems : x \in Echelon(s)  OBVIOUS
    <3>3. PICK t \in SUBSET s : x = Sum(t)  BY <3>2 DEF Echelon
    <3>4. c \in Proper  BY <3>1 DEF ClausesOf, Clauses, Proper
    <3>5. ASSUME NEW a \in Models PROVE c \cap a # {}
      <4>1. x \in Equations /\ Holds(a, x) /\ a \in Assignment  BY <1>1, <1>4, <3>3
      <4> QED  BY <3>1, <4>1, EquationMakesClauses
    <3> QED  BY <3>4, <3>5
  <2>2. units \in SUBSET Literal
    <3> HIDE DEF clauses
    <3> QED  BY <2>1 DEF Proper
  <2>3. ASSUME NEW a \in Models PROVE units \subseteq a
    <3> SUFFICES ASSUME NEW c \in clauses, Cardinality(c) = 1, NEW l \in c PROVE l \in a
      <4> HIDE DEF clauses
      <4> QED  OBVIOUS
    <3>1. c \cap a # {} /\ c \in SUBSET Literal
      <4> HIDE DEF clauses
      <4> QED  BY <2>1 DEF Proper
    <3>2. IsFiniteSet(c)
      <4>1. IsFiniteSet(-NumVars .. NumVars)
        <5>1. -NumVars \in Int /\ NumVars \in Int  BY NumVarsAssumption
        <5> QED  BY <5>1, FS_Interval
      <4>2. c \in SUBSET (-NumVars .. NumVars)  BY <3>1 DEF Literal
      <4> QED  BY <4>1, <4>2, FS_Subset
    <3>3. PICK k : c = {k}  BY <3>2, FS_Singleton
    <3> QED  BY <3>1, <3>3
  <2> HIDE DEF clauses, units
  <2>4. Sound(irredundant \cup clauses, redundant, lits)
    <3>1. irredundant \cup clauses \in SUBSET Proper  BY <1>1, <2>1
    <3>2. lits \in SUBSET Literal  BY <1>1, <2>2
    <3>3. ASSUME NEW a \in Models
          PROVE  /\ \A c \in irredundant \cup clauses : c \cap a # {}
                 /\ \A c \in redundant : c \cap a # {}
                 /\ lits \subseteq a
      BY <1>1, <2>1, <2>3
    <3> QED  BY <1>1, <3>1, <3>2, <3>3 DEF Sound
  <2> HIDE DEF lits
  <2> QED  BY <1>5, <1>8, <2>4, SettleSound
<1> QED  BY <1>6, <1>7, <1>8

\* MapleCOMSPS does so once before the elimination of variables,
LEMMA FirstGaussElimSound ==
  ASSUME SoundInv, FirstGaussElim PROVE SoundInv'
BY GaussElimSound DEF FirstGaussElim

\* and perhaps once after it.
LEMMA SecondChanceSound ==
  ASSUME SoundInv, SecondChance PROVE SoundInv'
<1>1. ok /\ UNCHANGED inputVars  BY DEF SecondChance
<1>2. CASE GaussElim  BY <1>1, <1>2, GaussElimSound
<1>3. CASE UNCHANGED <<clauseVars, ok, xorsFound>>
  BY <1>1, <1>3, SameClauses
<1> QED  BY <1>2, <1>3 DEF SecondChance

-----------------------------------------------------------------------------
(* All steps                                                               *)

\* A step of the preprocessing keeps the invariant.
LEMMA PreprocessingSound == ASSUME SoundInv, PreprocessingNext PROVE SoundInv'
<1>1. CASE FirstGaussElim  BY <1>1, FirstGaussElimSound
<1>2. CASE BackwardSubsume \/ StrengthenClause \/ EndSubsumption \/ EndElimination
  BY <1>2, SubsumptionSound
<1>3. CASE \E v \in 1 .. NumVars : EliminateVar(v)  BY <1>3, EliminateVarSound
<1>4. CASE SecondChance  BY <1>4, SecondChanceSound
<1> QED  BY <1>1, <1>2, <1>3, <1>4 DEF PreprocessingNext

\* So does a step of Kissat's inprocessing.
LEMMA InprocessingSound == ASSUME SoundInv, KissatNext PROVE SoundInv'
<1>1. CASE \E v \in 1 .. NumVars : Eliminate(v) \/ LearnUnitResolvent(v)
  BY <1>1, EliminateSound, LearnUnitResolventSound
<1>2. CASE \E lit \in Literal : \/ LearnDefinedUnit(lit) \/ ResolveBinaries(lit)
                                \/ FailedLiteral(lit) \/ Backbone(lit)
  BY <1>2, LearnDefinedUnitSound, ResolveBinariesSound, FailedLiteralSound
<1>3. CASE Subsume \/ Strengthen  BY <1>3, SubsumptionSound
<1>4. CASE SubstituteRound  BY <1>4, SubstituteRoundSound
<1>5. CASE ResolveTernary  BY <1>5, ResolveTernarySound
<1>6. CASE VivifyShorten  BY <1>6, VivifyShortenSound
<1>7. CASE \E dom, lit \in Literal : HyperBinary(dom, lit)  BY <1>7, HyperBinarySound
<1>8. CASE VivifyRemove \/ TransitiveReduce \/ Autarky  BY <1>8, RemovalSound
<1> QED  BY <1>1, <1>2, <1>3, <1>4, <1>5, <1>6, <1>7, <1>8 DEF KissatNext

\* A step of any kind keeps the invariant.
LEMMA StepSound == ASSUME SoundInv, [Next]_vars PROVE SoundInv'
<1>1. CASE AddClause  BY <1>1, AddClauseSound
<1>2. CASE FinishLoading  BY <1>2, FinishLoadingSound
<1>3. CASE PreprocessingNext  BY <1>3, PreprocessingSound
<1>4. CASE KissatNext  BY <1>4, InprocessingSound
<1>5. CASE \E c \in Arriving : Implies(Input, c) /\
             (AddImportedClause(c) \/ IgnoreImportedClause(c))
  BY <1>5, ImportSound
<1>6. CASE Reduce  BY <1>6, ReduceSound
<1>7. CASE Ready \/ UNCHANGED vars
  <2>1. UNCHANGED <<inputVars, clauseVars, ok>>  BY <1>7 DEF Ready, vars
  <2> QED  BY <2>1, SameClauses
<1> QED  BY <1>1, <1>2, <1>3, <1>4, <1>5, <1>6, <1>7 DEF Next

\* Whatever has been simplified, everything a solver keeps and offers follows from the
\* formula.
THEOREM SoundnessInvariant == Spec => []SoundInv
<1>1. Init => SoundInv  BY InitSound
<1>2. SoundInv /\ [Next]_vars => SoundInv'  BY StepSound
<1> QED  BY <1>1, <1>2, PTL DEF Spec

\* ImportsAreSound, for formulas of any size and any number of variables.
THEOREM ImportsSound == Spec => []ImportsAreSound
<1>1. SoundInv => ImportsAreSound  BY DEF SoundInv
<1> QED  BY <1>1, SoundnessInvariant, PTL

-----------------------------------------------------------------------------
(* Variables in order                                                      *)

\* A sequence of the variables in increasing order.
IsIncreasing(s, vs) ==
  /\ s \in [1 .. Cardinality(vs) -> vs]
  /\ \A i, j \in DOMAIN s : i < j => s[i] < s[j]

\* There is one.
LEMMA IncreasingExists ==
  \A vs \in SUBSET (1 .. NumVars) : \E s : IsIncreasing(s, vs)
<1> DEFINE S == {n \in Nat : \A vs \in SUBSET (1 .. n) : \E s : IsIncreasing(s, vs)}
<1>1. 0 \in S
  <2> SUFFICES ASSUME NEW vs \in SUBSET (1 .. 0) PROVE \E s : IsIncreasing(s, vs)
    OBVIOUS
  <2>1. vs = {} /\ Cardinality({}) = 0  BY FS_EmptySet
  <2>2. Cardinality(vs) = 0  BY <2>1
  <2> DEFINE s == [i \in 1 .. 0 |-> i]
  <2>3. DOMAIN s = {} /\ s \in [1 .. 0 -> vs]  BY <2>1
  <2> HIDE DEF s
  <2> QED  BY <2>2, <2>3 DEF IsIncreasing
<1>2. ASSUME NEW n \in Nat, n \in S
      PROVE  n + 1 \in S
  <2> SUFFICES ASSUME NEW vs \in SUBSET (1 .. n + 1) PROVE \E s : IsIncreasing(s, vs)
    OBVIOUS
  <2>1. CASE n + 1 \notin vs
    <3>1. vs \in SUBSET (1 .. n)  BY <2>1
    <3> QED  BY <1>2, <3>1
  <2>2. CASE n + 1 \in vs
    <3> DEFINE ws == vs \ {n + 1}
               m == Cardinality(ws)
    <3>1. ws \in SUBSET (1 .. n)  OBVIOUS
    <3>2. PICK t : IsIncreasing(t, ws)
      <4> HIDE DEF ws
      <4> QED  BY <1>2, <3>1
    <3>3. IsFiniteSet(vs) /\ m \in Nat /\ Cardinality(vs) = m + 1
      <4>1. IsFiniteSet(1 .. n + 1)  BY FS_Interval
      <4>2. IsFiniteSet(vs)  BY <4>1, FS_Subset
      <4>3. IsFiniteSet(ws) /\ m = Cardinality(vs) - 1  BY <2>2, <4>2, FS_RemoveElement
      <4> HIDE DEF ws
      <4>4. m \in Nat /\ Cardinality(vs) \in Nat  BY <4>2, <4>3, FS_CardinalityType
      <4> HIDE DEF m
      <4> QED  BY <4>2, <4>3, <4>4
    <3> DEFINE s == [i \in 1 .. m + 1 |-> IF i = m + 1 THEN n + 1 ELSE t[i]]
    <3>4. /\ t \in [1 .. m -> ws]
          /\ \A i, j \in 1 .. m : i < j => t[i] < t[j]
      BY <3>2 DEF IsIncreasing
    <3>5. \A i \in 1 .. m : t[i] \in vs /\ t[i] \in 1 .. n
      <4>1. \A w \in ws : w \in vs /\ w \in 1 .. n  OBVIOUS
      <4> HIDE DEF ws, m
      <4> QED  BY <3>4, <4>1
    <3> HIDE DEF m
    <3>6. /\ \A i \in 1 .. m + 1 : i # m + 1 => i \in 1 .. m
          /\ m + 1 \in 1 .. m + 1
      BY <3>3
    <3>7. s \in [1 .. m + 1 -> vs]  BY <2>2, <3>5, <3>6
    <3>8. ASSUME NEW i \in 1 .. m + 1, NEW j \in 1 .. m + 1, i < j
          PROVE  s[i] < s[j]
      <4>1. i # m + 1 /\ i \in 1 .. m /\ s[i] = t[i]  BY <3>3, <3>6, <3>8
      <4>2. CASE j = m + 1
        <5>1. s[j] = n + 1  BY <4>2
        <5> QED  BY <3>5, <4>1, <5>1
      <4>3. CASE j # m + 1
        <5>1. j \in 1 .. m /\ s[j] = t[j]  BY <3>6, <4>3
        <5> QED  BY <3>4, <3>8, <4>1, <5>1
      <4> QED  BY <4>2, <4>3
    <3>9. DOMAIN s = 1 .. m + 1  OBVIOUS
    <3> HIDE DEF s
    <3> QED  BY <3>3, <3>7, <3>8, <3>9 DEF IsIncreasing
  <2> QED  BY <2>1, <2>2
<1>3. Nat \subseteq S
  <2> HIDE DEF S
  <2> QED  BY <1>1, <1>2, Induction
<1> QED  BY <1>3, NumVarsAssumption

\* It is a sequence of all of these variables.
LEMMA IncreasingIs ==
  ASSUME NEW vs \in SUBSET (1 .. NumVars)
  PROVE  Increasing(vs) \in Seq(1 .. NumVars) /\ ToSet(Increasing(vs)) = vs
<1> DEFINE s == Increasing(vs)
           n == Cardinality(vs)
<1>1. IsIncreasing(s, vs)
  <2>1. \E t \in [1 .. n -> vs] : \A i, j \in DOMAIN t : i < j => t[i] < t[j]
    BY IncreasingExists DEF IsIncreasing
  <2>2. s = CHOOSE t \in [1 .. n -> vs] : \A i, j \in DOMAIN t : i < j => t[i] < t[j]
    BY DEF Increasing
  <2> HIDE DEF s, n
  <2>3. s \in [1 .. n -> vs] /\ \A i, j \in DOMAIN s : i < j => s[i] < s[j]
    BY <2>1, <2>2
  <2> QED  BY <2>3 DEF IsIncreasing, n
<1> HIDE DEF s
<1>2. IsFiniteSet(vs) /\ n \in Nat  BY FinitelyManyEquations
<1>3. s \in [1 .. n -> vs] /\ \A i, j \in 1 .. n : i < j => s[i] < s[j]
  BY <1>1 DEF IsIncreasing
<1>4. s \in Injection(1 .. n, vs)
  <2>1. ASSUME NEW i \in 1 .. n, NEW j \in 1 .. n, s[i] = s[j] PROVE i = j
    <3>1. s[i] \in Nat /\ s[j] \in Nat
      <4>1. s[i] \in vs /\ s[j] \in vs  BY <1>3
      <4>2. \A v \in vs : v \in Nat  BY NumVarsAssumption
      <4> QED  BY <4>1, <4>2
    <3>2. ~(i < j) /\ ~(j < i)  BY <1>3, <2>1, <3>1
    <3> QED  BY <1>2, <3>2
  <2> HIDE DEF n
  <2> QED  BY <1>3, <2>1 DEF Injection, IsInjective
<1>5. Cardinality(1 .. n) = n
  <2>1. 1 \in Int /\ n \in Int  BY <1>2
  <2> HIDE DEF n
  <2> QED  BY <1>2, <2>1, FS_Interval
<1>6. s \in Surjection(1 .. n, vs)
  <2>1. Cardinality(1 .. n) = Cardinality(vs)  BY <1>5
  <2> HIDE DEF n
  <2> QED  BY <1>2, <1>4, <2>1, FS_Injection
<1>7. s \in Seq(1 .. NumVars)
  <2> DEFINE V == 1 .. NumVars
  <2>1. vs \subseteq V  OBVIOUS
  <2> HIDE DEF V, n
  <2>2. s \in [1 .. n -> V]  BY <1>3, <2>1
  <2>3. s \in Seq(V)  BY <1>2, <2>2
  <2> QED  BY <2>3 DEF V
<1>8. ToSet(s) = vs
  <2>1. DOMAIN s = 1 .. n  BY <1>3
  <2>2. \A v \in vs : \E i \in 1 .. n : s[i] = v  BY <1>6 DEF Surjection
  <2>3. \A i \in 1 .. n : s[i] \in vs  BY <1>3
  <2> HIDE DEF n
  <2> QED  BY <2>1, <2>2, <2>3 DEF ToSet
<1> QED  BY <1>7, <1>8 DEF s

-----------------------------------------------------------------------------
(* What literals reach                                                     *)

\* Sets of literals are finite, of at most 2 * NumVars literals.
LEMMA FinitelyManyLiterals ==
  \A s \in SUBSET Literal : /\ IsFiniteSet(s) /\ Cardinality(s) \in Nat
                            /\ Cardinality(s) <= 2 * NumVars
<1>1. IsFiniteSet(Literal) /\ Cardinality(Literal) = 2 * NumVars
  <2> DEFINE I == -NumVars .. NumVars
  <2>1. -NumVars \in Int /\ NumVars \in Int /\ ~(-NumVars > NumVars)
    BY NumVarsAssumption
  <2>2. IsFiniteSet(I) /\ Cardinality(I) = NumVars - (-NumVars) + 1
    BY <2>1, FS_Interval
  <2>3. 0 \in I /\ Literal = I \ {0}  BY NumVarsAssumption DEF Literal
  <2> HIDE DEF I
  <2>4. IsFiniteSet(Literal) /\ Cardinality(Literal) = Cardinality(I) - 1
    BY <2>2, <2>3, FS_RemoveElement
  <2> QED  BY <2>1, <2>2, <2>4, NumVarsAssumption
<1> QED  BY <1>1, FS_Subset, FS_CardinalityType

\* The set of the reached literals is closed, and the smallest such set.
LEMMA ReachedClosed ==
  ASSUME NEW lit \in Literal
  PROVE  /\ Reached(lit) \in SUBSET Literal /\ lit \in Reached(lit)
         /\ NextReached(Reached(lit)) \subseteq Reached(lit)
         /\ \A s : lit \in s /\ NextReached(s) \subseteq s => Reached(lit) \subseteq s
<1>0. PICK g : IsReach(g, lit)  BY ReachedIs
<1> DEFINE N == 2 * NumVars
<1>1. /\ g \in [0 .. N -> SUBSET Literal]
      /\ Reached(lit) = g[N]
      /\ g[0] = {lit}
      /\ \A k \in 1 .. N : g[k] = g[k - 1] \cup NextReached(g[k - 1])
  BY <1>0 DEF IsReach
<1>2. 0 \in Nat /\ N \in Nat /\ N \in 0 .. N /\ 0 \in 0 .. N
  BY NumVarsAssumption
<1>a. \A s \in SUBSET Literal : IsFiniteSet(s) /\ Cardinality(s) \in Nat /\ Cardinality(s) <= N
  BY FinitelyManyLiterals
<1> HIDE DEF N
<1>3. lit \in g[N]
  <2> DEFINE S == {k \in 0 .. N : lit \in g[k]}
  <2>1. 0 \in S  BY <1>1, <1>2
  <2>2. ASSUME NEW k \in 0 + 1 .. N, k - 1 \in S PROVE k \in S
    <3>1. k \in 1 .. N /\ k \in 0 .. N /\ lit \in g[k - 1]  BY <1>2, <2>2
    <3>2. g[k] = g[k - 1] \cup NextReached(g[k - 1])  BY <1>1, <3>1
    <3> QED  BY <3>1, <3>2
  <2>3. 0 .. N \subseteq S
    <3> HIDE DEF S
    <3> QED  BY <1>2, <2>1, <2>2, RangeInduction
  <2> QED  BY <1>2, <2>3
<1>4. ASSUME NEW s, lit \in s, NextReached(s) \subseteq s
      PROVE  g[N] \subseteq s
  <2> DEFINE S == {k \in 0 .. N : g[k] \subseteq s}
  <2>1. 0 \in S  BY <1>1, <1>2, <1>4
  <2>2. ASSUME NEW k \in 0 + 1 .. N, k - 1 \in S PROVE k \in S
    <3>1. k - 1 \in 0 .. N /\ k \in 1 .. N /\ k \in 0 .. N /\ g[k - 1] \subseteq s
      BY <1>2, <2>2
    <3>2. NextReached(g[k - 1]) \subseteq NextReached(s)  BY <3>1 DEF NextReached
    <3>3. g[k] = g[k - 1] \cup NextReached(g[k - 1])  BY <1>1, <3>1
    <3> QED  BY <1>4, <3>1, <3>2, <3>3
  <2>3. 0 .. N \subseteq S
    <3> HIDE DEF S
    <3> QED  BY <1>2, <2>1, <2>2, RangeInduction
  <2> QED  BY <1>2, <2>3
<1>5. NextReached(g[N]) \subseteq g[N]
  <2> DEFINE Closed(k) == NextReached(g[k]) \subseteq g[k]
             S == {k \in 0 .. N : Closed(k) \/ Cardinality(g[k]) >= k + 1}
  <2>1. 0 \in S
    <3>1. Cardinality(g[0]) = 1  BY <1>1, FS_Singleton
    <3> QED  BY <1>2, <3>1
  <2>2. ASSUME NEW k \in 0 + 1 .. N, k - 1 \in S PROVE k \in S
    <3>1. /\ k - 1 \in 0 .. N /\ k \in 1 .. N /\ k \in 0 .. N
          /\ Closed(k - 1) \/ Cardinality(g[k - 1]) >= (k - 1) + 1
      BY <1>2, <2>2
    <3>2. g[k] = g[k - 1] \cup NextReached(g[k - 1])  BY <1>1, <3>1
    <3>3. CASE Closed(k - 1)
      <4>1. g[k] = g[k - 1]  BY <3>2, <3>3
      <4>2. Closed(k)  BY <3>3, <4>1
      <4> QED  BY <3>1, <4>2
    <3>4. CASE ~Closed(k - 1) /\ Cardinality(g[k - 1]) >= (k - 1) + 1
      <4> HIDE DEF S
      <4>1. g[k - 1] \in SUBSET Literal /\ g[k] \in SUBSET Literal  BY <1>1, <3>1
      <4>2. /\ IsFiniteSet(g[k]) /\ Cardinality(g[k]) \in Nat
            /\ Cardinality(g[k - 1]) \in Nat
        BY <1>a, <4>1
      <4>3. g[k - 1] \in SUBSET g[k] /\ g[k - 1] # g[k]  BY <3>2, <3>4
      <4> HIDE DEF Closed
      <4>4. /\ Cardinality(g[k - 1]) <= Cardinality(g[k])
            /\ Cardinality(g[k - 1]) # Cardinality(g[k])
        BY <4>2, <4>3, FS_Subset
      <4>5. Cardinality(g[k]) >= k + 1  BY <3>1, <3>4, <4>2, <4>4
      <4> QED  BY <3>1, <4>5 DEF S
    <3> QED  BY <3>1, <3>3, <3>4
  <2>3. 0 .. N \subseteq S
    <3> HIDE DEF S
    <3> QED  BY <1>2, <2>1, <2>2, RangeInduction
  <2>4. Closed(N) \/ Cardinality(g[N]) >= N + 1  BY <1>2, <2>3
  <2>5. g[N] \in SUBSET Literal  BY <1>1, <1>2
  <2>6. Cardinality(g[N]) \in Nat /\ Cardinality(g[N]) <= N  BY <1>a, <2>5
  <2> HIDE DEF Closed
  <2>7. Closed(N)  BY <1>2, <2>4, <2>6
  <2> QED  BY <2>7 DEF Closed
<1> QED  BY <1>1, <1>2, <1>3, <1>4, <1>5

\* Reaching is transitive, and the complements reach each other the other way round.
LEMMA ReachedBack ==
  ASSUME NEW l \in Literal, NEW k \in Reached(l)
  PROVE  k \in Literal /\ Reached(k) \subseteq Reached(l) /\ -l \in Reached(-k)
<1>1. k \in Literal /\ -l \in Literal /\ -k \in Literal  BY ReachedClosed, Literals
<1>2. Reached(k) \subseteq Reached(l)  BY <1>1, ReachedClosed
<1>3. -l \in Reached(-k)
  <2> DEFINE s == {m \in Literal : -l \in Reached(-m)}
  <2>1. l \in s  BY <1>1, ReachedClosed
  <2>2. ASSUME NEW n \in NextReached(s) PROVE n \in s
    <3>1. PICK m \in s : {-m, n} \in Binaries(irredundant \cup redundant)
      BY DEF NextReached
    <3>2. n \in Literal /\ m \in Literal /\ -m \in Literal /\ -n \in Literal /\ -(-n) = n
      BY Literals DEF NextReached
    <3>3. -m \in NextReached({-n})
      <4>1. {-(-n), -m} = {-m, n}  BY <3>2
      <4> QED  BY <3>1, <3>2, <4>1 DEF NextReached
    <3>4. NextReached({-n}) \subseteq NextReached(Reached(-n))
      BY <3>2, ReachedClosed DEF NextReached
    <3>5. -m \in Reached(-n)  BY <3>2, <3>3, <3>4, ReachedClosed
    <3>6. Reached(-m) \subseteq Reached(-n)  BY <3>2, <3>5, ReachedClosed
    <3> QED  BY <3>2, <3>6
  <2>3. Reached(l) \subseteq s
    <3> HIDE DEF s
    <3> QED  BY <2>1, <2>2, ReachedClosed
  <2> QED  BY <2>3
<1> QED  BY <1>1, <1>2, <1>3

\* The literals that reach lit and that it reaches.
Same(lit) == {l \in Reached(lit) : lit \in Reached(l)}

\* The representative is one of them, of the smallest variable; it is the same for all
\* of them.
LEMMA RepresentativeIs ==
  ASSUME NEW lit \in Literal
  PROVE  /\ Same(lit) \in SUBSET Literal /\ lit \in Same(lit)
         /\ Representative(lit) \in Same(lit)
         /\ \A k \in Same(lit) : Var(Representative(lit)) <= Var(k)
         /\ \A k \in Same(lit) : Same(k) = Same(lit) /\ Representative(k) = Representative(lit)
<1>1. Same(lit) \in SUBSET Literal /\ lit \in Same(lit)  BY ReachedClosed DEF Same
<1>2. \E l \in Same(lit) : \A k \in Same(lit) : Var(l) <= Var(k)
  <2> DEFINE V == {Var(l) : l \in Same(lit)}
  <2>1. V \in SUBSET Nat /\ V # {}  BY <1>1, Literals, NumVarsAssumption
  <2>2. PICK n \in V : \A m \in V : n <= m
    <3> HIDE DEF V
    <3> QED  BY <2>1, Least
  <2> QED  BY <2>2
<1>3. \A x : Representative(x) =
               CHOOSE l \in Same(x) : \A k \in Same(x) : Var(l) <= Var(k)
  BY DEF Representative, Same
<1>4. /\ Representative(lit) \in Same(lit)
      /\ \A k \in Same(lit) : Var(Representative(lit)) <= Var(k)
  <2>1. Representative(lit) =
               CHOOSE l \in Same(lit) : \A k \in Same(lit) : Var(l) <= Var(k)
    BY <1>3
  <2> QED  BY <1>2, <2>1
<1>5. ASSUME NEW k \in Same(lit)
      PROVE  Same(k) = Same(lit) /\ Representative(k) = Representative(lit)
  <2>1. k \in Reached(lit) /\ lit \in Reached(k) /\ k \in Literal  BY <1>1 DEF Same
  <2>2. Reached(k) = Reached(lit)  BY <2>1, ReachedBack
  <2>3. \A m \in Reached(lit) : k \in Reached(m) <=> lit \in Reached(m)
    <3> SUFFICES ASSUME NEW m \in Reached(lit)
                 PROVE  k \in Reached(m) <=> lit \in Reached(m)
      OBVIOUS
    <3>1. m \in Literal  BY ReachedBack
    <3>2. k \in Reached(m) => Reached(k) \subseteq Reached(m)  BY <3>1, ReachedBack
    <3>3. lit \in Reached(m) => Reached(lit) \subseteq Reached(m)  BY <3>1, ReachedBack
    <3> QED  BY <2>1, <3>2, <3>3
  <2>4. Same(k) = Same(lit)  BY <2>2, <2>3 DEF Same
  <2> QED  BY <1>3, <2>4
<1> QED  BY <1>1, <1>4, <1>5

\* The variable of a representative is not replaced, unless a literal is the same as
\* its complement.
LEMMA RepresentativeStays ==
  ASSUME NEW lit \in Literal, NEW v, v = Var(Representative(lit)), Active(v),
         \A l \in FailedRoots : -l \notin Reached(l) \/ l \notin Reached(-l)
  PROVE  Representative(v) = v
<1> DEFINE r == Representative(lit)
           q == Representative(v)
<1>1. r \in Same(lit) /\ r \in Literal /\ Same(r) = Same(lit) /\ Representative(r) = r
      /\ \A k \in Same(r) : Var(r) <= Var(k)
  BY RepresentativeIs
<1> HIDE DEF r
<1>2. v \in Literal /\ -v \in Literal /\ v \in 1 .. NumVars /\ (v = r \/ (v = -r /\ -v = r))
      /\ Var(v) = v
  <2>1. v = Var(r)  BY DEF r
  <2> QED  BY <1>1, <2>1, Literals, NumVarsAssumption DEF Var, Literal
<1>3. CASE v = r  BY <1>1, <1>3
<1>4. CASE v = -r /\ -v = r
  <2>1. q \in Same(v) /\ q \in Literal /\ v \in Same(v) /\ Var(q) <= Var(v)
    BY <1>2, RepresentativeIs
  <2> HIDE DEF q
  <2>2. q \in Reached(v) /\ v \in Reached(q)  BY <2>1 DEF Same
  <2>3. -v \in Reached(-q) /\ -q \in Reached(-v)  BY <1>2, <2>1, <2>2, ReachedBack
  <2>4. -q \in Same(r)  BY <1>4, <2>3 DEF Same
  <2>5. Var(r) <= Var(-q) /\ Var(-q) = Var(q) /\ Var(q) \in Nat /\ Var(r) = v
    BY <1>1, <1>2, <1>4, <2>1, <2>4, Literals, NumVarsAssumption DEF r
  <2>6. Var(q) = Var(v)  BY <1>2, <2>1, <2>5
  <2>7. q = v \/ q = -v  BY <1>2, <2>1, <2>6, Literals
  <2>8. ASSUME q = -v PROVE FALSE
    <3>1. -v \in Reached(v) /\ v \in Reached(-v) /\ v \in Reached(v)
      BY <1>2, <2>2, <2>8, ReachedClosed
    <3>2. v \in FailedRoots  BY <1>2, <3>1 DEF FailedRoots
    <3> QED  BY <3>1, <3>2
  <2> QED  BY <2>7, <2>8 DEF q
<1> QED  BY <1>2, <1>3, <1>4

-----------------------------------------------------------------------------
(* The second invariant                                                    *)

\* No literal of the clauses has one of these variables.
Out(cs, vs) == \A c \in cs : \A l \in c : Var(l) \notin vs

\* EliminatedStayOut, the types, and when nothing is eliminated yet.
OutInv ==
  /\ SoundInv
  /\ eliminated \in Seq(1 .. NumVars)
  /\ Out(irredundant, Eliminated)
  /\ solver = "Kissat" => /\ Out(redundant, Eliminated) /\ Out({fixed}, Eliminated)
                          /\ pc \in {"load", "search"}
  /\ pc = "load" => Eliminated = {}

\* Propagation adds only literals of the clauses.
LEMMA PropagatedFrom ==
  ASSUME NEW cs, NEW lits \in SUBSET Literal
  PROVE  \A l \in Propagated(cs, lits) : l \in lits \/ \E c \in cs : l \in c
<1>0. PICK g : IsPropagation(g, cs, lits)  BY PropagatedIs
<1>1. /\ Propagated(cs, lits) = g[NumVars]
      /\ g[0] = lits
      /\ \A k \in 1 .. NumVars : g[k] = g[k - 1] \cup Units(cs, g[k - 1])
  BY <1>0 DEF IsPropagation
<1>2. 0 \in Nat /\ NumVars \in Nat /\ NumVars \in 0 .. NumVars /\ 0 \in 0 .. NumVars
  BY NumVarsAssumption
<1> DEFINE From == {l \in Literal : l \in lits \/ \E c \in cs : l \in c}
           S == {k \in 0 .. NumVars : g[k] \subseteq From}
<1>3. 0 \in S  BY <1>1, <1>2
<1>4. ASSUME NEW k \in 0 + 1 .. NumVars, k - 1 \in S PROVE k \in S
  <2>1. k \in 1 .. NumVars /\ k \in 0 .. NumVars /\ g[k - 1] \subseteq From
    BY <1>2, <1>4
  <2>2. g[k] = g[k - 1] \cup Units(cs, g[k - 1])  BY <1>1, <2>1
  <2>3. Units(cs, g[k - 1]) \subseteq From  BY DEF Units
  <2> HIDE DEF From
  <2> QED  BY <2>1, <2>2, <2>3
<1>5. 0 .. NumVars \subseteq S
  <2> HIDE DEF S
  <2> QED  BY <1>2, <1>3, <1>4, RangeInduction
<1>6. g[NumVars] \subseteq From  BY <1>2, <1>5
<1> QED  BY <1>1, <1>6

\* What is settled has the variables it had.
LEMMA SettleOut ==
  ASSUME NEW irr, NEW red, NEW lits \in SUBSET Literal, NEW vs, Settle(irr, red, lits)
  PROVE  /\ Out(irr, vs) => Out(irredundant', vs)
         /\ Out(irr, vs) /\ Out(red, vs) /\ Out({lits}, vs) /\ Out({fixed}, vs)
              => Out(redundant', vs) /\ Out({fixed'}, vs)
<1> DEFINE all == Propagated(irr \cup red, lits)
<1>1. \A c \in irredundant' : \E d \in irr : c \subseteq d
  BY DEF Settle, Tidied
<1>2. \A c \in redundant' : \E d \in red : c \subseteq d
  BY DEF Settle, Tidied
<1>3. fixed' = fixed \/ fixed' = all
  BY DEF Settle
<1>4. \A l \in all : l \in lits \/ \E c \in irr \cup red : l \in c
  BY PropagatedFrom
<1> HIDE DEF all
<1>5. Out(irr, vs) => Out(irredundant', vs)  BY <1>1 DEF Out
<1>6. Out(red, vs) => Out(redundant', vs)  BY <1>2 DEF Out
<1>7. Out(irr, vs) /\ Out(red, vs) /\ Out({lits}, vs) => Out({all}, vs)
  BY <1>4 DEF Out
<1> QED  BY <1>3, <1>5, <1>6, <1>7

\* The elements of sequences.
LEMMA Elements ==
  ASSUME NEW S, NEW s \in Seq(S)
  PROVE  /\ ToSet(s) \in SUBSET S
         /\ \A e \in S : Append(s, e) \in Seq(S) /\ ToSet(Append(s, e)) = ToSet(s) \cup {e}
         /\ \A t \in Seq(S) : s \o t \in Seq(S) /\ ToSet(s \o t) = ToSet(s) \cup ToSet(t)
<1>1. ToSet(s) \in SUBSET S
  <2>1. \A i \in DOMAIN s : s[i] \in S  OBVIOUS
  <2> QED  BY <2>1 DEF ToSet
<1>2. Len(s) \in Nat /\ DOMAIN s = 1 .. Len(s)  OBVIOUS
<1>3. ASSUME NEW e \in S
      PROVE  Append(s, e) \in Seq(S) /\ ToSet(Append(s, e)) = ToSet(s) \cup {e}
  <2> DEFINE t == Append(s, e)
  <2>1. /\ t \in Seq(S) /\ DOMAIN t = 1 .. Len(s) + 1 /\ t[Len(s) + 1] = e
        /\ \A i \in 1 .. Len(s) : t[i] = s[i]
    OBVIOUS
  <2> HIDE DEF t
  <2>2. /\ \A i \in 1 .. Len(s) : i \in 1 .. Len(s) + 1
        /\ \A i \in 1 .. Len(s) + 1 : i \in 1 .. Len(s) \/ i = Len(s) + 1
        /\ Len(s) + 1 \in 1 .. Len(s) + 1
    BY <1>2
  <2>3. ToSet(t) = ToSet(s) \cup {e}  BY <1>2, <2>1, <2>2 DEF ToSet
  <2> QED  BY <2>1, <2>3 DEF t
<1>4. ASSUME NEW t \in Seq(S)
      PROVE  s \o t \in Seq(S) /\ ToSet(s \o t) = ToSet(s) \cup ToSet(t)
  <2> DEFINE u == s \o t
  <2>1. Len(t) \in Nat /\ DOMAIN t = 1 .. Len(t)  OBVIOUS
  <2>2. /\ u \in Seq(S) /\ DOMAIN u = 1 .. Len(s) + Len(t)
        /\ \A i \in 1 .. Len(s) : u[i] = s[i]
        /\ \A i \in 1 .. Len(t) : u[Len(s) + i] = t[i]
    OBVIOUS
  <2> HIDE DEF u
  <2>3. ToSet(s) \subseteq ToSet(u)
    <3>1. \A i \in 1 .. Len(s) : i \in 1 .. Len(s) + Len(t)  BY <1>2, <2>1
    <3> QED  BY <1>2, <2>2, <3>1 DEF ToSet
  <2>4. ToSet(t) \subseteq ToSet(u)
    <3>1. \A i \in 1 .. Len(t) : Len(s) + i \in 1 .. Len(s) + Len(t)  BY <1>2, <2>1
    <3> QED  BY <2>1, <2>2, <3>1 DEF ToSet
  <2>5. ASSUME NEW i \in 1 .. Len(s) + Len(t) PROVE u[i] \in ToSet(s) \cup ToSet(t)
    <3>1. CASE i <= Len(s)
      <4>1. i \in 1 .. Len(s)  BY <1>2, <3>1
      <4> QED  BY <1>2, <2>2, <4>1 DEF ToSet
    <3>2. CASE i > Len(s)
      <4>1. i - Len(s) \in 1 .. Len(t) /\ Len(s) + (i - Len(s)) = i  BY <1>2, <2>1, <3>2
      <4>2. u[i] = t[i - Len(s)]  BY <2>2, <4>1
      <4> QED  BY <2>1, <4>1, <4>2 DEF ToSet
    <3> QED  BY <1>2, <3>1, <3>2
  <2>6. ToSet(u) \subseteq ToSet(s) \cup ToSet(t)  BY <2>2, <2>5 DEF ToSet
  <2> QED  BY <2>2, <2>3, <2>4, <2>6 DEF u
<1> QED  BY <1>1, <1>3, <1>4

\* The parts of the invariant.
LEMMA OutKnown ==
  ASSUME OutInv
  PROVE  /\ irredundant \in SUBSET Proper /\ redundant \in SUBSET Proper
         /\ fixed \in SUBSET Literal
         /\ eliminated \in Seq(1 .. NumVars) /\ Eliminated \in SUBSET (1 .. NumVars)
         /\ Out(irredundant, Eliminated)
         /\ solver = "Kissat" => /\ Out(redundant, Eliminated) /\ Out({fixed}, Eliminated)
                                 /\ pc \in {"load", "search"}
         /\ pc = "load" => Eliminated = {}
<1>1. eliminated \in Seq(1 .. NumVars)  BY DEF OutInv
<1>2. Eliminated \in SUBSET (1 .. NumVars)  BY <1>1, Elements DEF Eliminated
<1> QED  BY <1>1, <1>2 DEF OutInv, SoundInv

\* The clauses change, and more may be eliminated.
LEMMA KeepOut ==
  ASSUME OutInv, SoundInv', solver' = solver, eliminated' \in Seq(1 .. NumVars),
         NEW irr, NEW red, NEW lits \in SUBSET Literal, Settle(irr, red, lits),
         Out(irr, Eliminated'),
         solver = "Kissat" => /\ Out(red, Eliminated') /\ Out({lits}, Eliminated')
                              /\ Out({fixed}, Eliminated') /\ pc' \in {"load", "search"},
         pc' # "load"
  PROVE  OutInv'
<1>1. Out(irredundant', Eliminated')  BY SettleOut
<1>2. solver = "Kissat" => Out(redundant', Eliminated') /\ Out({fixed'}, Eliminated')
  BY SettleOut
<1>3. Out(irredundant, Eliminated)'  BY <1>1 DEF Out
<1>4. solver = "Kissat" => Out(redundant, Eliminated)' /\ Out({fixed}, Eliminated)'
  BY <1>2 DEF Out
<1> QED  BY <1>3, <1>4 DEF OutInv

\* Only the clauses change, in Kissat.
LEMMA RootOut ==
  ASSUME OutInv, SoundInv', AtRoot, UNCHANGED <<inputVars, stackVars, phaseVars>>,
         NEW irr, NEW red, NEW more \in SUBSET Literal, Settle(irr, red, fixed \cup more),
         Out(irr, Eliminated), Out(red, Eliminated), Out({more}, Eliminated)
  PROVE  OutInv'
<1>1. /\ solver = "Kissat" /\ solver' = solver /\ pc' = "search" /\ eliminated' = eliminated
  BY DEF AtRoot, inputVars, stackVars, phaseVars
<1>2. Eliminated' = Eliminated  BY <1>1 DEF Eliminated
<1>3. eliminated' \in Seq(1 .. NumVars) /\ fixed \cup more \in SUBSET Literal
  BY <1>1, OutKnown
<1>4. Out({fixed \cup more}, Eliminated) /\ Out({fixed}, Eliminated)
  BY <1>1, OutKnown DEF Out
<1>5. /\ Out(irr, Eliminated') /\ Out(red, Eliminated') /\ Out({fixed \cup more}, Eliminated')
      /\ Out({fixed}, Eliminated')
  BY <1>2, <1>4
<1> QED  BY <1>1, <1>3, <1>5, KeepOut

\* A literal is learnt whose variable is not eliminated.
LEMMA UnitOut ==
  ASSUME OutInv, SoundInv', AtRoot, UNCHANGED <<inputVars, stackVars, phaseVars>>,
         NEW lit \in Literal, LearnUnit(lit), Var(lit) \notin Eliminated
  PROVE  OutInv'
<1>1. Settle(irredundant, redundant, fixed \cup {lit})  BY DEF LearnUnit
<1>2. Out({{lit}}, Eliminated)  BY DEF Out
<1>3. Out(irredundant, Eliminated) /\ Out(redundant, Eliminated)
  BY OutKnown DEF AtRoot
<1> QED  BY <1>1, <1>2, <1>3, RootOut

\* Clauses are removed, or nothing happens to them.
LEMMA FewerOut ==
  ASSUME OutInv, SoundInv', UNCHANGED <<solver, eliminated, fixed>>,
         irredundant' \subseteq irredundant, redundant' \subseteq redundant,
         pc' # "load" \/ pc' = pc,
         solver = "Kissat" => pc' \in {"load", "search"}
  PROVE  OutInv'
<1>1. Eliminated' = Eliminated  BY DEF Eliminated
<1>2. Out(irredundant, Eliminated)'  BY <1>1, OutKnown DEF Out
<1>3. solver = "Kissat" => Out(redundant, Eliminated)' /\ Out({fixed}, Eliminated)'
  BY <1>1, OutKnown DEF Out
<1>4. eliminated' \in Seq(1 .. NumVars) /\ (pc' = "load" => Eliminated' = {})
  BY <1>1, OutKnown
<1> QED  BY <1>2, <1>3, <1>4 DEF OutInv

\* While nothing is eliminated.
LEMMA NothingOut ==
  ASSUME SoundInv', eliminated' \in Seq(1 .. NumVars), Eliminated' = {},
         solver' = "Kissat" => pc' \in {"load", "search"}
  PROVE  OutInv'
<1>1. \A cs : Out(cs, {})  BY DEF Out
<1>2. Out(irredundant, Eliminated)' /\ Out(redundant, Eliminated)' /\ Out({fixed}, Eliminated)'
  BY DEF Out
<1> QED  BY <1>2 DEF OutInv

-----------------------------------------------------------------------------
(* Steps that eliminate nothing                                            *)

\* In the beginning nothing is eliminated.
LEMMA InitOut == ASSUME Init PROVE OutInv
<1>1. eliminated = << >> /\ pc = "load"  BY DEF Init
<1>2. Eliminated = {}  BY <1>1 DEF Eliminated, ToSet
<1>3. SoundInv  BY InitSound
<1>4. eliminated \in Seq(1 .. NumVars)  BY <1>1
<1> QED  BY <1>1, <1>2, <1>3, <1>4 DEF OutInv, Out

\* Nor is it while the formula is loaded.
LEMMA LoadOut ==
  ASSUME OutInv, SoundInv', AddClause \/ FinishLoading PROVE OutInv'
<1>1. /\ pc = "load" /\ eliminated' = eliminated /\ solver' = solver
      /\ solver' = "Kissat" => pc' \in {"load", "search"}
  BY DEF AddClause, FinishLoading, inputVars, stackVars, phaseVars
<1>2. Eliminated' = {} /\ eliminated' \in Seq(1 .. NumVars)
  BY <1>1, OutKnown DEF Eliminated
<1> QED  BY <1>1, <1>2, NothingOut

\* An imported clause; Kissat looks whether one of its variables is eliminated.
LEMMA ImportOut ==
  ASSUME OutInv, SoundInv', NEW c \in Arriving, AddImportedClause(c) \/ IgnoreImportedClause(c)
  PROVE  OutInv'
<1>1. /\ pc = "search" /\ pc' = pc /\ solver' = solver /\ eliminated' = eliminated
  BY DEF AddImportedClause, IgnoreImportedClause, inputVars, stackVars, phaseVars
<1>2. CASE AddImportedClause(c)
  <2>1. Settle(irredundant, redundant \cup {c}, fixed) /\ ~Useless(c)
    BY <1>2 DEF AddImportedClause
  <2>2. Eliminated' = Eliminated  BY <1>1 DEF Eliminated
  <2>3. solver = "Kissat" => Out(redundant \cup {c}, Eliminated)
    BY <2>1, OutKnown DEF Useless, Out
  <2>4. /\ Out(irredundant, Eliminated')
        /\ solver = "Kissat" => Out(redundant \cup {c}, Eliminated') /\ Out({fixed}, Eliminated')
    BY <2>2, <2>3, OutKnown
  <2>5. eliminated' \in Seq(1 .. NumVars) /\ fixed \in SUBSET Literal  BY <1>1, OutKnown
  <2> QED  BY <1>1, <2>1, <2>4, <2>5, KeepOut
<1>3. CASE IgnoreImportedClause(c)
  <2>1. UNCHANGED <<irredundant, redundant, fixed>>
    BY <1>3 DEF IgnoreImportedClause, clauseVars
  <2> QED  BY <1>1, <2>1, FewerOut
<1> QED  BY <1>2, <1>3

\* Steps that only remove clauses, in all solvers.
LEMMA RemovalOut ==
  ASSUME OutInv, SoundInv', Reduce \/ BackwardSubsume \/ EndSubsumption \/ EndElimination
                              \/ Ready \/ UNCHANGED vars
  PROVE  OutInv'
<1>1. /\ UNCHANGED <<solver, eliminated, fixed>>
      /\ irredundant' \subseteq irredundant /\ redundant' \subseteq redundant
      /\ pc' # "load" \/ pc' = pc
      /\ pc \in {"load", "search"} => pc' \in {"load", "search"}
  BY DEF Reduce, BackwardSubsume, EndSubsumption, EndElimination, Ready, vars, inputVars,
         clauseVars, stackVars, phaseVars
<1> QED  BY <1>1, OutKnown, FewerOut

\* Steps that only remove clauses, in Kissat.
LEMMA RootRemovalOut ==
  ASSUME OutInv, SoundInv', Subsume \/ VivifyRemove \/ TransitiveReduce
  PROVE  OutInv'
<1>1. /\ UNCHANGED <<solver, eliminated, fixed, pc>>
      /\ irredundant' \subseteq irredundant /\ redundant' \subseteq redundant
      /\ pc = "search"
  BY DEF Subsume, VivifyRemove, TransitiveReduce, AtRoot, inputVars, clauseVars, stackVars,
         phaseVars
<1> QED  BY <1>1, FewerOut

\* A clause gets shorter.
LEMMA StrengthenOut ==
  ASSUME OutInv, SoundInv', Strengthen \/ StrengthenClause
  PROVE  OutInv'
<1>1. PICK c \in irredundant, d \in irredundant :
        \E l \in Removable(c, d) :
          Settle((irredundant \ {c}) \cup {c \ {l}}, redundant, fixed)
  BY DEF Strengthen, StrengthenClause
<1>2. PICK l : Settle((irredundant \ {c}) \cup {c \ {l}}, redundant, fixed)  BY <1>1
<1> DEFINE irr == (irredundant \ {c}) \cup {c \ {l}}
<1>3. /\ solver' = solver /\ eliminated' = eliminated /\ pc' = pc /\ pc' # "load"
  BY DEF Strengthen, StrengthenClause, AtRoot, inputVars, stackVars, phaseVars
<1>4. Eliminated' = Eliminated  BY <1>3 DEF Eliminated
<1>5. Out(irr, Eliminated')  BY <1>4, OutKnown DEF Out
<1>6. /\ eliminated' \in Seq(1 .. NumVars) /\ fixed \in SUBSET Literal
      /\ solver = "Kissat" => /\ Out(redundant, Eliminated') /\ Out({fixed}, Eliminated')
                              /\ pc' \in {"load", "search"}
  BY <1>3, <1>4, OutKnown
<1>7. Settle(irr, redundant, fixed)  BY <1>2
<1> HIDE DEF irr
<1> QED  BY <1>3, <1>5, <1>6, <1>7, KeepOut

\* Literals are learnt only of variables that are not eliminated.
LEMMA LearnOut ==
  ASSUME OutInv, SoundInv', NEW lit \in Literal,
         \/ LearnDefinedUnit(lit) \/ ResolveBinaries(lit)
         \/ FailedLiteral(lit) \/ Backbone(lit)
  PROVE  OutInv'
<1>1. /\ AtRoot /\ Var(lit) \notin Eliminated /\ UNCHANGED <<inputVars, stackVars, phaseVars>>
      /\ LearnUnit(lit) \/ LearnUnit(-lit)
  BY DEF LearnDefinedUnit, ResolveBinaries, FailedLiteral, Backbone, Active
<1>2. -lit \in Literal /\ Var(-lit) = Var(lit)  BY Literals
<1> QED  BY <1>1, <1>2, UnitOut

\* A ternary resolvent has literals of its clauses.
LEMMA ResolveTernaryOut == ASSUME OutInv, SoundInv', ResolveTernary PROVE OutInv'
<1> DEFINE all == irredundant \cup redundant
           Ternary == {e \in all : Cardinality(e) = 3}
           New(c, d, l) == (c \ {l}) \cup (d \ {-l})
           Result(c, d, new) ==
             \/ /\ Cardinality(new) = 3 /\ ~Found(new, all)
                /\ Settle(irredundant, redundant \cup {new}, fixed)
             \/ /\ Cardinality(new) = 2 /\ RedundantIfBoth(c, d)
                /\ Settle(irredundant, (redundant \ {c, d}) \cup
                            (IF Found(new, all) THEN {} ELSE {new}), fixed)
             \/ /\ Cardinality(new) = 2 /\ ~RedundantIfBoth(c, d)
                /\ Settle((irredundant \ {c, d}) \cup {new}, redundant \ {c, d}, fixed)
<1>1. AtRoot /\ UNCHANGED <<inputVars, stackVars, phaseVars>>  BY DEF ResolveTernary
<1>2. \E c, d \in Ternary : \E l \in c :
         /\ -l \in d /\ New(c, d, l) \in Clauses
         /\ Result(c, d, New(c, d, l))
  BY DEF ResolveTernary
<1> HIDE DEF Result
<1>3. PICK c \in Ternary, d \in Ternary : \E l \in c :
         /\ -l \in d /\ New(c, d, l) \in Clauses
         /\ Result(c, d, New(c, d, l))
  BY <1>2
<1>4. PICK l \in c : New(c, d, l) \in Clauses /\ Result(c, d, New(c, d, l))
  BY <1>3
<1> DEFINE new == New(c, d, l)
           E == Eliminated
<1>5. Out(irredundant, E) /\ Out(redundant, E)  BY <1>1, OutKnown DEF AtRoot
<1>6. Out({new}, E)  BY <1>5 DEF Out
<1>7. /\ Out(redundant \cup {new}, E)
      /\ Out((redundant \ {c, d}) \cup (IF Found(new, all) THEN {} ELSE {new}), E)
      /\ Out((irredundant \ {c, d}) \cup {new}, E) /\ Out(redundant \ {c, d}, E)
      /\ Out({{}}, E)
  <2> HIDE DEF new
  <2> QED  BY <1>5, <1>6 DEF Out
<1>8. PICK irr, red : Settle(irr, red, fixed) /\ Out(irr, E) /\ Out(red, E)
  <2> HIDE DEF new, E
  <2> QED  BY <1>4, <1>5, <1>7 DEF Result, new
<1>9. Settle(irr, red, fixed \cup {})
  <2>1. fixed \cup {} = fixed  OBVIOUS
  <2> QED  BY <1>8, <2>1
<1> QED  BY <1>1, <1>7, <1>8, <1>9, RootOut

\* A vivified clause gets shorter.
LEMMA VivifyShortenOut == ASSUME OutInv, SoundInv', VivifyShorten PROVE OutInv'
<1>1. AtRoot /\ UNCHANGED <<inputVars, stackVars, phaseVars>>  BY DEF VivifyShorten
<1>2. Out(irredundant, Eliminated) /\ Out(redundant, Eliminated)
  BY <1>1, OutKnown DEF AtRoot
<1>3. PICK c \in irredundant \cup redundant : \E kept \in SUBSET c :
        \/ Settle((irredundant \ {c}) \cup {kept}, redundant, fixed)
        \/ Settle(irredundant, (redundant \ {c}) \cup {kept}, fixed)
  BY DEF VivifyShorten, Kept
<1>4. PICK kept \in SUBSET c :
        \/ Settle((irredundant \ {c}) \cup {kept}, redundant, fixed)
        \/ Settle(irredundant, (redundant \ {c}) \cup {kept}, fixed)
  BY <1>3
<1>5. /\ Out((irredundant \ {c}) \cup {kept}, Eliminated)
      /\ Out((redundant \ {c}) \cup {kept}, Eliminated)
      /\ Out({{}}, Eliminated)
  BY <1>2, <1>3 DEF Out
<1>6. fixed \cup {} = fixed  OBVIOUS
<1> QED  BY <1>1, <1>2, <1>5, <1>6, <1>4, RootOut

\* Hyper binary resolution takes two literals that are not eliminated.
LEMMA HyperBinaryOut ==
  ASSUME OutInv, SoundInv', NEW dom \in Literal, NEW lit \in Literal, HyperBinary(dom, lit)
  PROVE  OutInv'
<1>1. /\ AtRoot /\ UNCHANGED <<inputVars, stackVars, phaseVars>>
      /\ Var(dom) \notin Eliminated /\ Var(lit) \notin Eliminated
      /\ Settle(irredundant, redundant \cup {{-dom, lit}}, fixed)
  BY DEF HyperBinary, Active
<1>2. Out(irredundant, Eliminated) /\ Out(redundant, Eliminated)
  BY <1>1, OutKnown DEF AtRoot
<1>3. Var(-dom) = Var(dom)  BY Literals
<1>4. /\ Out(redundant \cup {{-dom, lit}}, Eliminated)
      /\ Out({{}}, Eliminated)
  BY <1>1, <1>2, <1>3 DEF Out
<1>5. fixed \cup {} = fixed  OBVIOUS
<1> QED  BY <1>1, <1>2, <1>4, <1>5, RootOut

-----------------------------------------------------------------------------
(* Steps that eliminate variables                                          *)

\* A resolvent has literals of its clauses, but none of the variable.
LEMMA ResolventsOut ==
  ASSUME NEW cs \in SUBSET Proper, NEW lit \in Literal, NEW gate, NEW vs, Out(cs, vs)
  PROVE  Out(Resolvents(cs, lit, gate), vs \cup {Var(lit)})
<1> SUFFICES ASSUME NEW c \in Resolvents(cs, lit, gate), NEW l \in c
             PROVE  Var(l) \notin vs /\ Var(l) # Var(lit)
  BY DEF Out
<1>1. PICK p \in Pairs(cs, lit, gate) : c = (p[1] \ {lit}) \cup (p[2] \ {-lit})
  BY DEF Resolvents
<1>2. p[1] \in cs /\ p[2] \in cs /\ lit \in p[1] /\ -lit \in p[2]
  BY DEF Pairs, Occurring
<1>3. -lit \notin p[1] /\ lit \notin p[2] /\ l \in Literal
  <2>1. -lit \in Literal /\ -(-lit) = lit  BY Literals
  <2> QED  BY <1>1, <1>2, <2>1 DEF Proper
<1>4. l # lit /\ l # -lit  BY <1>1, <1>2, <1>3
<1>5. Var(l) \notin vs  BY <1>1, <1>2 DEF Out
<1> QED  BY <1>3, <1>4, <1>5, Literals

\* The clauses without some variables do not have them.
LEMMA WithoutOut ==
  ASSUME NEW cs, NEW vs, Out(cs, vs), NEW ws
  PROVE  Out(Without(cs, ws), vs \cup ws)
BY DEF Out, Without

\* The literals of a variable.
LEMMA LiteralsOf ==
  ASSUME NEW v \in 1 .. NumVars
  PROVE  /\ v \in Literal /\ -v \in Literal /\ Var(v) = v /\ Var(-v) = v
         /\ Rarer(v) \in Literal /\ Var(Rarer(v)) = v
<1>1. v \in Literal /\ -v \in Literal /\ Var(v) = v /\ Var(-v) = v
  BY Variables, NumVarsAssumption DEF Var
<1>2. Rarer(v) = v \/ Rarer(v) = -v  BY DEF Rarer
<1> QED  BY <1>1, <1>2

\* More variables are eliminated.
LEMMA MoreEliminated ==
  ASSUME OutInv
  PROVE  /\ \A v \in 1 .. NumVars : eliminated' = Append(eliminated, v) =>
              eliminated' \in Seq(1 .. NumVars) /\ Eliminated' = Eliminated \cup {v}
         /\ \A seq \in Seq(1 .. NumVars) : eliminated' = eliminated \o seq =>
              eliminated' \in Seq(1 .. NumVars) /\ Eliminated' = Eliminated \cup ToSet(seq)
<1> DEFINE S == 1 .. NumVars
<1>1. eliminated \in Seq(S)  BY OutKnown
<1> HIDE DEF S
<1>2. /\ \A v \in S : /\ Append(eliminated, v) \in Seq(S)
                      /\ ToSet(Append(eliminated, v)) = ToSet(eliminated) \cup {v}
      /\ \A seq \in Seq(S) : /\ eliminated \o seq \in Seq(S)
                             /\ ToSet(eliminated \o seq) = ToSet(eliminated) \cup ToSet(seq)
  BY <1>1, Elements
<1>3. Eliminated = ToSet(eliminated) /\ Eliminated' = ToSet(eliminated')  BY DEF Eliminated
<1>4. /\ \A v \in S : eliminated' = Append(eliminated, v) =>
           eliminated' \in Seq(S) /\ Eliminated' = Eliminated \cup {v}
      /\ \A seq \in Seq(S) : eliminated' = eliminated \o seq =>
           eliminated' \in Seq(S) /\ Eliminated' = Eliminated \cup ToSet(seq)
  BY <1>2, <1>3
<1> QED  BY <1>4 DEF S

\* Elimination in the MiniSat family.
LEMMA EliminateVarOut ==
  ASSUME OutInv, SoundInv', NEW v \in 1 .. NumVars, EliminateVar(v)
  PROVE  OutInv'
<1> DEFINE irr == Without(irredundant, {v}) \cup Resolvents(irredundant, v, NoGate)
<1>1. /\ solver' = solver /\ eliminated' = Append(eliminated, v)
      /\ pc = "eliminate" /\ pc' = "subsume"
      /\ Settle(irr, redundant, fixed)
  BY DEF EliminateVar, inputVars
<1>2. eliminated' \in Seq(1 .. NumVars) /\ Eliminated' = Eliminated \cup {v}
  BY <1>1, MoreEliminated
<1>3. Out(irr, Eliminated')
  <2>1. Out(Without(irredundant, {v}), Eliminated \cup {v})  BY OutKnown, WithoutOut
  <2>2. Out(Resolvents(irredundant, v, NoGate), Eliminated \cup {Var(v)}) /\ Var(v) = v
    BY OutKnown, LiteralsOf, ResolventsOut
  <2> QED  BY <1>2, <2>1, <2>2 DEF Out
<1>4. solver # "Kissat" /\ fixed \in SUBSET Literal  BY <1>1, OutKnown
<1> HIDE DEF irr
<1> QED  BY <1>1, <1>2, <1>3, <1>4, KeepOut

\* Elimination in Kissat.
LEMMA EliminateOut ==
  ASSUME OutInv, SoundInv', NEW v \in 1 .. NumVars, Eliminate(v)
  PROVE  OutInv'
<1> DEFINE rest == Without(irredundant, {v})
           lit == Rarer(v)
           red == Without(redundant, {v})
           New(gate) == Added(Resolvents(irredundant, lit, gate), rest)
           E == Eliminated \cup {v}
<1>1. /\ AtRoot /\ solver' = solver /\ eliminated' = Append(eliminated, v) /\ pc' = pc
      /\ Active(v)
  BY DEF Eliminate, inputVars, phaseVars
<1>2. PICK gate \in GatesOf(lit) :
        \E irr \in {rest \cup New(gate), Reduced(rest \cup New(gate), New(gate))} :
          Settle(irr, red, fixed)
  BY DEF Eliminate
<1>3. PICK irr \in {rest \cup New(gate), Reduced(rest \cup New(gate), New(gate))} :
          Settle(irr, red, fixed)
  BY <1>2
<1>4. eliminated' \in Seq(1 .. NumVars) /\ Eliminated' = E
  BY <1>1, MoreEliminated
<1>5. Out(rest, E) /\ Out(red, E)
  BY <1>1, OutKnown, WithoutOut DEF AtRoot
<1>6. Out(New(gate), E)
  <2>1. lit \in Literal /\ Var(lit) = v  BY LiteralsOf
  <2>2. Out(Resolvents(irredundant, lit, gate), Eliminated \cup {Var(lit)})
    BY <2>1, OutKnown, ResolventsOut
  <2>3. New(gate) \subseteq Resolvents(irredundant, lit, gate)  BY DEF Added
  <2> HIDE DEF New
  <2> QED  BY <2>1, <2>2, <2>3 DEF Out
<1>7. \A cs, new : \A c \in Reduced(cs, new) : \E d \in cs : c \subseteq d
  BY DEF Reduced
<1>8. Out({fixed}, E)
  <2>1. \A l \in fixed : l \in Literal /\ l # v /\ l # -v  BY <1>1, OutKnown DEF Active
  <2>2. Out({fixed}, Eliminated)  BY <1>1, OutKnown DEF AtRoot
  <2> QED  BY <2>1, <2>2, LiteralsOf, Literals DEF Out
<1> HIDE DEF rest, New, red, E, lit
<1>9. Out(irr, E)
  <2>1. Out(rest \cup New(gate), E)  BY <1>5, <1>6 DEF Out
  <2>2. Out(Reduced(rest \cup New(gate), New(gate)), E)  BY <1>7, <2>1 DEF Out
  <2> QED  BY <1>3, <2>1, <2>2
<1>10. pc' = "search" /\ fixed \in SUBSET Literal  BY <1>1, OutKnown DEF AtRoot
<1>11. Out(irr, Eliminated') /\ Out(red, Eliminated') /\ Out({fixed}, Eliminated')
  BY <1>4, <1>5, <1>8, <1>9
<1> QED  BY <1>1, <1>3, <1>4, <1>10, <1>11, KeepOut

\* A resolvent that is a unit.
LEMMA LearnUnitResolventOut ==
  ASSUME OutInv, SoundInv', NEW v \in 1 .. NumVars, LearnUnitResolvent(v)
  PROVE  OutInv'
<1> DEFINE lit == Rarer(v)
<1>1. AtRoot /\ UNCHANGED <<inputVars, stackVars, phaseVars>>  BY DEF LearnUnitResolvent
<1>2. PICK gate \in GatesOf(lit) : \E c \in Resolvents(irredundant, lit, gate) :
           \E unit \in c : c = {unit} /\ LearnUnit(unit)
  BY DEF LearnUnitResolvent
<1>3. PICK c \in Resolvents(irredundant, lit, gate) :
           \E unit \in c : c = {unit} /\ LearnUnit(unit)
  BY <1>2
<1>4. PICK unit \in c : LearnUnit(unit)  BY <1>3
<1>5. Out(Resolvents(irredundant, lit, gate), Eliminated \cup {Var(lit)})
  BY OutKnown, LiteralsOf, ResolventsOut
<1>6. Var(unit) \notin Eliminated  BY <1>5 DEF Out
<1>7. unit \in Literal  BY DEF Resolvents, Clauses
<1> QED  BY <1>1, <1>4, <1>6, <1>7, UnitOut

\* An autarky.
LEMMA AutarkyOut == ASSUME OutInv, SoundInv', Autarky PROVE OutInv'
<1> DEFINE Lits(phases) == LargestAutarky({l \in phases : Active(l)})
           W(phases) == {Var(l) : l \in Lits(phases)}
           E(phases) == Eliminated \cup W(phases)
<1>1. PICK phases \in Assignment :
        /\ irredundant' = Without(irredundant, ToSet(Increasing(W(phases))))
        /\ redundant' = Without(redundant, ToSet(Increasing(W(phases))))
        /\ eliminated' = eliminated \o Increasing(W(phases))
  BY DEF Autarky
<1>2. /\ AtRoot /\ solver' = solver /\ pc' = pc /\ fixed' = fixed
  BY DEF Autarky, inputVars, phaseVars
<1>3. Lits(phases) \subseteq {l \in phases : Active(l)}  BY DEF LargestAutarky
<1>4. \A l \in Lits(phases) : l \in Literal /\ Active(l)  BY <1>3, Values
<1> HIDE DEF Lits
<1>5. W(phases) \in SUBSET (1 .. NumVars)  BY <1>4, Literals
<1>6. ToSet(Increasing(W(phases))) = W(phases)
  <2> HIDE DEF W
  <2> QED  BY <1>5, IncreasingIs
<1>7. Increasing(W(phases)) \in Seq(1 .. NumVars)
  <2> HIDE DEF W
  <2> QED  BY <1>5, IncreasingIs
<1>8. eliminated' \in Seq(1 .. NumVars) /\ Eliminated' = E(phases)
  <2> HIDE DEF W
  <2> QED  BY <1>1, <1>6, <1>7, MoreEliminated
<1>9. \A l \in fixed : Var(l) \notin W(phases)
  <2> SUFFICES ASSUME NEW l \in fixed, NEW k \in Lits(phases), Var(l) = Var(k) PROVE FALSE
    OBVIOUS
  <2>1. l \in Literal  BY OutKnown
  <2>2. l = k \/ l = -k  BY <1>4, <2>1, Literals
  <2> QED  BY <1>4, <2>2 DEF Active
<1>10. Out({fixed}, E(phases))
  <2> HIDE DEF W
  <2>1. Out({fixed}, Eliminated)  BY <1>2, OutKnown DEF AtRoot
  <2> QED  BY <1>9, <2>1 DEF Out
<1>11. Out(irredundant', E(phases)) /\ Out(redundant', E(phases))
  <2> HIDE DEF W
  <2>1. Out(irredundant, Eliminated) /\ Out(redundant, Eliminated)
    BY <1>2, OutKnown DEF AtRoot
  <2> QED  BY <1>1, <1>6, <2>1, WithoutOut
<1> HIDE DEF E
<1>12. Out(irredundant, Eliminated)' /\ Out(redundant, Eliminated)' /\ Out({fixed}, Eliminated)'
  BY <1>2, <1>8, <1>10, <1>11 DEF Out
<1>13. pc' = "search"  BY <1>2 DEF AtRoot
<1> QED  BY <1>8, <1>12, <1>13 DEF OutInv

\* What a literal reaches is not eliminated, unless the literal is.
LEMMA ReachedOut ==
  ASSUME OutInv, AtRoot, NEW lit \in Literal, Var(lit) \notin Eliminated
  PROVE  \A l \in Reached(lit) : l \in Literal /\ Var(l) \notin Eliminated
<1> DEFINE s == {l \in Literal : Var(l) \notin Eliminated}
<1>1. Out(irredundant, Eliminated) /\ Out(redundant, Eliminated)
  BY OutKnown DEF AtRoot
<1>2. NextReached(s) \subseteq s  BY <1>1 DEF NextReached, Binaries, Out
<1>3. Reached(lit) \subseteq s
  <2> HIDE DEF s
  <2>1. lit \in s  BY DEF s
  <2> QED  BY <1>2, <2>1, ReachedClosed
<1> QED  BY <1>3

\* A round of substitution.
LEMMA SubstituteRoundOut == ASSUME OutInv, SoundInv', SubstituteRound PROVE OutInv'
<1> DEFINE W == {v \in 1 .. NumVars : Active(v) /\ Representative(v) # v}
           E == Eliminated \cup W
<1>1. /\ AtRoot /\ solver' = solver /\ pc' = pc /\ pc' = "search"
      /\ UNCHANGED <<inputVars, phaseVars>>
  BY DEF SubstituteRound, AtRoot, inputVars, phaseVars
<1>2. \/ UNCHANGED <<clauseVars, stackVars>>
      \/ (\E l \in FailedRoots : LearnUnit(-l)) /\ UNCHANGED stackVars
      \/ /\ \A l \in FailedRoots : -l \notin Reached(l) \/ l \notin Reached(-l)
         /\ Settle(Substituted(irredundant), Substituted(redundant), fixed)
         /\ eliminated' = eliminated \o Increasing(W)
  BY DEF SubstituteRound
<1>3. CASE UNCHANGED <<clauseVars, stackVars>>
  <2>1. UNCHANGED <<irredundant, redundant, fixed, eliminated>>
    BY <1>3 DEF clauseVars, stackVars
  <2> QED  BY <1>1, <2>1, FewerOut
<1>4. CASE (\E l \in FailedRoots : LearnUnit(-l)) /\ UNCHANGED stackVars
  <2>1. PICK l \in FailedRoots : LearnUnit(-l)  BY <1>4
  <2>2. l \in Literal /\ Var(l) \notin Eliminated  BY DEF FailedRoots, Active
  <2>3. -l \in Literal /\ Var(-l) = Var(l)  BY <2>2, Literals
  <2> QED  BY <1>1, <1>4, <2>1, <2>2, <2>3, UnitOut
<1>5. CASE /\ \A l \in FailedRoots : -l \notin Reached(l) \/ l \notin Reached(-l)
           /\ Settle(Substituted(irredundant), Substituted(redundant), fixed)
           /\ eliminated' = eliminated \o Increasing(W)
  <2>1. W \in SUBSET (1 .. NumVars)  OBVIOUS
  <2>2. eliminated' \in Seq(1 .. NumVars) /\ Eliminated' = E
    <3> HIDE DEF W
    <3>1. Increasing(W) \in Seq(1 .. NumVars) /\ ToSet(Increasing(W)) = W
      BY <2>1, IncreasingIs
    <3> QED  BY <1>5, <3>1, MoreEliminated
  <2>3. ASSUME NEW cs \in SUBSET Proper, Out(cs, Eliminated)
        PROVE  Out(Substituted(cs), E)
    <3> SUFFICES ASSUME NEW c \in cs, NEW l \in c
                 PROVE  Var(Representative(l)) \notin E
      BY DEF Out, Substituted, SubstitutedLits
    <3>1. l \in Literal /\ Var(l) \notin Eliminated  BY <2>3 DEF Out, Proper
    <3>2. Representative(l) \in Reached(l)  BY <3>1, RepresentativeIs DEF Same
    <3>3. Var(Representative(l)) \notin Eliminated  BY <1>1, <3>1, <3>2, ReachedOut
    <3>4. Var(Representative(l)) \notin W  BY <1>5, <3>1, RepresentativeStays
    <3> QED  BY <3>3, <3>4
  <2>4. /\ irredundant \in SUBSET Proper /\ redundant \in SUBSET Proper
        /\ Out(irredundant, Eliminated) /\ Out(redundant, Eliminated)
        /\ Out({fixed}, Eliminated) /\ fixed \in SUBSET Literal
    BY <1>1, OutKnown DEF AtRoot
  <2>5. \A l \in fixed : Var(l) \notin W
    <3> SUFFICES ASSUME NEW l \in fixed, NEW v \in 1 .. NumVars, Active(v), Var(l) = v
                 PROVE  FALSE
      OBVIOUS
    <3>1. l = v \/ l = -v  BY <2>4, Literals, LiteralsOf
    <3> QED  BY <3>1 DEF Active
  <2> HIDE DEF W
  <2>6. Out({fixed}, E)  BY <2>4, <2>5 DEF Out
  <2>7. /\ Out(Substituted(irredundant), Eliminated')
        /\ Out(Substituted(redundant), Eliminated') /\ Out({fixed}, Eliminated')
    BY <2>2, <2>3, <2>4, <2>6
  <2> QED  BY <1>1, <1>5, <2>2, <2>4, <2>7, KeepOut
<1> QED  BY <1>2, <1>3, <1>4, <1>5

-----------------------------------------------------------------------------
(* Gaussian elimination                                                    *)

\* An equation with variables has clauses: some assignment makes it false.
LEMMA EquationHasClauses ==
  ASSUME NEW x \in Equations, x.vars # {}
  PROVE  \E c \in ClausesOf(x) : {Var(l) : l \in c} = x.vars
<1>1. x.vars \in SUBSET (1 .. NumVars) /\ x.rhs \in BOOLEAN  BY EquationIs
<1>2. PICK w \in x.vars : TRUE  OBVIOUS
<1> DEFINE neg == {l \in Literal : l < 0}
           one == {l \in Literal : (l < 0 /\ l # -w) \/ l = w}
<1>3. neg \in Assignment /\ x.vars \cap neg = {}
  <2>1. \A l \in Literal : l < 0 <=> ~(-l < 0)  BY NumVarsAssumption DEF Literal
  <2>2. \A l \in Literal : -l \in Literal  BY Literals
  <2> QED  BY <1>1, <2>1, <2>2, NumVarsAssumption DEF Assignment
<1>4. one \in Assignment /\ x.vars \cap one = {w}
  <2>1. w \in Literal /\ w > 0  BY <1>1, <1>2, NumVarsAssumption DEF Literal
  <2>2. \A l \in Literal : -l \in Literal /\ l \in Int /\ l # 0
    BY Literals DEF Literal
  <2>3. \A l \in Literal : l \in one <=> -l \notin one
    <3> SUFFICES ASSUME NEW l \in Literal
                 PROVE  ((l < 0 /\ l # -w) \/ l = w) <=> ~((-l < 0 /\ -l # -w) \/ -l = w)
      BY <2>2
    <3> QED  BY <2>1, <2>2
  <2>4. one \in Assignment  BY <2>3 DEF Assignment
  <2>5. \A v \in x.vars : v \in one <=> v = w  BY <1>1, <2>1, NumVarsAssumption
  <2> HIDE DEF one
  <2> QED  BY <1>2, <2>4, <2>5
<1>5. Cardinality({}) = 0 /\ Cardinality({w}) = 1  BY FS_EmptySet, FS_Singleton
<1> HIDE DEF neg, one
<1>6. ~(Holds(neg, x) /\ Holds(one, x))  BY <1>3, <1>4, <1>5 DEF Holds
<1>7. ClausesOf(x) # {}
  <2> SUFFICES ASSUME ClausesOf(x) = {} PROVE FALSE  OBVIOUS
  <2>1. \A a \in Assignment : Holds(a, x)  BY ClausesMakeEquation
  <2> QED  BY <1>3, <1>4, <1>6, <2>1
<1> QED  BY <1>7 DEF ClausesOf

\* A sum has only variables of its equations.
LEMMA SumOut ==
  ASSUME NEW t, NEW v \in Sum(t).vars
  PROVE  \E x \in t : v \in x.vars
<1>1. Sum(t).vars = {w \in 1 .. NumVars : Cardinality({x \in t : w \in x.vars}) % 2 = 1}
  BY Zenon DEF Sum, Xor
<1>2. Cardinality({x \in t : v \in x.vars}) % 2 = 1  BY <1>1
<1>3. Cardinality({}) = 0  BY FS_EmptySet
<1>4. {x \in t : v \in x.vars} # {}  BY <1>2, <1>3
<1> QED  BY <1>4

\* No eliminated variable comes back by it.
LEMMA GaussOut == ASSUME OutInv, SoundInv', FirstGaussElim \/ SecondChance PROVE OutInv'
<1> DEFINE xs == Xors(irredundant)
           systems == {s \in Components(xs) : Cardinality(s) > 1}
           equations == UNION {Echelon(s) : s \in systems}
           short == {y \in equations : Cardinality(y.vars) <= 2}
           clauses == UNION {ClausesOf(x) : x \in short}
           units == UNION {c \in clauses : Cardinality(c) = 1}
           lits == (fixed \ Complement(units)) \cup units
<1>1. /\ UNCHANGED <<solver, eliminated>> /\ pc \notin {"load", "search"} /\ pc' # "load"
      /\ GaussElim \/ UNCHANGED clauseVars
  BY DEF FirstGaussElim, SecondChance, inputVars, stackVars
<1>2. solver # "Kissat"  BY <1>1, OutKnown
<1>3. \/ UNCHANGED clauseVars
      \/ Settle(irredundant \cup clauses, redundant, lits)
  BY <1>1 DEF GaussElim
<1>4. CASE UNCHANGED clauseVars
  <2>1. UNCHANGED <<irredundant, redundant, fixed>>  BY <1>4 DEF clauseVars
  <2> QED  BY <1>1, <1>2, <2>1, FewerOut
<1>5. CASE Settle(irredundant \cup clauses, redundant, lits)
  <2>1. ASSUME NEW x \in xs, NEW v \in x.vars PROVE v \notin Eliminated
    <3>1. x \in Equations  BY FinitelyManyEquations
    <3>2. PICK c \in ClausesOf(x) : {Var(l) : l \in c} = x.vars
      BY <3>1, EquationHasClauses
    <3>3. c \in irredundant  BY DEF Xors
    <3>4. PICK l \in c : Var(l) = v  BY <3>2
    <3> QED  BY <3>3, <3>4, OutKnown DEF Out
  <2>2. ASSUME NEW c \in clauses, NEW l \in c
        PROVE  l \in Literal /\ Var(l) \notin Eliminated
    <3>1. PICK x \in short : c \in ClausesOf(x)  OBVIOUS
    <3>2. PICK s \in systems : x \in Echelon(s)  OBVIOUS
    <3>3. PICK t \in SUBSET s : x = Sum(t)  BY <3>2 DEF Echelon
    <3>4. Var(l) \in x.vars /\ l \in Literal  BY <3>1 DEF ClausesOf, Clauses
    <3>5. PICK y \in t : Var(l) \in y.vars  BY <3>3, <3>4, SumOut
    <3>6. y \in xs  BY <3>2, <3>3, <3>5 DEF Components
    <3> QED  BY <2>1, <3>4, <3>5, <3>6
  <2> HIDE DEF clauses
  <2>3. Out(irredundant \cup clauses, Eliminated)  BY <2>2, OutKnown DEF Out
  <2>4. lits \in SUBSET Literal
    <3>1. units \in SUBSET Literal  BY <2>2
    <3> HIDE DEF units
    <3> QED  BY <3>1, OutKnown
  <2> HIDE DEF lits
  <2>5. Eliminated' = Eliminated  BY <1>1 DEF Eliminated
  <2>6. Out(irredundant \cup clauses, Eliminated') /\ eliminated' \in Seq(1 .. NumVars)
    BY <1>1, <2>3, <2>5, OutKnown
  <2> QED  BY <1>1, <1>2, <1>5, <2>4, <2>6, KeepOut
<1> QED  BY <1>3, <1>4, <1>5

-----------------------------------------------------------------------------
(* All steps                                                               *)

\* A step of any kind keeps the second invariant.
LEMMA StepOut == ASSUME OutInv, [Next]_vars PROVE OutInv'
<1>0. SoundInv'  BY StepSound DEF OutInv
<1>1. CASE AddClause \/ FinishLoading  BY <1>0, <1>1, LoadOut
<1>2. CASE PreprocessingNext
  <2>1. CASE FirstGaussElim \/ SecondChance  BY <1>0, <2>1, GaussOut
  <2>2. CASE BackwardSubsume \/ EndSubsumption \/ EndElimination
    BY <1>0, <2>2, RemovalOut
  <2>3. CASE StrengthenClause  BY <1>0, <2>3, StrengthenOut
  <2>4. CASE \E v \in 1 .. NumVars : EliminateVar(v)  BY <1>0, <2>4, EliminateVarOut
  <2> QED  BY <1>2, <2>1, <2>2, <2>3, <2>4 DEF PreprocessingNext
<1>3. CASE KissatNext
  <2>1. CASE \E v \in 1 .. NumVars : Eliminate(v) \/ LearnUnitResolvent(v)
    BY <1>0, <2>1, EliminateOut, LearnUnitResolventOut
  <2>2. CASE \E lit \in Literal : \/ LearnDefinedUnit(lit) \/ ResolveBinaries(lit)
                                  \/ FailedLiteral(lit) \/ Backbone(lit)
    BY <1>0, <2>2, LearnOut
  <2>3. CASE Subsume \/ VivifyRemove \/ TransitiveReduce  BY <1>0, <2>3, RootRemovalOut
  <2>4. CASE Strengthen  BY <1>0, <2>4, StrengthenOut
  <2>5. CASE SubstituteRound  BY <1>0, <2>5, SubstituteRoundOut
  <2>6. CASE ResolveTernary  BY <1>0, <2>6, ResolveTernaryOut
  <2>7. CASE VivifyShorten  BY <1>0, <2>7, VivifyShortenOut
  <2>8. CASE \E dom, lit \in Literal : HyperBinary(dom, lit)  BY <1>0, <2>8, HyperBinaryOut
  <2>9. CASE Autarky  BY <1>0, <2>9, AutarkyOut
  <2> QED  BY <1>3, <2>1, <2>2, <2>3, <2>4, <2>5, <2>6, <2>7, <2>8, <2>9 DEF KissatNext
<1>4. CASE \E c \in Arriving : Implies(Input, c) /\
             (AddImportedClause(c) \/ IgnoreImportedClause(c))
  BY <1>0, <1>4, ImportOut
<1>5. CASE Reduce \/ Ready \/ UNCHANGED vars  BY <1>0, <1>5, RemovalOut
<1> QED  BY <1>1, <1>2, <1>3, <1>4, <1>5 DEF Next

\* EliminatedStayOut, for formulas of any size and any number of variables.
THEOREM EliminatedOut == Spec => []EliminatedStayOut
<1>1. Init => OutInv  BY InitOut
<1>2. OutInv /\ [Next]_vars => OutInv'  BY StepOut
<1>3. OutInv => EliminatedStayOut  BY OutKnown DEF EliminatedStayOut, Out
<1> QED  BY <1>1, <1>2, <1>3, PTL DEF Spec

-----------------------------------------------------------------------------
(* The clause imported last                                                *)

\* LastClausePrunes, the types, and no clause before the formula is loaded.
LastInv == SoundInv /\ LastClausePrunes /\ (pc = "load" => last = {})

\* Propagation finds units at least once.
LEMMA PropagatesUnits ==
  ASSUME NEW cs, NEW lits \in SUBSET Literal
  PROVE  lits \subseteq Propagated(cs, lits) /\ Units(cs, lits) \subseteq Propagated(cs, lits)
<1>0. PICK g : IsPropagation(g, cs, lits)  BY PropagatedIs
<1>1. /\ Propagated(cs, lits) = g[NumVars]
      /\ g[0] = lits
      /\ \A k \in 1 .. NumVars : g[k] = g[k - 1] \cup Units(cs, g[k - 1])
  BY <1>0 DEF IsPropagation
<1>2. 1 \in Nat /\ NumVars \in Nat /\ NumVars \in 1 .. NumVars /\ 1 \in 1 .. NumVars
  BY NumVarsAssumption
<1> DEFINE S == {k \in 1 .. NumVars : lits \cup Units(cs, lits) \subseteq g[k]}
<1>3. 1 \in S
  <2>1. g[1] = g[1 - 1] \cup Units(cs, g[1 - 1])  BY <1>1, <1>2
  <2>2. 1 - 1 = 0  OBVIOUS
  <2> QED  BY <1>1, <1>2, <2>1, <2>2
<1>4. ASSUME NEW k \in 1 + 1 .. NumVars, k - 1 \in S PROVE k \in S
  <2>1. k \in 1 .. NumVars /\ lits \cup Units(cs, lits) \subseteq g[k - 1]
    BY <1>2, <1>4
  <2>2. g[k] = g[k - 1] \cup Units(cs, g[k - 1])  BY <1>1, <2>1
  <2> QED  BY <2>1, <2>2
<1>5. 1 .. NumVars \subseteq S
  <2> HIDE DEF S
  <2> QED  BY <1>2, <1>3, <1>4, RangeInduction
<1> QED  BY <1>1, <1>2, <1>5

\* A clause prunes: when its other literals are false, propagation makes lit true or
\* finds a conflict.
Prunes(cs, true, c, lit) ==
  LET lits == Propagated(cs, true \cup Complement(c \ {lit}))
  IN  lit \in lits \/ lits \cap Complement(lits) # {}

\* A clause prunes if it is true, or there without its false literals.
LEMMA ClausePrunes ==
  ASSUME NEW cs, NEW true \in SUBSET Literal, NEW c \in SUBSET Literal, NEW lit \in c,
         \/ c \cap true # {}
         \/ c \ Complement(true) \in cs /\ c \ Complement(true) # {}
  PROVE  Prunes(cs, true, c, lit)
<1> DEFINE start == true \cup Complement(c \ {lit})
           lits == Propagated(cs, start)
<1>1. \A k \in c : k \in Literal /\ -k \in Literal /\ -(-k) = k  BY Literals
<1>2. start \in SUBSET Literal /\ \A k \in c \ {lit} : -k \in start  BY <1>1 DEF Complement
<1>3. start \subseteq lits /\ Units(cs, start) \subseteq lits
  <2> HIDE DEF start
  <2> QED  BY <1>2, PropagatesUnits
<1>4. SUFFICES lit \in lits \/ \E k \in c : k \in lits /\ -k \in lits
  <2>1. \A k \in c : -k \in lits => k \in Complement(lits)  BY <1>1 DEF Complement
  <2> QED  BY <2>1 DEF Prunes
<1>5. CASE c \cap true # {}
  <2>1. PICK k \in c : k \in true  BY <1>5
  <2>2. k \in lits  BY <1>3, <2>1
  <2> HIDE DEF lits, start
  <2> QED  BY <1>2, <1>3, <2>2
<1>6. CASE c \ Complement(true) \in cs /\ c \ Complement(true) # {}
  <2> DEFINE d == c \ Complement(true)
  <2>1. \A k \in c : k \in Complement(true) => -k \in true
    <3>1. \A m \in true : m \in Literal /\ -(-m) = m  BY Literals
    <3> QED  BY <3>1 DEF Complement
  <2>2. \A k \in c : -k \in start => k \in Complement(start)  BY <1>1 DEF Complement
  <2> HIDE DEF start
  <2>3. PICK k \in d : lit \in d => k = lit  BY <1>6
  <2>4. k \in c /\ k \in Literal /\ d \in cs  BY <1>1, <1>6
  <2>5. d \ {k} \subseteq Complement(start)
    <3> SUFFICES ASSUME NEW m \in d, m # k PROVE m \in Complement(start)  OBVIOUS
    <3>1. m \in c /\ m # lit  BY <2>3
    <3> QED  BY <1>2, <2>2, <3>1
  <2> HIDE DEF d
  <2>6. k \in Units(cs, start)  BY <2>3, <2>4, <2>5 DEF Units
  <2>7. k \in lits  BY <1>3, <2>6
  <2>8. k # lit => -k \in lits  BY <1>2, <1>3, <2>4
  <2> HIDE DEF lits
  <2> QED  BY <2>4, <2>7, <2>8
<1> QED  BY <1>5, <1>6

\* What the property says of a clause.
LEMMA LastIs ==
  LastClausePrunes <=>
    (ok /\ (\A l \in last : Var(l) \notin Eliminated) =>
       \A l \in last : Prunes(irredundant \cup redundant, fixed, last, l))
BY DEF LastClausePrunes, Prunes

\* An imported clause prunes.
LEMMA ImportPrunes ==
  ASSUME LastInv, SoundInv', NEW c \in Arriving, AddImportedClause(c) \/ IgnoreImportedClause(c)
  PROVE  LastClausePrunes'
<1> DEFINE cs == irredundant' \cup redundant'
<1>1. /\ c \in SUBSET Literal /\ c # {} /\ last' = c /\ eliminated' = eliminated
      /\ fixed \in SUBSET Literal
  BY SimplificationAssumption
     DEF AddImportedClause, IgnoreImportedClause, stackVars, Clauses, LastInv, SoundInv
<1>2. Eliminated' = Eliminated  BY <1>1 DEF Eliminated
<1>3. SUFFICES ASSUME ok', \A l \in c : Var(l) \notin Eliminated, NEW l \in c
               PROVE  Prunes(cs, fixed', c, l)
  BY <1>1, <1>2 DEF LastClausePrunes, Prunes
<1>4. fixed' \in SUBSET Literal  BY DEF SoundInv
<1>5. \/ c \cap fixed' # {}
      \/ c \ Complement(fixed') \in cs /\ c \ Complement(fixed') # {}
  <2>1. CASE AddImportedClause(c)
    <3> DEFINE all == Propagated(irredundant \cup (redundant \cup {c}), fixed)
    <3>1. Settle(irredundant, redundant \cup {c}, fixed)  BY <2>1 DEF AddImportedClause
    <3>2. /\ ~Falsified(irredundant \cup (redundant \cup {c}), all)
          /\ fixed' = all
          /\ redundant' = Tidied(redundant \cup {c}, all)
      BY <1>3, <3>1 DEF Settle
    <3> HIDE DEF all
    <3>3. ~(c \subseteq Complement(all))  BY <3>2 DEF Falsified
    <3>4. c \cap all = {} => c \ Complement(all) \in redundant'  BY <3>2 DEF Tidied
    <3> QED  BY <3>2, <3>3, <3>4
  <2>2. CASE IgnoreImportedClause(c)
    <3>1. Useless(c) /\ fixed' = fixed  BY <2>2 DEF IgnoreImportedClause, clauseVars
    <3> QED  BY <1>3, <3>1 DEF Useless
  <2> QED  BY <2>1, <2>2
<1> HIDE DEF cs
<1> QED  BY <1>1, <1>4, <1>5, ClausePrunes

\* A step of any kind keeps the third invariant.
LEMMA StepPrunes == ASSUME LastInv, [Next]_vars PROVE LastInv'
<1>0. SoundInv'  BY StepSound DEF LastInv
<1>1. CASE last' = {}
  <2>1. LastClausePrunes'  BY <1>1 DEF LastClausePrunes
  <2> QED  BY <1>0, <1>1, <2>1 DEF LastInv
<1>2. CASE AddClause \/ FinishLoading
  <2>1. last' = {}  BY <1>2 DEF AddClause, FinishLoading, LastInv
  <2> QED  BY <1>1, <2>1
<1>3. CASE PreprocessingNext
  <2>1. last' = {}
    BY <1>3 DEF PreprocessingNext, FirstGaussElim, BackwardSubsume, StrengthenClause,
                EndSubsumption, EliminateVar, EndElimination, SecondChance
  <2> QED  BY <1>1, <2>1
<1>4. CASE KissatNext
  <2>1. last' = {}
    BY <1>4 DEF KissatNext, Eliminate, LearnUnitResolvent, LearnDefinedUnit,
                ResolveBinaries, FailedLiteral, Backbone, Subsume, Strengthen, SubstituteRound,
                ResolveTernary, VivifyShorten, VivifyRemove, HyperBinary, TransitiveReduce, Autarky
  <2> QED  BY <1>1, <2>1
<1>5. CASE \E c \in Arriving : Implies(Input, c) /\
             (AddImportedClause(c) \/ IgnoreImportedClause(c))
  <2>1. PICK c \in Arriving : AddImportedClause(c) \/ IgnoreImportedClause(c)  BY <1>5
  <2>2. pc' # "load"  BY <2>1 DEF AddImportedClause, IgnoreImportedClause, phaseVars
  <2>3. LastClausePrunes'  BY <1>0, <2>1, ImportPrunes
  <2> QED  BY <1>0, <2>2, <2>3 DEF LastInv
<1>6. CASE Reduce
  <2>1. last' = {}  BY <1>6 DEF Reduce
  <2> QED  BY <1>1, <2>1
<1>7. CASE Ready \/ UNCHANGED vars
  <2>1. /\ irredundant' = irredundant /\ redundant' = redundant /\ fixed' = fixed /\ ok' = ok
        /\ last' = last /\ pc' = pc /\ eliminated' = eliminated
    BY <1>7 DEF Ready, vars, clauseVars, stackVars, phaseVars
  <2>2. Eliminated' = Eliminated  BY <2>1 DEF Eliminated
  <2>3. LastClausePrunes'
    BY <2>1, <2>2, LastIs DEF LastInv, LastClausePrunes, Prunes
  <2> QED  BY <1>0, <2>1, <2>3 DEF LastInv
<1> QED  BY <1>2, <1>3, <1>4, <1>5, <1>6, <1>7 DEF Next

\* LastClausePrunes, for formulas of any size and any number of variables.
THEOREM LastPrunes == Spec => []LastClausePrunes
<1>1. Init => LastInv
  <2> SUFFICES ASSUME Init PROVE LastInv  OBVIOUS
  <2>1. last = {}  BY DEF Init
  <2>2. LastClausePrunes  BY <2>1 DEF LastClausePrunes
  <2> QED  BY <2>1, <2>2, InitSound DEF LastInv
<1>2. LastInv /\ [Next]_vars => LastInv'  BY StepPrunes
<1>3. LastInv => LastClausePrunes  BY DEF LastInv
<1> QED  BY <1>1, <1>2, <1>3, PTL DEF Spec

-----------------------------------------------------------------------------
(* Reading the extension stack                                             *)

\* What the entries do to the values.
IsStep(D, E, X) == D \in [E \X X -> X]

\* The values from c on when a stack is read from its end; an entry does what D says.
IsUnwound(g, s, X, c, D) ==
  /\ g \in [0 .. Len(s) -> X]
  /\ g[0] = c
  /\ \A n \in 1 .. Len(s) : g[n] = D[<<s[Len(s) - n + 1], g[n - 1]>>]

\* The last of them.
Unwound(s, X, c, D) == (CHOOSE g : IsUnwound(g, s, X, c, D))[Len(s)]

\* There are such values.
LEMMA UnwoundExists ==
  ASSUME NEW E, NEW s \in Seq(E), NEW X, NEW c \in X, NEW D, IsStep(D, E, X)
  PROVE  \E g : IsUnwound(g, s, X, c, D)
<1> DEFINE N == Len(s)
           G == [x \in Nat \X X |-> IF x[1] \in 1 .. N THEN D[<<s[N - x[1] + 1], x[2]>>] ELSE c]
<1>1. N \in Nat /\ 0 \in Nat /\ 0 \in 0 .. N /\ N \in 0 .. N /\ DOMAIN s = 1 .. N  OBVIOUS
<1>2. \A k \in 1 .. N : s[N - k + 1] \in E /\ k \in 0 .. N /\ k # 0 /\ k \in Nat /\ k - 1 \in 0 .. N
  <2> SUFFICES ASSUME NEW k \in 1 .. N PROVE s[N - k + 1] \in E /\ k \in 0 .. N /\ k # 0 /\ k \in Nat /\ k - 1 \in 0 .. N
    OBVIOUS
  <2>1. N - k + 1 \in 1 .. N /\ k \in 0 .. N /\ k # 0 /\ k \in Nat /\ k - 1 \in 0 .. N  BY <1>1
  <2> HIDE DEF N
  <2> QED  BY <1>1, <2>1
<1>a. D \in [E \X X -> X]  BY DEF IsStep
<1>3. G \in [Nat \X X -> X]
  <2> HIDE DEF N
  <2>1. ASSUME NEW x \in Nat \X X
        PROVE  (IF x[1] \in 1 .. N THEN D[<<s[N - x[1] + 1], x[2]>>] ELSE c) \in X
    <3>1. CASE x[1] \in 1 .. N
      <4>1. s[N - x[1] + 1] \in E  BY <1>2, <3>1
      <4>2. x[2] \in X  OBVIOUS
      <4> QED  BY <1>a, <3>1, <4>1, <4>2
    <3>2. CASE x[1] \notin 1 .. N  BY <3>2
    <3> QED  BY <3>1, <3>2
  <2> QED  BY <2>1
<1>4. \E g : IsUnwound(g, s, X, c, D)
  <2>1. PICK h : IsRecursive(h, 0, N, X, c, G)
    <3> HIDE DEF G, N
    <3> QED  BY <1>1, <1>3, Recursion
  <2>2. h \in [0 .. N -> X] /\ h[0] = c  BY <1>1, <2>1 DEF IsRecursive
  <2>3. ASSUME NEW k \in 1 .. N PROVE h[k] = D[<<s[N - k + 1], h[k - 1]>>]
    <3> HIDE DEF N
    <3>1. h[k] = G[<<k, h[k - 1]>>]  BY <1>2, <2>1 DEF IsRecursive
    <3>2. h[k - 1] \in X  BY <1>2, <2>2
    <3>3. <<k, h[k - 1]>> \in Nat \X X  BY <1>2, <3>2
    <3> QED  BY <3>1, <3>3
  <2>4. IsUnwound(h, s, X, c, D)
    <3>1. \A n \in 1 .. N : h[n] = D[<<s[N - n + 1], h[n - 1]>>]  BY <2>3
    <3> QED  BY ONLY <2>2, <3>1 DEF IsUnwound, N
  <2> QED  BY <2>4
<1> QED  BY <1>4

\* There are no others.
LEMMA UnwoundIs ==
  ASSUME NEW s, Len(s) \in Nat, NEW X, NEW c, NEW D, NEW g, IsUnwound(g, s, X, c, D)
  PROVE  Unwound(s, X, c, D) = g[Len(s)] /\ Unwound(s, X, c, D) \in X
<1> DEFINE N == Len(s)
           h == CHOOSE f : IsUnwound(f, s, X, c, D)
<1>1. N \in Nat /\ 0 \in Nat /\ 0 \in 0 .. N /\ N \in 0 .. N  OBVIOUS
<1>2. IsUnwound(h, s, X, c, D)  OBVIOUS
<1>3. Unwound(s, X, c, D) = h[N]  BY DEF Unwound
<1> HIDE DEF h
<1>4. g[N] = h[N]
  <2> DEFINE S == {k \in 0 .. N : g[k] = h[k]}
  <2>1. 0 \in S  BY <1>1, <1>2 DEF IsUnwound
  <2>2. ASSUME NEW k \in 0 + 1 .. N, k - 1 \in S PROVE k \in S
    <3>1. k \in 1 .. N /\ k \in 0 .. N  BY <1>1
    <3> QED  BY <1>2, <2>2, <3>1 DEF IsUnwound
  <2>3. 0 .. N \subseteq S
    <3> HIDE DEF S, N
    <3> QED  BY <1>1, <2>1, <2>2, RangeInduction
  <2> QED  BY <1>1, <2>3
<1>5. g[N] \in X  BY <1>1 DEF IsUnwound
<1> QED  BY <1>3, <1>4, <1>5

\* A stack on top of another one is read first.
LEMMA UnwoundBoth ==
  ASSUME NEW E, NEW s \in Seq(E), NEW t \in Seq(E), NEW X, NEW c \in X, NEW D, IsStep(D, E, X)
  PROVE  Unwound(s \o t, X, c, D) = Unwound(s, X, Unwound(t, X, c, D), D)
<1> DEFINE u == s \o t  M == Len(s)  N == Len(t)
<1>1. /\ u \in Seq(E) /\ Len(u) = M + N /\ M \in Nat /\ N \in Nat
      /\ \A i \in 1 .. M : u[i] = s[i]
      /\ \A i \in 1 .. N : u[M + i] = t[i]
  OBVIOUS
<1> HIDE DEF u
<1>2. PICK f : IsUnwound(f, u, X, c, D)  BY <1>1, UnwoundExists
<1>3. PICK g : IsUnwound(g, t, X, c, D)  BY UnwoundExists
<1>4. /\ Unwound(u, X, c, D) = f[Len(u)] /\ Unwound(t, X, c, D) = g[N]
      /\ Unwound(t, X, c, D) \in X
  <2>1. Len(u) \in Nat  BY <1>1
  <2>2. Unwound(u, X, c, D) = f[Len(u)]  BY <1>2, <2>1, UnwoundIs
  <2>3. Len(t) \in Nat  BY <1>1
  <2>4. Unwound(t, X, c, D) = g[Len(t)] /\ Unwound(t, X, c, D) \in X
    BY <1>3, <2>3, UnwoundIs
  <2> QED  BY <2>2, <2>4
<1> DEFINE d == Unwound(t, X, c, D)
<1>a. d = g[N] /\ d \in X  BY <1>4
<1> HIDE DEF d
<1>5. PICK h : IsUnwound(h, s, X, d, D)
  BY <1>a, UnwoundExists
<1>6. Unwound(s, X, d, D) = h[M]  BY <1>1, <1>5, UnwoundIs
<1>7. /\ f[0] = c /\ \A n \in 1 .. M + N : f[n] = D[<<u[M + N - n + 1], f[n - 1]>>]
      /\ g[0] = c /\ \A n \in 1 .. N : g[n] = D[<<t[N - n + 1], g[n - 1]>>]
      /\ h[0] = g[N] /\ \A n \in 1 .. M : h[n] = D[<<s[M - n + 1], h[n - 1]>>]
  <2>1. /\ f[0] = c /\ \A n \in 1 .. M + N : f[n] = D[<<u[M + N - n + 1], f[n - 1]>>]
    BY <1>1, <1>2 DEF IsUnwound
  <2>2. g[0] = c /\ \A n \in 1 .. N : g[n] = D[<<t[N - n + 1], g[n - 1]>>]
    BY <1>3 DEF IsUnwound
  <2>3. h[0] = g[N] /\ \A n \in 1 .. M : h[n] = D[<<s[M - n + 1], h[n - 1]>>]
    BY <1>a, <1>5 DEF IsUnwound
  <2> QED  BY <2>1, <2>2, <2>3
<1> HIDE DEF M, N
<1>8. f[N] = g[N]
  <2> DEFINE S == {k \in 0 .. N : f[k] = g[k]}
  <2>1. 0 \in S  BY <1>1, <1>7
  <2>2. ASSUME NEW k \in 0 + 1 .. N, k - 1 \in S PROVE k \in S
    <3>1. /\ k \in 1 .. N /\ k \in 0 .. N /\ k \in 1 .. M + N /\ N - k + 1 \in 1 .. N
          /\ M + N - k + 1 = M + (N - k + 1)
      BY <1>1
    <3>2. u[M + N - k + 1] = t[N - k + 1]  BY <1>1, <3>1
    <3>3. f[k - 1] = g[k - 1]  BY <2>2
    <3> QED  BY <1>7, <3>1, <3>2, <3>3
  <2>3. 0 .. N \subseteq S
    <3> HIDE DEF S
    <3> QED  BY <1>1, <2>1, <2>2, RangeInduction
  <2> QED  BY <1>1, <2>3
<1>9. f[N + M] = h[M]
  <2> DEFINE S == {k \in 0 .. M : f[N + k] = h[k]}
  <2>1. 0 \in S  BY <1>1, <1>7, <1>8
  <2>2. ASSUME NEW k \in 0 + 1 .. M, k - 1 \in S PROVE k \in S
    <3> DEFINE j == N + k
               i == M - k + 1
    <3>1. /\ k \in 1 .. M /\ k \in 0 .. M /\ j \in 1 .. M + N /\ i \in 1 .. M
          /\ M + N - j + 1 = i /\ j - 1 = N + (k - 1)
      BY <1>1
    <3>2. u[i] = s[i]
      <4> HIDE DEF i
      <4> QED  BY <1>1, <3>1
    <3>3. f[N + (k - 1)] = h[k - 1]  BY <2>2
    <3>4. u[M + N - j + 1] = s[i] /\ f[j - 1] = h[k - 1]
      <4> HIDE DEF i, j
      <4> QED  BY <3>1, <3>2, <3>3
    <3>5. h[k] = D[<<s[M - k + 1], h[k - 1]>>]  BY <1>7, <3>1
    <3>6. f[j] = h[k]
      <4> HIDE DEF j
      <4>1. f[j] = D[<<u[M + N - j + 1], f[j - 1]>>]  BY <1>7, <3>1
      <4> QED  BY <3>4, <3>5, <4>1
    <3> QED  BY <3>1, <3>6
  <2>3. 0 .. M \subseteq S
    <3> HIDE DEF S
    <3> QED  BY <1>1, <2>1, <2>2, RangeInduction
  <2> QED  BY <1>1, <2>3
<1>10. Len(u) = N + M  BY <1>1
<1> QED  BY <1>4, <1>6, <1>9, <1>10 DEF u, d

\* What holds at first and is kept by each entry holds in the end.
LEMMA UnwoundKeeps ==
  ASSUME NEW E, NEW s \in Seq(E), NEW X, NEW c \in X, NEW D, IsStep(D, E, X),
         NEW I, c \in I,
         \A i \in 1 .. Len(s) : \A x \in X : x \in I => D[<<s[i], x>>] \in I
  PROVE  Unwound(s, X, c, D) \in I
<1> DEFINE N == Len(s)
<1>0. PICK g : IsUnwound(g, s, X, c, D)  BY UnwoundExists
<1>1. /\ g \in [0 .. N -> X] /\ g[0] = c /\ N \in Nat /\ Unwound(s, X, c, D) = g[N]
      /\ \A n \in 1 .. N : g[n] = D[<<s[N - n + 1], g[n - 1]>>]
  <2>1. Len(s) \in Nat  OBVIOUS
  <2>2. Unwound(s, X, c, D) = g[N]  BY <1>0, <2>1, UnwoundIs
  <2> QED  BY <1>0, <2>1, <2>2 DEF IsUnwound
<1> HIDE DEF N
<1> DEFINE S == {k \in 0 .. N : g[k] \in I}
<1>2. 0 \in S  BY <1>1
<1>3. ASSUME NEW k \in 0 + 1 .. N, k - 1 \in S PROVE k \in S
  <2>1. k \in 1 .. N /\ k \in 0 .. N /\ k - 1 \in 0 .. N /\ N - k + 1 \in 1 .. N  BY <1>1
  <2>2. g[k - 1] \in X /\ g[k - 1] \in I  BY <1>1, <1>3, <2>1
  <2>3. D[<<s[N - k + 1], g[k - 1]>>] \in I  BY <2>1, <2>2 DEF N
  <2>4. g[k] = D[<<s[N - k + 1], g[k - 1]>>]  BY <1>1, <2>1
  <2> QED  BY <2>1, <2>3, <2>4
<1>4. 0 .. N \subseteq S
  <2> HIDE DEF S
  <2> QED  BY <1>1, <1>2, <1>3, RangeInduction
<1> QED  BY <1>1, <1>4

\* The entries of a stack.
Entries == {e \in [witness : Literal, clause : Proper] : e.witness \in e.clause}

\* What an entry of Kissat's stack does.
Position(el, lit) == CHOOSE i \in DOMAIN el : el[i] = Var(lit)
Open(el, e, lits) == {l \in e.clause : Var(l) \in ToSet(el) /\ {l, -l} \cap lits = {}}
Free(el, e, lits) ==
  {l \in Open(el, e, lits) : \A k \in Open(el, e, lits) : Position(el, k) <= Position(el, l)}
Restored(el, e, lits) ==
  IF e.clause \cap lits # {} THEN lits
  ELSE IF Free(el, e, lits) \ {e.witness} # {} THEN lits \cup Free(el, e, lits)
  ELSE (lits \ {-e.witness}) \cup {e.witness}
Restore(el) == [x \in Entries \X SUBSET Literal |-> Restored(el, x[1], x[2])]

\* What an entry of the stack of the MiniSat family does.
Flipped(e, lits) ==
  IF e.clause \ {e.witness} \subseteq Complement(lits)
  THEN (lits \ {-e.witness}) \cup {e.witness} ELSE lits
Flip == [x \in Entries \X SUBSET Literal |-> Flipped(x[1], x[2])]

\* Both make sets of literals.
LEMMA RestoreType ==
  /\ \A el : IsStep(Restore(el), Entries, SUBSET Literal)
  /\ IsStep(Flip, Entries, SUBSET Literal)
<1>1. ASSUME NEW e \in Entries, NEW lits \in SUBSET Literal
      PROVE  Flipped(e, lits) \in SUBSET Literal /\ \A el : Restored(el, e, lits) \in SUBSET Literal
  <2>1. e.witness \in Literal /\ e.clause \in SUBSET Literal  BY DEF Entries, Proper
  <2>2. \A el : Free(el, e, lits) \in SUBSET Literal  BY <2>1 DEF Free, Open
  <2> QED  BY <2>1, <2>2 DEF Flipped, Restored
<1>2. \A x \in Entries \X SUBSET Literal : x[1] \in Entries /\ x[2] \in SUBSET Literal  OBVIOUS
<1> QED  BY <1>1, <1>2 DEF Restore, Flip, IsStep

\* Kissat reads its stack in this way.
LEMMA ExtendedIs ==
  ASSUME NEW s \in Seq(Entries), NEW el, NEW true \in SUBSET Literal
  PROVE  Extended(s, el, true) = Unwound(s, SUBSET Literal, true, Restore(el))
<1> DEFINE X == SUBSET Literal
           D == Restore(el)
           Body(g) == [n \in 0 .. Len(s) |->
                         IF n = 0 THEN true ELSE Restored(el, s[Len(s) - n + 1], g[n - 1])]
           F == CHOOSE g : g = Body(g)
<1>1. Extended(s, el, true) = F[Len(s)]
  BY DEF Extended, Restored, Free, Open, Position
<1>2. IsStep(D, Entries, X)  BY RestoreType
<1>3. Len(s) \in Nat /\ true \in X /\ \A i \in 1 .. Len(s) : s[i] \in Entries  OBVIOUS
<1> HIDE DEF D, X
<1>4. PICK h : IsUnwound(h, s, X, true, D)  BY <1>2, <1>3, UnwoundExists
<1>5. Unwound(s, X, true, D) = h[Len(s)]  BY <1>3, <1>4, UnwoundIs
<1> DEFINE N == Len(s)
<1>6. /\ h \in [0 .. N -> X] /\ h[0] = true
      /\ \A n \in 1 .. N : h[n] = D[<<s[N - n + 1], h[n - 1]>>]
  BY <1>4 DEF IsUnwound
<1>7. \A n \in 1 .. N : h[n] = Restored(el, s[N - n + 1], h[n - 1])
  <2> SUFFICES ASSUME NEW n \in 1 .. N PROVE h[n] = Restored(el, s[N - n + 1], h[n - 1])
    OBVIOUS
  <2>1. N - n + 1 \in 1 .. N /\ n - 1 \in 0 .. N  BY <1>3
  <2>2. s[N - n + 1] \in Entries /\ h[n - 1] \in X
    <3>1. s[N - n + 1] \in Entries  BY <1>3, <2>1
    <3> HIDE DEF N
    <3> QED  BY <1>6, <2>1, <3>1
  <2> HIDE DEF N
  <2>3. \A e \in Entries : \A lits \in X : D[<<e, lits>>] = Restored(el, e, lits)
    BY DEF D, X, Restore
  <2> QED  BY <1>6, <2>2, <2>3
<1>8. h = Body(h)
  <2> DEFINE B == Body(h)
  <2>1. h = [n \in 0 .. N |-> h[n]]  BY <1>6
  <2>2. ASSUME NEW n \in 0 .. N
        PROVE  h[n] = IF n = 0 THEN true ELSE Restored(el, s[N - n + 1], h[n - 1])
    <3>1. n # 0 => n \in 1 .. N  BY <1>3
    <3> HIDE DEF N
    <3> QED  BY <1>6, <1>7, <3>1
  <2> QED  BY <2>1, <2>2
<1>9. F = Body(F)
  <2> HIDE DEF Body
  <2> QED  BY <1>8
<1> HIDE DEF F
<1>10. \A k \in 0 .. N : F[k] = IF k = 0 THEN true ELSE Restored(el, s[N - k + 1], F[k - 1])
  <2>1. \A k \in 0 .. N : F[k] = Body(F)[k]  BY <1>9
  <2> QED  BY <2>1
<1> HIDE DEF Body
<1>11. F[N] = h[N]
  <2> DEFINE S == {k \in 0 .. N : F[k] = h[k]}
  <2>0. N \in Nat /\ 0 \in Nat /\ 0 \in 0 .. N /\ N \in 0 .. N  BY <1>3
  <2>1. 0 \in S  BY <1>6, <1>10, <2>0
  <2>2. ASSUME NEW k \in 0 + 1 .. N, k - 1 \in S PROVE k \in S
    <3>1. k \in 1 .. N /\ k \in 0 .. N /\ k # 0  BY <2>0
    <3> HIDE DEF N
    <3> QED  BY <1>7, <1>10, <2>2, <3>1
  <2>3. 0 .. N \subseteq S
    <3> HIDE DEF S, N
    <3> QED  BY <2>0, <2>1, <2>2, RangeInduction
  <2> QED  BY <2>0, <2>3
<1> QED  BY <1>1, <1>5, <1>11 DEF X, D

\* And the MiniSat family in this.
LEMMA ExtendedModelIs ==
  ASSUME NEW s \in Seq(Entries), NEW true \in SUBSET Literal
  PROVE  ExtendedModel(s, true) = Unwound(s, SUBSET Literal, true, Flip)
<1> DEFINE X == SUBSET Literal
           Body(g) == [n \in 0 .. Len(s) |->
                         IF n = 0 THEN true ELSE Flipped(s[Len(s) - n + 1], g[n - 1])]
           F == CHOOSE g : g = Body(g)
<1>1. ExtendedModel(s, true) = F[Len(s)]
  BY DEF ExtendedModel, Flipped
<1>2. IsStep(Flip, Entries, X)  BY RestoreType
<1>3. Len(s) \in Nat /\ true \in X /\ \A i \in 1 .. Len(s) : s[i] \in Entries  OBVIOUS
<1> HIDE DEF X
<1>4. PICK h : IsUnwound(h, s, X, true, Flip)  BY <1>2, <1>3, UnwoundExists
<1>5. Unwound(s, X, true, Flip) = h[Len(s)]  BY <1>3, <1>4, UnwoundIs
<1> DEFINE N == Len(s)
<1>6. /\ h \in [0 .. N -> X] /\ h[0] = true
      /\ \A n \in 1 .. N : h[n] = Flip[<<s[N - n + 1], h[n - 1]>>]
  BY <1>4 DEF IsUnwound
<1>7. \A n \in 1 .. N : h[n] = Flipped(s[N - n + 1], h[n - 1])
  <2> SUFFICES ASSUME NEW n \in 1 .. N PROVE h[n] = Flipped(s[N - n + 1], h[n - 1])
    OBVIOUS
  <2>1. N - n + 1 \in 1 .. N /\ n - 1 \in 0 .. N  BY <1>3
  <2>2. s[N - n + 1] \in Entries /\ h[n - 1] \in X
    <3>1. s[N - n + 1] \in Entries  BY <1>3, <2>1
    <3> HIDE DEF N
    <3> QED  BY <1>6, <2>1, <3>1
  <2> HIDE DEF N
  <2>3. \A e \in Entries : \A lits \in X : Flip[<<e, lits>>] = Flipped(e, lits)
    BY DEF X, Flip
  <2> QED  BY <1>6, <2>2, <2>3
<1>8. h = Body(h)
  <2>1. h = [n \in 0 .. N |-> h[n]]  BY <1>6
  <2>2. ASSUME NEW n \in 0 .. N
        PROVE  h[n] = IF n = 0 THEN true ELSE Flipped(s[N - n + 1], h[n - 1])
    <3>1. n # 0 => n \in 1 .. N  BY <1>3
    <3> HIDE DEF N
    <3> QED  BY <1>6, <1>7, <3>1
  <2> QED  BY <2>1, <2>2
<1>9. F = Body(F)
  <2> HIDE DEF Body
  <2> QED  BY <1>8
<1> HIDE DEF F
<1>10. \A k \in 0 .. N : F[k] = IF k = 0 THEN true ELSE Flipped(s[N - k + 1], F[k - 1])
  <2>1. \A k \in 0 .. N : F[k] = Body(F)[k]  BY <1>9
  <2> QED  BY <2>1
<1> HIDE DEF Body
<1>11. F[N] = h[N]
  <2> DEFINE S == {k \in 0 .. N : F[k] = h[k]}
  <2>0. N \in Nat /\ 0 \in Nat /\ 0 \in 0 .. N /\ N \in 0 .. N  BY <1>3
  <2>1. 0 \in S  BY <1>6, <1>10, <2>0
  <2>2. ASSUME NEW k \in 0 + 1 .. N, k - 1 \in S PROVE k \in S
    <3>1. k \in 1 .. N /\ k \in 0 .. N /\ k # 0  BY <2>0
    <3> HIDE DEF N
    <3> QED  BY <1>7, <1>10, <2>2, <3>1
  <2>3. 0 .. N \subseteq S
    <3> HIDE DEF S, N
    <3> QED  BY <2>0, <2>1, <2>2, RangeInduction
  <2> QED  BY <2>0, <2>3
<1> QED  BY <1>1, <1>5, <1>11 DEF X

\* No literal and its complement.
Consistent(lits) == \A l \in lits : -l \notin lits

\* Some literal without a value is the last to be eliminated.
LEMMA FreeIs ==
  ASSUME NEW V, NEW el \in Seq(V), NEW e, NEW lits, Open(el, e, lits) # {}
  PROVE  Free(el, e, lits) # {}
<1> DEFINE O == Open(el, e, lits)
           S == {Len(el) - Position(el, k) : k \in O}
<1>1. ASSUME NEW k \in O PROVE Position(el, k) \in 1 .. Len(el)
  <2>1. \E i \in DOMAIN el : el[i] = Var(k)  BY DEF Open, ToSet
  <2>2. Position(el, k) \in DOMAIN el  BY <2>1 DEF Position
  <2> QED  BY <2>2
<1>2. Len(el) \in Nat  OBVIOUS
<1> HIDE DEF O
<1>3. S \in SUBSET Nat /\ S # {}
  <2>1. \A k \in O : Len(el) - Position(el, k) \in Nat  BY <1>1, <1>2
  <2>2. O # {}  BY DEF O
  <2> QED  BY <2>1, <2>2
<1>4. PICK n \in S : \A m \in S : n <= m
  <2> HIDE DEF S
  <2> QED  BY <1>3, Least
<1>5. PICK l \in O : n = Len(el) - Position(el, l)  BY <1>4
<1>6. \A k \in O : Position(el, k) <= Position(el, l)
  <2> SUFFICES ASSUME NEW k \in O PROVE Position(el, k) <= Position(el, l)  OBVIOUS
  <2>1. Len(el) - Position(el, l) <= Len(el) - Position(el, k)  BY <1>4, <1>5
  <2> QED  BY <1>1, <1>2, <2>1
<1> QED  BY <1>6 DEF Free, O

\* An entry makes its clause true. It takes a value back only if all other literals of
\* the clause are false and none is open.
LEMMA RestoredIs ==
  ASSUME NEW V, NEW el \in Seq(V), NEW e \in Entries, NEW lits \in SUBSET Literal,
         NEW q, q = Restored(el, e, lits)
  PROVE  /\ q \in SUBSET Literal
         /\ q \cap e.clause # {}
         /\ lits \ {-e.witness} \subseteq q
         /\ e.clause \cap lits # {} => q = lits
         /\ q \subseteq lits \cup e.clause
         /\ Consistent(lits) => Consistent(q)
         /\ -e.witness \in lits /\ -e.witness \notin q =>
              /\ e.witness \in q
              /\ \A l \in e.clause \ {e.witness} :
                   l \notin lits /\ (Var(l) \notin ToSet(el) \/ -l \in lits)
         /\ e.clause = {e.witness} => e.witness \in q
<1> DEFINE w == e.witness
           c == e.clause
           O == Open(el, e, lits)
           F == Free(el, e, lits)
<1>1. /\ w \in Literal /\ -w \in Literal /\ -(-w) = w /\ w # -w /\ c \in SUBSET Literal /\ w \in c
      /\ \A l \in c : -l \notin c
  BY Literals DEF Entries, Proper
<1>2. F \subseteq O /\ O \subseteq c /\ \A l \in O : l \notin lits /\ -l \notin lits
  BY DEF Free, Open
<1>3. q = IF c \cap lits # {} THEN lits
          ELSE IF F \ {w} # {} THEN lits \cup F ELSE (lits \ {-w}) \cup {w}
  BY DEF Restored
<1>4. \A l \in c : l \notin lits => l \in O \/ -l \in lits \/ Var(l) \notin ToSet(el)
  BY DEF Open
<1>5. O # {} => F # {}  BY FreeIs
<1>a. \A l \in Literal : -l \in Literal /\ -(-l) = l /\ l # -l  BY Literals
<1> HIDE DEF w, c, O, F
<1>6. CASE c \cap lits # {}
  <2>1. q = lits  BY <1>3, <1>6
  <2>2. c = {w} => w \in q  BY <1>6, <2>1
  <2> QED  BY <1>6, <2>1, <2>2 DEF w, c
<1>7. CASE c \cap lits = {} /\ F \ {w} # {}
  <2>1. q = lits \cup F  BY <1>3, <1>7
  <2>2. Consistent(lits) => Consistent(q)
    <3> SUFFICES ASSUME Consistent(lits), NEW l \in q, -l \in q PROVE FALSE
      BY DEF Consistent
    <3>1. l \in Literal /\ -(-l) = l  BY <1>1, <1>2, <1>a, <2>1
    <3>2. CASE l \in lits
      <4>1. -l \notin F  BY <1>2, <3>1, <3>2
      <4> QED  BY <2>1, <3>2, <4>1 DEF Consistent
    <3>3. CASE l \in F
      <4>1. -l \in F  BY <1>2, <2>1, <3>3
      <4> QED  BY <1>1, <1>2, <3>3, <4>1
    <3> QED  BY <2>1, <3>2, <3>3
  <2>3. q \in SUBSET Literal /\ q \subseteq lits \cup c  BY <1>1, <1>2, <2>1
  <2>4. q \cap c # {}  BY <1>2, <1>7, <2>1
  <2>5. c # {w}  BY <1>2, <1>7
  <2> QED  BY <1>7, <2>1, <2>2, <2>3, <2>4, <2>5 DEF w, c
<1>8. CASE c \cap lits = {} /\ F \ {w} = {}
  <2>1. q = (lits \ {-w}) \cup {w}  BY <1>3, <1>8
  <2>2. Consistent(lits) => Consistent(q)
    <3> SUFFICES ASSUME Consistent(lits), NEW l \in q, -l \in q PROVE FALSE
      BY DEF Consistent
    <3>1. l \in Literal /\ -(-l) = l  BY <1>1, <1>a, <2>1
    <3> QED  BY <1>1, <2>1, <3>1 DEF Consistent
  <2>3. q \in SUBSET Literal /\ q \subseteq lits \cup c /\ w \in q /\ q \cap c # {}
    BY <1>1, <2>1
  <2>4. ASSUME -w \in lits, NEW l \in c \ {w}
        PROVE  l \notin lits /\ (Var(l) \notin ToSet(el) \/ -l \in lits)
    <3>1. w \notin O  BY <1>2, <2>4
    <3>2. F = {}  BY <1>2, <1>8, <3>1
    <3>3. O = {}  BY <1>5, <3>2
    <3> QED  BY <1>4, <1>8, <3>3
  <2> QED  BY <1>8, <2>1, <2>2, <2>3, <2>4 DEF w, c
<1> QED  BY <1>6, <1>7, <1>8

\* Consistent literals are part of an assignment.
LEMMA Completion ==
  ASSUME NEW p \in SUBSET Literal, Consistent(p)
  PROVE  \E b \in Assignment : p \subseteq b
<1> DEFINE b == p \cup {l \in Literal : l > 0 /\ l \notin p /\ -l \notin p}
<1>1. \A l \in Literal : /\ -l \in Literal /\ -(-l) = l /\ l \in Int /\ -l \in Int
                         /\ l > 0 <=> ~(-l > 0)
  BY NumVarsAssumption DEF Literal
<1>2. ASSUME NEW l \in Literal PROVE l \in b <=> -l \notin b
  <2>1. -l \in Literal /\ -(-l) = l /\ (l > 0 <=> ~(-l > 0))  BY <1>1
  <2>2. ~(l \in p /\ -l \in p)  BY DEF Consistent
  <2> QED  BY <2>1, <2>2
<1>3. b \in SUBSET Literal /\ p \subseteq b  OBVIOUS
<1> HIDE DEF b
<1> QED  BY <1>2, <1>3 DEF Assignment

\* A clause that is true however the remaining variables get values is true already.
LEMMA TrueAlready ==
  ASSUME NEW p \in SUBSET Literal, Consistent(p), NEW c \in Proper,
         \A b \in Assignment : p \subseteq b => c \cap b # {}
  PROVE  c \cap p # {}
<1> SUFFICES ASSUME c \cap p = {} PROVE FALSE  OBVIOUS
<1> DEFINE q == p \cup Complement(c)
<1>1. \A l \in c : l \in Literal /\ -l \in Literal /\ -(-l) = l /\ -l \notin c
  BY Literals DEF Proper
<1>2. c \in SUBSET Literal /\ Complement(c) \in SUBSET Literal
  BY <1>1 DEF Complement
<1>3. Consistent(q)
  <2> SUFFICES ASSUME NEW l \in q, -l \in q PROVE FALSE  BY DEF Consistent
  <2>0. l \in Literal /\ -(-l) = l  BY <1>2, Literals
  <2>1. \A k \in Complement(c) : -k \in c  BY <1>1 DEF Complement
  <2>2. CASE l \in p
    <3>1. -l \notin p  BY <2>2 DEF Consistent
    <3>2. -l \in Complement(c)  BY <3>1
    <3> QED  BY <2>0, <2>1, <2>2, <3>2
  <2>3. CASE l \in Complement(c)
    <3>1. -l \in c  BY <2>1, <2>3
    <3>2. -l \in Complement(c)  BY <3>1
    <3>3. l \in c  BY <2>0, <2>1, <3>2
    <3> QED  BY <1>1, <3>1, <3>3
  <2> QED  BY <2>2, <2>3
<1>4. PICK b \in Assignment : q \subseteq b
  <2>1. q \in SUBSET Literal  BY <1>2
  <2> HIDE DEF q
  <2> QED  BY <1>3, <2>1, Completion
<1>5. c \cap b = {}  BY <1>2, <1>4, Complements
<1> QED  BY <1>4, <1>5

-----------------------------------------------------------------------------
(* What is left of the formula                                             *)

\* The assignments that the search may find.
Left == {b \in Assignment : fixed \subseteq b /\ Satisfies(b, irredundant)}

\* Values for the variables that are left, some of them perhaps missing, that make
\* everything true that is left.
Partial(p, more) ==
  /\ p \in SUBSET Literal /\ Consistent(p)
  /\ \A l \in p : Var(l) \notin Eliminated
  /\ \A v \in 1 .. NumVars : v \in Eliminated \/ v \in ToSet(more) \/ v \in p \/ -v \in p
  /\ \A b \in Assignment : p \subseteq b => b \in Left

\* The stack of Kissat makes a solution of the formula of such values, even if the values
\* of variables are missing that are going to be eliminated.
Rebuilds ==
  \A more \in Seq(1 .. NumVars) : \A p \in SUBSET Literal :
    Partial(p, more) => Satisfies(Extended(extension, eliminated \o more, p), Input)

\* Sequences one after the other.
LEMMA Concatenated ==
  ASSUME NEW S, NEW s \in Seq(S), NEW t \in Seq(S), NEW u \in Seq(S)
  PROVE  /\ s \o t \in Seq(S) /\ t \o u \in Seq(S) /\ s \o (t \o u) \in Seq(S)
         /\ (s \o t) \o u = s \o (t \o u)
OBVIOUS

\* More entries and variables come on the stack.
LEMMA StackGrows ==
  ASSUME Rebuilds, formula' = formula, extension \in Seq(Entries),
         eliminated \in Seq(1 .. NumVars),
         NEW w \in Seq(1 .. NumVars), eliminated' = eliminated \o w,
         NEW t \in Seq(Entries), extension' = extension \o t,
         \A more \in Seq(1 .. NumVars) : \A p \in SUBSET Literal :
           Partial(p, more)' =>
             Partial(Unwound(t, SUBSET Literal, p, Restore(eliminated \o (w \o more))), w \o more)
  PROVE  Rebuilds'
<1> DEFINE V == 1 .. NumVars  X == SUBSET Literal
<1> SUFFICES ASSUME NEW more \in Seq(V), NEW p \in X, Partial(p, more)'
             PROVE  Satisfies(Extended(extension', eliminated' \o more, p), Input)
  <2>1. Input' = Input  BY DEF Input
  <2> QED  BY <2>1 DEF Rebuilds
<1> DEFINE el == eliminated \o (w \o more)
           D == Restore(el)
           q == Unwound(t, X, p, D)
<1>1. w \o more \in Seq(V) /\ (eliminated \o w) \o more = el
  BY Concatenated
<1>2. Partial(q, w \o more)  OBVIOUS
<1>3. IsStep(D, Entries, X)  BY RestoreType
<1>4. q \in X  BY <1>2 DEF Partial
<1>5. extension' \in Seq(Entries)
  <2> HIDE DEF V, X, D
  <2> QED  OBVIOUS
<1>6. Extended(extension', el, p) = Unwound(extension', X, p, D)
  BY <1>5, ExtendedIs
<1>7. Extended(extension, el, q) = Unwound(extension, X, q, D)
  <2> HIDE DEF q
  <2> QED  BY <1>4, ExtendedIs
<1>8. Unwound(extension', X, p, D) = Unwound(extension, X, q, D)
  <2>1. Unwound(extension \o t, X, p, D) = Unwound(extension, X, Unwound(t, X, p, D), D)
    <3>1. extension \in Seq(Entries) /\ t \in Seq(Entries) /\ p \in X  OBVIOUS
    <3> HIDE DEF D, X, q
    <3> QED  BY ONLY <1>3, <3>1, UnwoundBoth
  <2> QED  BY <2>1
<1>9. Satisfies(Extended(extension, el, q), Input)
  <2> HIDE DEF q
  <2> QED  BY <1>1, <1>2, <1>4 DEF Rebuilds
<1>10. eliminated' \o more = el  BY <1>1
<1> HIDE DEF el, q, D
<1> QED  BY <1>6, <1>7, <1>8, <1>9, <1>10

\* Nothing comes on the stack and no assignment more is left.
LEMMA StackStays ==
  ASSUME Rebuilds, UNCHANGED <<formula, eliminated, extension>>, Left' \subseteq Left
  PROVE  Rebuilds'
<1>1. Input' = Input /\ Eliminated' = Eliminated  BY DEF Input, Eliminated
<1>2. \A more, p : Partial(p, more)' => Partial(p, more)
  BY <1>1 DEF Partial
<1> QED  BY <1>1, <1>2 DEF Rebuilds

\* Entries with witnesses of eliminated variables give values to these only.
LEMMA NewEntries ==
  ASSUME eliminated \in Seq(1 .. NumVars), Eliminated \in SUBSET (1 .. NumVars),
         NEW w \in Seq(1 .. NumVars), Eliminated' = Eliminated \cup ToSet(w),
         NEW t \in Seq(Entries),
         \A i \in 1 .. Len(t) : /\ Var(t[i].witness) \in Eliminated'
                                /\ \A l \in t[i].clause : Var(l) \notin Eliminated,
         NEW more \in Seq(1 .. NumVars), NEW p, Partial(p, more)',
         NEW q, q = Unwound(t, SUBSET Literal, p, Restore(eliminated \o (w \o more)))
  PROVE  /\ q \in SUBSET Literal /\ p \subseteq q /\ Consistent(q)
         /\ (\A b \in Assignment : q \subseteq b => b \in Left) => Partial(q, w \o more)
<1> DEFINE V == 1 .. NumVars  X == SUBSET Literal
           el == eliminated \o (w \o more)
           I == {x \in X : p \subseteq x /\ Consistent(x) /\ \A l \in x : Var(l) \notin Eliminated}
<1>1. el \in Seq(V) /\ ToSet(w \o more) = ToSet(w) \cup ToSet(more)
  BY Concatenated, Elements
<1>2. /\ p \in X /\ Consistent(p) /\ \A l \in p : Var(l) \notin Eliminated'
      /\ \A v \in V : v \in Eliminated' \/ v \in ToSet(more) \/ v \in p \/ -v \in p
  BY DEF Partial
<1>3. p \in I  BY <1>2
<1>4. ASSUME NEW i \in 1 .. Len(t), NEW x \in X, x \in I
      PROVE  Restore(el)[<<t[i], x>>] \in I
  <2> DEFINE e == t[i]  r == Restored(el, e, x)
  <2>1. e \in Entries  OBVIOUS
  <2>2. Restore(el)[<<e, x>>] = r
    <3> HIDE DEF e, el
    <3> QED  BY <2>1, <1>4 DEF Restore
  <2>3. /\ r \in X /\ x \ {-e.witness} \subseteq r /\ r \subseteq x \cup e.clause
        /\ Consistent(x) => Consistent(r)
    <3> HIDE DEF e, el
    <3> QED  BY <1>1, <1>4, <2>1, RestoredIs
  <2>4. -e.witness \notin p
    <3>1. e.witness \in Literal  BY <2>1 DEF Entries
    <3>2. Var(-e.witness) = Var(e.witness)  BY <3>1, Literals
    <3> QED  BY <1>2, <3>2
  <2>5. \A l \in e.clause : Var(l) \notin Eliminated  OBVIOUS
  <2> HIDE DEF e, r
  <2>6. r \in I  BY <1>4, <2>3, <2>4, <2>5
  <2> QED  BY <2>2, <2>6 DEF e
<1>5. q \in I
  <2> HIDE DEF I
  <2> DEFINE D == Restore(el)
  <2>1. IsStep(D, Entries, X)  BY RestoreType
  <2>2. \A i \in 1 .. Len(t) : \A x \in X : x \in I => D[<<t[i], x>>] \in I  BY <1>4
  <2>3. Unwound(t, X, p, D) \in I
    <3> HIDE DEF D, X
    <3> QED  BY <1>2, <1>3, <2>1, <2>2, UnwoundKeeps
  <2> QED  BY <2>3
<1>6. \A v \in V : v \in Eliminated \/ v \in ToSet(w \o more) \/ v \in q \/ -v \in q
  <2> HIDE DEF V
  <2> QED  BY <1>1, <1>2, <1>5
<1> QED  BY <1>5, <1>6 DEF Partial

\* Consistent literals are of different variables.
LEMMA ConsistentCard ==
  ASSUME NEW p \in SUBSET Literal, Consistent(p)
  PROVE  IsFiniteSet(p) /\ Cardinality(p) \in Nat /\ Cardinality(p) <= NumVars
<1> DEFINE V == 1 .. NumVars
<1>1. IsFiniteSet(V) /\ Cardinality(V) = NumVars
  <2>1. 1 \in Int /\ NumVars \in Int /\ NumVars >= 1  BY NumVarsAssumption
  <2> QED  BY <2>1, FS_Interval
<1>2. IsFiniteSet(p) /\ Cardinality(p) \in Nat  BY FinitelyManyLiterals
<1> DEFINE f == [l \in p |-> Var(l)]
<1>3. f \in Injection(p, V)
  <2>1. f \in [p -> V]  BY Literals
  <2>2. ASSUME NEW k \in p, NEW l \in p, f[k] = f[l] PROVE k = l
    <3>1. Var(k) = Var(l)  BY <2>2
    <3>2. k = l \/ k = -l  BY <3>1, Literals
    <3> QED  BY <3>2 DEF Consistent
  <2> HIDE DEF f
  <2> QED  BY <2>1, <2>2 DEF Injection, IsInjective
<1>4. Cardinality(p) <= Cardinality(V)
  <2> HIDE DEF V, f
  <2> QED  BY <1>1, <1>3, FS_Injection
<1> QED  BY <1>1, <1>2, <1>4

\* Propagation comes to an end: no clause is left with one literal that is not known,
\* unless propagation leads to a conflict.
LEMMA PropagationClosed ==
  ASSUME NEW cs, NEW lits \in SUBSET Literal, NEW P, P = Propagated(cs, lits),
         Consistent(P), ~Falsified(cs, P)
  PROVE  Units(cs, P) \subseteq P
<1>0. PICK g : IsPropagation(g, cs, lits)  BY PropagatedIs
<1> DEFINE N == NumVars
<1>1. /\ g \in [0 .. N -> SUBSET Literal]
      /\ P = g[N]
      /\ \A k \in 1 .. N : g[k] = g[k - 1] \cup Units(cs, g[k - 1])
  BY <1>0 DEF IsPropagation
<1>2. 0 \in Nat /\ N \in Nat /\ N \in 0 .. N /\ 0 \in 0 .. N
  BY NumVarsAssumption
<1>a. \A s \in SUBSET Literal : IsFiniteSet(s) /\ Cardinality(s) \in Nat
  BY FinitelyManyLiterals
<1>b. \A s \in SUBSET Literal : Units(cs, s) \subseteq Literal  BY DEF Units
<1> HIDE DEF N
<1> DEFINE Closed(k) == Units(cs, g[k]) \subseteq g[k]
           S == {k \in 0 .. N : Closed(k) \/ Cardinality(g[k]) >= k}
<1>3. 0 \in S
  <2>1. Cardinality(g[0]) \in Nat  BY <1>1, <1>2, <1>a
  <2> QED  BY <1>2, <2>1
<1>4. ASSUME NEW k \in 0 + 1 .. N, k - 1 \in S PROVE k \in S
  <2>1. /\ k - 1 \in 0 .. N /\ k \in 1 .. N /\ k \in 0 .. N
        /\ Closed(k - 1) \/ Cardinality(g[k - 1]) >= k - 1
    BY <1>2, <1>4
  <2>2. g[k] = g[k - 1] \cup Units(cs, g[k - 1])  BY <1>1, <2>1
  <2>3. CASE Closed(k - 1)
    <3>1. g[k] = g[k - 1]  BY <2>2, <2>3
    <3>2. Closed(k)  BY <2>3, <3>1
    <3> QED  BY <2>1, <3>2
  <2>4. CASE ~Closed(k - 1) /\ Cardinality(g[k - 1]) >= k - 1
    <3> HIDE DEF S
    <3>1. g[k - 1] \in SUBSET Literal /\ g[k] \in SUBSET Literal  BY <1>1, <2>1
    <3>2. /\ IsFiniteSet(g[k]) /\ Cardinality(g[k]) \in Nat
          /\ Cardinality(g[k - 1]) \in Nat
      BY <1>a, <3>1
    <3>3. g[k - 1] \in SUBSET g[k] /\ g[k - 1] # g[k]  BY <2>2, <2>4
    <3> HIDE DEF Closed
    <3>4. /\ Cardinality(g[k - 1]) <= Cardinality(g[k])
          /\ Cardinality(g[k - 1]) # Cardinality(g[k])
      BY <3>2, <3>3, FS_Subset
    <3>5. Cardinality(g[k]) >= k  BY <2>1, <2>4, <3>2, <3>4
    <3> QED  BY <2>1, <3>5 DEF S
  <2> QED  BY <2>1, <2>3, <2>4
<1>5. 0 .. N \subseteq S
  <2> HIDE DEF S
  <2> QED  BY <1>2, <1>3, <1>4, RangeInduction
<1>6. Closed(N) \/ Cardinality(P) >= N
  <2>1. N \in S  BY <1>2, <1>5
  <2> QED  BY <1>1, <2>1
<1>7. P \in SUBSET Literal  BY <1>1, <1>2
<1>8. ASSUME NEW l \in Units(cs, P), l \notin P, Cardinality(P) >= N PROVE FALSE
  <2>1. l \in Literal /\ -l \in Literal /\ -(-l) = l /\ l # -l  BY <1>7, <1>b, Literals
  <2>2. PICK c \in cs : l \in c /\ c \ {l} \subseteq Complement(P)  BY <1>8 DEF Units
  <2>3. CASE -l \in P
    <3>1. -(-l) \in Complement(P)  BY <2>3 DEF Complement
    <3>2. c \subseteq Complement(P)  BY <2>1, <2>2, <3>1
    <3> QED  BY <3>2 DEF Falsified
  <2>4. CASE -l \notin P
    <3> DEFINE Q == P \cup {l}
    <3>1. Consistent(Q)
      <4> SUFFICES ASSUME NEW k \in Q PROVE -k \notin Q  BY DEF Consistent
      <4>1. k \in Literal /\ -(-k) = k  BY <1>7, <2>1, Literals
      <4>2. CASE k = l  BY <2>1, <2>4, <4>2
      <4>3. CASE k \in P
        <5>1. -k \notin P  BY <4>3 DEF Consistent
        <5>2. -k # l  BY <2>4, <4>1, <4>3
        <5> QED  BY <5>1, <5>2
      <4> QED  BY <4>2, <4>3
    <3>2. Q \in SUBSET Literal  BY <1>7, <2>1
    <3>3. Cardinality(Q) <= NumVars
      <4> HIDE DEF Q
      <4> QED  BY <3>1, <3>2, ConsistentCard
    <3>4. IsFiniteSet(P) /\ Cardinality(P) \in Nat  BY <1>7, <1>a
    <3>5. Cardinality(Q) = Cardinality(P) + 1  BY <1>8, <3>4, FS_AddElement
    <3> QED  BY <1>2, <1>8, <3>3, <3>4, <3>5 DEF N
  <2> QED  BY <2>3, <2>4
<1> QED  BY <1>1, <1>6, <1>8

\* No literal of a clause is known, and at least two are not.
Tidy ==
  \A c \in irredundant \cup redundant :
    c # {} /\ \A l \in c : l \notin fixed /\ -l \notin fixed /\ c # {l}

\* The literals of a clause that are left.
LEMMA TidiedIs ==
  ASSUME NEW cs \in SUBSET Proper, NEW P \in SUBSET Literal, ~Falsified(cs, P),
         Units(cs, P) \subseteq P, NEW c \in Tidied(cs, P)
  PROVE  c # {} /\ \A l \in c : l \notin P /\ -l \notin P /\ c # {l}
<1>1. PICK d \in cs : d \cap P = {} /\ c = d \ Complement(P)  BY DEF Tidied
<1>2. d \in SUBSET Literal  BY DEF Proper
<1>3. c # {}  BY <1>1 DEF Falsified
<1>4. ASSUME NEW l \in c PROVE l \notin P /\ -l \notin P /\ c # {l}
  <2>1. l \in d /\ l \in Literal /\ -(-l) = l  BY <1>1, <1>2, Literals
  <2>2. l \notin P  BY <1>1, <2>1
  <2>3. -l \notin P
    <3>1. -l \in P => -(-l) \in Complement(P)  BY DEF Complement
    <3> QED  BY <1>1, <1>4, <2>1, <3>1
  <2>4. c # {l}
    <3> SUFFICES ASSUME c = {l} PROVE FALSE  OBVIOUS
    <3>1. d \ {l} \subseteq Complement(P)  BY <1>1
    <3>2. l \in Units(cs, P)  BY <1>1, <2>1, <3>1 DEF Units
    <3> QED  BY <2>2, <3>2
  <2> QED  BY <2>2, <2>3, <2>4
<1> QED  BY <1>3, <1>4

\* What is settled is tidy.
LEMMA SettleTidy ==
  ASSUME NEW irr \in SUBSET Proper, NEW red \in SUBSET Proper, NEW lits \in SUBSET Literal,
         Settle(irr, red, lits), ok', Consistent(fixed')
  PROVE  Tidy'
<1> DEFINE cs == irr \cup red  P == Propagated(cs, lits)
<1>1. /\ ~Falsified(cs, P) /\ fixed' = P
      /\ irredundant' = Tidied(irr, P) /\ redundant' = Tidied(red, P)
  BY DEF Settle
<1>2. P \in SUBSET Literal  BY PropagatedTrue
<1>3. Units(cs, P) \subseteq P
  <2> HIDE DEF cs
  <2> QED  BY <1>1, PropagationClosed
<1> HIDE DEF P
<1>4. Tidied(cs, P) = Tidied(irr, P) \cup Tidied(red, P)  BY DEF Tidied
<1>5. cs \in SUBSET Proper  OBVIOUS
<1> HIDE DEF cs
<1>6. \A c \in Tidied(cs, P) : c # {} /\ \A l \in c : l \notin P /\ -l \notin P /\ c # {l}
  BY <1>1, <1>2, <1>3, <1>5, TidiedIs
<1> QED  BY <1>1, <1>4, <1>6 DEF Tidy

\* Clauses that have been settled are true in all assignments that are left.
LEMMA SettleLeft ==
  ASSUME NEW irr \in SUBSET Proper, NEW red, NEW lits \in SUBSET Literal,
         Settle(irr, red, lits), ok', NEW b, b \in Left'
  PROVE  /\ b \in Assignment /\ fixed' \subseteq b /\ lits \subseteq b
         /\ \A c \in irr : c \cap b # {}
<1> DEFINE P == Propagated(irr \cup red, lits)
<1>1. fixed' = P /\ irredundant' = Tidied(irr, P)  BY DEF Settle
<1>2. lits \subseteq P  BY PropagatedTrue
<1> HIDE DEF P
<1>3. b \in Assignment /\ P \subseteq b /\ \A c \in irredundant' : c \cap b # {}
  BY <1>1 DEF Left, Satisfies
<1>4. ASSUME NEW c \in irr PROVE c \cap b # {}
  <2>1. CASE c \cap P # {}  BY <1>3, <2>1
  <2>2. CASE c \cap P = {}
    <3>1. c \ Complement(P) \in irredundant'  BY <1>1, <2>2 DEF Tidied
    <3> QED  BY <1>3, <3>1
  <2> QED  BY <2>1, <2>2
<1> QED  BY <1>1, <1>2, <1>3, <1>4

-----------------------------------------------------------------------------
(* The fourth invariant                                                    *)

\* The clauses are tidy, unless some literal is fixed together with its complement; then
\* no assignment is left.
TidyInv == pc \notin {"load", "gauss"} /\ Consistent(fixed) => Tidy

\* While the formula is loaded, its clauses so far are true in all assignments left.
LoadInv == pc = "load" => \A b \in Left : \A i \in 1 .. loaded : formula[i] \cap b # {}

\* Then a solution is made of each assignment that is left, or by Kissat of the values of
\* the variables that are left.
Rebuilt ==
  IF solver = "Kissat" THEN Rebuilds
  ELSE \A b \in Left : Satisfies(ExtendedModel(extension, b), Input)

\* ModelIsReconstructed for values that are left of a formula and of its variables.
RecInv ==
  /\ OutInv
  /\ extension \in Seq(Entries)
  /\ pc = "load" => eliminated = << >> /\ extension = << >>
  /\ ok => TidyInv /\ LoadInv /\ (pc # "load" => Rebuilt)

\* What the invariant says of the variables.
LEMMA RecKnown ==
  ASSUME RecInv
  PROVE  /\ OutInv /\ SoundInv
         /\ irredundant \in SUBSET Proper /\ redundant \in SUBSET Proper
         /\ fixed \in SUBSET Literal
         /\ eliminated \in Seq(1 .. NumVars) /\ Eliminated \in SUBSET (1 .. NumVars)
         /\ extension \in Seq(Entries)
BY OutKnown DEF RecInv, OutInv

\* No assignment more is left.
LEMMA RebuiltStays ==
  ASSUME Rebuilt, UNCHANGED <<solver, formula, eliminated, extension>>, Left' \subseteq Left
  PROVE  Rebuilt'
<1>1. CASE solver = "Kissat"
  <2>1. Rebuilds  BY <1>1 DEF Rebuilt
  <2>2. Rebuilds'  BY <2>1, StackStays
  <2> QED  BY <1>1, <2>2 DEF Rebuilt
<1>2. CASE solver # "Kissat"
  <2>1. \A b \in Left : Satisfies(ExtendedModel(extension, b), Input)
    BY <1>2 DEF Rebuilt
  <2>2. Input' = Input  BY DEF Input
  <2>3. \A b \in Left' : Satisfies(ExtendedModel(extension, b), Input)  BY <2>1
  <2> QED  BY <1>2, <2>2, <2>3 DEF Rebuilt
<1> QED  BY <1>1, <1>2

\* A step that changes clauses and literals, but not the stack.
LEMMA KeepRec ==
  ASSUME RecInv, OutInv', ok, UNCHANGED <<inputVars, stackVars>>,
         pc # "load", pc' \notin {"load", "gauss"},
         ok' /\ Consistent(fixed') => Tidy' /\ Left' \subseteq Left
  PROVE  RecInv'
<1>0. /\ extension' \in Seq(Entries) /\ Rebuilt
      /\ UNCHANGED <<solver, formula, eliminated, extension>>
  <2>1. extension' = extension /\ UNCHANGED <<solver, formula, eliminated>>
    BY DEF inputVars, stackVars
  <2> QED  BY <2>1 DEF RecInv
<1>1. ok' => TidyInv'  BY DEF TidyInv
<1>2. LoadInv'  BY DEF LoadInv
<1>3. ASSUME ok' PROVE Left' \subseteq Left
  <2>1. CASE Consistent(fixed')  BY <1>3, <2>1
  <2>2. CASE ~Consistent(fixed')
    <3> SUFFICES ASSUME NEW b \in Left' PROVE FALSE  OBVIOUS
    <3>1. b \in Assignment /\ fixed' \subseteq b  BY DEF Left
    <3>2. PICK l \in fixed' : -l \in fixed'  BY <2>2 DEF Consistent
    <3>3. b \in SUBSET Literal /\ \A k \in Literal : k \in b <=> -k \notin b
      BY <3>1, Values
    <3> QED  BY <3>1, <3>2, <3>3
  <2> QED  BY <2>1, <2>2
<1>4. ok' => Rebuilt'  BY <1>0, <1>3, RebuiltStays
<1> QED  BY <1>0, <1>1, <1>2, <1>4 DEF RecInv

\* Fixed literals stay, and clauses are settled that no assignment more makes true.
LEMMA SettleRec ==
  ASSUME RecInv, OutInv', ok, UNCHANGED <<inputVars, stackVars>>,
         pc # "load", pc' \notin {"load", "gauss"}, ok' => fixed \subseteq fixed',
         NEW irr \in SUBSET Proper, NEW red \in SUBSET Proper, NEW lits \in SUBSET Literal,
         Settle(irr, red, lits),
         \A b \in Assignment :
           fixed \subseteq b /\ (\A c \in irr : c \cap b # {}) =>
             \A c \in irredundant : c \cap b # {}
  PROVE  RecInv'
<1>1. ASSUME ok', Consistent(fixed') PROVE Tidy'  BY <1>1, SettleTidy
<1>2. ASSUME ok', NEW b \in Left' PROVE b \in Left
  <2>1. /\ b \in Assignment /\ fixed' \subseteq b /\ \A c \in irr : c \cap b # {}
    BY <1>2, SettleLeft
  <2>2. fixed \subseteq b /\ \A c \in irredundant : c \cap b # {}  BY <1>2, <2>1
  <2> QED  BY <2>1, <2>2 DEF Left, Satisfies
<1> QED  BY <1>1, <1>2, KeepRec

\* Propagation keeps what is fixed.
LEMMA SettleKeeps ==
  ASSUME NEW irr, NEW red, NEW lits \in SUBSET Literal, fixed \subseteq lits,
         Settle(irr, red, lits)
  PROVE  fixed \subseteq fixed'
<1>1. lits \subseteq Propagated(irr \cup red, lits)  BY PropagatedTrue
<1>2. fixed' = fixed \/ fixed' = Propagated(irr \cup red, lits)  BY DEF Settle
<1> QED  BY <1>1, <1>2

\* Clauses are removed that the others imply.
LEMMA RemoveRec ==
  ASSUME RecInv, OutInv', ok, UNCHANGED <<inputVars, stackVars, fixed, ok>>,
         pc \notin {"load", "gauss"}, pc' \notin {"load", "gauss"},
         irredundant' \subseteq irredundant, redundant' \subseteq redundant,
         \A b \in Assignment :
           fixed \subseteq b /\ (\A c \in irredundant' : c \cap b # {}) =>
             \A c \in irredundant : c \cap b # {}
  PROVE  RecInv'
<1>1. ASSUME Consistent(fixed') PROVE Tidy'
  <2>1. Tidy  BY <1>1 DEF RecInv, TidyInv
  <2>2. fixed' = fixed  OBVIOUS
  <2> QED  BY <2>1, <2>2 DEF Tidy
<1>2. ASSUME NEW b \in Left' PROVE b \in Left
  <2>1. /\ b \in Assignment /\ fixed \subseteq b /\ \A c \in irredundant' : c \cap b # {}
    BY DEF Left, Satisfies
  <2>2. \A c \in irredundant : c \cap b # {}  BY <2>1
  <2> QED  BY <2>1, <2>2 DEF Left, Satisfies
<1> QED  BY <1>1, <1>2, KeepRec

-----------------------------------------------------------------------------
(* Steps that eliminate nothing                                            *)

\* A step of Kissat, or of subsumption, that settles clauses.
LEMMA RootRec ==
  ASSUME RecInv, OutInv', ok, UNCHANGED <<inputVars, stackVars, phaseVars>>,
         pc \in {"subsume", "search"},
         NEW irr \in SUBSET Proper, NEW red \in SUBSET Proper, NEW more \in SUBSET Literal,
         Settle(irr, red, fixed \cup more),
         \A b \in Assignment :
           fixed \subseteq b /\ (\A c \in irr : c \cap b # {}) =>
             \A c \in irredundant : c \cap b # {}
  PROVE  RecInv'
<1>1. pc # "load" /\ pc' \notin {"load", "gauss"}  BY DEF phaseVars
<1>2. fixed \cup more \in SUBSET Literal  BY RecKnown
<1>3. fixed \subseteq fixed'  BY <1>2, SettleKeeps
<1> QED  BY <1>1, <1>2, <1>3, SettleRec

\* The same for clauses that may be deleted at any time, and for literals.
LEMMA MoreRec ==
  ASSUME RecInv, OutInv', ok, UNCHANGED <<inputVars, stackVars, phaseVars>>,
         pc \in {"subsume", "search"},
         NEW red \in SUBSET Proper, NEW more \in SUBSET Literal,
         Settle(irredundant, red, fixed \cup more)
  PROVE  RecInv'
<1>1. irredundant \in SUBSET Proper  BY RecKnown
<1> QED  BY <1>1, RootRec

\* A literal is learnt.
LEMMA UnitRec ==
  ASSUME RecInv, OutInv', AtRoot, UNCHANGED <<inputVars, stackVars, phaseVars>>,
         NEW lit \in Literal, LearnUnit(lit)
  PROVE  RecInv'
<1>1. Settle(irredundant, redundant, fixed \cup {lit})  BY DEF LearnUnit
<1>2. ok /\ pc \in {"subsume", "search"}  BY DEF AtRoot
<1>3. redundant \in SUBSET Proper /\ {lit} \in SUBSET Literal  BY RecKnown
<1> QED  BY <1>1, <1>2, <1>3, MoreRec

\* Steps that learn a literal.
LEMMA LearnRec ==
  ASSUME RecInv, OutInv',
         \/ \E lit \in Literal : \/ LearnDefinedUnit(lit) \/ ResolveBinaries(lit)
                                 \/ FailedLiteral(lit) \/ Backbone(lit)
         \/ \E v \in 1 .. NumVars : LearnUnitResolvent(v)
  PROVE  RecInv'
<1>1. AtRoot /\ UNCHANGED <<inputVars, stackVars, phaseVars>>
  BY DEF LearnDefinedUnit, ResolveBinaries, FailedLiteral, Backbone, LearnUnitResolvent
<1>2. \E lit \in Literal : LearnUnit(lit)
  <2>1. CASE \E lit \in Literal : \/ LearnDefinedUnit(lit) \/ ResolveBinaries(lit)
                                  \/ FailedLiteral(lit) \/ Backbone(lit)
    <3>1. PICK lit \in Literal : LearnUnit(lit) \/ LearnUnit(-lit)
      BY <2>1 DEF LearnDefinedUnit, ResolveBinaries, FailedLiteral, Backbone
    <3> QED  BY <3>1, Literals
  <2>2. CASE \E v \in 1 .. NumVars : LearnUnitResolvent(v)
    <3>1. PICK v \in 1 .. NumVars : LearnUnitResolvent(v)  BY <2>2
    <3>2. PICK gate \in GatesOf(Rarer(v)) :
            \E c \in Resolvents(irredundant, Rarer(v), gate) :
              \E unit \in c : c = {unit} /\ LearnUnit(unit)
      BY <3>1 DEF LearnUnitResolvent
    <3>3. Resolvents(irredundant, Rarer(v), gate) \in SUBSET Proper
      BY RecKnown, LiteralsOf, ResolventsTrue
    <3> QED  BY <3>2, <3>3 DEF Proper
  <2> QED  BY <2>1, <2>2
<1> QED  BY <1>1, <1>2, UnitRec

\* Clauses of other threads, and of Kissat's own, that may be deleted at any time.
LEMMA RedundantRec ==
  ASSUME RecInv, OutInv',
         \/ \E c \in Arriving : AddImportedClause(c)
         \/ \E dom, lit \in Literal : HyperBinary(dom, lit)
  PROVE  RecInv'
<1>1. /\ ok /\ UNCHANGED <<inputVars, stackVars, phaseVars>> /\ pc \in {"subsume", "search"}
  BY DEF AddImportedClause, HyperBinary, AtRoot
<1>2. PICK c \in Proper : Settle(irredundant, redundant \cup {c}, fixed)
  <2>1. \A c \in Arriving : c \in Proper  BY SimplificationAssumption DEF Clauses, Proper
  <2>2. \A c \in Clauses : c \in Proper  BY DEF Clauses, Proper
  <2> QED  BY <2>1, <2>2 DEF AddImportedClause, HyperBinary
<1>3. Settle(irredundant, redundant \cup {c}, fixed \cup {}) /\ {} \in SUBSET Literal
  BY <1>2
<1>4. redundant \cup {c} \in SUBSET Proper  BY RecKnown
<1> QED  BY <1>1, <1>3, <1>4, MoreRec

\* Clauses that are removed alone.
LEMMA RemovalRec ==
  ASSUME RecInv, OutInv',
         \/ Reduce \/ EndSubsumption \/ EndElimination
         \/ \E c \in Arriving : IgnoreImportedClause(c)
  PROVE  RecInv'
<1>1. /\ ok /\ UNCHANGED <<inputVars, stackVars, irredundant, fixed, ok>>
      /\ redundant' \subseteq redundant
      /\ pc \notin {"load", "gauss"} /\ pc' \notin {"load", "gauss"}
  BY DEF Reduce, EndSubsumption, EndElimination, IgnoreImportedClause, clauseVars, stackVars,
         inputVars, phaseVars
<1> QED  BY <1>1, RemoveRec

\* A clause that another one subsumes.
LEMMA SubsumeRec ==
  ASSUME RecInv, OutInv', Subsume \/ BackwardSubsume
  PROVE  RecInv'
<1>1. /\ ok /\ UNCHANGED <<inputVars, stackVars, fixed, ok, redundant>>
      /\ pc \notin {"load", "gauss"} /\ pc' \notin {"load", "gauss"}
      /\ \E c \in irredundant : /\ Subsumed(c, irredundant)
                                /\ irredundant' = irredundant \ {c}
  BY DEF Subsume, BackwardSubsume, AtRoot, phaseVars
<1>2. PICK c \in irredundant : Subsumed(c, irredundant) /\ irredundant' = irredundant \ {c}
  BY <1>1
<1>3. PICK d \in irredundant : d \subseteq c /\ d # c  BY <1>2 DEF Subsumed
<1>4. ASSUME NEW b \in Assignment, \A e \in irredundant' : e \cap b # {}
      PROVE  \A e \in irredundant : e \cap b # {}
  <2>1. d \in irredundant'  BY <1>2, <1>3
  <2>2. c \cap b # {}  BY <1>3, <1>4, <2>1
  <2> QED  BY <1>2, <1>4, <2>2
<1> QED  BY <1>1, <1>2, <1>4, RemoveRec

\* A clause gets shorter.
LEMMA ShorterRec ==
  ASSUME RecInv, OutInv', ok, UNCHANGED <<inputVars, stackVars, phaseVars>>,
         pc \in {"subsume", "search"},
         NEW c \in irredundant, NEW d \in Proper, d \subseteq c,
         Settle((irredundant \ {c}) \cup {d}, redundant, fixed)
  PROVE  RecInv'
<1> DEFINE irr == (irredundant \ {c}) \cup {d}
<1>1. irr \in SUBSET Proper  BY RecKnown
<1>2. Settle(irr, redundant, fixed \cup {})  OBVIOUS
<1>3. ASSUME NEW b \in Assignment, \A e \in irr : e \cap b # {}
      PROVE  \A e \in irredundant : e \cap b # {}
  <2>1. d \cap b # {}  BY <1>3
  <2>2. c \cap b # {}  BY <2>1
  <2> QED  BY <1>3, <2>2
<1> HIDE DEF irr
<1> QED  BY <1>1, <1>2, <1>3, RecKnown, RootRec

\* It does by strengthening,
LEMMA StrengthenRec ==
  ASSUME RecInv, OutInv', Strengthen \/ StrengthenClause
  PROVE  RecInv'
<1>1. ok /\ UNCHANGED <<inputVars, stackVars, phaseVars>> /\ pc \in {"subsume", "search"}
  BY DEF Strengthen, StrengthenClause, AtRoot
<1>2. PICK c \in irredundant, d \in irredundant :
        \E l \in Removable(c, d) :
          Settle((irredundant \ {c}) \cup {c \ {l}}, redundant, fixed)
  BY DEF Strengthen, StrengthenClause
<1>3. PICK l \in Removable(c, d) : Settle((irredundant \ {c}) \cup {c \ {l}}, redundant, fixed)
  BY <1>2
<1>4. c \ {l} \in Proper
  <2>1. c \in Proper /\ d \in Proper  BY RecKnown
  <2> QED  BY <2>1, RemovableTrue
<1> QED  BY <1>1, <1>3, <1>4, ShorterRec

\* or by vivification.
LEMMA VivifyShortenRec == ASSUME RecInv, OutInv', VivifyShorten PROVE RecInv'
<1> DEFINE all == irredundant \cup redundant
<1>1. ok /\ UNCHANGED <<inputVars, stackVars, phaseVars>> /\ pc \in {"subsume", "search"}
  BY DEF VivifyShorten, AtRoot
<1>2. CASE \E c \in irredundant : \E kept \in Kept(c, all \ {c}) :
             Settle((irredundant \ {c}) \cup {kept}, redundant, fixed)
  <2>1. PICK c \in irredundant : \E kept \in Kept(c, all \ {c}) :
             Settle((irredundant \ {c}) \cup {kept}, redundant, fixed)
    BY <1>2
  <2>2. PICK kept \in Kept(c, all \ {c}) :
             Settle((irredundant \ {c}) \cup {kept}, redundant, fixed)
    BY <2>1
  <2>3. c \in Proper /\ fixed \in SUBSET Literal  BY RecKnown
  <2>4. kept \in Proper
    <3> HIDE DEF all
    <3> QED  BY <2>3, KeptTrue
  <2>5. kept \subseteq c  BY DEF Kept
  <2> QED  BY <1>1, <2>2, <2>4, <2>5, ShorterRec
<1>3. CASE \E c \in redundant : \E kept \in Kept(c, all \ {c}) :
             Settle(irredundant, (redundant \ {c}) \cup {kept}, fixed)
  <2>1. PICK c \in redundant : \E kept \in Kept(c, all \ {c}) :
             Settle(irredundant, (redundant \ {c}) \cup {kept}, fixed)
    BY <1>3
  <2>2. PICK kept \in Kept(c, all \ {c}) :
             Settle(irredundant, (redundant \ {c}) \cup {kept}, fixed)
    BY <2>1
  <2>3. c \in Proper /\ fixed \in SUBSET Literal  BY RecKnown
  <2>4. kept \in Proper
    <3> HIDE DEF all
    <3> QED  BY <2>3, KeptTrue
  <2>5. (redundant \ {c}) \cup {kept} \in SUBSET Proper  BY <2>4, RecKnown
  <2>6. Settle(irredundant, (redundant \ {c}) \cup {kept}, fixed \cup {})  BY <2>2
  <2>7. {} \in SUBSET Literal  OBVIOUS
  <2> QED  BY <1>1, <2>5, <2>6, <2>7, MoreRec
<1> QED  BY <1>2, <1>3 DEF VivifyShorten

\* An irredundant clause that irredundant clauses imply.
LEMMA VivifyRemoveRec == ASSUME RecInv, OutInv', VivifyRemove PROVE RecInv'
<1>1. /\ ok /\ UNCHANGED <<inputVars, stackVars, fixed, ok, redundant>>
      /\ pc \notin {"load", "gauss"} /\ pc' \notin {"load", "gauss"}
  BY DEF VivifyRemove, AtRoot, phaseVars
<1>2. PICK c \in irredundant : /\ Refuted(c, irredundant \ {c})
                               /\ irredundant' = irredundant \ {c}
  BY DEF VivifyRemove
<1>3. c \in SUBSET Literal /\ fixed \in SUBSET Literal  BY RecKnown DEF Proper
<1>4. ASSUME NEW b \in Assignment, fixed \subseteq b, \A e \in irredundant' : e \cap b # {}
      PROVE  \A e \in irredundant : e \cap b # {}
  <2> DEFINE lits == fixed \cup Complement(c)
  <2>1. Satisfies(b, irredundant \ {c})  BY <1>2, <1>4 DEF Satisfies
  <2>2. Falsified(irredundant \ {c}, Propagated(irredundant \ {c}, lits))
    BY <1>2 DEF Refuted, Conflicting
  <2>3. Complement(c) \in SUBSET Literal  BY <1>3, Complements
  <2>4. lits \in SUBSET Literal  BY <1>3, <2>3
  <2> HIDE DEF lits
  <2>5. ~(lits \subseteq b)  BY <2>1, <2>2, <2>4, ConflictRefutes
  <2>6. ~(Complement(c) \subseteq b)  BY <1>4, <2>5 DEF lits
  <2>7. c \cap b # {}  BY <1>3, <2>6, Complements
  <2> QED  BY <1>2, <1>4, <2>7
<1> QED  BY <1>1, <1>2, <1>4, RemoveRec

\* A binary clause that irredundant clauses imply, or a redundant one.
LEMMA TransitiveReduceRec == ASSUME RecInv, OutInv', TransitiveReduce PROVE RecInv'
<1>1. /\ ok /\ UNCHANGED <<inputVars, stackVars, fixed, ok>>
      /\ pc \notin {"load", "gauss"} /\ pc' \notin {"load", "gauss"}
  BY DEF TransitiveReduce, AtRoot, phaseVars
<1>2. PICK c \in Binaries(irredundant \cup redundant) : \E l \in c :
        /\ c \ {l} \subseteq BinaryPropagated(TransitiveClauses(c), {-l})
        /\ irredundant' = irredundant \ {c}
        /\ redundant' = IF c \in irredundant THEN redundant ELSE redundant \ {c}
  BY DEF TransitiveReduce
<1>3. PICK l \in c : c \ {l} \subseteq BinaryPropagated(TransitiveClauses(c), {-l})
  BY <1>2
<1>4. /\ c \in SUBSET Literal /\ l \in Literal /\ -l \in Literal /\ Cardinality(c) = 2
  <2>1. c \in irredundant \cup redundant /\ Cardinality(c) = 2  BY <1>2 DEF Binaries
  <2>2. c \in SUBSET Literal  BY <2>1, RecKnown DEF Proper
  <2> QED  BY <2>1, <2>2, <1>3, Literals
<1>5. c # {l}
  <2>1. Cardinality({l}) = 1  BY FS_Singleton
  <2> QED  BY <1>4, <2>1
<1>6. ASSUME NEW b \in Assignment, fixed \subseteq b, \A e \in irredundant' : e \cap b # {}
      PROVE  \A e \in irredundant : e \cap b # {}
  <2>1. CASE c \notin irredundant  BY <1>2, <1>6, <2>1
  <2>2. CASE c \in irredundant
    <3> DEFINE cs == Binaries(irredundant \ {c})
    <3>1. c \ {l} \subseteq Propagated(cs, {-l})
      BY <1>3, <2>2 DEF BinaryPropagated, TransitiveClauses
    <3>2. Satisfies(b, cs)  BY <1>2, <1>6 DEF Satisfies, Binaries
    <3>3. {-l} \in SUBSET Literal  BY <1>4
    <3> HIDE DEF cs
    <3>4. {-l} \subseteq b => Propagated(cs, {-l}) \subseteq b  BY <3>2, <3>3, PropagatedTrue
    <3>5. l \in b \/ -l \in b  BY <1>4, Values
    <3>6. c \cap b # {}
      <4>1. CASE l \in b  BY <1>3, <4>1
      <4>2. CASE -l \in b
        <5>1. c \ {l} \subseteq b  BY <3>1, <3>4, <4>2
        <5> QED  BY <1>3, <1>5, <5>1
      <4> QED  BY <3>5, <4>1, <4>2
    <3> QED  BY <1>2, <1>6, <3>6
  <2> QED  BY <2>1, <2>2
<1>7. irredundant' \subseteq irredundant /\ redundant' \subseteq redundant  BY <1>2
<1> QED  BY <1>1, <1>6, <1>7, RemoveRec

\* A ternary resolvent; one of two literals is part of both clauses.
LEMMA ResolveTernaryRec == ASSUME RecInv, OutInv', ResolveTernary PROVE RecInv'
<1> DEFINE all == irredundant \cup redundant
           Ternary == {e \in all : Cardinality(e) = 3}
           New(c, d, l) == (c \ {l}) \cup (d \ {-l})
           Result(c, d, new) ==
             \/ Settle(irredundant, redundant \cup {new}, fixed)
             \/ Settle(irredundant, (redundant \ {c, d}) \cup
                                      (IF Found(new, all) THEN {} ELSE {new}), fixed)
             \/ /\ Cardinality(new) = 2
                /\ Settle((irredundant \ {c, d}) \cup {new}, redundant \ {c, d}, fixed)
<1>1. /\ ok /\ UNCHANGED <<inputVars, stackVars, phaseVars>> /\ pc \in {"subsume", "search"}
  BY DEF ResolveTernary, AtRoot
<1>2. \E c, d \in Ternary : \E l \in c :
         /\ -l \in d /\ New(c, d, l) \in Clauses
         /\ Result(c, d, New(c, d, l))
  <2> DEFINE Resolves(c, d, l, new) ==
               /\ -l \in d /\ new \in Clauses
               /\ \/ /\ Cardinality(new) = 3 /\ ~Found(new, all)
                     /\ Settle(irredundant, redundant \cup {new}, fixed)
                  \/ /\ Cardinality(new) = 2 /\ RedundantIfBoth(c, d)
                     /\ Settle(irredundant, (redundant \ {c, d}) \cup
                                 (IF Found(new, all) THEN {} ELSE {new}), fixed)
                  \/ /\ Cardinality(new) = 2 /\ ~RedundantIfBoth(c, d)
                     /\ Settle((irredundant \ {c, d}) \cup {new}, redundant \ {c, d}, fixed)
  <2>1. \E c, d \in Ternary : \E l \in c : Resolves(c, d, l, New(c, d, l))
    BY Zenon DEF ResolveTernary
  <2>2. \A c, d, l, new : Resolves(c, d, l, new) =>
           -l \in d /\ new \in Clauses /\ Result(c, d, new)
    OBVIOUS
  <2> HIDE DEF Resolves, Result, New
  <2> QED  BY <2>1, <2>2
<1> HIDE DEF Result
<1>3. PICK c \in Ternary, d \in Ternary : \E l \in c :
         /\ -l \in d /\ New(c, d, l) \in Clauses
         /\ Result(c, d, New(c, d, l))
  BY <1>2
<1>4. PICK l \in c : -l \in d /\ New(c, d, l) \in Clauses /\ Result(c, d, New(c, d, l))
  BY <1>3
<1> DEFINE new == New(c, d, l)
<1>5. new \in Proper  BY <1>4 DEF Clauses, Proper
<1>6. c \in SUBSET Literal /\ d \in SUBSET Literal /\ Cardinality(c) = 3 /\ Cardinality(d) = 3
  <2>1. c \in all /\ d \in all /\ Cardinality(c) = 3 /\ Cardinality(d) = 3  OBVIOUS
  <2> HIDE DEF Ternary
  <2> QED  BY <2>1, RecKnown DEF Proper
<1>7. Result(c, d, new)  BY <1>4
<1>8. /\ redundant \cup {new} \in SUBSET Proper
      /\ (redundant \ {c, d}) \cup (IF Found(new, all) THEN {} ELSE {new}) \in SUBSET Proper
      /\ redundant \ {c, d} \in SUBSET Proper
      /\ (irredundant \ {c, d}) \cup {new} \in SUBSET Proper
  <2> HIDE DEF new, all, Ternary
  <2> QED  BY <1>5, RecKnown
<1>9. {} \in SUBSET Literal /\ fixed \cup {} = fixed  OBVIOUS
<1>10. ASSUME Cardinality(new) = 2 PROVE new \subseteq c /\ new \subseteq d
  <2> DEFINE p == c \ {l}  q == d \ {-l}
  <2>1. IsFiniteSet(c) /\ IsFiniteSet(d) /\ IsFiniteSet(new)
    <3>1. new \in SUBSET Literal  BY <1>5 DEF Proper
    <3> HIDE DEF new
    <3> QED  BY <1>6, <3>1, FinitelyManyLiterals
  <2>2. Cardinality(p) = 2 /\ Cardinality(q) = 2
    <3>1. l \in c /\ -l \in d  BY <1>4
    <3>2. Cardinality(p) = Cardinality(c) - 1 /\ Cardinality(q) = Cardinality(d) - 1
      <4> HIDE DEF new, Ternary
      <4> QED  BY <2>1, <3>1, FS_RemoveElement
    <3> QED  BY <1>6, <3>2
  <2>3. p \in SUBSET new /\ q \in SUBSET new  OBVIOUS
  <2>4. p = new /\ q = new
    <3> HIDE DEF new, p, q, Ternary
    <3> QED  BY <1>10, <2>1, <2>2, <2>3, FS_Subset
  <2>5. p \subseteq c /\ q \subseteq d  OBVIOUS
  <2> HIDE DEF new, p, q
  <2> QED  BY <2>4, <2>5
<1>11. CASE Settle(irredundant, redundant \cup {new}, fixed)
  <2> DEFINE red == redundant \cup {new}
  <2>1. red \in SUBSET Proper /\ Settle(irredundant, red, fixed)  BY <1>8, <1>11
  <2> HIDE DEF new, all, Ternary, red
  <2>2. Settle(irredundant, red, fixed \cup {})  BY <1>9, <2>1
  <2> QED  BY <1>1, <1>9, <2>1, <2>2, MoreRec
<1>12. CASE Settle(irredundant, (redundant \ {c, d}) \cup
                                      (IF Found(new, all) THEN {} ELSE {new}), fixed)
  <2> DEFINE red == (redundant \ {c, d}) \cup (IF Found(new, all) THEN {} ELSE {new})
  <2>1. red \in SUBSET Proper /\ Settle(irredundant, red, fixed)  BY <1>8, <1>12
  <2> HIDE DEF new, all, Ternary, red
  <2>2. Settle(irredundant, red, fixed \cup {})  BY <1>9, <2>1
  <2> QED  BY <1>1, <1>9, <2>1, <2>2, MoreRec
<1>13. CASE /\ Cardinality(new) = 2
            /\ Settle((irredundant \ {c, d}) \cup {new}, redundant \ {c, d}, fixed)
  <2> DEFINE irr == (irredundant \ {c, d}) \cup {new}
  <2> HIDE DEF new, all, Ternary
  <2>1. irr \in SUBSET Proper /\ redundant \ {c, d} \in SUBSET Proper  BY <1>8
  <2>2. new \subseteq c /\ new \subseteq d  BY <1>10, <1>13
  <2>3. ASSUME NEW b \in Assignment, \A e \in irr : e \cap b # {}
        PROVE  \A e \in irredundant : e \cap b # {}
    <3>1. new \cap b # {}  BY <2>3
    <3>2. c \cap b # {} /\ d \cap b # {}  BY <2>2, <3>1
    <3> QED  BY <2>3, <3>2
  <2> DEFINE red == redundant \ {c, d}
  <2>4. red \in SUBSET Proper /\ Settle(irr, red, fixed)  BY <1>13, <2>1
  <2> HIDE DEF irr, red
  <2>5. Settle(irr, red, fixed \cup {})  BY <1>9, <2>4
  <2> QED  BY <1>1, <1>9, <2>1, <2>3, <2>4, <2>5, RootRec
<1>14. QED
  <2> HIDE DEF new, all, Ternary
  <2> QED  BY <1>7, <1>11, <1>12, <1>13 DEF Result

\* Gaussian elimination, unless it overwrites the value of a variable.
LEMMA GaussRec ==
  ASSUME RecInv, OutInv', ok' => fixed \subseteq fixed', FirstGaussElim \/ SecondChance
  PROVE  RecInv'
<1>1. /\ ok /\ UNCHANGED <<inputVars, stackVars>> /\ pc \in {"gauss", "chance"}
      /\ pc' \in {"subsume", "search"}
  BY DEF FirstGaussElim, SecondChance
<1>2. CASE GaussElim
  <2>1. CASE ok' = FALSE  BY <1>1, <2>1, KeepRec
  <2>2. CASE ok' # FALSE
    <3> DEFINE xs == Xors(irredundant)
               systems == {s \in Components(xs) : Cardinality(s) > 1}
               equations == UNION {Echelon(s) : s \in systems}
               clauses == UNION {ClausesOf(x) : x \in {y \in equations : Cardinality(y.vars) <= 2}}
               units == UNION {c \in clauses : Cardinality(c) = 1}
               lits == (fixed \ Complement(units)) \cup units
    <3>1. Settle(irredundant \cup clauses, redundant, lits)  BY <1>2, <2>2 DEF GaussElim
    <3>2. clauses \subseteq Clauses  BY DEF ClausesOf
    <3>3. Clauses \subseteq Proper /\ \A c \in Clauses : c \subseteq Literal
      BY DEF Clauses, Proper
    <3> HIDE DEF clauses
    <3>4. irredundant \cup clauses \in SUBSET Proper /\ lits \in SUBSET Literal
      BY <3>2, <3>3, RecKnown
    <3> HIDE DEF lits
    <3> QED  BY <1>1, <3>1, <3>4, RecKnown, SettleRec
  <2> QED  BY <2>1, <2>2
<1>3. CASE ~GaussElim
  <2>1. UNCHANGED <<clauseVars, ok>> /\ pc = "chance"
    BY <1>3 DEF FirstGaussElim, SecondChance
  <2>2. UNCHANGED <<irredundant, redundant, fixed, ok>>  BY <2>1 DEF clauseVars
  <2> QED  BY <1>1, <2>1, <2>2, RemoveRec
<1> QED  BY <1>2, <1>3

\* What holds at first and is kept by each entry, at its place, holds in the end.
LEMMA UnwoundAt ==
  ASSUME NEW E, NEW s \in Seq(E), NEW X, NEW c \in X, NEW D, IsStep(D, E, X),
         NEW N, N = Len(s), NEW I, <<0, c>> \in I,
         \A n \in 1 .. N : \A x \in X :
           <<n - 1, x>> \in I => <<n, D[<<s[N - n + 1], x>>]>> \in I
  PROVE  <<N, Unwound(s, X, c, D)>> \in I
<1>1. PICK g : IsUnwound(g, s, X, c, D)  BY UnwoundExists
<1>2. N \in Nat /\ 0 \in Nat /\ 0 \in 0 .. N /\ N \in 0 .. N  OBVIOUS
<1>3. Unwound(s, X, c, D) = g[N]  BY <1>1, <1>2, UnwoundIs
<1>4. /\ \A n \in 0 .. N : g[n] \in X
      /\ g[0] = c
      /\ \A n \in 1 .. N : g[n] = D[<<s[N - n + 1], g[n - 1]>>]
  BY <1>1 DEF IsUnwound
<1> DEFINE S == {n \in 0 .. N : <<n, g[n]>> \in I}
<1>5. 0 \in S  BY <1>2, <1>4
<1>6. ASSUME NEW n \in 0 + 1 .. N, n - 1 \in S PROVE n \in S
  <2>1. n \in 1 .. N /\ n \in 0 .. N /\ n - 1 \in 0 .. N /\ <<n - 1, g[n - 1]>> \in I
    BY <1>2, <1>6
  <2>2. g[n - 1] \in X  BY <1>4, <2>1
  <2>3. <<n, D[<<s[N - n + 1], g[n - 1]>>]>> \in I  BY <2>1, <2>2
  <2>4. <<n, g[n]>> \in I  BY <1>4, <2>1, <2>3
  <2> QED  BY <2>1, <2>4
<1>7. 0 .. N \subseteq S
  <2> HIDE DEF S
  <2> QED  BY <1>2, <1>5, <1>6, RangeInduction
<1>8. <<N, g[N]>> \in I  BY <1>2, <1>7
<1> QED  BY <1>3, <1>8

\* An empty stack changes nothing.
LEMMA EmptyStack ==
  ASSUME NEW lits \in SUBSET Literal
  PROVE  /\ \A el : Extended(<< >>, el, lits) = lits
         /\ ExtendedModel(<< >>, lits) = lits
<1> DEFINE X == SUBSET Literal  s == << >>
<1>1. ASSUME NEW D, IsStep(D, Entries, X) PROVE Unwound(s, X, lits, D) = lits
  <2> DEFINE I == {lits}
  <2>1. s \in Seq(Entries) /\ lits \in I /\ lits \in X  OBVIOUS
  <2>2. \A i \in 1 .. Len(s) : \A x \in X : x \in I => D[<<s[i], x>>] \in I
    OBVIOUS
  <2>3. Unwound(s, X, lits, D) \in I
    <3> HIDE DEF s, X, I
    <3> QED  BY ONLY <1>1, <2>1, <2>2, UnwoundKeeps
  <2> QED  BY <2>3
<1>2. s \in Seq(Entries) /\ lits \in X  OBVIOUS
<1>3. \A el : Extended(s, el, lits) = Unwound(s, X, lits, Restore(el))
  <2> HIDE DEF s
  <2> QED  BY <1>2, ExtendedIs
<1>4. ExtendedModel(s, lits) = Unwound(s, X, lits, Flip)
  <2> HIDE DEF s
  <2> QED  BY <1>2, ExtendedModelIs
<1>5. (\A el : IsStep(Restore(el), Entries, X)) /\ IsStep(Flip, Entries, X)  BY RestoreType
<1> HIDE DEF s, X
<1>6. (\A el : Unwound(s, X, lits, Restore(el)) = lits) /\ Unwound(s, X, lits, Flip) = lits
  BY <1>1, <1>5
<1>7. (\A el : Extended(s, el, lits) = lits) /\ ExtendedModel(s, lits) = lits
  BY <1>3, <1>4, <1>6
<1> QED  BY <1>7 DEF s

-----------------------------------------------------------------------------
(* Loading the formula                                                     *)

\* In the beginning everything is left.
LEMMA InitRec == ASSUME Init PROVE RecInv
<1>1. OutInv  BY InitOut
<1>2. /\ extension = << >> /\ eliminated = << >> /\ pc = "load" /\ loaded = 0
  BY DEF Init
<1>3. extension \in Seq(Entries)  BY <1>2
<1>4. TidyInv /\ LoadInv  BY <1>2 DEF TidyInv, LoadInv
<1> QED  BY <1>1, <1>2, <1>3, <1>4 DEF RecInv

\* Clauses that are lost are empty or units.
LEMMA SmallClauses ==
  ASSUME NEW c \in SUBSET Literal, ~(Cardinality(c) > 1)
  PROVE  c = {} \/ \E l \in Literal : c = {l}
<1>1. IsFiniteSet(c) /\ Cardinality(c) \in Nat  BY FinitelyManyLiterals
<1>2. Cardinality(c) = 0 \/ Cardinality(c) = 1  BY <1>1
<1>3. Cardinality(c) = 0 => c = {}  BY <1>1, FS_EmptySet
<1>4. Cardinality(c) = 1 => \E l : c = {l}  BY <1>1, FS_Singleton
<1> QED  BY <1>2, <1>3, <1>4

\* A clause of the formula is added.
LEMMA AddClauseRec == ASSUME RecInv, OutInv', AddClause PROVE RecInv'
<1> DEFINE f == formula[loaded + 1]
           clauses == irredundant \cup {f \ FalseLits}
<1>1. /\ pc = "load" /\ pc' = "load" /\ ok /\ loaded < Len(formula) /\ loaded' = loaded + 1
      /\ UNCHANGED <<formula, eliminated, extension>>
  BY DEF AddClause, stackVars, phaseVars
<1>2. /\ extension' \in Seq(Entries) /\ eliminated' = << >> /\ extension' = << >>
      /\ LoadInv
  BY <1>1 DEF RecInv
<1>3. formula \in Seq(Clauses) /\ loaded \in Nat  BY RecKnown DEF SoundInv
<1>4. f \in Clauses
  <2>1. Len(formula) \in Nat /\ loaded + 1 \in 1 .. Len(formula)  BY <1>1, <1>3
  <2> QED  BY <1>3, <2>1
<1>5. f \in SUBSET Literal /\ f \ FalseLits \in SUBSET Literal  BY <1>4 DEF Clauses
<1>6. \A i \in 1 .. loaded' : i \in 1 .. loaded \/ i = loaded + 1  BY <1>1, <1>3
<1> HIDE DEF f
<1>7. ASSUME ok', NEW b \in Left' PROVE b \in Left /\ f \cap b # {}
  <2>1. CASE UNCHANGED <<irredundant, fixed>> /\ f \cap fixed # {}
    BY <1>7, <2>1 DEF Left
  <2>2. CASE /\ irredundant' = {c \in clauses : Cardinality(c) > 1}
             /\ fixed' = Propagated(clauses, fixed)
             /\ ok' = ~Falsified(clauses, fixed')
    <3> HIDE DEF clauses
    <3>1. fixed \in SUBSET Literal  BY RecKnown
    <3>2. fixed \subseteq fixed' /\ Units(clauses, fixed) \subseteq fixed'
      BY <2>2, <3>1, PropagatesUnits
    <3>3. b \in Assignment /\ fixed' \subseteq b /\ \A c \in irredundant' : c \cap b # {}
      BY <1>7 DEF Left, Satisfies
    <3>4. \A c \in clauses : c \in SUBSET Literal
      BY <1>5, RecKnown DEF clauses, Proper
    <3>5. ASSUME NEW c \in clauses PROVE c \cap b # {}
      <4>1. CASE Cardinality(c) > 1  BY <2>2, <3>3, <4>1
      <4>2. CASE ~(Cardinality(c) > 1)
        <5>1. c = {} \/ \E l \in Literal : c = {l}  BY <3>4, <4>2, SmallClauses
        <5>2. c # {}  BY <1>7, <2>2 DEF Falsified
        <5>3. PICK l \in Literal : c = {l}  BY <5>1, <5>2
        <5>4. l \in Units(clauses, fixed)  BY <5>3 DEF Units
        <5> QED  BY <3>2, <3>3, <5>3, <5>4
      <4> QED  BY <4>1, <4>2
    <3>6. f \cap b # {}  BY <3>5 DEF clauses
    <3>7. \A c \in irredundant : c \cap b # {}  BY <3>5 DEF clauses
    <3>8. fixed \subseteq b  BY <3>2, <3>3
    <3> QED  BY <3>3, <3>6, <3>7, <3>8 DEF Left, Satisfies
  <2> QED  BY <2>1, <2>2 DEF AddClause, f
<1>8. ok' => LoadInv'
  <2> SUFFICES ASSUME ok', NEW b \in Left', NEW i \in 1 .. loaded'
               PROVE  formula'[i] \cap b # {}
    BY DEF LoadInv
  <2>1. b \in Left /\ f \cap b # {}  BY <1>7
  <2>2. i \in 1 .. loaded => formula[i] \cap b # {}  BY <1>1, <1>2, <2>1 DEF LoadInv
  <2> QED  BY <1>1, <1>6, <2>1, <2>2 DEF f
<1>9. TidyInv'  BY <1>1 DEF TidyInv
<1> QED  BY <1>1, <1>2, <1>8, <1>9 DEF RecInv

\* All clauses have been added.
LEMMA FinishLoadingRec == ASSUME RecInv, OutInv', FinishLoading PROVE RecInv'
<1>1. /\ pc = "load" /\ pc' # "load" /\ ok /\ loaded = Len(formula)
      /\ UNCHANGED <<solver, formula, eliminated, extension>>
  BY DEF FinishLoading, inputVars, stackVars
<1>2. eliminated = << >> /\ extension = << >> /\ extension' \in Seq(Entries) /\ LoadInv
  BY <1>1 DEF RecInv
<1>3. formula \in Seq(Clauses) /\ loaded \in Nat  BY RecKnown DEF SoundInv
<1>4. \/ UNCHANGED <<irredundant, redundant, fixed, ok>> /\ pc' = "gauss"
      \/ Settle(irredundant, redundant, fixed)
  BY DEF FinishLoading, clauseVars
<1>5. irredundant \in SUBSET Proper /\ redundant \in SUBSET Proper /\ fixed \in SUBSET Literal
  BY RecKnown
<1>6. ok' => TidyInv'
  <2>1. CASE pc' = "gauss"  BY <2>1 DEF TidyInv
  <2>2. CASE Settle(irredundant, redundant, fixed)  BY <1>5, <2>2, SettleTidy DEF TidyInv
  <2> QED  BY <1>4, <2>1, <2>2
<1>7. ASSUME ok', NEW b \in Left' PROVE b \in Assignment /\ \A c \in Input : c \cap b # {}
  <2>1. b \in Left
    <3>1. CASE UNCHANGED <<irredundant, fixed>>  BY <1>7, <3>1 DEF Left
    <3>2. CASE Settle(irredundant, redundant, fixed)
      <4>1. b \in Assignment /\ fixed \subseteq b /\ \A c \in irredundant : c \cap b # {}
        BY <1>5, <1>7, <3>2, SettleLeft
      <4> QED  BY <4>1 DEF Left, Satisfies
    <3> QED  BY <1>4, <3>1, <3>2
  <2>2. \A i \in 1 .. Len(formula) : formula[i] \cap b # {}  BY <1>1, <1>2, <2>1 DEF LoadInv
  <2>3. DOMAIN formula = 1 .. Len(formula)  BY <1>3
  <2> QED  BY <2>1, <2>2, <2>3 DEF Input, ToSet, Left
<1>8. Input' = Input  BY <1>1 DEF Input
<1>9. ASSUME ok' PROVE Rebuilt'
  <2>1. CASE solver = "Kissat"
    <3> SUFFICES ASSUME NEW more \in Seq(1 .. NumVars), NEW p \in SUBSET Literal, Partial(p, more)'
                 PROVE  Satisfies(Extended(extension', eliminated' \o more, p), Input')
      BY <1>1, <2>1 DEF Rebuilt, Rebuilds
    <3>1. Consistent(p) /\ \A b \in Assignment : p \subseteq b => b \in Left'  BY DEF Partial
    <3>2. ASSUME NEW c \in Input PROVE c \cap p # {}
      <4>1. c \in Proper
        <5>1. Input \subseteq Clauses  BY <1>3, Elements DEF Input
        <5> QED  BY <5>1 DEF Clauses, Proper
      <4>2. \A b \in Assignment : p \subseteq b => c \cap b # {}  BY <1>7, <1>9, <3>1
      <4> QED  BY <3>1, <4>1, <4>2, TrueAlready
    <3>3. Extended(extension', eliminated' \o more, p) = p  BY <1>1, <1>2, EmptyStack
    <3> QED  BY <1>8, <3>2, <3>3 DEF Satisfies
  <2>2. CASE solver # "Kissat"
    <3> SUFFICES ASSUME NEW b \in Left' PROVE Satisfies(ExtendedModel(extension', b), Input')
      BY <1>1, <2>2 DEF Rebuilt
    <3>1. b \in Assignment /\ \A c \in Input : c \cap b # {}  BY <1>7, <1>9
    <3>2. ExtendedModel(extension', b) = b  BY <1>1, <1>2, <3>1, EmptyStack, Values
    <3> QED  BY <1>8, <3>1, <3>2 DEF Satisfies
  <2> QED  BY <2>1, <2>2
<1>10. LoadInv'  BY <1>1 DEF LoadInv
<1> QED  BY <1>1, <1>2, <1>6, <1>9, <1>10 DEF RecInv

-----------------------------------------------------------------------------
(* Clauses in some order                                                   *)

\* InSomeOrder takes its value from such a function.
IsOrder(g, cs) ==
  g = [s \in SUBSET cs |-> IF s = {} THEN << >>
                           ELSE LET x == CHOOSE y \in s : TRUE IN Append(g[s \ {x}], x)]

\* There is one.
LEMMA OrderExists ==
  ASSUME NEW cs, IsFiniteSet(cs)
  PROVE  \E g : IsOrder(g, cs)
<1> DEFINE N == Cardinality(cs)
           P == SUBSET cs
           X == [P -> Seq(cs)]
           First(s) == CHOOSE y \in s : TRUE
           Body(g) == [s \in P |-> IF s = {} THEN << >>
                                   ELSE Append(g[s \ {First(s)}], First(s))]
           c == [s \in P |-> << >>]
           D == [x \in Nat \X X |-> Body(x[2])]
<1>1. /\ N \in Nat /\ 0 \in Nat /\ N + 1 \in Nat /\ N \in 0 .. N /\ 0 \in 0 .. N
      /\ 0 \in 0 .. N + 1 /\ N \in 0 .. N + 1
  BY FS_CardinalityType
<1>2. \A s \in P : IsFiniteSet(s) /\ Cardinality(s) \in Nat /\ Cardinality(s) <= N
  BY FS_Subset, FS_CardinalityType
<1>3. \A s \in P : s # {} => First(s) \in s /\ First(s) \in cs /\ s \ {First(s)} \in P
  OBVIOUS
<1>a. << >> \in Seq(cs)  OBVIOUS
<1>4. c \in X  BY <1>a
<1> HIDE DEF First
<1>5. ASSUME NEW g \in X PROVE Body(g) \in X
  <2>1. ASSUME NEW s \in P PROVE (IF s = {} THEN << >> ELSE Append(g[s \ {First(s)}], First(s))) \in Seq(cs)
    <3>1. CASE s = {}  BY <1>a, <3>1
    <3>2. CASE s # {}
      <4>1. g[s \ {First(s)}] \in Seq(cs) /\ First(s) \in cs  BY <1>3, <3>2
      <4>2. \A t \in Seq(cs) : \A e \in cs : Append(t, e) \in Seq(cs)  OBVIOUS
      <4> QED  BY <3>2, <4>1, <4>2
    <3> QED  BY <3>1, <3>2
  <2> QED  BY <2>1
<1>6. D \in [Nat \X X -> X]
  <2> HIDE DEF X, Body
  <2>1. \A x \in Nat \X X : x[2] \in X  OBVIOUS
  <2> QED  BY <1>5, <2>1
<1>7. PICK g : IsRecursive(g, 0, N + 1, X, c, D)
  <2> HIDE DEF N, X, c, D
  <2> QED  BY <1>1, <1>4, <1>6, Recursion
<1>8. /\ \A k \in 0 .. N + 1 : g[k] \in X
      /\ g[0] = c
      /\ \A k \in 1 .. N + 1 : g[k] = Body(g[k - 1])
  <2> HIDE DEF N, X, c, Body
  <2>1. /\ g \in [0 .. N + 1 -> X]
        /\ \A k \in 0 .. N + 1 : g[k] = IF k = 0 THEN c ELSE D[<<k, g[k - 1]>>]
    <3> HIDE DEF D
    <3> QED  BY <1>7 DEF IsRecursive
  <2>2. g[0] = c  BY <1>1, <2>1
  <2>3. ASSUME NEW k \in 1 .. N + 1 PROVE g[k] = Body(g[k - 1])
    <3>1. k \in 0 .. N + 1 /\ k # 0 /\ k \in Nat /\ k - 1 \in 0 .. N + 1  BY <1>1
    <3>2. g[k - 1] \in X  BY <2>1, <3>1
    <3>3. <<k, g[k - 1]>> \in Nat \X X  BY <3>1, <3>2
    <3> QED  BY <2>1, <3>1, <3>3
  <2> QED  BY <2>1, <2>2, <2>3
<1>b. ASSUME NEW k \in 0 .. N PROVE g[k + 1] = Body(g[k])
  <2> DEFINE m == k + 1
  <2>1. m \in 1 .. N + 1 /\ m - 1 = k  BY <1>1
  <2> HIDE DEF m, Body, N
  <2>2. g[m] = Body(g[m - 1])  BY <1>8, <2>1
  <2>3. g[m] = Body(g[k])  BY <2>1, <2>2
  <2> QED  BY <2>3 DEF m
<1> HIDE DEF N, D
<1> DEFINE S == {k \in 0 .. N : \A s \in P : Cardinality(s) <= k => g[k + 1][s] = g[k][s]}
<1>9. 0 \in S
  <2> SUFFICES ASSUME NEW s \in P, Cardinality(s) <= 0 PROVE g[0 + 1][s] = g[0][s]
    BY <1>1
  <2>1. s = {}
    <3>1. IsFiniteSet(s) /\ Cardinality(s) = 0  BY <1>2
    <3> QED  BY <3>1, FS_EmptySet
  <2>2. g[0 + 1] = Body(g[0])
    <3> HIDE DEF Body
    <3> QED  BY <1>1, <1>b
  <2> QED  BY <1>8, <2>1, <2>2
<1>10. ASSUME NEW k \in 0 + 1 .. N, k - 1 \in S PROVE k \in S
  <2>1. /\ k \in 0 .. N /\ k - 1 \in 0 .. N /\ k - 1 + 1 = k
        /\ \A s \in P : Cardinality(s) <= k - 1 => g[k][s] = g[k - 1][s]
    BY <1>1, <1>10
  <2>2. g[k] = Body(g[k - 1]) /\ g[k + 1] = Body(g[k])
    <3>1. k \in 1 .. N + 1  BY <1>1
    <3> HIDE DEF Body
    <3> QED  BY <1>8, <1>b, <2>1, <3>1
  <2>3. ASSUME NEW s \in P, Cardinality(s) <= k PROVE g[k + 1][s] = g[k][s]
    <3>1. CASE s = {}  BY <2>2, <3>1
    <3>2. CASE s # {}
      <4>1. First(s) \in s /\ s \ {First(s)} \in P  BY <1>3, <3>2
      <4>2. Cardinality(s \ {First(s)}) = Cardinality(s) - 1  BY <1>2, <4>1, FS_RemoveElement
      <4>3. Cardinality(s \ {First(s)}) <= k - 1  BY <1>2, <2>1, <2>3, <4>2
      <4>4. g[k][s \ {First(s)}] = g[k - 1][s \ {First(s)}]  BY <2>1, <4>1, <4>3
      <4> QED  BY <2>2, <3>2, <4>4
    <3> QED  BY <3>1, <3>2
  <2> QED  BY <2>1, <2>3
<1>11. 0 .. N \subseteq S
  <2> HIDE DEF S
  <2> QED  BY <1>1, <1>9, <1>10, RangeInduction
<1> DEFINE h == g[N]
<1>12. ASSUME NEW s \in P PROVE h[s] = IF s = {} THEN << >> ELSE Append(h[s \ {First(s)}], First(s))
  <2>1. N \in S  BY <1>1, <1>11
  <2>2. g[N + 1][s] = g[N][s]  BY <1>2, <2>1
  <2>3. g[N + 1] = Body(g[N])
    <3> HIDE DEF Body
    <3> QED  BY <1>1, <1>b
  <2> QED  BY <2>2, <2>3
<1>13. h \in X  BY <1>1, <1>8
<1>14. h = Body(h)
  <2>1. h = [s \in P |-> h[s]]  BY <1>13
  <2> HIDE DEF h
  <2> QED  BY <1>12, <2>1
<1> HIDE DEF h
<1>15. IsOrder(h, cs)  BY <1>14 DEF IsOrder, First
<1> QED  BY <1>15

\* All the elements come.
LEMMA InOrderIs ==
  ASSUME NEW cs, IsFiniteSet(cs)
  PROVE  InSomeOrder(cs) \in Seq(cs) /\ ToSet(InSomeOrder(cs)) = cs
<1> DEFINE F == CHOOSE g : IsOrder(g, cs)
           P == SUBSET cs
           First(s) == CHOOSE y \in s : TRUE
<1>1. InSomeOrder(cs) = F[cs]
  BY DEF IsOrder, InSomeOrder, FoldSet, MapThenFoldSet
<1>2. IsOrder(F, cs)
  <2>1. \E g : IsOrder(g, cs)  BY OrderExists
  <2> QED  BY <2>1
<1> HIDE DEF F
<1>3. \A s \in P : F[s] = IF s = {} THEN << >> ELSE Append(F[s \ {First(s)}], First(s))
  <2> DEFINE B == [s \in P |-> IF s = {} THEN << >> ELSE Append(F[s \ {First(s)}], First(s))]
  <2>1. F = B  BY <1>2 DEF IsOrder
  <2>2. \A s \in P : B[s] = IF s = {} THEN << >> ELSE Append(F[s \ {First(s)}], First(s))
    OBVIOUS
  <2> HIDE DEF B
  <2> QED  BY <2>1, <2>2
<1>4. \A s \in P : s # {} => First(s) \in s /\ First(s) \in cs /\ s \ {First(s)} \in P
  OBVIOUS
<1> HIDE DEF First
<1> DEFINE N == Cardinality(cs)
<1>5. N \in Nat /\ 0 \in Nat /\ N \in 0 .. N /\ 0 \in 0 .. N  BY FS_CardinalityType
<1>6. \A s \in P : IsFiniteSet(s) /\ Cardinality(s) \in Nat /\ Cardinality(s) <= N
  BY FS_Subset, FS_CardinalityType
<1> HIDE DEF N
<1> DEFINE Good(s) == F[s] \in Seq(cs) /\ ToSet(F[s]) = s
           S == {k \in 0 .. N : \A s \in P : Cardinality(s) <= k => Good(s)}
<1>7. Good({})
  <2>1. F[{}] = << >>  BY <1>3
  <2>2. ToSet(<< >>) = {}  BY DEF ToSet
  <2> QED  BY <2>1, <2>2
<1>8. 0 \in S
  <2> SUFFICES ASSUME NEW s \in P, Cardinality(s) <= 0 PROVE Good(s)
    BY <1>5
  <2>1. s = {}
    <3>1. IsFiniteSet(s) /\ Cardinality(s) = 0  BY <1>6
    <3> QED  BY <3>1, FS_EmptySet
  <2> QED  BY <1>7, <2>1
<1>9. ASSUME NEW k \in 0 + 1 .. N, k - 1 \in S PROVE k \in S
  <2>1. k \in 0 .. N /\ \A s \in P : Cardinality(s) <= k - 1 => Good(s)
    BY <1>5, <1>9
  <2>2. ASSUME NEW s \in P, Cardinality(s) <= k PROVE Good(s)
    <3>1. CASE s = {}  BY <1>7, <3>1
    <3>2. CASE s # {}
      <4> DEFINE x == First(s)  r == s \ {x}
      <4>1. x \in s /\ x \in cs /\ r \in P  BY <1>4, <3>2
      <4>2. Cardinality(r) = Cardinality(s) - 1  BY <1>6, <4>1, FS_RemoveElement
      <4>3. Cardinality(r) <= k - 1  BY <1>6, <2>1, <2>2, <4>2
      <4>4. F[r] \in Seq(cs) /\ ToSet(F[r]) = r  BY <2>1, <4>1, <4>3
      <4>5. F[s] = Append(F[r], x)  BY <1>3, <3>2
      <4>6. s = r \cup {x}  BY <4>1
      <4> HIDE DEF x, r
      <4>7. Append(F[r], x) \in Seq(cs) /\ ToSet(Append(F[r], x)) = r \cup {x}
        BY <4>1, <4>4, Elements
      <4> QED  BY <4>5, <4>6, <4>7
    <3> QED  BY <3>1, <3>2
  <2> HIDE DEF Good
  <2> QED  BY <2>1, <2>2
<1>10. 0 .. N \subseteq S
  <2> HIDE DEF S
  <2> QED  BY <1>5, <1>8, <1>9, RangeInduction
<1>11. Good(cs)  BY <1>5, <1>10 DEF N
<1> QED  BY <1>1, <1>11

\* For values in I each entry brings about that they are in J with it, and none undoes that.
Establish(s, X, D, I, J) ==
  \A i \in 1 .. Len(s) : \A x \in X : x \in I =>
    /\ D[<<s[i], x>>] \in I
    /\ <<s[i], D[<<s[i], x>>]>> \in J
    /\ \A j \in 1 .. Len(s) : <<s[j], x>> \in J => <<s[j], D[<<s[i], x>>]>> \in J

\* Then it holds for all entries in the end.
LEMMA UnwoundAll ==
  ASSUME NEW E, NEW s \in Seq(E), NEW X, NEW c \in X, NEW D, IsStep(D, E, X),
         NEW I, NEW J, c \in I, Establish(s, X, D, I, J)
  PROVE  /\ Unwound(s, X, c, D) \in I
         /\ \A i \in 1 .. Len(s) : <<s[i], Unwound(s, X, c, D)>> \in J
<1> DEFINE N == Len(s)
           K == {y \in Nat \X X : /\ y[2] \in I
                                  /\ \A i \in 1 .. N : i > N - y[1] => <<s[i], y[2]>> \in J}
           u == Unwound(s, X, c, D)
<1>0. N \in Nat /\ 0 \in Nat  OBVIOUS
<1>a. \A i \in 1 .. N : s[i] \in E  OBVIOUS
<1>b. \A e \in E : \A x \in X : D[<<e, x>>] \in X  BY DEF IsStep
<1>c. \A i \in 1 .. N : \A x \in X : x \in I =>
        /\ D[<<s[i], x>>] \in I
        /\ <<s[i], D[<<s[i], x>>]>> \in J
        /\ \A j \in 1 .. N : <<s[j], x>> \in J => <<s[j], D[<<s[i], x>>]>> \in J
  BY DEF Establish
<1>1. <<0, c>> \in K
  <2>1. <<0, c>> \in Nat \X X  BY <1>0
  <2>2. \A i \in 1 .. N : ~(i > N - 0)  BY <1>0
  <2> QED  BY <2>1, <2>2
<1>2. ASSUME NEW n \in 1 .. N, NEW x \in X, <<n - 1, x>> \in K
      PROVE  <<n, D[<<s[N - n + 1], x>>]>> \in K
  <2> DEFINE m == N - n + 1  z == D[<<s[m], x>>]
  <2>1. m \in 1 .. N /\ n \in Nat /\ \A i \in 1 .. N : i > N - n => i = m \/ i > N - (n - 1)
    BY <1>0
  <2>2. x \in I /\ \A i \in 1 .. N : i > N - (n - 1) => <<s[i], x>> \in J  BY <1>2
  <2> HIDE DEF m, N
  <2>3. /\ z \in I /\ <<s[m], z>> \in J
        /\ \A j \in 1 .. N : <<s[j], x>> \in J => <<s[j], z>> \in J
    BY <2>1, <2>2, <1>c
  <2>4. z \in X  BY <1>a, <1>b, <2>1
  <2> HIDE DEF z
  <2>5. \A i \in 1 .. N : i > N - n => <<s[i], z>> \in J  BY <2>1, <2>2, <2>3
  <2>6. <<n, z>> \in Nat \X X  BY <2>1, <2>4
  <2>7. <<n, z>> \in K  BY <2>3, <2>5, <2>6
  <2> QED  BY <2>7 DEF z, m
<1>3. <<N, u>> \in K
  <2> HIDE DEF K
  <2>1. IsStep(D, E, X) /\ s \in Seq(E) /\ c \in X /\ N = Len(s)  OBVIOUS
  <2> QED  BY ONLY <1>1, <1>2, <2>1, UnwoundAt
<1> HIDE DEF u
<1>4. u \in I /\ \A i \in 1 .. N : i > N - N => <<s[i], u>> \in J  BY <1>3
<1>5. \A i \in 1 .. N : i > N - N  BY <1>0
<1> QED  BY <1>4, <1>5 DEF u

\* A single entry.
LEMMA UnwoundOne ==
  ASSUME NEW E, NEW e \in E, NEW X, NEW c \in X, NEW D, IsStep(D, E, X)
  PROVE  Unwound(<<e>>, X, c, D) = D[<<e, c>>]
<1> DEFINE s == <<e>>  I == {<<0, c>>, <<1, D[<<e, c>>]>>}  N == Len(s)
<1>1. s \in Seq(E) /\ N = 1 /\ s[1] = e  OBVIOUS
<1> HIDE DEF s
<1>2. <<0, c>> \in I  OBVIOUS
<1>3. ASSUME NEW n \in 1 .. N, NEW x \in X, <<n - 1, x>> \in I
      PROVE  <<n, D[<<s[N - n + 1], x>>]>> \in I
  <2>1. n = 1 /\ N - n + 1 = 1 /\ n - 1 = 0  BY <1>1
  <2>2. x = c  BY <1>3, <2>1
  <2> QED  BY <1>1, <2>1, <2>2
<1>4. <<N, Unwound(s, X, c, D)>> \in I
  <2> HIDE DEF I
  <2>1. IsStep(D, E, X) /\ s \in Seq(E) /\ c \in X /\ N = Len(s)  BY <1>1
  <2> HIDE DEF N
  <2> QED  BY ONLY <1>2, <1>3, <2>1, UnwoundAt
<1>5. N = 1  BY <1>1
<1> QED  BY <1>4, <1>5 DEF s

-----------------------------------------------------------------------------
(* Resolvents                                                              *)

\* A resolvent is true if it is one of the clauses: all others are tautologies, unless
\* the clauses are units.
LEMMA ResolventHit ==
  ASSUME NEW b \in Assignment, NEW c \in Proper, NEW d \in Proper, NEW lit \in c, -lit \in d,
         c # {lit}, NEW r, r = (c \ {lit}) \cup (d \ {-lit}),
         r \in Clauses => r \cap b # {}
  PROVE  r \cap b # {}
<1>1. r \in SUBSET Literal /\ r # {}  BY DEF Proper
<1>2. r \notin Clauses => \E l \in r : -l \in r  BY <1>1 DEF Clauses
<1>3. \A l \in Literal : l \in b \/ -l \in b  BY Values
<1>4. r \notin Clauses => r \cap b # {}  BY <1>1, <1>2, <1>3
<1> QED  BY <1>4

\* All pairs of clauses with a literal and its complement are resolved, and are true
\* without them.
Resolved(cs, lit, b) ==
  \A c \in Occurring(cs, lit), d \in Occurring(cs, -lit) :
    ((c \ {lit}) \cup (d \ {-lit})) \cap b # {}

\* They are if there is no gate.
LEMMA NoGateResolves ==
  ASSUME NEW cs \in SUBSET Proper, \A c \in cs : \A l \in c : c # {l},
         NEW lit \in Literal, NEW b \in Assignment,
         \A c \in Resolvents(cs, lit, NoGate) : c \cap b # {}
  PROVE  Resolved(cs, lit, b)
<1> SUFFICES ASSUME NEW c \in Occurring(cs, lit), NEW d \in Occurring(cs, -lit)
             PROVE  ((c \ {lit}) \cup (d \ {-lit})) \cap b # {}
  BY DEF Resolved
<1> DEFINE r == (c \ {lit}) \cup (d \ {-lit})
<1>1. c \in Proper /\ d \in Proper /\ lit \in c /\ -lit \in d /\ c # {lit}  BY DEF Occurring
<1>2. r \in Clauses => r \cap b # {}
  <2> SUFFICES ASSUME r \in Clauses PROVE r \cap b # {}  OBVIOUS
  <2> DEFINE p == <<c, d>>
  <2>1. p \in Pairs(cs, lit, NoGate) /\ p[1] = c /\ p[2] = d  BY DEF Pairs, NoGate, Gate
  <2>2. r \in Resolvents(cs, lit, NoGate)
    <3> HIDE DEF p
    <3> QED  BY <2>1 DEF Resolvents
  <2> QED  BY <2>2
<1> HIDE DEF r
<1>3. r \cap b # {}  BY <1>1, <1>2, ResolventHit DEF r
<1> QED  BY <1>3 DEF r

\* It does not matter which of the two literals comes first.
LEMMA ResolvedBack ==
  ASSUME NEW cs, NEW lit \in Literal, NEW b, Resolved(cs, lit, b)
  PROVE  Resolved(cs, -lit, b)
<1> SUFFICES ASSUME NEW c \in Occurring(cs, -lit), NEW d \in Occurring(cs, -(-lit))
             PROVE  ((c \ {-lit}) \cup (d \ {-(-lit)})) \cap b # {}
  BY DEF Resolved
<1>1. -(-lit) = lit  BY Literals
<1>2. ((d \ {lit}) \cup (c \ {-lit})) \cap b # {}  BY <1>1 DEF Resolved
<1> QED  BY <1>1, <1>2

\* The assignment with another value for a variable.
LEMMA OneChanged ==
  ASSUME NEW b \in Assignment, NEW lit \in Literal, NEW q, q = (b \ {-lit}) \cup {lit}
  PROVE  /\ q \in Assignment /\ lit \in q
         /\ \A l \in Literal : Var(l) # Var(lit) => (l \in q <=> l \in b)
<1>1. b \in SUBSET Literal /\ \A l \in Literal : l \in b <=> -l \notin b  BY Values
<1>2. /\ -lit \in Literal /\ -(-lit) = lit /\ lit # -lit
      /\ \A l \in Literal : /\ -l \in Literal /\ -(-l) = l /\ Var(-l) = Var(l)
                            /\ Var(l) = Var(lit) <=> l = lit \/ l = -lit
  BY Literals
<1>3. ASSUME NEW l \in Literal PROVE l \in q <=> -l \notin q
  <2>1. CASE l = lit  BY <1>2, <2>1
  <2>2. CASE l = -lit  BY <1>2, <2>2
  <2>3. CASE l # lit /\ l # -lit
    <3>1. -l # lit /\ -l # -lit  BY <1>2, <2>3
    <3> QED  BY <1>1, <2>3, <3>1
  <2> QED  BY <2>1, <2>2, <2>3
<1>4. q \in SUBSET Literal  BY <1>1
<1>5. q \in Assignment  BY <1>3, <1>4 DEF Assignment
<1> QED  BY <1>2, <1>5

\* The entries of a stack for some clauses with a literal.
Stacked(s, lit, cs) ==
  /\ s \in Seq(Entries)
  /\ \A i \in 1 .. Len(s) : s[i].witness = lit /\ s[i].clause \in cs
  /\ \A c \in cs : \E i \in 1 .. Len(s) : s[i].clause = c

\* Another value of its variable makes all clauses with lit or -lit true.
Hits(q, cs, lit, b) ==
  /\ q \in Assignment
  /\ \A l \in Literal : Var(l) # Var(lit) => (l \in q <=> l \in b)
  /\ \A c \in cs : lit \in c \/ -lit \in c => c \cap q # {}

\* The clauses with a variable are true when the stack has given it a value: the clauses
\* with lit, each made true by lit if need be, on top of -lit.
LEMMA FlipEliminated ==
  ASSUME NEW cs \in SUBSET Proper, NEW lit \in Literal, NEW b \in Assignment,
         Resolved(cs, lit, b), NEW s, Stacked(s, lit, Occurring(cs, lit)),
         NEW t, t = Append(s, ElimClause(-lit, {-lit})),
         NEW q, q = Unwound(t, SUBSET Literal, b, Flip)
  PROVE  t \in Seq(Entries) /\ Hits(q, cs, lit, b)
<1> DEFINE X == SUBSET Literal
           O == Occurring(cs, lit)
           e0 == ElimClause(-lit, {-lit})
           low == (b \ {lit}) \cup {-lit}
           high == (b \ {-lit}) \cup {lit}
           N == Len(s)
<1>1. /\ -lit \in Literal /\ -(-lit) = lit /\ lit # -lit
      /\ \A l \in Literal : /\ -l \in Literal /\ -(-l) = l /\ Var(-l) = Var(l)
                            /\ Var(l) = Var(lit) <=> l = lit \/ l = -lit
  BY Literals
<1>2. /\ low \in Assignment /\ -lit \in low
      /\ \A l \in Literal : Var(l) # Var(lit) => (l \in low <=> l \in b)
  <2>1. low = (b \ {-(-lit)}) \cup {-lit}  BY <1>1
  <2> HIDE DEF low
  <2> QED  BY <1>1, <2>1, OneChanged
<1>3. /\ high \in Assignment /\ lit \in high
      /\ \A l \in Literal : Var(l) # Var(lit) => (l \in high <=> l \in b)
  <2>1. high = (b \ {-lit}) \cup {lit}  OBVIOUS
  <2> HIDE DEF high
  <2> QED  BY <2>1, OneChanged
<1>4. low \in X /\ high \in X /\ b \in X  BY <1>2, <1>3, Values
<1>5. \A c \in O : /\ c \in Proper /\ c \in SUBSET Literal /\ lit \in c /\ -lit \notin c
  BY DEF Occurring, Proper
<1>6. e0 \in Entries  BY <1>1 DEF ElimClause, Entries, Proper
<1>7. \A i \in 1 .. N : s[i].witness = lit /\ s[i].clause \in O
  BY DEF Stacked
<1>8. s \in Seq(Entries) /\ \A i \in 1 .. N : s[i] \in Entries
  <2>1. s \in Seq(Entries)  BY DEF Stacked
  <2> QED  BY <2>1
<1>9. <<e0>> \in Seq(Entries) /\ Append(s, e0) = s \o <<e0>> /\ Append(s, e0) \in Seq(Entries)
  <2> HIDE DEF e0
  <2> QED  BY <1>6, <1>8
<1>10. IsStep(Flip, Entries, X)  BY RestoreType
<1>11. Unwound(<<e0>>, X, b, Flip) = low
  <2>1. Unwound(<<e0>>, X, b, Flip) = Flip[<<e0, b>>]
    <3> HIDE DEF e0, X
    <3> QED  BY <1>4, <1>6, <1>10, UnwoundOne
  <2>2. Flip[<<e0, b>>] = Flipped(e0, b)
    <3> HIDE DEF e0
    <3> QED  BY <1>4, <1>6 DEF Flip
  <2>3. Flipped(e0, b) = low  BY <1>1 DEF Flipped, ElimClause
  <2> QED  BY <2>1, <2>2, <2>3
<1> DEFINE I == {x \in X : x = low \/ (x = high /\ \E c \in O : (c \ {lit}) \cap b = {})}
           J == {y \in Entries \X X : y[1].clause \cap y[2] # {}}
<1> HIDE DEF low, high, e0
<1>12. ASSUME NEW i \in 1 .. N, NEW x \in X, x \in I
       PROVE  /\ Flip[<<s[i], x>>] \in I
              /\ <<s[i], Flip[<<s[i], x>>]>> \in J
              /\ \A j \in 1 .. N : <<s[j], x>> \in J => <<s[j], Flip[<<s[i], x>>]>> \in J
  <2> DEFINE e == s[i]  c == e.clause  y == Flip[<<e, x>>]
  <2>1. c \in O /\ e \in Entries /\ e.witness = lit  BY <1>7, <1>8
  <2>2. /\ c \in Proper /\ c \in SUBSET Literal /\ lit \in c /\ -lit \notin c /\ e \in Entries
        /\ e.witness = lit /\ e.clause = c
    <3> HIDE DEF e
    <3> QED  BY <1>5, <2>1
  <2>3. y = IF c \ {lit} \subseteq Complement(x) THEN (x \ {-lit}) \cup {lit} ELSE x
    <3>1. y = Flipped(e, x)
      <4> HIDE DEF e
      <4> QED  BY <2>2 DEF Flip
    <3> HIDE DEF e, c
    <3> QED  BY <2>2, <3>1 DEF Flipped
  <2>a. \A j \in 1 .. N : s[j] \in Entries /\ lit \in s[j].clause
    <3> HIDE DEF O
    <3> QED  BY <1>5, <1>7, <1>8
  <2>b. x \in X /\ (x = low \/ x = high)  BY <1>12
  <2> HIDE DEF c, e, y
  <2>4. \A a \in Assignment : c \ {lit} \subseteq Complement(a) <=> (c \ {lit}) \cap a = {}
    <3> SUFFICES ASSUME NEW a \in Assignment
                 PROVE  c \ {lit} \subseteq Complement(a) <=> (c \ {lit}) \cap a = {}
      OBVIOUS
    <3>1. c \ {lit} \in SUBSET Literal  BY <2>2
    <3>a. a \in SUBSET Literal  BY Values
    <3>b. \A k \in a : k \in Literal /\ -(-k) = k  BY <1>1, <3>a
    <3>2. \A l \in Literal : l \in Complement(a) <=> -l \in a
      BY <1>1, <3>b DEF Complement
    <3>3. \A l \in Literal : l \in a <=> -l \notin a  BY Values
    <3> QED  BY <3>1, <3>2, <3>3
  <2>5. (c \ {lit}) \cap low = (c \ {lit}) \cap b /\ (c \ {lit}) \cap high = (c \ {lit}) \cap b
    <3>1. \A l \in c \ {lit} : l \in Literal /\ Var(l) # Var(lit)  BY <1>1, <2>2
    <3> QED  BY <1>2, <1>3, <3>1
  <2>6. (low \ {-lit}) \cup {lit} = high /\ (high \ {-lit}) \cup {lit} = high
    BY <1>1 DEF low, high
  <2>7. CASE c \ {lit} \subseteq Complement(x)
    <3>1. y = high  BY <2>3, <2>6, <2>7, <2>b
    <3>2. (c \ {lit}) \cap b = {}  BY <1>2, <1>3, <2>4, <2>5, <2>7, <2>b
    <3>3. y \in I  BY <1>4, <2>1, <3>1, <3>2
    <3>4. \A j \in 1 .. N : <<s[j], y>> \in J
      <4>1. y \in X /\ lit \in y  BY <1>3, <1>4, <3>1
      <4>2. \A a \in Entries : a.clause \cap y # {} => <<a, y>> \in J  BY <4>1
      <4> HIDE DEF X, N, J
      <4> QED  BY <2>a, <4>1, <4>2
    <3>5. <<e, y>> \in J  BY <3>4 DEF e
    <3> HIDE DEF I, J
    <3> QED  BY <3>3, <3>4, <3>5 DEF y, e
  <2>8. CASE ~(c \ {lit} \subseteq Complement(x))
    <3>1. y = x  BY <2>3, <2>8
    <3>2. c \cap x # {}  BY <1>2, <1>3, <2>4, <2>8, <2>b
    <3>3. <<e, y>> \in J  BY <2>2, <3>1, <3>2
    <3>4. \A j \in 1 .. N : <<s[j], x>> \in J => <<s[j], y>> \in J  BY <3>1
    <3>5. y \in I  BY <1>12, <3>1
    <3> HIDE DEF I, J
    <3> QED  BY <3>3, <3>4, <3>5 DEF y, e
  <2> QED  BY <2>7, <2>8
<1>13. low \in I  BY <1>4
<1>14. q = Unwound(s, X, low, Flip)
  <2> DEFINE u == <<e0>>
  <2>1. u \in Seq(Entries) /\ s \in Seq(Entries) /\ b \in X  BY <1>4, <1>8, <1>9
  <2>2. Unwound(s \o u, X, b, Flip) = Unwound(s, X, Unwound(u, X, b, Flip), Flip)
    <3> HIDE DEF X, u
    <3> QED  BY ONLY <1>10, <2>1, UnwoundBoth
  <2> QED  BY <1>9, <1>11, <2>2 DEF e0
<1>15. q \in I /\ \A i \in 1 .. N : <<s[i], q>> \in J
  <2>1. s \in Seq(Entries) /\ low \in X  BY <1>4, <1>8
  <2> HIDE DEF I, J, X
  <2>2. Establish(s, X, Flip, I, J)  BY <1>12 DEF Establish
  <2>3. /\ Unwound(s, X, low, Flip) \in I
        /\ \A i \in 1 .. Len(s) : <<s[i], Unwound(s, X, low, Flip)>> \in J
    BY ONLY <1>10, <1>13, <2>1, <2>2, UnwoundAll
  <2> QED  BY <1>14, <2>3
<1>16. \A c \in O : c \cap q # {}
  <2> SUFFICES ASSUME NEW c \in O PROVE c \cap q # {}  OBVIOUS
  <2>1. PICK i \in 1 .. N : s[i].clause = c  BY DEF Stacked
  <2>3. s[i].clause \cap q # {}  BY <1>15
  <2> QED  BY <2>1, <2>3
<1>17. ASSUME NEW d \in cs, -lit \in d PROVE d \cap q # {}
  <2>1. CASE q = low  BY <1>2, <1>17, <2>1
  <2>2. CASE q = high /\ \E c \in O : (c \ {lit}) \cap b = {}
    <3>1. PICK c \in O : (c \ {lit}) \cap b = {}  BY <2>2
    <3>2. d \in Occurring(cs, -lit)  BY <1>17 DEF Occurring
    <3>3. (d \ {-lit}) \cap b # {}  BY <3>1, <3>2 DEF Resolved
    <3>4. PICK l \in d \ {-lit} : l \in b  BY <3>3
    <3>5. l \in Literal /\ l # lit /\ l # -lit  BY <1>1, <1>17, <3>4 DEF Proper
    <3>6. l \in high  BY <1>1, <1>3, <3>4, <3>5
    <3> QED  BY <2>2, <3>4, <3>6
  <2> QED  BY <1>15, <2>1, <2>2
<1>18. q \in Assignment /\ \A l \in Literal : Var(l) # Var(lit) => (l \in q <=> l \in b)
  BY <1>2, <1>3, <1>15
<1>19. \A c \in cs : lit \in c => c \cap q # {}  BY <1>16 DEF Occurring
<1> QED  BY <1>9, <1>17, <1>18, <1>19 DEF e0, Hits

\* What an assignment makes true is consistent.
LEMMA PartConsistent ==
  ASSUME NEW b \in Assignment, NEW p, p \subseteq b
  PROVE  Consistent(p)
BY Values DEF Consistent

\* The clauses of a literal in order.
LEMMA OccurringInOrder ==
  ASSUME NEW cs \in SUBSET Proper, NEW lit
  PROVE  /\ InSomeOrder(Occurring(cs, lit)) \in Seq(Occurring(cs, lit))
         /\ ToSet(InSomeOrder(Occurring(cs, lit))) = Occurring(cs, lit)
<1>1. IsFiniteSet(SUBSET Literal)
  <2>1. IsFiniteSet(Literal)  BY FinitelyManyLiterals
  <2> QED  BY <2>1, FS_SUBSET
<1>2. Occurring(cs, lit) \in SUBSET (SUBSET Literal)  BY DEF Occurring, Proper
<1>3. IsFiniteSet(Occurring(cs, lit))  BY <1>1, <1>2, FS_Subset
<1> QED  BY <1>3, InOrderIs

\* The entries for the clauses of a literal.
EntriesOf(cs, lit) ==
  LET o == InSomeOrder(Occurring(cs, lit)) IN [i \in DOMAIN o |-> ElimClause(lit, o[i])]

\* They are all clauses of the literal.
LEMMA EntriesStacked ==
  ASSUME NEW cs \in SUBSET Proper, NEW lit \in Literal
  PROVE  Stacked(EntriesOf(cs, lit), lit, Occurring(cs, lit))
<1> DEFINE O == Occurring(cs, lit)  o == InSomeOrder(O)  s == [i \in DOMAIN o |-> ElimClause(lit, o[i])]
<1>1. o \in Seq(O) /\ ToSet(o) = O  BY OccurringInOrder
<1>2. \A c \in O : ElimClause(lit, c) \in Entries
  <2> SUFFICES ASSUME NEW c \in O PROVE ElimClause(lit, c) \in Entries  OBVIOUS
  <2>1. c \in Proper /\ lit \in c  BY DEF Occurring
  <2> QED  BY <2>1 DEF ElimClause, Entries
<1>3. EntriesOf(cs, lit) = s  BY DEF EntriesOf
<1> HIDE DEF O, o
<1>4. Len(o) \in Nat /\ DOMAIN o = 1 .. Len(o) /\ \A i \in 1 .. Len(o) : o[i] \in O  BY <1>1
<1>5. \A i \in 1 .. Len(o) : /\ ElimClause(lit, o[i]) \in Entries
                             /\ ElimClause(lit, o[i]).witness = lit
                             /\ ElimClause(lit, o[i]).clause = o[i]
  <2>1. \A c : ElimClause(lit, c).witness = lit /\ ElimClause(lit, c).clause = c  BY DEF ElimClause
  <2> QED  BY <1>2, <1>4, <2>1
<1>6. s = [i \in 1 .. Len(o) |-> ElimClause(lit, o[i])]  BY <1>4
<1>7. s \in Seq(Entries) /\ Len(s) = Len(o) /\ \A i \in 1 .. Len(s) : s[i] = ElimClause(lit, o[i])
  BY <1>4, <1>5, <1>6
<1> HIDE DEF s
<1>8. \A i \in 1 .. Len(s) : s[i].witness = lit /\ s[i].clause = o[i]  BY <1>5, <1>7
<1>9. ASSUME NEW c \in O PROVE \E i \in 1 .. Len(s) : s[i].clause = c
  <2>1. PICK i \in 1 .. Len(o) : o[i] = c
    <3>1. c \in {o[i] : i \in DOMAIN o}  BY <1>1 DEF ToSet
    <3> QED  BY <1>4, <3>1
  <2> QED  BY <1>7, <1>8, <2>1
<1>10. Stacked(s, lit, O)  BY <1>4, <1>7, <1>8, <1>9 DEF Stacked
<1> QED  BY <1>3, <1>10 DEF O

-----------------------------------------------------------------------------
(* Steps that eliminate variables                                          *)

\* Elimination in the MiniSat family.
LEMMA EliminateVarRec ==
  ASSUME RecInv, OutInv', NEW v \in 1 .. NumVars, EliminateVar(v)
  PROVE  RecInv'
<1> DEFINE irr == Without(irredundant, {v}) \cup Resolvents(irredundant, v, NoGate)
           lit == KeptLit(v)
           t == ElimClauses(lit)
           X == SUBSET Literal
<1>1. /\ pc = "eliminate" /\ pc' = "subsume" /\ ok /\ Active(v)
      /\ Settle(irr, redundant, fixed)
      /\ extension' = extension \o t
      /\ solver' = solver /\ formula' = formula
  BY DEF EliminateVar, inputVars
<1>2. solver # "Kissat"  BY <1>1, OutKnown, RecKnown
<1>3. /\ v \in Literal /\ -v \in Literal /\ lit \in {v, -v} /\ lit \in Literal /\ -lit \in {v, -v}
      /\ \A l \in Literal : Var(l) = Var(lit) <=> l \in {v, -v}
  <2>1. v \in Literal /\ -v \in Literal  BY Variables
  <2>2. lit \in {v, -v}  BY DEF KeptLit
  <2>3. /\ -(-v) = v /\ Var(-v) = Var(v)
        /\ \A l \in Literal : Var(l) = Var(v) <=> l = v \/ l = -v
    BY <2>1, Literals
  <2> HIDE DEF lit
  <2> QED  BY <2>1, <2>2, <2>3
<1>4. /\ irr \in SUBSET Proper /\ redundant \in SUBSET Proper /\ irredundant \in SUBSET Proper
      /\ fixed \in SUBSET Literal
  <2>1. irredundant \in SUBSET Proper  BY RecKnown
  <2>2. Resolvents(irredundant, v, NoGate) \in SUBSET Proper  BY <1>3, <2>1, ResolventsTrue
  <2> QED  BY <2>1, <2>2, RecKnown DEF Without
<1> HIDE DEF irr
<1>5. ok' => TidyInv'  BY <1>4, <1>1, SettleTidy DEF TidyInv
<1> DEFINE s == EntriesOf(irredundant, lit)
<1>6. t = Append(s, ElimClause(-lit, {-lit}))  BY DEF ElimClauses, EntriesOf
<1>7. Stacked(s, lit, Occurring(irredundant, lit))
  <2> HIDE DEF lit
  <2> QED  BY <1>3, <1>4, EntriesStacked
<1> HIDE DEF s, t, lit
<1>8. ASSUME ok', NEW b \in Left', NEW q, q = Unwound(t, X, b, Flip)
      PROVE  t \in Seq(Entries) /\ q \in Left
  <2>1. b \in Assignment /\ fixed \subseteq b /\ \A c \in irr : c \cap b # {}
    BY <1>1, <1>4, <1>8, SettleLeft
  <2>2. \A c \in irredundant : \A l \in c : c # {l}
    <3>1. Consistent(fixed)  BY <2>1, PartConsistent
    <3>2. Tidy  BY <1>1, <3>1 DEF RecInv, TidyInv
    <3> QED  BY <3>2 DEF Tidy
  <2>3. Resolved(irredundant, v, b)
    <3>1. \A c \in Resolvents(irredundant, v, NoGate) : c \cap b # {}  BY <2>1 DEF irr
    <3> QED  BY <1>3, <1>4, <2>1, <2>2, <3>1, NoGateResolves
  <2>4. Resolved(irredundant, lit, b)  BY <1>3, <2>3, ResolvedBack
  <2>5. /\ t \in Seq(Entries) /\ q \in Assignment
        /\ \A l \in Literal : Var(l) # Var(lit) => (l \in q <=> l \in b)
        /\ \A c \in irredundant : lit \in c \/ -lit \in c => c \cap q # {}
    <3>1. q = Unwound(t, SUBSET Literal, b, Flip)  BY <1>8
    <3>2. lit \in Literal /\ irredundant \in SUBSET Proper /\ b \in Assignment
      BY <1>3, <1>4, <2>1
    <3>3. t \in Seq(Entries) /\ Hits(q, irredundant, lit, b)
      BY ONLY <1>6, <1>7, <2>4, <3>1, <3>2, FlipEliminated
    <3> QED  BY <3>3 DEF Hits
  <2>6. fixed \subseteq q
    <3> SUFFICES ASSUME NEW l \in fixed PROVE l \in q  OBVIOUS
    <3>1. l \in Literal /\ l \notin {v, -v}  BY <1>1, <1>4 DEF Active
    <3>2. Var(l) # Var(lit)  BY <1>3, <3>1
    <3> QED  BY <2>1, <2>5, <3>1, <3>2
  <2>7. ASSUME NEW c \in irredundant PROVE c \cap q # {}
    <3>1. CASE lit \in c \/ -lit \in c  BY <2>5, <3>1
    <3>2. CASE lit \notin c /\ -lit \notin c
      <4>0. c \in SUBSET Literal  BY <1>4 DEF Proper
      <4>1. \A l \in c : Var(l) # Var(lit)
        <5>1. \A l \in Literal : Var(l) = Var(lit) <=> l = lit \/ l = -lit  BY <1>3, Literals
        <5> QED  BY <3>2, <4>0, <5>1
      <4>2. c \in Without(irredundant, {v})
        <5>1. Var(lit) = v  BY <1>3, LiteralsOf
        <5> QED  BY <4>1, <5>1 DEF Without
      <4>3. c \cap b # {}  BY <2>1, <4>2 DEF irr
      <4>4. PICK l \in c : l \in b  BY <4>3
      <4>5. l \in q  BY <2>5, <4>0, <4>1, <4>4
      <4> QED  BY <4>5
    <3> QED  BY <3>1, <3>2
  <2> QED  BY <2>5, <2>6, <2>7 DEF Left, Satisfies
<1>9. t \in Seq(Entries)
  <2>1. s \in Seq(Entries)  BY <1>7 DEF Stacked
  <2>2. ElimClause(-lit, {-lit}) \in Entries
    <3>1. -lit \in Literal /\ -(-lit) # -lit  BY <1>3, Literals
    <3> QED  BY <3>1 DEF ElimClause, Entries, Proper
  <2> QED  BY <1>6, <2>1, <2>2
<1>10. extension \in Seq(Entries) /\ extension' \in Seq(Entries)
  <2>1. extension \in Seq(Entries)  BY RecKnown
  <2> QED  BY <1>1, <1>9, <2>1, Concatenated
<1>11. ASSUME ok', NEW b \in Left' PROVE Satisfies(ExtendedModel(extension', b), Input')
  <2> DEFINE q == Unwound(t, X, b, Flip)
  <2>1. q \in Left  BY <1>8, <1>11
  <2>2. Satisfies(ExtendedModel(extension, q), Input)
    <3> HIDE DEF q
    <3>1. Rebuilt  BY <1>1 DEF RecInv
    <3> QED  BY <1>2, <2>1, <3>1 DEF Rebuilt
  <2>3. b \in X
    <3>1. b \in Assignment  BY <1>11 DEF Left
    <3> QED  BY <3>1, Values
  <2>4. q \in X
    <3> HIDE DEF q
    <3> QED  BY <2>1, Values DEF Left
  <2>5. ExtendedModel(extension', b) = Unwound(extension', X, b, Flip)
    BY <1>10, <2>3, ExtendedModelIs
  <2>6. ExtendedModel(extension, q) = Unwound(extension, X, q, Flip)
    <3> HIDE DEF q
    <3> QED  BY <1>10, <2>4, ExtendedModelIs
  <2>7. Unwound(extension \o t, X, b, Flip) = Unwound(extension, X, q, Flip)
    <3>1. IsStep(Flip, Entries, X)  BY RestoreType
    <3> HIDE DEF X
    <3> QED  BY ONLY <1>9, <1>10, <2>3, <3>1, UnwoundBoth
  <2>8. Input' = Input  BY <1>1 DEF Input
  <2> HIDE DEF q
  <2> QED  BY <1>1, <2>2, <2>5, <2>6, <2>7, <2>8
<1>12. ok' => Rebuilt'  BY <1>1, <1>2, <1>11 DEF Rebuilt
<1>13. LoadInv'  BY <1>1 DEF LoadInv
<1> QED  BY <1>1, <1>5, <1>10, <1>12, <1>13 DEF RecInv

-----------------------------------------------------------------------------
(* Clauses that subsume others                                             *)

\* Each clause contains one that no other subsumes.
LEMMA MinimalBelow ==
  ASSUME NEW cs \in SUBSET (SUBSET Literal), NEW c \in cs
  PROVE  \E d \in cs : d \subseteq c /\ ~Subsumed(d, cs)
<1> DEFINE S == {n \in Nat : \E d \in cs : d \subseteq c /\ Cardinality(d) = n}
<1>1. \A d \in cs : IsFiniteSet(d) /\ Cardinality(d) \in Nat  BY FinitelyManyLiterals
<1>2. S # {} /\ S \in SUBSET Nat
  <2>1. Cardinality(c) \in S  BY <1>1
  <2> QED  BY <2>1
<1>3. PICK n \in S : \A m \in S : n <= m
  <2> HIDE DEF S
  <2> QED  BY <1>2, Least
<1>4. PICK d \in cs : d \subseteq c /\ Cardinality(d) = n  BY <1>3
<1>5. ASSUME NEW e \in cs, e \subseteq d, e # d PROVE FALSE
  <2>1. Cardinality(e) \in S  BY <1>1, <1>4, <1>5
  <2>2. Cardinality(d) <= Cardinality(e)  BY <1>3, <1>4, <2>1
  <2>3. e \in SUBSET d  BY <1>5
  <2>4. /\ Cardinality(e) <= Cardinality(d)
        /\ Cardinality(d) = Cardinality(e) => d = e
    BY <1>1, <2>3, FS_Subset
  <2>5. Cardinality(d) = Cardinality(e)  BY <1>1, <2>2, <2>4
  <2> QED  BY <1>5, <2>4, <2>5
<1> QED  BY <1>4, <1>5 DEF Subsumed

\* The resolvents that are not added are true if the others are.
LEMMA AddedBack ==
  ASSUME NEW R \in SUBSET (SUBSET Literal), NEW cs \in SUBSET (SUBSET Literal), NEW b,
         \A c \in cs \cup Added(R, cs) : c \cap b # {}
  PROVE  \A c \in R : c \cap b # {}
<1> SUFFICES ASSUME NEW c \in R PROVE c \cap b # {}  OBVIOUS
<1> DEFINE all == cs \cup R
<1>1. PICK d \in all : d \subseteq c /\ ~Subsumed(d, all)
  <2>1. all \in SUBSET (SUBSET Literal) /\ c \in all  OBVIOUS
  <2> HIDE DEF all
  <2> QED  BY <2>1, MinimalBelow
<1>2. d \in cs \/ d \in Added(R, cs)  BY <1>1 DEF Added
<1> QED  BY <1>1, <1>2

\* Clauses are true if those are that the new ones among them leave of them.
LEMMA ReducedBack ==
  ASSUME NEW cs \in SUBSET (SUBSET Literal), NEW new \in SUBSET cs, NEW b,
         \A c \in Reduced(cs, new) : c \cap b # {}
  PROVE  \A c \in cs : c \cap b # {}
<1>1. ASSUME NEW c \in cs, ~Subsumed(c, new) PROVE c \cap b # {}
  <2> DEFINE e == IF \E d \in new : Removable(c, d) # {}
                  THEN c \ {CHOOSE l \in c : \E d \in new : l \in Removable(c, d)} ELSE c
  <2>1. e \in Reduced(cs, new)  BY <1>1 DEF Reduced
  <2>2. e \subseteq c  OBVIOUS
  <2> HIDE DEF e
  <2> QED  BY <2>1, <2>2
<1>2. ASSUME NEW c \in cs PROVE c \cap b # {}
  <2>1. CASE ~Subsumed(c, new)  BY <1>1, <2>1
  <2>2. CASE Subsumed(c, new)
    <3>1. PICK d \in new : d \subseteq c  BY <2>2 DEF Subsumed
    <3>2. PICK e \in new : e \subseteq d /\ ~Subsumed(e, new)
      <4>1. new \in SUBSET (SUBSET Literal)  OBVIOUS
      <4> QED  BY <4>1, MinimalBelow
    <3>3. e \cap b # {}  BY <1>1, <3>2
    <3> QED  BY <3>1, <3>2, <3>3
  <2> QED  BY <2>1, <2>2
<1> QED  BY <1>2

-----------------------------------------------------------------------------
(* Gates                                                                   *)

\* The clauses of a gate are clauses with lit or -lit; however the other variables get
\* values, one of them is not true without lit or -lit; and unless the clauses are to be
\* resolved with each other, their resolvents are true anyway.
IsGate(gate, cs, lit) ==
  LET pos == Occurring(cs, lit)
      neg == Occurring(cs, -lit)
  IN  /\ gate.clauses \subseteq pos \cup neg
      /\ \A a \in Assignment : \E g \in gate.clauses : (g \ {lit, -lit}) \cap a = {}
      /\ ~gate.stronger =>
           \A a \in Assignment : \A g \in pos \cap gate.clauses, h \in neg \cap gate.clauses :
             ((g \ {lit}) \cup (h \ {-lit})) \cap a # {}

\* The resolvents that a gate leaves are enough.
LEMMA GateResolves ==
  ASSUME NEW cs \in SUBSET Proper, \A c \in cs : \A l \in c : c # {l},
         NEW lit \in Literal, NEW b \in Assignment, NEW gate, IsGate(gate, cs, lit),
         \A c \in Resolvents(cs, lit, gate) : c \cap b # {}
  PROVE  Resolved(cs, lit, b)
<1> DEFINE pos == Occurring(cs, lit)  neg == Occurring(cs, -lit)  G == gate.clauses
<1>1. \A c \in pos : c \in Proper /\ lit \in c /\ c # {lit}  BY DEF Occurring
<1>2. \A c \in neg : c \in Proper /\ -lit \in c  BY DEF Occurring
<1>3. ASSUME NEW c \in pos, NEW d \in neg, <<c, d>> \in Pairs(cs, lit, gate)
      PROVE  ((c \ {lit}) \cup (d \ {-lit})) \cap b # {}
  <2> DEFINE r == (c \ {lit}) \cup (d \ {-lit})  p == <<c, d>>
  <2>1. r \in Clauses => r \cap b # {}
    <3>1. p[1] = c /\ p[2] = d /\ p \in Pairs(cs, lit, gate)  BY <1>3
    <3>2. r = (p[1] \ {lit}) \cup (p[2] \ {-lit})  BY <3>1
    <3> HIDE DEF p, r
    <3>3. r \in Clauses => r \in Resolvents(cs, lit, gate)  BY <3>1, <3>2 DEF Resolvents
    <3> QED  BY <3>3
  <2>2. r = (c \ {lit}) \cup (d \ {-lit})  OBVIOUS
  <2>3. c \in Proper /\ d \in Proper /\ lit \in c /\ -lit \in d /\ c # {lit}  BY <1>1, <1>2
  <2> HIDE DEF r
  <2>4. r \cap b # {}  BY <2>1, <2>2, <2>3, ResolventHit
  <2> QED  BY <2>4 DEF r
<1> SUFFICES ASSUME NEW c \in pos, NEW d \in neg,
                    ((c \ {lit}) \cup (d \ {-lit})) \cap b = {}
             PROVE  FALSE
  BY DEF Resolved
<1>4. PICK g \in G : (g \ {lit, -lit}) \cap b = {}  BY DEF IsGate
<1>5. g \in pos \/ g \in neg  BY DEF IsGate
<1>6. \A x, y : x \in pos /\ y \in neg /\ (x \in G \/ y \in G) /\ (x \in G /\ y \in G => gate.stronger)
                => <<x, y>> \in Pairs(cs, lit, gate)
  BY DEF Pairs
<1>7. CASE g \in pos
  <2>1. -lit \notin g  BY <1>1, <1>7 DEF Proper
  <2>2. ((g \ {lit}) \cup (d \ {-lit})) \cap b = {}  BY <1>4, <2>1
  <2>3. ~(d \in G /\ ~gate.stronger)  BY <1>4, <1>7, <2>2 DEF IsGate
  <2>4. <<g, d>> \in Pairs(cs, lit, gate)  BY <1>6, <1>7, <2>3
  <2> QED  BY <1>3, <1>7, <2>2, <2>4
<1>8. CASE g \in neg
  <2>1. lit \notin g
    <3>1. -(-lit) = lit  BY Literals
    <3> QED  BY <1>2, <1>8, <3>1 DEF Proper
  <2>2. ((c \ {lit}) \cup (g \ {-lit})) \cap b = {}  BY <1>4, <2>1
  <2>3. ~(c \in G /\ ~gate.stronger)  BY <1>4, <1>8, <2>2 DEF IsGate
  <2>4. <<c, g>> \in Pairs(cs, lit, gate)  BY <1>6, <1>8, <2>3
  <2> QED  BY <1>3, <1>8, <2>2, <2>4
<1> QED  BY <1>5, <1>7, <1>8

\* A gate of the complement is one of the literal.
LEMMA GateBack ==
  ASSUME NEW lit \in Literal, NEW cs, NEW gate, IsGate(gate, cs, -lit)
  PROVE  IsGate(gate, cs, lit)
<1>1. -(-lit) = lit  BY Literals
<1>2. {-lit, lit} = {lit, -lit}  OBVIOUS
<1>3. /\ gate.clauses \subseteq Occurring(cs, -lit) \cup Occurring(cs, lit)
      /\ \A a \in Assignment : \E g \in gate.clauses : (g \ {-lit, lit}) \cap a = {}
      /\ ~gate.stronger =>
           \A a \in Assignment : \A g \in Occurring(cs, -lit) \cap gate.clauses,
                                    h \in Occurring(cs, lit) \cap gate.clauses :
             ((g \ {-lit}) \cup (h \ {lit})) \cap a # {}
  BY <1>1 DEF IsGate
<1>4. \A a : \A g, h : (g \ {-lit}) \cup (h \ {lit}) = (h \ {lit}) \cup (g \ {-lit})  OBVIOUS
<1> HIDE DEF IsGate
<1>5. ~gate.stronger =>
         \A a \in Assignment : \A g \in Occurring(cs, lit) \cap gate.clauses,
                                  h \in Occurring(cs, -lit) \cap gate.clauses :
             ((g \ {lit}) \cup (h \ {-lit})) \cap a # {}
  BY <1>3
<1> QED  BY <1>2, <1>3, <1>5 DEF IsGate

\* An equivalence is a gate.
LEMMA EquivalenceIsGate ==
  ASSUME NEW cs \in SUBSET Proper, \A c \in cs : \A l \in c : c # {l},
         NEW lit \in Literal, NEW gate \in EquivalenceGates(cs, lit)
  PROVE  IsGate(gate, cs, lit)
<1>1. PICK r \in Literal : /\ {lit, -r} \in cs /\ {-lit, r} \in cs
                           /\ gate = Gate({{lit, -r}, {-lit, r}}, FALSE)
  BY DEF EquivalenceGates
<1>2. /\ -lit \in Literal /\ -(-lit) = lit /\ lit # -lit
      /\ -r \in Literal /\ -(-r) = r /\ r # -r
  BY Literals
<1>3. r # lit /\ r # -lit
  <2>1. r # -lit  BY <1>1, <1>2
  <2>2. r # lit  BY <1>1, <1>2 DEF Proper
  <2> QED  BY <2>1, <2>2
<1>a. -r # lit /\ -r # -lit  BY <1>2, <1>3
<1> DEFINE c == {lit, -r}  d == {-lit, r}  G == {c, d}
<1>4. gate.clauses = G  BY <1>1 DEF Gate
<1>5. Occurring(cs, lit) \cap G = {c} /\ Occurring(cs, -lit) \cap G = {d}
  <2>1. c \in cs /\ d \in cs /\ lit \in c /\ lit \notin d /\ -lit \in d /\ -lit \notin c
    BY <1>1, <1>2, <1>3, <1>a
  <2> HIDE DEF c, d
  <2> QED  BY <2>1 DEF Occurring
<1>6. c \ {lit} = {-r} /\ d \ {-lit} = {r} /\ c \ {lit, -lit} = {-r} /\ d \ {lit, -lit} = {r}
  BY <1>2, <1>3, <1>a
<1>7. \A a \in Assignment : r \in a <=> -r \notin a  BY Values
<1> HIDE DEF c, d
<1>8. G \subseteq Occurring(cs, lit) \cup Occurring(cs, -lit)  BY <1>5
<1>9. \A a \in Assignment : \E g \in G : (g \ {lit, -lit}) \cap a = {}  BY <1>6, <1>7
<1>10. \A a \in Assignment : \A g \in {c}, h \in {d} : ((g \ {lit}) \cup (h \ {-lit})) \cap a # {}
  BY <1>6, <1>7
<1> QED  BY <1>4, <1>5, <1>8, <1>9, <1>10 DEF IsGate

\* An and-gate is a gate.
LEMMA AndIsGate ==
  ASSUME NEW cs \in SUBSET Proper, NEW lit \in Literal, NEW gate \in AndGates(cs, lit)
  PROVE  IsGate(gate, cs, lit)
<1>1. PICK base \in Occurring(cs, -lit) :
        /\ \A other \in base \ {-lit} : {lit, -other} \in cs
        /\ gate = Gate({base} \cup {{lit, -other} : other \in base \ {-lit}}, FALSE)
  BY DEF AndGates
<1> DEFINE others == base \ {-lit}  Bin(k) == {lit, -k}
           G == {base} \cup {Bin(k) : k \in others}
<1>2. gate.clauses = G  BY <1>1 DEF Gate
<1>3. /\ base \in cs /\ base \in Proper /\ -lit \in base /\ lit \notin base
      /\ base \in SUBSET Literal
  <2>1. -(-lit) = lit  BY Literals
  <2> QED  BY <2>1 DEF Occurring, Proper
<1>4. \A k \in others : /\ k \in Literal /\ -k \in Literal /\ -(-k) = k /\ k # lit /\ k # -lit
                        /\ -k # lit /\ -k # -lit
  <2> SUFFICES ASSUME NEW k \in others
               PROVE  /\ k \in Literal /\ -k \in Literal /\ -(-k) = k /\ k # lit /\ k # -lit
                      /\ -k # lit /\ -k # -lit
    OBVIOUS
  <2>1. k \in Literal /\ k # lit /\ k # -lit  BY <1>3
  <2>2. -k \in Literal /\ -(-k) = k /\ -(-lit) = lit  BY <2>1, Literals
  <2> QED  BY <2>1, <2>2
<1>5. lit # -lit  BY Literals
<1>6. \A k \in others : /\ lit \in Bin(k) /\ -lit \notin Bin(k) /\ Bin(k) \in cs
                        /\ Bin(k) \ {lit} = {-k} /\ Bin(k) \ {lit, -lit} = {-k}
  BY <1>1, <1>4, <1>5
<1>a. base \ {lit, -lit} = others  BY <1>3
<1> HIDE DEF Bin
<1>7. Occurring(cs, lit) \cap G = {Bin(k) : k \in others} /\ Occurring(cs, -lit) \cap G = {base}
  BY <1>3, <1>6 DEF Occurring
<1>8. \A a \in Assignment : \A k \in others : k \in a <=> -k \notin a  BY <1>4, Values
<1> HIDE DEF others
<1>9. G \subseteq Occurring(cs, lit) \cup Occurring(cs, -lit)  BY <1>7
<1>10. ASSUME NEW a \in Assignment PROVE \E g \in G : (g \ {lit, -lit}) \cap a = {}
  <2>1. CASE others \cap a = {}  BY <1>a, <2>1
  <2>2. CASE others \cap a # {}
    <3>1. PICK k \in others : k \in a  BY <2>2
    <3>2. Bin(k) \in G /\ (Bin(k) \ {lit, -lit}) \cap a = {}  BY <1>6, <1>8, <3>1
    <3> QED  BY <3>2
  <2> QED  BY <2>1, <2>2
<1>11. ASSUME NEW a \in Assignment, NEW k \in others
       PROVE  ((Bin(k) \ {lit}) \cup (base \ {-lit})) \cap a # {}
  BY <1>6, <1>8 DEF others
<1>12. \A a \in Assignment : \A g \in {Bin(k) : k \in others}, h \in {base} :
         ((g \ {lit}) \cup (h \ {-lit})) \cap a # {}
  BY <1>11
<1> HIDE DEF G
<1> QED  BY <1>2, <1>7, <1>9, <1>10, <1>12 DEF IsGate

\* A core with clauses on both sides is a gate.
LEMMA DefinitionIsGate ==
  ASSUME NEW cs, NEW lit, NEW gate \in DefinitionGates(cs, lit)
  PROVE  IsGate(gate, cs, lit)
<1>1. PICK core \in Cores(cs, lit) : gate = Gate(core, TRUE)  BY DEF DefinitionGates
<1>2. /\ core \subseteq Occurring(cs, lit) \cup Occurring(cs, -lit)
      /\ ~\E a \in Assignment : Satisfies(a, {c \ {lit, -lit} : c \in core})
  BY DEF Cores
<1>3. \A a \in Assignment : \E g \in core : (g \ {lit, -lit}) \cap a = {}
  BY <1>2 DEF Satisfies
<1>4. gate.clauses = core /\ gate.stronger = TRUE  BY <1>1 DEF Gate
<1> QED  BY <1>2, <1>3, <1>4 DEF IsGate

\* The third literal of a clause of three.
LEMMA ThirdLiteral ==
  ASSUME NEW c \in SUBSET Literal, Cardinality(c) = 3, NEW k \in c, NEW b \in c, k # b
  PROVE  \E x \in c : c \ {k, b} = {x} /\ x # k /\ x # b
<1>1. IsFiniteSet(c)  BY FinitelyManyLiterals
<1> DEFINE d == c \ {k}  e == d \ {b}
<1>2. IsFiniteSet(d) /\ Cardinality(d) = 2  BY <1>1, FS_RemoveElement
<1>3. b \in d  OBVIOUS
<1>4. IsFiniteSet(e) /\ Cardinality(e) = 1
  <2> HIDE DEF d
  <2> QED  BY <1>2, <1>3, FS_RemoveElement
<1>5. e = c \ {k, b}  OBVIOUS
<1>6. PICK x : e = {x}
  <2> HIDE DEF e
  <2> QED  BY <1>4, FS_Singleton
<1> QED  BY <1>5, <1>6

\* A part of three literals that is not smaller is all of them.
LEMMA AllThree ==
  ASSUME NEW x, NEW y, NEW z, NEW e \in SUBSET {x, y, z}, ~(Cardinality(e) < 3)
  PROVE  e = {x, y, z}
<1>1. IsFiniteSet({x}) /\ Cardinality({x}) = 1  BY FS_Singleton
<1> DEFINE S == {x} \cup {y}  T == S \cup {z}
<1>2. IsFiniteSet(S) /\ Cardinality(S) \in Nat /\ Cardinality(S) <= 2
  BY <1>1, FS_AddElement
<1>3. IsFiniteSet(T) /\ Cardinality(T) \in Nat /\ Cardinality(T) <= 3
  <2> HIDE DEF S
  <2> QED  BY <1>2, FS_AddElement
<1>4. T = {x, y, z}  OBVIOUS
<1> HIDE DEF T
<1>5. e \in SUBSET T  BY <1>4
<1>6. Cardinality(e) <= Cardinality(T) /\ (Cardinality(T) = Cardinality(e) => T = e) /\ IsFiniteSet(e)
  BY <1>3, <1>5, FS_Subset
<1>7. Cardinality(e) \in Nat  BY <1>6, FS_CardinalityType
<1>8. Cardinality(e) = Cardinality(T)  BY <1>3, <1>6, <1>7
<1> QED  BY <1>4, <1>6, <1>8

\* A gate that selects one of two literals is a gate.
LEMMA IfThenElseIsGate ==
  ASSUME NEW cs \in SUBSET Proper, NEW lit \in Literal, NEW gate \in IfThenElseGates(cs, lit)
  PROVE  IsGate(gate, cs, lit)
<1> DEFINE Other(c, b) == {-lit, b} \cup Complement(c \ {lit, b})
           T == {u \in Literal \X cs \X cs :
                   /\ lit \in u[2] /\ Cardinality(u[2]) = 3 /\ u[1] \in u[2]
                   /\ lit \in u[3] /\ Cardinality(u[3]) = 3 /\ -u[1] \in u[3]}
<1> DEFINE Ternary(b) == {c \in Occurring(cs, lit) : Cardinality(c) = 3 /\ b \in c}
           Completed(b, c, d) ==
             {Gate({c, d, e, f}, Cardinality(e) < 3 \/ Cardinality(f) < 3) :
                e \in Matching(cs, -lit, Other(c, b)), f \in Matching(cs, -lit, Other(d, -b))}
           U == {u \in Literal \X cs \X cs :
                  /\ u[2] \in Ternary(u[1]) /\ u[3] \in Ternary(-u[1])
                  /\ u[2] \ {lit, u[1]} # Complement(u[3] \ {lit, -u[1]})
                  /\ u[2] \ {lit, u[1]} # u[3] \ {lit, -u[1]}}
<1>a. IfThenElseGates(cs, lit) = UNION {Completed(t[1], t[2], t[3]) : t \in U}
  BY DEF IfThenElseGates
<1>b. PICK t \in U : gate \in Completed(t[1], t[2], t[3])
  <2> HIDE DEF Completed, U
  <2> QED  BY <1>a
<1>c. t \in T
  <2>1. \A b : \A c \in Ternary(b) : lit \in c /\ Cardinality(c) = 3 /\ b \in c  BY DEF Occurring
  <2> HIDE DEF Ternary
  <2> QED  BY <2>1
<1>1. \E e \in Matching(cs, -lit, Other(t[2], t[1])),
         f \in Matching(cs, -lit, Other(t[3], -t[1])) :
        gate = Gate({t[2], t[3], e, f}, Cardinality(e) < 3 \/ Cardinality(f) < 3)
  <2> HIDE DEF U, Other
  <2> QED  BY <1>b
<1> HIDE DEF U
<1> DEFINE b == t[1]  c == t[2]  d == t[3]
<1>2. /\ b \in Literal /\ c \in cs /\ d \in cs
      /\ lit \in c /\ Cardinality(c) = 3 /\ b \in c
      /\ lit \in d /\ Cardinality(d) = 3 /\ -b \in d
  BY <1>c
<1>3. PICK e \in Matching(cs, -lit, Other(c, b)), f \in Matching(cs, -lit, Other(d, -b)) :
        gate = Gate({c, d, e, f}, Cardinality(e) < 3 \/ Cardinality(f) < 3)
  BY <1>1
<1>4. /\ e \in cs /\ -lit \in e /\ e \subseteq Other(c, b)
      /\ f \in cs /\ -lit \in f /\ f \subseteq Other(d, -b)
  BY <1>3 DEF Matching, Occurring
<1> HIDE DEF b, c, d
<1>5. \A l \in Literal : -l \in Literal /\ -(-l) = l /\ l # -l  BY Literals
<1>6. \A k \in {c, d, e, f} : k \in SUBSET Literal /\ \A l \in k : -l \notin k
  BY <1>2, <1>4 DEF Proper
<1>7. b # lit /\ -b # lit /\ -lit \in Literal /\ -b \in Literal
  <2>1. -b \in Literal /\ -(-b) = b  BY <1>2, <1>5
  <2>2. -b \notin c /\ b \notin d  BY <1>2, <1>6, <2>1
  <2> QED  BY <1>2, <1>5, <2>1, <2>2
<1>8. PICK x \in c : c \ {lit, b} = {x} /\ x # lit /\ x # b
  BY <1>2, <1>6, <1>7, ThirdLiteral
<1>9. PICK y \in d : d \ {lit, -b} = {y} /\ y # lit /\ y # -b
  BY <1>2, <1>6, <1>7, ThirdLiteral
<1>10. /\ x \in Literal /\ y \in Literal /\ -x \in Literal /\ -y \in Literal
       /\ x # -lit /\ y # -lit
  <2>1. x \in Literal /\ y \in Literal  BY <1>6
  <2>2. -lit \notin c /\ -lit \notin d  BY <1>2, <1>6
  <2> QED  BY <1>5, <2>1, <2>2
<1>11. Other(c, b) = {-lit, b, -x} /\ Other(d, -b) = {-lit, -b, -y}
  BY <1>8, <1>9 DEF Complement
<1> HIDE DEF Other
<1> DEFINE G == {c, d, e, f}
<1>12. gate.clauses = G /\ gate.stronger = (Cardinality(e) < 3 \/ Cardinality(f) < 3)
  BY <1>3 DEF Gate
<1>13. /\ lit \notin e /\ lit \notin f /\ -lit \notin c /\ -lit \notin d
  <2>1. -(-lit) = lit  BY <1>5
  <2> QED  BY <1>2, <1>4, <1>6, <2>1
<1>14. Occurring(cs, lit) \cap G = {c, d} /\ Occurring(cs, -lit) \cap G = {e, f}
  BY <1>2, <1>4, <1>13 DEF Occurring
<1>15. c \ {lit} = {b, x} /\ d \ {lit} = {-b, y}
  BY <1>2, <1>7, <1>8, <1>9
<1>16. e \ {-lit} \subseteq {b, -x} /\ f \ {-lit} \subseteq {-b, -y}
  BY <1>4, <1>11
<1>17. \A a \in Assignment : \A l \in {b, x, y} : l \in a <=> -l \notin a
  <2>1. b \in Literal /\ x \in Literal /\ y \in Literal  BY <1>2, <1>10
  <2> QED  BY <2>1, Values
<1> DEFINE C == c \ {lit}  D == d \ {lit}  E == e \ {-lit}  F == f \ {-lit}
<1>d. c \ {lit, -lit} = C /\ d \ {lit, -lit} = D /\ e \ {lit, -lit} = E /\ f \ {lit, -lit} = F
  BY <1>13
<1> HIDE DEF C, D, E, F
<1>18. ASSUME NEW a \in Assignment PROVE \E g \in G : (g \ {lit, -lit}) \cap a = {}
  <2>1. \A l \in {b, x, y} : l \in a <=> -l \notin a  BY <1>17
  <2>2. E \cap a = {} \/ C \cap a = {} \/ F \cap a = {} \/ D \cap a = {}
    BY <2>1, <1>15, <1>16 DEF C, D, E, F
  <2> QED  BY <1>d, <2>2
<1>19. ASSUME ~gate.stronger, NEW a \in Assignment, NEW g \in {c, d}, NEW h \in {e, f}
       PROVE  ((g \ {lit}) \cup (h \ {-lit})) \cap a # {}
  <2>1. e = {-lit, b, -x} /\ f = {-lit, -b, -y}
    <3>1. ~(Cardinality(e) < 3) /\ ~(Cardinality(f) < 3)  BY <1>12, <1>19
    <3>2. e \in SUBSET {-lit, b, -x} /\ f \in SUBSET {-lit, -b, -y}  BY <1>4, <1>11
    <3> QED  BY <3>1, <3>2, AllThree
  <2>2. b # -lit /\ -b # -lit /\ -x # -lit /\ -y # -lit
    <3>1. -(-b) = b /\ -(-x) = x /\ -(-y) = y /\ -(-lit) = lit
      BY <1>2, <1>5, <1>10
    <3> QED  BY <1>7, <1>8, <1>9, <3>1
  <2>3. E = {b, -x} /\ F = {-b, -y}  BY <2>1, <2>2 DEF E, F
  <2>4. \A l \in {b, x, y} : l \in a <=> -l \notin a  BY <1>17
  <2>5. C = {b, x} /\ D = {-b, y}  BY <1>15 DEF C, D
  <2>6. /\ (C \cup E) \cap a # {} /\ (C \cup F) \cap a # {}
        /\ (D \cup E) \cap a # {} /\ (D \cup F) \cap a # {}
    BY <2>3, <2>4, <2>5
  <2> QED  BY <2>6 DEF C, D, E, F
<1>20. G \subseteq Occurring(cs, lit) \cup Occurring(cs, -lit)  BY <1>14
<1> HIDE DEF G
<1> QED  BY <1>12, <1>14, <1>18, <1>19, <1>20 DEF IsGate

\* Changing the signs of some literals of a clause.
Signed(base, flipped) == (base \ flipped) \cup Complement(flipped)

\* The clause does not get longer.
LEMMA SignedCard ==
  ASSUME NEW base \in SUBSET Literal, NEW flipped \in SUBSET base
  PROVE  /\ IsFiniteSet(Signed(base, flipped))
         /\ Cardinality(Signed(base, flipped)) <= Cardinality(base)
<1> DEFINE f == [l \in base |-> IF l \in flipped THEN -l ELSE l]
           c == Signed(base, flipped)
<1>1. IsFiniteSet(base)  BY FinitelyManyLiterals
<1>2. f \in Surjection(base, c)
  <2>1. \A l \in base : f[l] \in c  BY DEF Signed, Complement
  <2>2. f \in [base -> c]  BY <2>1
  <2>3. \A k \in c : \E l \in base : f[l] = k
    <3> SUFFICES ASSUME NEW k \in c PROVE \E l \in base : f[l] = k  OBVIOUS
    <3>1. CASE k \in base \ flipped  BY <3>1
    <3>2. CASE k \in Complement(flipped)
      <4>1. PICK l \in flipped : k = -l  BY <3>2 DEF Complement
      <4>2. l \in base /\ f[l] = k  BY <4>1
      <4> QED  BY <4>2
    <3> QED  BY <3>1, <3>2 DEF Signed
  <2> HIDE DEF f, c
  <2> QED  BY <2>2, <2>3 DEF Surjection
<1> HIDE DEF f
<1> QED  BY <1>1, <1>2, FS_Surjection

\* An even number of signs makes all literals false but perhaps one.
LEMMA EvenFalsifies ==
  ASSUME NEW base \in Proper, NEW lit \in base, NEW a \in Assignment
  PROVE  \E c \in SameParity(base) : (c \ {lit, -lit}) \cap a = {}
<1> DEFINE F == {l \in base \ {lit} : l \in a}
<1>1. base \in SUBSET Literal /\ IsFiniteSet(F) /\ Cardinality(F) \in Nat
  <2>1. base \in SUBSET Literal  BY DEF Proper
  <2>2. F \in SUBSET Literal  BY <2>1
  <2> HIDE DEF F
  <2> QED  BY <2>1, <2>2, FinitelyManyLiterals
<1>2. lit \notin F /\ F \in SUBSET base  OBVIOUS
<1>3. Cardinality(F \cup {lit}) = Cardinality(F) + 1
  <2> HIDE DEF F
  <2> QED  BY <1>1, <1>2, FS_AddElement
<1>4. \E s \in SUBSET base : Cardinality(s) % 2 = 0 /\ s \ {lit} = F
  <2> HIDE DEF F
  <2>1. CASE Cardinality(F) % 2 = 0
    <3>1. F \ {lit} = F  BY <1>2
    <3> QED  BY <1>2, <2>1, <3>1
  <2>2. CASE Cardinality(F) % 2 # 0
    <3> DEFINE s == F \cup {lit}
    <3>1. Cardinality(s) % 2 = 0  BY <1>1, <1>3, <2>2
    <3>2. s \in SUBSET base /\ s \ {lit} = F  BY <1>2
    <3> QED  BY <3>1, <3>2
  <2> QED  BY <2>1, <2>2
<1>5. PICK s \in SUBSET base : Cardinality(s) % 2 = 0 /\ s \ {lit} = F  BY <1>4
<1> DEFINE c == Signed(base, s)
<1>6. c \in SameParity(base)  BY <1>5 DEF SameParity, Signed
<1>7. ASSUME NEW k \in c \ {lit, -lit} PROVE k \notin a
  <2>1. CASE k \in base \ s
    <3>1. k \in base /\ k # lit /\ k \notin F  BY <1>5, <2>1
    <3> QED  BY <3>1
  <2>2. CASE k \in Complement(s)
    <3>1. PICK l \in s : k = -l  BY <2>2 DEF Complement
    <3>2. l # lit  BY <1>7, <3>1
    <3>3. l \in F  BY <1>5, <3>2
    <3>4. l \in a /\ l \in Literal  BY <1>1, <3>3
    <3> QED  BY <3>1, <3>4, Values
  <2> QED  BY <2>1, <2>2 DEF Signed
<1> HIDE DEF c
<1> QED  BY <1>6, <1>7

\* Two even numbers of signs that differ in one literal differ in another.
LEMMA EvenDiffers ==
  ASSUME NEW base \in SUBSET Literal, NEW s \in SUBSET base, NEW t \in SUBSET base,
         Cardinality(s) % 2 = 0, Cardinality(t) % 2 = 0, NEW lit \in t, lit \notin s
  PROVE  \E k \in base : k # lit /\ (k \in s <=> k \notin t)
<1> SUFFICES ASSUME \A k \in base : k # lit => (k \in s <=> k \in t) PROVE FALSE
  OBVIOUS
<1>1. t = s \cup {lit}  OBVIOUS
<1>2. IsFiniteSet(s) /\ Cardinality(s) \in Nat  BY FinitelyManyLiterals
<1>3. Cardinality(t) = Cardinality(s) + 1  BY <1>1, <1>2, FS_AddElement
<1> QED  BY <1>2, <1>3

\* A gate for the parity of literals is a gate.
LEMMA XorIsGate ==
  ASSUME NEW cs \in SUBSET Proper, NEW lit \in Literal, NEW gate \in XorGates(cs, lit)
  PROVE  IsGate(gate, cs, lit)
<1> DEFINE both == Occurring(cs, lit) \cup Occurring(cs, -lit)
           Large(l) == {c \in Occurring(cs, l) : Cardinality(c) > 2}
           Matched(c, g) == \E d \in g : d \subseteq c /\ (lit \in d <=> lit \in c)
           Sets(base) == {s \in SUBSET {d \in both : \E c \in SameParity(base) : d \subseteq c} :
                            \A c \in SameParity(base) : Matched(c, s)}
           All(base) == {Gate(g, \E d \in g : Cardinality(d) < Cardinality(base)) : g \in Sets(base)}
<1>1. XorGates(cs, lit) = IF Cardinality(Large(lit)) < 2 \/ Cardinality(Large(-lit)) < 2 THEN {}
                          ELSE UNION {All(base) : base \in Large(lit)}
  BY DEF XorGates
<1>2. PICK base \in Large(lit) : gate \in All(base)
  <2> HIDE DEF Large, All
  <2> QED  BY <1>1
<1>3. PICK G \in Sets(base) : gate = Gate(G, \E d \in G : Cardinality(d) < Cardinality(base))
  <2> HIDE DEF Sets
  <2> QED  BY <1>2
<1>4. base \in cs /\ base \in Proper /\ lit \in base  BY <1>2 DEF Occurring
<1>5. /\ G \subseteq both
      /\ \A d \in G : \E c \in SameParity(base) : d \subseteq c
      /\ \A c \in SameParity(base) : \E d \in G : d \subseteq c
  BY <1>3
<1>6. gate.clauses = G /\ gate.stronger = (\E d \in G : Cardinality(d) < Cardinality(base))
  BY <1>3 DEF Gate
<1> HIDE DEF Large, Matched, Sets, All
<1>7. ASSUME NEW a \in Assignment PROVE \E g \in G : (g \ {lit, -lit}) \cap a = {}
  <2>1. PICK c \in SameParity(base) : (c \ {lit, -lit}) \cap a = {}  BY <1>4, EvenFalsifies
  <2>2. PICK d \in G : d \subseteq c  BY <1>5
  <2> QED  BY <2>1, <2>2
<1>8. ASSUME ~gate.stronger, NEW g \in G
      PROVE  \E s \in SUBSET base : Cardinality(s) % 2 = 0 /\ g = Signed(base, s)
  <2>1. PICK c \in SameParity(base) : g \subseteq c  BY <1>5
  <2>2. PICK s \in SUBSET base : Cardinality(s) % 2 = 0 /\ c = Signed(base, s)
    BY DEF SameParity, Signed
  <2>3. base \in SUBSET Literal  BY <1>4 DEF Proper
  <2>4. IsFiniteSet(c) /\ Cardinality(c) <= Cardinality(base)  BY <2>2, <2>3, SignedCard
  <2>5. ~(Cardinality(g) < Cardinality(base))  BY <1>6, <1>8
  <2>6. g \in SUBSET c  BY <2>1
  <2>7. /\ IsFiniteSet(g) /\ Cardinality(g) <= Cardinality(c)
        /\ Cardinality(c) = Cardinality(g) => c = g
    BY <2>4, <2>6, FS_Subset
  <2>8. Cardinality(g) \in Nat /\ Cardinality(c) \in Nat /\ Cardinality(base) \in Nat
    BY <2>3, <2>4, <2>7, FS_CardinalityType, FinitelyManyLiterals
  <2>9. g = c  BY <2>4, <2>5, <2>7, <2>8
  <2> QED  BY <2>2, <2>9
<1>9. ASSUME ~gate.stronger, NEW a \in Assignment,
             NEW g \in Occurring(cs, lit) \cap G, NEW h \in Occurring(cs, -lit) \cap G
      PROVE  ((g \ {lit}) \cup (h \ {-lit})) \cap a # {}
  <2>0. base \in SUBSET Literal /\ \A l \in base : -l \notin base /\ l \in Literal /\ -(-l) = l
    BY <1>4, Literals DEF Proper
  <2>1. PICK s \in SUBSET base : Cardinality(s) % 2 = 0 /\ g = Signed(base, s)  BY <1>8, <1>9
  <2>2. PICK t \in SUBSET base : Cardinality(t) % 2 = 0 /\ h = Signed(base, t)  BY <1>8, <1>9
  <2>3. \A u \in SUBSET base : \A l \in base : /\ l \in Signed(base, u) <=> l \notin u
                                               /\ -l \in Signed(base, u) <=> l \in u
    <3> SUFFICES ASSUME NEW u \in SUBSET base, NEW l \in base
                 PROVE  /\ l \in Signed(base, u) <=> l \notin u
                        /\ -l \in Signed(base, u) <=> l \in u
      OBVIOUS
    <3>1. l \notin Complement(u)
      <4> SUFFICES ASSUME NEW k \in u, l = -k PROVE FALSE  BY DEF Complement
      <4> QED  BY <2>0
    <3>2. -l \in Complement(u) <=> l \in u
      <4>1. \A k \in u : -l = -k => l = k  BY <2>0
      <4> QED  BY <4>1 DEF Complement
    <3> QED  BY <2>0, <3>1, <3>2 DEF Signed
  <2>4. lit \in g /\ -lit \in h  BY <1>9 DEF Occurring
  <2>5. lit \notin s /\ lit \in t  BY <1>4, <2>1, <2>2, <2>3, <2>4
  <2>6. PICK k \in base : k # lit /\ (k \in s <=> k \notin t)
    <3>1. base \in SUBSET Literal /\ s \in SUBSET base /\ t \in SUBSET base  BY <2>0
    <3>2. Cardinality(s) % 2 = 0 /\ Cardinality(t) % 2 = 0  BY <2>1, <2>2
    <3> QED  BY ONLY <2>5, <3>1, <3>2, EvenDiffers
  <2>7. k # -lit /\ -k # lit /\ -k # -lit
    <3>1. -lit \notin base /\ -(-k) = k /\ -(-lit) = lit /\ -k \notin base  BY <1>4, <2>0
    <3> QED  BY <1>4, <2>6, <3>1
  <2>8. k \in a \/ -k \in a  BY <2>0, Values
  <2>9. CASE k \in s
    <3>1. -k \in g /\ k \in h  BY <2>1, <2>2, <2>3, <2>6, <2>9
    <3> QED  BY <2>6, <2>7, <2>8, <3>1
  <2>10. CASE k \notin s
    <3>1. k \in g /\ -k \in h  BY <2>1, <2>2, <2>3, <2>6, <2>10
    <3> QED  BY <2>6, <2>7, <2>8, <3>1
  <2> QED  BY <2>9, <2>10
<1> DEFINE pos == Occurring(cs, lit)  neg == Occurring(cs, -lit)
<1>10. ~gate.stronger =>
         \A a \in Assignment : \A g \in pos \cap G, h \in neg \cap G :
           ((g \ {lit}) \cup (h \ {-lit})) \cap a # {}
  BY <1>9
<1>11. G \subseteq pos \cup neg  BY <1>5
<1>12. gate.clauses = G  BY <1>6
<1> QED  BY <1>7, <1>10, <1>11, <1>12 DEF IsGate

\* All gates that are found are gates.
LEMMA FoundIsGate ==
  ASSUME NEW cs \in SUBSET Proper, \A c \in cs : \A l \in c : c # {l},
         NEW lit \in Literal, NEW gate \in FoundGates(cs, lit)
  PROVE  IsGate(gate, cs, lit)
<1>1. -lit \in Literal  BY Literals
<1>2. \/ gate \in EquivalenceGates(cs, lit)
      \/ gate \in AndGates(cs, lit) \/ gate \in AndGates(cs, -lit)
      \/ gate \in IfThenElseGates(cs, lit) \/ gate \in IfThenElseGates(cs, -lit)
      \/ gate \in XorGates(cs, lit) \/ gate \in XorGates(cs, -lit)
      \/ gate \in DefinitionGates(cs, lit)
  BY DEF FoundGates
<1>3. CASE gate \in EquivalenceGates(cs, lit)  BY <1>3, EquivalenceIsGate
<1>4. CASE gate \in AndGates(cs, lit)  BY <1>4, AndIsGate
<1>5. CASE gate \in AndGates(cs, -lit)
  <2>1. IsGate(gate, cs, -lit)  BY <1>1, <1>5, AndIsGate
  <2> QED  BY <2>1, GateBack
<1>6. CASE gate \in IfThenElseGates(cs, lit)  BY <1>6, IfThenElseIsGate
<1>7. CASE gate \in IfThenElseGates(cs, -lit)
  <2>1. IsGate(gate, cs, -lit)  BY <1>1, <1>7, IfThenElseIsGate
  <2> QED  BY <2>1, GateBack
<1>8. CASE gate \in XorGates(cs, lit)  BY <1>8, XorIsGate
<1>9. CASE gate \in XorGates(cs, -lit)
  <2>1. IsGate(gate, cs, -lit)  BY <1>1, <1>9, XorIsGate
  <2> QED  BY <2>1, GateBack
<1>10. CASE gate \in DefinitionGates(cs, lit)  BY <1>10, DefinitionIsGate
<1> QED  BY <1>2, <1>3, <1>4, <1>5, <1>6, <1>7, <1>8, <1>9, <1>10

\* The clauses with a variable are resolved, and the others are true.
LeavesResolved(cs, lit, rest, b) == Resolved(cs, lit, b) /\ \A c \in rest : c \cap b # {}

\* There is no clause of one literal.
NoUnits(cs) == \A c \in cs : \A l \in c : c # {l}

\* With or without a gate, what elimination leaves makes the resolvents true.
LEMMA EliminateResolves ==
  ASSUME NEW cs \in SUBSET Proper, cs = irredundant, NoUnits(cs),
         NEW v \in 1 .. NumVars, NEW lit \in Literal, NEW gate \in GatesOf(lit),
         NEW rest, rest = Without(cs, {v}),
         NEW new, new = Added(Resolvents(cs, lit, gate), rest),
         NEW irr \in {rest \cup new, Reduced(rest \cup new, new)},
         NEW b \in Assignment, Satisfies(b, irr)
  PROVE  LeavesResolved(cs, lit, rest, b)
<1> DEFINE R == Resolvents(cs, lit, gate)
<1>1. R \in SUBSET Proper  BY ResolventsTrue
<1>2. rest \in SUBSET Proper  BY DEF Without
<1>3. new \subseteq R  BY DEF Added
<1> DEFINE all == rest \cup new
<1>4. all \in SUBSET (SUBSET Literal) /\ R \in SUBSET (SUBSET Literal)
      /\ rest \in SUBSET (SUBSET Literal) /\ new \in SUBSET all
  <2>1. Proper \subseteq SUBSET Literal  BY DEF Proper
  <2> HIDE DEF R
  <2> QED  BY <1>1, <1>2, <1>3, <2>1
<1>5. new = Added(R, rest)  OBVIOUS
<1>a. irr = all \/ irr = Reduced(all, new)  OBVIOUS
<1>b. /\ \A c \in irr : c \cap b # {}
      /\ \A c \in cs : \A l \in c : c # {l}
  BY DEF Satisfies, NoUnits
<1> HIDE DEF all, R
<1>6. \A c \in all : c \cap b # {}
  <2>1. CASE irr = all  BY <1>b, <2>1
  <2>2. CASE irr = Reduced(all, new)  BY <1>4, <1>b, <2>2, ReducedBack
  <2> QED  BY <1>a, <2>1, <2>2
<1>7. \A c \in R : c \cap b # {}
  <2>1. \A c \in rest \cup Added(R, rest) : c \cap b # {}  BY <1>5, <1>6 DEF all
  <2> QED  BY <1>4, <2>1, AddedBack
<1>8. Resolved(cs, lit, b)
  <2>1. gate = NoGate \/ gate \in FoundGates(cs, lit)  BY DEF GatesOf
  <2>2. CASE gate = NoGate
    <3>1. \A c \in Resolvents(cs, lit, NoGate) : c \cap b # {}  BY <1>7, <2>2 DEF R
    <3> QED  BY <1>b, <3>1, NoGateResolves
  <2>3. CASE gate \in FoundGates(cs, lit)
    <3>1. IsGate(gate, cs, lit)  BY <1>b, <2>3, FoundIsGate
    <3>2. \A c \in Resolvents(cs, lit, gate) : c \cap b # {}  BY <1>7 DEF R
    <3> QED  BY <1>b, <3>1, <3>2, GateResolves
  <2> QED  BY <2>1, <2>2, <2>3
<1> QED  BY <1>6, <1>8 DEF all, LeavesResolved

\* The other literals of the clauses with lit have values, or the stack may give them some.
Covered(cs, lit, el, p) ==
  \A c \in Occurring(cs, lit) : \A l \in c \ {lit} : Var(l) \in ToSet(el) \/ l \in p \/ -l \in p

\* The clauses with lit are true, and -lit stays true or all other literals of one of
\* them are false.
RestoredFrom(x, q, cs, lit) ==
  /\ \A c \in cs : lit \in c => c \cap q # {}
  /\ -lit \in x => -lit \in q \/ \E c \in Occurring(cs, lit) : Complement(c \ {lit}) \subseteq q

\* The entries for the clauses with a literal make them true.  If the complement of the
\* literal is true before, it stays so or all other literals of such a clause are false.
LEMMA RestoreClauses ==
  ASSUME NEW cs \in SUBSET Proper, NEW lit \in Literal, NEW el \in Seq(1 .. NumVars),
         NEW p \in SUBSET Literal, -lit \notin p, Covered(cs, lit, el, p),
         NEW s, Stacked(s, lit, Occurring(cs, lit)),
         NEW x0 \in SUBSET Literal, p \subseteq x0,
         NEW q, q = Unwound(s, SUBSET Literal, x0, Restore(el))
  PROVE  RestoredFrom(x0, q, cs, lit)
<1> DEFINE X == SUBSET Literal
           O == Occurring(cs, lit)
           D == Restore(el)
           N == Len(s)
           Low(x) == -lit \in x \/ \E c \in O : Complement(c \ {lit}) \subseteq x
           I == {x \in X : p \subseteq x /\ (-lit \in x0 => Low(x))}
           J == {y \in Entries \X X : y[1].clause \cap y[2] # {}}
<1>1. \A c \in O : /\ c \in Proper /\ c \in SUBSET Literal /\ lit \in c /\ -lit \notin c
  BY DEF Occurring, Proper
<1>2. /\ s \in Seq(Entries)
      /\ \A i \in 1 .. N : s[i].witness = lit /\ s[i].clause \in O
      /\ \A c \in O : \E i \in 1 .. N : s[i].clause = c
  BY DEF Stacked
<1>3. \A i \in 1 .. N : s[i] \in Entries  BY <1>2
<1>4. IsStep(D, Entries, X)  BY RestoreType
<1>5. x0 \in I /\ x0 \in X  OBVIOUS
<1>6. ASSUME NEW i \in 1 .. N, NEW x \in X, x \in I
      PROVE  /\ D[<<s[i], x>>] \in I
             /\ <<s[i], D[<<s[i], x>>]>> \in J
             /\ \A j \in 1 .. N : <<s[j], x>> \in J => <<s[j], D[<<s[i], x>>]>> \in J
  <2> DEFINE e == s[i]  c == e.clause  y == Restored(el, e, x)
  <2>1. e \in Entries /\ e.witness = lit /\ c \in O  BY <1>2, <1>3
  <2>2. D[<<e, x>>] = y
    <3> HIDE DEF e
    <3> QED  BY <2>1, <1>6 DEF D, Restore
  <2>3. /\ y \in X /\ y \cap c # {} /\ x \ {-lit} \subseteq y
        /\ -lit \in x /\ -lit \notin y =>
             \A l \in c \ {lit} : l \notin x /\ (Var(l) \notin ToSet(el) \/ -l \in x)
    <3> HIDE DEF e
    <3> QED  BY <1>6, <2>1, RestoredIs
  <2>4. p \subseteq x /\ (-lit \in x0 => Low(x))  BY <1>6
  <2> HIDE DEF y, e
  <2>5. p \subseteq y  BY <2>3, <2>4
  <2>6. ASSUME NEW d \in O PROVE -lit \notin Complement(d \ {lit})
    <3> SUFFICES ASSUME NEW l \in d \ {lit}, -l = -lit PROVE FALSE  BY DEF Complement
    <3>1. l \in Literal /\ -(-l) = l /\ -(-lit) = lit  BY <1>1, Literals
    <3> QED  BY <3>1
  <2>7. ASSUME -lit \in x0 PROVE Low(y)
    <3>1. CASE -lit \in y  BY <3>1
    <3>2. CASE -lit \notin y /\ -lit \in x
      <4>1. \A l \in c \ {lit} : -l \in x
        <5> SUFFICES ASSUME NEW l \in c \ {lit} PROVE -l \in x  OBVIOUS
        <5>1. l \notin x /\ (Var(l) \notin ToSet(el) \/ -l \in x)  BY <2>3, <3>2
        <5>2. Var(l) \in ToSet(el) \/ l \in p \/ -l \in p  BY <2>1 DEF Covered
        <5> QED  BY <2>4, <5>1, <5>2
      <4>2. Complement(c \ {lit}) \subseteq x  BY <4>1 DEF Complement
      <4>3. Complement(c \ {lit}) \subseteq y  BY <2>1, <2>3, <2>6, <4>2
      <4> QED  BY <2>1, <4>3
    <3>3. CASE -lit \notin x
      <4>1. PICK d \in O : Complement(d \ {lit}) \subseteq x  BY <2>4, <2>7, <3>3
      <4>2. Complement(d \ {lit}) \subseteq y  BY <2>3, <2>6, <4>1
      <4> QED  BY <4>2
    <3> QED  BY <3>1, <3>2, <3>3
  <2>8. y \in I  BY <2>3, <2>5, <2>7
  <2>9. ASSUME NEW a \in Entries, a.clause \cap y # {} PROVE <<a, y>> \in J
    BY <2>3, <2>9
  <2>10. <<e, y>> \in J  BY <2>1, <2>3, <2>9
  <2>11. ASSUME NEW j \in 1 .. N, <<s[j], x>> \in J PROVE <<s[j], y>> \in J
    <3> DEFINE a == s[j]
    <3>1. a \in Entries /\ -lit \notin a.clause
      <4>1. a \in Entries /\ a.clause \in O  BY <1>2, <1>3
      <4> QED  BY <1>1, <4>1
    <3>2. a.clause \cap x # {}  BY <2>11
    <3> HIDE DEF a
    <3>3. a.clause \cap y # {}  BY <2>3, <3>1, <3>2
    <3>4. <<a, y>> \in J  BY <2>9, <3>1, <3>3
    <3> QED  BY <3>4 DEF a
  <2> HIDE DEF I, J
  <2>12. y = D[<<s[i], x>>]  BY <2>2 DEF e
  <2> HIDE DEF D
  <2> QED  BY <2>8, <2>10, <2>11, <2>12 DEF e
<1>7. q \in I /\ \A i \in 1 .. N : <<s[i], q>> \in J
  <2>1. q = Unwound(s, X, x0, D)  OBVIOUS
  <2> HIDE DEF I, J, X, D
  <2>2. Establish(s, X, D, I, J)  BY <1>6 DEF Establish
  <2>3. s \in Seq(Entries)  BY <1>2
  <2>4. /\ Unwound(s, X, x0, D) \in I
        /\ \A i \in 1 .. Len(s) : <<s[i], Unwound(s, X, x0, D)>> \in J
    BY ONLY <1>4, <1>5, <2>2, <2>3, UnwoundAll
  <2> QED  BY <2>1, <2>4
<1>8. \A c \in O : c \cap q # {}
  <2> SUFFICES ASSUME NEW c \in O PROVE c \cap q # {}  OBVIOUS
  <2>1. PICK i \in 1 .. N : s[i].clause = c  BY <1>2
  <2>2. s[i].clause \cap q # {}  BY <1>7
  <2> QED  BY <2>1, <2>2
<1>9. \A c \in cs : lit \in c => c \in O  BY DEF Occurring
<1>10. -lit \in x0 => Low(q)  BY <1>7
<1> QED  BY <1>8, <1>9, <1>10 DEF RestoredFrom

\* All clauses with lit or -lit are true.
VarHit(cs, lit, b) == \A c \in cs : lit \in c \/ -lit \in c => c \cap b # {}

\* What Kissat pushes for a variable.
LEMMA RestoreEliminated ==
  ASSUME NEW cs \in SUBSET Proper, NEW lit \in Literal, NEW el \in Seq(1 .. NumVars),
         NEW p \in SUBSET Literal, lit \notin p, -lit \notin p, Covered(cs, lit, el, p),
         NEW s, Stacked(s, lit, Occurring(cs, lit)),
         NEW t, t = IF Occurring(cs, -lit) = {} THEN s ELSE Append(s, ElimClause(-lit, {-lit})),
         NEW q, q = Unwound(t, SUBSET Literal, p, Restore(el)),
         NEW b \in Assignment, q \subseteq b, Resolved(cs, lit, b)
  PROVE  VarHit(cs, lit, b)
<1> DEFINE X == SUBSET Literal  D == Restore(el)  e0 == ElimClause(-lit, {-lit})
<1>1. -lit \in Literal /\ -(-lit) = lit /\ lit # -lit  BY Literals
<1>2. IsStep(D, Entries, X) /\ s \in Seq(Entries)  BY RestoreType DEF Stacked
<1>3. CASE Occurring(cs, -lit) = {}
  <2>1. q = Unwound(s, SUBSET Literal, p, Restore(el)) /\ p \subseteq p  BY <1>3
  <2>2. \A c \in cs : lit \in c => c \cap q # {}  BY <2>1, RestoreClauses DEF RestoredFrom
  <2>3. \A c \in cs : -lit \notin c  BY <1>3 DEF Occurring
  <2> QED  BY <2>2, <2>3 DEF VarHit
<1>4. CASE Occurring(cs, -lit) # {}
  <2> DEFINE x0 == D[<<e0, p>>]
  <2>1. e0 \in Entries  BY <1>1 DEF ElimClause, Entries, Proper
  <2>2. x0 = Restored(el, e0, p)
    <3> HIDE DEF e0
    <3> QED  BY <2>1 DEF D, Restore
  <2>3. e0.witness = -lit /\ e0.clause = {-lit}  BY DEF ElimClause
  <2> HIDE DEF e0
  <2>4. x0 \in X /\ p \subseteq x0 /\ -lit \in x0
    <3>1. /\ Restored(el, e0, p) \in X /\ p \ {-e0.witness} \subseteq Restored(el, e0, p)
          /\ e0.clause = {e0.witness} => e0.witness \in Restored(el, e0, p)
      BY <2>1, RestoredIs
    <3> HIDE DEF x0
    <3> QED  BY <1>1, <2>2, <2>3, <3>1
  <2>5. q = Unwound(s, X, x0, D)
    <3> DEFINE u == <<e0>>
    <3>0. t = Append(s, e0)  BY <1>4 DEF e0
    <3>1. u \in Seq(Entries) /\ Append(s, e0) = s \o u /\ s \in Seq(Entries)
      BY ONLY <1>2, <2>1
    <3>2. Unwound(u, X, p, D) = x0
      <4>1. p \in X  OBVIOUS
      <4>2. x0 = D[<<e0, p>>]  OBVIOUS
      <4> HIDE DEF D, X, x0
      <4> QED  BY <1>2, <2>1, <4>1, <4>2, UnwoundOne
    <3>3. p \in X  OBVIOUS
    <3>4. Unwound(s \o u, X, p, D) = Unwound(s, X, Unwound(u, X, p, D), D)
      <4> HIDE DEF D, X, u
      <4> QED  BY ONLY <1>2, <3>1, <3>3, UnwoundBoth
    <3> QED  BY <3>0, <3>1, <3>2, <3>4
  <2> HIDE DEF x0
  <2>6. RestoredFrom(x0, q, cs, lit)
    <3>1. q = Unwound(s, SUBSET Literal, x0, Restore(el)) /\ x0 \in SUBSET Literal
      BY <2>4, <2>5
    <3>2. x0 \in SUBSET Literal /\ p \subseteq x0  BY <2>4 DEF X
    <3>3. /\ lit \in Literal /\ cs \in SUBSET Proper /\ el \in Seq(1 .. NumVars)
          /\ p \in SUBSET Literal /\ -lit \notin p /\ Covered(cs, lit, el, p)
          /\ Stacked(s, lit, Occurring(cs, lit))
      OBVIOUS
    <3> QED  BY ONLY <3>1, <3>2, <3>3, RestoreClauses
  <2>7. ASSUME NEW d \in cs, -lit \in d PROVE d \cap b # {}
    <3>1. CASE -lit \in q  BY <2>7, <3>1
    <3>2. CASE \E c \in Occurring(cs, lit) : Complement(c \ {lit}) \subseteq q
      <4>1. PICK c \in Occurring(cs, lit) : Complement(c \ {lit}) \subseteq q  BY <3>2
      <4>2. c \ {lit} \in SUBSET Literal  BY <4>1 DEF Occurring, Proper
      <4>3. (c \ {lit}) \cap b = {}
        <5>1. Complement(c \ {lit}) \subseteq b  BY <4>1
        <5> QED  BY <4>2, <5>1, Complements
      <4>4. d \in Occurring(cs, -lit)  BY <2>7 DEF Occurring
      <4>5. ((c \ {lit}) \cup (d \ {-lit})) \cap b # {}  BY <4>4, <4>1 DEF Resolved
      <4> QED  BY <4>3, <4>5
    <3> QED  BY <2>4, <2>6, <3>1, <3>2 DEF RestoredFrom
  <2> QED  BY <2>6, <2>7 DEF RestoredFrom, VarHit
<1> QED  BY <1>3, <1>4 DEF VarHit

\* What Kissat pushes for a variable.
LEMMA WeakenClausesIs ==
  ASSUME RecInv, solver = "Kissat", NEW v \in 1 .. NumVars, Active(v),
         NEW lit, lit = Rarer(v), NEW t, t = WeakenClauses(lit)
  PROVE  /\ t \in Seq(Entries)
         /\ \A i \in 1 .. Len(t) : /\ Var(t[i].witness) = v
                                   /\ \A l \in t[i].clause : Var(l) \notin Eliminated
         /\ Tidy => t = IF Occurring(irredundant, -lit) = {} THEN EntriesOf(irredundant, lit)
                        ELSE Append(EntriesOf(irredundant, lit), ElimClause(-lit, {-lit}))
<1> DEFINE O == Occurring(irredundant, lit)
           o == InSomeOrder(O)
           r == [i \in DOMAIN o |-> Weakened(lit, o[i], FalseLits)]
           e0 == Weakened(-lit, {-lit}, FalseLits)
           G == {e \in Entries : Var(e.witness) = v /\ \A l \in e.clause : Var(l) \notin Eliminated}
<1>1. /\ lit \in Literal /\ -lit \in Literal /\ -(-lit) = lit /\ lit # -lit
      /\ Var(lit) = v /\ Var(-lit) = v
  BY LiteralsOf, Literals
<1>2. irredundant \in SUBSET Proper /\ \A c \in irredundant : \A l \in c : Var(l) \notin Eliminated
  BY RecKnown, OutKnown DEF Out
<1>3. v \notin Eliminated
  <2>1. Var(v) = v  BY LiteralsOf
  <2> QED  BY <2>1 DEF Active
<1>4. o \in Seq(O) /\ ToSet(o) = O  BY <1>2, OccurringInOrder
<1>5. t = IF Occurring(irredundant, -lit) = {} THEN r ELSE Append(r, e0)
  BY DEF WeakenClauses
<1>6. \A w, c, f : Weakened(w, c, f).witness = w /\ Weakened(w, c, f).clause = {w} \cup (c \ f)
  BY DEF Weakened
<1>7. e0 = ElimClause(-lit, {-lit})
  <2>1. {-lit} \cup ({-lit} \ FalseLits) = {-lit}  OBVIOUS
  <2> QED  BY <2>1 DEF Weakened, ElimClause
<1>8. ASSUME NEW c \in O PROVE Weakened(lit, c, FalseLits) \in G
  <2>1. c \in Proper /\ lit \in c /\ \A l \in c : Var(l) \notin Eliminated
    BY <1>2 DEF Occurring
  <2>2. {lit} \cup (c \ FalseLits) \in Proper /\ lit \in {lit} \cup (c \ FalseLits)
    BY <2>1 DEF Proper
  <2>3. Weakened(lit, c, FalseLits) \in Entries
    BY <1>1, <2>2 DEF Weakened, Entries
  <2>4. \A l \in {lit} \cup (c \ FalseLits) : Var(l) \notin Eliminated  BY <2>1
  <2> QED  BY <1>1, <1>6, <2>3, <2>4
<1>9. e0 \in G
  <2>1. e0 \in Entries  BY <1>1, <1>7 DEF ElimClause, Entries, Proper
  <2>2. e0.witness = -lit /\ e0.clause = {-lit}  BY <1>7 DEF ElimClause
  <2> HIDE DEF e0
  <2> QED  BY <1>1, <1>3, <2>1, <2>2
<1>10. Tidy => r = EntriesOf(irredundant, lit)
  <2> SUFFICES ASSUME Tidy PROVE r = EntriesOf(irredundant, lit)  OBVIOUS
  <2>1. ASSUME NEW c \in O PROVE Weakened(lit, c, FalseLits) = ElimClause(lit, c)
    <3>1. lit \in c /\ c \in irredundant  BY DEF Occurring
    <3>2. \A l \in c : l \notin FalseLits
      <4> SUFFICES ASSUME NEW l \in c, l \in FalseLits PROVE FALSE  OBVIOUS
      <4>1. PICK k \in fixed : l = -k  BY DEF FalseLits, Complement
      <4>2. k \in Literal  BY RecKnown
      <4>3. -l \in fixed  BY <4>1, <4>2, Literals
      <4> QED  BY <3>1, <4>3 DEF Tidy
    <3>3. {lit} \cup (c \ FalseLits) = c  BY <3>1, <3>2
    <3> QED  BY <3>3 DEF Weakened, ElimClause
  <2>2. \A i \in DOMAIN o : o[i] \in O
    <3> HIDE DEF O, o
    <3> QED  BY <1>4
  <2>3. EntriesOf(irredundant, lit) = [i \in DOMAIN o |-> ElimClause(lit, o[i])]
    BY DEF EntriesOf
  <2> HIDE DEF o, O
  <2> QED  BY <2>1, <2>2, <2>3
<1>11. r \in Seq(G)
  <2> HIDE DEF O, o, G
  <2>1. Len(o) \in Nat /\ DOMAIN o = 1 .. Len(o) /\ \A i \in 1 .. Len(o) : o[i] \in O  BY <1>4
  <2>2. r = [i \in 1 .. Len(o) |-> Weakened(lit, o[i], FalseLits)]  BY <2>1
  <2> QED  BY <1>8, <2>1, <2>2
<1> HIDE DEF r, e0
<1>12. t \in Seq(G)
  <2> HIDE DEF G
  <2>1. Append(r, e0) \in Seq(G)  BY <1>9, <1>11
  <2> QED  BY <1>5, <1>11, <2>1
<1>13. t \in Seq(Entries) /\ \A i \in 1 .. Len(t) : t[i] \in G
  <2>1. Len(t) \in Nat /\ \A i \in 1 .. Len(t) : t[i] \in G
    <3> HIDE DEF G
    <3> QED  BY <1>12
  <2>2. t = [i \in 1 .. Len(t) |-> t[i]]  BY <1>12
  <2>3. \A i \in 1 .. Len(t) : t[i] \in Entries  BY <2>1
  <2> QED  BY <2>1, <2>2, <2>3
<1>14. \A i \in 1 .. Len(t) : /\ Var(t[i].witness) = v
                              /\ \A l \in t[i].clause : Var(l) \notin Eliminated
  BY <1>13
<1> QED  BY <1>5, <1>7, <1>10, <1>13, <1>14

\* Elimination in Kissat.
LEMMA EliminateRec ==
  ASSUME RecInv, OutInv', NEW v \in 1 .. NumVars, Eliminate(v)
  PROVE  RecInv'
<1> DEFINE lit == Rarer(v)
           rest == Without(irredundant, {v})
           red == Without(redundant, {v})
           t == WeakenClauses(lit)
           w == <<v>>
           X == SUBSET Literal
<1>1. /\ solver = "Kissat" /\ pc = "search" /\ ok /\ Active(v) /\ pc' = pc
      /\ eliminated' = Append(eliminated, v) /\ extension' = extension \o t
      /\ solver' = solver /\ formula' = formula
  BY DEF Eliminate, AtRoot, inputVars, phaseVars
<1>2. PICK gate \in GatesOf(lit) :
        LET new == Added(Resolvents(irredundant, lit, gate), rest)
        IN  \E irr \in {rest \cup new, Reduced(rest \cup new, new)} :
              Settle(irr, red, fixed)
  BY DEF Eliminate
<1> DEFINE new == Added(Resolvents(irredundant, lit, gate), rest)
<1>3. PICK irr \in {rest \cup new, Reduced(rest \cup new, new)} : Settle(irr, red, fixed)
  BY <1>2
<1>4. /\ lit \in Literal /\ -lit \in Literal /\ Var(lit) = v
      /\ \A l \in Literal : Var(l) = v <=> l = lit \/ l = -lit
      /\ {v, -v} = {lit, -lit}
  <2>1. lit \in Literal /\ Var(lit) = v  BY LiteralsOf
  <2>2. lit = v \/ lit = -v  BY DEF Rarer
  <2>3. v \in Literal /\ -(-v) = v  BY Variables, Literals
  <2> HIDE DEF lit
  <2> QED  BY <2>1, <2>2, <2>3, Literals
<1> HIDE DEF lit
<1>5. /\ irredundant \in SUBSET Proper /\ redundant \in SUBSET Proper
      /\ fixed \in SUBSET Literal /\ rest \in SUBSET Proper /\ red \in SUBSET Proper
      /\ new \in SUBSET Proper
  <2>1. Resolvents(irredundant, lit, gate) \in SUBSET Proper  BY <1>4, RecKnown, ResolventsTrue
  <2>2. new \subseteq Resolvents(irredundant, lit, gate)  BY DEF Added
  <2> QED  BY <2>1, <2>2, RecKnown DEF Without
<1> HIDE DEF rest, red, new
<1>6. irr \in SUBSET Proper
  <2>1. Reduced(rest \cup new, new) \in SUBSET Proper  BY <1>5, ReducedTrue
  <2> QED  BY <1>5, <2>1
<1>7. ok' => TidyInv'
  BY <1>3, <1>5, <1>6, SettleTidy DEF TidyInv
<1>8. /\ t \in Seq(Entries)
      /\ \A i \in 1 .. Len(t) : /\ Var(t[i].witness) = v
                                /\ \A l \in t[i].clause : Var(l) \notin Eliminated
      /\ Tidy => t = IF Occurring(irredundant, -lit) = {} THEN EntriesOf(irredundant, lit)
                     ELSE Append(EntriesOf(irredundant, lit), ElimClause(-lit, {-lit}))
  BY <1>1, WeakenClausesIs DEF lit
<1> HIDE DEF t
<1>9. extension \in Seq(Entries) /\ extension' \in Seq(Entries)
  <2>1. extension \in Seq(Entries)  BY RecKnown
  <2> QED  BY <1>1, <1>8, <2>1, Concatenated
<1>10. /\ eliminated \in Seq(1 .. NumVars) /\ Eliminated \in SUBSET (1 .. NumVars)
       /\ w \in Seq(1 .. NumVars) /\ eliminated' = eliminated \o w
       /\ ToSet(w) = {v} /\ Eliminated' = Eliminated \cup ToSet(w)
  <2>1. eliminated \in Seq(1 .. NumVars) /\ Eliminated \in SUBSET (1 .. NumVars)  BY RecKnown
  <2>2. w \in Seq(1 .. NumVars) /\ Append(eliminated, v) = eliminated \o w  BY <2>1
  <2>3. ToSet(w) = {v}  BY DEF ToSet
  <2>4. Eliminated' = Eliminated \cup {v}  BY <1>1, RecKnown, MoreEliminated
  <2> QED  BY <1>1, <2>1, <2>2, <2>3, <2>4
<1> HIDE DEF w
<1>11. ASSUME ok', NEW more \in Seq(1 .. NumVars), NEW p \in X, Partial(p, more)',
              NEW el, el = eliminated \o (w \o more),
              NEW q, q = Unwound(t, X, p, Restore(el))
       PROVE  Partial(q, w \o more)
  <2>1. /\ p \in X /\ Consistent(p)
        /\ \A l \in p : Var(l) \notin Eliminated'
        /\ \A u \in 1 .. NumVars : u \in Eliminated' \/ u \in ToSet(more) \/ u \in p \/ -u \in p
        /\ \A b \in Assignment : p \subseteq b => b \in Left'
    BY <1>11 DEF Partial
  <2>2. /\ q \in X /\ p \subseteq q /\ Consistent(q)
        /\ (\A b \in Assignment : q \subseteq b => b \in Left) => Partial(q, w \o more)
    <3>1. q = Unwound(t, SUBSET Literal, p, Restore(eliminated \o (w \o more)))  BY <1>11
    <3>2. \A i \in 1 .. Len(t) : /\ Var(t[i].witness) \in Eliminated'
                                 /\ \A l \in t[i].clause : Var(l) \notin Eliminated
      BY <1>8, <1>10
    <3> QED  BY <1>8, <1>10, <1>11, <3>1, <3>2, NewEntries
  <2>3. el \in Seq(1 .. NumVars) /\ ToSet(el) = Eliminated \cup ({v} \cup ToSet(more))
    <3> DEFINE V == 1 .. NumVars
    <3>1. w \o more \in Seq(V) /\ ToSet(w \o more) = {v} \cup ToSet(more)
      BY <1>10, <1>11, Elements
    <3>2. eliminated \in Seq(V) /\ Eliminated = ToSet(eliminated)  BY <1>10 DEF Eliminated
    <3> DEFINE u == w \o more
    <3>3. el = eliminated \o u  BY <1>11
    <3> HIDE DEF V, u
    <3>4. el \in Seq(V) /\ ToSet(el) = ToSet(eliminated) \cup ToSet(w \o more)
      <4>1. u \in Seq(V) /\ eliminated \in Seq(V)  BY <3>1, <3>2 DEF u
      <4>2. eliminated \o u \in Seq(V) /\ ToSet(eliminated \o u) = ToSet(eliminated) \cup ToSet(u)
        BY ONLY <4>1, Elements
      <4> QED  BY <3>3, <4>2 DEF u
    <3>5. ToSet(el) = Eliminated \cup ({v} \cup ToSet(more))  BY ONLY <3>1, <3>2, <3>4
    <3> QED  BY ONLY <3>4, <3>5 DEF V
  <2>4. lit \notin p /\ -lit \notin p
    <3>1. Var(-lit) = v  BY <1>4, Literals
    <3> QED  BY <1>4, <1>10, <2>1, <3>1
  <2>5. Covered(irredundant, lit, el, p)
    <3> SUFFICES ASSUME NEW c \in Occurring(irredundant, lit), NEW l \in c \ {lit}
                 PROVE  Var(l) \in ToSet(el) \/ l \in p \/ -l \in p
      BY DEF Covered
    <3>1. c \in irredundant /\ c \in Proper /\ l \in Literal  BY <1>5 DEF Occurring, Proper
    <3>2. Var(l) \in 1 .. NumVars /\ (Var(l) = l \/ Var(l) = -l) /\ -(-l) = l
      BY <3>1, Literals DEF Var
    <3>3. Var(l) \in Eliminated' \/ Var(l) \in ToSet(more) \/ Var(l) \in p \/ -Var(l) \in p
      BY <2>1, <3>2
    <3> QED  BY <1>10, <2>3, <3>2, <3>3
  <2>6. ASSUME NEW b \in Assignment, q \subseteq b PROVE b \in Left
    <3>1. b \in Left'  BY <2>1, <2>2, <2>6
    <3>2. fixed \subseteq b /\ \A c \in irr : c \cap b # {}
      <4>1. ok' /\ Settle(irr, red, fixed) /\ fixed \in SUBSET Literal  BY <1>3, <1>5, <1>11
      <4> QED  BY ONLY <1>6, <3>1, <4>1, SettleLeft
    <3>3. Tidy
      <4>1. Consistent(fixed)  BY <3>2, PartConsistent
      <4> QED  BY <1>1, <4>1 DEF RecInv, TidyInv
    <3>4. Resolved(irredundant, lit, b) /\ \A c \in rest : c \cap b # {}
      <4>1. NoUnits(irredundant)  BY <3>3 DEF Tidy, NoUnits
      <4>2. rest = Without(irredundant, {v}) /\ new = Added(Resolvents(irredundant, lit, gate), rest)
        BY DEF rest, new
      <4>3. irr \in {rest \cup new, Reduced(rest \cup new, new)} /\ gate \in GatesOf(lit)
            /\ lit \in Literal /\ irredundant \in SUBSET Proper /\ v \in 1 .. NumVars
        BY <1>4, <1>5
      <4>4. b \in Assignment /\ Satisfies(b, irr)  BY <2>6, <3>2 DEF Satisfies
      <4>5. LeavesResolved(irredundant, lit, rest, b)
        BY ONLY <4>1, <4>2, <4>3, <4>4, EliminateResolves
      <4> QED  BY <4>5 DEF LeavesResolved
    <3>5. \A c \in irredundant : lit \in c \/ -lit \in c => c \cap b # {}
      <4>1. Stacked(EntriesOf(irredundant, lit), lit, Occurring(irredundant, lit))
        BY <1>4, <1>5, EntriesStacked
      <4>2. t = IF Occurring(irredundant, -lit) = {} THEN EntriesOf(irredundant, lit)
                ELSE Append(EntriesOf(irredundant, lit), ElimClause(-lit, {-lit}))
        BY <1>8, <3>3
      <4>3. q = Unwound(t, SUBSET Literal, p, Restore(el))  BY <1>11
      <4>4. p \in SUBSET Literal /\ lit \in Literal /\ irredundant \in SUBSET Proper
        BY <1>4, <1>5
      <4>5. b \in Assignment /\ q \subseteq b /\ Resolved(irredundant, lit, b)  BY <2>6, <3>4
      <4>6. el \in Seq(1 .. NumVars)  BY <2>3
      <4>7. VarHit(irredundant, lit, b)
        BY ONLY <2>4, <2>5, <4>1, <4>2, <4>3, <4>4, <4>5, <4>6, RestoreEliminated
      <4> QED  BY <4>7 DEF VarHit
    <3>6. ASSUME NEW c \in irredundant PROVE c \cap b # {}
      <4>1. CASE lit \in c \/ -lit \in c  BY <3>5, <4>1
      <4>2. CASE lit \notin c /\ -lit \notin c
        <5>1. c \in SUBSET Literal  BY <1>5 DEF Proper
        <5>2. \A l \in c : Var(l) # v  BY <1>4, <4>2, <5>1
        <5>3. c \in rest  BY <5>2 DEF rest, Without
        <5> QED  BY <3>4, <5>3
      <4> QED  BY <4>1, <4>2
    <3> QED  BY <3>2, <3>6 DEF Left, Satisfies
  <2> QED  BY <2>2, <2>6
<1>12. ok' => Rebuilds'
  <2> SUFFICES ASSUME ok' PROVE Rebuilds'  OBVIOUS
  <2>1. Rebuilds  BY <1>1 DEF RecInv, Rebuilt
  <2>2. \A more \in Seq(1 .. NumVars) : \A p \in SUBSET Literal :
           Partial(p, more)' =>
             Partial(Unwound(t, SUBSET Literal, p, Restore(eliminated \o (w \o more))), w \o more)
    BY <1>11
  <2> QED  BY <1>1, <1>8, <1>9, <1>10, <2>1, <2>2, StackGrows
<1>13. LoadInv'  BY <1>1 DEF LoadInv
<1>14. ok' => Rebuilt'  BY <1>1, <1>12 DEF Rebuilt
<1> QED  BY <1>1, <1>7, <1>9, <1>13, <1>14 DEF RecInv

-----------------------------------------------------------------------------
(* Autarkies                                                               *)

\* The entries are for literals alone.
UnitsStacked(t, lits) ==
  /\ t \in Seq(Entries)
  /\ \A i \in 1 .. Len(t) : t[i].witness \in lits /\ t[i].clause = {t[i].witness}
  /\ \A l \in lits : \E i \in 1 .. Len(t) : t[i].witness = l

\* All of the literals are true.
AllTrue(lits, q) == lits \subseteq q

\* They are true in the end.
LEMMA RestoreUnits ==
  ASSUME NEW lits \in SUBSET Literal, Consistent(lits), NEW t, UnitsStacked(t, lits),
         NEW el \in Seq(1 .. NumVars), NEW p \in SUBSET Literal,
         NEW q, q = Unwound(t, SUBSET Literal, p, Restore(el))
  PROVE  AllTrue(lits, q)
<1> DEFINE X == SUBSET Literal
           D == Restore(el)
           N == Len(t)
           J == {y \in Entries \X X : y[1].witness \in y[2]}
<1>1. /\ t \in Seq(Entries)
      /\ \A i \in 1 .. N : t[i].witness \in lits /\ t[i].clause = {t[i].witness}
      /\ \A l \in lits : \E i \in 1 .. N : t[i].witness = l
  BY DEF UnitsStacked
<1>2. \A i \in 1 .. N : t[i] \in Entries  BY <1>1
<1>3. IsStep(D, Entries, X)  BY RestoreType
<1>4. ASSUME NEW i \in 1 .. N, NEW x \in X, x \in X
      PROVE  /\ D[<<t[i], x>>] \in X
             /\ <<t[i], D[<<t[i], x>>]>> \in J
             /\ \A j \in 1 .. N : <<t[j], x>> \in J => <<t[j], D[<<t[i], x>>]>> \in J
  <2> DEFINE e == t[i]  y == Restored(el, e, x)
  <2>1. e \in Entries /\ e.witness \in lits /\ e.clause = {e.witness}  BY <1>1, <1>2
  <2>2. D[<<e, x>>] = y
    <3> HIDE DEF e
    <3> QED  BY <2>1 DEF D, Restore
  <2>3. y \in X /\ x \ {-e.witness} \subseteq y /\ e.witness \in y
    <3> HIDE DEF e
    <3> QED  BY <2>1, RestoredIs
  <2> HIDE DEF e, y
  <2>4. <<e, y>> \in J  BY <2>1, <2>3
  <2>5. ASSUME NEW j \in 1 .. N, <<t[j], x>> \in J PROVE <<t[j], y>> \in J
    <3> DEFINE a == t[j]
    <3>1. a \in Entries /\ a.witness \in lits /\ a.witness \in x  BY <1>1, <1>2, <2>5
    <3> HIDE DEF a
    <3>2. a.witness # -e.witness
      <4>1. -(-e.witness) = e.witness  BY <2>1, Literals
      <4> QED  BY <2>1, <3>1, <4>1 DEF Consistent
    <3>3. a.witness \in y  BY <2>3, <3>1, <3>2
    <3>4. <<a, y>> \in J  BY <2>3, <3>1, <3>3
    <3> QED  BY <3>4 DEF a
  <2>6. y = D[<<t[i], x>>]  BY <2>2 DEF e
  <2> HIDE DEF D, J
  <2> QED  BY <2>3, <2>4, <2>5, <2>6 DEF e
<1>5. \A i \in 1 .. N : <<t[i], q>> \in J
  <2>1. q = Unwound(t, X, p, D) /\ p \in X /\ p \in X  OBVIOUS
  <2> HIDE DEF J, X, D
  <2>2. Establish(t, X, D, X, J)  BY <1>4 DEF Establish
  <2>3. t \in Seq(Entries)  BY <1>1
  <2>4. /\ Unwound(t, X, p, D) \in X
        /\ \A i \in 1 .. Len(t) : <<t[i], Unwound(t, X, p, D)>> \in J
    BY ONLY <1>3, <2>1, <2>2, <2>3, UnwoundAll
  <2> QED  BY <2>1, <2>4
<1> SUFFICES ASSUME NEW l \in lits PROVE l \in q  BY DEF AllTrue
<1>6. PICK i \in 1 .. N : t[i].witness = l  BY <1>1
<1>7. t[i].witness \in q  BY <1>5
<1> QED  BY <1>6, <1>7

\* The entries for the literals of some variables.
UnitEntries(vs, lits) ==
  [i \in DOMAIN vs |-> Weakened(CHOOSE l \in lits : Var(l) = vs[i],
                               {CHOOSE l \in lits : Var(l) = vs[i]}, {})]

\* The entries for the literals of an autarky, in the order of their variables.
LEMMA AutarkyStacked ==
  ASSUME NEW lits \in SUBSET Literal, Consistent(lits),
         NEW vs, vs \in Seq(1 .. NumVars), ToSet(vs) = {Var(l) : l \in lits},
         NEW t, t = UnitEntries(vs, lits)
  PROVE  UnitsStacked(t, lits)
<1> DEFINE LitOf(v) == CHOOSE l \in lits : Var(l) = v
           W(l) == Weakened(l, {l}, {})
<1>1. Len(vs) \in Nat /\ DOMAIN vs = 1 .. Len(vs)  OBVIOUS
<1>2. t = [i \in 1 .. Len(vs) |-> W(LitOf(vs[i]))]  BY <1>1 DEF UnitEntries
<1>3. ASSUME NEW l \in lits PROVE LitOf(Var(l)) = l
  <2>1. LitOf(Var(l)) \in lits /\ Var(LitOf(Var(l))) = Var(l)  OBVIOUS
  <2> DEFINE k == LitOf(Var(l))
  <2>2. k \in lits /\ Var(k) = Var(l)  BY <2>1
  <2> HIDE DEF k
  <2>3. k = l \/ k = -l  BY <2>2, Literals
  <2>4. k = l  BY <2>2, <2>3 DEF Consistent
  <2> QED  BY <2>4 DEF k
<1>4. ASSUME NEW i \in 1 .. Len(vs) PROVE LitOf(vs[i]) \in lits
  <2>1. vs[i] \in ToSet(vs)  BY <1>1 DEF ToSet
  <2>2. PICK l \in lits : vs[i] = Var(l)  BY <2>1
  <2>3. LitOf(vs[i]) = l  BY <1>3, <2>2
  <2> QED  BY <2>3
<1>5. \A l \in lits : W(l) \in Entries /\ W(l).witness = l /\ W(l).clause = {l}
  <2> SUFFICES ASSUME NEW l \in lits
               PROVE  W(l) \in Entries /\ W(l).witness = l /\ W(l).clause = {l}
    OBVIOUS
  <2>1. {l} \cup ({l} \ {}) = {l}  OBVIOUS
  <2>2. W(l) = [witness |-> l, clause |-> {l}]  BY <2>1 DEF Weakened
  <2>3. {l} \in Proper  BY Literals DEF Proper
  <2> HIDE DEF W
  <2> QED  BY <2>2, <2>3 DEF Entries
<1> HIDE DEF LitOf, W
<1>6. /\ Len(t) = Len(vs) /\ t \in Seq(Entries)
      /\ \A i \in 1 .. Len(t) : t[i] = W(LitOf(vs[i]))
  <2> DEFINE F(i) == W(LitOf(vs[i]))  n == Len(vs)
  <2>1. \A i \in 1 .. n : F(i) \in Entries  BY <1>4, <1>5
  <2>2. t = [i \in 1 .. n |-> F(i)] /\ n \in Nat  BY <1>1, <1>2
  <2> HIDE DEF F, n
  <2>3. Len(t) = n /\ t \in Seq(Entries) /\ \A i \in 1 .. Len(t) : t[i] = F(i)
    BY <2>1, <2>2
  <2> QED  BY <2>3 DEF F, n
<1>7. \A i \in 1 .. Len(t) : t[i].witness \in lits /\ t[i].clause = {t[i].witness}
  <2> SUFFICES ASSUME NEW i \in 1 .. Len(t)
               PROVE  t[i].witness \in lits /\ t[i].clause = {t[i].witness}
    OBVIOUS
  <2> DEFINE l == LitOf(vs[i])
  <2>1. l \in lits /\ t[i] = W(l)  BY <1>4, <1>6
  <2> HIDE DEF l
  <2> QED  BY <1>5, <2>1
<1>8. ASSUME NEW l \in lits PROVE \E i \in 1 .. Len(t) : t[i].witness = l
  <2>1. Var(l) \in ToSet(vs)  OBVIOUS
  <2>2. PICK i \in 1 .. Len(vs) : vs[i] = Var(l)  BY <1>1, <2>1 DEF ToSet
  <2>3. t[i].witness = l  BY <1>3, <1>5, <1>6, <2>2
  <2> QED  BY <1>6, <2>3
<1> QED  BY <1>6, <1>7, <1>8 DEF UnitsStacked

\* The largest autarky is one.
LEMMA LargestAutarkyIs ==
  ASSUME NEW phases
  PROVE  LargestAutarky(phases) \subseteq phases /\ Autarkic(LargestAutarky(phases))
<1> DEFINE lits == LargestAutarky(phases)
<1>1. lits \subseteq phases  BY DEF LargestAutarky
<1>2. ASSUME NEW c \in irredundant, c \cap Complement(lits) # {} PROVE c \cap lits # {}
  <2>1. PICK l \in lits : -l \in c  BY <1>2 DEF Complement
  <2>2. PICK s \in SUBSET phases : Autarkic(s) /\ l \in s  BY <2>1 DEF LargestAutarky
  <2>3. c \cap Complement(s) # {}  BY <2>1, <2>2 DEF Complement
  <2>4. c \cap s # {}  BY <2>2, <2>3 DEF Autarkic
  <2>5. s \subseteq lits  BY <2>2 DEF LargestAutarky
  <2> QED  BY <2>4, <2>5
<1> QED  BY <1>1, <1>2 DEF Autarkic

\* Autarkies.
LEMMA AutarkyRec == ASSUME RecInv, OutInv', Autarky PROVE RecInv'
<1> DEFINE X == SUBSET Literal
           Lits(phases) == LargestAutarky({l \in phases : Active(l)})
           Vs(phases) == Increasing({Var(l) : l \in Lits(phases)})
           Ts(phases) == UnitEntries(Vs(phases), Lits(phases))
<1>1. PICK phases \in Assignment :
        /\ irredundant' = Without(irredundant, ToSet(Vs(phases)))
        /\ redundant' = Without(redundant, ToSet(Vs(phases)))
        /\ eliminated' = eliminated \o Vs(phases)
        /\ extension' = extension \o Ts(phases)
  BY DEF Autarky, UnitEntries
<1>2. /\ solver = "Kissat" /\ pc = "search" /\ ok /\ solver' = solver /\ formula' = formula
      /\ pc' = pc /\ fixed' = fixed
  BY DEF Autarky, AtRoot, inputVars, phaseVars
<1> DEFINE lits == Lits(phases)  w == Vs(phases)  t == Ts(phases)  W == {Var(l) : l \in lits}
<1>3. lits \subseteq {l \in phases : Active(l)} /\ Autarkic(lits)  BY LargestAutarkyIs
<1>4. /\ lits \in SUBSET Literal /\ \A l \in lits : Active(l)
      /\ \A l \in lits : -l \notin lits
  BY <1>3, Values
<1>5. Consistent(lits)  BY <1>4 DEF Consistent
<1>6. w = Increasing(W) /\ t = UnitEntries(w, lits)  OBVIOUS
<1>7. /\ irredundant' = Without(irredundant, ToSet(w)) /\ redundant' = Without(redundant, ToSet(w))
      /\ eliminated' = eliminated \o w /\ extension' = extension \o t
  BY <1>1
<1> HIDE DEF Lits, Vs, Ts, lits, w, t
<1>8. w \in Seq(1 .. NumVars) /\ ToSet(w) = W
  <2>1. W \in SUBSET (1 .. NumVars)  BY <1>4, Literals
  <2> HIDE DEF W
  <2> QED  BY <1>6, <2>1, IncreasingIs
<1>9. UnitsStacked(t, lits)
  <2>1. ToSet(w) = {Var(l) : l \in lits}  BY <1>8
  <2> HIDE DEF W
  <2> QED  BY <1>4, <1>5, <1>6, <1>8, <2>1, AutarkyStacked
<1>10. /\ t \in Seq(Entries)
       /\ \A i \in 1 .. Len(t) : t[i].witness \in lits /\ t[i].clause = {t[i].witness}
  BY <1>9 DEF UnitsStacked
<1>11. extension \in Seq(Entries) /\ extension' \in Seq(Entries)
  <2>1. extension \in Seq(Entries)  BY RecKnown
  <2> QED  BY <1>7, <1>10, <2>1, Concatenated
<1>12. /\ eliminated \in Seq(1 .. NumVars) /\ Eliminated \in SUBSET (1 .. NumVars)
       /\ Eliminated' = Eliminated \cup ToSet(w)
       /\ fixed \in SUBSET Literal /\ irredundant \in SUBSET Proper
  <2>1. eliminated \in Seq(1 .. NumVars) /\ Eliminated \in SUBSET (1 .. NumVars)  BY RecKnown
  <2>2. Eliminated' = Eliminated \cup ToSet(w)
    <3>1. OutInv  BY RecKnown
    <3> QED  BY ONLY <1>7, <1>8, <3>1, MoreEliminated
  <2> QED  BY <2>1, <2>2, RecKnown
<1>13. irredundant' \subseteq irredundant /\ redundant' \subseteq redundant
  BY <1>7 DEF Without
<1>14. ASSUME Consistent(fixed)' PROVE Tidy'
  <2>1. Tidy  BY <1>2, <1>14 DEF RecInv, TidyInv, Consistent
  <2> QED  BY <1>2, <1>13, <2>1 DEF Tidy
<1>15. TidyInv'  BY <1>14 DEF TidyInv
<1>16. ASSUME NEW more \in Seq(1 .. NumVars), NEW p \in X, Partial(p, more)',
              NEW q, q = Unwound(t, X, p, Restore(eliminated \o (w \o more)))
       PROVE  Partial(q, w \o more)
  <2>1. /\ p \in X /\ \A b \in Assignment : p \subseteq b => b \in Left'
    BY <1>16 DEF Partial
  <2>2. /\ q \in X /\ p \subseteq q /\ Consistent(q)
        /\ (\A b \in Assignment : q \subseteq b => b \in Left) => Partial(q, w \o more)
    <3>1. q = Unwound(t, SUBSET Literal, p, Restore(eliminated \o (w \o more)))  BY <1>16
    <3>2. ASSUME NEW i \in 1 .. Len(t)
          PROVE  /\ Var(t[i].witness) \in Eliminated'
                 /\ \A l \in t[i].clause : Var(l) \notin Eliminated
      <4> DEFINE k == t[i].witness
      <4>1. k \in lits /\ t[i].clause = {k}  BY <1>10
      <4> HIDE DEF k
      <4>2. Var(k) \in Eliminated'  BY <1>8, <1>12, <4>1
      <4>3. Var(k) \notin Eliminated  BY <1>4, <4>1 DEF Active
      <4> QED  BY <4>1, <4>2, <4>3 DEF k
    <3> QED  BY <1>8, <1>10, <1>12, <1>16, <3>1, <3>2, NewEntries
  <2>3. lits \subseteq q
    <3> DEFINE u == w \o more  el == eliminated \o u
    <3>1. u \in Seq(1 .. NumVars)  BY <1>8, Concatenated
    <3>2. el \in Seq(1 .. NumVars)
      <4> HIDE DEF u
      <4> QED  BY <1>12, <3>1, Concatenated
    <3>3. q = Unwound(t, SUBSET Literal, p, Restore(el)) /\ p \in SUBSET Literal
      BY <1>16, <2>1
    <3> HIDE DEF el
    <3>4. AllTrue(lits, q)  BY ONLY <1>4, <1>5, <1>9, <3>2, <3>3, RestoreUnits
    <3> QED  BY <3>4 DEF AllTrue
  <2>4. ASSUME NEW b \in Assignment, q \subseteq b PROVE b \in Left
    <3>1. b \in Left'  BY <2>1, <2>2, <2>4
    <3>2. fixed \subseteq b /\ \A c \in irredundant' : c \cap b # {}
      BY <1>2, <3>1 DEF Left, Satisfies
    <3>3. ASSUME NEW c \in irredundant PROVE c \cap b # {}
      <4>1. CASE c \in irredundant'  BY <3>2, <4>1
      <4>2. CASE c \notin irredundant'
        <5>1. PICK l \in c : Var(l) \in W  BY <1>7, <1>8, <4>2 DEF Without
        <5>2. PICK k \in lits : Var(l) = Var(k)  BY <5>1
        <5>3. l \in Literal /\ k \in Literal  BY <1>4, <1>12 DEF Proper
        <5>4. l = k \/ l = -k  BY <5>2, <5>3, Literals
        <5>5. c \cap lits # {}
          <6>1. CASE l = k  BY <6>1
          <6>2. CASE l = -k
            <7>1. c \cap Complement(lits) # {}  BY <6>2 DEF Complement
            <7> QED  BY <1>3, <7>1 DEF Autarkic
          <6> QED  BY <5>4, <6>1, <6>2
        <5> QED  BY <2>3, <2>4, <5>5
      <4> QED  BY <4>1, <4>2
    <3> QED  BY <3>2, <3>3 DEF Left, Satisfies
  <2> QED  BY <2>2, <2>4
<1>17. Rebuilds'
  <2>1. Rebuilds  BY <1>2 DEF RecInv, Rebuilt
  <2>2. \A more \in Seq(1 .. NumVars) : \A p \in SUBSET Literal :
           Partial(p, more)' =>
             Partial(Unwound(t, SUBSET Literal, p, Restore(eliminated \o (w \o more))), w \o more)
    BY <1>16
  <2> QED  BY <1>2, <1>7, <1>8, <1>10, <1>11, <1>12, <2>1, <2>2, StackGrows
<1>18. LoadInv'  BY <1>2 DEF LoadInv
<1>19. Rebuilt'  BY <1>2, <1>17 DEF Rebuilt
<1> QED  BY <1>2, <1>11, <1>15, <1>18, <1>19 DEF RecInv

-----------------------------------------------------------------------------
(* Substitution                                                            *)

\* The sequences of ss up to each, one after the other.
IsFlattened(f, ss, E) ==
  /\ f \in [1 .. Len(ss) -> Seq(E)]
  /\ f[1] = ss[1]
  /\ \A k \in 1 + 1 .. Len(ss) : f[k] = f[k - 1] \o ss[k]
  /\ FlattenSeq(ss) = f[Len(ss)]

\* FlattenSeq puts them one after the other.
LEMMA FlattenedIs ==
  ASSUME NEW E, NEW ss \in Seq(Seq(E)), ss # << >>
  PROVE  \E f : IsFlattened(f, ss, E)
<1> DEFINE N == Len(ss)
           X == Seq(E)
           Body(g) == [i \in 1 .. N |-> IF i = 1 THEN ss[i] ELSE g[i - 1] \o ss[i]]
           D == [x \in Nat \X X |-> IF x[1] \in 1 .. N THEN x[2] \o ss[x[1]] ELSE x[2]]
           F == CHOOSE g : g = Body(g)
<1>1. N \in Nat /\ N # 0 /\ 1 \in Nat /\ 1 \in 1 .. N /\ N \in 1 .. N
      /\ \A i \in 1 .. N : ss[i] \in X
  OBVIOUS
<1>2. FlattenSeq(ss) = F[N]
  <2>1. ~(Len(ss) = 0)  BY <1>1
  <2> QED  BY <2>1 DEF FlattenSeq
<1> HIDE DEF N
<1>3. D \in [Nat \X X -> X]
  <2>1. ASSUME NEW x \in Nat \X X
        PROVE  (IF x[1] \in 1 .. N THEN x[2] \o ss[x[1]] ELSE x[2]) \in X
    <3>1. x[2] \in Seq(E)  OBVIOUS
    <3>2. CASE x[1] \in 1 .. N
      <4> DEFINE u == ss[x[1]]  s == x[2]
      <4>1. u \in Seq(E) /\ s \in Seq(E)  BY <1>1, <3>1, <3>2
      <4> HIDE DEF u, s
      <4>2. s \o u \in Seq(E)  BY <4>1
      <4> QED  BY <3>2, <4>2 DEF u, s
    <3>3. CASE x[1] \notin 1 .. N  BY <3>1, <3>3
    <3> QED  BY <3>2, <3>3
  <2> QED  BY <2>1
<1>4. PICK h : IsRecursive(h, 1, N, X, ss[1], D)
  <2>1. ss[1] \in X  BY <1>1
  <2> HIDE DEF D, X
  <2> QED  BY <1>1, <1>3, <2>1, Recursion
<1>5. h \in [1 .. N -> X] /\ h[1] = ss[1]  BY <1>1, <1>4 DEF IsRecursive
<1>6. \A k \in 1 .. N : h[k] = IF k = 1 THEN ss[k] ELSE h[k - 1] \o ss[k]
  <2> SUFFICES ASSUME NEW k \in 1 .. N
               PROVE  h[k] = IF k = 1 THEN ss[k] ELSE h[k - 1] \o ss[k]
    OBVIOUS
  <2>1. CASE k = 1  BY <1>5, <2>1
  <2>2. CASE k # 1
    <3>1. k \in Nat /\ k - 1 \in 1 .. N  BY <1>1, <2>2
    <3>2. h[k - 1] \in X  BY <1>5, <3>1
    <3>3. h[k] = D[<<k, h[k - 1]>>]  BY <1>4, <2>2 DEF IsRecursive
    <3>4. D[<<k, h[k - 1]>>] = h[k - 1] \o ss[k]
      <4> HIDE DEF X
      <4> QED  BY <3>1, <3>2
    <3> HIDE DEF D
    <3> QED  BY <2>2, <3>3, <3>4
  <2> QED  BY <2>1, <2>2
<1>7. h = Body(h)
  <2> HIDE DEF X
  <2> QED  BY <1>5, <1>6
<1>8. F = Body(F)
  <2> HIDE DEF Body
  <2> QED  BY <1>7
<1> HIDE DEF F
<1>9. \A k \in 1 .. N : F[k] = IF k = 1 THEN ss[k] ELSE F[k - 1] \o ss[k]
  <2>1. \A k \in 1 .. N : F[k] = Body(F)[k]  BY <1>8
  <2> QED  BY <2>1
<1>10. F[1] = ss[1] /\ \A k \in 1 + 1 .. N : F[k] = F[k - 1] \o ss[k]
  <2>1. \A k \in 1 + 1 .. N : k \in 1 .. N /\ k # 1  BY <1>1
  <2> QED  BY ONLY <1>1, <1>9, <2>1
<1>11. F \in [1 .. N -> X]
  <2> DEFINE S == {k \in 1 .. N : F[k] \in X}
  <2>1. 1 \in S  BY <1>1, <1>10
  <2>2. ASSUME NEW k \in 1 + 1 .. N, k - 1 \in S PROVE k \in S
    <3> DEFINE u == F[k - 1]  w == ss[k]
    <3>0. k \in 1 .. N  BY <1>1
    <3>a. u \in Seq(E)  BY <2>2
    <3>b. w \in Seq(E)  BY <1>1, <3>0
    <3>c. F[k] = u \o w  BY <1>10
    <3> HIDE DEF u, w
    <3>1. k \in 1 .. N /\ u \in Seq(E) /\ w \in Seq(E) /\ F[k] = u \o w
      BY <3>0, <3>a, <3>b, <3>c
    <3>2. u \o w \in Seq(E)  BY <3>1
    <3> QED  BY <3>1, <3>2
  <2>3. 1 .. N \subseteq S
    <3> HIDE DEF S
    <3> QED  BY <1>1, <2>1, <2>2, RangeInduction
  <2>4. \A k \in 1 .. N : F[k] \in X  BY <2>3
  <2>5. F = [k \in 1 .. N |-> F[k]]
    <3>1. Body(F) = [k \in 1 .. N |-> Body(F)[k]]  OBVIOUS
    <3> HIDE DEF Body
    <3> QED  BY <1>8, <3>1
  <2> DEFINE H == [k \in 1 .. N |-> F[k]]
  <2>6. H \in [1 .. N -> X]
    <3> HIDE DEF X
    <3> QED  BY <2>4
  <2>7. F = H  BY <2>5
  <2> HIDE DEF H, X
  <2> QED  BY <2>6, <2>7
<1> HIDE DEF Body
<1> QED  BY <1>2, <1>10, <1>11 DEF IsFlattened, N

\* For values in I each of some stacks brings about that they are in J with it, and none
\* undoes that.
BlocksEstablish(ss, X, D, I, J) ==
  \A i \in 1 .. Len(ss) : \A x \in X : x \in I =>
    /\ Unwound(ss[i], X, x, D) \in I
    /\ <<i, Unwound(ss[i], X, x, D)>> \in J
    /\ \A j \in 1 .. Len(ss) : <<j, x>> \in J => <<j, Unwound(ss[i], X, x, D)>> \in J

\* Then it holds for all of them in the end.
LEMMA UnwoundBlocks ==
  ASSUME NEW E, NEW ss \in Seq(Seq(E)), ss # << >>,
         NEW X, NEW c \in X, NEW D, IsStep(D, E, X), NEW I, NEW J, c \in I,
         BlocksEstablish(ss, X, D, I, J),
         NEW q, q = Unwound(FlattenSeq(ss), X, c, D)
  PROVE  q \in I /\ \A i \in 1 .. Len(ss) : <<i, q>> \in J
<1>0. PICK f : IsFlattened(f, ss, E)  BY FlattenedIs
<1> DEFINE N == Len(ss)
           U(s, x) == Unwound(s, X, x, D)
           Done(x) == x \in I /\ \A i \in 1 .. N : <<i, x>> \in J
           After(k, x) == x \in X /\ x \in I /\ \A i \in 1 .. N : i > k => <<i, x>> \in J
           S == {k \in 1 .. N : \A x \in X : After(k, x) => Done(U(f[k], x))}
<1>1. /\ N \in Nat /\ N # 0 /\ 1 \in Nat /\ 1 \in 1 .. N /\ N \in 1 .. N
      /\ \A i \in 1 .. N : ss[i] \in Seq(E)
  OBVIOUS
<1>2. /\ f \in [1 .. N -> Seq(E)] /\ f[1] = ss[1] /\ FlattenSeq(ss) = f[N]
      /\ \A k \in 1 + 1 .. N : f[k] = f[k - 1] \o ss[k]
  BY <1>0 DEF IsFlattened
<1>3. \A i \in 1 .. N : \A x \in X : x \in I =>
        /\ U(ss[i], x) \in I /\ <<i, U(ss[i], x)>> \in J
        /\ \A j \in 1 .. N : <<j, x>> \in J => <<j, U(ss[i], x)>> \in J
  BY DEF BlocksEstablish
<1>4. ASSUME NEW s \in Seq(E), NEW x \in X PROVE U(s, x) \in X
  <2>1. PICK g : IsUnwound(g, s, X, x, D)  BY UnwoundExists
  <2>2. Len(s) \in Nat  OBVIOUS
  <2> QED  BY <2>1, <2>2, UnwoundIs
<1>5. ASSUME NEW s \in Seq(E), NEW u \in Seq(E), NEW x \in X
      PROVE  U(s \o u, x) = U(s, U(u, x))
  BY UnwoundBoth
<1> HIDE DEF N, U
<1>6. 1 \in S
  <2> SUFFICES ASSUME NEW x \in X, After(1, x) PROVE Done(U(f[1], x))  BY <1>1
  <2> DEFINE y == U(ss[1], x)
  <2>1. y \in I /\ <<1, y>> \in J /\ \A j \in 1 .. N : <<j, x>> \in J => <<j, y>> \in J
    BY <1>1, <1>3
  <2>2. y = U(f[1], x)  BY <1>2
  <2> HIDE DEF y
  <2>3. ASSUME NEW i \in 1 .. N PROVE <<i, y>> \in J
    <3>1. i = 1 \/ i > 1  BY <1>1
    <3> QED  BY <2>1, <3>1
  <2> QED  BY <2>1, <2>2, <2>3
<1>7. ASSUME NEW k \in 1 + 1 .. N, k - 1 \in S PROVE k \in S
  <2>1. k \in 1 .. N /\ k - 1 \in 1 .. N  BY <1>1
  <2> SUFFICES ASSUME NEW x \in X, After(k, x) PROVE Done(U(f[k], x))  BY <2>1
  <2> DEFINE y == U(ss[k], x)
  <2>2. y \in I /\ <<k, y>> \in J /\ \A j \in 1 .. N : <<j, x>> \in J => <<j, y>> \in J
    BY <1>3, <2>1
  <2>3. y \in X  BY <1>1, <1>4, <2>1
  <2>4. U(f[k], x) = U(f[k - 1], y)
    <3> DEFINE a == f[k - 1]  b == ss[k]
    <3>1. a \in Seq(E) /\ b \in Seq(E) /\ f[k] = a \o b  BY <1>1, <1>2, <2>1
    <3> HIDE DEF a, b
    <3>2. U(a \o b, x) = U(a, U(b, x))  BY <1>5, <3>1
    <3> QED  BY <3>1, <3>2 DEF a, b
  <2> HIDE DEF y
  <2>5. After(k - 1, y)
    <3> SUFFICES ASSUME NEW i \in 1 .. N, i > k - 1 PROVE <<i, y>> \in J  BY <2>2, <2>3
    <3>1. i = k \/ i > k  BY <1>1, <2>1
    <3> QED  BY <2>2, <3>1
  <2>6. Done(U(f[k - 1], y))  BY <1>7, <2>3, <2>5
  <2> QED  BY <2>4, <2>6
<1>8. 1 .. N \subseteq S
  <2> HIDE DEF S
  <2> QED  BY <1>1, <1>6, <1>7, RangeInduction
<1>9. After(N, c)  BY <1>1
<1>10. Done(U(f[N], c))  BY <1>1, <1>8, <1>9
<1>11. q = U(f[N], c)  BY <1>2 DEF U
<1> QED  BY <1>10, <1>11 DEF N

\* Both literals are true, or both complements are.
Agree(v, r, lits) == (v \in lits /\ r \in lits) \/ (-v \in lits /\ -r \in lits)

\* What the entries for a variable and its representative do to the values.
Replaces(v, r, x, y) ==
  /\ y \in SUBSET Literal
  /\ Consistent(x) => Consistent(y)
  /\ Agree(v, r, y)
  /\ \A l \in x : l = v \/ l = -v \/ l \in y

\* The entries give a variable the value of its representative, if this has one or is
\* going to be eliminated; and the representative gets one.
LEMMA EquivalenceAgrees ==
  ASSUME NEW el \in Seq(1 .. NumVars), NEW v \in 1 .. NumVars, NEW r \in Literal,
         Var(r) # v, NEW P, NEW x \in SUBSET Literal, Consistent(x),
         r \in P => r \in x, -r \in P => -r \in x,
         Var(r) \in ToSet(el) \/ r \in x \/ -r \in x,
         NEW y, y = Unwound(WeakenEquivalence(v, r, P), SUBSET Literal, x, Restore(el))
  PROVE  Replaces(v, r, x, y)
<1> DEFINE X == SUBSET Literal
           D == Restore(el)
           one == [witness |-> v, clause |-> {v}]
           not == [witness |-> -v, clause |-> {-v}]
           if == [witness |-> -v, clause |-> {-v, r}]
<1>1. /\ v \in Literal /\ -v \in Literal /\ -(-v) = v /\ v # -v /\ -r \in Literal
      /\ r # v /\ r # -v /\ -r # v /\ -r # -v /\ r # -r
  <2>1. v \in Literal /\ -v \in Literal /\ Var(v) = v /\ Var(-v) = v  BY LiteralsOf
  <2> QED  BY <2>1, Literals
<1>2. one \in Entries /\ not \in Entries /\ if \in Entries
  <2>1. {v} \in Proper /\ {-v} \in Proper /\ {-v, r} \in Proper  BY <1>1, Literals DEF Proper
  <2> QED  BY <1>1, <2>1 DEF Entries
<1>3. WeakenEquivalence(v, r, P) =
        IF r \in P THEN <<one>> ELSE IF -r \in P THEN <<not>> ELSE <<if, one>>
  <2>1. {v} \cup ({v} \ {}) = {v} /\ {-v} \cup ({-v} \ {}) = {-v}
        /\ {-v} \cup ({-v, r} \ {}) = {-v, r}
    OBVIOUS
  <2> QED  BY <2>1 DEF WeakenEquivalence, Weakened
<1>4. one.witness = v /\ one.clause = {v} /\ not.witness = -v /\ not.clause = {-v}
      /\ if.witness = -v /\ if.clause = {-v, r}
  OBVIOUS
<1>5. \A e \in Entries : \A z \in X : D[<<e, z>>] = Restored(el, e, z)  BY DEF Restore
<1>6. IsStep(D, Entries, X)  BY RestoreType
<1> HIDE DEF one, not, if, D, X
<1>7. \A e \in Entries : \A z \in X : Unwound(<<e>>, X, z, D) = Restored(el, e, z)
  <2> SUFFICES ASSUME NEW e \in Entries, NEW z \in X
               PROVE  Unwound(<<e>>, X, z, D) = Restored(el, e, z)
    OBVIOUS
  <2>1. Unwound(<<e>>, X, z, D) = D[<<e, z>>]  BY ONLY <1>6, UnwoundOne
  <2> QED  BY <1>5, <2>1
<1>8. x \in X /\ y = Unwound(WeakenEquivalence(v, r, P), X, x, D)  BY DEF X, D
<1>9. ASSUME NEW e \in Entries, e.clause = {e.witness}, NEW z, z = Restored(el, e, x)
       PROVE  /\ z \in SUBSET Literal /\ x \ {-e.witness} \subseteq z
              /\ Consistent(z) /\ e.witness \in z
  <2>1. el \in Seq(1 .. NumVars) /\ x \in SUBSET Literal /\ Consistent(x)  OBVIOUS
  <2> QED  BY ONLY <1>9, <2>1, RestoredIs
<1>10. LET z == Restored(el, one, x)
       IN  z \in SUBSET Literal /\ x \ {-v} \subseteq z /\ Consistent(z) /\ v \in z
  BY <1>2, <1>4, <1>9
<1>11. LET z == Restored(el, not, x)
       IN  z \in SUBSET Literal /\ x \ {v} \subseteq z /\ Consistent(z) /\ -v \in z
  BY <1>1, <1>2, <1>4, <1>9
<1>12. CASE r \in P
  <2>1. y = Restored(el, one, x)  BY <1>2, <1>3, <1>7, <1>8, <1>12
  <2>2. y \in SUBSET Literal /\ x \ {-v} \subseteq y /\ Consistent(y) /\ v \in y
    BY <1>10, <2>1
  <2> QED  BY <1>1, <1>12, <2>2 DEF Replaces, Agree
<1>13. CASE r \notin P /\ -r \in P
  <2>1. y = Restored(el, not, x)  BY <1>2, <1>3, <1>7, <1>8, <1>13
  <2>2. y \in SUBSET Literal /\ x \ {v} \subseteq y /\ Consistent(y) /\ -v \in y
    BY <1>11, <2>1
  <2> QED  BY <1>1, <1>13, <2>2 DEF Replaces, Agree
<1>14. CASE r \notin P /\ -r \notin P
  <2> DEFINE z == Restored(el, one, x)
  <2>1. z \in SUBSET Literal /\ x \ {-v} \subseteq z /\ Consistent(z) /\ v \in z
    BY <1>10
  <2>2. y = Restored(el, if, z)
    <3>1. WeakenEquivalence(v, r, P) = <<if>> \o <<one>>  BY <1>3, <1>14
    <3>2. <<if>> \in Seq(Entries) /\ <<one>> \in Seq(Entries)  BY <1>2
    <3> DEFINE s == <<if>>  u == <<one>>
    <3>3. s \in Seq(Entries) /\ u \in Seq(Entries) /\ WeakenEquivalence(v, r, P) = s \o u
      BY <3>1, <3>2
    <3>4. Unwound(u, X, x, D) = z  BY <1>2, <1>7, <1>8
    <3>5. z \in X  BY <2>1 DEF X
    <3> HIDE DEF z
    <3>6. Unwound(s, X, z, D) = Restored(el, if, z)  BY <1>2, <1>7, <3>5
    <3> HIDE DEF s, u
    <3>7. Unwound(s \o u, X, x, D) = Unwound(s, X, Unwound(u, X, x, D), D)
      BY ONLY <1>6, <1>8, <3>3, UnwoundBoth
    <3> QED  BY <1>8, <3>3, <3>4, <3>6, <3>7
  <2> HIDE DEF z
  <2>3. /\ y \in SUBSET Literal /\ y \cap {-v, r} # {} /\ z \ {v} \subseteq y /\ Consistent(y)
        /\ v \notin y => -v \in y /\ r \notin z /\ (Var(r) \notin ToSet(el) \/ -r \in z)
    <3> DEFINE e == if
    <3>1. e \in Entries /\ e.witness = -v /\ e.clause = {-v, r} /\ -e.witness = v
      BY <1>1, <1>2, <1>4
    <3> HIDE DEF e
    <3>2. y = Restored(el, e, z)  BY <2>2 DEF e
    <3>3. /\ y \in SUBSET Literal /\ y \cap e.clause # {} /\ z \ {-e.witness} \subseteq y
          /\ Consistent(z) => Consistent(y)
          /\ -e.witness \in z /\ -e.witness \notin y =>
               /\ e.witness \in y
               /\ \A l \in e.clause \ {e.witness} :
                    l \notin z /\ (Var(l) \notin ToSet(el) \/ -l \in z)
      BY ONLY <2>1, <3>1, <3>2, RestoredIs, el \in Seq(1 .. NumVars)
    <3>4. r \in e.clause \ {e.witness}  BY <1>1, <3>1
    <3> QED  BY <2>1, <3>1, <3>3, <3>4
  <2>4. \A l \in x : l = v \/ l = -v \/ l \in y  BY <2>1, <2>3
  <2>5. Agree(v, r, y)
    <3>1. CASE v \in y
      <4>1. -v \notin y  BY <2>3, <3>1 DEF Consistent
      <4> QED  BY <2>3, <3>1, <4>1 DEF Agree
    <3>2. CASE v \notin y
      <4>1. -v \in y /\ r \notin z /\ (Var(r) \notin ToSet(el) \/ -r \in z)  BY <2>3, <3>2
      <4>2. -r \in z  BY <1>1, <2>1, <4>1
      <4> QED  BY <1>1, <2>3, <4>1, <4>2 DEF Agree
    <3> QED  BY <3>1, <3>2
  <2> QED  BY <2>3, <2>4, <2>5 DEF Replaces
<1> QED  BY <1>12, <1>13, <1>14

\* Complementary literals have complementary representatives.
LEMMA RepresentativeBack ==
  ASSUME NEW lit \in Literal, Active(lit),
         \A l \in FailedRoots : -l \notin Reached(l) \/ l \notin Reached(-l)
  PROVE  Representative(-lit) = -Representative(lit)
<1> DEFINE r == Representative(lit)  q == Representative(-lit)
<1>1. /\ lit \in Literal /\ -lit \in Literal /\ -(-lit) = lit  BY Literals
<1>2. /\ r \in Same(lit) /\ r \in Literal /\ \A k \in Same(lit) : Var(r) <= Var(k)
  BY RepresentativeIs
<1>3. /\ q \in Same(-lit) /\ q \in Literal /\ \A k \in Same(-lit) : Var(q) <= Var(k)
  BY <1>1, RepresentativeIs
<1> HIDE DEF r, q
<1>4. -q \in Same(lit)
  <2>1. q \in Reached(-lit) /\ -lit \in Reached(q)  BY <1>3 DEF Same
  <2>2. lit \in Reached(-q)  BY <1>1, <2>1, ReachedBack
  <2>3. -q \in Reached(lit)  BY <1>1, <1>3, <2>1, ReachedBack
  <2> QED  BY <2>2, <2>3 DEF Same
<1>5. -r \in Same(-lit)
  <2>1. r \in Reached(lit) /\ lit \in Reached(r)  BY <1>2 DEF Same
  <2>2. -lit \in Reached(-r)  BY <2>1, ReachedBack
  <2>3. -r \in Reached(-lit)  BY <1>2, <2>1, ReachedBack
  <2> QED  BY <2>2, <2>3 DEF Same
<1>6. Var(r) = Var(q)
  <2>1. Var(r) <= Var(-q) /\ Var(q) <= Var(-r)  BY <1>2, <1>3, <1>4, <1>5
  <2>2. Var(-q) = Var(q) /\ Var(-r) = Var(r) /\ Var(r) \in Nat /\ Var(q) \in Nat
    BY <1>2, <1>3, Literals, NumVarsAssumption
  <2> QED  BY <2>1, <2>2
<1>7. q = r \/ q = -r  BY <1>2, <1>3, <1>6, Literals
<1>8. ASSUME q = r PROVE FALSE
  <2>1. r \in Reached(lit) /\ lit \in Reached(r) /\ -r \in Reached(lit) /\ lit \in Reached(-r)
    BY <1>2, <1>4, <1>8 DEF Same
  <2>2. -lit \in Reached(-r)  BY <2>1, ReachedBack
  <2>3. Reached(-r) \subseteq Reached(lit)  BY <2>1, ReachedBack
  <2>4. -lit \in Reached(lit)  BY <2>2, <2>3
  <2>5. r \in Reached(-lit)  BY <1>3, <1>8 DEF Same
  <2>6. Reached(r) \subseteq Reached(-lit)  BY <1>1, <2>5, ReachedBack
  <2>7. lit \in Reached(-lit)  BY <2>1, <2>6
  <2>8. lit \in Reached(lit)  BY ReachedClosed
  <2>9. lit \in FailedRoots  BY <2>4, <2>8 DEF FailedRoots
  <2> QED  BY <2>4, <2>7, <2>9
<1> QED  BY <1>7, <1>8 DEF r, q

\* The entries for each variable that is replaced.
EquivalenceEntries(w, P) ==
  [i \in DOMAIN w |-> WeakenEquivalence(w[i], Representative(w[i]), P)]

\* A variable that is replaced, and its representative.
Replaceable(W) ==
  /\ W \in SUBSET (1 .. NumVars)
  /\ \A v \in W : /\ v \notin Eliminated /\ Representative(v) \in Literal
                  /\ Var(Representative(v)) \notin W
                  /\ Var(Representative(v)) \notin Eliminated

\* Each representative has a value, or its variable is going to be eliminated.
HaveValues(W, el, p) ==
  \A v \in W : LET r == Representative(v) IN Var(r) \in ToSet(el) \/ r \in p \/ -r \in p

\* The entries for all variables of W.
EntriesFor(W) ==
  {e \in Entries : Var(e.witness) \in W /\ \A l \in e.clause : Var(l) \notin Eliminated}

\* They are those of the variables one after the other.
LEMMA EquivalencesStacked ==
  ASSUME NEW W, Replaceable(W), NEW w, w \in Seq(W), w # << >>, NEW P,
         NEW ss, ss = EquivalenceEntries(w, P)
  PROVE  /\ ss \in Seq(Seq(EntriesFor(W))) /\ ss # << >>
         /\ Len(ss) = Len(w) /\ Len(w) \in Nat
         /\ \A i \in 1 .. Len(ss) :
              w[i] \in W /\ ss[i] = WeakenEquivalence(w[i], Representative(w[i]), P)
         /\ FlattenSeq(ss) \in Seq(EntriesFor(W)) /\ FlattenSeq(ss) \in Seq(Entries)
<1> DEFINE S == EntriesFor(W)
           N == Len(w)
           B(i) == WeakenEquivalence(w[i], Representative(w[i]), P)
<1>1. N \in Nat /\ N # 0 /\ DOMAIN w = 1 .. N /\ \A i \in 1 .. N : w[i] \in W  OBVIOUS
<1>2. ASSUME NEW v \in W PROVE WeakenEquivalence(v, Representative(v), P) \in Seq(S)
  <2> DEFINE r == Representative(v)
             one == [witness |-> v, clause |-> {v}]
             not == [witness |-> -v, clause |-> {-v}]
             if == [witness |-> -v, clause |-> {-v, r}]
  <2>1. v \in 1 .. NumVars /\ v \notin Eliminated /\ r \in Literal /\ Var(r) \notin W
        /\ Var(r) \notin Eliminated
    BY DEF Replaceable
  <2> HIDE DEF r
  <2>2. v \in Literal /\ -v \in Literal /\ Var(v) = v /\ Var(-v) = v /\ -(-v) = v /\ v # -v
    BY <2>1, LiteralsOf, Literals
  <2>3. {v} \in Proper /\ {-v} \in Proper /\ {-v, r} \in Proper
    <3>1. r # v /\ -r # -v /\ r # -v  BY <2>1, <2>2
    <3> QED  BY <2>1, <2>2, <3>1, Literals DEF Proper
  <2>4. one \in S /\ not \in S /\ if \in S
    BY <2>1, <2>2, <2>3 DEF EntriesFor, Entries
  <2>5. WeakenEquivalence(v, r, P) =
          IF r \in P THEN <<one>> ELSE IF -r \in P THEN <<not>> ELSE <<if, one>>
    <3>1. {v} \cup ({v} \ {}) = {v} /\ {-v} \cup ({-v} \ {}) = {-v}
          /\ {-v} \cup ({-v, r} \ {}) = {-v, r}
      OBVIOUS
    <3> QED  BY <3>1 DEF WeakenEquivalence, Weakened
  <2> HIDE DEF one, not, if, S
  <2>6. <<one>> \in Seq(S) /\ <<not>> \in Seq(S) /\ <<if, one>> \in Seq(S)  BY <2>4
  <2>7. WeakenEquivalence(v, r, P) \in Seq(S)  BY <2>5, <2>6
  <2> QED  BY <2>7 DEF r
<1>3. ss = [i \in 1 .. N |-> B(i)]  BY <1>1 DEF EquivalenceEntries
<1>4. \A i \in 1 .. N : B(i) \in Seq(S)  BY <1>1, <1>2
<1> HIDE DEF S, B
<1>5. /\ ss \in Seq(Seq(S)) /\ Len(ss) = N /\ \A i \in 1 .. Len(ss) : ss[i] = B(i)
  <2> HIDE DEF N
  <2> QED  BY <1>1, <1>3, <1>4
<1>6. ss # << >>
  <2> HIDE DEF N
  <2> QED  BY <1>1, <1>5
<1>7. FlattenSeq(ss) \in Seq(S)
  <2>1. PICK f : IsFlattened(f, ss, S)  BY <1>5, <1>6, FlattenedIs
  <2>2. f \in [1 .. N -> Seq(S)] /\ FlattenSeq(ss) = f[N]
    <3> HIDE DEF N
    <3> QED  BY <1>5, <2>1 DEF IsFlattened
  <2>3. N \in 1 .. N
    <3> HIDE DEF N
    <3> QED  BY <1>1
  <2> HIDE DEF N
  <2> QED  BY <2>2, <2>3
<1>8. S \subseteq Entries  BY DEF S, EntriesFor
<1>9. FlattenSeq(ss) \in Seq(Entries)  BY <1>7, <1>8
<1> QED  BY <1>1, <1>5, <1>6, <1>7, <1>9 DEF S, B

\* In the end each variable agrees with its representative.
LEMMA EquivalencesAgree ==
  ASSUME NEW W, Replaceable(W), NEW w, w \in Seq(W), w # << >>,
         NEW el \in Seq(1 .. NumVars), NEW p \in SUBSET Literal, Consistent(p),
         \A l \in p : Var(l) \notin W, HaveValues(W, el, p), NEW P, P \subseteq p,
         NEW q, q = Unwound(FlattenSeq(EquivalenceEntries(w, P)), SUBSET Literal, p, Restore(el))
  PROVE  \A v \in ToSet(w) : Agree(v, Representative(v), q)
<1> DEFINE X == SUBSET Literal
           D == Restore(el)
           ss == EquivalenceEntries(w, P)
           N == Len(ss)
           B(i) == WeakenEquivalence(w[i], Representative(w[i]), P)
           I == {x \in X : p \subseteq x /\ Consistent(x)}
           J == {y \in Nat \X X : Agree(w[y[1]], Representative(w[y[1]]), y[2])}
<1>1. /\ ss \in Seq(Seq(EntriesFor(W))) /\ ss # << >> /\ N = Len(w) /\ N \in Nat
      /\ \A i \in 1 .. N : w[i] \in W /\ ss[i] = B(i)
  BY EquivalencesStacked
<1>2. ss \in Seq(Seq(Entries))
  <2>1. EntriesFor(W) \subseteq Entries  BY DEF EntriesFor
  <2>2. Seq(EntriesFor(W)) \subseteq Seq(Entries)  BY <2>1
  <2> HIDE DEF ss
  <2>3. Len(ss) \in Nat /\ \A i \in 1 .. Len(ss) : ss[i] \in Seq(EntriesFor(W))
    BY <1>1
  <2>4. \A i \in 1 .. Len(ss) : ss[i] \in Seq(Entries)  BY <2>2, <2>3
  <2>5. ss = [i \in 1 .. Len(ss) |-> ss[i]]  BY <1>1
  <2> HIDE DEF N, B
  <2> QED  BY <2>3, <2>4, <2>5
<1>3. IsStep(D, Entries, X)  BY RestoreType
<1>4. p \in X /\ p \in I  OBVIOUS
<1>5. ASSUME NEW v \in W, NEW x \in I,
             NEW y, y = Unwound(WeakenEquivalence(v, Representative(v), P), X, x, D)
      PROVE  Replaces(v, Representative(v), x, y) /\ y \in I
  <2> DEFINE r == Representative(v)
  <2>1. v \in 1 .. NumVars /\ r \in Literal /\ Var(r) # v  BY DEF Replaceable
  <2>2. x \in SUBSET Literal /\ Consistent(x) /\ p \subseteq x  OBVIOUS
  <2>3. (r \in P => r \in x) /\ (-r \in P => -r \in x)  BY <2>2
  <2>4. Var(r) \in ToSet(el) \/ r \in x \/ -r \in x  BY <2>2 DEF HaveValues
  <2>5. y = Unwound(WeakenEquivalence(v, r, P), SUBSET Literal, x, Restore(el))  BY <1>5
  <2> HIDE DEF r
  <2>6. Replaces(v, r, x, y)
    <3>1. el \in Seq(1 .. NumVars)  OBVIOUS
    <3> QED  BY ONLY <2>1, <2>2, <2>3, <2>4, <2>5, <3>1, EquivalenceAgrees
  <2>7. p \subseteq y
    <3> SUFFICES ASSUME NEW l \in p PROVE l \in y  OBVIOUS
    <3>1. l \in x /\ Var(l) # v  BY <2>2
    <3>2. l # v /\ l # -v  BY <2>1, <3>1, LiteralsOf
    <3> QED  BY <2>6, <3>1, <3>2 DEF Replaces
  <2>8. y \in I  BY <2>2, <2>6, <2>7 DEF Replaces
  <2> QED  BY <2>6, <2>8 DEF r
<1>6. ASSUME NEW i \in 1 .. N, NEW x \in X, x \in I
      PROVE  /\ Unwound(ss[i], X, x, D) \in I
             /\ <<i, Unwound(ss[i], X, x, D)>> \in J
             /\ \A j \in 1 .. N : <<j, x>> \in J => <<j, Unwound(ss[i], X, x, D)>> \in J
  <2> DEFINE y == Unwound(ss[i], X, x, D)
             v == w[i]
             r == Representative(v)
  <2>1. v \in W /\ i \in Nat  BY <1>1
  <2>2. y = Unwound(WeakenEquivalence(v, r, P), X, x, D)  BY <1>1
  <2> HIDE DEF y, v
  <2>3. Replaces(v, r, x, y) /\ y \in I  BY <1>5, <1>6, <2>1, <2>2
  <2> HIDE DEF r
  <2>4. y \in X /\ Agree(v, r, y) /\ \A l \in x : l = v \/ l = -v \/ l \in y
    BY <2>3 DEF Replaces
  <2>5. <<i, y>> \in J  BY <2>1, <2>4 DEF r, v
  <2>6. ASSUME NEW j \in 1 .. N, <<j, x>> \in J PROVE <<j, y>> \in J
    <3> DEFINE a == w[j]  b == Representative(a)
    <3>1. a \in W /\ j \in Nat /\ Agree(a, b, x)  BY <1>1, <2>6
    <3> HIDE DEF a
    <3>2. Agree(a, b, y)
      <4>1. CASE a = v  BY <2>4, <4>1 DEF r
      <4>2. CASE a # v
        <5>1. a \in 1 .. NumVars /\ v \in 1 .. NumVars /\ b \in Literal /\ Var(b) # v
          BY <2>1, <3>1 DEF Replaceable
        <5> HIDE DEF b
        <5>2. Var(a) = a /\ Var(-a) = a /\ Var(v) = v /\ Var(-v) = v /\ Var(-b) = Var(b)
          BY <5>1, LiteralsOf, Literals
        <5>3. a # v /\ a # -v /\ -a # v /\ -a # -v /\ b # v /\ b # -v /\ -b # v /\ -b # -v
          BY <4>2, <5>1, <5>2
        <5> QED  BY <2>4, <3>1, <5>3 DEF Agree
      <4> QED  BY <4>1, <4>2
    <3> QED  BY <2>4, <3>1, <3>2 DEF a, b
  <2> HIDE DEF J, I, X
  <2> QED  BY <2>3, <2>5, <2>6 DEF y
<1>7. \A i \in 1 .. N : <<i, q>> \in J
  <2>1. q = Unwound(FlattenSeq(ss), X, p, D)  OBVIOUS
  <2> HIDE DEF ss, X, D, I, J
  <2>2. BlocksEstablish(ss, X, D, I, J)  BY <1>6 DEF BlocksEstablish
  <2>3. ss # << >>  BY <1>1
  <2>4. q \in I /\ \A i \in 1 .. Len(ss) : <<i, q>> \in J
    BY ONLY <1>2, <1>3, <1>4, <2>1, <2>2, <2>3, UnwoundBlocks
  <2> QED  BY <2>4
<1> SUFFICES ASSUME NEW v \in ToSet(w) PROVE Agree(v, Representative(v), q)  OBVIOUS
<1>8. PICK i \in DOMAIN w : v = w[i]  BY DEF ToSet
<1>9. i \in 1 .. N
  <2> HIDE DEF N
  <2>1. DOMAIN w = 1 .. Len(w)  OBVIOUS
  <2> QED  BY <1>1, <1>8, <2>1
<1>10. <<i, q>> \in J  BY <1>7, <1>9
<1> QED  BY <1>8, <1>10

\* What is replaced in a round is not eliminated yet, and no representative is replaced.
LEMMA ReplacedFits ==
  ASSUME OutInv, AtRoot, \A l \in FailedRoots : -l \notin Reached(l) \/ l \notin Reached(-l),
         NEW W, W = {v \in 1 .. NumVars : Active(v) /\ Representative(v) # v}
  PROVE  Replaceable(W)
<1> SUFFICES ASSUME NEW v \in W
             PROVE  /\ v \notin Eliminated /\ Representative(v) \in Literal
                    /\ Var(Representative(v)) \notin W
                    /\ Var(Representative(v)) \notin Eliminated
  BY DEF Replaceable
<1> DEFINE r == Representative(v)
<1>1. v \in Literal /\ Var(v) = v /\ Active(v)  BY LiteralsOf
<1>2. v \notin Eliminated  BY <1>1 DEF Active
<1>3. r \in Reached(v)  BY <1>1, RepresentativeIs DEF Same
<1>4. r \in Literal /\ Var(r) \notin Eliminated  BY <1>1, <1>2, <1>3, ReachedOut
<1>5. Var(r) \notin W  BY <1>1, RepresentativeStays
<1> QED  BY <1>2, <1>4, <1>5

\* Clauses with representatives are true for values of variables that agree with their
\* representatives only if the clauses are.
LEMMA SubstitutedBack ==
  ASSUME OutInv, AtRoot, Tidy, \A l \in FailedRoots : -l \notin Reached(l) \/ l \notin Reached(-l),
         NEW W, W = {v \in 1 .. NumVars : Active(v) /\ Representative(v) # v},
         NEW b \in Assignment, \A v \in W : Agree(v, Representative(v), b),
         \A c \in Substituted(irredundant) : c \cap b # {},
         NEW c \in irredundant
  PROVE  c \cap b # {}
<1>1. c \in Proper /\ c \in SUBSET Literal /\ c # {}
      /\ \A l \in c : Var(l) \notin Eliminated /\ Active(l)
  <2>1. c \in Proper /\ \A l \in c : Var(l) \notin Eliminated  BY OutKnown DEF AtRoot, Out
  <2>2. c # {} /\ \A l \in c : l \notin fixed /\ -l \notin fixed  BY DEF Tidy
  <2> QED  BY <2>1, <2>2 DEF Active, Proper
<1> DEFINE d == SubstitutedLits(c)
<1>2. d \in SUBSET Literal /\ d # {}
  <2>1. \A l \in c : Representative(l) \in Literal  BY <1>1, RepresentativeIs
  <2> QED  BY <1>1, <2>1 DEF SubstitutedLits
<1>3. d \cap b # {}
  <2>1. CASE d \in Clauses
    <3>1. d \in Substituted(irredundant)  BY <2>1 DEF Substituted
    <3> QED  BY <3>1
  <2>2. CASE d \notin Clauses
    <3> HIDE DEF d
    <3>1. PICK l \in d : -l \in d  BY <1>2, <2>2 DEF Clauses
    <3> QED  BY <1>2, <3>1, Values
  <2> QED  BY <2>1, <2>2
<1>4. PICK l \in c : Representative(l) \in b  BY <1>3 DEF SubstitutedLits
<1> DEFINE v == Var(l)
           r == Representative(v)
<1>5. l \in Literal /\ Active(l) /\ v \in 1 .. NumVars /\ (l = v \/ l = -v)
      /\ v \in Literal /\ -v \in Literal /\ -(-v) = v /\ Var(v) = v /\ Var(-v) = v
  <2>1. l \in Literal /\ Active(l) /\ v \in 1 .. NumVars  BY <1>1, Literals
  <2> HIDE DEF v
  <2>2. v \in Literal /\ -v \in Literal /\ Var(v) = v /\ Var(-v) = v  BY <2>1, LiteralsOf
  <2>3. v = Var(l)  BY DEF v
  <2> QED  BY <2>1, <2>2, <2>3, Literals
<1> HIDE DEF v
<1>6. Active(v)
  <2>1. {v, -v} = {l, -l}  BY <1>5
  <2>2. Var(v) = Var(l)  BY <1>5 DEF v
  <2> QED  BY <1>5, <2>1, <2>2 DEF Active
<1>7. Representative(-v) = -r /\ r \in Literal  BY <1>5, <1>6, RepresentativeBack, RepresentativeIs
<1> HIDE DEF r
<1>8. l \in b
  <2>1. CASE r = v
    <3>1. Representative(l) = l  BY <1>5, <1>7, <2>1 DEF r
    <3> QED  BY <1>4, <3>1
  <2>2. CASE r # v
    <3>1. v \in W  BY <1>5, <1>6, <2>2 DEF r
    <3>2. (v \in b /\ r \in b) \/ (-v \in b /\ -r \in b)  BY <3>1 DEF Agree, r
    <3>3. CASE l = v
      <4>1. r \in b /\ -r \notin b  BY <1>4, <1>7, <3>3, Values DEF r
      <4> QED  BY <3>2, <3>3, <4>1
    <3>4. CASE l = -v
      <4>1. -r \in b /\ r \notin b  BY <1>4, <1>7, <3>4, Values
      <4> QED  BY <3>2, <3>4, <4>1
    <3> QED  BY <1>5, <3>3, <3>4
  <2> QED  BY <2>1, <2>2
<1> QED  BY <1>8

\* A round of substitution.
LEMMA SubstituteRoundRec == ASSUME RecInv, OutInv', SubstituteRound PROVE RecInv'
<1> DEFINE X == SUBSET Literal
           irr == Substituted(irredundant)
           red == Substituted(redundant)
           P == Propagated(irr \cup red, fixed)
           W == {v \in 1 .. NumVars : Active(v) /\ Representative(v) # v}
           w == Increasing(W)
           t == FlattenSeq(EquivalenceEntries(w, P))
<1>1. /\ AtRoot /\ UNCHANGED <<inputVars, phaseVars>>
      /\ pc = "search" /\ pc' = "search" /\ ok /\ solver = "Kissat"
      /\ solver' = solver /\ formula' = formula
  <2>1. AtRoot /\ UNCHANGED <<inputVars, phaseVars>>  BY DEF SubstituteRound
  <2> QED  BY <2>1 DEF AtRoot, inputVars, phaseVars
<1>2. Consistent(fixed) => Tidy
  <2>1. pc = "search" /\ ok  BY <1>1
  <2>2. TidyInv  BY <2>1 DEF RecInv
  <2> QED  BY <2>1, <2>2 DEF TidyInv
<1>3. \/ ok' = FALSE /\ UNCHANGED <<clauseVars, stackVars>>
      \/ (\E l \in FailedRoots : LearnUnit(-l)) /\ UNCHANGED stackVars
      \/ /\ \A l \in FailedRoots : -l \notin Reached(l) \/ l \notin Reached(-l)
         /\ w # << >>
         /\ Settle(irr, red, fixed)
         /\ eliminated' = eliminated \o w
         /\ extension' = extension \o t
  BY DEF SubstituteRound, EquivalenceEntries
<1>4. CASE ok' = FALSE /\ UNCHANGED <<clauseVars, stackVars>>
  <2>1. extension' \in Seq(Entries)  BY <1>4, RecKnown DEF stackVars
  <2> QED  BY <1>1, <1>4, <2>1 DEF RecInv
<1>5. CASE (\E l \in FailedRoots : LearnUnit(-l)) /\ UNCHANGED stackVars
  <2>1. PICK l \in FailedRoots : LearnUnit(-l)  BY <1>5
  <2>2. -l \in Literal  BY Literals DEF FailedRoots
  <2> QED  BY <1>1, <1>5, <2>1, <2>2, UnitRec
<1>6. CASE /\ \A l \in FailedRoots : -l \notin Reached(l) \/ l \notin Reached(-l)
           /\ w # << >>
           /\ Settle(irr, red, fixed)
           /\ eliminated' = eliminated \o w
           /\ extension' = extension \o t
  <2>1. OutInv  BY RecKnown
  <2>2. Replaceable(W)
    <3> DEFINE V == W
    <3>1. V = {v \in 1 .. NumVars : Active(v) /\ Representative(v) # v}  OBVIOUS
    <3> HIDE DEF V
    <3>2. Replaceable(V)  BY <1>1, <1>6, <2>1, <3>1, ReplacedFits
    <3> QED  BY <3>2 DEF V
  <2>3. w \in Seq(1 .. NumVars) /\ w \in Seq(W) /\ ToSet(w) = W
    <3>1. W \in SUBSET (1 .. NumVars)  OBVIOUS
    <3> HIDE DEF W
    <3>2. w \in Seq(1 .. NumVars) /\ ToSet(w) = W  BY <3>1, IncreasingIs
    <3> HIDE DEF w
    <3>3. \A i \in 1 .. Len(w) : w[i] \in W  BY <3>2 DEF ToSet
    <3> QED  BY <3>2, <3>3
  <2>4. /\ irr \in SUBSET Proper /\ red \in SUBSET Proper /\ fixed \in X
        /\ extension \in Seq(Entries) /\ eliminated \in Seq(1 .. NumVars)
        /\ Eliminated \in SUBSET (1 .. NumVars)
    BY RecKnown DEF Substituted, Clauses, Proper
  <2>5. ok' => fixed' = P /\ fixed \subseteq fixed'
    <3>1. fixed \subseteq P  BY <2>4, PropagatedTrue
    <3>2. ok' => fixed' = P  BY <1>6 DEF Settle
    <3> QED  BY <3>1, <3>2
  <2>6. ok' => TidyInv'
    <3>1. Settle(irr, red, fixed)  BY <1>6
    <3> HIDE DEF irr, red
    <3> QED  BY <2>4, <3>1, SettleTidy DEF TidyInv
  <2>7. ok' => \A b \in Left' : fixed' \subseteq b /\ \A c \in irr : c \cap b # {}
    <3>1. Settle(irr, red, fixed)  BY <1>6
    <3> HIDE DEF irr, red
    <3> QED  BY <2>4, <3>1, SettleLeft
  <2>8. /\ t \in Seq(Entries)
        /\ \A i \in 1 .. Len(t) : /\ Var(t[i].witness) \in W
                                  /\ \A l \in t[i].clause : Var(l) \notin Eliminated
    <3> HIDE DEF W, P
    <3>0. w # << >>  BY <1>6
    <3> HIDE DEF w
    <3>1. t \in Seq(EntriesFor(W)) /\ t \in Seq(Entries)
      BY <2>2, <2>3, <3>0, EquivalencesStacked
    <3> HIDE DEF t
    <3> QED  BY <3>1 DEF EntriesFor
  <2>9. eliminated' = eliminated \o w /\ extension' = extension \o t /\ w # << >>  BY <1>6
  <2> HIDE DEF P, w, t, irr, red
  <2>10. extension' \in Seq(Entries)  BY <2>4, <2>8, <2>9, Concatenated
  <2>11. Eliminated' = Eliminated \cup ToSet(w)  BY ONLY <2>1, <2>3, <2>9, MoreEliminated
  <2>12. ASSUME ok', NEW more \in Seq(1 .. NumVars), NEW p \in X, Partial(p, more)',
                NEW q, q = Unwound(t, X, p, Restore(eliminated \o (w \o more)))
         PROVE  Partial(q, w \o more)
    <3>1. /\ p \in X /\ Consistent(p) /\ \A l \in p : Var(l) \notin Eliminated'
          /\ \A v \in 1 .. NumVars : v \in Eliminated' \/ v \in ToSet(more) \/ v \in p \/ -v \in p
          /\ \A b \in Assignment : p \subseteq b => b \in Left'
      BY <2>12 DEF Partial
    <3>2. /\ q \in X /\ p \subseteq q /\ Consistent(q)
          /\ (\A b \in Assignment : q \subseteq b => b \in Left) => Partial(q, w \o more)
      <4>1. q = Unwound(t, SUBSET Literal, p, Restore(eliminated \o (w \o more)))  BY <2>12
      <4>2. \A i \in 1 .. Len(t) : /\ Var(t[i].witness) \in Eliminated'
                                   /\ \A l \in t[i].clause : Var(l) \notin Eliminated
        <5> HIDE DEF W
        <5> QED  BY <2>3, <2>8, <2>11
      <4> QED  BY <2>3, <2>4, <2>8, <2>11, <2>12, <4>1, <4>2, NewEntries
    <3>3. P \subseteq p
      <4> SUFFICES ASSUME NEW l \in P PROVE l \in p  OBVIOUS
      <4>1. l \in Literal /\ -l \in Literal
        <5>1. P \in SUBSET Literal
          <6> HIDE DEF X
          <6> QED  BY <2>4, PropagatedTrue DEF P, X
        <5> QED  BY <5>1, Literals
      <4>2. \A b \in Assignment : p \subseteq b => {l} \cap b # {}
        BY <2>5, <2>7, <2>12, <3>1
      <4>3. {l} \in Proper
        <5>1. l # -l  BY <4>1, Literals
        <5> QED  BY <4>1, <5>1 DEF Proper
      <4>4. {l} \cap p # {}  BY <3>1, <4>2, <4>3, TrueAlready
      <4> QED  BY <4>4
    <3>4. \A v \in W : Agree(v, Representative(v), q)
      <4> DEFINE u == w \o more  el == eliminated \o u
      <4>1. u \in Seq(1 .. NumVars) /\ ToSet(u) = ToSet(w) \cup ToSet(more)
        BY <2>3, Concatenated, Elements
      <4>2. el \in Seq(1 .. NumVars) /\ ToSet(el) = Eliminated \cup ToSet(u)
        <5> HIDE DEF u
        <5> QED  BY <2>4, <4>1, Concatenated, Elements DEF Eliminated
      <4>3. q = Unwound(t, SUBSET Literal, p, Restore(el))  BY <2>12
      <4> HIDE DEF el, u
      <4>4. HaveValues(W, el, p)
        <5> SUFFICES ASSUME NEW v \in W
                     PROVE  LET r == Representative(v)
                            IN  Var(r) \in ToSet(el) \/ r \in p \/ -r \in p
          BY DEF HaveValues
        <5> DEFINE r == Representative(v)
        <5>1. r \in Literal /\ Var(r) \in 1 .. NumVars  BY <2>2, Literals DEF Replaceable
        <5> HIDE DEF r
        <5>2. {r, -r} = {Var(r), -Var(r)}
          <6> DEFINE k == Var(r)
          <6>1. k \in Literal /\ Var(k) = k /\ -k \in Literal /\ -(-k) = k
            <7>1. k \in 1 .. NumVars  BY <5>1
            <7> HIDE DEF k
            <7> QED  BY <7>1, LiteralsOf, Literals
          <6>2. k = Var(r)  OBVIOUS
          <6> HIDE DEF k
          <6>3. k = r \/ k = -r  BY <5>1, <6>1, <6>2, Literals
          <6>4. -(-r) = r  BY <5>1, Literals
          <6> QED  BY <6>2, <6>3, <6>4
        <5>3. Var(r) \in Eliminated' \/ Var(r) \in ToSet(more) \/ r \in p \/ -r \in p
          BY <3>1, <5>1, <5>2
        <5> QED  BY <2>11, <4>1, <4>2, <5>3 DEF r
      <4>5. \A l \in p : Var(l) \notin W  BY <2>3, <2>11, <3>1
      <4> HIDE DEF W
      <4>6. \A v \in ToSet(w) : Agree(v, Representative(v), q)
        <5>1. q = Unwound(FlattenSeq(EquivalenceEntries(w, P)), SUBSET Literal, p, Restore(el))
          BY <4>3 DEF t
        <5>2. p \in SUBSET Literal  BY <3>1
        <5> QED  BY ONLY <2>2, <2>3, <2>9, <3>1, <3>3, <4>2, <4>4, <4>5, <5>1, <5>2,
                        EquivalencesAgree
      <4> QED  BY <2>3, <4>6
    <3>5. ASSUME NEW b \in Assignment, q \subseteq b PROVE b \in Left
      <4>1. /\ Consistent(fixed) /\ fixed \subseteq b
            /\ \A c \in irr : c \cap b # {}
        <5>1. b \in Left'  BY <3>1, <3>2, <3>5
        <5>2. fixed \subseteq b /\ \A c \in irr : c \cap b # {}  BY <2>5, <2>7, <2>12, <5>1
        <5> QED  BY <5>1, <5>2, PartConsistent
      <4>2. Tidy  BY <1>2, <4>1
      <4>3. \A v \in W : Agree(v, Representative(v), b)  BY <3>4, <3>5 DEF Agree
      <4>4. W = {v \in 1 .. NumVars : Active(v) /\ Representative(v) # v}  OBVIOUS
      <4> HIDE DEF W
      <4>5. \A c \in irredundant : c \cap b # {}
        <5>1. AtRoot  BY <1>1
        <5>2. \A l \in FailedRoots : -l \notin Reached(l) \/ l \notin Reached(-l)  BY <1>6
        <5>3. \A c \in Substituted(irredundant) : c \cap b # {}  BY <4>1 DEF irr
        <5>4. b \in Assignment  BY <3>5
        <5> QED
          BY ONLY <2>1, <4>2, <4>3, <4>4, <5>1, <5>2, <5>3, <5>4, SubstitutedBack
      <4> QED  BY <4>1, <4>5 DEF Left, Satisfies
    <3> QED  BY <3>2, <3>5
  <2> HIDE DEF W
  <2>13. ASSUME ok' PROVE Rebuilds'
    <3>1. Rebuilds  BY <1>1 DEF RecInv, Rebuilt
    <3>2. \A more \in Seq(1 .. NumVars) : \A p \in SUBSET Literal :
             Partial(p, more)' =>
               Partial(Unwound(t, SUBSET Literal, p, Restore(eliminated \o (w \o more))), w \o more)
      BY <2>12, <2>13
    <3>3. \A i \in 1 .. Len(t) : t[i] \in Entries  BY <2>8
    <3> QED  BY <1>1, <2>3, <2>4, <2>8, <2>9, <3>1, <3>2, StackGrows
  <2>14. LoadInv'  BY <1>1 DEF LoadInv
  <2>15. ok' => Rebuilt'  BY <1>1, <2>13 DEF Rebuilt
  <2> QED  BY <1>1, <2>6, <2>10, <2>14, <2>15 DEF RecInv
<1> QED  BY <1>3, <1>4, <1>5, <1>6

-----------------------------------------------------------------------------
(* All steps                                                               *)

\* Nothing changes.
LEMMA StutterRec == ASSUME RecInv, Ready \/ UNCHANGED vars PROVE RecInv'
<1>1. /\ UNCHANGED <<solver, formula, loaded, irredundant, redundant, fixed>>
      /\ UNCHANGED <<eliminated, extension, ok, last, xorsFound, round, pc>>
  BY DEF Ready, vars, inputVars, clauseVars, stackVars, phaseVars
<1>2. OutInv'  BY StepOut, RecKnown DEF Ready
<1>3. Left' = Left  BY <1>1 DEF Left
<1>4. TidyInv' <=> TidyInv
  <2>1. Tidy' <=> Tidy  BY <1>1 DEF Tidy
  <2> QED  BY <1>1, <2>1 DEF TidyInv
<1>5. LoadInv => LoadInv'  BY <1>1, <1>3 DEF LoadInv
<1>6. Rebuilt => Rebuilt'  BY <1>1, <1>3, RebuiltStays
<1>7. ok => TidyInv /\ LoadInv /\ (pc # "load" => Rebuilt)  BY DEF RecInv
<1>8. ok' => TidyInv' /\ LoadInv' /\ (pc' # "load" => Rebuilt')
  BY <1>1, <1>4, <1>5, <1>6, <1>7
<1>9. /\ extension' \in Seq(Entries)
      /\ pc' = "load" => eliminated' = << >> /\ extension' = << >>
  BY <1>1 DEF RecInv
<1> QED  BY <1>2, <1>8, <1>9 DEF RecInv

\* A step of any kind keeps the invariant, if Gaussian elimination takes no fixed
\* literal back.
LEMMA StepRec ==
  ASSUME RecInv, [Next]_vars, (FirstGaussElim \/ SecondChance) => (ok' => fixed \subseteq fixed')
  PROVE  RecInv'
<1>0. OutInv'  BY StepOut, RecKnown
<1>1. CASE AddClause \/ FinishLoading
  BY <1>0, <1>1, AddClauseRec, FinishLoadingRec
<1>2. CASE PreprocessingNext
  <2>1. CASE FirstGaussElim \/ SecondChance  BY <1>0, <2>1, GaussRec
  <2>2. CASE BackwardSubsume  BY <1>0, <2>2, SubsumeRec
  <2>3. CASE EndSubsumption \/ EndElimination  BY <1>0, <2>3, RemovalRec
  <2>4. CASE StrengthenClause  BY <1>0, <2>4, StrengthenRec
  <2>5. CASE \E v \in 1 .. NumVars : EliminateVar(v)  BY <1>0, <2>5, EliminateVarRec
  <2> QED  BY <1>2, <2>1, <2>2, <2>3, <2>4, <2>5 DEF PreprocessingNext
<1>3. CASE KissatNext
  <2>1. CASE \E v \in 1 .. NumVars : Eliminate(v)  BY <1>0, <2>1, EliminateRec
  <2>2. CASE \/ \E lit \in Literal : \/ LearnDefinedUnit(lit) \/ ResolveBinaries(lit)
                                     \/ FailedLiteral(lit) \/ Backbone(lit)
             \/ \E v \in 1 .. NumVars : LearnUnitResolvent(v)
    BY <1>0, <2>2, LearnRec
  <2>3. CASE Subsume  BY <1>0, <2>3, SubsumeRec
  <2>4. CASE VivifyRemove  BY <1>0, <2>4, VivifyRemoveRec
  <2>5. CASE TransitiveReduce  BY <1>0, <2>5, TransitiveReduceRec
  <2>6. CASE Strengthen  BY <1>0, <2>6, StrengthenRec
  <2>7. CASE SubstituteRound  BY <1>0, <2>7, SubstituteRoundRec
  <2>8. CASE ResolveTernary  BY <1>0, <2>8, ResolveTernaryRec
  <2>9. CASE VivifyShorten  BY <1>0, <2>9, VivifyShortenRec
  <2>10. CASE \E dom, lit \in Literal : HyperBinary(dom, lit)
    BY <1>0, <2>10, RedundantRec
  <2>11. CASE Autarky  BY <1>0, <2>11, AutarkyRec
  <2> QED
    BY <1>3, <2>1, <2>2, <2>3, <2>4, <2>5, <2>6, <2>7, <2>8, <2>9, <2>10, <2>11
    DEF KissatNext
<1>4. CASE \E c \in Arriving : Implies(Input, c) /\
             (AddImportedClause(c) \/ IgnoreImportedClause(c))
  <2>1. PICK c \in Arriving : AddImportedClause(c) \/ IgnoreImportedClause(c)  BY <1>4
  <2>2. CASE AddImportedClause(c)  BY <1>0, <2>2, RedundantRec
  <2>3. CASE IgnoreImportedClause(c)  BY <1>0, <2>3, RemovalRec
  <2> QED  BY <2>1, <2>2, <2>3
<1>5. CASE Reduce  BY <1>0, <1>5, RemovalRec
<1>6. CASE Ready \/ UNCHANGED vars  BY <1>6, StutterRec
<1> QED  BY <1>1, <1>2, <1>3, <1>4, <1>5, <1>6 DEF Next

\* What the invariant says of the models that are printed.
LEMMA ReconstructedIs == ASSUME RecInv PROVE ModelIsReconstructed
<1> SUFFICES ASSUME ok, pc # "load", NEW a \in Assignment,
                    fixed \subseteq a, Satisfies(a, irredundant)
             PROVE  Satisfies(Model(a), Input)
  BY DEF ModelIsReconstructed
<1>1. a \in Left  BY DEF Left
<1>2. Rebuilt  BY DEF RecInv
<1>3. CASE solver # "Kissat"
  <2>1. Satisfies(ExtendedModel(extension, a), Input)  BY <1>1, <1>2, <1>3 DEF Rebuilt
  <2> QED  BY <1>3, <2>1 DEF Model
<1>4. CASE solver = "Kissat"
  <2> DEFINE p == {l \in a : Var(l) \notin Eliminated}
  <2>1. /\ irredundant \in SUBSET Proper /\ fixed \in SUBSET Literal
        /\ eliminated \in Seq(1 .. NumVars)
        /\ Out(irredundant, Eliminated) /\ Out({fixed}, Eliminated)
    BY <1>4, RecKnown, OutKnown
  <2>2. p \in SUBSET Literal /\ p \subseteq a  BY Values
  <2>3. Consistent(p)
    <3> HIDE DEF p
    <3> QED  BY <2>2, Values DEF Consistent
  <2>4. ASSUME NEW v \in 1 .. NumVars PROVE v \in Eliminated \/ v \in p \/ -v \in p
    <3>1. v \in Literal /\ -v \in Literal /\ Var(v) = v /\ Var(-v) = v  BY LiteralsOf
    <3>2. v \in a \/ -v \in a  BY <3>1, Values
    <3> QED  BY <3>1, <3>2
  <2>5. ASSUME NEW b \in Assignment, p \subseteq b PROVE b \in Left
    <3>1. fixed \subseteq b  BY <2>1, <2>5 DEF Out
    <3>2. ASSUME NEW c \in irredundant PROVE c \cap b # {}
      <4>1. PICK l \in c : l \in a  BY DEF Satisfies
      <4>2. l \in p  BY <2>1, <4>1 DEF Out
      <4> QED  BY <2>5, <4>1, <4>2
    <3> QED  BY <3>1, <3>2 DEF Left, Satisfies
  <2>6. Partial(p, << >>)
    <3>1. \A l \in p : Var(l) \notin Eliminated  OBVIOUS
    <3> HIDE DEF p
    <3> QED  BY <2>2, <2>3, <2>4, <2>5, <3>1 DEF Partial
  <2>7. eliminated \o << >> = eliminated /\ << >> \in Seq(1 .. NumVars)  BY <2>1
  <2>8. Rebuilds  BY <1>2, <1>4 DEF Rebuilt
  <2>9. Satisfies(Extended(extension, eliminated \o << >>, p), Input)
    <3> HIDE DEF p
    <3> QED  BY <2>2, <2>6, <2>7, <2>8 DEF Rebuilds
  <2>10. Model(a) = Extended(extension, eliminated, p)  BY <1>4 DEF Model
  <2> HIDE DEF p
  <2> QED  BY <2>7, <2>9, <2>10
<1> QED  BY <1>3, <1>4

\* ModelIsReconstructed, for formulas of any size and any number of variables, if a value
\* is never overwritten with the other one, as uncheckedEnqueue asserts.
THEOREM ModelsReconstructed ==
  Spec /\ [][ok' => fixed \subseteq fixed']_vars => []ModelIsReconstructed
<1>1. Init => RecInv  BY InitRec
<1>2. RecInv /\ [Next]_vars /\ [ok' => fixed \subseteq fixed']_vars => RecInv'
  <2> SUFFICES ASSUME RecInv, [Next]_vars, [ok' => fixed \subseteq fixed']_vars
               PROVE  RecInv'
    OBVIOUS
  <2>1. CASE UNCHANGED vars  BY <2>1, StutterRec
  <2>2. CASE ok' => fixed \subseteq fixed'  BY <2>2, StepRec
  <2> QED  BY <2>1, <2>2
<1>3. RecInv => ModelIsReconstructed  BY ReconstructedIs
<1> QED  BY <1>1, <1>2, <1>3, PTL DEF Spec

\* The solvers without Gaussian elimination.
WithoutGauss == solver # "MapleCOMSPS" => RecInv /\ pc \notin {"gauss", "chance"}

\* Only MapleCOMSPS comes to Gaussian elimination.
LEMMA PhasesOut ==
  ASSUME [Next]_vars
  PROVE  /\ solver' = solver
         /\ solver # "MapleCOMSPS" /\ pc \notin {"gauss", "chance"} =>
              pc' \notin {"gauss", "chance"} /\ ~FirstGaussElim /\ ~SecondChance
<1>1. pc \notin {"gauss", "chance"} => ~FirstGaussElim /\ ~SecondChance
  BY DEF FirstGaussElim, SecondChance
<1>2. CASE AddClause \/ FinishLoading
  BY <1>1, <1>2 DEF AddClause, FinishLoading, inputVars, phaseVars
<1>3. CASE PreprocessingNext
  <2>1. CASE BackwardSubsume \/ StrengthenClause \/ EndSubsumption \/ EndElimination
    BY <1>1, <2>1 DEF BackwardSubsume, StrengthenClause, EndSubsumption, EndElimination,
                      inputVars, phaseVars
  <2>2. CASE \E v \in 1 .. NumVars : EliminateVar(v)
    BY <1>1, <2>2 DEF EliminateVar, inputVars
  <2>3. CASE FirstGaussElim \/ SecondChance
    BY <1>1, <2>3 DEF FirstGaussElim, SecondChance, inputVars
  <2> QED  BY <1>3, <2>1, <2>2, <2>3 DEF PreprocessingNext
<1>4. CASE KissatNext
  <2>1. UNCHANGED <<inputVars, phaseVars>>
    <3>1. CASE \E v \in 1 .. NumVars : Eliminate(v) \/ LearnUnitResolvent(v)
      BY <3>1 DEF Eliminate, LearnUnitResolvent
    <3>2. CASE \E lit \in Literal : \/ LearnDefinedUnit(lit) \/ ResolveBinaries(lit)
                                    \/ FailedLiteral(lit) \/ Backbone(lit)
      BY <3>2 DEF LearnDefinedUnit, ResolveBinaries, FailedLiteral, Backbone
    <3>3. CASE Subsume \/ VivifyRemove \/ TransitiveReduce \/ Strengthen
      BY <3>3 DEF Subsume, VivifyRemove, TransitiveReduce, Strengthen
    <3>4. CASE SubstituteRound  BY <3>4 DEF SubstituteRound
    <3>5. CASE ResolveTernary  BY <3>5 DEF ResolveTernary
    <3>6. CASE VivifyShorten  BY <3>6 DEF VivifyShorten
    <3>7. CASE \E dom, lit \in Literal : HyperBinary(dom, lit)  BY <3>7 DEF HyperBinary
    <3>8. CASE Autarky  BY <3>8 DEF Autarky
    <3> QED  BY <1>4, <3>1, <3>2, <3>3, <3>4, <3>5, <3>6, <3>7, <3>8 DEF KissatNext
  <2> QED  BY <1>1, <2>1 DEF inputVars, phaseVars
<1>5. CASE \E c \in Arriving : Implies(Input, c) /\
             (AddImportedClause(c) \/ IgnoreImportedClause(c))
  BY <1>1, <1>5 DEF AddImportedClause, IgnoreImportedClause, inputVars, phaseVars
<1>6. CASE Reduce \/ Ready \/ UNCHANGED vars
  BY <1>1, <1>6 DEF Reduce, Ready, vars, inputVars, phaseVars
<1> QED  BY <1>2, <1>3, <1>4, <1>5, <1>6 DEF Next

\* ModelIsReconstructed for MiniSat, Glucose and Kissat, without any condition.
THEOREM ModelsReconstructedWithoutGauss ==
  Spec => [](solver # "MapleCOMSPS" => ModelIsReconstructed)
<1>1. Init => WithoutGauss  BY InitRec DEF WithoutGauss, Init
<1>2. WithoutGauss /\ [Next]_vars => WithoutGauss'
  <2> SUFFICES ASSUME WithoutGauss, [Next]_vars, solver' # "MapleCOMSPS"
               PROVE  RecInv' /\ pc' \notin {"gauss", "chance"}
    BY DEF WithoutGauss
  <2>1. solver' = solver  BY PhasesOut
  <2>2. RecInv /\ solver # "MapleCOMSPS" /\ pc \notin {"gauss", "chance"}
    BY <2>1 DEF WithoutGauss
  <2>3. pc' \notin {"gauss", "chance"} /\ ~FirstGaussElim /\ ~SecondChance
    BY <2>2, PhasesOut
  <2> QED  BY <2>2, <2>3, StepRec
<1>3. WithoutGauss => (solver # "MapleCOMSPS" => ModelIsReconstructed)
  BY ReconstructedIs DEF WithoutGauss
<1> QED  BY <1>1, <1>2, <1>3, PTL DEF Spec
=============================================================================
