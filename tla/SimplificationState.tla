--------------------------- MODULE SimplificationState ---------------------------
(***************************************************************************)
(* The clauses of a base solver at level 0, while it simplifies the        *)
(* formula: how they are loaded, and how the clauses of other threads are  *)
(* added to them.                                                          *)
(*                                                                         *)
(* Once the formula is loaded, units are propagated when they are learnt,  *)
(* and clauses are kept without false literals and dropped when they are   *)
(* true, as the code does at the latest before it uses them.               *)
(***************************************************************************)
EXTENDS Cnf, Sequences, SequencesExt, FiniteSets, FiniteSetsExt

CONSTANTS
  Solvers,        \* the solvers: "MiniSat", "Glucose", "MapleCOMSPS", "Kissat"
  InputFormulas,  \* for each solver the formulas, as sequences of clauses
  Arriving,       \* BOUND: the clauses that may come from other threads
  MaxRedundant    \* BOUND: redundant clauses at one time

ASSUME SimplificationAssumption ==
  /\ Solvers \subseteq {"MiniSat", "Glucose", "MapleCOMSPS", "Kissat"}
  /\ \A s \in Solvers : InputFormulas[s] \subseteq Seq(Clauses)
  /\ Arriving \subseteq Clauses
  /\ MaxRedundant \in Nat

VARIABLES
  solver,         \* which solver this is
  formula,        \* the input formula, a sequence of clauses
  loaded,         \* how many of them have been given to addClause_
  irredundant,    \* the clauses that stand for the formula
  redundant,      \* clauses that may be deleted at any time
  fixed,          \* the literals true at level 0, offered for export
  eliminated,     \* the variables eliminated so far, in this order
  extension,      \* solver->extend, elimclauses: the clauses given up
  ok,             \* FALSE: inconsistent, the answer is UNSAT
  last,           \* the imported clause just dealt with, {} if none was
  xorsFound,      \* in MapleCOMSPS: xors_found
  round,          \* in MapleCOMSPS: 1 after the second elimination of XORs
  pc              \* the part of the preprocessing; "search" is all that follows it

inputVars == <<solver, formula, loaded>>
clauseVars == <<irredundant, redundant, fixed>>
stackVars == <<eliminated, extension>>
phaseVars == <<xorsFound, round, pc>>
vars == <<inputVars, clauseVars, stackVars, ok, last, phaseVars>>

Input == ToSet(formula)
Eliminated == ToSet(eliminated)
FalseLits == Complement(fixed)
Active(lit) == Var(lit) \notin Eliminated /\ {lit, -lit} \cap fixed = {}

Init ==
  /\ solver \in Solvers
  /\ formula \in InputFormulas[solver]
  /\ loaded = 0
  /\ irredundant = {}
  /\ redundant = {}
  /\ fixed = {}
  /\ eliminated = << >>
  /\ extension = << >>
  /\ ok = TRUE
  /\ last = {}
  /\ xorsFound = FALSE
  /\ round = 0
  /\ pc = "load"

-----------------------------------------------------------------------------
(* Propagation                                                             *)

Falsified(cs, lits) == \E c \in cs : c \subseteq Complement(lits)

\* The literals that are alone in a clause once the false ones are removed.
Units(cs, lits) ==
  {l \in Literal : \E c \in cs : l \in c /\ c \ {l} \subseteq Complement(lits)}

\* All literals that follow by propagation.
Propagated(cs, lits) ==
  LET after[n \in 0 .. NumVars] ==
        IF n = 0 THEN lits
        ELSE LET before == after[n - 1] IN before \cup Units(cs, before)
  IN  after[NumVars]

Without(cs, vs) == {c \in cs : \A l \in c : Var(l) \notin vs}

\* Clauses without false literals and without those that are true.
Tidied(cs, lits) == {c \ Complement(lits) : c \in {d \in cs : d \cap lits = {}}}

\* The clauses and the true literals change; a conflict is the end.
Settle(irr, red, lits) ==
  LET cs == irr \cup red
      all == Propagated(cs, lits)
  IN  \/ /\ Falsified(cs, all)
         /\ irredundant' = irr /\ redundant' = red
         /\ ok' = FALSE /\ UNCHANGED fixed
      \/ /\ ~Falsified(cs, all)
         /\ fixed' = all
         /\ irredundant' = Tidied(irr, all)
         /\ redundant' = Tidied(red, all)
         /\ Cardinality(redundant') <= MaxRedundant
         /\ ok' = ok

Subsumed(c, cs) == \E d \in cs : d \subseteq c /\ d # c

\* The elements in some order; SetToSeq looks at all functions to find one.
InSomeOrder(cs) == FoldSet(LAMBDA c, seq : Append(seq, c), << >>, cs)

\* The variables in increasing order.
Increasing(vs) ==
  CHOOSE s \in [1 .. Cardinality(vs) -> vs] : \A i, j \in DOMAIN s : i < j => s[i] < s[j]

\* d without -l is part of c without l: l can be removed from c.
Removable(c, d) == {l \in c : -l \in d /\ d \ {-l} \subseteq c}

-----------------------------------------------------------------------------
(* Loading the formula                                                     *)

\* addClause_, kissat_add: a clause is added without its false literals, unless it is
\* true; a unit is propagated.  The clauses before it stay as they are.
AddClause ==
  LET clauses == irredundant \cup {formula[loaded + 1] \ FalseLits}
  IN  /\ pc = "load" /\ ok /\ loaded < Len(formula)
      /\ loaded' = loaded + 1
      /\ \/ /\ formula[loaded + 1] \cap fixed # {}
            /\ UNCHANGED <<irredundant, fixed, ok>>
         \/ /\ formula[loaded + 1] \cap fixed = {}
            /\ irredundant' = {c \in clauses : Cardinality(c) > 1}
            /\ fixed' = Propagated(clauses, fixed)
            /\ ok' = ~Falsified(clauses, fixed')
      /\ UNCHANGED <<solver, formula, redundant, stackVars, last, phaseVars>>

\* MapleCOMSPS looks at the clauses as they are, the others simplify them first.
FinishLoading ==
  /\ pc = "load" /\ ok /\ loaded = Len(formula)
  /\ \/ /\ solver = "MapleCOMSPS"
        /\ pc' = "gauss"
        /\ UNCHANGED <<clauseVars, ok>>
     \/ /\ solver # "MapleCOMSPS"
        /\ Settle(irredundant, redundant, fixed)
        /\ pc' = IF solver = "Kissat" THEN "search" ELSE "subsume"
  /\ UNCHANGED <<inputVars, stackVars, last, xorsFound, round>>

-----------------------------------------------------------------------------
(* The clauses of other threads                                            *)

\* Mutant: eliminated variables are not thought of.
UselessIfTrue(c) == \E l \in c : l \in fixed

\* Mutant: a clause with a false literal is dropped too.
UselessIfAssigned(c) == \E l \in c : ~Active(l)

\* Nothing is done with a clause that is true already.  Kissat can do nothing with one
\* in which a variable is eliminated; the MiniSat family does not ask.
Useless(c) ==
  \E l \in c : l \in fixed \/ (solver = "Kissat" /\ Var(l) \in Eliminated)

\* Mutant: only the literals of eliminated variables are left out.
AddWithoutEliminated(c) ==
  LET lits == {l \in c : Active(l)}
  IN  /\ pc = "search" /\ ok /\ c \cap fixed = {}
      /\ Settle(irredundant, redundant \cup {lits}, fixed)
      /\ last' = c
      /\ UNCHANGED <<inputVars, stackVars, phaseVars>>

\* What is left of the clause without its false literals: nothing is a conflict,
\* one literal is learnt, more are a new clause.
AddImportedClause(c) ==
  /\ pc = "search" /\ ok
  /\ ~Useless(c)
  /\ Settle(irredundant, redundant \cup {c}, fixed)
  /\ last' = c
  /\ UNCHANGED <<inputVars, stackVars, phaseVars>>

IgnoreImportedClause(c) ==
  /\ pc = "search" /\ ok
  /\ Useless(c)
  /\ last' = c
  /\ UNCHANGED <<inputVars, clauseVars, stackVars, ok, phaseVars>>

\* reduceDB, kissat_reduce: redundant clauses of little use are deleted.
Reduce ==
  /\ pc = "search" /\ ok
  /\ \E c \in redundant : redundant' = redundant \ {c}
  /\ last' = {}
  /\ UNCHANGED <<inputVars, irredundant, fixed, stackVars, ok, phaseVars>>

==================================================================================
