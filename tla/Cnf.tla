---------------------------------- MODULE Cnf ----------------------------------
(***************************************************************************)
(* Literals, clauses and assignments, as the base solvers and the solver   *)
(* wrappers have them.  A literal is a number other than 0, its complement *)
(* the negative of it; a clause is the set of its literals.                *)
(***************************************************************************)
EXTENDS Integers

CONSTANT NumVars        \* the variables of the formula are 1 .. NumVars

ASSUME NumVarsAssumption == NumVars \in Nat \ {0}

Var(lit) == IF lit < 0 THEN -lit ELSE lit
Literal == (-NumVars .. NumVars) \ {0}
Clauses == {c \in SUBSET Literal : c # {} /\ \A l \in c : -l \notin c}
Complement(lits) == {-l : l \in lits}

\* The assignments to all variables, as the sets of their true literals.
Assignment == {a \in SUBSET Literal : \A l \in Literal : l \in a <=> -l \notin a}
Satisfies(a, cs) == \A c \in cs : c \cap a # {}
Implies(cs, c) == \A a \in Assignment : Satisfies(a, cs) => c \cap a # {}
================================================================================
