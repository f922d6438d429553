------------------------------- MODULE Extension -------------------------------
(***************************************************************************)
(* The extension stack of Kissat: the clauses that were given up when      *)
(* variables were eliminated, each with a witness, the literal that makes  *)
(* it true if nothing else does.  When the search has found values for the *)
(* remaining variables, the stack gives values to the others.              *)
(***************************************************************************)
EXTENDS Cnf, Sequences, SequencesExt

\* kissat_weaken_clause: a clause is pushed without its false literals.
Weakened(witness, c, false) ==
  [witness |-> witness, clause |-> {witness} \cup (c \ false)]

\* kissat_extend: the true literals of all variables, from those of the variables
\* that are left.  The stack is read from its end.  In a clause that is not true
\* yet the literal without a value whose variable was eliminated last is made true,
\* or the witness if this is the witness or all literals are false.
Extended(stack, eliminated, true) ==
  LET Position(lit) == CHOOSE i \in DOMAIN eliminated : eliminated[i] = Var(lit)
      after[n \in 0 .. Len(stack)] ==
        IF n = 0 THEN true
        ELSE LET lits == after[n - 1]
                 e == stack[Len(stack) - n + 1]
                 open == {l \in e.clause : Var(l) \in ToSet(eliminated)
                                           /\ {l, -l} \cap lits = {}}
                 free == {l \in open : \A k \in open : Position(k) <= Position(l)}
             IN  IF e.clause \cap lits # {} THEN lits
                 ELSE IF free \ {e.witness} # {} THEN lits \cup free
                 ELSE (lits \ {-e.witness}) \cup {e.witness}
  IN  after[Len(stack)]
================================================================================
