------------------------------- MODULE Simplifier -------------------------------
(***************************************************************************)
(* One base solver at level 0: the formula is loaded, simplified, and used *)
(* together with the clauses of the other threads, which have simplified   *)
(* theirs differently.                                                     *)
(***************************************************************************)
EXTENDS Simplification, Preprocessing

\* The answer is UNSAT, or the search goes on with these clauses.
Ready == (~ok \/ pc = "search") /\ UNCHANGED vars

Next ==
  \/ AddClause \/ FinishLoading
  \/ PreprocessingNext
  \/ KissatNext
  \/ \E c \in Arriving : Implies(Input, c) /\
       (AddImportedClause(c) \/ IgnoreImportedClause(c))
  \/ Reduce
  \/ Ready

Spec == Init /\ [][Next]_vars

\* The model printed for the values the search has found.
Model(a) ==
  IF solver = "Kissat"
  THEN Extended(extension, eliminated, {l \in a : Var(l) \notin Eliminated})
  ELSE ExtendedModel(extension, a)

-----------------------------------------------------------------------------
(* Properties                                                              *)

\* All clauses, and the literals offered for export, follow from the formula, and
\* the answer UNSAT is right, whatever has been simplified here and not there.
ImportsAreSound ==
  /\ ~ok => \A a \in Assignment : ~Satisfies(a, Input)
  /\ ok => \A a \in Assignment :
             Satisfies(a, Input) =>
               Satisfies(a, irredundant \cup redundant) /\ fixed \subseteq a

\* The redundant clauses are not needed: whatever values the search finds for the
\* remaining variables, the extension stack makes a solution of the formula of
\* them, and leaves no clause to a variable without a value.
ModelIsReconstructed ==
  ok /\ pc # "load" =>
    \A a \in Assignment :
      fixed \subseteq a /\ Satisfies(a, irredundant) => Satisfies(Model(a), Input)

\* An imported clause without eliminated variables prunes the search: when all
\* of its literals but one are false, propagation makes the last one true, or
\* finds a conflict.
LastClausePrunes ==
  ok /\ (\A l \in last : Var(l) \notin Eliminated) =>
    \A l \in last :
      LET clauses == irredundant \cup redundant
          lits == Propagated(clauses, fixed \cup Complement(last \ {l}))
      IN  l \in lits \/ lits \cap Complement(lits) # {}

\* A variable that has been eliminated here does not come back, neither with the
\* clauses of threads that have not eliminated it nor with redundant clauses.  To
\* the MiniSat family it may, but not into the clauses a model must satisfy.
EliminatedStayOut ==
  \A lits \in irredundant \cup IF solver = "Kissat" THEN redundant \cup {fixed} ELSE {} :
    \A l \in lits : Var(l) \notin Eliminated
================================================================================
