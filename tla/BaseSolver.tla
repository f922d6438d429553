------------------------------- MODULE BaseSolver -------------------------------
(***************************************************************************)
(* The search of one base solver, of the MiniSat family or Kissat.         *)
(***************************************************************************)
EXTENDS Search, KissatSearch

Next ==
  \/ AddClause \/ StartSearch \/ StartPropagation
  \/ \E c \in Arriving : ApplyImportedClause(c)
  \/ NextLiteral \/ EndPropagation
  \/ \E lit \in Searched : Decide(lit)
  \/ ModelFound \/ Done
  \/ solver # "Kissat" /\ MiniSatNext
  \/ solver = "Kissat" /\ KissatNext

Spec == Init /\ [][Next]_vars /\ WF_vars(Next)

\* Every search ends: restarts need a conflict, and what is imported and deleted is
\* bounded here.
SearchEnds == <>Ended
=================================================================================
