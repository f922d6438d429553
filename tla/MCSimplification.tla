---------------------------- MODULE MCSimplification ----------------------------
(***************************************************************************)
(* Formulas that every simplification finds something in.                  *)
(***************************************************************************)
EXTENDS Simplifier

Formulas ==
  {<< {1, 2, 3}, {1, 2, -3}, {-1, 4}, {-2, -4} >>,
   \* 4 is 2 if 1 is true and 3 otherwise
   << {4, -1, -2}, {-4, -1, 2}, {4, 1, -3}, {-4, 1, 3}, {2, 3} >>,
   \* 3 is the parity of 1 and 2
   << {1, 2, -3}, {1, -2, 3}, {-1, 2, 3}, {-1, -2, -3}, {3, 4, 1} >>,
   \* 1 is the conjunction of 2 and 3
   << {1, -2, -3}, {-1, 2}, {-1, 3}, {1, 4}, {-1, -4, 2} >>,
   \* 1 and 2 are equivalent
   << {1, -2}, {-1, 2}, {1, 3, 4}, {2, -3, 4} >>,
   \* 1 follows from two binary clauses
   << {1, 2}, {1, -2}, {-1, 3, 4}, {-3, -4} >>,
   \* ternary clauses with a binary resolvent
   << {1, 2, 3}, {1, 2, -3}, {-1, 2, 4}, {-2, 3} >>,
   \* no solution, by binary clauses alone
   << {1, 2}, {1, -2}, {-1, 3}, {-1, -3} >>,
   \* units that make clauses before and after them true or shorter
   << {1, 3}, {-2, 3, 4}, {2}, {2, 4}, {-2, 1, -4} >>,
   \* no solution, which the last clause shows
   << {1}, {-1, 2}, {-2} >>}

\* Clauses of three variables that are exclusive ors.
Ternary(vs, rhs) == InSomeOrder(ClausesOf(Xor(vs, rhs)))

XorFormulas ==
  {\* 3 and 4 are the same, and a unit comes late
   Ternary({1, 2, 3}, TRUE) \o Ternary({1, 2, 4}, TRUE),
   Ternary({1, 2, 3}, TRUE) \o Ternary({1, 2, 4}, TRUE) \o << {1} >>,
   \* 4 is true
   Ternary({1, 2, 3}, FALSE) \o Ternary({1, 2, 3, 4}, TRUE),
   \* no solution
   Ternary({1, 2, 3}, TRUE) \o Ternary({1, 2, 3}, FALSE),
   \* 1 + 2 + 3 and 1 + 2 + 4 only show after strengthening
   << {1, -2, -3}, {-1, 2, -3}, {-1, -2, 3}, {1, 2, 4}, {1, -2, -4}, {-1, 2, -4},
      {1, 2, 3, -4}, {-1, -2, -3, 4} >>}

MCFormulas ==
  [s \in Solvers |-> Formulas \cup IF s = "MapleCOMSPS" THEN XorFormulas ELSE {}]

MCArriving == {{1, 2}, {1}, {2, 3, 4}, {2, 3, -4}, {-1, -4}}
================================================================================
