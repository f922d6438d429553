-------------------------------- MODULE MCSearch --------------------------------
(***************************************************************************)
(* Formulas that lead the search into its cases: clauses of three and four *)
(* literals, learnt clauses that can be made shorter, formulas without a   *)
(* solution, a learnt clause of three literals that is a reason and that   *)
(* shrinking must leave as it is, clauses with a literal true or false, or *)
(* none left, when they come, a unit clause that is learnt at a level      *)
(* above 0 and makes others true.  Kissat gets one more, where a reason is *)
(* strengthened.                                                           *)
(***************************************************************************)
EXTENDS BaseSolver

Formulas ==
  {<< {-1, 2}, {-1, -2, -3, 4}, {-1, -2, -3, -4} >>,
   << {1, 2}, {1, -2, 3}, {1, -3}, {-1, 4}, {-1, -4, 2}, {-2, -4} >>,
   << {1, 2, 3}, {1, 2, -3}, {1, -2, 4}, {-1, 3, 4}, {-1, -4} >>,
   << {-1}, {1, 2, 3}, {1, -3, 4}, {-1, 3} >>,
   << {1}, {-1, 2}, {-2} >>,
   << {1}, {3}, {2, 4}, {2, -4}, {-2, 4}, {-2, -4} >>,
   << {1, 4}, {2, 3}, {2, -3}, {-2, 3}, {-2, -3} >>,
   << {1, 4}, {2, 3}, {2, -3} >>,
   << {-1, -2, 3}, {-2, -4, 5}, {-3, -4, -5} >>}

MCFormulas ==
  [s \in Solvers |->
     Formulas \cup IF s # "Kissat" THEN {}
                   ELSE {<< {1, 2, 3, 4}, {1, 3, -4} >>}]

MCArriving == {{-1, -3}, {1, 2, -3}}
=================================================================================
