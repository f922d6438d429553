-------------------------- MODULE MCPeriodExchange --------------------------
(***************************************************************************)
(* Values for the constants of PeriodExchange that a .cfg cannot write.    *)
(***************************************************************************)
EXTENDS ExchangeInvariant

CONSTANT LastFate  \* BOUND: the last period in which a thread may find the answer

\* Some thread finds the answer, the others may as well.
MCFates ==
  {f \in [Thread -> {NoAnswer} \cup 0 .. LastFate] :
     \E t \in Thread : f[t] # NoAnswer}

\* Thread 0 alone finds the answer.
MCLoneFinder == {[t \in Thread |-> IF t = 0 THEN LastFate ELSE NoAnswer]}

\* Thread 1 alone finds the answer.
MCSecondFinder == {[t \in Thread |-> IF t = 1 THEN LastFate ELSE NoAnswer]}
=============================================================================
