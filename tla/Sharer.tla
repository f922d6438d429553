------------------------------- MODULE Sharer -------------------------------
(***************************************************************************)
(* The part of class Sharer that decides the answer of the run: which      *)
(* thread won, in which period, and whether a thread has to stop.  Both    *)
(* operations run under mutexJobFinished, so each is one step.             *)
(***************************************************************************)
EXTENDS Options

VARIABLES
  sol_found,      \* some thread has returned from its search
  final_result,   \* "SAT", "UNSAT" or "UNKNOWN"
  winner_period,
  winner_id

sharerVars == <<sol_found, final_result, winner_period, winner_id>>

SATResult == {"SAT", "UNSAT", "UNKNOWN"}

SharerInit ==
  /\ sol_found = FALSE
  /\ final_result = "UNKNOWN"
  /\ winner_period = 0
  /\ winner_id = -1

SharerTypeOK ==
  /\ sol_found \in BOOLEAN
  /\ final_result \in SATResult
  /\ winner_period \in Nat
  /\ winner_id \in Thread \cup {-1}

-----------------------------------------------------------------------------

\* Mutant: of two results of one period, the first to be reported wins.
FoundBetterOneNoTieBreak(status, prd, thn) ==
  ~sol_found \/ (status # "UNKNOWN" /\ prd < winner_period)

\* Mutant: UNKNOWN may replace an answer.
FoundBetterOneAnyStatus(status, prd, thn) ==
  \/ ~sol_found
  \/ prd < winner_period
  \/ prd = winner_period /\ thn < winner_id

\* Mutant: a thread that gives up does not count as one that has finished.
FoundBetterOneAnswersOnly(status, prd, thn) ==
  /\ status # "UNKNOWN"
  /\ \/ ~sol_found
     \/ prd < winner_period
     \/ prd = winner_period /\ thn < winner_id

\* Mutant: the first result stays.
FoundBetterOneFirst(status, prd, thn) == ~sol_found

\* Does the result of thread thn in period prd replace the present one?
FoundBetterOne(status, prd, thn) ==
  \/ ~sol_found
  \/ status # "UNKNOWN" /\ prd < winner_period
  \/ status # "UNKNOWN" /\ prd = winner_period /\ thn < winner_id

IFinished(status, prd, thn) ==
  \/ /\ FoundBetterOne(status, prd, thn)
     /\ sol_found' = TRUE
     /\ winner_id' = thn
     /\ winner_period' = prd
     /\ final_result' = status
  \/ /\ ~FoundBetterOne(status, prd, thn)
     /\ UNCHANGED sharerVars

\* Mutant: the margin is one period shorter.
ShouldBeTerminatedEarly(prd) ==
  sol_found /\ (final_result = "UNKNOWN" \/ winner_period + Margin <= prd \/ NonDet)

\* Must a thread that has reached period prd stop?
ShouldBeTerminated(prd) ==
  /\ sol_found
  /\ \/ final_result = "UNKNOWN"
     \/ winner_period + Margin < prd
     \/ NonDet
=============================================================================
