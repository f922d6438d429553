--------------------------- MODULE SpuriousWakeups ---------------------------
(***************************************************************************)
(* PeriodExchange on a system whose pthread_cond_wait may return without a *)
(* broadcast, as POSIX allows.                                             *)
(***************************************************************************)
EXTENDS MCPeriodExchange

\* waitAdditionCompleted does not look at completed again when it wakes up.
SpuriousWakeup(t) ==
  /\ pc[t] = "blocked"
  /\ Goto(t, "copy")
  /\ UNCHANGED <<fate, solving, i, expired, solverVars, queueVars, sharerVars>>

SpuriousSpec == Init /\ [][Next \/ \E t \in Thread : SpuriousWakeup(t)]_vars
==============================================================================
