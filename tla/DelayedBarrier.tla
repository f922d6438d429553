--------------------------- MODULE DelayedBarrier ---------------------------
(***************************************************************************)
(* What the exchange of clauses promises to the searches, without queues,  *)
(* locks or waiting: a barrier that the threads may pass Margin periods    *)
(* late.  A thread leaves period p only when it has completed p itself and *)
(* every thread has completed period p - Margin; what a thread has         *)
(* completed stays completed.                                              *)
(***************************************************************************)
EXTENDS Integers

CONSTANTS Thread, Period, Margin

VARIABLES
  period,  \* the period each thread is in
  done     \* done[t][p]: thread t has completed period p

barrierVars == <<period, done>>

Init ==
  /\ period = [t \in Thread |-> 0]
  /\ done = [t \in Thread |-> [p \in Period |-> FALSE]]

CompletePeriod(t) ==
  /\ ~done[t][period[t]]
  /\ done' = [done EXCEPT ![t][period[t]] = TRUE]
  /\ UNCHANGED period

LeavePeriod(t) ==
  /\ done[t][period[t]]
  /\ period[t] >= Margin => \A u \in Thread : done[u][period[t] - Margin]
  /\ period' = [period EXCEPT ![t] = @ + 1]
  /\ UNCHANGED done

Next == \E t \in Thread : CompletePeriod(t) \/ LeavePeriod(t)

Spec == Init /\ [][Next]_barrierVars
=============================================================================
