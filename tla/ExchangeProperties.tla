------------------------- MODULE ExchangeProperties -------------------------
(***************************************************************************)
(* What the period exchange promises.  The first group is about every run  *)
(* of the workers, the second about deterministic runs that no limit cuts  *)
(* short, the third about the queues and the adaptive period length.       *)
(***************************************************************************)
EXTENDS PeriodExchange

-----------------------------------------------------------------------------
(* Every run.                                                              *)

\* importClauses reads a set of clauses only once its owner has completed it:
\* no clause is added to the set while, or after, another thread reads it.
NoReadBeforeComplete ==
  \A t \in Thread :
    pc[t] = "copy" => completed[Target(t)][TargetPeriod(t)]

\* A thread blocked in waitAdditionCompleted waits for a set that its owner
\* has still to complete: the owner has neither returned from solve without
\* completing the set, nor has the wake-up for the set been given already.
NoOrphanWait ==
  \A t \in Thread :
    pc[t] = "blocked" => /\ pc[Target(t)] # "done"
                         /\ ~completed[Target(t)][TargetPeriod(t)]

\* Of the sets a thread has imported, those of thread u are of the first num periods,
\* one of each, in their order, and hold what they hold now.
TakenInOrder(sets, u, num, contents) ==
  LET From == {n \in DOMAIN sets : sets[n].src = u}
  IN  /\ {sets[n].prd : n \in From} = 0 .. num - 1
      /\ \A m, n \in From : m < n => sets[m].prd < sets[n].prd
      /\ \A n \in From : sets[n].content = contents[sets[n].prd]

\* Every thread takes the sets of every other thread in the order of their
\* periods, each of them once, none left out, and with all its clauses.
ExactlyOnceInOrder ==
  \A t, u \in Thread :
    t # u => TakenInOrder(imported[t], u, next_period[u][t], clauses[u])

\* The result of the run only improves: a proof or a model is never replaced
\* by UNKNOWN, nor by one found later, and the winner of a period only by a
\* thread with a smaller number.
ResultOnlyImproves ==
  [][sol_found /\ sharerVars' # sharerVars =>
       /\ final_result' = Answer
       /\ \/ winner_period' < winner_period
          \/ winner_period' = winner_period /\ winner_id' < winner_id
    ]_vars

\* Every thread returns from solve, so that the main thread, which joins them
\* all, can print the answer.
Termination == <>AllDone

-----------------------------------------------------------------------------
(* Deterministic runs without a memory or time limit.                      *)

\* How many periods of the others a thread that searches in period p knows.
KnownPeriods(p) == IF p < Margin THEN 0 ELSE p - Margin

\* The k-th set that thread t imports: period by period, and within a period
\* round the ring from the thread after t.  The thread that finds the answer
\* does not export the clauses of that period.
ExpectedImport(t, k) ==
  LET src == (t + 1 + ((k - 1) % (NumThreads - 1))) % NumThreads
      prd == (k - 1) \div (NumThreads - 1)
  IN  [src |-> src, prd |-> prd,
       content |-> IF fate[src] = prd THEN "none" ELSE "all"]

\* The clauses a thread has imported when it searches in a period depend on
\* the period and on the searches of the others, never on the scheduling.
ImportsAreDeterministic ==
  \A t \in Thread :
    pc[t] = "search" =>
      imported[t] = [k \in 1 .. KnownPeriods(periods[t]) * (NumThreads - 1) |->
                       ExpectedImport(t, k)]

\* The threads that find the answer in the first period in which one does.
FirstFinders ==
  {t \in Thread : /\ fate[t] # NoAnswer
                  /\ \A u \in Thread : fate[u] = NoAnswer \/ fate[t] <= fate[u]}

\* When all threads have returned, the winner is the thread with the smallest
\* number among those that find the answer first: not the first to report it.
WinnerIsFirst ==
  AllDone =>
    /\ final_result = Answer
    /\ winner_id \in FirstFinders
    /\ \A t \in FirstFinders : winner_id <= t
    /\ winner_period = fate[winner_id]

\* Whether a thread searches in a period does not depend on when the others
\* report: once it has entered the period, no result makes it stop there.
SearchNotCutShort ==
  \A t \in Thread : pc[t] = "search" => ~ShouldBeTerminated(periods[t])

\* A run ends soon: no thread gets more than Margin + 1 periods past the one
\* in which the answer was found.
OverrunBounded ==
  sol_found => \A t \in Thread : periods[t] <= winner_period + Margin + 1

\* No thread is more than Margin + 1 periods ahead of one that still solves.
PeriodsStayClose ==
  \A t, u \in Thread :
    solving[u] => periods[t] <= periods[u] + Margin + 1

\* To the searches, the queues are a barrier that is passed Margin periods late.
Barrier == INSTANCE DelayedBarrier WITH period <- periods, done <- completed

ImplementsDelayedBarrier == Barrier!Spec

-----------------------------------------------------------------------------
(* The queues and the adaptive period length.                              *)

\* The assertions of PrdClausesQueue::get: the set looked up is in the queue,
\* both for an importer and for the owner at the end of its importClauses.
QueueIndexInRange ==
  \A t \in Thread :
    /\ pc[t] = "wait" => /\ TargetPeriod(t) >= head[Target(t)]
                         /\ TargetPeriod(t) <= last[Target(t)]
    /\ pc[t] = "import" /\ Adaptive /\ periods[t] >= Margin =>
         /\ head[t] <= periods[t] - Margin
         /\ next_period[t][t] = periods[t] - Margin

\* A set leaves the queue only after all other threads have taken it.
RemovedAreTaken ==
  \A t, u \in Thread : u # t => head[t] <= next_period[t][u]

\* Threads that search in the same period have the same period length,
\* although each computes it on its own.
PeriodLengthsAgree ==
  \A t, u \in Thread :
    pc[t] = "search" /\ pc[u] = "search" /\ periods[t] = periods[u] =>
      mem_acc_lim[t] = mem_acc_lim[u]

\* With the adaptive strategy the queues stay short: sets leave them, and the
\* threads are too close to each other to leave many sets behind.
QueueStaysShort ==
  \A t \in Thread : pc[t] = "search" => last[t] - head[t] <= 2 * (Margin + 1)
=============================================================================
