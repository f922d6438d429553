--------------------------- MODULE PeriodExchange ---------------------------
(***************************************************************************)
(* The worker threads of DPS: the search of a base solver cut into periods *)
(* (AbstDetSeqSolver::checkPeriod), the delayed exchange of clauses        *)
(* between periods, and the end of the run (the wrappers' solve).          *)
(*                                                                         *)
(* One step is what runs between two synchronisations: a critical section, *)
(* or code that reads and writes only what the thread owns.  The search    *)
(* itself is an oracle: fate[t] is the period in which the search of t     *)
(* finds the answer, or NoAnswer.                                          *)
(***************************************************************************)
EXTENDS PrdClausesQueue, Sharer, Sequences

CONSTANTS
  Answer,          \* "SAT" or "UNSAT": the status of the input formula
  Fates,           \* the oracles to consider
  PrdLens,         \* period lengths a thread may propose
  Kissat           \* is the base solver Kissat, or one of the MiniSat family?

NoAnswer == -1

ASSUME ExchangeAssumption ==
  /\ Answer \in {"SAT", "UNSAT"}
  /\ Fates \subseteq [Thread -> Nat \cup {NoAnswer}]
  /\ PrdLens \subseteq Nat
  /\ Kissat \in BOOLEAN

VARIABLES
  pc,                \* where each thread is
  fate,              \* the oracle; never changes
  solving,           \* the base solver has not returned
  periods,           \* AbstDetSeqSolver::periods
  i,                 \* loop index of importClauses
  imported,          \* all clause sets imported so far, in order
  sum_prd_len_cand,  \* local variable of importClauses
  mem_acc_lim,       \* length of the current period
  next_mem_acc_lim,  \* length of the next period
  expired            \* how many threads have passed their time limit

solverVars == <<periods, imported, sum_prd_len_cand, mem_acc_lim,
                next_mem_acc_lim>>
vars == <<pc, fate, solving, i, expired, solverVars, queueVars, sharerVars>>

Batch == [src : Thread, prd : Period, content : {"none", "some", "all"}]

Importing == {"import", "wait", "blocked", "copy"}
PC == {"search", "export", "push", "complete", "remove", "check", "restart",
       "stop", "done"} \cup Importing

Init ==
  /\ QueueInit
  /\ SharerInit
  /\ pc = [t \in Thread |-> "search"]
  /\ fate \in Fates
  /\ solving = [t \in Thread |-> TRUE]
  /\ periods = [t \in Thread |-> 0]
  /\ i = [t \in Thread |-> 1]
  /\ imported = [t \in Thread |-> <<>>]
  /\ sum_prd_len_cand = [t \in Thread |-> 0]
  /\ mem_acc_lim = [t \in Thread |-> MemAccLim]
  /\ next_mem_acc_lim = [t \in Thread |-> MemAccLim]
  /\ expired = 0

TypeOK ==
  /\ QueueTypeOK
  /\ SharerTypeOK
  /\ pc \in [Thread -> PC]
  /\ fate \in [Thread -> Nat \cup {NoAnswer}]
  /\ solving \in [Thread -> BOOLEAN]
  /\ periods \in [Thread -> 0 .. MaxPeriod]
  /\ i \in [Thread -> 1 .. NumThreads]
  /\ imported \in [Thread -> Seq(Batch)]
  /\ sum_prd_len_cand \in [Thread -> Nat]
  /\ mem_acc_lim \in [Thread -> Nat]
  /\ next_mem_acc_lim \in [Thread -> Nat]
  /\ expired \in 0 .. NumThreads

Goto(t, label) == pc' = [pc EXCEPT ![t] = label]

-----------------------------------------------------------------------------
(* The thread the loop of importClauses is at, and its read-write lock.    *)

Target(t) == (t + i[t]) % NumThreads

WriteLocked(u) == pc[u] \in {"complete", "remove"}

\* The set the loop is at: get returns the one of period next_period.
TargetPeriod(t) == next_period[Target(t)][t]

-----------------------------------------------------------------------------
(* checkPeriod, up to the completion of the period.                        *)

\* The search has used up its memory accesses before it found the answer.
\* BOUND: not in period MaxPeriod.
BeginExport(t) ==
  /\ pc[t] = "search"
  /\ fate[t] # periods[t]
  /\ periods[t] < MaxPeriod
  /\ AddClauses(t, "some")
  /\ Goto(t, "export")
  /\ UNCHANGED <<fate, solving, i, expired, solverVars, sharerVars>>

EndExport(t) ==
  /\ pc[t] = "export"
  /\ AddClauses(t, "all")
  /\ Goto(t, "push")
  /\ UNCHANGED <<fate, solving, i, expired, solverVars, sharerVars>>

Push(t) ==
  /\ pc[t] = "push"
  /\ PushNext(t)
  /\ Goto(t, "complete")
  /\ UNCHANGED <<fate, solving, i, expired, solverVars, sharerVars>>

\* pthread_cond_broadcast: a waiter for this set goes on, without looking
\* at completed again.
Waiters(t) ==
  {u \in Thread : /\ pc[u] = "blocked"
                  /\ Target(u) = t
                  /\ TargetPeriod(u) = last[t] - 1}

\* getNewPeriodLength: without the adaptive strategy the length is kept.
NewPeriodLengths(t) == IF Adaptive THEN PrdLens ELSE {mem_acc_lim[t]}

\* Mutant: without pthread_cond_broadcast.
CompleteSilently(t) ==
  /\ pc[t] = "complete"
  /\ \E len \in NewPeriodLengths(t) : CompleteAddition(t, len)
  /\ Goto(t, "remove")
  /\ UNCHANGED <<fate, solving, i, expired, solverVars, sharerVars>>

Complete(t) ==
  /\ pc[t] = "complete"
  /\ \E len \in NewPeriodLengths(t) : CompleteAddition(t, len)
  /\ pc' = [u \in Thread |-> IF u = t THEN "remove"
                             ELSE IF u \in Waiters(t) THEN "copy"
                             ELSE pc[u]]
  /\ UNCHANGED <<fate, solving, i, expired, solverVars, sharerVars>>

\* Mutant: the loop of importClauses starts with the thread itself.
RemoveSetsFromZero(t) ==
  /\ pc[t] = "remove"
  /\ RemoveExported(t)
  /\ Goto(t, IF solving[t] THEN "import" ELSE "done")
  /\ i' = [i EXCEPT ![t] = 0]
  /\ sum_prd_len_cand' = [sum_prd_len_cand EXCEPT ![t] = 0]
  /\ UNCHANGED <<fate, solving, expired, periods, imported, mem_acc_lim,
                 next_mem_acc_lim, sharerVars>>

\* The thread unlocks its queue and imports, or leaves if it has finished.
RemoveSets(t) ==
  /\ pc[t] = "remove"
  /\ RemoveExported(t)
  /\ Goto(t, IF solving[t] THEN "import" ELSE "done")
  /\ i' = [i EXCEPT ![t] = 1]
  /\ sum_prd_len_cand' = [sum_prd_len_cand EXCEPT ![t] = 0]
  /\ UNCHANGED <<fate, solving, expired, periods, imported, mem_acc_lim,
                 next_mem_acc_lim, sharerVars>>

-----------------------------------------------------------------------------
(* importClauses                                                           *)

\* queue.get(thn, periods - margin) on the target; NULL ends the inner loop.
GetSet(t) ==
  /\ pc[t] = "import"
  /\ periods[t] >= Margin
  /\ i[t] < NumThreads
  /\ ~WriteLocked(Target(t))
  /\ Available(Target(t), t, periods[t] - Margin)
  /\ Goto(t, "wait")
  /\ UNCHANGED <<fate, solving, i, expired, solverVars, queueVars, sharerVars>>

\* A set already taken is recognised before the lock is asked for.
NextTarget(t) ==
  /\ pc[t] = "import"
  /\ periods[t] >= Margin
  /\ i[t] < NumThreads
  /\ ~Available(Target(t), t, periods[t] - Margin)
  /\ TargetPeriod(t) <= periods[t] - Margin => ~WriteLocked(Target(t))
  /\ i' = [i EXCEPT ![t] = @ + 1]
  /\ UNCHANGED <<pc, fate, solving, expired, solverVars, queueVars, sharerVars>>

\* Mutant: a set is taken for complete when it is not the last of its queue.
CheckNotLast(t) ==
  /\ pc[t] = "wait"
  /\ Goto(t, IF TargetPeriod(t) < last[Target(t)] THEN "copy" ELSE "blocked")
  /\ UNCHANGED <<fate, solving, i, expired, solverVars, queueVars, sharerVars>>

\* Mutant: an incomplete set is skipped in every mode.
CheckNeverWaits(t) ==
  /\ pc[t] = "wait"
  /\ \/ completed[Target(t)][TargetPeriod(t)] /\ Goto(t, "copy") /\ UNCHANGED i
     \/ /\ ~completed[Target(t)][TargetPeriod(t)]
        /\ Goto(t, "import")
        /\ i' = [i EXCEPT ![t] = @ + 1]
  /\ UNCHANGED <<fate, solving, expired, solverVars, queueVars, sharerVars>>

\* Mutant: an incomplete set is read at once.
CheckNothing(t) ==
  /\ pc[t] = "wait"
  /\ Goto(t, "copy")
  /\ UNCHANGED <<fate, solving, i, expired, solverVars, queueVars, sharerVars>>

\* waitAdditionCompleted; isAdditionCompleted in non-deterministic mode.
CheckCompleted(t) ==
  /\ pc[t] = "wait"
  /\ \/ /\ completed[Target(t)][TargetPeriod(t)]
        /\ Goto(t, "copy")
        /\ UNCHANGED i
     \/ /\ ~completed[Target(t)][TargetPeriod(t)]
        /\ ~NonDet
        /\ Goto(t, "blocked")
        /\ UNCHANGED i
     \/ /\ ~completed[Target(t)][TargetPeriod(t)]
        /\ NonDet
        /\ Goto(t, "import")
        /\ i' = [i EXCEPT ![t] = @ + 1]
  /\ UNCHANGED <<fate, solving, expired, solverVars, queueVars, sharerVars>>

\* The clauses of the set go to the import vectors; completeExportation.
Copy(t) ==
  LET u == Target(t)
      p == TargetPeriod(t)
  IN  /\ pc[t] = "copy"
      /\ imported' = [imported EXCEPT ![t] =
           Append(@, [src |-> u, prd |-> p, content |-> clauses[u][p]])]
      /\ sum_prd_len_cand' = [sum_prd_len_cand EXCEPT ![t] = @ + prd_len[u][p]]
      /\ CompleteExportation(u, t)
      /\ Goto(t, "import")
      /\ UNCHANGED <<fate, solving, i, expired, periods, mem_acc_lim,
                     next_mem_acc_lim, sharerVars>>

\* The mean of the proposed lengths, kept between the two bounds.
Clip(len) ==
  LET above == IF AdptPrdLB # 0 /\ len < AdptPrdLB THEN AdptPrdLB ELSE len
  IN  IF AdptPrdUB # 0 /\ AdptPrdUB < above THEN AdptPrdUB ELSE above

\* Mutant: the mean of the proposals of the others only.
MeanOfOthers(t) == Clip(sum_prd_len_cand[t] \div NumThreads)

\* The thread adds its own proposal of that period.
MeanPeriodLength(t) ==
  Clip((sum_prd_len_cand[t] + prd_len[t][periods[t] - Margin]) \div NumThreads)

\* Mutant: the owner does not count itself among those that took its set.
EnterNextPeriodUncounted(t) ==
  /\ pc[t] = "import"
  /\ periods[t] >= Margin => i[t] = NumThreads
  /\ next_mem_acc_lim' =
       IF periods[t] >= Margin
       THEN [next_mem_acc_lim EXCEPT ![t] = MeanPeriodLength(t)]
       ELSE next_mem_acc_lim
  /\ periods' = [periods EXCEPT ![t] = @ + 1]
  /\ mem_acc_lim' = [mem_acc_lim EXCEPT ![t] = next_mem_acc_lim'[t]]
  /\ Goto(t, "check")
  /\ UNCHANGED <<fate, solving, i, expired, imported, sum_prd_len_cand,
                 queueVars, sharerVars>>

\* The end of importClauses, then moveToNextPeriod.
EnterNextPeriod(t) ==
  /\ pc[t] = "import"
  /\ \/ /\ periods[t] < Margin
        /\ UNCHANGED <<next_mem_acc_lim, queueVars>>
     \/ /\ periods[t] >= Margin
        /\ i[t] = NumThreads
        /\ ~Adaptive
        /\ next_mem_acc_lim' = [next_mem_acc_lim EXCEPT ![t] = mem_acc_lim[t]]
        /\ UNCHANGED queueVars
     \/ /\ periods[t] >= Margin
        /\ i[t] = NumThreads
        /\ Adaptive
        /\ next_mem_acc_lim' =
             [next_mem_acc_lim EXCEPT ![t] = MeanPeriodLength(t)]
        /\ CompleteExportation(t, t)
  /\ periods' = [periods EXCEPT ![t] = @ + 1]
  /\ mem_acc_lim' = [mem_acc_lim EXCEPT ![t] = next_mem_acc_lim'[t]]
  /\ Goto(t, "check")
  /\ UNCHANGED <<fate, solving, i, expired, imported, sum_prd_len_cand,
                 sharerVars>>

-----------------------------------------------------------------------------
(* Termination                                                             *)

\* What the two limits may say.  Memory use goes up and down; the clocks of
\* the threads were started in the order of their numbers and expire in it.
LimitReadings(t) ==
  {over_memory \/ t < expired :
     over_memory \in IF "memory" \in Limits THEN BOOLEAN ELSE {FALSE}}

\* AbstDetSeqSolver::shouldBeTerminated sends the thread to one of two labels.
TestTermination(t, yes, no) ==
  \E over_limit \in LimitReadings(t) :
    Goto(t, IF ShouldBeTerminated(periods[t]) \/ over_limit THEN yes ELSE no)

\* The end of checkPeriod.  Kissat remembers that it has been told to stop;
\* the others leave search() and ask again in the loop around it.
CheckTermination(t) ==
  /\ pc[t] = "check"
  /\ TestTermination(t, IF Kissat THEN "stop" ELSE "restart", "search")
  /\ UNCHANGED <<fate, solving, i, expired, solverVars, queueVars, sharerVars>>

\* That loop, which also turns at each restart of the search.
Restart(t) ==
  /\ ~Kissat
  /\ pc[t] \in {"search", "restart"}
  /\ TestTermination(t, "stop", "search")
  /\ UNCHANGED <<fate, solving, i, expired, solverVars, queueVars, sharerVars>>

\* Mutant: solve returns without completing the current period.
ReturnAtOnce(t, status) ==
  /\ IFinished(status, periods[t], t)
  /\ solving' = [solving EXCEPT ![t] = FALSE]
  /\ Goto(t, "done")
  /\ UNCHANGED <<fate, i, expired, solverVars, queueVars>>

\* The base solver returns status; solve reports it, then completes the
\* current period without exporting any clause.
Return(t, status) ==
  /\ IFinished(status, periods[t], t)
  /\ solving' = [solving EXCEPT ![t] = FALSE]
  /\ Goto(t, "push")
  /\ UNCHANGED <<fate, i, expired, solverVars, queueVars>>

Finish(t) ==
  /\ pc[t] = "search"
  /\ fate[t] = periods[t]
  /\ Return(t, Answer)

\* A solver told to stop returns UNKNOWN.  Kissat may be told so inside a
\* procedure that goes on and still finds the answer.
Stop(t) ==
  /\ pc[t] = "stop"
  /\ \E status \in {"UNKNOWN"} \cup (IF Kissat THEN {Answer} ELSE {}) :
       Return(t, status)

\* The time limit of one more thread passes.
Tick ==
  /\ "time" \in Limits
  /\ expired < NumThreads
  /\ expired' = expired + 1
  /\ UNCHANGED <<pc, fate, solving, i, solverVars, queueVars, sharerVars>>

-----------------------------------------------------------------------------

ThreadStep(t) ==
  \/ BeginExport(t) \/ EndExport(t)
  \/ Push(t) \/ Complete(t) \/ RemoveSets(t)
  \/ GetSet(t) \/ NextTarget(t) \/ CheckCompleted(t) \/ Copy(t)
  \/ EnterNextPeriod(t)
  \/ CheckTermination(t) \/ Restart(t)
  \/ Finish(t) \/ Stop(t)

AllDone == \A t \in Thread : pc[t] = "done"

\* The main thread has joined all threads; nothing is left to do.
Terminating == AllDone /\ UNCHANGED vars

Next == (\E t \in Thread : ThreadStep(t)) \/ Tick \/ Terminating

Spec == Init /\ [][Next]_vars

\* The operating system runs every thread that can run.
FairSpec == Spec /\ \A t \in Thread : WF_vars(ThreadStep(t))
=============================================================================
