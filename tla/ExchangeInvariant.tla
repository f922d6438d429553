-------------------------- MODULE ExchangeInvariant --------------------------
(***************************************************************************)
(* The inductive invariants behind the properties of ExchangeProperties:   *)
(* GInv holds in every mode; BInv, that the barrier works, needs threads   *)
(* that wait for incomplete sets; RInv, that the result is decided in      *)
(* time, needs in addition that no limit stops a thread.                   *)
(***************************************************************************)
EXTENDS ExchangeProperties, FiniteSets

\* The thread has pushed the set of its next period, and is not there yet.
Pushed(t) == pc[t] \in {"complete", "remove", "done"} \cup Importing

\* How many periods the thread has completed.
NumCompleted(t) == IF pc[t] = "complete" THEN last[t] - 1 ELSE last[t]

\* The thread is at a set of another thread in the loop of importClauses.
AtSet(t) == pc[t] \in {"wait", "blocked", "copy"}

LastInv ==
  \A t \in Thread : last[t] = IF Pushed(t) THEN periods[t] + 1 ELSE periods[t]

CompletedInv ==
  \A t \in Thread, p \in Period : completed[t][p] <=> p < NumCompleted(t)

SolvingInv ==
  \A t \in Thread :
    /\ pc[t] \in {"search", "export", "check", "restart", "stop"} \cup Importing
         => solving[t]
    /\ pc[t] = "done" => ~solving[t]
    /\ solving[t] /\ (Pushed(t) \/ pc[t] \in {"export", "push"})
         => periods[t] < MaxPeriod

AtSetInv ==
  \A t \in Thread :
    AtSet(t) => /\ i[t] < NumThreads
                /\ periods[t] >= Margin
                /\ TargetPeriod(t) <= periods[t] - Margin

CopyInv ==
  \A t \in Thread :
    pc[t] = "copy" => completed[Target(t)][TargetPeriod(t)]

BlockedInv ==
  \A t \in Thread :
    pc[t] = "blocked" => ~NonDet /\ ~completed[Target(t)][TargetPeriod(t)]

\* No thread takes an incomplete set.
TakenInv ==
  \A t, u \in Thread : t # u => next_period[u][t] <= NumCompleted(u)

OwnInv ==
  \A t \in Thread :
    next_period[t][t] = IF Adaptive THEN KnownPeriods(periods[t]) ELSE 0

\* The count of a set is the number of threads that have taken it.
CountInv ==
  \A u \in Thread, p \in Period :
    num_exported_threads[u][p] =
      Cardinality({t \in Thread : next_period[u][t] > p})

HeadInv == \A t, u \in Thread : head[u] <= next_period[u][t]

GInv ==
  /\ TypeOK
  /\ LastInv
  /\ CompletedInv
  /\ SolvingInv
  /\ AtSetInv
  /\ CopyInv
  /\ BlockedInv
  /\ TakenInv
  /\ OwnInv
  /\ CountInv
  /\ HeadInv

-----------------------------------------------------------------------------

\* In period p a thread has taken all sets up to period p - Margin - 1.
KnownInv ==
  \A t, u \in Thread : t # u => KnownPeriods(periods[t]) <= next_period[u][t]

\* The loop of importClauses has taken the sets of the threads behind it.
VisitedInv ==
  \A t \in Thread :
    pc[t] \in Importing /\ periods[t] >= Margin =>
      \A j \in 1 .. i[t] - 1 :
        periods[t] - Margin < next_period[(t + j) % NumThreads][t]

BInv == GInv /\ KnownInv /\ VisitedInv

\* The queue grows by one set at the end of a period, before its owner removes
\* the sets that all have taken.
LengthInv ==
  \A t \in Thread :
    last[t] - head[t] <=
      2 * (Margin + 1) + IF pc[t] \in {"complete", "remove"} THEN 1 ELSE 0

-----------------------------------------------------------------------------

\* Only the winner's result counts, and it is the answer.
WinnerInv ==
  sol_found => /\ final_result = Answer
               /\ winner_id \in Thread
               /\ fate[winner_id] = winner_period

\* A thread is told to stop only beyond the margin.
ToldToStopInv ==
  \A t \in Thread :
    pc[t] \in {"restart", "stop"} =>
      sol_found /\ winner_period + Margin < periods[t]

\* A thread searches up to the period of its answer and not beyond it.
FateInv ==
  \A t \in Thread :
    fate[t] # NoAnswer =>
      /\ periods[t] <= fate[t]
      /\ periods[t] = fate[t] /\ solving[t] =>
           pc[t] \in {"search", "check", "restart", "stop"}

\* A thread that has returned found the answer in its last period, not before
\* the winner did, or was told to stop beyond the margin.
ReturnedInv ==
  \A t \in Thread :
    ~solving[t] =>
      /\ sol_found
      /\ \/ /\ fate[t] = periods[t]
            /\ \/ winner_period < periods[t]
               \/ winner_period = periods[t] /\ winner_id <= t
         \/ winner_period + Margin < periods[t]

\* No thread searches beyond the margin.
MarginInv ==
  sol_found =>
    \A t \in Thread :
      \/ periods[t] <= winner_period + Margin
      \/ /\ periods[t] = winner_period + Margin + 1
         /\ pc[t] \in {"check", "restart", "stop"} \/ ~solving[t]

\* No time limit passes.
NoLimitInv == expired = 0

ResultInv ==
  /\ WinnerInv
  /\ ToldToStopInv
  /\ FateInv
  /\ ReturnedInv
  /\ MarginInv
  /\ NoLimitInv

RInv == BInv /\ ResultInv
-----------------------------------------------------------------------------

\* The thread goes round the ring of the others.
InLoop(t) == pc[t] \in Importing /\ periods[t] >= Margin

\* No thread takes more than the set that is due, and none before its turn.
NotYetInv ==
  \A t \in Thread : \A j \in 1 .. NumThreads - 1 :
    next_period[(t + j) % NumThreads][t] <=
      IF InLoop(t) /\ j <= i[t] THEN KnownPeriods(periods[t]) + 1
                               ELSE KnownPeriods(periods[t])

\* What the set of a thread's period holds: a thread that has returned adds
\* nothing to it.
Filling(t) ==
  IF pc[t] = "export" THEN "some"
  ELSE IF solving[t] /\ (pc[t] = "push" \/ Pushed(t)) THEN "all"
  ELSE "none"

FilledInv ==
  \A t \in Thread, p \in Period :
    clauses[t][p] = IF p < periods[t] THEN "all"
                    ELSE IF p = periods[t] THEN Filling(t)
                    ELSE "none"

\* How far a thread has come: the periods it knows, the threads behind its loop,
\* and the one the loop is at, if its set has been taken.
NumImported(t) ==
  KnownPeriods(periods[t]) * (NumThreads - 1)
    + IF ~InLoop(t) THEN 0
      ELSE IF i[t] < NumThreads /\ KnownPeriods(periods[t]) < TargetPeriod(t)
      THEN i[t]
      ELSE i[t] - 1

ImportedInv ==
  \A t \in Thread :
    imported[t] = [k \in 1 .. NumImported(t) |-> ExpectedImport(t, k)]

DInv == RInv /\ NotYetInv /\ FilledInv /\ ImportedInv
-----------------------------------------------------------------------------

\* The sum of f over the threads of a set, in the order of their numbers.
SumOver(S, f) ==
  LET Upto[k \in 0 .. NumThreads] ==
        IF k = 0 THEN 0
        ELSE Upto[k - 1] + IF k - 1 \in S THEN f[k - 1] ELSE 0
  IN  Upto[NumThreads]

\* The lengths that the threads proposed at the end of period p.
Proposals(p) == [u \in Thread |-> prd_len[u][p]]

\* The threads of which thread t has taken the set that is due.
TakenFrom(t) == {u \in Thread \ {t} : KnownPeriods(periods[t]) < next_period[u][t]}

\* Only that set is taken, and only in the loop of importClauses.
NoneEarlyInv ==
  \A t, u \in Thread :
    t # u => next_period[u][t] <=
               KnownPeriods(periods[t]) + IF InLoop(t) THEN 1 ELSE 0

\* The loop has added up the proposals of the sets it has taken.
SumInv ==
  \A t \in Thread :
    InLoop(t) =>
      sum_prd_len_cand[t] = SumOver(TakenFrom(t), Proposals(periods[t] - Margin))

\* The length of period p follows from what all threads proposed.
PeriodLength(p) ==
  IF ~Adaptive \/ p <= Margin THEN MemAccLim
  ELSE Clip(SumOver(Thread, Proposals(p - Margin - 1)) \div NumThreads)

PeriodLengthInv ==
  \A t \in Thread :
    /\ mem_acc_lim[t] = PeriodLength(periods[t])
    /\ next_mem_acc_lim[t] = mem_acc_lim[t]

PInv == BInv /\ NoneEarlyInv /\ SumInv /\ PeriodLengthInv
==============================================================================
