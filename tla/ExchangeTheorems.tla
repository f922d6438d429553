--------------------------- MODULE ExchangeTheorems ---------------------------
(*************************************************************************)
(* Proofs about the exchange of clauses, for any number of threads, any  *)
(* margin and any limits: the operators it is built from; what holds in  *)
(* every mode; the barrier of the deterministic mode; the result of the  *)
(* run and what each thread imports; and that no set is lost, doubled or *)
(* taken out of order.                                                   *)
(*************************************************************************)
EXTENDS ExchangeInvariant, Induction, SequenceTheorems

USE OptionsAssumption, ExchangeAssumption

-----------------------------------------------------------------------------
(*************************************************************************)
(* Lemmas about the operators PeriodExchange is built from: the ring of  *)
(* threads, the count of the threads that have taken a set, and the      *)
(* types that the operations of the queues and of the sharer preserve.   *)
(*************************************************************************)

-----------------------------------------------------------------------------
(* The ring.                                                               *)

\* The loop of importClauses never comes to the thread itself.
LEMMA TargetIsOther ==
  ASSUME NEW t \in Thread, NEW j \in 1 .. NumThreads - 1
  PROVE  /\ (t + j) % NumThreads \in Thread
         /\ (t + j) % NumThreads # t
<1> USE DEF Thread
<1>1. CASE t + j < NumThreads
  <2>1. (t + j) % NumThreads = t + j  BY <1>1, SMT
  <2> QED  BY <1>1, <2>1, SMT
<1>2. CASE t + j >= NumThreads
  <2>1. (t + j) % NumThreads = t + j - NumThreads  BY <1>2, SMT
  <2> QED  BY <1>2, <2>1, SMT
<1> QED  BY <1>1, <1>2, SMT

\* The loop of importClauses comes to every other thread.
LEMMA EveryOtherIsTarget ==
  ASSUME NEW t \in Thread, NEW u \in Thread, t # u
  PROVE  \E j \in 1 .. NumThreads - 1 : (t + j) % NumThreads = u
<1> USE DEF Thread
<1> DEFINE j == IF t < u THEN u - t ELSE u - t + NumThreads
<1>1. j \in 1 .. NumThreads - 1  BY SMT
<1>2. (t + j) % NumThreads = u
  <2>1. CASE t < u  BY <2>1, SMT
  <2>2. CASE u < t  BY <2>2, SMT
  <2> QED  BY <2>1, <2>2, SMT
<1> QED  BY <1>1, <1>2

-----------------------------------------------------------------------------
(* The number of threads that have taken a set.                            *)

\* Thread is finite, and has NumThreads members.
LEMMA ThreadCardinality ==
  IsFiniteSet(Thread) /\ Cardinality(Thread) = NumThreads
<1>1. 0 \in Int /\ NumThreads - 1 \in Int  OBVIOUS
<1>2. IsFiniteSet(0 .. NumThreads - 1)
      /\ Cardinality(0 .. NumThreads - 1) =
           IF 0 > NumThreads - 1 THEN 0 ELSE (NumThreads - 1) - 0 + 1
  BY <1>1, FS_Interval
<1> QED  BY <1>2 DEF Thread

\* A set whose count is NumThreads has been taken by every thread.
LEMMA CountFull ==
  ASSUME CountInv, NEW u \in Thread, NEW p \in Period,
         num_exported_threads[u][p] = NumThreads
  PROVE  \A t \in Thread : next_period[u][t] > p
<1> DEFINE S == {t \in Thread : next_period[u][t] > p}
<1>1. Cardinality(S) = Cardinality(Thread)
  BY ThreadCardinality DEF CountInv
<1>2. S \subseteq Thread  OBVIOUS
<1>3. S = Thread
  BY <1>1, <1>2, ThreadCardinality, FS_Subset
<1> QED  BY <1>3

\* The counts stay right in a step in which no thread takes a set.
LEMMA CountUnchanged ==
  ASSUME CountInv, UNCHANGED <<num_exported_threads, next_period>>
  PROVE  CountInv'
<1> SUFFICES ASSUME NEW u \in Thread, NEW p \in Period
             PROVE  num_exported_threads'[u][p] =
                      Cardinality({t \in Thread : next_period'[u][t] > p})
  BY DEF CountInv
<1> QED  BY Zenon DEF CountInv

\* The counts stay right in a step in which thread thn takes its next set
\* from thread v.
LEMMA CountTaken ==
  ASSUME CountInv, QueueTypeOK, NEW v \in Thread, NEW thn \in Thread,
         next_period[v][thn] <= MaxPeriod, CompleteExportation(v, thn)
  PROVE  CountInv'
<1> SUFFICES ASSUME NEW u \in Thread, NEW p \in Period
             PROVE  num_exported_threads'[u][p] =
                      Cardinality({t \in Thread : next_period'[u][t] > p})
  BY DEF CountInv
<1> DEFINE n == next_period[v][thn]
           S == {t \in Thread : next_period[u][t] > p}
           T == {t \in Thread : next_period'[u][t] > p}
<1>1. n \in Period /\ n \in Int /\ p \in Int  BY DEF QueueTypeOK, Period
<1>2. num_exported_threads[u][p] = Cardinality(S)  BY DEF CountInv
<1>3. num_exported_threads[u][p] \in Nat  BY DEF QueueTypeOK
<1>4. \A t \in Thread : next_period[u][t] \in Int
  BY DEF QueueTypeOK, Period
<1>5. \A t \in Thread : next_period'[u][t] =
        IF u = v /\ t = thn THEN n + 1 ELSE next_period[u][t]
  BY DEF QueueTypeOK, CompleteExportation
<1>6. num_exported_threads'[u][p] =
        IF u = v /\ p = n THEN num_exported_threads[u][p] + 1
                          ELSE num_exported_threads[u][p]
  BY DEF QueueTypeOK, CompleteExportation
<1>7. CASE u = v /\ p = n
  <2>1. T = S \cup {thn}  BY <1>1, <1>4, <1>5, <1>7
  <2>2. thn \notin S  BY <1>1, <1>7
  <2>3. IsFiniteSet(S)  BY ThreadCardinality, FS_Subset
  <2>4. Cardinality(T) = Cardinality(S) + 1  BY <2>1, <2>2, <2>3, FS_AddElement
  <2> QED  BY <2>4, <1>2, <1>6, <1>7
<1>8. CASE ~(u = v /\ p = n)
  <2>1. T = S  BY <1>1, <1>4, <1>5, <1>8
  <2> QED  BY <2>1, <1>2, <1>6, <1>8
<1> QED  BY <1>7, <1>8

-----------------------------------------------------------------------------
(* The types.                                                              *)

\* A step that leaves the queues alone keeps their types.
LEMMA QueueTypeUnchanged == QueueTypeOK /\ UNCHANGED queueVars => QueueTypeOK'
BY DEF QueueTypeOK, queueVars

\* A step that leaves the sharer alone keeps its types.
LEMMA SharerTypeUnchanged == SharerTypeOK /\ UNCHANGED sharerVars => SharerTypeOK'
BY DEF SharerTypeOK, sharerVars

\* IFinished keeps the types of the sharer.
LEMMA IFinishedType ==
  ASSUME SharerTypeOK, NEW status \in SATResult, NEW prd \in Nat,
         NEW thn \in Thread, IFinished(status, prd, thn)
  PROVE  SharerTypeOK'
BY DEF SharerTypeOK, sharerVars, IFinished

\* addClause keeps the types of the queues.
LEMMA AddClausesType ==
  ASSUME QueueTypeOK, NEW t \in Thread, NEW what \in {"some", "all"},
         AddClauses(t, what)
  PROVE  QueueTypeOK'
BY DEF QueueTypeOK, AddClauses

\* Pushing an empty set keeps the types of the queues.
LEMMA PushNextType ==
  ASSUME QueueTypeOK, NEW t \in Thread, last[t] <= MaxPeriod, PushNext(t)
  PROVE  QueueTypeOK'
<1>1. last[t] \in Period  BY DEF QueueTypeOK
<1>2. last[t] + 1 \in Period  BY <1>1 DEF Period
<1> QED  BY <1>2 DEF QueueTypeOK, PushNext

\* Completing a set keeps the types of the queues.
LEMMA CompleteAdditionType ==
  ASSUME QueueTypeOK, NEW t \in Thread, NEW len \in Nat, CompleteAddition(t, len)
  PROVE  QueueTypeOK'
BY DEF QueueTypeOK, CompleteAddition

\* Removing sets keeps the types of the queues.
LEMMA RemoveExportedType ==
  ASSUME QueueTypeOK, NEW t \in Thread, RemoveExported(t)
  PROVE  QueueTypeOK'
<1>1. PICK h \in head[t] .. last[t] : head' = [head EXCEPT ![t] = h]
  BY DEF RemoveExported
<1>2. h \in Period  BY DEF QueueTypeOK, Period
<1> QED  BY <1>1, <1>2 DEF QueueTypeOK, RemoveExported

\* Taking a set keeps the types of the queues.
LEMMA CompleteExportationType ==
  ASSUME QueueTypeOK, NEW u \in Thread, NEW t \in Thread,
         next_period[u][t] <= MaxPeriod, CompleteExportation(u, t)
  PROVE  QueueTypeOK'
<1>1. next_period[u][t] \in Period  BY DEF QueueTypeOK
<1>2. next_period[u][t] + 1 \in Period  BY <1>1 DEF Period
<1>3. next_period' \in [Thread -> [Thread -> Period]]
  BY <1>2 DEF QueueTypeOK, CompleteExportation
<1>4. num_exported_threads' \in [Thread -> [Period -> Nat]]
  BY <1>1 DEF QueueTypeOK, CompleteExportation
<1> QED  BY <1>3, <1>4 DEF QueueTypeOK, CompleteExportation

-----------------------------------------------------------------------------
(*************************************************************************)
(* GInv is an inductive invariant of the exchange in every mode.         *)
(*************************************************************************)

-----------------------------------------------------------------------------
(* The initial states.                                                     *)

\* Nothing has been pushed, completed or taken.
LEMMA GInit == Init => GInv
<1> SUFFICES ASSUME Init PROVE GInv  OBVIOUS
<1> USE DEF Init, QueueInit, SharerInit
<1>0. 0 \in Period /\ 0 \in 0 .. MaxPeriod /\ 1 \in 1 .. NumThreads
  BY DEF Period
<1>1. TypeOK
  <2>1. QueueTypeOK  BY <1>0 DEF QueueTypeOK
  <2>2. SharerTypeOK  BY DEF SharerTypeOK, SATResult
  <2>3. imported \in [Thread -> Seq(Batch)]  OBVIOUS
  <2> QED  BY <1>0, <2>1, <2>2, <2>3 DEF TypeOK, PC, Importing
<1>2. LastInv /\ SolvingInv
  BY DEF LastInv, SolvingInv, Pushed, Importing
<1>3. CompletedInv
  BY DEF CompletedInv, NumCompleted, Period
<1>4. AtSetInv /\ CopyInv /\ BlockedInv
  BY DEF AtSetInv, AtSet, CopyInv, BlockedInv
<1>5. TakenInv /\ OwnInv /\ HeadInv
  BY DEF TakenInv, OwnInv, HeadInv, NumCompleted, KnownPeriods
<1>6. CountInv
  <2> SUFFICES ASSUME NEW u \in Thread, NEW p \in Period
               PROVE  num_exported_threads[u][p] =
                        Cardinality({t \in Thread : next_period[u][t] > p})
    BY DEF CountInv
  <2>1. {t \in Thread : next_period[u][t] > p} = {}  BY DEF Period
  <2> QED  BY <2>1, FS_EmptySet
<1> QED  BY <1>1, <1>2, <1>3, <1>4, <1>5, <1>6 DEF GInv

-----------------------------------------------------------------------------
(* What several actions leave alone.                                       *)

\* A thread moves on, neither pushing nor completing nor taking a set, and
\* not entering another period.
LEMMA QuietStep ==
  ASSUME GInv, NEW t \in Thread, NEW label, Goto(t, label),
         pc[t] # "complete", label # "complete", Pushed(t)' = Pushed(t),
         UNCHANGED <<periods, last, completed, num_exported_threads, next_period>>
  PROVE  LastInv' /\ CompletedInv' /\ TakenInv' /\ OwnInv' /\ CountInv'
<1> USE DEF GInv
<1>0. pc \in [Thread -> PC]  BY DEF TypeOK
<1>1. \A u \in Thread : Pushed(u)' = Pushed(u) /\ NumCompleted(u)' = NumCompleted(u)
  BY <1>0 DEF Goto, Pushed, NumCompleted
<1>2. LastInv'  BY <1>1 DEF LastInv
<1>3. CompletedInv'  BY <1>1 DEF CompletedInv
<1>4. TakenInv'  BY <1>1 DEF TakenInv
<1>5. OwnInv'  BY DEF OwnInv
<1>6. CountInv'  BY CountUnchanged
<1> QED  BY <1>2, <1>3, <1>4, <1>5, <1>6

\* A thread at a set in the loop of importClauses is at another thread's.
LEMMA AtAnothersSet ==
  ASSUME GInv, NEW t \in Thread, AtSet(t)
  PROVE  /\ Target(t) \in Thread \ {t}
         /\ TargetPeriod(t) \in Period
         /\ TargetPeriod(t) + 1 \in Period
<1> USE DEF GInv
<1>1. i[t] \in 1 .. NumThreads - 1  BY DEF TypeOK, AtSetInv
<1>2. Target(t) \in Thread \ {t}  BY <1>1, TargetIsOther DEF Target
<1>3. TargetPeriod(t) \in Period  BY <1>2 DEF TypeOK, QueueTypeOK, TargetPeriod
<1>4. TargetPeriod(t) <= periods[t] - Margin /\ periods[t] \in 0 .. MaxPeriod
  BY DEF AtSetInv, TypeOK
<1>5. TargetPeriod(t) + 1 \in Period  BY <1>3, <1>4 DEF Period
<1> QED  BY <1>2, <1>3, <1>5

\* A thread moves on and is not at a set of the loop of importClauses; no set
\* becomes complete.
LEMMA OffSetStep ==
  ASSUME GInv, NEW t \in Thread, NEW label, Goto(t, label),
         label \notin {"wait", "blocked", "copy"},
         \A u \in Thread \ {t} : periods'[u] = periods[u] /\ i'[u] = i[u],
         \A u \in Thread \ {t}, v \in Thread : next_period'[v][u] = next_period[v][u],
         UNCHANGED completed
  PROVE  AtSetInv' /\ CopyInv' /\ BlockedInv'
<1> USE DEF GInv
<1>0. pc \in [Thread -> PC]  BY DEF TypeOK
<1>1. \A u \in Thread :
        AtSet(u)' => /\ u # t /\ pc'[u] = pc[u] /\ AtSet(u)
                     /\ Target(u)' = Target(u)
                     /\ TargetPeriod(u)' = TargetPeriod(u)
  <2> SUFFICES ASSUME NEW u \in Thread, AtSet(u)'
               PROVE  /\ u # t /\ pc'[u] = pc[u] /\ AtSet(u)
                      /\ Target(u)' = Target(u)
                      /\ TargetPeriod(u)' = TargetPeriod(u)
    OBVIOUS
  <2>1. u # t /\ pc'[u] = pc[u] /\ AtSet(u)  BY <1>0 DEF Goto, AtSet
  <2>2. Target(u)' = Target(u)  BY <2>1 DEF Target
  <2>3. Target(u) \in Thread  BY <2>1, AtAnothersSet
  <2>4. TargetPeriod(u)' = TargetPeriod(u)  BY <2>1, <2>2, <2>3 DEF TargetPeriod
  <2> QED  BY <2>1, <2>2, <2>4
<1>2. AtSetInv'  BY <1>1 DEF AtSetInv
<1>3. CopyInv'  BY <1>1 DEF CopyInv, AtSet
<1>4. BlockedInv'  BY <1>1 DEF BlockedInv, AtSet
<1> QED  BY <1>2, <1>3, <1>4

-----------------------------------------------------------------------------
(* One lemma per action.                                                   *)

\* The search stops and the export loop begins.
LEMMA GBeginExport ==
  ASSUME GInv, NEW t \in Thread, BeginExport(t)
  PROVE  GInv'
<1> USE DEF GInv, BeginExport, AddClauses
<1>1. TypeOK'
  <2>1. QueueTypeOK'  BY AddClausesType DEF TypeOK
  <2>2. SharerTypeOK'  BY SharerTypeUnchanged DEF TypeOK
  <2> QED  BY <2>1, <2>2 DEF TypeOK, PC, Goto, solverVars
<1>2. pc \in [Thread -> PC]  BY DEF TypeOK
<1>3. LastInv' /\ CompletedInv' /\ TakenInv' /\ OwnInv' /\ CountInv'
  <2>1. Pushed(t)' = Pushed(t)  BY <1>2 DEF Goto, Pushed, Importing
  <2> QED  BY <2>1, QuietStep DEF solverVars
<1>4. SolvingInv'
  BY <1>2 DEF SolvingInv, Goto, Pushed, Importing, solverVars
<1>5. AtSetInv' /\ CopyInv' /\ BlockedInv'
  BY OffSetStep DEF solverVars
<1>6. HeadInv'  BY DEF HeadInv
<1> QED  BY <1>1, <1>3, <1>4, <1>5, <1>6

\* The export loop ends.
LEMMA GEndExport ==
  ASSUME GInv, NEW t \in Thread, EndExport(t)
  PROVE  GInv'
<1> USE DEF GInv, EndExport, AddClauses
<1>1. TypeOK'
  <2>1. QueueTypeOK'  BY AddClausesType DEF TypeOK
  <2>2. SharerTypeOK'  BY SharerTypeUnchanged DEF TypeOK
  <2> QED  BY <2>1, <2>2 DEF TypeOK, PC, Goto, solverVars
<1>2. pc \in [Thread -> PC]  BY DEF TypeOK
<1>3. LastInv' /\ CompletedInv' /\ TakenInv' /\ OwnInv' /\ CountInv'
  <2>1. Pushed(t)' = Pushed(t)  BY <1>2 DEF Goto, Pushed, Importing
  <2> QED  BY <2>1, QuietStep DEF solverVars
<1>4. SolvingInv'
  BY <1>2 DEF SolvingInv, Goto, Pushed, Importing, solverVars
<1>5. AtSetInv' /\ CopyInv' /\ BlockedInv'
  BY OffSetStep DEF solverVars
<1>6. HeadInv'  BY DEF HeadInv
<1> QED  BY <1>1, <1>3, <1>4, <1>5, <1>6

\* The set of the next period is pushed: the one before it is the last that
\* is not complete.
LEMMA GPush ==
  ASSUME GInv, NEW t \in Thread, Push(t)
  PROVE  GInv'
<1> USE DEF GInv, Push
<1>1. pc \in [Thread -> PC] /\ pc[t] = "push" /\ pc' = [pc EXCEPT ![t] = "complete"]
  BY DEF TypeOK, Goto
<1>2. last \in [Thread -> Period] /\ last' = [last EXCEPT ![t] = @ + 1]
  BY DEF TypeOK, QueueTypeOK, PushNext
<1>3. last[t] \in Period /\ last[t] = periods[t] /\ periods[t] \in 0 .. MaxPeriod
  BY <1>1, <1>2 DEF TypeOK, LastInv, Pushed, Importing
<1>4. \A u \in Thread : NumCompleted(u)' = NumCompleted(u)
  BY <1>1, <1>2, <1>3 DEF NumCompleted, Period
<1>5. TypeOK'
  <2>1. QueueTypeOK'  BY <1>3, PushNextType DEF TypeOK
  <2>2. SharerTypeOK'  BY SharerTypeUnchanged DEF TypeOK
  <2> QED  BY <2>1, <2>2 DEF TypeOK, PC, Goto, solverVars
<1>6. LastInv'
  BY <1>1, <1>2, <1>3 DEF LastInv, Pushed, Importing, solverVars
<1>7. CompletedInv'  BY <1>4 DEF CompletedInv, PushNext
<1>8. TakenInv'  BY <1>4 DEF TakenInv, PushNext
<1>9. SolvingInv'
  BY <1>1 DEF SolvingInv, Pushed, Importing, solverVars
<1>10. AtSetInv' /\ CopyInv' /\ BlockedInv'
  BY OffSetStep DEF PushNext, solverVars
<1>11. OwnInv' /\ HeadInv'  BY DEF OwnInv, HeadInv, PushNext, solverVars
<1>12. CountInv'  BY CountUnchanged DEF PushNext
<1> QED  BY <1>5, <1>6, <1>7, <1>8, <1>9, <1>10, <1>11, <1>12

\* The set of the current period is completed, and its waiters go on.
LEMMA GComplete ==
  ASSUME GInv, NEW t \in Thread, Complete(t)
  PROVE  GInv'
<1> USE DEF GInv, Complete
<1>1. PICK len \in NewPeriodLengths(t) : CompleteAddition(t, len)  OBVIOUS
<1>2. len \in Nat  BY DEF TypeOK, NewPeriodLengths
<1>3. pc \in [Thread -> PC] /\ pc[t] = "complete"  BY DEF TypeOK
<1>4. last[t] \in Period /\ last[t] - 1 = periods[t] /\ periods[t] \in Period
  <2>1. last[t] \in Period /\ periods[t] \in 0 .. MaxPeriod
    BY DEF TypeOK, QueueTypeOK
  <2>2. last[t] = periods[t] + 1  BY <1>3 DEF LastInv, Pushed
  <2> QED  BY <2>1, <2>2 DEF Period
<1>5. \A u \in Thread, p \in Period :
        completed'[u][p] = IF u = t /\ p = periods[t] THEN TRUE ELSE completed[u][p]
  BY <1>1, <1>4 DEF TypeOK, QueueTypeOK, CompleteAddition
<1>6. \A u \in Thread : u \in Waiters(t) => pc[u] = "blocked"  BY DEF Waiters
<1>7. \A u \in Thread :
        /\ Pushed(u)' = Pushed(u) /\ AtSet(u)' = AtSet(u)
        /\ Target(u)' = Target(u) /\ TargetPeriod(u)' = TargetPeriod(u)
  BY <1>1, <1>3, <1>6
     DEF Pushed, AtSet, Importing, Target, TargetPeriod, CompleteAddition
<1>8. \A u \in Thread :
        NumCompleted(u)' = IF u = t THEN NumCompleted(u) + 1 ELSE NumCompleted(u)
  BY <1>1, <1>3, <1>4, <1>6 DEF NumCompleted, CompleteAddition, Period
<1>9. NumCompleted(t) = periods[t]  BY <1>3, <1>4 DEF NumCompleted
<1>10. TypeOK'
  <2>1. QueueTypeOK'  BY <1>1, <1>2, CompleteAdditionType DEF TypeOK
  <2>2. SharerTypeOK'  BY SharerTypeUnchanged DEF TypeOK
  <2>3. pc' \in [Thread -> PC]  BY <1>3 DEF PC, Importing
  <2> QED  BY <2>1, <2>2, <2>3 DEF TypeOK, solverVars
<1>11. LastInv'  BY <1>1, <1>7 DEF LastInv, CompleteAddition, solverVars
<1>12. CompletedInv'
  <2> SUFFICES ASSUME NEW u \in Thread, NEW p \in Period
               PROVE  completed'[u][p] <=> p < NumCompleted(u)'
    BY DEF CompletedInv
  <2>1. completed[u][p] <=> p < NumCompleted(u)  BY DEF CompletedInv
  <2>2. p \in Int /\ periods[t] \in Int  BY <1>4 DEF Period
  <2>3. CASE u = t
    <3>1. NumCompleted(u)' = periods[t] + 1  BY <1>8, <1>9, <2>3
    <3>2. completed'[u][p] <=> p = periods[t] \/ p < periods[t]
      BY <1>5, <1>9, <2>1, <2>3
    <3> QED  BY <2>2, <3>1, <3>2
  <2>4. CASE u # t  BY <1>5, <1>8, <2>1, <2>4
  <2> QED  BY <2>3, <2>4
<1>13. SolvingInv'
  BY <1>3, <1>6, <1>7 DEF SolvingInv, Importing, Pushed, solverVars
<1>14. AtSetInv'  BY <1>7 DEF AtSetInv, solverVars
<1>15. CopyInv'
  <2> SUFFICES ASSUME NEW u \in Thread, pc'[u] = "copy"
               PROVE  completed'[Target(u)][TargetPeriod(u)]
    BY <1>7 DEF CopyInv
  <2>1. AtSet(u)  BY <1>7 DEF AtSet
  <2>2. Target(u) \in Thread /\ TargetPeriod(u) \in Period  BY <2>1, AtAnothersSet
  <2>3. CASE pc[u] = "copy"  BY <1>5, <2>2, <2>3 DEF CopyInv
  <2>4. CASE u \in Waiters(t)  BY <1>4, <1>5, <2>2, <2>4, ZenonT(20) DEF Waiters
  <2> QED  BY <2>3, <2>4, <1>3
<1>16. BlockedInv'
  <2> SUFFICES ASSUME NEW u \in Thread, pc'[u] = "blocked"
               PROVE  ~NonDet /\ ~completed'[Target(u)][TargetPeriod(u)]
    BY <1>7 DEF BlockedInv
  <2>1. AtSet(u)  BY <1>7 DEF AtSet
  <2>2. Target(u) \in Thread /\ TargetPeriod(u) \in Period  BY <2>1, AtAnothersSet
  <2>3. pc[u] = "blocked" /\ u \notin Waiters(t)  BY <1>3
  <2>4. ~(Target(u) = t /\ TargetPeriod(u) = periods[t])  BY <1>4, <2>3 DEF Waiters
  <2> QED  BY <1>5, <2>2, <2>3, <2>4 DEF BlockedInv
<1>17. TakenInv'
  <2>1. \A u, v \in Thread : next_period[u][v] \in Int  BY DEF TypeOK, QueueTypeOK, Period
  <2>2. \A u \in Thread : NumCompleted(u) \in Int
    BY SMTT(20) DEF TypeOK, QueueTypeOK, NumCompleted, Period
  <2> QED  BY <1>1, <1>8, <2>1, <2>2 DEF TakenInv, CompleteAddition
<1>18. OwnInv' /\ HeadInv'
  BY <1>1 DEF OwnInv, HeadInv, CompleteAddition, solverVars
<1>19. CountInv'  BY <1>1, CountUnchanged DEF CompleteAddition
<1> QED  BY <1>10, <1>11, <1>12, <1>13, <1>14, <1>15, <1>16, <1>17, <1>18, <1>19

\* Only sets that all threads have taken leave the queue.
LEMMA GRemoveSets ==
  ASSUME GInv, NEW t \in Thread, RemoveSets(t)
  PROVE  GInv'
<1> USE DEF GInv, RemoveSets, RemoveExported
<1>1. PICK h \in head[t] .. last[t] :
        RemovalStopsAt(t, h) /\ head' = [head EXCEPT ![t] = h]
  OBVIOUS
<1>2. /\ pc \in [Thread -> PC] /\ i \in [Thread -> 1 .. NumThreads]
      /\ sum_prd_len_cand \in [Thread -> Nat]
  BY DEF TypeOK
<1>3. head \in [Thread -> Period] /\ last[t] \in Period /\ h \in Period
  <2>1. head \in [Thread -> Period] /\ last[t] \in Period
    BY DEF TypeOK, QueueTypeOK
  <2>2. head[t] \in Period  BY <2>1
  <2> QED  BY <2>1, <2>2 DEF Period
<1> DEFINE label == IF solving[t] THEN "import" ELSE "done"
<1>4. TypeOK'
  <2>1. QueueTypeOK'  BY RemoveExportedType DEF TypeOK
  <2>2. SharerTypeOK'  BY SharerTypeUnchanged DEF TypeOK
  <2>3. pc' \in [Thread -> PC]  BY <1>2 DEF Goto, PC, Importing
  <2>4. i' \in [Thread -> 1 .. NumThreads] /\ sum_prd_len_cand' \in [Thread -> Nat]
    BY <1>2
  <2> QED  BY <2>1, <2>2, <2>3, <2>4 DEF TypeOK
<1>5. LastInv' /\ CompletedInv' /\ TakenInv' /\ OwnInv' /\ CountInv'
  <2>1. Pushed(t)' = Pushed(t)  BY <1>2 DEF Goto, Pushed, Importing
  <2> QED  BY <2>1, QuietStep
<1>6. SolvingInv'
  BY <1>2 DEF SolvingInv, Goto, Pushed, Importing
<1>7. AtSetInv' /\ CopyInv' /\ BlockedInv'
  <2>1. Goto(t, label) /\ label \notin {"wait", "blocked", "copy"}  OBVIOUS
  <2> HIDE DEF label
  <2> QED  BY <2>1, <1>2, OffSetStep
<1>8. HeadInv'
  <2> SUFFICES ASSUME NEW u \in Thread, NEW v \in Thread
               PROVE  head'[u] <= next_period[u][v]
    BY DEF HeadInv
  <2>1. CASE u # t \/ h = head[t]  BY <1>1, <1>3, <2>1 DEF HeadInv
  <2>2. CASE u = t /\ h # head[t]
    <3>1. h - 1 \in head[t] .. h - 1 /\ h - 1 \in Period
      BY <1>1, <1>3, <2>2 DEF Period
    <3>2. num_exported_threads[t][h - 1] = NumThreads
      BY <1>1, <3>1 DEF RemovalStopsAt
    <3>3. next_period[t][v] > h - 1  BY <3>1, <3>2, CountFull
    <3>4. next_period[t][v] \in Int /\ h \in Int
      BY <1>3 DEF TypeOK, QueueTypeOK, Period
    <3>5. head'[u] = h  BY <1>1, <1>3, <2>2
    <3> QED  BY <3>3, <3>4, <3>5, <2>2
  <2> QED  BY <2>1, <2>2
<1> QED  BY <1>4, <1>5, <1>6, <1>7, <1>8

\* get returns a set: the thread is going to look whether it is complete.
LEMMA GGetSet ==
  ASSUME GInv, NEW t \in Thread, GetSet(t)
  PROVE  GInv'
<1> USE DEF GInv, GetSet
<1>1. pc \in [Thread -> PC] /\ i[t] \in 1 .. NumThreads  BY DEF TypeOK
<1>2. TypeOK'
  <2>1. QueueTypeOK'  BY QueueTypeUnchanged DEF TypeOK
  <2>2. SharerTypeOK'  BY SharerTypeUnchanged DEF TypeOK
  <2> QED  BY <2>1, <2>2 DEF TypeOK, PC, Importing, Goto, solverVars
<1>3. LastInv' /\ CompletedInv' /\ TakenInv' /\ OwnInv' /\ CountInv'
  <2>1. Pushed(t)' = Pushed(t)  BY <1>1 DEF Goto, Pushed, Importing
  <2> QED  BY <2>1, QuietStep DEF solverVars, queueVars
<1>4. SolvingInv'
  BY <1>1 DEF SolvingInv, Goto, Pushed, Importing, solverVars
<1>5. \A u \in Thread :
        /\ Target(u)' = Target(u) /\ TargetPeriod(u)' = TargetPeriod(u)
        /\ u # t => pc'[u] = pc[u]
  BY <1>1 DEF Goto, Target, TargetPeriod, queueVars
<1>6. AtSetInv'
  <2>1. i[t] < NumThreads /\ periods[t] >= Margin
        /\ TargetPeriod(t) <= periods[t] - Margin
    BY DEF Available, TargetPeriod
  <2> QED  BY <1>5, <2>1 DEF AtSetInv, AtSet, solverVars
<1>7. CopyInv' /\ BlockedInv'
  BY <1>1, <1>5 DEF CopyInv, BlockedInv, Goto, queueVars
<1>8. HeadInv'  BY DEF HeadInv, queueVars
<1> QED  BY <1>2, <1>3, <1>4, <1>6, <1>7, <1>8

\* get returns no set: the loop goes on to the next thread.
LEMMA GNextTarget ==
  ASSUME GInv, NEW t \in Thread, NextTarget(t)
  PROVE  GInv'
<1> USE DEF GInv, NextTarget
<1>1. pc \in [Thread -> PC] /\ i \in [Thread -> 1 .. NumThreads]  BY DEF TypeOK
<1>2. i[t] + 1 \in 1 .. NumThreads  BY <1>1
<1>3. Goto(t, "import")  BY <1>1 DEF Goto
<1>4. TypeOK'
  <2>1. QueueTypeOK'  BY QueueTypeUnchanged DEF TypeOK
  <2>2. SharerTypeOK'  BY SharerTypeUnchanged DEF TypeOK
  <2>3. i' \in [Thread -> 1 .. NumThreads]  BY <1>1, <1>2
  <2> QED  BY <2>1, <2>2, <2>3 DEF TypeOK, solverVars
<1>5. LastInv' /\ CompletedInv' /\ TakenInv' /\ OwnInv' /\ CountInv'
  <2>1. Pushed(t)' = Pushed(t)  BY DEF Pushed
  <2> QED  BY <1>3, <2>1, QuietStep DEF solverVars, queueVars
<1>6. SolvingInv'  BY DEF SolvingInv, Pushed, solverVars
<1>7. AtSetInv' /\ CopyInv' /\ BlockedInv'
  BY <1>1, <1>3, OffSetStep DEF solverVars, queueVars
<1>8. HeadInv'  BY DEF HeadInv, queueVars
<1> QED  BY <1>4, <1>5, <1>6, <1>7, <1>8

\* The thread reads a complete set, and waits for or skips an incomplete one.
LEMMA GCheckCompleted ==
  ASSUME GInv, NEW t \in Thread, CheckCompleted(t)
  PROVE  GInv'
<1> USE DEF GInv, CheckCompleted
<1>1. pc \in [Thread -> PC] /\ i \in [Thread -> 1 .. NumThreads]  BY DEF TypeOK
<1>2. i[t] + 1 \in 1 .. NumThreads  BY <1>1 DEF AtSetInv, AtSet
<1>3. PICK label \in {"copy", "blocked", "import"} : Goto(t, label)  OBVIOUS
<1>4. i' \in [Thread -> 1 .. NumThreads] /\ \A u \in Thread \ {t} : i'[u] = i[u]
  BY <1>1, <1>2
<1>5. TypeOK'
  <2>1. QueueTypeOK'  BY QueueTypeUnchanged DEF TypeOK
  <2>2. SharerTypeOK'  BY SharerTypeUnchanged DEF TypeOK
  <2>3. pc' \in [Thread -> PC]  BY <1>1, <1>3 DEF Goto, PC, Importing
  <2> QED  BY <1>4, <2>1, <2>2, <2>3 DEF TypeOK, solverVars
<1>6. LastInv' /\ CompletedInv' /\ TakenInv' /\ OwnInv' /\ CountInv'
  <2>1. Pushed(t)' = Pushed(t)  BY <1>1, <1>3 DEF Goto, Pushed, Importing
  <2> QED  BY <1>3, <2>1, QuietStep DEF solverVars, queueVars
<1>7. SolvingInv'
  BY <1>1, <1>3 DEF SolvingInv, Goto, Pushed, Importing, solverVars
<1>8. AtSetInv' /\ CopyInv' /\ BlockedInv'
  <2>1. CASE Goto(t, "import")
    BY <1>4, <2>1, OffSetStep DEF solverVars, queueVars
  <2>2. CASE ~Goto(t, "import")
    <3>1. i' = i /\ completed' = completed  BY <2>2 DEF queueVars
    <3>2. \A u \in Thread :
            /\ Target(u)' = Target(u) /\ TargetPeriod(u)' = TargetPeriod(u)
            /\ AtSet(u)' = AtSet(u)
            /\ u # t => pc'[u] = pc[u]
      BY <1>1, <1>3, <2>2, <3>1
         DEF Goto, Target, TargetPeriod, AtSet, queueVars
    <3>3. AtSetInv'  BY <3>1, <3>2 DEF AtSetInv, solverVars
    <3>4. CopyInv' /\ BlockedInv'
      BY <1>1, <2>2, <3>1, <3>2 DEF CopyInv, BlockedInv, Goto
    <3> QED  BY <3>3, <3>4
  <2> QED  BY <2>1, <2>2
<1>9. HeadInv'  BY DEF HeadInv, queueVars
<1> QED  BY <1>5, <1>6, <1>7, <1>8, <1>9

\* The thread takes a set.
LEMMA GCopy ==
  ASSUME GInv, NEW t \in Thread, Copy(t)
  PROVE  GInv'
<1> USE DEF GInv
<1> DEFINE u == Target(t)
           p == TargetPeriod(t)
<1>1. /\ pc[t] = "copy" /\ Goto(t, "import")
      /\ CompleteExportation(u, t)
      /\ imported' = [imported EXCEPT ![t] =
           Append(@, [src |-> u, prd |-> p, content |-> clauses[u][p]])]
      /\ sum_prd_len_cand' = [sum_prd_len_cand EXCEPT ![t] = @ + prd_len[u][p]]
      /\ UNCHANGED <<fate, solving, i, expired, periods, mem_acc_lim,
                     next_mem_acc_lim, sharerVars>>
  BY DEF Copy
<1>2. pc \in [Thread -> PC]  BY DEF TypeOK
<1>3. u \in Thread \ {t} /\ p \in Period /\ p + 1 \in Period /\ p <= MaxPeriod
  BY <1>1, AtAnothersSet DEF AtSet, Period
<1>4. p = next_period[u][t]  BY DEF TargetPeriod
<1>5. \A w, v \in Thread :
        next_period'[w][v] = IF w = u /\ v = t THEN p + 1 ELSE next_period[w][v]
  BY <1>1, <1>3, <1>4 DEF CompleteExportation, TypeOK, QueueTypeOK
<1> HIDE DEF u, p
<1>6. TypeOK'
  <2>1. QueueTypeOK'
    BY <1>1, <1>3, <1>4, CompleteExportationType DEF TypeOK
  <2>2. SharerTypeOK'  BY <1>1, SharerTypeUnchanged DEF TypeOK
  <2>3. imported' \in [Thread -> Seq(Batch)]
    <3>1. clauses[u][p] \in {"none", "some", "all"}
      BY <1>3 DEF TypeOK, QueueTypeOK
    <3>2. [src |-> u, prd |-> p, content |-> clauses[u][p]] \in Batch
      BY <1>3, <3>1 DEF Batch
    <3>3. imported[t] \in Seq(Batch)  BY DEF TypeOK
    <3>4. Append(imported[t], [src |-> u, prd |-> p, content |-> clauses[u][p]])
            \in Seq(Batch)
      BY <3>2, <3>3
    <3> QED  BY <1>1, <3>4 DEF TypeOK
  <2>4. sum_prd_len_cand' \in [Thread -> Nat]
    <3>1. prd_len[u][p] \in Nat  BY <1>3 DEF TypeOK, QueueTypeOK
    <3>2. sum_prd_len_cand[t] + prd_len[u][p] \in Nat  BY <3>1 DEF TypeOK
    <3> QED  BY <1>1, <3>2 DEF TypeOK
  <2>5. pc' \in [Thread -> PC]  BY <1>1, <1>2 DEF Goto, PC, Importing
  <2> QED  BY <1>1, <2>1, <2>2, <2>3, <2>4, <2>5 DEF TypeOK
<1>7. /\ last' = last /\ completed' = completed /\ head' = head
      /\ \A v \in Thread : Pushed(v)' = Pushed(v) /\ NumCompleted(v)' = NumCompleted(v)
  BY <1>1, <1>2 DEF CompleteExportation, Goto, Pushed, Importing, NumCompleted
<1>8. LastInv'  BY <1>1, <1>7 DEF LastInv
<1>9. CompletedInv'  BY <1>7 DEF CompletedInv
<1>10. SolvingInv'
  BY <1>1, <1>2 DEF SolvingInv, Goto, Pushed, Importing
<1>11. AtSetInv' /\ CopyInv' /\ BlockedInv'
  BY <1>1, <1>5, <1>7, OffSetStep
<1>12. TakenInv'
  <2>1. completed[u][p]  BY <1>1 DEF CopyInv, u, p
  <2>2. p < NumCompleted(u)  BY <1>3, <2>1 DEF CompletedInv
  <2>3. NumCompleted(u) \in Int /\ p \in Int
    <3>1. last[u] \in Int  BY <1>3 DEF TypeOK, QueueTypeOK, Period
    <3>2. p \in Int  BY <1>3 DEF Period
    <3> QED  BY <3>1, <3>2 DEF NumCompleted
  <2>4. p + 1 <= NumCompleted(u)  BY <2>2, <2>3
  <2> QED  BY <1>5, <1>7, <2>4 DEF TakenInv
<1>13. OwnInv'  BY <1>1, <1>3, <1>5 DEF OwnInv
<1>14. HeadInv'
  <2>1. head[u] \in Int /\ p \in Int
    BY <1>3 DEF TypeOK, QueueTypeOK, Period
  <2>2. head[u] <= p + 1  BY <1>3, <1>4, <2>1 DEF HeadInv
  <2> QED  BY <1>5, <1>7, <2>2 DEF HeadInv
<1>15. CountInv'  BY <1>1, <1>3, <1>4, CountTaken DEF TypeOK
<1> QED  BY <1>6, <1>8, <1>9, <1>10, <1>11, <1>12, <1>13, <1>14, <1>15

\* The next period length is a number.
LEMMA MeanPeriodLengthType ==
  ASSUME TypeOK, NEW t \in Thread, periods[t] >= Margin
  PROVE  MeanPeriodLength(t) \in Nat
<1> DEFINE sum == sum_prd_len_cand[t] + prd_len[t][periods[t] - Margin]
<1>1. periods[t] - Margin \in Period  BY DEF TypeOK, Period
<1>2. sum \in Nat  BY <1>1, SMTT(20) DEF TypeOK, QueueTypeOK
<1> HIDE DEF sum
<1>3. sum \div NumThreads \in Nat  BY <1>2
<1> DEFINE mean == sum \div NumThreads
<1>4. MeanPeriodLength(t) = Clip(mean)  BY DEF MeanPeriodLength, sum
<1> HIDE DEF mean
<1>5. mean \in Nat  BY <1>3 DEF mean
<1> QED  BY <1>4, <1>5 DEF Clip

\* The loop of importClauses is over: the thread enters its next period.
LEMMA GEnterNextPeriod ==
  ASSUME GInv, NEW t \in Thread, EnterNextPeriod(t)
  PROVE  GInv'
<1> USE DEF GInv
<1>1. /\ pc[t] = "import" /\ Goto(t, "check")
      /\ periods' = [periods EXCEPT ![t] = @ + 1]
      /\ mem_acc_lim' = [mem_acc_lim EXCEPT ![t] = next_mem_acc_lim'[t]]
      /\ UNCHANGED <<fate, solving, i, expired, imported, sum_prd_len_cand,
                     sharerVars>>
  BY DEF EnterNextPeriod
<1>2. pc \in [Thread -> PC] /\ periods \in [Thread -> 0 .. MaxPeriod]  BY DEF TypeOK
<1>3. solving[t] /\ periods[t] < MaxPeriod
  BY <1>1 DEF SolvingInv, Pushed, Importing
<1> DEFINE Takes == Adaptive /\ periods[t] >= Margin
<1>4. Takes => CompleteExportation(t, t)  BY <1>2 DEF EnterNextPeriod
<1>5. ~Takes => UNCHANGED queueVars  BY <1>2 DEF EnterNextPeriod
<1>6. Takes => next_period[t][t] = periods[t] - Margin
  BY <1>2 DEF OwnInv, KnownPeriods
<1>7. \A w, v \in Thread :
        next_period'[w][v] = IF Takes /\ w = t /\ v = t THEN next_period[w][v] + 1
                                                     ELSE next_period[w][v]
  <2>1. next_period \in [Thread -> [Thread -> Period]]  BY DEF TypeOK, QueueTypeOK
  <2>2. CASE Takes
    <3>1. next_period' = [next_period EXCEPT ![t][t] = @ + 1]
      BY <1>4, <2>2 DEF CompleteExportation
    <3> QED  BY <2>1, <2>2, <3>1
  <2>3. CASE ~Takes  BY <1>5, <2>3 DEF queueVars
  <2> QED  BY <2>2, <2>3
<1>8. Takes => next_period[t][t] <= MaxPeriod  BY <1>2, <1>6
<1>9. next_mem_acc_lim' \in [Thread -> Nat]
  <2>1. CASE periods[t] < Margin  BY <2>1, <1>2 DEF EnterNextPeriod, TypeOK
  <2>2. CASE periods[t] >= Margin
    <3>1. MeanPeriodLength(t) \in Nat /\ mem_acc_lim[t] \in Nat
      BY <2>2, MeanPeriodLengthType DEF TypeOK
    <3> QED  BY <3>1, <2>2, <1>2 DEF EnterNextPeriod, TypeOK
  <2> QED  BY <2>1, <2>2, <1>2
<1>10. TypeOK'
  <2>1. QueueTypeOK'
    BY <1>4, <1>5, <1>8, CompleteExportationType, QueueTypeUnchanged DEF TypeOK
  <2>2. SharerTypeOK'  BY <1>1, SharerTypeUnchanged DEF TypeOK
  <2>3. pc' \in [Thread -> PC]  BY <1>1, <1>2 DEF Goto, PC
  <2>4. periods' \in [Thread -> 0 .. MaxPeriod]  BY <1>1, <1>2, <1>3
  <2>5. mem_acc_lim' \in [Thread -> Nat]  BY <1>1, <1>9 DEF TypeOK
  <2> QED  BY <1>1, <1>9, <2>1, <2>2, <2>3, <2>4, <2>5 DEF TypeOK
<1>11. last' = last /\ completed' = completed /\ head' = head
  BY <1>4, <1>5 DEF CompleteExportation, queueVars
<1>12. \A v \in Thread : NumCompleted(v)' = NumCompleted(v)
  BY <1>1, <1>2, <1>11 DEF Goto, NumCompleted
<1>13. LastInv'
  BY <1>1, <1>2, <1>11 DEF LastInv, Goto, Pushed, Importing
<1>14. CompletedInv'  BY <1>11, <1>12 DEF CompletedInv
<1>15. SolvingInv'
  BY <1>1, <1>2, <1>3 DEF SolvingInv, Goto, Pushed, Importing
<1>16. AtSetInv' /\ CopyInv' /\ BlockedInv'
  BY <1>1, <1>2, <1>7, <1>11, OffSetStep
<1>17. TakenInv'  BY <1>7, <1>12 DEF TakenInv
<1>18. OwnInv'
  <2> SUFFICES ASSUME NEW v \in Thread
               PROVE  next_period'[v][v] =
                        IF Adaptive THEN KnownPeriods(periods'[v]) ELSE 0
    BY DEF OwnInv
  <2>1. next_period[v][v] = IF Adaptive THEN KnownPeriods(periods[v]) ELSE 0
    BY DEF OwnInv
  <2>2. CASE v # t  BY <1>1, <1>2, <1>7, <2>1, <2>2
  <2>3. CASE v = t
    <3>1. periods'[t] = periods[t] + 1 /\ periods[t] \in Nat  BY <1>1, <1>2
    <3> QED  BY <1>7, <2>1, <2>3, <3>1 DEF KnownPeriods
  <2> QED  BY <2>2, <2>3
<1>19. HeadInv'
  <2> SUFFICES ASSUME NEW w \in Thread, NEW v \in Thread
               PROVE  head[w] <= next_period'[w][v]
    BY <1>11 DEF HeadInv
  <2>1. head[w] <= next_period[w][v]  BY DEF HeadInv
  <2>2. head[w] \in Int /\ next_period[w][v] \in Int
    BY DEF TypeOK, QueueTypeOK, Period
  <2> QED  BY <1>7, <2>1, <2>2
<1>20. CountInv'
  BY <1>4, <1>5, <1>8, CountTaken, CountUnchanged DEF TypeOK, queueVars
<1> QED  BY <1>10, <1>13, <1>14, <1>15, <1>16, <1>17, <1>18, <1>19, <1>20

\* A solver asks whether to stop.
LEMMA GTestTermination ==
  ASSUME GInv, NEW t \in Thread,
         pc[t] \in {"check", "search", "restart"},
         NEW label \in {"search", "restart", "stop"}, Goto(t, label),
         UNCHANGED <<fate, solving, i, expired, solverVars, queueVars, sharerVars>>
  PROVE  GInv'
<1> USE DEF GInv
<1>1. pc \in [Thread -> PC]  BY DEF TypeOK
<1>2. TypeOK'
  <2>1. QueueTypeOK'  BY QueueTypeUnchanged DEF TypeOK
  <2>2. SharerTypeOK'  BY SharerTypeUnchanged DEF TypeOK
  <2>3. pc' \in [Thread -> PC]  BY <1>1 DEF Goto, PC
  <2> QED  BY <2>1, <2>2, <2>3 DEF TypeOK, solverVars
<1>3. LastInv' /\ CompletedInv' /\ TakenInv' /\ OwnInv' /\ CountInv'
  <2>1. Pushed(t)' = Pushed(t)  BY <1>1 DEF Goto, Pushed, Importing
  <2> QED  BY <2>1, QuietStep DEF solverVars, queueVars
<1>4. SolvingInv'
  BY <1>1 DEF SolvingInv, Goto, Pushed, Importing, solverVars
<1>5. AtSetInv' /\ CopyInv' /\ BlockedInv'
  BY OffSetStep DEF solverVars, queueVars
<1>6. HeadInv'  BY DEF HeadInv, queueVars
<1> QED  BY <1>2, <1>3, <1>4, <1>5, <1>6

\* The question at the end of checkPeriod.
LEMMA GCheckTermination ==
  ASSUME GInv, NEW t \in Thread, CheckTermination(t)
  PROVE  GInv'
<1>1. PICK label \in {"search", "restart", "stop"} : Goto(t, label)
  BY DEF CheckTermination, TestTermination
<1> QED  BY <1>1, GTestTermination DEF CheckTermination

\* The question in the loop of restarts.
LEMMA GRestart ==
  ASSUME GInv, NEW t \in Thread, Restart(t)
  PROVE  GInv'
<1>1. PICK label \in {"search", "restart", "stop"} : Goto(t, label)
  BY DEF Restart, TestTermination
<1> QED  BY <1>1, GTestTermination DEF Restart

\* A base solver returns.
LEMMA GReturn ==
  ASSUME GInv, NEW t \in Thread, NEW status \in SATResult,
         pc[t] \in {"search", "stop"}, Return(t, status)
  PROVE  GInv'
<1> USE DEF GInv, Return
<1>1. /\ pc \in [Thread -> PC] /\ solving \in [Thread -> BOOLEAN]
      /\ periods[t] \in 0 .. MaxPeriod
  BY DEF TypeOK
<1>2. TypeOK'
  <2>1. QueueTypeOK'  BY QueueTypeUnchanged DEF TypeOK
  <2>2. SharerTypeOK'  BY <1>1, IFinishedType DEF TypeOK
  <2>3. pc' \in [Thread -> PC] /\ solving' \in [Thread -> BOOLEAN]
    BY <1>1 DEF Goto, PC
  <2> QED  BY <2>1, <2>2, <2>3 DEF TypeOK, solverVars
<1>3. LastInv' /\ CompletedInv' /\ TakenInv' /\ OwnInv' /\ CountInv'
  <2>1. Pushed(t)' = Pushed(t)  BY <1>1 DEF Goto, Pushed, Importing
  <2> QED  BY <2>1, QuietStep DEF solverVars, queueVars
<1>4. SolvingInv'
  BY <1>1 DEF SolvingInv, Goto, Pushed, Importing, solverVars
<1>5. AtSetInv' /\ CopyInv' /\ BlockedInv'
  BY OffSetStep DEF solverVars, queueVars
<1>6. HeadInv'  BY DEF HeadInv, queueVars
<1> QED  BY <1>2, <1>3, <1>4, <1>5, <1>6

\* It returns the answer.
LEMMA GFinish ==
  ASSUME GInv, NEW t \in Thread, Finish(t)
  PROVE  GInv'
BY GReturn DEF Finish, SATResult

\* It returns because it has been told to stop.
LEMMA GStop ==
  ASSUME GInv, NEW t \in Thread, Stop(t)
  PROVE  GInv'
<1>1. PICK status \in SATResult : Return(t, status)
  BY DEF Stop, SATResult
<1> QED  BY <1>1, GReturn DEF Stop

\* A thread passes its time limit, or all is over.
LEMMA GTick ==
  ASSUME GInv, Tick \/ UNCHANGED vars
  PROVE  GInv'
<1> USE DEF GInv
<1>1. UNCHANGED <<pc, fate, solving, i, solverVars, queueVars, sharerVars>>
  BY DEF Tick, vars
<1>2. expired' \in 0 .. NumThreads  BY DEF TypeOK, Tick, vars
<1>3. TypeOK'
  <2>1. QueueTypeOK'  BY <1>1, QueueTypeUnchanged DEF TypeOK
  <2>2. SharerTypeOK'  BY <1>1, SharerTypeUnchanged DEF TypeOK
  <2> QED  BY <1>1, <1>2, <2>1, <2>2 DEF TypeOK, solverVars
<1>4. LastInv' /\ SolvingInv'
  BY <1>1 DEF LastInv, SolvingInv, Pushed, solverVars, queueVars
<1>5. CompletedInv' /\ TakenInv'
  BY <1>1 DEF CompletedInv, TakenInv, NumCompleted, queueVars
<1>6. AtSetInv' /\ CopyInv' /\ BlockedInv'
  BY <1>1 DEF AtSetInv, CopyInv, BlockedInv, AtSet, Target, TargetPeriod,
              solverVars, queueVars
<1>7. OwnInv' /\ HeadInv'  BY <1>1 DEF OwnInv, HeadInv, solverVars, queueVars
<1>8. CountInv'  BY <1>1, CountUnchanged DEF queueVars
<1> QED  BY <1>3, <1>4, <1>5, <1>6, <1>7, <1>8

-----------------------------------------------------------------------------
(* The invariant and what follows from it.                                 *)

\* Every step preserves GInv.
LEMMA GStep == GInv /\ [Next]_vars => GInv'
<1> SUFFICES ASSUME GInv, [Next]_vars PROVE GInv'  OBVIOUS
<1>1. CASE \E t \in Thread : ThreadStep(t)
  <2>1. PICK t \in Thread : ThreadStep(t)  BY <1>1
  <2> QED
    BY <2>1, GBeginExport, GEndExport, GPush, GComplete, GRemoveSets, GGetSet,
       GNextTarget, GCheckCompleted, GCopy, GEnterNextPeriod, GCheckTermination,
       GRestart, GFinish, GStop
       DEF ThreadStep
<1>2. CASE Tick \/ UNCHANGED vars  BY <1>2, GTick
<1> QED  BY <1>1, <1>2 DEF Next, Terminating

\* Every run of the workers satisfies GInv, whatever the mode and the limits.
THEOREM Exchange == Spec => []GInv
<1> QED  BY GInit, GStep, PTL DEF Spec

\* The variables of the exchange have the types TypeOK gives them; in
\* particular no thread leaves the ring, and no queue the periods it has.
THEOREM TypeCorrect == Spec => []TypeOK
<1>1. GInv => TypeOK  BY DEF GInv
<1> QED  BY <1>1, Exchange, PTL

\* importClauses copies clauses out of complete sets only.
THEOREM ReadsComplete == Spec => []NoReadBeforeComplete
<1>1. GInv => NoReadBeforeComplete  BY DEF GInv, CopyInv, NoReadBeforeComplete
<1> QED  BY <1>1, Exchange, PTL

\* completeAddtion removes from a queue only sets that all threads have taken.
THEOREM RemovalIsSafe == Spec => []RemovedAreTaken
<1>1. GInv => RemovedAreTaken  BY DEF GInv, HeadInv, RemovedAreTaken
<1> QED  BY <1>1, Exchange, PTL

\* The assertions of PrdClausesQueue::get hold.
THEOREM GetInRange == Spec => []QueueIndexInRange
<1>1. GInv => QueueIndexInRange
  <2> SUFFICES ASSUME GInv, NEW t \in Thread
               PROVE  /\ pc[t] = "wait" => /\ TargetPeriod(t) >= head[Target(t)]
                                           /\ TargetPeriod(t) <= last[Target(t)]
                      /\ pc[t] = "import" /\ Adaptive /\ periods[t] >= Margin =>
                           /\ head[t] <= periods[t] - Margin
                           /\ next_period[t][t] = periods[t] - Margin
    BY DEF QueueIndexInRange
  <2> USE DEF GInv
  <2>1. ASSUME pc[t] = "wait"
        PROVE  TargetPeriod(t) >= head[Target(t)] /\ TargetPeriod(t) <= last[Target(t)]
    <3>1. Target(t) \in Thread \ {t}  BY <2>1, AtAnothersSet DEF AtSet
    <3>2. head[Target(t)] \in Int /\ last[Target(t)] \in Int /\ TargetPeriod(t) \in Int
      BY <3>1 DEF TypeOK, QueueTypeOK, Period, TargetPeriod
    <3>3. head[Target(t)] <= TargetPeriod(t)  BY <3>1 DEF HeadInv, TargetPeriod
    <3>4. TargetPeriod(t) <= NumCompleted(Target(t))  BY <3>1 DEF TakenInv, TargetPeriod
    <3> QED  BY <3>2, <3>3, <3>4 DEF NumCompleted
  <2>2. ASSUME Adaptive, periods[t] >= Margin
        PROVE  head[t] <= periods[t] - Margin /\ next_period[t][t] = periods[t] - Margin
    <3>1. next_period[t][t] = periods[t] - Margin
      BY <2>2 DEF OwnInv, KnownPeriods, TypeOK
    <3> QED  BY <3>1 DEF HeadInv
  <2> QED  BY <2>1, <2>2
<1> QED  BY <1>1, Exchange, PTL

-----------------------------------------------------------------------------
(*************************************************************************)
(* Deterministic mode: the queues and the waiting in importClauses are a *)
(* barrier that the threads may pass Margin periods late, whatever the   *)
(* limits are and however the searches end.                              *)
(*************************************************************************)

\* What the two invariants of the barrier keep from step to step: no thread
\* enters a period, none takes a set, and a thread that imports was at the
\* same thread of the ring before.
LEMMA BQuiet ==
  ASSUME BInv, UNCHANGED <<periods, next_period>>,
         \A u \in Thread :
           pc'[u] \in Importing => pc[u] \in Importing /\ i'[u] = i[u]
  PROVE  KnownInv' /\ VisitedInv'
<1>1. KnownInv'  BY DEF BInv, KnownInv
<1>2. VisitedInv'  BY DEF BInv, VisitedInv
<1> QED  BY <1>1, <1>2

\* After completing a period a thread starts the loop with the next thread.
LEMMA BRemoveSets ==
  ASSUME BInv, NEW t \in Thread, RemoveSets(t)
  PROVE  KnownInv' /\ VisitedInv'
<1> USE DEF BInv, RemoveSets, RemoveExported
<1>1. pc \in [Thread -> PC] /\ i \in [Thread -> 1 .. NumThreads]
  BY DEF GInv, TypeOK
<1>2. KnownInv'  BY DEF KnownInv
<1>3. VisitedInv'
  <2> SUFFICES ASSUME NEW u \in Thread, pc'[u] \in Importing, periods[u] >= Margin,
                      NEW j \in 1 .. i'[u] - 1
               PROVE  periods[u] - Margin < next_period[(u + j) % NumThreads][u]
    BY DEF VisitedInv
  <2>1. u # t  BY <1>1
  <2>2. pc'[u] = pc[u] /\ i'[u] = i[u]  BY <1>1, <2>1 DEF Goto
  <2> QED  BY <2>2 DEF VisitedInv
<1> QED  BY <1>2, <1>3

\* The loop leaves a thread only when it has taken its sets of all periods up
\* to the one that is due.
LEMMA BNextTarget ==
  ASSUME BInv, NEW t \in Thread, NextTarget(t)
  PROVE  KnownInv' /\ VisitedInv'
<1> USE DEF BInv, GInv, NextTarget
<1>1. /\ i \in [Thread -> 1 .. NumThreads]
      /\ i[t] \in 1 .. NumThreads - 1
      /\ periods' = periods /\ next_period' = next_period
  <2>1. i \in [Thread -> 1 .. NumThreads]  BY DEF TypeOK
  <2>2. i[t] \in 1 .. NumThreads - 1  BY <2>1
  <2> QED  BY <2>1, <2>2 DEF solverVars, queueVars
<1>2. KnownInv'  BY <1>1 DEF KnownInv
<1>3. periods[t] - Margin < TargetPeriod(t)
  <2>1. Target(t) \in Thread  BY <1>1, TargetIsOther DEF Target
  <2>2. head[Target(t)] <= TargetPeriod(t)  BY <2>1 DEF HeadInv, TargetPeriod
  <2>3. TargetPeriod(t) \in Int  BY <2>1 DEF TypeOK, QueueTypeOK, Period, TargetPeriod
  <2>4. periods[t] \in Int  BY DEF TypeOK
  <2>5. ~(TargetPeriod(t) <= periods[t] - Margin /\ head[Target(t)] <= TargetPeriod(t))
    BY DEF Available, TargetPeriod
  <2> QED  BY <2>2, <2>3, <2>4, <2>5
<1>4. VisitedInv'
  <2> SUFFICES ASSUME NEW u \in Thread, pc[u] \in Importing, periods[u] >= Margin,
                      NEW j \in 1 .. i'[u] - 1
               PROVE  periods[u] - Margin < next_period[(u + j) % NumThreads][u]
    BY <1>1 DEF VisitedInv
  <2>1. CASE u # t  BY <1>1, <2>1 DEF VisitedInv
  <2>2. CASE u = t /\ j = i[t]  BY <1>3, <2>2 DEF Target, TargetPeriod
  <2>3. CASE u = t /\ j # i[t]
    <3>1. j \in 1 .. i[t] - 1  BY <1>1, <2>3
    <3> QED  BY <2>3, <3>1 DEF VisitedInv
  <2> QED  BY <2>1, <2>2, <2>3
<1> QED  BY <1>2, <1>4

\* The sets a thread has taken only grow.
LEMMA BCopy ==
  ASSUME BInv, NEW t \in Thread, Copy(t)
  PROVE  KnownInv' /\ VisitedInv'
<1> USE DEF BInv, GInv
<1> DEFINE u == Target(t)
<1>1. /\ pc[t] = "copy" /\ Goto(t, "import") /\ CompleteExportation(u, t)
      /\ periods' = periods /\ i' = i
  BY DEF Copy
<1>2. u \in Thread /\ next_period \in [Thread -> [Thread -> Period]]
  BY <1>1, AtAnothersSet DEF AtSet, TypeOK, QueueTypeOK
<1>3. \A w, v \in Thread : /\ next_period[w][v] \in Int
                           /\ next_period'[w][v] \in Int
                           /\ next_period[w][v] <= next_period'[w][v]
  <2>1. \A w, v \in Thread : next_period[w][v] \in Int  BY <1>2 DEF Period
  <2>2. next_period' = [next_period EXCEPT ![u][t] = @ + 1]
    BY <1>1 DEF CompleteExportation
  <2> QED  BY <1>2, <2>1, <2>2
<1>4. \A v \in Thread : periods[v] \in Nat /\ i[v] \in 1 .. NumThreads
  BY DEF TypeOK
<1> HIDE DEF u
<1>5. KnownInv'
  <2> SUFFICES ASSUME NEW v \in Thread, NEW w \in Thread, v # w
               PROVE  KnownPeriods(periods[v]) <= next_period'[w][v]
    BY <1>1 DEF KnownInv
  <2>1. periods[v] \in Nat  BY <1>4
  <2>2. KnownPeriods(periods[v]) \in Int  BY <2>1 DEF KnownPeriods
  <2>3. KnownPeriods(periods[v]) <= next_period[w][v]  BY DEF KnownInv
  <2>4. /\ next_period[w][v] \in Int /\ next_period'[w][v] \in Int
        /\ next_period[w][v] <= next_period'[w][v]
    BY <1>3
  <2> QED  BY <2>2, <2>3, <2>4
<1>6. VisitedInv'
  <2> SUFFICES ASSUME NEW v \in Thread, pc'[v] \in Importing, periods[v] >= Margin,
                      NEW j \in 1 .. i[v] - 1
               PROVE  periods[v] - Margin < next_period'[(v + j) % NumThreads][v]
    BY <1>1 DEF VisitedInv
  <2>1. pc[v] \in Importing  BY <1>1 DEF Goto, Importing, TypeOK
  <2>0. i[v] \in 1 .. NumThreads /\ periods[v] \in Nat  BY <1>4
  <2>2. j \in 1 .. NumThreads - 1  BY <2>0
  <2>3. (v + j) % NumThreads \in Thread  BY <2>2, TargetIsOther
  <2>4. periods[v] - Margin < next_period[(v + j) % NumThreads][v]
    BY <2>1 DEF VisitedInv
  <2> DEFINE w == (v + j) % NumThreads
  <2>5. /\ next_period[w][v] \in Int /\ next_period'[w][v] \in Int
        /\ next_period[w][v] <= next_period'[w][v]
    BY <1>3, <2>3
  <2> HIDE DEF w
  <2>6. periods[v] - Margin < next_period'[w][v]  BY <2>0, <2>4, <2>5 DEF w
  <2> QED  BY <2>6 DEF w
<1> QED  BY <1>5, <1>6

\* A thread that has been through the loop has taken, from every other
\* thread, its sets of all periods up to the one that is due.
LEMMA LoopIsOver ==
  ASSUME BInv, NEW t \in Thread, pc[t] = "import", i[t] = NumThreads,
         periods[t] >= Margin, NEW u \in Thread \ {t}
  PROVE  periods[t] - Margin < next_period[u][t]
<1>1. PICK j \in 1 .. NumThreads - 1 : (t + j) % NumThreads = u
  BY EveryOtherIsTarget
<1> QED  BY <1>1 DEF BInv, VisitedInv, Importing

\* So it knows the sets it has to know in the next period.
LEMMA BEnterNextPeriod ==
  ASSUME BInv, NEW t \in Thread, EnterNextPeriod(t)
  PROVE  KnownInv' /\ VisitedInv'
<1> USE DEF BInv, GInv
<1>1. /\ pc[t] = "import" /\ Goto(t, "check")
      /\ periods' = [periods EXCEPT ![t] = @ + 1] /\ i' = i
      /\ CompleteExportation(t, t) \/ UNCHANGED queueVars
  BY DEF EnterNextPeriod
<1>2. /\ pc \in [Thread -> PC] /\ periods \in [Thread -> 0 .. MaxPeriod]
      /\ next_period \in [Thread -> [Thread -> Period]]
  BY DEF TypeOK, QueueTypeOK
<1>6. periods[t] >= Margin => i[t] = NumThreads
  <2>1. periods[t] \in Nat  BY <1>2
  <2> QED  BY <2>1 DEF EnterNextPeriod
<1>3. \A w, v \in Thread : w # v => next_period'[w][v] = next_period[w][v]
  BY <1>1, <1>2 DEF CompleteExportation, queueVars
<1>4. KnownInv'
  <2> SUFFICES ASSUME NEW v \in Thread, NEW w \in Thread, v # w
               PROVE  KnownPeriods(periods'[v]) <= next_period[w][v]
    BY <1>3 DEF KnownInv
  <2>1. KnownPeriods(periods[v]) <= next_period[w][v]  BY DEF KnownInv
  <2>2. CASE v # t  BY <1>1, <1>2, <2>1, <2>2
  <2>3. CASE v = t
    <3>1. periods'[t] = periods[t] + 1 /\ periods[t] \in Nat  BY <1>1, <1>2
    <3>2. next_period[w][t] \in Nat  BY <1>2 DEF Period
    <3>3. periods[t] >= Margin => periods[t] - Margin < next_period[w][t]
      BY <1>1, <1>6, <2>3, LoopIsOver
    <3>4. CASE periods[t] < Margin
      <4>1. KnownPeriods(periods[t] + 1) = 0  BY <3>1, <3>4 DEF KnownPeriods
      <4> QED  BY <2>3, <3>1, <3>2, <4>1
    <3>5. CASE periods[t] >= Margin
      <4>1. KnownPeriods(periods[t] + 1) = periods[t] - Margin + 1
        BY <3>1, <3>5 DEF KnownPeriods
      <4> QED  BY <2>3, <3>1, <3>2, <3>3, <3>5, <4>1
    <3> QED  BY <3>1, <3>4, <3>5
  <2> QED  BY <2>2, <2>3
<1>5. VisitedInv'
  <2> SUFFICES ASSUME NEW v \in Thread, pc'[v] \in Importing, periods'[v] >= Margin,
                      NEW j \in 1 .. i[v] - 1
               PROVE  periods'[v] - Margin < next_period'[(v + j) % NumThreads][v]
    BY <1>1 DEF VisitedInv
  <2>1. v # t /\ pc[v] = pc'[v] /\ periods'[v] = periods[v]
    BY <1>1, <1>2 DEF Goto, Importing
  <2>4. i[v] \in 1 .. NumThreads  BY DEF TypeOK
  <2>2. j \in 1 .. NumThreads - 1  BY <2>4
  <2>3. (v + j) % NumThreads \in Thread \ {v}  BY <2>2, TargetIsOther
  <2> QED  BY <1>3, <2>1, <2>3 DEF VisitedInv
<1> QED  BY <1>4, <1>5

-----------------------------------------------------------------------------

\* The first states.
LEMMA BInit == Init => BInv
<1> SUFFICES ASSUME Init PROVE KnownInv /\ VisitedInv
  BY GInit DEF BInv
<1>1. KnownPeriods(0) = 0  BY DEF KnownPeriods
<1> QED  BY <1>1 DEF Init, QueueInit, KnownInv, VisitedInv, Importing

\* Every step in deterministic mode preserves the invariant of the barrier.
LEMMA BStep ==
  ASSUME ~NonDet
  PROVE  BInv /\ [Next]_vars => BInv'
<1> SUFFICES ASSUME BInv, [Next]_vars PROVE KnownInv' /\ VisitedInv'
  BY GStep DEF BInv
<1>1. pc \in [Thread -> PC]  BY DEF BInv, GInv, TypeOK
<1>2. ASSUME NEW t \in Thread, NEW label, label \notin Importing, Goto(t, label),
             UNCHANGED <<periods, next_period, i>>
      PROVE  KnownInv' /\ VisitedInv'
  BY <1>1, <1>2, BQuiet DEF Goto
<1>3. ASSUME NEW t \in Thread, pc[t] \in Importing,
             UNCHANGED <<periods, next_period, i>>,
             NEW label, Goto(t, label)
      PROVE  KnownInv' /\ VisitedInv'
  BY <1>1, <1>3, BQuiet DEF Goto
<1>4. ASSUME NEW t \in Thread, ThreadStep(t)
      PROVE  KnownInv' /\ VisitedInv'
  <2>1. CASE BeginExport(t)
    BY <1>2, <2>1 DEF BeginExport, AddClauses, Importing, solverVars
  <2>2. CASE EndExport(t)
    BY <1>2, <2>2 DEF EndExport, AddClauses, Importing, solverVars
  <2>3. CASE Push(t)
    BY <1>2, <2>3 DEF Push, PushNext, Importing, solverVars
  <2>4. CASE Complete(t)
    <3>1. \A u \in Thread : pc'[u] \in Importing => pc[u] \in Importing
      BY <2>4 DEF Complete, Waiters, Importing
    <3>2. UNCHANGED <<periods, next_period, i>>
      BY <2>4 DEF Complete, CompleteAddition, solverVars
    <3> QED  BY <3>1, <3>2, BQuiet
  <2>5. CASE GetSet(t)
    BY <1>3, <2>5 DEF GetSet, Importing, solverVars, queueVars
  <2>6. CASE CheckCompleted(t)
    BY <1>3, <2>6 DEF CheckCompleted, Importing, solverVars, queueVars
  <2>7. CASE CheckTermination(t)
    <3>1. PICK label \in {"search", "restart", "stop"} : Goto(t, label)
      BY <2>7 DEF CheckTermination, TestTermination
    <3> QED  BY <1>2, <2>7, <3>1 DEF CheckTermination, Importing, solverVars, queueVars
  <2>8. CASE Restart(t)
    <3>1. PICK label \in {"search", "stop"} : Goto(t, label)
      BY <2>8 DEF Restart, TestTermination
    <3> QED  BY <1>2, <2>8, <3>1 DEF Restart, Importing, solverVars, queueVars
  <2>9. CASE Finish(t) \/ Stop(t)
    <3>1. PICK status : Return(t, status)  BY <2>9 DEF Finish, Stop
    <3> QED  BY <1>2, <3>1 DEF Return, Importing, solverVars, queueVars
  <2> QED
    BY <1>4, <2>1, <2>2, <2>3, <2>4, <2>5, <2>6, <2>7, <2>8, <2>9, BRemoveSets,
       BNextTarget, BCopy, BEnterNextPeriod
       DEF ThreadStep
<1>5. CASE Tick \/ UNCHANGED vars
  BY <1>5, BQuiet DEF Tick, vars, solverVars, queueVars
<1> QED  BY <1>4, <1>5 DEF Next, Terminating

\* In deterministic mode a thread in period p has taken the sets of all others
\* up to period p - Margin - 1.
THEOREM BarrierInvariant ==
  ASSUME ~NonDet
  PROVE  Spec => []BInv
<1> QED  BY BInit, BStep, PTL DEF Spec

-----------------------------------------------------------------------------
(* The abstract barrier.                                                   *)

\* Nobody has completed a period.
LEMMA BarrierInit == Init => Barrier!Init
BY DEF Init, QueueInit, Barrier!Init

\* Completing a set completes the period of its owner.
LEMMA CompleteIsCompletePeriod ==
  ASSUME BInv, NEW t \in Thread, Complete(t)
  PROVE  Barrier!CompletePeriod(t)
<1> USE DEF BInv, GInv
<1>1. PICK len : CompleteAddition(t, len)  BY DEF Complete
<1>2. last[t] \in Period /\ periods[t] \in 0 .. MaxPeriod  BY DEF TypeOK, QueueTypeOK
<1>3. last[t] - 1 = periods[t]
  <2>1. last[t] = periods[t] + 1  BY DEF Complete, LastInv, Pushed
  <2> QED  BY <1>2, <2>1
<1>4. ~completed[t][periods[t]]
  <2>1. periods[t] \in Period /\ NumCompleted(t) = periods[t]
    BY <1>2, <1>3 DEF Complete, NumCompleted, Period
  <2>2. completed[t][periods[t]] <=> periods[t] < NumCompleted(t)
    BY <2>1 DEF CompletedInv
  <2> QED  BY <1>2, <2>1, <2>2
<1>5. completed' = [completed EXCEPT ![t][periods[t]] = TRUE]
  BY <1>1, <1>3 DEF CompleteAddition
<1>6. periods' = periods  BY DEF Complete, solverVars
<1> QED  BY <1>4, <1>5, <1>6 DEF Barrier!CompletePeriod

\* A thread that leaves a period has completed it, and knows that all others
\* have completed the one Margin periods before.
LEMMA EnterIsLeavePeriod ==
  ASSUME BInv, NEW t \in Thread, EnterNextPeriod(t)
  PROVE  Barrier!LeavePeriod(t)
<1> USE DEF BInv, GInv
<1>1. pc[t] = "import" /\ periods' = [periods EXCEPT ![t] = @ + 1]
  BY DEF EnterNextPeriod
<1>2. completed' = completed
  <2>1. CompleteExportation(t, t) \/ UNCHANGED queueVars  BY DEF EnterNextPeriod
  <2> QED  BY <2>1 DEF CompleteExportation, queueVars
<1>3. periods[t] \in 0 .. MaxPeriod /\ \A u \in Thread : last[u] \in Period
  BY DEF TypeOK, QueueTypeOK
<1>4. \A u \in Thread : NumCompleted(u) \in Int
  BY <1>3 DEF NumCompleted, Period
<1>5. NumCompleted(t) = periods[t] + 1
  BY <1>1 DEF NumCompleted, LastInv, Pushed, Importing
<1>6. ASSUME NEW u \in Thread, NEW p \in 0 .. MaxPeriod, p < NumCompleted(u)
      PROVE  completed[u][p]
  BY <1>6 DEF CompletedInv, Period
<1>7. completed[t][periods[t]]  BY <1>3, <1>5, <1>6
<1>8. ASSUME periods[t] >= Margin, NEW u \in Thread
      PROVE  completed[u][periods[t] - Margin]
  <2>1. periods[t] - Margin \in 0 .. MaxPeriod  BY <1>3, <1>8
  <2>2. CASE u = t  BY <1>3, <1>5, <1>6, <2>1, <2>2
  <2>3. CASE u # t
    <3>1. i[t] = NumThreads  BY <1>3, <1>8 DEF EnterNextPeriod
    <3>2. periods[t] - Margin < next_period[u][t]
      BY <1>1, <1>8, <2>3, <3>1, LoopIsOver
    <3>3. next_period[u][t] <= NumCompleted(u)  BY <2>3 DEF TakenInv
    <3>4. next_period[u][t] \in Int  BY DEF TypeOK, QueueTypeOK, Period
    <3>5. periods[t] - Margin < NumCompleted(u)
      BY <1>4, <2>1, <3>2, <3>3, <3>4
    <3> QED  BY <1>6, <2>1, <3>5
  <2> QED  BY <2>2, <2>3
<1> QED  BY <1>1, <1>2, <1>7, <1>8 DEF Barrier!LeavePeriod

\* Every other step leaves the barrier alone.
LEMMA BarrierStep ==
  BInv /\ [Next]_vars => [Barrier!Next]_(Barrier!barrierVars)
<1> SUFFICES ASSUME BInv, [Next]_vars
             PROVE  [Barrier!Next]_(Barrier!barrierVars)
  OBVIOUS
<1>1. ASSUME NEW t \in Thread, ThreadStep(t)
      PROVE  [Barrier!Next]_(Barrier!barrierVars)
  <2>1. CASE Complete(t)
    BY <2>1, CompleteIsCompletePeriod DEF Barrier!Next
  <2>2. CASE EnterNextPeriod(t)
    BY <2>2, EnterIsLeavePeriod DEF Barrier!Next
  <2>3. CASE ~Complete(t) /\ ~EnterNextPeriod(t)
    <3>1. UNCHANGED <<periods, completed>>
      BY <1>1, <2>3
         DEF ThreadStep, BeginExport, EndExport, Push, RemoveSets, GetSet,
             NextTarget, CheckCompleted, Copy, CheckTermination, Restart,
             Finish, Stop, Return, AddClauses, PushNext, RemoveExported,
             CompleteExportation, solverVars, queueVars
    <3> QED  BY <3>1 DEF Barrier!barrierVars
  <2> QED  BY <2>1, <2>2, <2>3
<1>2. CASE Tick \/ UNCHANGED vars
  BY <1>2 DEF Tick, vars, solverVars, queueVars, Barrier!barrierVars
<1> QED  BY <1>1, <1>2 DEF Next, Terminating

\* In deterministic mode the exchange implements a barrier that is passed
\* Margin periods late.
THEOREM Refinement ==
  ASSUME ~NonDet
  PROVE  Spec => ImplementsDelayedBarrier
<1>1. Spec => []BInv  BY BarrierInvariant
<1> QED
  BY <1>1, BarrierInit, BarrierStep, PTL
     DEF Spec, ImplementsDelayedBarrier, Barrier!Spec

\* A thread in period p has taken the sets of all others up to p - Margin - 1.
LEMMA Close ==
  ASSUME BInv, NEW t \in Thread, NEW u \in Thread
  PROVE  periods[t] <= periods[u] + Margin + 1
<1> USE DEF BInv, GInv
<1>1. /\ periods[t] \in Nat /\ periods[u] \in Nat
      /\ last[u] \in Int /\ next_period[u][t] \in Int
  BY DEF TypeOK, QueueTypeOK, Period
<1>2. CASE t = u  BY <1>1, <1>2
<1>3. CASE t # u
  <2>1. KnownPeriods(periods[t]) <= next_period[u][t]  BY <1>3 DEF KnownInv
  <2>2. next_period[u][t] <= NumCompleted(u)  BY <1>3 DEF TakenInv
  <2>3. NumCompleted(u) <= last[u]  BY <1>1 DEF NumCompleted
  <2>4. last[u] <= periods[u] + 1  BY <1>1 DEF LastInv
  <2>5. NumCompleted(u) \in Int  BY <1>1 DEF NumCompleted
  <2> QED  BY <1>1, <2>1, <2>2, <2>3, <2>4, <2>5 DEF KnownPeriods
<1> QED  BY <1>2, <1>3

\* No thread gets more than Margin + 1 periods ahead of another.
THEOREM StayClose ==
  ASSUME ~NonDet
  PROVE  Spec => []PeriodsStayClose
<1>1. BInv => PeriodsStayClose  BY Close DEF PeriodsStayClose
<1>2. Spec => []BInv  BY BarrierInvariant
<1> QED  BY <1>1, <1>2, PTL

-----------------------------------------------------------------------------
(* The length of the queues, with the adaptive strategy.                   *)

\* The removal loop stops at a set that some thread has not taken: one of the
\* last 2 * (Margin + 1) periods.
LEMMA LRemoveSets ==
  ASSUME Adaptive, BInv, NEW t \in Thread, RemoveSets(t)
  PROVE  last[t] - head'[t] <= 2 * (Margin + 1)
<1> USE DEF BInv, GInv
<1>1. PICK h \in head[t] .. last[t] :
        RemovalStopsAt(t, h) /\ head' = [head EXCEPT ![t] = h]
  BY DEF RemoveSets, RemoveExported
<1>2. /\ head'[t] = h /\ h \in Period /\ h \in Int
      /\ \A u \in Thread : periods[u] \in Nat /\ next_period[t][u] \in Int
  <2>1. /\ head \in [Thread -> Period] /\ last[t] \in Period
        /\ periods \in [Thread -> 0 .. MaxPeriod]
        /\ next_period \in [Thread -> [Thread -> Period]]
    BY DEF TypeOK, QueueTypeOK
  <2>2. head[t] \in Nat /\ last[t] \in 0 .. MaxPeriod + 1  BY <2>1 DEF Period
  <2>3. h \in Period  BY <1>1, <2>2 DEF Period
  <2> QED  BY <1>1, <2>1, <2>3 DEF Period
<1>3. last[t] = periods[t] + 1  BY DEF RemoveSets, LastInv, Pushed
<1>4. CASE h = last[t]  BY <1>2, <1>3, <1>4
<1>5. CASE h # last[t]
  <2>1. num_exported_threads[t][h] # NumThreads
    BY <1>1, <1>5 DEF RemovalStopsAt
  <2>2. PICK u \in Thread : ~(next_period[t][u] > h)
    <3> SUFFICES ASSUME \A u \in Thread : next_period[t][u] > h
                 PROVE  FALSE
      OBVIOUS
    <3>1. {u \in Thread : next_period[t][u] > h} = Thread  OBVIOUS
    <3>2. num_exported_threads[t][h] = Cardinality(Thread)
      BY <1>2, <3>1 DEF CountInv
    <3> QED  BY <2>1, <3>2, ThreadCardinality
  <2>3. KnownPeriods(periods[u]) <= next_period[t][u]
    <3>1. CASE u = t
      <4>1. next_period[t][t] = KnownPeriods(periods[t])  BY DEF OwnInv
      <4>2. KnownPeriods(periods[t]) \in Int  BY <1>2 DEF KnownPeriods
      <4> QED  BY <3>1, <4>1, <4>2
    <3>2. CASE u # t  BY <3>2 DEF KnownInv
    <3> QED  BY <3>1, <3>2
  <2>4. periods[t] <= periods[u] + Margin + 1  BY Close
  <2>5. periods[u] - Margin <= KnownPeriods(periods[u])
        /\ KnownPeriods(periods[u]) \in Int
    BY <1>2 DEF KnownPeriods
  <2>6. periods[u] - Margin <= h  BY <1>2, <2>2, <2>3, <2>5
  <2> QED  BY <1>2, <1>3, <2>4, <2>6
<1> QED  BY <1>4, <1>5

\* Every step preserves LengthInv.
LEMMA LStep ==
  ASSUME Adaptive, BInv, LengthInv, [Next]_vars
  PROVE  LengthInv'
<1> USE DEF BInv, GInv
<1>1. /\ pc \in [Thread -> PC]
      /\ last \in [Thread -> Period] /\ head \in [Thread -> Period]
  BY DEF TypeOK, QueueTypeOK
<1>2. ASSUME UNCHANGED <<last, head>>,
             \A u \in Thread :
               pc[u] \in {"complete", "remove"} => pc'[u] \in {"complete", "remove"}
      PROVE  LengthInv'
  <2> SUFFICES ASSUME NEW u \in Thread
               PROVE  last[u] - head[u] <=
                        2 * (Margin + 1)
                          + IF pc'[u] \in {"complete", "remove"} THEN 1 ELSE 0
    BY <1>2 DEF LengthInv
  <2>1. last[u] \in Int /\ head[u] \in Int  BY <1>1 DEF Period
  <2>2. CASE pc[u] \in {"complete", "remove"}  BY <1>2, <2>2 DEF LengthInv
  <2>3. CASE pc[u] \notin {"complete", "remove"}
    <3>1. last[u] - head[u] <= 2 * (Margin + 1) + 0  BY <2>3 DEF LengthInv
    <3>2. \A l \in Int : l <= 2 * (Margin + 1) + 0 =>
            l <= 2 * (Margin + 1) /\ l <= 2 * (Margin + 1) + 1
      OBVIOUS
    <3> QED  BY <2>1, <3>1, <3>2
  <2> QED  BY <2>2, <2>3
<1>3. ASSUME NEW t \in Thread, NEW label, Goto(t, label), UNCHANGED <<last, head>>,
             pc[t] \notin {"complete", "remove"}
      PROVE  LengthInv'
  BY <1>1, <1>2, <1>3 DEF Goto
<1>4. ASSUME NEW t \in Thread, ThreadStep(t)
      PROVE  LengthInv'
  <2>1. CASE BeginExport(t)  BY <1>3, <2>1 DEF BeginExport, AddClauses
  <2>2. CASE EndExport(t)  BY <1>3, <2>2 DEF EndExport, AddClauses
  <2>3. CASE Push(t)
    <3>1. /\ pc[t] = "push" /\ pc'[t] = "complete" /\ head' = head
          /\ last'[t] = last[t] + 1
          /\ \A u \in Thread \ {t} : pc'[u] = pc[u] /\ last'[u] = last[u]
      BY <1>1, <2>3 DEF Push, PushNext, Goto
    <3>2. last[t] \in Int /\ head[t] \in Int  BY <1>1 DEF Period
    <3>3. last[t] - head[t] <= 2 * (Margin + 1) + 0  BY <3>1 DEF LengthInv
    <3>4. last'[t] - head'[t] <= 2 * (Margin + 1) + 1  BY <3>1, <3>2, <3>3
    <3> QED  BY <3>1, <3>4 DEF LengthInv
  <2>4. CASE Complete(t)
    <3>1. \A u \in Thread :
            pc[u] \in {"complete", "remove"} => pc'[u] \in {"complete", "remove"}
      BY <1>1, <2>4 DEF Complete, Waiters
    <3> QED  BY <1>2, <2>4, <3>1 DEF Complete, CompleteAddition
  <2>5. CASE RemoveSets(t)
    <3>1. /\ pc'[t] \notin {"complete", "remove"} /\ last' = last
          /\ \A u \in Thread \ {t} : pc'[u] = pc[u] /\ head'[u] = head[u]
      BY <1>1, <2>5 DEF RemoveSets, RemoveExported, Goto
    <3>2. last[t] - head'[t] <= 2 * (Margin + 1)  BY <2>5, LRemoveSets
    <3>3. head'[t] \in Int /\ last[t] \in Int
      BY <1>1, <2>5 DEF RemoveSets, RemoveExported, Period
    <3>4. last[t] - head'[t] <= 2 * (Margin + 1) + 0  BY <3>2, <3>3
    <3> QED  BY <3>1, <3>4 DEF LengthInv
  <2>6. CASE GetSet(t)  BY <1>3, <2>6 DEF GetSet, queueVars
  <2>7. CASE NextTarget(t)  BY <1>2, <2>7 DEF NextTarget, queueVars
  <2>8. CASE CheckCompleted(t)  BY <1>3, <2>8 DEF CheckCompleted, queueVars
  <2>9. CASE Copy(t)  BY <1>3, <2>9 DEF Copy, CompleteExportation
  <2>10. CASE EnterNextPeriod(t)
    BY <1>3, <2>10 DEF EnterNextPeriod, CompleteExportation, queueVars
  <2>11. CASE CheckTermination(t) \/ Restart(t)
    <3>1. PICK label : Goto(t, label)
      BY <2>11 DEF CheckTermination, Restart, TestTermination
    <3> QED  BY <1>3, <2>11, <3>1 DEF CheckTermination, Restart, queueVars
  <2>12. CASE Finish(t) \/ Stop(t)
    <3>1. PICK status : Return(t, status)  BY <2>12 DEF Finish, Stop
    <3> QED  BY <1>3, <2>12, <3>1 DEF Return, Finish, Stop, queueVars
  <2> QED
    BY <1>4, <2>1, <2>2, <2>3, <2>4, <2>5, <2>6, <2>7, <2>8, <2>9, <2>10, <2>11,
       <2>12
       DEF ThreadStep
<1>5. CASE Tick \/ UNCHANGED vars
  BY <1>2, <1>5 DEF Tick, vars, queueVars
<1> QED  BY <1>4, <1>5 DEF Next, Terminating

\* Sets leave the queues as the threads take them, whatever the limits are.
THEOREM QueuesStayShort ==
  ASSUME ~NonDet, Adaptive
  PROVE  Spec => []QueueStaysShort
<1>1. Init => LengthInv
  BY DEF Init, QueueInit, LengthInv
<1>2. BInv /\ LengthInv /\ [Next]_vars => LengthInv'  BY LStep
<1>3. LengthInv => QueueStaysShort
  <2> SUFFICES ASSUME LengthInv, NEW t \in Thread, pc[t] = "search"
               PROVE  last[t] - head[t] <= 2 * (Margin + 1)
    BY DEF QueueStaysShort
  <2>1. last[t] - head[t] <= 2 * (Margin + 1) + 0  BY DEF LengthInv
  <2>2. 2 * (Margin + 1) + 0 = 2 * (Margin + 1)  OBVIOUS
  <2> QED  BY <2>1, <2>2
<1>4. Spec => []BInv  BY BarrierInvariant
<1> QED  BY <1>1, <1>2, <1>3, <1>4, PTL DEF Spec

-----------------------------------------------------------------------------
(*************************************************************************)
(* The answer of the run. In every mode the reported result only         *)
(* improves. In deterministic mode and without limits it is decided by   *)
(* the searches alone, and so is what every thread imports; no thread    *)
(* waits for one that has returned.                                      *)
(*************************************************************************)

\* Each result that a thread reports replaces the present one only by a better.
THEOREM ResultImproves == Spec => ResultOnlyImproves
<1> DEFINE Better ==
      sol_found /\ sharerVars' # sharerVars =>
        /\ final_result' = Answer
        /\ \/ winner_period' < winner_period
           \/ winner_period' = winner_period /\ winner_id' < winner_id
<1>1. ASSUME NEW t \in Thread, NEW status \in {"UNKNOWN", Answer}, Return(t, status)
      PROVE  Better
  BY <1>1 DEF Return, IFinished, FoundBetterOne
<1>2. ASSUME NEW t \in Thread, ThreadStep(t)
      PROVE  Better
  <2>1. CASE Finish(t)  BY <1>1, <2>1 DEF Finish
  <2>2. CASE Stop(t)
    <3>1. PICK status \in {"UNKNOWN", Answer} : Return(t, status)
      BY <2>2 DEF Stop
    <3> QED  BY <1>1, <3>1
  <2>3. CASE ~Finish(t) /\ ~Stop(t)
    <3>1. UNCHANGED sharerVars
      BY <1>2, <2>3
         DEF ThreadStep, BeginExport, EndExport, Push, Complete, RemoveSets,
             GetSet, NextTarget, CheckCompleted, Copy, EnterNextPeriod,
             CheckTermination, Restart
    <3> QED  BY <3>1
  <2> QED  BY <2>1, <2>2, <2>3
<1>3. Next => Better
  BY <1>2 DEF Next, Tick, Terminating, vars
<1>4. [Next]_vars => [Better]_vars  BY <1>3
<1> QED  BY <1>4, PTL DEF Spec, ResultOnlyImproves

-----------------------------------------------------------------------------
(* Deterministic mode without limits: one lemma per action.                *)

\* A thread is told to stop exactly when it is beyond the margin of a result.
LEMMA ToldToStop ==
  ASSUME ~NonDet, Limits = {}, RInv, NEW t \in Thread, NEW yes, NEW no,
         TestTermination(t, yes, no)
  PROVE  IF sol_found /\ winner_period + Margin < periods[t]
         THEN Goto(t, yes) ELSE Goto(t, no)
<1>1. ShouldBeTerminated(periods[t]) <=>
        sol_found /\ winner_period + Margin < periods[t]
  BY DEF RInv, ResultInv, WinnerInv, ShouldBeTerminated
<1>2. PICK over_limit \in LimitReadings(t) :
        Goto(t, IF ShouldBeTerminated(periods[t]) \/ over_limit THEN yes ELSE no)
  BY DEF TestTermination
<1>3. ~over_limit
  <2>1. ~(t < expired)  BY DEF Thread, RInv, ResultInv, NoLimitInv
  <2>2. PICK over_memory \in {FALSE} : over_limit = (over_memory \/ t < expired)
    BY DEF LimitReadings
  <2> QED  BY <2>1, <2>2, Zenon
<1> QED  BY <1>1, <1>2, <1>3

\* The threads that move neither search nor are told to stop.
LEMMA RQuiet ==
  ASSUME RInv, UNCHANGED <<fate, solving, periods, expired, sharerVars>>,
         \A u \in Thread :
           \/ pc'[u] = pc[u]
           \/ /\ pc[u] \notin {"search", "check", "restart", "stop"}
              /\ pc'[u] \notin {"restart", "stop"}
  PROVE  ResultInv'
<1> USE DEF RInv, ResultInv
<1>1. WinnerInv'  BY DEF WinnerInv, sharerVars
<1>2. ToldToStopInv'  BY DEF ToldToStopInv, sharerVars
<1>3. FateInv'  BY DEF FateInv
<1>4. ReturnedInv'  BY DEF ReturnedInv, sharerVars
<1>5. MarginInv'  BY DEF MarginInv, sharerVars
<1>6. NoLimitInv'  BY DEF NoLimitInv
<1> QED  BY <1>1, <1>2, <1>3, <1>4, <1>5, <1>6

\* A thread leaves the search for the export only before the period of its
\* answer.
LEMMA RBeginExport ==
  ASSUME RInv, NEW t \in Thread, BeginExport(t)
  PROVE  ResultInv'
<1> USE DEF RInv, ResultInv, BeginExport
<1>1. pc \in [Thread -> PC]  BY DEF BInv, GInv, TypeOK
<1>2. /\ UNCHANGED <<fate, solving, periods, expired>> /\ UNCHANGED sharerVars
      /\ \A u \in Thread : pc'[u] = IF u = t THEN "export" ELSE pc[u]
  BY <1>1 DEF Goto, solverVars
<1>3. WinnerInv'  BY <1>2 DEF WinnerInv, sharerVars
<1>4. ToldToStopInv'  BY <1>2 DEF ToldToStopInv, sharerVars
<1>5. FateInv'  BY <1>2 DEF FateInv
<1>6. ReturnedInv'  BY <1>2 DEF ReturnedInv, sharerVars
<1>7. MarginInv'  BY <1>2 DEF MarginInv, sharerVars
<1>8. NoLimitInv'  BY DEF NoLimitInv
<1> QED  BY <1>3, <1>4, <1>5, <1>6, <1>7, <1>8

\* A thread enters a period from within the margin.
LEMMA REnterNextPeriod ==
  ASSUME RInv, NEW t \in Thread, EnterNextPeriod(t)
  PROVE  ResultInv'
<1> USE DEF RInv, ResultInv
<1>1. /\ pc \in [Thread -> PC] /\ periods \in [Thread -> 0 .. MaxPeriod]
      /\ fate \in [Thread -> Nat \cup {NoAnswer}]
      /\ winner_period \in Nat
  BY DEF BInv, GInv, TypeOK, SharerTypeOK
<1>2. pc[t] = "import" /\ solving[t]
  BY DEF EnterNextPeriod, BInv, GInv, SolvingInv, Importing
<1>3. /\ UNCHANGED <<fate, solving, expired>> /\ UNCHANGED sharerVars
      /\ \A u \in Thread : pc'[u] = IF u = t THEN "check" ELSE pc[u]
      /\ \A u \in Thread :
           periods'[u] = IF u = t THEN periods[u] + 1 ELSE periods[u]
  BY <1>1 DEF EnterNextPeriod, Goto
<1>4. periods[t] \in Nat  BY <1>1
<1>5. WinnerInv'  BY <1>3 DEF WinnerInv, sharerVars
<1>6. ToldToStopInv'  BY <1>3 DEF ToldToStopInv, sharerVars
<1>7. FateInv'
  <2>1. fate[t] # NoAnswer => periods[t] + 1 <= fate[t]
    BY <1>1, <1>2, <1>4 DEF FateInv
  <2> QED  BY <1>3, <2>1 DEF FateInv
<1>8. ReturnedInv'  BY <1>2, <1>3 DEF ReturnedInv, sharerVars
<1>9. MarginInv'
  <2>1. sol_found => periods[t] <= winner_period + Margin
    BY <1>2 DEF MarginInv
  <2>2. sol_found => \/ periods[t] + 1 <= winner_period + Margin
                     \/ periods[t] + 1 = winner_period + Margin + 1
    BY <1>1, <1>4, <2>1
  <2> QED  BY <1>3, <2>2 DEF MarginInv, sharerVars
<1>10. NoLimitInv'  BY <1>3 DEF NoLimitInv
<1> QED  BY <1>5, <1>6, <1>7, <1>8, <1>9, <1>10

\* A thread is told to stop beyond the margin only.
LEMMA RTestTermination ==
  ASSUME ~NonDet, Limits = {}, RInv, NEW t \in Thread,
         pc[t] \in {"check", "search", "restart"},
         NEW yes \in {"restart", "stop"}, TestTermination(t, yes, "search"),
         UNCHANGED <<fate, solving, periods, expired, sharerVars>>
  PROVE  ResultInv'
<1> USE DEF RInv, ResultInv
<1>1. pc \in [Thread -> PC] /\ periods[t] \in Nat /\ winner_period \in Nat
  BY DEF BInv, GInv, TypeOK, SharerTypeOK
<1>2. PICK label \in {"search", "restart", "stop"} :
        /\ Goto(t, label)
        /\ label \in {"restart", "stop"} <=>
             sol_found /\ winner_period + Margin < periods[t]
  BY ToldToStop
<1>3. \A u \in Thread : pc'[u] = IF u = t THEN label ELSE pc[u]
  BY <1>1, <1>2 DEF Goto
<1>4. WinnerInv'  BY DEF WinnerInv, sharerVars
<1>5. ToldToStopInv'  BY <1>2, <1>3 DEF ToldToStopInv, sharerVars
<1>6. FateInv'  BY <1>3 DEF FateInv
<1>7. ReturnedInv'  BY DEF ReturnedInv, sharerVars
<1>8. MarginInv'
  <2>1. sol_found /\ label = "search" => periods[t] <= winner_period + Margin
    BY <1>1, <1>2
  <2> QED  BY <1>3, <2>1 DEF MarginInv, sharerVars
<1>9. NoLimitInv'  BY DEF NoLimitInv
<1> QED  BY <1>4, <1>5, <1>6, <1>7, <1>8, <1>9

\* In the period of its answer a thread finds nobody beyond the margin.
LEMMA NobodyBeyondMargin ==
  ASSUME BInv, NEW t \in Thread, ~Pushed(t), NEW u \in Thread
  PROVE  periods[u] <= periods[t] + Margin
<1> USE DEF BInv, GInv
<1>1. /\ periods[t] \in Nat /\ periods[u] \in Nat /\ next_period[t][u] \in Int
      /\ last[t] = periods[t]
  BY DEF TypeOK, QueueTypeOK, LastInv, Period
<1>2. CASE u = t  BY <1>1, <1>2
<1>3. CASE u # t
  <2>1. KnownPeriods(periods[u]) <= next_period[t][u]  BY <1>3 DEF KnownInv
  <2>2. next_period[t][u] <= NumCompleted(t)  BY <1>3 DEF TakenInv
  <2>3. NumCompleted(t) = periods[t]  BY <1>1 DEF NumCompleted, Pushed
  <2> QED  BY <1>1, <2>1, <2>2, <2>3 DEF KnownPeriods
<1> QED  BY <1>2, <1>3

\* A thread finds the answer: it becomes the winner, or the winner is before it.
LEMMA RFinish ==
  ASSUME RInv, NEW t \in Thread, Finish(t)
  PROVE  ResultInv'
<1> USE DEF RInv, ResultInv
<1>1. /\ pc \in [Thread -> PC] /\ solving \in [Thread -> BOOLEAN]
      /\ \A u \in Thread : periods[u] \in Nat
      /\ winner_period \in Nat
  BY DEF BInv, GInv, TypeOK, SharerTypeOK
<1>2. /\ pc[t] = "search" /\ fate[t] = periods[t]
      /\ UNCHANGED <<fate, periods, expired>>
      /\ \A u \in Thread : pc'[u] = IF u = t THEN "push" ELSE pc[u]
      /\ \A u \in Thread : solving'[u] = IF u = t THEN FALSE ELSE solving[u]
  BY <1>1 DEF Finish, Return, Goto, solverVars
<1>3. IFinished(Answer, periods[t], t)  BY DEF Finish, Return
<1>4. Answer # "UNKNOWN"  OBVIOUS
<1>5. /\ sol_found' = TRUE /\ final_result' = Answer
      /\ winner_period' \in Nat /\ winner_id' \in Thread
      /\ fate[winner_id'] = winner_period'
      /\ \/ winner_period' < periods[t]
         \/ winner_period' = periods[t] /\ winner_id' <= t
  <2>1. CASE FoundBetterOne(Answer, periods[t], t)
    <3>1. sol_found' = TRUE /\ final_result' = Answer /\ winner_period' = periods[t]
          /\ winner_id' = t
      BY <1>3, <2>1 DEF IFinished
    <3> QED  BY <1>1, <1>2, <3>1 DEF Thread
  <2>2. CASE ~FoundBetterOne(Answer, periods[t], t)
    <3>1. UNCHANGED sharerVars  BY <1>3, <2>2 DEF IFinished
    <3>2. sol_found /\ winner_id \in Thread
          /\ ~(periods[t] < winner_period)
          /\ ~(periods[t] = winner_period /\ t < winner_id)
      BY <1>4, <2>2 DEF FoundBetterOne, WinnerInv
    <3>3. sol_found \in BOOLEAN  BY DEF BInv, GInv, TypeOK, SharerTypeOK
    <3>4. \/ winner_period < periods[t]
          \/ winner_period = periods[t] /\ winner_id <= t
      BY <1>1, <3>2 DEF Thread
    <3> QED  BY <1>1, <3>1, <3>2, <3>3, <3>4 DEF WinnerInv, sharerVars
  <2> QED  BY <2>1, <2>2
<1>6. sol_found => \/ winner_period' < winner_period
                   \/ winner_period' = winner_period /\ winner_id' <= winner_id
  <2> SUFFICES ASSUME sol_found
               PROVE  \/ winner_period' < winner_period
                      \/ winner_period' = winner_period /\ winner_id' <= winner_id
    OBVIOUS
  <2>1. winner_id \in Int /\ t \in Int  BY DEF WinnerInv, Thread
  <2>2. CASE FoundBetterOne(Answer, periods[t], t)
    <3>1. winner_period' = periods[t] /\ winner_id' = t  BY <1>3, <2>2 DEF IFinished
    <3> QED  BY <1>1, <2>1, <2>2, <3>1 DEF FoundBetterOne
  <2>3. CASE ~FoundBetterOne(Answer, periods[t], t)
    <3>1. winner_period' = winner_period /\ winner_id' = winner_id
      BY <1>3, <2>3 DEF IFinished, sharerVars
    <3> QED  BY <2>1, <3>1
  <2> QED  BY <2>2, <2>3
<1>7. WinnerInv'  BY <1>2, <1>5 DEF WinnerInv
<1>8. ToldToStopInv'
  <2> SUFFICES ASSUME NEW u \in Thread, pc'[u] \in {"restart", "stop"}
               PROVE  winner_period' + Margin < periods[u]
    BY <1>2, <1>5 DEF ToldToStopInv
  <2>1. sol_found /\ winner_period + Margin < periods[u]
    BY <1>2 DEF ToldToStopInv
  <2> QED  BY <1>1, <1>5, <1>6, <2>1
<1>9. FateInv'  BY <1>2 DEF FateInv
<1>10. ReturnedInv'
  <2> SUFFICES ASSUME NEW u \in Thread, ~solving'[u]
               PROVE  \/ /\ fate[u] = periods[u]
                         /\ \/ winner_period' < periods[u]
                            \/ winner_period' = periods[u] /\ winner_id' <= u
                      \/ winner_period' + Margin < periods[u]
    BY <1>2, <1>5 DEF ReturnedInv
  <2>1. CASE u = t  BY <1>2, <1>5, <2>1
  <2>2. CASE u # t
    <3>1. /\ sol_found
          /\ \/ /\ fate[u] = periods[u]
                /\ \/ winner_period < periods[u]
                   \/ winner_period = periods[u] /\ winner_id <= u
             \/ winner_period + Margin < periods[u]
      BY <1>2, <2>2 DEF ReturnedInv
    <3>2. winner_id \in Int /\ winner_id' \in Int /\ u \in Int
      BY <1>5, <3>1 DEF WinnerInv, Thread
    <3>3. periods[u] \in Nat  BY <1>1
    <3> QED  BY <1>1, <1>5, <1>6, <3>1, <3>2, <3>3
  <2> QED  BY <2>1, <2>2
<1>11. MarginInv'
  <2>1. \A u \in Thread : periods[u] <= periods[t] + Margin
    BY <1>2, NobodyBeyondMargin DEF Pushed, Importing
  <2> SUFFICES ASSUME NEW u \in Thread
               PROVE  \/ periods[u] <= winner_period' + Margin
                      \/ /\ periods[u] = winner_period' + Margin + 1
                         /\ pc'[u] \in {"check", "restart", "stop"} \/ ~solving'[u]
    BY <1>2 DEF MarginInv
  <2>2. CASE winner_period' = periods[t]  BY <2>1, <2>2
  <2>3. CASE winner_period' # periods[t]
    <3>1. sol_found /\ winner_period' = winner_period
      BY <1>3, <2>3 DEF IFinished, FoundBetterOne, sharerVars
    <3> QED  BY <1>2, <3>1 DEF MarginInv
  <2> QED  BY <2>2, <2>3
<1>12. NoLimitInv'  BY <1>2 DEF NoLimitInv
<1> QED  BY <1>7, <1>8, <1>9, <1>10, <1>11, <1>12

\* A thread that was told to stop has nothing to say about the result.
LEMMA RStop ==
  ASSUME RInv, NEW t \in Thread, Stop(t)
  PROVE  ResultInv'
<1> USE DEF RInv, ResultInv
<1>1. /\ pc \in [Thread -> PC] /\ solving \in [Thread -> BOOLEAN]
      /\ periods[t] \in Nat /\ winner_period \in Nat
  BY DEF BInv, GInv, TypeOK, SharerTypeOK
<1>2. PICK status : Return(t, status)  BY DEF Stop
<1>3. /\ pc[t] = "stop"
      /\ UNCHANGED <<fate, periods, expired>>
      /\ \A u \in Thread : pc'[u] = IF u = t THEN "push" ELSE pc[u]
      /\ \A u \in Thread : solving'[u] = IF u = t THEN FALSE ELSE solving[u]
  BY <1>1, <1>2 DEF Stop, Return, Goto, solverVars
<1>4. sol_found /\ winner_period + Margin < periods[t]
  BY <1>3 DEF ToldToStopInv
<1>5. UNCHANGED sharerVars
  <2>1. IFinished(status, periods[t], t)  BY <1>2 DEF Return
  <2>2. ~FoundBetterOne(status, periods[t], t)  BY <1>1, <1>4 DEF FoundBetterOne
  <2> QED  BY <2>1, <2>2 DEF IFinished
<1>6. WinnerInv'  BY <1>3, <1>5 DEF WinnerInv, sharerVars
<1>7. ToldToStopInv'  BY <1>3, <1>5 DEF ToldToStopInv, sharerVars
<1>8. FateInv'  BY <1>3 DEF FateInv
<1>9. ReturnedInv'  BY <1>3, <1>4, <1>5 DEF ReturnedInv, sharerVars
<1>10. MarginInv'  BY <1>3, <1>5 DEF MarginInv, sharerVars
<1>11. NoLimitInv'  BY <1>3 DEF NoLimitInv
<1> QED  BY <1>6, <1>7, <1>8, <1>9, <1>10, <1>11

-----------------------------------------------------------------------------
(* The invariant and what follows from it.                                 *)

\* Nobody has found anything.
LEMMA RInit == Init => RInv
<1> SUFFICES ASSUME Init PROVE ResultInv
  BY BInit DEF RInv
<1>1. \A t \in Thread : pc[t] = "search" /\ periods[t] = 0 /\ solving[t]
  BY DEF Init
<1>2. ~sol_found /\ expired = 0 /\ fate \in [Thread -> Nat \cup {NoAnswer}]
  BY DEF Init, SharerInit
<1>3. FateInv
  <2> SUFFICES ASSUME NEW t \in Thread, fate[t] # NoAnswer
               PROVE  periods[t] <= fate[t]
    BY <1>1 DEF FateInv
  <2>1. fate[t] \in Nat  BY <1>2
  <2> QED  BY <1>1, <2>1
<1> QED
  BY <1>1, <1>2, <1>3
     DEF ResultInv, WinnerInv, ToldToStopInv, ReturnedInv, MarginInv, NoLimitInv

\* Every step preserves RInv.
LEMMA RStep ==
  ASSUME ~NonDet, Limits = {}
  PROVE  RInv /\ [Next]_vars => RInv'
<1> SUFFICES ASSUME RInv, [Next]_vars PROVE ResultInv'
  BY BStep DEF RInv
<1>1. pc \in [Thread -> PC]  BY DEF RInv, BInv, GInv, TypeOK
<1>2. ASSUME NEW t \in Thread, NEW label, Goto(t, label),
             pc[t] \notin {"search", "check", "restart", "stop"},
             label \notin {"restart", "stop"},
             UNCHANGED <<fate, solving, periods, expired, sharerVars>>
      PROVE  ResultInv'
  BY <1>1, <1>2, RQuiet DEF Goto
<1>3. ASSUME NEW t \in Thread, ThreadStep(t)
      PROVE  ResultInv'
  <2>1. CASE EndExport(t) \/ Push(t) \/ RemoveSets(t) \/ GetSet(t)
             \/ CheckCompleted(t) \/ Copy(t)
    <3>1. PICK label : Goto(t, label) /\ label \notin {"restart", "stop"}
      BY <2>1 DEF EndExport, Push, RemoveSets, GetSet, CheckCompleted, Copy
    <3>2. /\ UNCHANGED <<fate, solving, periods, expired, sharerVars>>
          /\ pc[t] \notin {"search", "check", "restart", "stop"}
      BY <2>1
         DEF EndExport, Push, RemoveSets, GetSet, CheckCompleted, Copy, solverVars
    <3> QED  BY <1>2, <3>1, <3>2
  <2>2. CASE NextTarget(t)
    BY <2>2, RQuiet DEF NextTarget, solverVars
  <2>3. CASE Complete(t)
    <3>1. \A u \in Thread :
            \/ pc'[u] = pc[u]
            \/ /\ pc[u] \notin {"search", "check", "restart", "stop"}
               /\ pc'[u] \notin {"restart", "stop"}
      BY <2>3 DEF Complete, Waiters
    <3> QED  BY <2>3, <3>1, RQuiet DEF Complete, solverVars
  <2>4. CASE CheckTermination(t)
    <3>1. PICK yes \in {"restart", "stop"} : TestTermination(t, yes, "search")
      BY <2>4 DEF CheckTermination
    <3> QED  BY <2>4, <3>1, RTestTermination DEF CheckTermination, solverVars
  <2>5. CASE Restart(t)
    BY <2>5, RTestTermination DEF Restart, solverVars
  <2> QED
    BY <1>3, <2>1, <2>2, <2>3, <2>4, <2>5, RBeginExport, REnterNextPeriod, RFinish,
       RStop
       DEF ThreadStep
<1>4. ~Tick  BY DEF Tick
<1>5. CASE UNCHANGED vars
  BY <1>5, RQuiet DEF vars, solverVars
<1> QED  BY <1>3, <1>4, <1>5 DEF Next, Terminating

\* In deterministic mode without limits the result is decided in time.
THEOREM ResultInvariant ==
  ASSUME ~NonDet, Limits = {}
  PROVE  Spec => []RInv
<1> QED  BY RInit, RStep, PTL DEF Spec

\* The winner is, among the threads that find the answer in the first period
\* in which one does, the one with the smallest number.
THEOREM FirstFinderWins ==
  ASSUME ~NonDet, Limits = {}
  PROVE  Spec => []WinnerIsFirst
<1>1. RInv => WinnerIsFirst
  <2> SUFFICES ASSUME RInv, AllDone
               PROVE  /\ final_result = Answer
                      /\ winner_id \in FirstFinders
                      /\ \A t \in FirstFinders : winner_id <= t
                      /\ winner_period = fate[winner_id]
    BY DEF WinnerIsFirst
  <2> USE DEF RInv, ResultInv, BInv, GInv
  <2>1. \A t \in Thread : ~solving[t]  BY DEF AllDone, SolvingInv
  <2>2. 0 \in Thread  BY DEF Thread
  <2>3. sol_found  BY <2>1, <2>2 DEF ReturnedInv
  <2>4. /\ final_result = Answer /\ winner_id \in Thread
        /\ fate[winner_id] = winner_period /\ winner_period \in Nat
    BY <2>3 DEF WinnerInv, TypeOK, SharerTypeOK
  <2>5. ASSUME NEW u \in Thread, fate[u] # NoAnswer
        PROVE  \/ winner_period < fate[u]
               \/ winner_period = fate[u] /\ winner_id <= u
    <3>1. periods[u] \in Nat /\ periods[u] <= fate[u] /\ fate[u] \in Nat
      BY <2>5 DEF TypeOK, FateInv
    <3>2. \/ /\ fate[u] = periods[u]
             /\ \/ winner_period < periods[u]
                \/ winner_period = periods[u] /\ winner_id <= u
          \/ winner_period + Margin < periods[u]
      BY <2>1 DEF ReturnedInv
    <3> QED  BY <2>4, <3>1, <3>2
  <2>6. winner_id \in FirstFinders
    <3>1. fate[winner_id] # NoAnswer  BY <2>4 DEF NoAnswer
    <3>2. \A u \in Thread : fate[u] = NoAnswer \/ fate[winner_id] <= fate[u]
      <4> SUFFICES ASSUME NEW u \in Thread, fate[u] # NoAnswer
                   PROVE  fate[winner_id] <= fate[u]
        OBVIOUS
      <4>1. fate[u] \in Nat  BY DEF TypeOK
      <4> QED  BY <2>4, <2>5, <4>1
    <3> QED  BY <2>4, <3>1, <3>2 DEF FirstFinders
  <2>7. ASSUME NEW t \in FirstFinders
        PROVE  winner_id <= t
    <3>1. t \in Thread /\ fate[t] # NoAnswer /\ fate[t] <= fate[winner_id]
      BY <2>4, <2>7 DEF FirstFinders, NoAnswer
    <3>2. fate[t] \in Int  BY <3>1 DEF TypeOK, NoAnswer
    <3> QED  BY <2>4, <2>5, <3>1, <3>2
  <2> QED  BY <2>4, <2>6, <2>7
<1>2. Spec => []RInv  BY ResultInvariant
<1> QED  BY <1>1, <1>2, PTL

\* A thread that searches in a period is not told to stop in it.
LEMMA NotCutShort ==
  ASSUME ~NonDet, RInv
  PROVE  SearchNotCutShort
<1> SUFFICES ASSUME NEW t \in Thread, pc[t] = "search"
             PROVE  ~ShouldBeTerminated(periods[t])
  BY DEF SearchNotCutShort
<1> USE DEF RInv, ResultInv, BInv, GInv
<1>1. solving[t] /\ periods[t] \in Nat /\ winner_period \in Nat
  BY DEF SolvingInv, TypeOK, SharerTypeOK
<1>2. sol_found => periods[t] <= winner_period + Margin  BY <1>1 DEF MarginInv
<1> QED  BY <1>1, <1>2 DEF ShouldBeTerminated, WinnerInv

\* How far a thread searches does not depend on when the others report.
THEOREM SearchIsWhole ==
  ASSUME ~NonDet, Limits = {}
  PROVE  Spec => []SearchNotCutShort
<1>1. RInv => SearchNotCutShort  BY NotCutShort
<1>2. Spec => []RInv  BY ResultInvariant
<1> QED  BY <1>1, <1>2, PTL

\* No thread gets more than Margin + 1 periods past the one of the answer.
THEOREM EndsInTime ==
  ASSUME ~NonDet, Limits = {}
  PROVE  Spec => []OverrunBounded
<1>1. RInv => OverrunBounded
  <2> SUFFICES ASSUME RInv, sol_found, NEW t \in Thread
               PROVE  periods[t] <= winner_period + Margin + 1
    BY DEF OverrunBounded
  <2>1. periods[t] \in Nat /\ winner_period \in Nat
    BY DEF RInv, BInv, GInv, TypeOK, SharerTypeOK
  <2> QED  BY <2>1 DEF RInv, ResultInv, MarginInv
<1>2. Spec => []RInv  BY ResultInvariant
<1> QED  BY <1>1, <1>2, PTL

\* No thread waits for a set that its owner will never complete.
THEOREM NobodyOrphaned ==
  ASSUME ~NonDet, Limits = {}
  PROVE  Spec => []NoOrphanWait
<1>1. RInv => NoOrphanWait
  <2> SUFFICES ASSUME RInv, NEW t \in Thread, pc[t] = "blocked"
               PROVE  /\ pc[Target(t)] # "done"
                      /\ ~completed[Target(t)][TargetPeriod(t)]
    BY DEF NoOrphanWait
  <2> USE DEF RInv, ResultInv, BInv, GInv
  <2> DEFINE u == Target(t)
             p == TargetPeriod(t)
  <2>1. u \in Thread /\ p \in Period  BY AtAnothersSet DEF AtSet
  <2>2. ~completed[u][p]  BY DEF BlockedInv
  <2>3. p <= periods[t] - Margin /\ solving[t]
    BY DEF AtSetInv, AtSet, SolvingInv, Importing
  <2> HIDE DEF u, p
  <2>4. ASSUME pc[u] = "done"
        PROVE  FALSE
    <3>1. /\ p \in Int /\ periods[t] \in Nat /\ periods[u] \in Nat
          /\ winner_period \in Nat /\ last[u] \in Int
      BY <2>1 DEF TypeOK, SharerTypeOK, QueueTypeOK, Period
    <3>2. NumCompleted(u) = periods[u] + 1
      BY <2>1, <2>4 DEF NumCompleted, LastInv, Pushed
    <3>3. ~(p < NumCompleted(u))  BY <2>1, <2>2 DEF CompletedInv
    <3>4. periods[u] + Margin + 1 <= periods[t]
      BY <2>3, <3>1, <3>2, <3>3
    <3>5. ~solving[u]  BY <2>1, <2>4 DEF SolvingInv
    <3>6. sol_found /\ winner_period <= periods[u]
      BY <2>1, <3>1, <3>5 DEF ReturnedInv
    <3>7. periods[t] <= winner_period + Margin
      BY <2>3, <3>6 DEF MarginInv
    <3> QED  BY <3>1, <3>4, <3>6, <3>7
  <2> QED  BY <2>2, <2>4 DEF u, p
<1>2. Spec => []RInv  BY ResultInvariant
<1> QED  BY <1>1, <1>2, PTL

-----------------------------------------------------------------------------
(* Determinism of the imports: the lemmas.                                 *)

\* Quotient and remainder of a number written with both.
LEMMA DivMod ==
  ASSUME NEW q \in Nat, NEW m \in Nat \ {0}, NEW r \in 0 .. m - 1
  PROVE  (q * m + r) \div m = q /\ (q * m + r) % m = r
<1> DEFINE x == q * m + r
           d == x \div m
           e == x % m
<1>1. q * m \in Nat /\ x \in Nat  BY SMT
<1>2. d \in Int /\ e \in 0 .. m - 1 /\ x = m * d + e
  BY <1>1, SMT
<1> HIDE DEF d, e
<1>3. m * (q - d) = e - r  BY <1>2, SMT
<1>4. CASE q - d >= 1
  <2>1. m * (q - d) >= m  BY <1>2, <1>4, SMT
  <2> QED  BY <1>2, <1>3, <2>1, SMT
<1>5. CASE q - d <= -1
  <2>1. m * (d - q) >= m  BY <1>2, <1>5, SMT
  <2>2. m * (d - q) = r - e  BY <1>2, SMT
  <2> QED  BY <1>2, <2>1, <2>2, SMT
<1>6. q = d  BY <1>2, <1>4, <1>5, SMT
<1>7. e = r  BY <1>2, <1>3, <1>6, SMT
<1> QED  BY <1>6, <1>7 DEF d, e

\* Periods and sets are counted.
LEMMA NumImportedType ==
  ASSUME TypeOK, NEW t \in Thread
  PROVE  /\ KnownPeriods(periods[t]) \in Nat
         /\ KnownPeriods(periods[t]) * (NumThreads - 1) \in Nat
         /\ NumImported(t) \in Nat
<1>1. periods[t] \in Nat /\ i[t] \in 1 .. NumThreads  BY DEF TypeOK
<1>2. KnownPeriods(periods[t]) \in Nat  BY <1>1 DEF KnownPeriods
<1>3. \A a, b \in Nat : a * b \in Nat  OBVIOUS
<1>4. KnownPeriods(periods[t]) * (NumThreads - 1) \in Nat  BY <1>2, <1>3
<1> QED  BY <1>1, <1>2, <1>4 DEF NumImported

\* The steps in which no thread takes a set or gets further in its loop.
LEMMA DQuiet ==
  ASSUME DInv, UNCHANGED <<periods, next_period, imported, fate>>,
         \A u \in Thread :
           (pc'[u] \in Importing <=> pc[u] \in Importing)
           /\ (pc[u] \in Importing => i'[u] = i[u])
  PROVE  NotYetInv' /\ ImportedInv'
<1> USE DEF DInv
<1>1. \A u \in Thread : /\ InLoop(u)' = InLoop(u)
                        /\ InLoop(u) => i'[u] = i[u]
  BY DEF InLoop
<1>2. NotYetInv'  BY <1>1 DEF NotYetInv
<1>3. \A u \in Thread : NumImported(u)' = NumImported(u)
  BY <1>1 DEF NumImported, TargetPeriod, Target
<1>4. ImportedInv'  BY <1>3 DEF ImportedInv, ExpectedImport
<1> QED  BY <1>2, <1>4

-----------------------------------------------------------------------------

\* Outside the loop a thread has taken exactly the sets it knows.
LEMMA NotInLoop ==
  ASSUME DInv, NEW t \in Thread, ~InLoop(t), NEW j \in 1 .. NumThreads - 1
  PROVE  next_period[(t + j) % NumThreads][t] <= KnownPeriods(periods[t])
BY DEF DInv, NotYetInv

\* After completing a period a thread starts the loop with the next thread, of
\* which it has not taken a set yet.
LEMMA DRemoveSets ==
  ASSUME DInv, NEW t \in Thread, RemoveSets(t)
  PROVE  NotYetInv' /\ ImportedInv'
<1> USE DEF DInv, RInv, BInv, GInv
<1>1. /\ pc[t] = "remove" /\ i' = [i EXCEPT ![t] = 1]
      /\ UNCHANGED <<periods, next_period, imported, fate>>
      /\ pc'[t] \in {"import", "done"}
      /\ \A u \in Thread \ {t} : pc'[u] = pc[u] /\ i'[u] = i[u]
      /\ i'[t] = 1
  BY DEF RemoveSets, RemoveExported, Goto, TypeOK
<1>2. ~InLoop(t)  BY <1>1 DEF InLoop, Importing
<1>3. \A u \in Thread \ {t} : InLoop(u)' = InLoop(u)  BY <1>1 DEF InLoop
<1>4. \A u \in Thread : periods[u] \in Nat /\ KnownPeriods(periods[u]) \in Nat
  BY DEF TypeOK, KnownPeriods
<1>5. \A u \in Thread : \A j \in 1 .. NumThreads - 1 :
        next_period[(u + j) % NumThreads][u] \in Int
  BY TargetIsOther DEF TypeOK, QueueTypeOK, Period
<1>6. NotYetInv'
  <2> SUFFICES ASSUME NEW u \in Thread, NEW j \in 1 .. NumThreads - 1
               PROVE  next_period[(u + j) % NumThreads][u] <=
                        IF InLoop(u)' /\ j <= i'[u]
                        THEN KnownPeriods(periods[u]) + 1
                        ELSE KnownPeriods(periods[u])
    BY <1>1 DEF NotYetInv
  <2>1. CASE u = t  BY <1>2, <1>4, <1>5, <2>1, NotInLoop
  <2>2. CASE u # t  BY <1>1, <1>3, <2>2 DEF NotYetInv
  <2> QED  BY <2>1, <2>2
<1>7. \A u \in Thread : NumImported(u)' = NumImported(u)
  <2> SUFFICES ASSUME NEW u \in Thread
               PROVE  NumImported(u)' = NumImported(u)
    OBVIOUS
  <2>1. CASE u = t
    <3>1. NumImported(t) = KnownPeriods(periods[t]) * (NumThreads - 1)
      BY <1>2, NumImportedType DEF NumImported
    <3>2. 1 < NumThreads => TargetPeriod(t)' <= KnownPeriods(periods[t])
      BY <1>1, <1>2, NotInLoop DEF TargetPeriod, Target
    <3>3. 1 < NumThreads => TargetPeriod(t)' \in Int
      BY <1>1, <1>5 DEF TargetPeriod, Target
    <3>4. NumImported(t)' = KnownPeriods(periods[t]) * (NumThreads - 1) + 0
      BY <1>1, <1>4, <3>2, <3>3 DEF NumImported
    <3> QED  BY <2>1, <3>1, <3>4, NumImportedType
  <2>2. CASE u # t
    BY <1>1, <1>3, <2>2 DEF NumImported, TargetPeriod, Target
  <2> QED  BY <2>1, <2>2
<1>8. ImportedInv'  BY <1>1, <1>7 DEF ImportedInv, ExpectedImport
<1> QED  BY <1>6, <1>8

\* The loop leaves a thread whose set has been taken, and has not taken one of
\* the next thread.
LEMMA DNextTarget ==
  ASSUME DInv, NEW t \in Thread, NextTarget(t)
  PROVE  NotYetInv' /\ ImportedInv'
<1> USE DEF DInv, RInv, BInv, GInv
<1>1. /\ InLoop(t) /\ i[t] \in 1 .. NumThreads - 1
      /\ i' = [i EXCEPT ![t] = @ + 1]
      /\ UNCHANGED <<pc, periods, next_period, imported, fate>>
      /\ \A u \in Thread \ {t} : i'[u] = i[u]
      /\ i'[t] = i[t] + 1
      /\ \A u \in Thread : InLoop(u)' = InLoop(u)
  BY DEF NextTarget, InLoop, Importing, TypeOK, solverVars, queueVars
<1>2. \A u \in Thread : /\ periods[u] \in Nat /\ KnownPeriods(periods[u]) \in Nat
                        /\ i[u] \in 1 .. NumThreads
  BY DEF TypeOK, KnownPeriods
<1>3. \A u \in Thread : \A j \in 1 .. NumThreads - 1 :
        next_period[(u + j) % NumThreads][u] \in Int
  BY TargetIsOther DEF TypeOK, QueueTypeOK, Period
<1>4. periods[t] >= Margin /\ KnownPeriods(periods[t]) = periods[t] - Margin
  BY <1>1, <1>2 DEF InLoop, KnownPeriods
<1>5. periods[t] - Margin < TargetPeriod(t)
  <2>1. Target(t) \in Thread  BY <1>1, TargetIsOther DEF Target
  <2>2. head[Target(t)] <= TargetPeriod(t)  BY <2>1 DEF HeadInv, TargetPeriod
  <2>3. TargetPeriod(t) \in Int  BY <1>1, <1>3 DEF TargetPeriod, Target
  <2>4. ~(TargetPeriod(t) <= periods[t] - Margin /\ head[Target(t)] <= TargetPeriod(t))
    BY DEF NextTarget, Available, TargetPeriod
  <2> QED  BY <1>2, <2>2, <2>3, <2>4
<1>6. NotYetInv'
  <2> SUFFICES ASSUME NEW u \in Thread, NEW j \in 1 .. NumThreads - 1
               PROVE  next_period[(u + j) % NumThreads][u] <=
                        IF InLoop(u) /\ j <= i'[u]
                        THEN KnownPeriods(periods[u]) + 1
                        ELSE KnownPeriods(periods[u])
    BY <1>1 DEF NotYetInv
  <2>1. next_period[(u + j) % NumThreads][u] <=
          IF InLoop(u) /\ j <= i[u] THEN KnownPeriods(periods[u]) + 1
                                    ELSE KnownPeriods(periods[u])
    BY DEF NotYetInv
  <2>2. j <= i[u] => j <= i'[u]  BY <1>1, <1>2
  <2> QED  BY <1>2, <1>3, <2>1, <2>2
<1>7. \A u \in Thread : NumImported(u)' = NumImported(u)
  <2> SUFFICES ASSUME NEW u \in Thread
               PROVE  NumImported(u)' = NumImported(u)
    OBVIOUS
  <2>1. CASE u = t
    <3> DEFINE known == KnownPeriods(periods[t])
    <3>1. NumImported(t) = known * (NumThreads - 1) + i[t]
      BY <1>1, <1>4, <1>5 DEF NumImported
    <3>2. i[t] + 1 < NumThreads => TargetPeriod(t)' <= known
      <4> SUFFICES ASSUME i[t] + 1 < NumThreads
                   PROVE  next_period[(t + (i[t] + 1)) % NumThreads][t] <= known
        BY <1>1 DEF TargetPeriod, Target
      <4>1. i[t] + 1 \in 1 .. NumThreads - 1 /\ ~(i[t] + 1 <= i[t])  BY <1>1
      <4> QED  BY <4>1 DEF NotYetInv
    <3>3. i[t] + 1 < NumThreads => TargetPeriod(t)' \in Int
      <4>1. i[t] + 1 < NumThreads => i[t] + 1 \in 1 .. NumThreads - 1  BY <1>1
      <4> QED  BY <1>1, <1>3, <4>1 DEF TargetPeriod, Target
    <3>4. NumImported(t)' = known * (NumThreads - 1) + ((i[t] + 1) - 1)
      BY <1>1, <1>2, <3>2, <3>3 DEF NumImported
    <3>5. (i[t] + 1) - 1 = i[t]  BY <1>1
    <3> QED  BY <2>1, <3>1, <3>4, <3>5
  <2>2. CASE u # t  BY <1>1, <2>2 DEF NumImported, TargetPeriod, Target
  <2> QED  BY <2>1, <2>2
<1>8. ImportedInv'  BY <1>1, <1>7 DEF ImportedInv, ExpectedImport
<1> QED  BY <1>6, <1>8

-----------------------------------------------------------------------------

\* The loop of importClauses comes to each thread once.
LEMMA RingOnce ==
  ASSUME NEW t \in Thread, NEW j \in 1 .. NumThreads - 1, NEW k \in 1 .. NumThreads - 1,
         (t + j) % NumThreads = (t + k) % NumThreads
  PROVE  j = k
<1> USE DEF Thread
<1>1. \A l \in 1 .. NumThreads - 1 :
        (t + l) % NumThreads = IF t + l < NumThreads THEN t + l ELSE t + l - NumThreads
  <2> TAKE l \in 1 .. NumThreads - 1
  <2>1. CASE t + l < NumThreads  BY <2>1, SMT
  <2>2. CASE t + l >= NumThreads  BY <2>2, SMT
  <2> QED  BY <2>1, <2>2, SMT
<1> QED  BY <1>1, SMT

\* A set that is taken holds what its owner's search alone decides.
LEMMA SetIsExpected ==
  ASSUME DInv, NEW t \in Thread, pc[t] = "copy"
  PROVE  clauses[Target(t)][TargetPeriod(t)] =
           IF fate[Target(t)] = TargetPeriod(t) THEN "none" ELSE "all"
<1> USE DEF DInv, RInv, ResultInv, BInv, GInv
<1> DEFINE u == Target(t)
           p == TargetPeriod(t)
<1>1. u \in Thread /\ p \in Period  BY AtAnothersSet DEF AtSet
<1>2. completed[u][p]  BY DEF CopyInv
<1>3. p <= periods[t] - Margin /\ solving[t]
  BY DEF AtSetInv, AtSet, SolvingInv, Importing
<1> HIDE DEF u, p
<1>4. /\ p \in Nat /\ periods[t] \in Nat /\ periods[u] \in Nat
      /\ winner_period \in Nat /\ fate[u] \in Nat \cup {NoAnswer}
  BY <1>1 DEF TypeOK, SharerTypeOK, Period
<1>5. p < NumCompleted(u)  BY <1>1, <1>2 DEF CompletedInv
<1>6. /\ NumCompleted(u) \in Int /\ NumCompleted(u) <= periods[u] + 1
      /\ NumCompleted(u) > periods[u] => Pushed(u) /\ pc[u] # "complete"
  BY <1>1, <1>4 DEF NumCompleted, LastInv, Pushed
<1>7. clauses[u][p] = IF fate[u] = p THEN "none" ELSE "all"
  <2>1. CASE p < periods[u]
    <3>1. fate[u] # p  BY <1>1, <1>4, <2>1 DEF FateInv, NoAnswer
    <3> QED  BY <1>1, <2>1, <3>1 DEF FilledInv
  <2>2. CASE p = periods[u]
    <3>1. Pushed(u) /\ pc[u] # "complete"  BY <1>4, <1>5, <1>6, <2>2
    <3>2. clauses[u][p] = Filling(u)  BY <1>1, <1>4, <2>2 DEF FilledInv
    <3>3. pc[u] \notin {"export", "search", "check", "restart", "stop"}
      BY <3>1 DEF Pushed, Importing
    <3>4. CASE solving[u]
      <4>1. fate[u] # p
        BY <1>1, <1>4, <2>2, <3>3, <3>4 DEF FateInv, NoAnswer
      <4> QED  BY <3>1, <3>2, <3>3, <3>4, <4>1 DEF Filling
    <3>5. CASE ~solving[u]
      <4>1. sol_found /\ (fate[u] = periods[u] \/ winner_period + Margin < periods[u])
        BY <1>1, <3>5 DEF ReturnedInv
      <4>2. periods[t] <= winner_period + Margin
        BY <1>3, <4>1 DEF MarginInv
      <4>3. ~(winner_period + Margin < p)  BY <1>3, <1>4, <4>2
      <4>4. fate[u] = p  BY <2>2, <4>1, <4>3
      <4> QED  BY <3>2, <3>3, <3>5, <4>4 DEF Filling
    <3> QED  BY <3>4, <3>5
  <2>3. ~(p > periods[u])  BY <1>4, <1>5, <1>6
  <2> QED  BY <1>4, <2>1, <2>2, <2>3
<1> QED  BY <1>7 DEF u, p

\* The set that is copied is the next one of the expected imports.
LEMMA DCopy ==
  ASSUME DInv, NEW t \in Thread, Copy(t)
  PROVE  NotYetInv' /\ ImportedInv'
<1> USE DEF DInv, RInv, BInv, GInv
<1> DEFINE u == Target(t)
           p == TargetPeriod(t)
           set == [src |-> u, prd |-> p, content |-> clauses[u][p]]
           known == KnownPeriods(periods[t])
<1>1. /\ pc[t] = "copy" /\ Goto(t, "import") /\ CompleteExportation(u, t)
      /\ UNCHANGED <<periods, i, fate>>
      /\ imported' = [imported EXCEPT ![t] = Append(@, set)]
  BY DEF Copy
<1>2. /\ u \in Thread \ {t} /\ p \in Nat
      /\ next_period \in [Thread -> [Thread -> Period]]
  <2>1. u \in Thread \ {t} /\ p \in Period  BY <1>1, AtAnothersSet DEF AtSet
  <2> QED  BY <2>1 DEF TypeOK, QueueTypeOK, Period
<1>3. i[t] \in 1 .. NumThreads - 1 /\ periods[t] >= Margin /\ p <= periods[t] - Margin
      /\ periods[t] \in Nat
  BY <1>1 DEF AtSetInv, AtSet, TypeOK
<1>4. known \in Nat /\ known = periods[t] - Margin  BY <1>3 DEF KnownPeriods
<1>5. p = known
  <2>1. known <= p  BY <1>2 DEF KnownInv, TargetPeriod
  <2>2. p <= known  BY <1>3, <1>4
  <2>3. \A a, b \in Nat : a <= b /\ b <= a => a = b  OBVIOUS
  <2>4. p \in Nat /\ known \in Nat  BY <1>2, <1>4
  <2> HIDE DEF p, known
  <2> QED  BY <2>1, <2>2, <2>3, <2>4, Zenon
<1>6. \A w, v \in Thread :
        next_period'[w][v] = IF w = u /\ v = t THEN p + 1 ELSE next_period[w][v]
  BY <1>1, <1>2 DEF CompleteExportation, TargetPeriod
<1>7. \A v \in Thread : InLoop(v)' = InLoop(v)
  BY <1>1 DEF InLoop, Goto, Importing, TypeOK
<1>8. InLoop(t)  BY <1>1, <1>3 DEF InLoop, Importing
<1>9. NotYetInv'
  <2> SUFFICES ASSUME NEW v \in Thread, NEW j \in 1 .. NumThreads - 1
               PROVE  next_period'[(v + j) % NumThreads][v] <=
                        IF InLoop(v) /\ j <= i[v] THEN KnownPeriods(periods[v]) + 1
                                                  ELSE KnownPeriods(periods[v])
    BY <1>1, <1>7 DEF NotYetInv
  <2>1. (v + j) % NumThreads \in Thread  BY TargetIsOther
  <2>2. CASE (v + j) % NumThreads = u /\ v = t
    <3>1. j = i[t]  BY <1>3, <2>2, RingOnce DEF Target
    <3>2. next_period'[(v + j) % NumThreads][v] = known + 1
      BY <1>5, <1>6, <2>1, <2>2
    <3>3. j <= i[t]  BY <1>3, <3>1
    <3> QED  BY <1>4, <1>8, <2>2, <3>2, <3>3
  <2>3. CASE ~((v + j) % NumThreads = u /\ v = t)
    BY <1>6, <2>1, <2>3 DEF NotYetInv
  <2> QED  BY <2>2, <2>3
<1>10. ASSUME NEW v \in Thread \ {t}
       PROVE  NumImported(v)' = NumImported(v)
  <2>1. i[v] \in 1 .. NumThreads  BY DEF TypeOK
  <2>2. i[v] < NumThreads => Target(v) \in Thread
    BY <2>1, TargetIsOther DEF Target
  <2>3. i[v] < NumThreads => TargetPeriod(v)' = TargetPeriod(v)
    BY <1>1, <1>6, <2>2 DEF TargetPeriod, Target
  <2> QED  BY <1>1, <1>7, <2>3 DEF NumImported
<1>11. NumImported(t) = known * (NumThreads - 1) + (i[t] - 1)
  BY <1>2, <1>4, <1>5, <1>8 DEF NumImported
<1>12. NumImported(t)' = known * (NumThreads - 1) + i[t]
  <2>1. TargetPeriod(t)' = known + 1
    BY <1>1, <1>2, <1>5, <1>6 DEF TargetPeriod, Target
  <2>2. i[t] < NumThreads /\ known < known + 1  BY <1>3, <1>4
  <2> QED  BY <1>1, <1>7, <1>8, <2>1, <2>2 DEF NumImported
<1>13. NumImported(t) \in Nat /\ NumImported(t)' = NumImported(t) + 1
  <2>1. known * (NumThreads - 1) \in Nat  BY NumImportedType
  <2> QED  BY <1>3, <1>11, <1>12, <2>1
<1>14. set = ExpectedImport(t, NumImported(t) + 1)
  <2> DEFINE n == NumImported(t)
             r == i[t] - 1
  <2>1. (n + 1) - 1 = known * (NumThreads - 1) + r  BY <1>11, <1>13
  <2>2. NumThreads - 1 \in Nat \ {0} /\ r \in 0 .. (NumThreads - 1) - 1
    BY <1>3
  <2>3. /\ ((n + 1) - 1) \div (NumThreads - 1) = known
        /\ ((n + 1) - 1) % (NumThreads - 1) = r
    <3>1. known \in Nat  BY <1>4
    <3>2. \A q \in Nat : \A m \in Nat \ {0} : \A e \in 0 .. m - 1 :
            (q * m + e) \div m = q /\ (q * m + e) % m = e
      BY DivMod
    <3> DEFINE m == NumThreads - 1
    <3>3. m \in Nat \ {0} /\ r \in 0 .. m - 1 /\ (n + 1) - 1 = known * m + r
      BY <2>1, <2>2
    <3> HIDE DEF n, r, m, known
    <3>4. (known * m + r) \div m = known /\ (known * m + r) % m = r
      BY <3>1, <3>2, <3>3, Zenon
    <3>5. ((n + 1) - 1) \div m = known /\ ((n + 1) - 1) % m = r
      BY <3>3, <3>4, Zenon
    <3> QED  BY <3>5, Zenon DEF m
  <2>4. t + 1 + (i[t] - 1) = t + i[t]  BY <1>3 DEF Thread
  <2>5. clauses[u][p] = IF fate[u] = p THEN "none" ELSE "all"
    BY <1>1, SetIsExpected
  <2> QED  BY <1>5, <2>3, <2>4, <2>5 DEF ExpectedImport, Target
<1>15. ImportedInv'
  <2>0. fate' = fate  BY <1>1
  <2> SUFFICES ASSUME NEW v \in Thread
               PROVE  imported'[v] = [k \in 1 .. NumImported(v)' |-> ExpectedImport(v, k)]
    <3> HIDE DEF set, u, p, known
    <3> QED  BY <2>0 DEF ImportedInv, ExpectedImport
  <2>1. imported \in [Thread -> Seq(Batch)]  BY DEF TypeOK
  <2>2. CASE v # t
    BY <1>1, <1>10, <2>1, <2>2 DEF ImportedInv
  <2>3. CASE v = t
    <3> DEFINE n == NumImported(t)
               s == imported[t]
    <3>1. s = [k \in 1 .. n |-> ExpectedImport(t, k)]  BY DEF ImportedInv
    <3>2. s \in Seq(Batch) /\ n \in Nat  BY <1>13, <2>1
    <3>3. imported'[t] = Append(s, ExpectedImport(t, n + 1))
      BY <1>1, <1>14, <2>1
    <3> HIDE DEF n, s
    <3>4. Len(s) = n  BY <3>1, <3>2
    <3>5. Append(s, ExpectedImport(t, n + 1)) =
            [k \in 1 .. n + 1 |-> ExpectedImport(t, k)]
      BY <3>1, <3>2, <3>4
    <3> QED  BY <1>13, <2>3, <3>3, <3>5 DEF n
  <2> QED  BY <2>2, <2>3
<1> QED  BY <1>9, <1>15

\* After the loop a thread has taken one set of every other thread.
LEMMA DEnterNextPeriod ==
  ASSUME DInv, NEW t \in Thread, EnterNextPeriod(t)
  PROVE  NotYetInv' /\ ImportedInv'
<1> USE DEF DInv, RInv, BInv, GInv
<1>1. /\ pc[t] = "import" /\ Goto(t, "check")
      /\ periods' = [periods EXCEPT ![t] = @ + 1]
      /\ UNCHANGED <<i, imported, fate>>
      /\ CompleteExportation(t, t) \/ UNCHANGED queueVars
  BY DEF EnterNextPeriod
<1>2. /\ pc \in [Thread -> PC] /\ periods \in [Thread -> 0 .. MaxPeriod]
      /\ next_period \in [Thread -> [Thread -> Period]]
      /\ i \in [Thread -> 1 .. NumThreads]
  BY DEF TypeOK, QueueTypeOK
<1>3. periods[t] \in Nat  BY <1>2
<1>4. periods[t] >= Margin => i[t] = NumThreads  BY <1>3 DEF EnterNextPeriod
<1>5. \A w, v \in Thread : w # v => next_period'[w][v] = next_period[w][v]
  BY <1>1, <1>2 DEF CompleteExportation, queueVars
<1>6. ~InLoop(t)' /\ periods'[t] = periods[t] + 1
  BY <1>1, <1>2 DEF InLoop, Goto, Importing
<1>7. \A v \in Thread \ {t} : InLoop(v)' = InLoop(v) /\ periods'[v] = periods[v]
  BY <1>1, <1>2 DEF InLoop, Goto, Importing
<1>8. InLoop(t) <=> periods[t] >= Margin  BY <1>1 DEF InLoop, Importing
<1>9. KnownPeriods(periods[t] + 1) =
        IF InLoop(t) THEN KnownPeriods(periods[t]) + 1 ELSE KnownPeriods(periods[t])
  BY <1>3, <1>8 DEF KnownPeriods
<1>10. KnownPeriods(periods[t]) \in Nat  BY <1>3 DEF KnownPeriods
<1>11. NotYetInv'
  <2> SUFFICES ASSUME NEW v \in Thread, NEW j \in 1 .. NumThreads - 1
               PROVE  next_period'[(v + j) % NumThreads][v] <=
                        IF InLoop(v)' /\ j <= i[v] THEN KnownPeriods(periods'[v]) + 1
                                                   ELSE KnownPeriods(periods'[v])
    BY <1>1 DEF NotYetInv
  <2>1. next_period'[(v + j) % NumThreads][v] = next_period[(v + j) % NumThreads][v]
    BY <1>5, TargetIsOther
  <2>2. next_period[(v + j) % NumThreads][v] <=
          IF InLoop(v) /\ j <= i[v] THEN KnownPeriods(periods[v]) + 1
                                    ELSE KnownPeriods(periods[v])
    BY DEF NotYetInv
  <2>3. CASE v # t  BY <1>7, <2>1, <2>2, <2>3
  <2>4. CASE v = t
    <3>1. InLoop(t) => j <= i[t]  BY <1>4, <1>8
    <3> QED  BY <1>6, <1>9, <2>1, <2>2, <2>4, <3>1
  <2> QED  BY <2>3, <2>4
<1>12. ASSUME NEW v \in Thread \ {t}
       PROVE  NumImported(v)' = NumImported(v)
  <2>1. i[v] \in 1 .. NumThreads  BY <1>2
  <2>2. i[v] < NumThreads => Target(v) \in Thread \ {v}
    BY <2>1, TargetIsOther DEF Target
  <2>3. i[v] < NumThreads => TargetPeriod(v)' = TargetPeriod(v)
    BY <1>1, <1>5, <2>2 DEF TargetPeriod, Target
  <2> QED  BY <1>1, <1>7, <2>3 DEF NumImported
<1>13. NumImported(t)' = NumImported(t)
  <2> DEFINE known == KnownPeriods(periods[t])
  <2>1. NumImported(t)' = KnownPeriods(periods[t] + 1) * (NumThreads - 1)
    <3>1. KnownPeriods(periods[t] + 1) * (NumThreads - 1) \in Nat
      <4>1. \A a, b \in Nat : a * b \in Nat  OBVIOUS
      <4>2. KnownPeriods(periods[t] + 1) \in Nat  BY <1>3 DEF KnownPeriods
      <4> QED  BY <4>1, <4>2
    <3> QED  BY <1>6, <3>1 DEF NumImported
  <2>2. known * (NumThreads - 1) \in Nat  BY NumImportedType
  <2>3. CASE InLoop(t)
    <3>1. NumImported(t) = known * (NumThreads - 1) + (NumThreads - 1)
      BY <1>4, <1>8, <2>3 DEF NumImported
    <3>2. (known + 1) * (NumThreads - 1) = known * (NumThreads - 1) + (NumThreads - 1)
      BY <1>10
    <3> QED  BY <1>9, <2>1, <2>3, <3>1, <3>2
  <2>4. CASE ~InLoop(t)
    BY <1>9, <2>1, <2>2, <2>4 DEF NumImported
  <2> QED  BY <2>3, <2>4
<1>14. ImportedInv'  BY <1>1, <1>12, <1>13 DEF ImportedInv, ExpectedImport
<1> QED  BY <1>11, <1>14

-----------------------------------------------------------------------------

\* The steps that add no clause and in which no thread gets to another period.
LEMMA FQuiet ==
  ASSUME FilledInv, UNCHANGED <<clauses, periods>>,
         \A u \in Thread : Filling(u)' = Filling(u)
  PROVE  FilledInv'
BY DEF FilledInv

\* A step of one thread that fills the set of its period up to where the label
\* it goes to says.
LEMMA FAddClauses ==
  ASSUME GInv, FilledInv, NEW t \in Thread, ~Pushed(t), NEW what \in {"some", "all"},
         AddClauses(t, what), UNCHANGED <<periods, solving>>,
         NEW label, Goto(t, label), Filling(t)' = what
  PROVE  FilledInv'
<1> USE DEF GInv
<1>1. last[t] = periods[t] /\ periods[t] \in Period
  BY DEF LastInv, TypeOK, Period
<1>2. \A u \in Thread, p \in Period :
        clauses'[u][p] = IF u = t /\ p = periods[t] THEN what ELSE clauses[u][p]
  BY <1>1 DEF AddClauses, TypeOK, QueueTypeOK
<1>3. \A u \in Thread \ {t} : Filling(u)' = Filling(u)
  BY DEF Filling, Pushed, Goto, TypeOK
<1> SUFFICES ASSUME NEW u \in Thread, NEW p \in Period
             PROVE  clauses'[u][p] = IF p < periods[u] THEN "all"
                                     ELSE IF p = periods[u] THEN Filling(u)'
                                     ELSE "none"
  BY DEF FilledInv
<1>4. p \in Int /\ periods[u] \in Int  BY DEF Period, TypeOK
<1>5. CASE u = t /\ p = periods[t]  BY <1>2, <1>4, <1>5
<1>6. CASE u = t /\ p # periods[t]  BY <1>2, <1>6 DEF FilledInv
<1>7. CASE u # t  BY <1>2, <1>3, <1>7 DEF FilledInv
<1> QED  BY <1>5, <1>6, <1>7

\* In a new period a thread has exported nothing yet.
LEMMA FEnterNextPeriod ==
  ASSUME GInv, FilledInv, NEW t \in Thread, EnterNextPeriod(t)
  PROVE  FilledInv'
<1> USE DEF GInv
<1>1. /\ pc[t] = "import" /\ Goto(t, "check") /\ solving[t]
      /\ periods' = [periods EXCEPT ![t] = @ + 1]
      /\ UNCHANGED <<clauses, solving>>
  BY DEF EnterNextPeriod, CompleteExportation, queueVars, SolvingInv, Importing
<1>2. \A u \in Thread \ {t} : Filling(u)' = Filling(u) /\ periods'[u] = periods[u]
  BY <1>1 DEF Filling, Pushed, Goto, TypeOK
<1>3. Filling(t) = "all" /\ Filling(t)' = "none" /\ periods'[t] = periods[t] + 1
  BY <1>1 DEF Filling, Pushed, Goto, Importing, TypeOK
<1> SUFFICES ASSUME NEW u \in Thread, NEW p \in Period
             PROVE  clauses[u][p] = IF p < periods'[u] THEN "all"
                                    ELSE IF p = periods'[u] THEN Filling(u)'
                                    ELSE "none"
  BY <1>1 DEF FilledInv
<1>4. p \in Int /\ periods[u] \in Int  BY DEF Period, TypeOK
<1>5. CASE u = t
  <2>1. clauses[t][p] = IF p < periods[t] THEN "all"
                        ELSE IF p = periods[t] THEN "all" ELSE "none"
    BY <1>3 DEF FilledInv
  <2> QED  BY <1>3, <1>4, <1>5, <2>1
<1>6. CASE u # t  BY <1>2, <1>6 DEF FilledInv
<1> QED  BY <1>5, <1>6

\* Every step preserves FilledInv.
LEMMA FStep ==
  ASSUME GInv, FilledInv, [Next]_vars
  PROVE  FilledInv'
<1>1. pc \in [Thread -> PC] /\ solving \in [Thread -> BOOLEAN]
  BY DEF GInv, TypeOK
<1>2. ASSUME NEW t \in Thread, NEW label, Goto(t, label),
             UNCHANGED <<clauses, periods>>,
             \A u \in Thread \ {t} : solving'[u] = solving[u],
             Filling(t)' = Filling(t)
      PROVE  FilledInv'
  <2>1. \A u \in Thread \ {t} : Filling(u)' = Filling(u)
    BY <1>1, <1>2 DEF Filling, Pushed, Goto
  <2> QED  BY <1>2, <2>1, FQuiet
<1>3. ASSUME NEW t \in Thread, ThreadStep(t)
      PROVE  FilledInv'
  <2>1. CASE BeginExport(t)
    <3>1. ~Pushed(t) /\ Filling(t)' = "some"
      BY <1>1, <2>1 DEF BeginExport, Pushed, Filling, Goto, Importing
    <3> QED  BY <2>1, <3>1, FAddClauses DEF BeginExport, solverVars
  <2>2. CASE EndExport(t)
    <3>1. solving[t]  BY <2>2 DEF EndExport, GInv, SolvingInv
    <3>2. ~Pushed(t) /\ Filling(t)' = "all"
      BY <1>1, <2>2, <3>1 DEF EndExport, Pushed, Filling, Goto, Importing
    <3> QED  BY <2>2, <3>2, FAddClauses DEF EndExport, solverVars
  <2>3. CASE Push(t)
    <3>1. Filling(t)' = Filling(t)
      BY <1>1, <2>3 DEF Push, Pushed, Filling, Goto, Importing
    <3> QED  BY <1>2, <2>3, <3>1 DEF Push, PushNext, solverVars
  <2>4. CASE Complete(t)
    <3>1. \A u \in Thread : Filling(u)' = Filling(u)
      BY <1>1, <2>4 DEF Complete, Waiters, Pushed, Filling, Importing
    <3> QED  BY <2>4, <3>1, FQuiet DEF Complete, CompleteAddition, solverVars
  <2>5. CASE RemoveSets(t)
    <3>1. PICK label \in {"import", "done"} : Goto(t, label)
      BY <2>5 DEF RemoveSets
    <3>2. Filling(t)' = Filling(t)
      BY <1>1, <2>5, <3>1 DEF RemoveSets, Pushed, Filling, Goto, Importing
    <3> QED  BY <1>2, <2>5, <3>1, <3>2 DEF RemoveSets, RemoveExported
  <2>6. CASE GetSet(t)
    <3>1. Filling(t)' = Filling(t)
      BY <1>1, <2>6 DEF GetSet, Pushed, Filling, Goto, Importing
    <3> QED  BY <1>2, <2>6, <3>1 DEF GetSet, queueVars, solverVars
  <2>7. CASE NextTarget(t)
    BY <2>7, FQuiet DEF NextTarget, Filling, Pushed, queueVars, solverVars
  <2>8. CASE CheckCompleted(t)
    <3>1. PICK label \in {"copy", "blocked", "import"} : Goto(t, label)
      BY <2>8 DEF CheckCompleted
    <3>2. Filling(t)' = Filling(t)
      BY <1>1, <2>8, <3>1 DEF CheckCompleted, Pushed, Filling, Goto, Importing
    <3> QED  BY <1>2, <2>8, <3>1, <3>2 DEF CheckCompleted, queueVars, solverVars
  <2>9. CASE Copy(t)
    <3>1. Filling(t)' = Filling(t)
      BY <1>1, <2>9 DEF Copy, Pushed, Filling, Goto, Importing
    <3> QED  BY <1>2, <2>9, <3>1 DEF Copy, CompleteExportation
  <2>10. CASE CheckTermination(t) \/ Restart(t)
    <3>1. PICK label \in {"search", "restart", "stop"} : Goto(t, label)
      BY <2>10 DEF CheckTermination, Restart, TestTermination
    <3>2. Filling(t)' = Filling(t)
      BY <1>1, <2>10, <3>1
         DEF CheckTermination, Restart, Pushed, Filling, Goto, Importing
    <3> QED
      BY <1>2, <2>10, <3>1, <3>2 DEF CheckTermination, Restart, queueVars, solverVars
  <2>11. CASE Finish(t) \/ Stop(t)
    <3>1. PICK status : Return(t, status)  BY <2>11 DEF Finish, Stop
    <3>2. Filling(t)' = Filling(t)
      BY <1>1, <2>11, <3>1
         DEF Return, Finish, Stop, Pushed, Filling, Goto, Importing
    <3>3. \A u \in Thread \ {t} : solving'[u] = solving[u]
      BY <1>1, <3>1 DEF Return
    <3> QED  BY <1>2, <3>1, <3>2, <3>3 DEF Return, queueVars, solverVars
  <2> QED
    BY <1>3, <2>1, <2>2, <2>3, <2>4, <2>5, <2>6, <2>7, <2>8, <2>9, <2>10, <2>11,
       FEnterNextPeriod
       DEF ThreadStep
<1>4. CASE Tick \/ UNCHANGED vars
  BY <1>4, FQuiet DEF Tick, vars, queueVars, solverVars, Filling, Pushed
<1> QED  BY <1>3, <1>4 DEF Next, Terminating

-----------------------------------------------------------------------------

\* Nobody has imported anything.
LEMMA DInit == Init => DInv
<1> SUFFICES ASSUME Init PROVE NotYetInv /\ FilledInv /\ ImportedInv
  BY RInit DEF DInv
<1>1. KnownPeriods(0) = 0  BY DEF KnownPeriods
<1>2. \A t \in Thread : /\ pc[t] = "search" /\ periods[t] = 0
                        /\ imported[t] = << >> /\ ~InLoop(t)
                        /\ Filling(t) = "none"
  BY DEF Init, InLoop, Importing, Filling, Pushed
<1>3. NotYetInv
  <2>1. \A t \in Thread : \A j \in 1 .. NumThreads - 1 :
          next_period[(t + j) % NumThreads][t] = 0
    BY TargetIsOther DEF Init, QueueInit
  <2> QED  BY <1>1, <1>2, <2>1 DEF NotYetInv
<1>4. FilledInv
  <2>1. \A p \in Period : ~(p < 0)  BY DEF Period
  <2> QED  BY <1>2, <2>1 DEF FilledInv, Init, QueueInit
<1>5. ImportedInv
  <2> SUFFICES ASSUME NEW t \in Thread
               PROVE  imported[t] = [k \in 1 .. NumImported(t) |-> ExpectedImport(t, k)]
    BY DEF ImportedInv
  <2>1. NumImported(t) = 0  BY <1>1, <1>2 DEF NumImported
  <2>2. 1 .. 0 = {}  OBVIOUS
  <2> QED  BY <1>2, <2>1, <2>2
<1> QED  BY <1>3, <1>4, <1>5

\* Every step preserves DInv.
LEMMA DStep ==
  ASSUME ~NonDet, Limits = {}
  PROVE  DInv /\ [Next]_vars => DInv'
<1> SUFFICES ASSUME DInv, [Next]_vars PROVE NotYetInv' /\ ImportedInv'
  BY RStep, FStep DEF DInv, RInv, BInv
<1>1. pc \in [Thread -> PC]  BY DEF DInv, RInv, BInv, GInv, TypeOK
<1>2. ASSUME NEW t \in Thread, NEW label, Goto(t, label),
             pc[t] \in Importing <=> label \in Importing,
             UNCHANGED <<periods, next_period, imported, fate, i>>
      PROVE  NotYetInv' /\ ImportedInv'
  BY <1>1, <1>2, DQuiet DEF Goto
<1>3. ASSUME NEW t \in Thread, ThreadStep(t)
      PROVE  NotYetInv' /\ ImportedInv'
  <2>1. CASE BeginExport(t)
    BY <1>2, <2>1 DEF BeginExport, AddClauses, Importing, solverVars
  <2>2. CASE EndExport(t)
    BY <1>2, <2>2 DEF EndExport, AddClauses, Importing, solverVars
  <2>3. CASE Push(t)
    BY <1>2, <2>3 DEF Push, PushNext, Importing, solverVars
  <2>4. CASE Complete(t)
    <3>1. \A u \in Thread : pc'[u] \in Importing <=> pc[u] \in Importing
      BY <1>1, <2>4 DEF Complete, Waiters, Importing
    <3> QED  BY <2>4, <3>1, DQuiet DEF Complete, CompleteAddition, solverVars
  <2>5. CASE GetSet(t)
    BY <1>2, <2>5 DEF GetSet, Importing, solverVars, queueVars
  <2>6. CASE CheckCompleted(t)
    <3>1. PICK label \in {"copy", "blocked"} : Goto(t, label)
      BY <2>6 DEF CheckCompleted
    <3> QED  BY <1>2, <2>6, <3>1 DEF CheckCompleted, Importing, solverVars, queueVars
  <2>7. CASE CheckTermination(t) \/ Restart(t)
    <3>1. PICK label \in {"search", "restart", "stop"} : Goto(t, label)
      BY <2>7 DEF CheckTermination, Restart, TestTermination
    <3> QED
      BY <1>2, <2>7, <3>1 DEF CheckTermination, Restart, Importing, solverVars, queueVars
  <2>8. CASE Finish(t) \/ Stop(t)
    <3>1. PICK status : Return(t, status)  BY <2>8 DEF Finish, Stop
    <3> QED
      BY <1>2, <2>8, <3>1 DEF Finish, Stop, Return, Importing, solverVars, queueVars
  <2> QED
    BY <1>3, <2>1, <2>2, <2>3, <2>4, <2>5, <2>6, <2>7, <2>8, DRemoveSets,
       DNextTarget, DCopy, DEnterNextPeriod
       DEF ThreadStep
<1>4. CASE Tick \/ UNCHANGED vars
  BY <1>4, DQuiet DEF Tick, vars, solverVars, queueVars
<1> QED  BY <1>3, <1>4 DEF Next, Terminating

\* What a thread has imported is a matter of its period and of the searches.
THEOREM DeterminismInvariant ==
  ASSUME ~NonDet, Limits = {}
  PROVE  Spec => []DInv
<1> QED  BY DInit, DStep, PTL DEF Spec

\* A thread that searches has imported the same clauses in the same order,
\* however the threads are scheduled.
THEOREM ImportsDeterministic ==
  ASSUME ~NonDet, Limits = {}
  PROVE  Spec => []ImportsAreDeterministic
<1>1. DInv => ImportsAreDeterministic
  <2> SUFFICES ASSUME DInv, NEW t \in Thread, pc[t] = "search"
               PROVE  imported[t] =
                        [k \in 1 .. KnownPeriods(periods[t]) * (NumThreads - 1) |->
                           ExpectedImport(t, k)]
    BY DEF ImportsAreDeterministic
  <2>1. ~InLoop(t)  BY DEF InLoop, Importing
  <2>2. KnownPeriods(periods[t]) * (NumThreads - 1) \in Nat
    BY NumImportedType DEF DInv, RInv, BInv, GInv
  <2>3. NumImported(t) = KnownPeriods(periods[t]) * (NumThreads - 1)
    BY <2>1, <2>2 DEF NumImported
  <2> QED  BY <2>3 DEF DInv, ImportedInv
<1>2. Spec => []DInv  BY DeterminismInvariant
<1> QED  BY <1>1, <1>2, PTL

-----------------------------------------------------------------------------
(*************************************************************************)
(* What a thread takes of another one, in every mode.                    *)
(*************************************************************************)

\* Clauses are added to the set of the present period only.
LEMMA OnceKept ==
  ASSUME GInv, ExactlyOnceInOrder, NEW t \in Thread, NEW u \in Thread, t # u,
         imported'[t] = imported[t], next_period'[u][t] = next_period[u][t],
         \A p \in 0 .. NumCompleted(u) - 1 : clauses'[u][p] = clauses[u][p]
  PROVE  TakenInOrder(imported'[t], u, next_period'[u][t], clauses'[u])
<1> DEFINE s == imported[t]
           From == {n \in DOMAIN s : s[n].src = u}
<1>1. /\ {s[n].prd : n \in From} = 0 .. next_period[u][t] - 1
      /\ \A m, n \in From : m < n => s[m].prd < s[n].prd
      /\ \A n \in From : s[n].content = clauses[u][s[n].prd]
  BY DEF ExactlyOnceInOrder, TakenInOrder
<1>2. next_period[u][t] <= NumCompleted(u) /\ next_period[u][t] \in Nat /\ NumCompleted(u) \in Int
  <2>1. next_period[u][t] \in Period /\ last[u] \in Period
    BY DEF GInv, TypeOK, QueueTypeOK
  <2>2. next_period[u][t] <= NumCompleted(u)  BY DEF GInv, TakenInv
  <2> QED  BY <2>1, <2>2 DEF Period, NumCompleted
<1>3. \A n \in From : clauses'[u][s[n].prd] = clauses[u][s[n].prd]
  BY <1>1, <1>2
<1>4. TakenInOrder(s, u, next_period[u][t], clauses'[u])
  BY <1>1, <1>3 DEF TakenInOrder
<1> HIDE DEF s
<1> QED  BY <1>4 DEF s

\* The thread takes the next set of another one.
LEMMA OneMore ==
  ASSUME NEW s \in Seq(Batch), NEW u \in Thread, NEW p \in Nat, NEW contents,
         NEW b \in Batch, b.src = u, b.prd = p, b.content = contents[p],
         TakenInOrder(s, u, p, contents)
  PROVE  TakenInOrder(Append(s, b), u, p + 1, contents)
<1> DEFINE s2 == Append(s, b)
           From == {n \in DOMAIN s : s[n].src = u}
           From2 == {n \in DOMAIN s2 : s2[n].src = u}
<1>1. /\ Len(s) \in Nat /\ DOMAIN s = 1 .. Len(s)
      /\ DOMAIN s2 = 1 .. Len(s) + 1 /\ s2[Len(s) + 1] = b
      /\ \A n \in DOMAIN s : s2[n] = s[n]
  OBVIOUS
<1>2. /\ {s[n].prd : n \in From} = 0 .. p - 1
      /\ \A m, n \in From : m < n => s[m].prd < s[n].prd
      /\ \A n \in From : s[n].content = contents[s[n].prd]
  BY DEF TakenInOrder
<1> HIDE DEF s2
<1>3. From2 = From \cup {Len(s) + 1}  BY <1>1
<1>4. \A n \in From : n \in 1 .. Len(s) /\ s2[n] = s[n] /\ s[n].prd \in 0 .. p - 1
  BY <1>1, <1>2
<1> HIDE DEF From, From2
<1>5. {s2[n].prd : n \in From2} = 0 .. p
  <2>1. {s2[n].prd : n \in From2} = {s[n].prd : n \in From} \cup {p}
    BY <1>1, <1>3, <1>4
  <2>2. (0 .. p - 1) \cup {p} = 0 .. p  OBVIOUS
  <2> QED  BY <1>2, <2>1, <2>2
<1>6. ASSUME NEW m \in From2, NEW n \in From2, m < n PROVE s2[m].prd < s2[n].prd
  <2>1. m \in From  BY <1>1, <1>3, <1>4, <1>6
  <2>2. CASE n = Len(s) + 1  BY <1>1, <1>4, <2>1, <2>2
  <2>3. CASE n \in From  BY <1>2, <1>4, <1>6, <2>1, <2>3
  <2> QED  BY <1>3, <2>2, <2>3
<1>7. \A n \in From2 : s2[n].content = contents[s2[n].prd]
  BY <1>1, <1>2, <1>3, <1>4
<1>8. (p + 1) - 1 = p  OBVIOUS
<1> QED  BY <1>5, <1>6, <1>7, <1>8 DEF TakenInOrder, s2, From2

\* It takes the set of a third one.
LEMMA NoMore ==
  ASSUME NEW s \in Seq(Batch), NEW u \in Thread, NEW num, NEW contents,
         NEW b \in Batch, b.src # u, TakenInOrder(s, u, num, contents)
  PROVE  TakenInOrder(Append(s, b), u, num, contents)
<1> DEFINE s2 == Append(s, b)
           From == {n \in DOMAIN s : s[n].src = u}
           From2 == {n \in DOMAIN s2 : s2[n].src = u}
<1>1. /\ Len(s) \in Nat /\ DOMAIN s = 1 .. Len(s)
      /\ DOMAIN s2 = 1 .. Len(s) + 1 /\ s2[Len(s) + 1] = b
      /\ \A n \in DOMAIN s : s2[n] = s[n]
  OBVIOUS
<1>2. /\ {s[n].prd : n \in From} = 0 .. num - 1
      /\ \A m, n \in From : m < n => s[m].prd < s[n].prd
      /\ \A n \in From : s[n].content = contents[s[n].prd]
  BY DEF TakenInOrder
<1> HIDE DEF s2
<1>3. From2 = From  BY <1>1
<1>4. \A n \in From : s2[n] = s[n]  BY <1>1
<1> HIDE DEF From, From2
<1>5. {s2[n].prd : n \in From2} = {s[n].prd : n \in From}  BY <1>3, <1>4
<1>6. /\ {s2[n].prd : n \in From2} = 0 .. num - 1
      /\ \A m, n \in From2 : m < n => s2[m].prd < s2[n].prd
      /\ \A n \in From2 : s2[n].content = contents[s2[n].prd]
  BY <1>2, <1>3, <1>4, <1>5
<1> QED  BY <1>6 DEF TakenInOrder, s2, From2

\* A thread takes a complete set, and no other thread takes one with it.
LEMMA OnceCopied ==
  ASSUME GInv, ExactlyOnceInOrder, NEW v \in Thread, Copy(v)
  PROVE  ExactlyOnceInOrder'
<1> DEFINE w == Target(v)  p == TargetPeriod(v)
           b == [src |-> w, prd |-> p, content |-> clauses[w][p]]
<1>1. w \in Thread \ {v} /\ p \in Period /\ p = next_period[w][v] /\ p \in Nat
      /\ imported \in [Thread -> Seq(Batch)] /\ next_period \in [Thread -> [Thread -> Period]]
      /\ b \in Batch
  <2>1. w \in Thread \ {v} /\ p \in Period
    BY AtAnothersSet DEF Copy, AtSet
  <2>2. imported \in [Thread -> Seq(Batch)] /\ next_period \in [Thread -> [Thread -> Period]]
        /\ clauses \in [Thread -> [Period -> {"none", "some", "all"}]]
    BY DEF GInv, TypeOK, QueueTypeOK
  <2>3. p = next_period[w][v]  BY DEF TargetPeriod
  <2>4. p \in Nat  BY <2>1 DEF Period
  <2>5. clauses[w][p] \in {"none", "some", "all"}  BY <2>1, <2>2
  <2>6. b \in Batch  BY <2>1, <2>5 DEF Batch
  <2> HIDE DEF w, p, b
  <2> QED  BY <2>1, <2>2, <2>3, <2>4, <2>6
<1>2. /\ imported' = [imported EXCEPT ![v] = Append(@, b)]
      /\ next_period' = [next_period EXCEPT ![w][v] = @ + 1]
      /\ clauses' = clauses
  BY DEF Copy, CompleteExportation
<1>3. b.src = w /\ b.prd = p /\ b.content = clauses[w][p]  OBVIOUS
<1> HIDE DEF w, p, b
<1> SUFFICES ASSUME NEW t \in Thread, NEW u \in Thread, t # u
             PROVE  TakenInOrder(imported'[t], u, next_period'[u][t], clauses'[u])
  BY DEF ExactlyOnceInOrder
<1>4. TakenInOrder(imported[t], u, next_period[u][t], clauses[u])
  BY DEF ExactlyOnceInOrder
<1>5. CASE t # v
  <2>1. imported'[t] = imported[t] /\ next_period'[u][t] = next_period[u][t]
    BY <1>1, <1>2, <1>5
  <2> QED  BY <1>2, <1>4, <2>1
<1>6. CASE t = v /\ u = w
  <2>1. imported'[t] = Append(imported[t], b) /\ next_period'[u][t] = p + 1 /\ next_period[u][t] = p
        /\ imported[t] \in Seq(Batch)
    BY <1>1, <1>2, <1>6
  <2>2. TakenInOrder(imported[t], u, p, clauses[u])  BY <1>4, <2>1
  <2>3. TakenInOrder(Append(imported[t], b), u, p + 1, clauses[u])
    BY <1>1, <1>3, <1>6, <2>1, <2>2, OneMore
  <2> QED  BY <1>2, <2>1, <2>3
<1>7. CASE t = v /\ u # w
  <2>1. imported'[t] = Append(imported[t], b) /\ next_period'[u][t] = next_period[u][t]
        /\ imported[t] \in Seq(Batch)
    BY <1>1, <1>2, <1>7
  <2>2. TakenInOrder(Append(imported[t], b), u, next_period[u][t], clauses[u])
    BY <1>1, <1>3, <1>4, <1>7, <2>1, NoMore
  <2> QED  BY <1>2, <2>1, <2>2
<1> QED  BY <1>5, <1>6, <1>7

\* Each step keeps what has been taken once and in order.
LEMMA OnceStep == GInv /\ ExactlyOnceInOrder /\ [Next]_vars => ExactlyOnceInOrder'
<1> SUFFICES ASSUME GInv, ExactlyOnceInOrder, [Next]_vars PROVE ExactlyOnceInOrder'
  OBVIOUS
<1>1. ASSUME imported' = imported,
             \A t, u \in Thread : t # u => next_period'[u][t] = next_period[u][t],
             \A u \in Thread : \A p \in 0 .. NumCompleted(u) - 1 : clauses'[u][p] = clauses[u][p]
      PROVE  ExactlyOnceInOrder'
  BY <1>1, OnceKept DEF ExactlyOnceInOrder
<1>2. ASSUME UNCHANGED <<imported, clauses>>,
             \A t, u \in Thread : t # u => next_period'[u][t] = next_period[u][t]
      PROVE  ExactlyOnceInOrder'
  BY <1>1, <1>2
<1>3. ASSUME NEW t \in Thread, ThreadStep(t) PROVE ExactlyOnceInOrder'
  <2>1. ASSUME NEW what, AddClauses(t, what), pc[t] # "complete", imported' = imported
        PROVE  ExactlyOnceInOrder'
    <3>1. next_period' = next_period  BY <2>1 DEF AddClauses
    <3>2. ASSUME NEW u \in Thread, NEW p \in 0 .. NumCompleted(u) - 1
          PROVE  clauses'[u][p] = clauses[u][p]
      <4>1. last[u] \in Period /\ p \in Nat /\ NumCompleted(u) <= last[u] /\ p < last[u]
        <5>1. last[u] \in Period  BY DEF GInv, TypeOK, QueueTypeOK
        <5> QED  BY <5>1 DEF NumCompleted, Period
      <4>2. u = t => p # last[t]  BY <4>1 DEF Period
      <4>3. p \in Period  BY <4>1 DEF Period
      <4> QED  BY <2>1, <4>2, <4>3 DEF AddClauses, GInv, TypeOK, QueueTypeOK
    <3> QED  BY <1>1, <2>1, <3>1, <3>2
  <2>2. CASE BeginExport(t) \/ EndExport(t)
    BY <2>1, <2>2 DEF BeginExport, EndExport, solverVars
  <2>3. CASE Push(t) \/ Complete(t) \/ RemoveSets(t)
    BY <1>2, <2>3
    DEF Push, Complete, RemoveSets, PushNext, CompleteAddition, RemoveExported, solverVars
  <2>4. CASE Copy(t)  BY <2>4, OnceCopied
  <2>5. CASE EnterNextPeriod(t)
    <3>1. UNCHANGED queueVars \/ CompleteExportation(t, t)  BY <2>5 DEF EnterNextPeriod
    <3>2. imported' = imported  BY <2>5 DEF EnterNextPeriod
    <3>3. UNCHANGED clauses  BY <3>1 DEF CompleteExportation, queueVars
    <3>4. ASSUME NEW v \in Thread, NEW u \in Thread, v # u
          PROVE  next_period'[u][v] = next_period[u][v]
      <4>1. CASE UNCHANGED queueVars  BY <4>1 DEF queueVars
      <4>2. CASE CompleteExportation(t, t)
        <5>1. next_period' = [next_period EXCEPT ![t][t] = @ + 1]
          BY <4>2 DEF CompleteExportation
        <5>2. next_period \in [Thread -> [Thread -> Period]]  BY DEF GInv, TypeOK, QueueTypeOK
        <5> QED  BY <3>4, <5>1, <5>2
      <4> QED  BY <3>1, <4>1, <4>2
    <3> QED  BY <1>2, <3>2, <3>3, <3>4
  <2>6. CASE GetSet(t) \/ NextTarget(t) \/ CheckCompleted(t)
    BY <1>2, <2>6 DEF GetSet, NextTarget, CheckCompleted, solverVars, queueVars
  <2>7. CASE CheckTermination(t) \/ Restart(t) \/ Finish(t) \/ Stop(t)
    BY <1>2, <2>7 DEF CheckTermination, Restart, Finish, Stop, Return, solverVars, queueVars
  <2> QED  BY <1>3, <2>2, <2>3, <2>4, <2>5, <2>6, <2>7 DEF ThreadStep
<1>4. CASE Tick \/ UNCHANGED vars
  BY <1>2, <1>4 DEF Tick, vars, solverVars, queueVars
<1> QED  BY <1>3, <1>4 DEF Next, Terminating

\* In every mode, with or without limits, a thread takes the sets of each other one
\* once, in the order of their periods, and none of them changes after it was taken.
THEOREM TakenOnceInOrder == Spec => []ExactlyOnceInOrder
<1>1. Init => ExactlyOnceInOrder
  <2> SUFFICES ASSUME Init, NEW t \in Thread, NEW u \in Thread, t # u
               PROVE  TakenInOrder(imported[t], u, next_period[u][t], clauses[u])
    BY DEF ExactlyOnceInOrder
  <2>1. DOMAIN imported[t] = {}  BY DEF Init
  <2>2. 0 .. next_period[u][t] - 1 = {}  BY DEF Init, QueueInit
  <2> QED  BY <2>1, <2>2 DEF TakenInOrder
<1> QED  BY <1>1, OnceStep, Exchange, PTL DEF Spec

-----------------------------------------------------------------------------
(*************************************************************************)
(* Sums over sets of threads.                                            *)
(*************************************************************************)

\* The partial sums of SumOver.
IsSum(g, S, f) ==
  /\ g \in [0 .. NumThreads -> Nat]
  /\ g[0] = 0
  /\ \A k \in 1 .. NumThreads : g[k] = g[k - 1] + IF k - 1 \in S THEN f[k - 1] ELSE 0

\* SumOver is the last of them.
LEMMA SumIs ==
  ASSUME NEW S, NEW f \in [Thread -> Nat]
  PROVE  \E g : IsSum(g, S, f) /\ SumOver(S, f) = g[NumThreads]
<1> DEFINE Body(g) == [k \in 0 .. NumThreads |->
                         IF k = 0 THEN 0
                         ELSE g[k - 1] + IF k - 1 \in S THEN f[k - 1] ELSE 0]
           D == [x \in Nat \X Nat |->
                   x[2] + IF x[1] - 1 \in S /\ x[1] - 1 \in Thread THEN f[x[1] - 1] ELSE 0]
<1>1. D \in [Nat \X Nat -> Nat]  OBVIOUS
<1>2. 0 \in Nat /\ NumThreads \in Nat  OBVIOUS
<1>3. PICK h : IsRecursive(h, 0, NumThreads, Nat, 0, D)
  <2> HIDE DEF D
  <2> QED  BY <1>1, <1>2, Recursion
<1>4. h \in [0 .. NumThreads -> Nat]  BY <1>3 DEF IsRecursive
<1>5. \A k \in 0 .. NumThreads :
        h[k] = IF k = 0 THEN 0 ELSE h[k - 1] + IF k - 1 \in S THEN f[k - 1] ELSE 0
  <2> SUFFICES ASSUME NEW k \in 0 .. NumThreads, k # 0
               PROVE  h[k] = h[k - 1] + IF k - 1 \in S THEN f[k - 1] ELSE 0
    BY <1>3 DEF IsRecursive
  <2>1. k \in Nat /\ k - 1 \in 0 .. NumThreads /\ k - 1 \in Thread  BY DEF Thread
  <2>2. h[k - 1] \in Nat  BY <1>4, <2>1
  <2>3. h[k] = D[<<k, h[k - 1]>>]  BY <1>3 DEF IsRecursive
  <2>4. <<k, h[k - 1]>> \in Nat \X Nat  BY <2>1, <2>2
  <2>5. D[<<k, h[k - 1]>>] = h[k - 1] + IF k - 1 \in S /\ k - 1 \in Thread THEN f[k - 1] ELSE 0
    BY <2>4
  <2> HIDE DEF D
  <2> QED  BY <2>1, <2>3, <2>5
<1>6. h = Body(h)  BY <1>4, <1>5
<1> DEFINE F == CHOOSE g : g = Body(g)
<1>7. F = Body(F)
  <2>1. \E g : g = Body(g)  BY <1>6
  <2> HIDE DEF Body
  <2> QED  BY <2>1
<1>8. SumOver(S, f) = F[NumThreads]  BY DEF SumOver
<1> HIDE DEF F
<1>9. \A k \in 0 .. NumThreads :
        F[k] = IF k = 0 THEN 0 ELSE F[k - 1] + IF k - 1 \in S THEN f[k - 1] ELSE 0
  BY <1>7
<1>10. DOMAIN F = 0 .. NumThreads /\ F = [k \in 0 .. NumThreads |-> F[k]]  BY <1>7
<1> HIDE DEF Body
<1> DEFINE G == {k \in Nat : F[k] = h[k]}
<1>11. 0 .. NumThreads \subseteq G
  <2>1. 0 \in G  BY <1>5, <1>9
  <2>2. ASSUME NEW n \in 0 + 1 .. NumThreads, n - 1 \in G
        PROVE  n \in G
    <3>1. n \in 0 .. NumThreads /\ n # 0 /\ n \in Nat  OBVIOUS
    <3>2. F[n - 1] = h[n - 1]  BY <2>2
    <3>3. F[n] = h[n]  BY <1>5, <1>9, <3>1, <3>2
    <3> QED  BY <3>1, <3>3
  <2> HIDE DEF G
  <2> QED  BY <1>2, <2>1, <2>2, RangeInduction
<1>12. F[NumThreads] = h[NumThreads]  BY <1>11
<1>13. IsSum(h, S, f)
  <2>1. \A k \in 1 .. NumThreads : k \in 0 .. NumThreads /\ k # 0  OBVIOUS
  <2> QED  BY <1>4, <1>5, <2>1 DEF IsSum
<1> QED  BY <1>8, <1>12, <1>13

\* A sum is a natural number, and depends on the values in the set only.
LEMMA SumSame ==
  ASSUME NEW S, NEW f \in [Thread -> Nat], NEW f2 \in [Thread -> Nat],
         \A u \in Thread : u \in S => f[u] = f2[u]
  PROVE  SumOver(S, f) = SumOver(S, f2) /\ SumOver(S, f) \in Nat
<1>1. PICK g : IsSum(g, S, f) /\ SumOver(S, f) = g[NumThreads]  BY SumIs
<1>2. PICK g2 : IsSum(g2, S, f2) /\ SumOver(S, f2) = g2[NumThreads]  BY SumIs
<1> DEFINE G == {k \in Nat : g[k] = g2[k]}
<1>3. 0 .. NumThreads \subseteq G
  <2>1. 0 \in G  BY <1>1, <1>2 DEF IsSum
  <2>2. ASSUME NEW n \in 0 + 1 .. NumThreads, n - 1 \in G
        PROVE  n \in G
    <3>1. n \in 1 .. NumThreads /\ n - 1 \in Thread  BY DEF Thread
    <3>2. g[n - 1] = g2[n - 1]  BY <2>2
    <3>3. g[n] = g2[n]  BY <1>1, <1>2, <3>1, <3>2 DEF IsSum
    <3> QED  BY <3>3
  <2>3. 0 \in Nat /\ NumThreads \in Nat  OBVIOUS
  <2> HIDE DEF G
  <2> QED  BY <2>1, <2>2, <2>3, RangeInduction
<1>4. NumThreads \in 0 .. NumThreads  OBVIOUS
<1>5. g[NumThreads] = g2[NumThreads]  BY <1>3, <1>4
<1>6. g[NumThreads] \in Nat  BY <1>1, <1>4 DEF IsSum
<1> QED  BY <1>1, <1>2, <1>5, <1>6

\* A thread more.
LEMMA SumMore ==
  ASSUME NEW S, NEW f \in [Thread -> Nat], NEW x \in Thread, x \notin S
  PROVE  SumOver(S \cup {x}, f) = SumOver(S, f) + f[x]
<1>1. PICK g : IsSum(g, S, f) /\ SumOver(S, f) = g[NumThreads]  BY SumIs
<1>2. PICK g2 : IsSum(g2, S \cup {x}, f) /\ SumOver(S \cup {x}, f) = g2[NumThreads]  BY SumIs
<1> DEFINE G == {k \in Nat : g2[k] = g[k] + IF x < k THEN f[x] ELSE 0}
<1>3. 0 .. NumThreads \subseteq G
  <2>1. 0 \in G  BY <1>1, <1>2 DEF IsSum, Thread
  <2>2. ASSUME NEW n \in 0 + 1 .. NumThreads, n - 1 \in G
        PROVE  n \in G
    <3>1. n \in 1 .. NumThreads /\ n - 1 \in Thread /\ n \in 0 .. NumThreads /\ n - 1 \in 0 .. NumThreads
      BY DEF Thread
    <3>2. g2[n - 1] = g[n - 1] + IF x < n - 1 THEN f[x] ELSE 0  BY <2>2
    <3>3. /\ g[n] = g[n - 1] + IF n - 1 \in S THEN f[n - 1] ELSE 0
          /\ g2[n] = g2[n - 1] + IF n - 1 \in S \cup {x} THEN f[n - 1] ELSE 0
      BY <1>1, <1>2, <3>1 DEF IsSum
    <3>4. g[n] \in Nat /\ g2[n] \in Nat /\ g[n - 1] \in Nat /\ g2[n - 1] \in Nat
      BY <1>1, <1>2, <3>1 DEF IsSum
    <3>5. x \in Nat /\ f[x] \in Nat /\ f[n - 1] \in Nat  BY <3>1 DEF Thread
    <3>6. CASE n - 1 = x  BY <3>2, <3>3, <3>4, <3>5, <3>6
    <3>7. CASE n - 1 # x
      <4>1. x < n - 1 <=> x < n  BY <3>5, <3>7
      <4> QED  BY <3>2, <3>3, <3>4, <3>5, <3>7, <4>1
    <3> QED  BY <3>6, <3>7
  <2>3. 0 \in Nat /\ NumThreads \in Nat  OBVIOUS
  <2> HIDE DEF G
  <2> QED  BY <2>1, <2>2, <2>3, RangeInduction
<1>4. NumThreads \in 0 .. NumThreads /\ x < NumThreads  BY DEF Thread
<1>5. g2[NumThreads] = g[NumThreads] + f[x]  BY <1>3, <1>4
<1> QED  BY <1>1, <1>2, <1>5

\* The sum over no thread.
LEMMA SumNone ==
  ASSUME NEW f \in [Thread -> Nat]
  PROVE  SumOver({}, f) = 0
<1>1. PICK g : IsSum(g, {}, f) /\ SumOver({}, f) = g[NumThreads]  BY SumIs
<1> DEFINE G == {k \in Nat : g[k] = 0}
<1>3. 0 .. NumThreads \subseteq G
  <2>1. 0 \in G  BY <1>1 DEF IsSum
  <2>2. ASSUME NEW n \in 0 + 1 .. NumThreads, n - 1 \in G
        PROVE  n \in G
    <3>1. n \in 1 .. NumThreads  OBVIOUS
    <3>2. g[n - 1] = 0  BY <2>2
    <3>3. g[n] = 0  BY <1>1, <3>1, <3>2 DEF IsSum
    <3> QED  BY <3>3
  <2>3. 0 \in Nat /\ NumThreads \in Nat  OBVIOUS
  <2> HIDE DEF G
  <2> QED  BY <2>1, <2>2, <2>3, RangeInduction
<1>4. NumThreads \in 0 .. NumThreads  OBVIOUS
<1> QED  BY <1>1, <1>3, <1>4

-----------------------------------------------------------------------------
(*************************************************************************)
(* The lengths of the periods, in deterministic mode.                    *)
(*************************************************************************)

\* What the invariant needs of the types, and of the sets a thread may take.
LEMMA PFacts ==
  ASSUME BInv, NEW t \in Thread
  PROVE  /\ periods[t] \in Nat /\ periods[t] \in 0 .. MaxPeriod
         /\ KnownPeriods(periods[t]) \in Nat
         /\ sum_prd_len_cand[t] \in Nat
         /\ \A u \in Thread : next_period[u][t] \in Nat /\ next_period[t][u] \in Nat
         /\ \A p \in Period : Proposals(p) \in [Thread -> Nat]
<1>1. TypeOK  BY DEF BInv, GInv
<1>2. periods[t] \in Nat /\ periods[t] \in 0 .. MaxPeriod  BY <1>1 DEF TypeOK
<1>3. KnownPeriods(periods[t]) \in Nat  BY <1>2 DEF KnownPeriods
<1>4. \A u, v \in Thread : next_period[u][v] \in Nat
  BY <1>1 DEF TypeOK, QueueTypeOK, Period
<1>5. \A p \in Period : Proposals(p) \in [Thread -> Nat]
  BY <1>1 DEF TypeOK, QueueTypeOK, Proposals
<1> QED  BY <1>1, <1>2, <1>3, <1>4, <1>5 DEF TypeOK

\* A step in which no thread begins or ends its loop, takes a set or enters a period,
\* and in which no length is proposed.
LEMMA PQuiet ==
  ASSUME PInv,
         UNCHANGED <<periods, next_period, sum_prd_len_cand, mem_acc_lim,
                     next_mem_acc_lim, prd_len>>,
         \A u \in Thread : pc'[u] \in Importing <=> pc[u] \in Importing
  PROVE  NoneEarlyInv' /\ SumInv' /\ PeriodLengthInv'
<1>1. \A u \in Thread : InLoop(u)' <=> InLoop(u)  BY DEF InLoop
<1>2. NoneEarlyInv'  BY <1>1 DEF PInv, NoneEarlyInv
<1>3. \A u \in Thread : TakenFrom(u)' = TakenFrom(u)  BY DEF TakenFrom
<1>4. \A p : Proposals(p)' = Proposals(p)  BY DEF Proposals
<1>5. SumInv'  BY <1>1, <1>3, <1>4 DEF PInv, SumInv
<1>6. \A p : PeriodLength(p)' = PeriodLength(p)  BY <1>4 DEF PeriodLength, Clip
<1>7. PeriodLengthInv'  BY <1>6 DEF PInv, PeriodLengthInv
<1> QED  BY <1>2, <1>5, <1>7

\* All threads have completed the sets of which the length of a period follows.
LEMMA ProposalsComplete ==
  ASSUME BInv, NEW t \in Thread, NEW u \in Thread, Margin < periods[t]
  PROVE  periods[t] - Margin - 1 < NumCompleted(u) /\ NumCompleted(u) \in Int
<1>1. /\ periods[t] \in Nat /\ next_period[u][t] \in Nat
      /\ KnownPeriods(periods[t]) = periods[t] - Margin
  BY PFacts DEF KnownPeriods
<1>2. last[u] \in Int  BY DEF BInv, GInv, TypeOK, QueueTypeOK, Period
<1>3. CASE u = t
  <2>1. last[t] = IF Pushed(t) THEN periods[t] + 1 ELSE periods[t]  BY DEF BInv, GInv, LastInv
  <2>2. NumCompleted(t) >= periods[t]  BY <1>1, <2>1 DEF NumCompleted, Pushed
  <2> QED  BY <1>1, <1>2, <1>3, <2>2 DEF NumCompleted
<1>4. CASE u # t
  <2>1. KnownPeriods(periods[t]) <= next_period[u][t]  BY <1>4 DEF BInv, KnownInv
  <2>2. next_period[u][t] <= NumCompleted(u)  BY <1>4 DEF BInv, GInv, TakenInv
  <2> QED  BY <1>1, <1>2, <2>1, <2>2 DEF NumCompleted
<1> QED  BY <1>3, <1>4

\* A thread proposes a length with the set it completes; no sum has it yet.
LEMMA PComplete ==
  ASSUME PInv, BInv', NEW t \in Thread, Complete(t)
  PROVE  NoneEarlyInv' /\ SumInv' /\ PeriodLengthInv'
<1> USE DEF PInv
<1>1. /\ pc[t] = "complete"
      /\ UNCHANGED <<periods, next_period, sum_prd_len_cand, mem_acc_lim, next_mem_acc_lim>>
      /\ \A u \in Thread : pc'[u] \in Importing <=> pc[u] \in Importing
  BY DEF Complete, CompleteAddition, Waiters, Importing, solverVars, BInv, GInv, TypeOK
<1>2. \A u \in Thread : InLoop(u)' <=> InLoop(u)  BY <1>1 DEF InLoop
<1>3. NoneEarlyInv'  BY <1>1, <1>2 DEF NoneEarlyInv
<1>4. \A u \in Thread : TakenFrom(u)' = TakenFrom(u)  BY <1>1 DEF TakenFrom
<1>5. PICK len : prd_len' = [prd_len EXCEPT ![t][last[t] - 1] = len]
  BY DEF Complete, CompleteAddition
<1>6. \A u \in Thread, p \in Period : p < NumCompleted(u) => prd_len'[u][p] = prd_len[u][p]
  <2>1. last[t] \in Int  BY DEF BInv, GInv, TypeOK, QueueTypeOK, Period
  <2>2. \A p \in Period : p < NumCompleted(t) => p # last[t] - 1
    BY <1>1, <2>1 DEF NumCompleted, Period
  <2>3. prd_len \in [Thread -> [Period -> Nat]]  BY DEF BInv, GInv, TypeOK, QueueTypeOK
  <2> QED  BY <1>5, <2>2, <2>3
<1>7. \A p \in Period : Proposals(p) \in [Thread -> Nat] /\ Proposals(p)' \in [Thread -> Nat]
  <2>1. \A p \in Period : Proposals(p)' \in [Thread -> Nat]
    BY DEF BInv, GInv, TypeOK, QueueTypeOK, Proposals
  <2> QED  BY <2>1, PFacts
<1>8. SumInv'
  <2> SUFFICES ASSUME NEW u \in Thread, InLoop(u)
               PROVE  \A p \in Period : p = periods[u] - Margin =>
                        sum_prd_len_cand[u] = SumOver(TakenFrom(u), Proposals(p)')
    <3>1. \A u \in Thread : InLoop(u) => periods[u] - Margin \in Period
      BY PFacts DEF InLoop, Period
    <3>2. \A u \in Thread : \A p : periods[u] - Margin = p =>
            Proposals(periods[u] - Margin)' = Proposals(p)'
      BY <1>1 DEF Proposals
    <3> QED  BY <1>1, <1>2, <1>4, <3>1, <3>2 DEF SumInv
  <2>1. sum_prd_len_cand[u] = SumOver(TakenFrom(u), Proposals(periods[u] - Margin))
    BY DEF SumInv
  <2>2. /\ periods[u] >= Margin /\ periods[u] \in 0 .. MaxPeriod
        /\ KnownPeriods(periods[u]) = periods[u] - Margin
    BY PFacts DEF InLoop, KnownPeriods
  <2>3. SUFFICES ASSUME NEW p \in Period, p = periods[u] - Margin
                 PROVE  sum_prd_len_cand[u] = SumOver(TakenFrom(u), Proposals(p)')
    OBVIOUS
  <2>4. ASSUME NEW v \in Thread, v \in TakenFrom(u)
        PROVE  Proposals(p)[v] = Proposals(p)'[v]
    <3>1. v # u /\ p < next_period[v][u]  BY <2>2, <2>3, <2>4 DEF TakenFrom
    <3>2. next_period[v][u] <= NumCompleted(v)  BY <3>1 DEF BInv, GInv, TakenInv
    <3>3. next_period[v][u] \in Nat /\ last[v] \in Period
      BY DEF BInv, GInv, TypeOK, QueueTypeOK, Period
    <3>4. NumCompleted(v) \in Int  BY <3>3 DEF NumCompleted, Period
    <3>5. p < NumCompleted(v)  BY <2>2, <2>3, <3>1, <3>2, <3>3, <3>4
    <3> QED  BY <1>6, <3>5 DEF Proposals
  <2>5. Proposals(p) \in [Thread -> Nat] /\ Proposals(p)' \in [Thread -> Nat]  BY <1>7
  <2>6. SumOver(TakenFrom(u), Proposals(p)) = SumOver(TakenFrom(u), Proposals(p)')
    BY <2>4, <2>5, SumSame
  <2> QED  BY <2>1, <2>3, <2>6
<1>9. PeriodLengthInv'
  <2> SUFFICES ASSUME NEW u \in Thread, Adaptive, Margin < periods[u]
               PROVE  PeriodLength(periods[u])' = PeriodLength(periods[u])
    <3>1. \A u \in Thread : ~(Adaptive /\ Margin < periods[u]) => ~Adaptive \/ periods[u] <= Margin
      BY PFacts
    <3>2. \A u \in Thread : PeriodLength(periods[u])' = PeriodLength(periods[u])
      BY <1>1, <3>1 DEF PeriodLength
    <3> QED  BY <1>1, <3>2 DEF PeriodLengthInv
  <2>1. periods[u] \in 0 .. MaxPeriod  BY PFacts
  <2>2. PICK p \in Period : p = periods[u] - Margin - 1  BY <2>1 DEF Period
  <2>3. ASSUME NEW v \in Thread
        PROVE  Proposals(p)[v] = Proposals(p)'[v]
    BY <1>6, <2>2, ProposalsComplete DEF Proposals
  <2>4. Proposals(p) \in [Thread -> Nat] /\ Proposals(p)' \in [Thread -> Nat]  BY <1>7
  <2>5. SumOver(Thread, Proposals(p)) = SumOver(Thread, Proposals(p)')
    BY <2>3, <2>4, SumSame
  <2>6. PeriodLength(periods[u])' =
          IF ~Adaptive \/ periods[u] <= Margin THEN MemAccLim
          ELSE Clip(SumOver(Thread, Proposals(p)') \div NumThreads)
    BY <1>1, <2>2 DEF PeriodLength, Clip, Proposals
  <2> QED  BY <2>2, <2>5, <2>6 DEF PeriodLength
<1> QED  BY <1>3, <1>8, <1>9

\* The loop begins: no set that is due has been taken, and the sum is 0.
LEMMA PRemoveSets ==
  ASSUME PInv, NEW t \in Thread, RemoveSets(t)
  PROVE  NoneEarlyInv' /\ SumInv' /\ PeriodLengthInv'
<1> USE DEF PInv
<1>1. /\ pc[t] = "remove" /\ pc' = [pc EXCEPT ![t] = IF solving[t] THEN "import" ELSE "done"]
      /\ sum_prd_len_cand' = [sum_prd_len_cand EXCEPT ![t] = 0]
      /\ UNCHANGED <<periods, next_period, mem_acc_lim, next_mem_acc_lim, prd_len>>
  BY DEF RemoveSets, RemoveExported, Goto
<1>2. TypeOK  BY DEF BInv, GInv
<1>3. \A u \in Thread \ {t} : pc'[u] = pc[u] /\ sum_prd_len_cand'[u] = sum_prd_len_cand[u]
  BY <1>1, <1>2 DEF TypeOK
<1>4. ~InLoop(t)  BY <1>1 DEF InLoop, Importing
<1>5. \A u \in Thread \ {t} : InLoop(u)' <=> InLoop(u)  BY <1>1, <1>3 DEF InLoop
<1>6. \A u \in Thread : TakenFrom(u)' = TakenFrom(u)  BY <1>1 DEF TakenFrom
<1>7. \A p : Proposals(p)' = Proposals(p)  BY <1>1 DEF Proposals
<1>8. NoneEarlyInv'
  <2> SUFFICES ASSUME NEW v \in Thread, NEW u \in Thread, v # u
               PROVE  next_period[u][v] <=
                        KnownPeriods(periods[v]) + IF InLoop(v)' THEN 1 ELSE 0
    BY <1>1 DEF NoneEarlyInv, KnownPeriods
  <2>1. next_period[u][v] <= KnownPeriods(periods[v]) + IF InLoop(v) THEN 1 ELSE 0
    BY DEF NoneEarlyInv
  <2>2. next_period[u][v] \in Nat /\ KnownPeriods(periods[v]) \in Nat  BY PFacts
  <2> QED  BY <1>4, <1>5, <2>1, <2>2
<1>9. SumInv'
  <2> SUFFICES ASSUME NEW u \in Thread, InLoop(u)'
               PROVE  sum_prd_len_cand'[u] = SumOver(TakenFrom(u), Proposals(periods[u] - Margin))
    BY <1>1, <1>6, <1>7 DEF SumInv
  <2>1. CASE u # t  BY <1>3, <1>5, <2>1 DEF SumInv
  <2>2. CASE u = t
    <3>1. TakenFrom(t) = {}
      <4> SUFFICES ASSUME NEW v \in Thread \ {t}
                   PROVE  ~(KnownPeriods(periods[t]) < next_period[v][t])
        BY DEF TakenFrom
      <4>1. next_period[v][t] <= KnownPeriods(periods[t]) + 0  BY <1>4 DEF NoneEarlyInv
      <4> QED  BY <4>1, PFacts
    <3>2. periods[t] \in 0 .. MaxPeriod /\ periods[t] >= Margin  BY <1>1, <2>2, PFacts DEF InLoop
    <3>3. Proposals(periods[t] - Margin) \in [Thread -> Nat]  BY <3>2, PFacts DEF Period
    <3>4. sum_prd_len_cand'[t] = 0  BY <1>1, <1>2 DEF TypeOK
    <3> QED  BY <2>2, <3>1, <3>3, <3>4, SumNone
  <2> QED  BY <2>1, <2>2
<1>10. \A p : PeriodLength(p)' = PeriodLength(p)  BY <1>7 DEF PeriodLength, Clip
<1>11. PeriodLengthInv'  BY <1>1, <1>10 DEF PeriodLengthInv
<1> QED  BY <1>8, <1>9, <1>11

\* The thread adds the proposal of the set it takes.
LEMMA PCopy ==
  ASSUME PInv, NEW t \in Thread, Copy(t)
  PROVE  NoneEarlyInv' /\ SumInv' /\ PeriodLengthInv'
<1> USE DEF PInv
<1> DEFINE w == Target(t)  p == TargetPeriod(t)
<1>1. /\ pc[t] = "copy" /\ pc' = [pc EXCEPT ![t] = "import"]
      /\ sum_prd_len_cand' = [sum_prd_len_cand EXCEPT ![t] = @ + prd_len[w][p]]
      /\ next_period' = [next_period EXCEPT ![w][t] = @ + 1]
      /\ UNCHANGED <<periods, mem_acc_lim, next_mem_acc_lim, prd_len>>
  BY DEF Copy, CompleteExportation, Goto
<1>2. TypeOK /\ GInv  BY DEF BInv, GInv
<1>3. w \in Thread \ {t} /\ p = next_period[w][t]
  BY <1>1, <1>2, AtAnothersSet DEF AtSet, TargetPeriod
<1>4. /\ periods[t] \in 0 .. MaxPeriod /\ periods[t] >= Margin /\ InLoop(t) /\ InLoop(t)'
      /\ KnownPeriods(periods[t]) = periods[t] - Margin
  <2>1. AtSet(t)  BY <1>1 DEF AtSet
  <2>2. periods[t] >= Margin  BY <1>2, <2>1 DEF GInv, AtSetInv
  <2>3. pc'[t] = "import"  BY <1>1, <1>2 DEF TypeOK
  <2> QED  BY <1>1, <2>2, <2>3, PFacts DEF InLoop, Importing, KnownPeriods
<1>5. p = periods[t] - Margin /\ p \in Period /\ p \in Nat
  <2>1. AtSet(t)  BY <1>1 DEF AtSet
  <2>2. p <= periods[t] - Margin  BY <1>2, <2>1 DEF GInv, AtSetInv
  <2>3. KnownPeriods(periods[t]) <= p  BY <1>3 DEF BInv, KnownInv
  <2>4. p \in Nat  BY <1>3, PFacts
  <2> QED  BY <1>4, <2>2, <2>3, <2>4 DEF Period
<1> HIDE DEF w, p
<1>6. /\ \A u \in Thread \ {t} : pc'[u] = pc[u] /\ sum_prd_len_cand'[u] = sum_prd_len_cand[u]
      /\ sum_prd_len_cand'[t] = sum_prd_len_cand[t] + prd_len[w][p]
      /\ next_period'[w][t] = p + 1
      /\ \A u, v \in Thread : u # w \/ v # t => next_period'[u][v] = next_period[u][v]
  <2>1. next_period \in [Thread -> [Thread -> Period]]  BY <1>2 DEF TypeOK, QueueTypeOK
  <2> QED  BY <1>1, <1>2, <1>3, <2>1 DEF TypeOK
<1>7. \A u \in Thread \ {t} : InLoop(u)' <=> InLoop(u)  BY <1>1, <1>6 DEF InLoop
<1>8. \A u \in Thread \ {t} : TakenFrom(u)' = TakenFrom(u)  BY <1>1, <1>6 DEF TakenFrom, KnownPeriods
<1>9. w \notin TakenFrom(t) /\ TakenFrom(t)' = TakenFrom(t) \cup {w}
  <2>1. w \notin TakenFrom(t)
    <3>1. w \in TakenFrom(t) => KnownPeriods(periods[t]) < next_period[w][t]  BY DEF TakenFrom
    <3> QED  BY <1>3, <1>4, <1>5, <3>1
  <2>2. KnownPeriods(periods[t]) < next_period'[w][t]  BY <1>4, <1>5, <1>6
  <2>3. \A u \in Thread \ {t, w} : next_period'[u][t] = next_period[u][t]  BY <1>6
  <2>4. periods'[t] = periods[t]  BY <1>1
  <2> QED  BY <1>3, <2>1, <2>2, <2>3, <2>4 DEF TakenFrom, KnownPeriods
<1>10. \A q : Proposals(q)' = Proposals(q)  BY <1>1 DEF Proposals
<1>11. NoneEarlyInv'
  <2> SUFFICES ASSUME NEW v \in Thread, NEW u \in Thread, v # u
               PROVE  next_period'[u][v] <=
                        KnownPeriods(periods[v]) + IF InLoop(v)' THEN 1 ELSE 0
    BY <1>1 DEF NoneEarlyInv, KnownPeriods
  <2>1. CASE u = w /\ v = t  BY <1>4, <1>5, <1>6, <2>1
  <2>2. CASE ~(u = w /\ v = t)
    <3>1. next_period'[u][v] = next_period[u][v]  BY <1>6, <2>2
    <3>2. InLoop(v)' <=> InLoop(v)  BY <1>4, <1>7
    <3>3. next_period[u][v] <= KnownPeriods(periods[v]) + IF InLoop(v) THEN 1 ELSE 0
      BY DEF NoneEarlyInv
    <3> QED  BY <3>1, <3>2, <3>3
  <2> QED  BY <2>1, <2>2
<1>12. SumInv'
  <2> SUFFICES ASSUME NEW u \in Thread, InLoop(u)'
               PROVE  sum_prd_len_cand'[u] =
                        SumOver(TakenFrom(u)', Proposals(periods[u] - Margin))
    BY <1>1, <1>10 DEF SumInv
  <2>1. CASE u # t  BY <1>6, <1>7, <1>8, <2>1 DEF SumInv
  <2>2. CASE u = t
    <3>1. sum_prd_len_cand[t] = SumOver(TakenFrom(t), Proposals(p))
      BY <1>4, <1>5 DEF SumInv
    <3>2. Proposals(p) \in [Thread -> Nat]  BY <1>5, PFacts
    <3>3. Proposals(p)[w] = prd_len[w][p]  BY <1>3 DEF Proposals
    <3>4. SumOver(TakenFrom(t) \cup {w}, Proposals(p)) =
            SumOver(TakenFrom(t), Proposals(p)) + Proposals(p)[w]
      BY <1>3, <1>9, <3>2, SumMore
    <3> QED  BY <1>5, <1>6, <1>9, <2>2, <3>1, <3>3, <3>4
  <2> QED  BY <2>1, <2>2
<1>13. \A q : PeriodLength(q)' = PeriodLength(q)  BY <1>10 DEF PeriodLength, Clip
<1>14. PeriodLengthInv'  BY <1>1, <1>13 DEF PeriodLengthInv
<1> QED  BY <1>11, <1>12, <1>14

\* The thread has all proposals of the others and adds its own: the mean is that of
\* all threads, whichever thread computes it.
LEMMA PEnterNextPeriod ==
  ASSUME PInv, NEW t \in Thread, EnterNextPeriod(t)
  PROVE  NoneEarlyInv' /\ SumInv' /\ PeriodLengthInv'
<1> USE DEF PInv
<1>1. /\ pc[t] = "import" /\ pc' = [pc EXCEPT ![t] = "check"]
      /\ periods' = [periods EXCEPT ![t] = @ + 1]
      /\ mem_acc_lim' = [mem_acc_lim EXCEPT ![t] = next_mem_acc_lim'[t]]
      /\ UNCHANGED <<sum_prd_len_cand, prd_len>>
      /\ CompleteExportation(t, t) \/ UNCHANGED queueVars
  BY DEF EnterNextPeriod, Goto, queueVars, CompleteExportation
<1>2. TypeOK /\ GInv  BY DEF BInv, GInv
<1>3. /\ periods[t] \in 0 .. MaxPeriod /\ periods'[t] = periods[t] + 1 /\ pc'[t] = "check"
      /\ mem_acc_lim'[t] = next_mem_acc_lim'[t]
      /\ \A u \in Thread \ {t} :
           pc'[u] = pc[u] /\ periods'[u] = periods[u] /\ mem_acc_lim'[u] = mem_acc_lim[u]
  BY <1>1, <1>2 DEF TypeOK
<1>4. \A u, v \in Thread : u # v => next_period'[u][v] = next_period[u][v]
  <2>1. next_period' = next_period \/ next_period' = [next_period EXCEPT ![t][t] = @ + 1]
    BY <1>1 DEF CompleteExportation, queueVars
  <2>2. next_period \in [Thread -> [Thread -> Period]]  BY <1>2 DEF TypeOK, QueueTypeOK
  <2> QED  BY <2>1, <2>2
<1>5. ~InLoop(t)'  BY <1>3 DEF InLoop, Importing
<1>6. InLoop(t) <=> periods[t] >= Margin  BY <1>1 DEF InLoop, Importing
<1>7. \A u \in Thread \ {t} : InLoop(u)' <=> InLoop(u)  BY <1>3 DEF InLoop
<1>8. \A q : Proposals(q)' = Proposals(q)  BY <1>1 DEF Proposals
<1>9. \A q : PeriodLength(q)' = PeriodLength(q)  BY <1>8 DEF PeriodLength, Clip
<1>10. NoneEarlyInv'
  <2> SUFFICES ASSUME NEW v \in Thread, NEW u \in Thread, v # u
               PROVE  next_period[u][v] <=
                        KnownPeriods(periods'[v]) + IF InLoop(v)' THEN 1 ELSE 0
    BY <1>4 DEF NoneEarlyInv, KnownPeriods
  <2>1. next_period[u][v] <= KnownPeriods(periods[v]) + IF InLoop(v) THEN 1 ELSE 0
    BY DEF NoneEarlyInv
  <2>2. CASE v # t  BY <1>3, <1>7, <2>1, <2>2
  <2>3. CASE v = t
    <3>1. KnownPeriods(periods'[t]) = KnownPeriods(periods[t]) + IF InLoop(t) THEN 1 ELSE 0
      BY <1>3, <1>6 DEF KnownPeriods
    <3> QED  BY <1>5, <2>1, <2>3, <3>1, PFacts
  <2> QED  BY <2>2, <2>3
<1>11. SumInv'
  <2> SUFFICES ASSUME NEW u \in Thread, InLoop(u)'
               PROVE  sum_prd_len_cand[u] = SumOver(TakenFrom(u)', Proposals(periods'[u] - Margin))
    BY <1>1, <1>8 DEF SumInv
  <2>1. u # t  BY <1>5
  <2>2. TakenFrom(u)' = TakenFrom(u)
    <3>1. KnownPeriods(periods'[u]) = KnownPeriods(periods[u])  BY <1>3, <2>1
    <3>2. TakenFrom(u)' = {v \in Thread \ {u} : KnownPeriods(periods'[u]) < next_period'[v][u]}
      BY DEF TakenFrom, KnownPeriods
    <3> QED  BY <1>4, <3>1, <3>2 DEF TakenFrom
  <2> QED  BY <1>3, <1>7, <2>1, <2>2 DEF SumInv
<1>12. next_mem_acc_lim'[t] = PeriodLength(periods[t] + 1)
       /\ \A u \in Thread \ {t} : next_mem_acc_lim'[u] = next_mem_acc_lim[u]
  <2>1. next_mem_acc_lim[t] = mem_acc_lim[t] /\ mem_acc_lim[t] = PeriodLength(periods[t])
    BY DEF PeriodLengthInv
  <2>2. CASE periods[t] < Margin /\ UNCHANGED next_mem_acc_lim
    <3>1. periods[t] <= Margin /\ periods[t] + 1 <= Margin  BY <1>3, <2>2
    <3> QED  BY <2>1, <2>2, <3>1 DEF PeriodLength
  <2>3. CASE /\ periods[t] >= Margin /\ i[t] = NumThreads /\ ~Adaptive
             /\ next_mem_acc_lim' = [next_mem_acc_lim EXCEPT ![t] = mem_acc_lim[t]]
    <3>1. next_mem_acc_lim \in [Thread -> Nat]  BY <1>2 DEF TypeOK
    <3> QED  BY <2>1, <2>3, <3>1 DEF PeriodLength
  <2>4. CASE /\ periods[t] >= Margin /\ i[t] = NumThreads /\ Adaptive
             /\ next_mem_acc_lim' = [next_mem_acc_lim EXCEPT ![t] = MeanPeriodLength(t)]
    <3> DEFINE q == periods[t] - Margin
    <3>1. q \in Period /\ q = KnownPeriods(periods[t])  BY <1>3, <2>4 DEF Period, KnownPeriods
    <3>2. TakenFrom(t) = Thread \ {t}
      BY <1>1, <2>4, <3>1, LoopIsOver DEF TakenFrom
    <3>3. InLoop(t)  BY <1>6, <2>4
    <3>4. sum_prd_len_cand[t] = SumOver(Thread \ {t}, Proposals(q))
      BY <3>2, <3>3 DEF SumInv
    <3>5. Proposals(q) \in [Thread -> Nat] /\ Proposals(q)[t] = prd_len[t][q]
      BY <3>1, PFacts DEF Proposals
    <3>6. SumOver(Thread, Proposals(q)) = sum_prd_len_cand[t] + prd_len[t][q]
      <4>1. (Thread \ {t}) \cup {t} = Thread /\ t \notin Thread \ {t}  OBVIOUS
      <4> HIDE DEF q
      <4>2. SumOver((Thread \ {t}) \cup {t}, Proposals(q)) =
              SumOver(Thread \ {t}, Proposals(q)) + Proposals(q)[t]
        BY <3>5, <4>1, SumMore
      <4> QED  BY <3>4, <3>5, <4>1, <4>2
    <3>7. MeanPeriodLength(t) = Clip(SumOver(Thread, Proposals(q)) \div NumThreads)
      BY <3>6 DEF MeanPeriodLength
    <3>8. (periods[t] + 1) - Margin - 1 = q /\ ~(periods[t] + 1 <= Margin)  BY <1>3, <2>4
    <3> HIDE DEF q
    <3>9. PeriodLength(periods[t] + 1) = Clip(SumOver(Thread, Proposals(q)) \div NumThreads)
      BY <2>4, <3>8 DEF PeriodLength
    <3>10. next_mem_acc_lim \in [Thread -> Nat]  BY <1>2 DEF TypeOK
    <3> QED  BY <2>4, <3>7, <3>9, <3>10
  <2> QED  BY <2>2, <2>3, <2>4 DEF EnterNextPeriod
<1>13. PeriodLengthInv'
  <2> SUFFICES ASSUME NEW u \in Thread
               PROVE  /\ mem_acc_lim'[u] = PeriodLength(periods'[u])
                      /\ next_mem_acc_lim'[u] = mem_acc_lim'[u]
    <3>1. \A u \in Thread : PeriodLength(periods[u])' = PeriodLength(periods'[u])
      BY <1>8 DEF PeriodLength, Clip
    <3> QED  BY <3>1 DEF PeriodLengthInv
  <2>1. CASE u = t  BY <1>3, <1>12, <2>1
  <2>2. CASE u # t  BY <1>3, <1>12, <2>2 DEF PeriodLengthInv
  <2> QED  BY <2>1, <2>2
<1> QED  BY <1>10, <1>11, <1>13

\* No period has begun.
LEMMA PInit == Init => NoneEarlyInv /\ SumInv /\ PeriodLengthInv
<1> SUFFICES ASSUME Init PROVE NoneEarlyInv /\ SumInv /\ PeriodLengthInv  OBVIOUS
<1> USE DEF Init, QueueInit
<1>1. \A t \in Thread : periods[t] = 0 /\ ~InLoop(t)  BY DEF InLoop, Importing
<1>2. NoneEarlyInv
  <2>1. KnownPeriods(0) = 0  BY DEF KnownPeriods
  <2> QED  BY <1>1, <2>1 DEF NoneEarlyInv
<1>3. SumInv  BY <1>1 DEF SumInv
<1>4. PeriodLengthInv
  <2>1. PeriodLength(0) = MemAccLim  BY DEF PeriodLength
  <2> QED  BY <1>1, <2>1 DEF PeriodLengthInv
<1> QED  BY <1>2, <1>3, <1>4

\* Every step in deterministic mode preserves the invariant.
LEMMA PStep ==
  ASSUME ~NonDet
  PROVE  PInv /\ [Next]_vars => PInv'
<1> SUFFICES ASSUME PInv, [Next]_vars PROVE PInv'  OBVIOUS
<1>1. BInv'  BY BStep DEF PInv
<1>2. ASSUME UNCHANGED <<periods, next_period, sum_prd_len_cand, mem_acc_lim,
                         next_mem_acc_lim, prd_len>>,
             \A u \in Thread : pc'[u] \in Importing <=> pc[u] \in Importing
      PROVE  PInv'
  BY <1>1, <1>2, PQuiet DEF PInv
<1>3. ASSUME NEW t \in Thread, ThreadStep(t)
      PROVE  PInv'
  <2> USE DEF queueVars, solverVars
  <2>0. pc \in [Thread -> PC]  BY DEF PInv, BInv, GInv, TypeOK
  <2>1. CASE BeginExport(t)
    BY <1>2, <2>0, <2>1 DEF BeginExport, AddClauses, Goto, Importing
  <2>2. CASE EndExport(t)
    BY <1>2, <2>0, <2>2 DEF EndExport, AddClauses, Goto, Importing
  <2>3. CASE Push(t)
    BY <1>2, <2>0, <2>3 DEF Push, PushNext, Goto, Importing
  <2>4. CASE Complete(t)  BY <1>1, <2>4, PComplete DEF PInv
  <2>5. CASE RemoveSets(t)  BY <1>1, <2>5, PRemoveSets DEF PInv
  <2>6. CASE GetSet(t)  BY <1>2, <2>0, <2>6 DEF GetSet, Goto, Importing
  <2>7. CASE NextTarget(t)  BY <1>2, <2>7 DEF NextTarget
  <2>8. CASE CheckCompleted(t)  BY <1>2, <2>0, <2>8 DEF CheckCompleted, Goto, Importing
  <2>9. CASE Copy(t)  BY <1>1, <2>9, PCopy DEF PInv
  <2>10. CASE EnterNextPeriod(t)  BY <1>1, <2>10, PEnterNextPeriod DEF PInv
  <2>11. CASE CheckTermination(t)
    <3>1. PICK label \in {"search", "restart", "stop"} : Goto(t, label)
      BY <2>11 DEF CheckTermination, TestTermination
    <3> QED  BY <1>2, <2>0, <2>11, <3>1 DEF CheckTermination, Goto, Importing
  <2>12. CASE Restart(t)
    <3>1. PICK label \in {"search", "stop"} : Goto(t, label)
      BY <2>12 DEF Restart, TestTermination
    <3> QED  BY <1>2, <2>0, <2>12, <3>1 DEF Restart, Goto, Importing
  <2>13. CASE Finish(t)  BY <1>2, <2>0, <2>13 DEF Finish, Return, Goto, Importing
  <2>14. CASE Stop(t)
    <3>1. PICK status : pc[t] = "stop" /\ Return(t, status)  BY <2>14 DEF Stop
    <3> QED  BY <1>2, <2>0, <3>1 DEF Return, Goto, Importing
  <2> QED
    BY <1>3, <2>1, <2>2, <2>3, <2>4, <2>5, <2>6, <2>7, <2>8, <2>9, <2>10, <2>11, <2>12,
       <2>13, <2>14 DEF ThreadStep
<1>4. CASE Tick  BY <1>2, <1>4 DEF Tick, solverVars, queueVars
<1>5. CASE UNCHANGED vars  BY <1>2, <1>5 DEF vars, solverVars, queueVars
<1> QED  BY <1>3, <1>4, <1>5 DEF Next, Terminating

\* In deterministic mode the length of a period follows from what all threads proposed
\* Margin + 1 periods before, and a loop under way has added up the proposals it took.
THEOREM PeriodLengthInvariant ==
  ASSUME ~NonDet
  PROVE  Spec => []PInv
<1>1. Init => PInv  BY BInit, PInit DEF PInv
<1>2. PInv /\ [Next]_vars => PInv'  BY PStep
<1> QED  BY <1>1, <1>2, PTL DEF Spec

\* Threads in the same period have the same period length, for any number of threads,
\* any margin, any proposals and any limits, though each computes it on its own.
THEOREM LengthsAgree ==
  ASSUME ~NonDet
  PROVE  Spec => []PeriodLengthsAgree
<1>1. PInv => PeriodLengthsAgree  BY DEF PInv, PeriodLengthInv, PeriodLengthsAgree
<1>2. Spec => []PInv  BY PeriodLengthInvariant
<1> QED  BY <1>1, <1>2, PTL
===============================================================================
