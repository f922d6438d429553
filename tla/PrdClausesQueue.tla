--------------------------- MODULE PrdClausesQueue ---------------------------
(***************************************************************************)
(* The queues of clause sets (classes PrdClauses, PrdClausesQueue and      *)
(* PrdClausesQueueMgr).  Thread t owns one queue; it holds the sets of the *)
(* consecutive periods head[t] .. last[t].  A set that left the queue is   *)
(* not freed (the delete is commented out), so the sets themselves are     *)
(* functions of the owner and the period.                                  *)
(*                                                                         *)
(* A queue's read-write lock is held by readers only inside Get, and by    *)
(* the owner from PushNext to RemoveExported: the composing module guards  *)
(* Get with the owner not being between these two.                         *)
(***************************************************************************)
EXTENDS Options

VARIABLES
  last,                  \* queue.back()->period()
  head,                  \* queue.front()->period()
  clauses,               \* contents: "none", "some" (being added), "all"
  completed,             \* PrdClauses::completed
  prd_len,               \* PrdClauses::prd_len
  num_exported_threads,  \* PrdClauses::num_exported_threads
  next_period            \* next_period[u][t]: what t takes next from u

queueVars == <<last, head, clauses, completed, prd_len,
               num_exported_threads, next_period>>

QueueInit ==
  /\ last = [t \in Thread |-> 0]
  /\ head = [t \in Thread |-> 0]
  /\ clauses = [t \in Thread |-> [p \in Period |-> "none"]]
  /\ completed = [t \in Thread |-> [p \in Period |-> FALSE]]
  /\ prd_len = [t \in Thread |-> [p \in Period |-> 0]]
  /\ num_exported_threads = [t \in Thread |-> [p \in Period |-> 0]]
  /\ next_period = [u \in Thread |-> [t \in Thread |-> 0]]

QueueTypeOK ==
  /\ last \in [Thread -> Period]
  /\ head \in [Thread -> Period]
  /\ clauses \in [Thread -> [Period -> {"none", "some", "all"}]]
  /\ completed \in [Thread -> [Period -> BOOLEAN]]
  /\ prd_len \in [Thread -> [Period -> Nat]]
  /\ num_exported_threads \in [Thread -> [Period -> Nat]]
  /\ next_period \in [Thread -> [Thread -> Period]]

-----------------------------------------------------------------------------
(* Operations of the owner.                                                *)

\* PrdClauses::addClause on the last set, as exportTo calls it in a loop:
\* the loop has begun (what = "some") or ended (what = "all").
AddClauses(t, what) ==
  /\ clauses' = [clauses EXCEPT ![t][last[t]] = what]
  /\ UNCHANGED <<last, head, completed, prd_len, num_exported_threads,
                 next_period>>

\* completeAddtion, under the write lock: an empty set for the next period.
PushNext(t) ==
  /\ last' = [last EXCEPT ![t] = @ + 1]
  /\ UNCHANGED <<head, clauses, completed, prd_len, num_exported_threads,
                 next_period>>

\* completeAddtion: the set of the period that ends is complete.
CompleteAddition(t, len) ==
  /\ completed' = [completed EXCEPT ![t][last[t] - 1] = TRUE]
  /\ prd_len' = [prd_len EXCEPT ![t][last[t] - 1] = len]
  /\ UNCHANGED <<last, head, clauses, num_exported_threads, next_period>>

\* Mutant: the owner is not counted among the threads that take a set.
StopsBeforeOwner(t, h) ==
  /\ \A p \in head[t] .. h - 1 : num_exported_threads[t][p] >= NumThreads - 1
  /\ h = last[t] \/ num_exported_threads[t][h] < NumThreads - 1

\* The removal loop of completeAddtion stops at the set of period h: the first
\* that fewer than num_threads threads have taken, and in any case the last.
RemovalStopsAt(t, h) ==
  /\ \A p \in head[t] .. h - 1 : num_exported_threads[t][p] = NumThreads
  /\ h = last[t] \/ num_exported_threads[t][h] # NumThreads

RemoveExported(t) ==
  /\ \E h \in head[t] .. last[t] :
       RemovalStopsAt(t, h) /\ head' = [head EXCEPT ![t] = h]
  /\ UNCHANGED <<last, clauses, completed, prd_len, num_exported_threads,
                 next_period>>

-----------------------------------------------------------------------------
(* Operations of the importers.                                            *)

\* get(thread, period) on the queue of u returns a set: the one of period
\* next_period[u][thread], unless it is past period or no longer queued.
Available(u, thread, period) ==
  /\ next_period[u][thread] <= period
  /\ head[u] <= next_period[u][thread]

\* completeExportation(thn, set): thn has taken its next set from u.
CompleteExportation(u, thn) ==
  LET p == next_period[u][thn]
  IN  /\ next_period' = [next_period EXCEPT ![u][thn] = @ + 1]
      /\ num_exported_threads' =
           [num_exported_threads EXCEPT ![u][p] = @ + 1]
      /\ UNCHANGED <<last, head, clauses, completed, prd_len>>
=============================================================================
