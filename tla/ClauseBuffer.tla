---------------------------- MODULE ClauseBuffer ----------------------------
(***************************************************************************)
(* class ClauseBuffer: the clauses a worker has selected for export, in    *)
(* one queue per key.  Every caller takes the length of the clause as the  *)
(* key.  The buffer belongs to one thread, so each operation is one step.  *)
(* A clause is [id, len]: its place in the order of the calls of           *)
(* addClause, and its length.                                              *)
(***************************************************************************)
EXTENDS Integers, SequencesExt

CONSTANTS
  Lengths,      \* the lengths of clauses to consider
  MaxClauses    \* BOUND: how many clauses are ever added

ASSUME BufferAssumption ==
  /\ Lengths \subseteq Nat \ {0}
  /\ \E n \in Lengths : \A k \in Lengths : n >= k
  /\ MaxClauses \in Nat

VARIABLES
  db,             \* one queue per key
  keys,           \* the keys that exportTo looks at, in ascending order
  num_clauses,
  num_literals

bufferVars == <<db, keys, num_clauses, num_literals>>

BufferInit ==
  /\ db = [k \in Lengths |-> <<>>]
  /\ keys = {}
  /\ num_clauses = 0
  /\ num_literals = 0

Literals(s) ==
  LET sum[n \in 0 .. Len(s)] == IF n = 0 THEN 0 ELSE sum[n - 1] + s[n].len
  IN  sum[Len(s)]

\* The clauses in the queues of the keys up to k, in the order in which exportTo
\* meets them.
Joined(queues, ks, k) ==
  LET upTo[n \in 0 .. Max(Lengths)] ==
        IF n = 0 THEN <<>>
        ELSE IF n \in ks THEN upTo[n - 1] \o queues[n]
        ELSE upTo[n - 1]
  IN  upTo[k]

\* All clauses that exportTo can reach.
Queued == Joined(db, keys, Max(Lengths))

-----------------------------------------------------------------------------

\* Mutant: a key is entered only into an empty buffer.
AddClauseOldKey(c) ==
  /\ db' = [db EXCEPT ![c.len] = Append(@, c)]
  /\ keys' = IF num_clauses = 0 THEN keys \cup {c.len} ELSE keys
  /\ num_clauses' = num_clauses + 1
  /\ num_literals' = num_literals + c.len

AddClause(c) ==
  /\ db' = [db EXCEPT ![c.len] = Append(@, c)]
  /\ keys' = keys \cup {c.len}
  /\ num_clauses' = num_clauses + 1
  /\ num_literals' = num_literals + c.len

\* With these numbers of clauses the set has more than max_lits literals.
Overfull(max_lits) ==
  {n \in 1 .. Len(Queued) :
     0 < max_lits /\ max_lits < Literals(SubSeq(Queued, 1, n))}

\* Mutant: a clause that would exceed the limit stays in the buffer.
ExportedWithinLimit(max_lits) ==
  SubSeq(Queued, 1, IF Overfull(max_lits) = {} THEN Len(Queued)
                    ELSE Min(Overfull(max_lits)) - 1)

\* Mutant: the clauses that were added last leave first.
ExportedNewestFirst(max_lits) ==
  Reverse(SubSeq(Reverse(Queued), 1,
                 IF Overfull(max_lits) = {} THEN Len(Queued)
                 ELSE Min(Overfull(max_lits))))

\* The clauses that exportTo moves: up to the first that exceeds the limit.
Exported(max_lits) ==
  SubSeq(Queued, 1, IF Overfull(max_lits) = {} THEN Len(Queued)
                    ELSE Min(Overfull(max_lits)))

\* How many of the first num clauses that exportTo meets are in the queue of key k.
NumPopped(k, num) ==
  LET before == Len(Joined(db, keys, k - 1))
  IN  IF num <= before THEN 0
      ELSE IF num - before <= Len(db[k]) THEN num - before
      ELSE Len(db[k])

\* pop_front: the clauses leave their queues.  A key whose queue is empty goes, but
\* not the one at which the loop has stopped.
TakeOut(moved, max_lits) ==
  /\ db' = [k \in Lengths |->
              IF k \in keys
              THEN SubSeq(db[k], NumPopped(k, Len(moved)) + 1, Len(db[k]))
              ELSE db[k]]
  /\ keys' = {k \in keys :
                \/ db'[k] # <<>>
                \/ /\ Overfull(max_lits) # {}
                   /\ k = Queued[Min(Overfull(max_lits))].len}

ExportTo(max_lits) ==
  /\ TakeOut(Exported(max_lits), max_lits)
  /\ num_clauses' = num_clauses - Len(Exported(max_lits))
  /\ num_literals' = num_literals - Literals(Exported(max_lits))
=============================================================================
