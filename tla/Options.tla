------------------------------- MODULE Options -------------------------------
(***************************************************************************)
(* The command-line options of DPS that the exchange protocol depends on   *)
(* (class Options), and the bound put on the number of periods.            *)
(***************************************************************************)
EXTENDS Integers

CONSTANTS
  NumThreads,   \* --nthreads, after generateAllSolvers has adjusted it
  Margin,       \* --margin: delay, in periods, of the clause exchange
  NonDet,       \* --non-det
  Adaptive,     \* --adpt-prd # 0: the period length follows the conflicts
  MemAccLim,    \* --period: the first period length
  AdptPrdLB,    \* --adpt-prd-lb, 0 for none
  AdptPrdUB,    \* --adpt-prd-ub, 0 for none
  Limits,       \* the limits given on the command line: "memory", "time"
  MaxPeriod     \* BOUND: no thread leaves this period (uint64_t in the code)

ASSUME OptionsAssumption ==
  /\ NumThreads \in Nat \ {0}
  /\ Margin \in Nat
  /\ NonDet \in BOOLEAN
  /\ Adaptive \in BOOLEAN
  /\ MemAccLim \in Nat
  /\ AdptPrdLB \in Nat
  /\ AdptPrdUB \in Nat
  /\ Limits \subseteq {"memory", "time"}
  /\ MaxPeriod \in Nat

Thread == 0 .. NumThreads - 1

\* A thread in period p has created the sets of clauses up to period p + 1.
Period == 0 .. MaxPeriod + 1
==============================================================================
