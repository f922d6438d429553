---------------------------- MODULE ClauseExport ----------------------------
(***************************************************************************)
(* What a worker exports: the tests a wrapper makes on a learnt clause,    *)
(* the buffer, and exportSelectedClauses, which empties the buffer into    *)
(* the set of the period and adjusts the limit on the LBD so that the      *)
(* literals waiting in the buffer stay near a given number.                *)
(***************************************************************************)
EXTENDS ClauseBuffer

CONSTANTS
  BaseSolvers,   \* values of --solver to consider
  LBDs,          \* the LBDs of learnt clauses to consider
  LBDLim,        \* --gl-lbd, --mc-lbd, --ks-lbd
  LenLim,        \* --ms-len, --gl-len, --mc-len
  Quantiles,     \* values the quantile of the LBDs may take (--exp-lbdq-lim)
  ExpLitsLim,    \* --exp-lits-lim
  ExpLitsMargin, \* --exp-lits-margin
  MaxConflicts   \* BOUND: how many conflicts the search has

\* exp_clause_lbd_lim is a double in Kissat and MapleCOMSPS: here thousandths.
Scale == 1000
Infinity == 1000000 * Scale

ASSUME ExportAssumption ==
  /\ BaseSolvers \subseteq {"minisat", "glucose", "mcomsps", "kissat"}
  /\ LBDs \subseteq Nat \ {0}
  /\ LBDLim \in Nat
  /\ LenLim \in Nat
  /\ Quantiles \subseteq 1 .. Infinity
  /\ ExpLitsLim \in Nat
  /\ ExpLitsMargin \in Nat
  /\ MaxConflicts \in Nat

VARIABLES
  base_solver,         \* never changes
  exp_clause_lbd_lim,  \* in thousandths
  prev_exp_lits,
  conflicts,           \* getNumConflicts()
  prev_exp_confs,
  accepted,            \* how many clauses were added to the buffer
  exported             \* the sets of all periods, one after the other

controlVars == <<exp_clause_lbd_lim, prev_exp_lits, prev_exp_confs>>
exportVars == <<base_solver, controlVars, conflicts, accepted, exported>>
vars == <<exportVars, bufferVars>>

Init ==
  /\ BufferInit
  /\ base_solver \in BaseSolvers
  /\ exp_clause_lbd_lim = LBDLim * Scale
  /\ prev_exp_lits = 0
  /\ conflicts = 0
  /\ prev_exp_confs = 0
  /\ accepted = 0
  /\ exported = <<>>

-----------------------------------------------------------------------------
(* The tests of the wrappers.                                              *)

\* MiniSatWrapper::exportClause
MiniSatExports(len) == ~(0 < LenLim /\ LenLim < len)

\* GlucoseWrapper::exportClause; that of MapleCOMSPSWrapper is the same.
GlucoseExports(len, lbd, upper) ==
  /\ ~(2 < lbd /\ 0 < LenLim /\ LenLim < len)
  /\ ~(0 < exp_clause_lbd_lim /\ exp_clause_lbd_lim < lbd * Scale)
  /\ ~(2 < lbd /\ upper < lbd * Scale)

\* KissatWrapper::shouldBeExported; the threshold is cut off to an integer.
KissatExports(lbd, upper) ==
  LET threshold == (IF upper < exp_clause_lbd_lim THEN upper
                    ELSE exp_clause_lbd_lim) \div Scale
  IN  0 < threshold /\ lbd <= threshold

ShouldBeExported(len, lbd, upper) ==
  CASE base_solver = "minisat" -> MiniSatExports(len)
    [] base_solver \in {"glucose", "mcomsps"} -> GlucoseExports(len, lbd, upper)
    [] base_solver = "kissat" -> KissatExports(lbd, upper)

\* getLBDUpperbound: no bound before 1000 conflicts, then the quantile.
LBDUpperbounds == {Infinity} \cup Quantiles

Offer(len, lbd) ==
  \E upper \in LBDUpperbounds :
    \/ /\ ShouldBeExported(len, lbd, upper)
       /\ accepted < MaxClauses
       /\ AddClause([id |-> accepted + 1, len |-> len])
       /\ accepted' = accepted + 1
    \/ /\ ~ShouldBeExported(len, lbd, upper)
       /\ UNCHANGED <<bufferVars, accepted>>

\* A conflict of the search: the learnt clause is offered for export.
Learn(len, lbd) ==
  /\ lbd <= len
  /\ conflicts < MaxConflicts
  /\ conflicts' = conflicts + 1
  /\ Offer(len, lbd)
  /\ UNCHANGED <<base_solver, controlVars, exported>>

\* kissat_learned_unit: a unit that Kissat finds without a conflict.
LearnUnit ==
  /\ base_solver = "kissat"
  /\ 1 \in Lengths
  /\ Offer(1, 1)
  /\ UNCHANGED <<base_solver, controlVars, conflicts, exported>>

-----------------------------------------------------------------------------
(* exportSelectedClauses                                                   *)

IncExpClauseGen ==
  CASE base_solver = "minisat" -> exp_clause_lbd_lim
    [] base_solver = "glucose" -> exp_clause_lbd_lim + Scale
    [] OTHER -> IF exp_clause_lbd_lim \in {0, Infinity} THEN Infinity
                ELSE exp_clause_lbd_lim
                       + (Scale * Scale) \div exp_clause_lbd_lim

\* Mutant: the limit has no lower bound.
DecExpClauseGenToZero ==
  CASE base_solver = "minisat" \/ exp_clause_lbd_lim \in {0, Infinity} ->
         exp_clause_lbd_lim
    [] OTHER -> IF exp_clause_lbd_lim > Scale THEN exp_clause_lbd_lim - Scale
                ELSE exp_clause_lbd_lim

DecExpClauseGen ==
  CASE base_solver = "minisat" -> exp_clause_lbd_lim
    [] base_solver = "glucose" ->
         IF exp_clause_lbd_lim > 2 * Scale THEN exp_clause_lbd_lim - Scale
         ELSE exp_clause_lbd_lim
    [] OTHER -> IF exp_clause_lbd_lim = Infinity THEN Infinity
                ELSE IF exp_clause_lbd_lim < 3 * Scale THEN 2 * Scale
                ELSE exp_clause_lbd_lim - Scale

\* Fewer literals than wanted are left and no more than last time: export
\* more.  More than wanted and more than last time: export less.
AdjustExpClauseGen ==
  /\ prev_exp_lits' = num_literals'
  /\ exp_clause_lbd_lim' =
       IF num_literals' < ExpLitsLim * ExpLitsMargin
            /\ num_literals' <= prev_exp_lits
       THEN IncExpClauseGen
       ELSE IF num_literals' > ExpLitsLim * ExpLitsMargin
                 /\ num_literals' > prev_exp_lits
       THEN DecExpClauseGen
       ELSE exp_clause_lbd_lim

ExportSelectedClauses ==
  /\ ExportTo(ExpLitsLim)
  /\ exported' = exported \o Exported(ExpLitsLim)
  /\ \/ /\ ExpLitsLim # 0
        /\ conflicts # prev_exp_confs
        /\ prev_exp_confs' = conflicts
        /\ AdjustExpClauseGen
     \/ /\ ExpLitsLim = 0 \/ conflicts = prev_exp_confs
        /\ UNCHANGED controlVars
  /\ UNCHANGED <<base_solver, conflicts, accepted>>

-----------------------------------------------------------------------------

Next ==
  \/ \E len \in Lengths, lbd \in LBDs : Learn(len, lbd)
  \/ LearnUnit
  \/ ExportSelectedClauses

Spec == Init /\ [][Next]_vars

\* Every period comes to an end.
FairSpec == Spec /\ WF_vars(ExportSelectedClauses)

-----------------------------------------------------------------------------
(* Properties                                                              *)

\* Each clause the wrapper accepted is in the buffer or in the set of one
\* period, exactly once: addClause and exportTo neither lose nor repeat one.
EachClauseOnce ==
  LET all == exported \o Queued
  IN  /\ Len(all) = accepted
      /\ {all[n].id : n \in 1 .. Len(all)} = 1 .. accepted

\* A clause is exported before another only if it is shorter, or as long and
\* older: exportTo follows the ascending keys and the order within a queue.
ShortestAndOldestFirst ==
  [][\A n \in Len(exported) + 1 .. Len(exported') :
       \A m \in n + 1 .. Len(exported' \o Queued') :
         LET c == exported'[n]
             d == (exported' \o Queued')[m]
         IN  c.len < d.len \/ (c.len = d.len /\ c.id < d.id)]_vars

\* However small the limit of literals, the buffer is emptied in the end, if
\* the search learns no more clauses (here: after MaxConflicts of them).
BufferDrains == []<>(Queued = <<>>)

\* GlucoseWrapper.cpp:77: a glue clause is exported even if it is long.  The
\* control of the limit must not, over any number of periods, exclude it.
GlueClausesExported ==
  [][\A len \in Lengths, lbd \in LBDs \cap {1, 2} :
       /\ base_solver \in {"glucose", "mcomsps"}
       /\ LBDLim >= 2
       /\ Learn(len, lbd)
       => accepted' = accepted + 1]_vars
=============================================================================
