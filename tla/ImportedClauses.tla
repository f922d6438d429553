--------------------------- MODULE ImportedClauses ---------------------------
(***************************************************************************)
(* What a worker does with the clauses it has imported.  checkPeriod puts  *)
(* them into two vectors; the search hands them to the base solver when it *)
(* is at decision level 0, or when shouldApplyImportedClauses makes it go  *)
(* back to that level.  The solvers of the MiniSat family apply all        *)
(* clauses in one go.  In Kissat the propagation of a unit clause calls    *)
(* checkPeriod again, which may import while the vectors are being read.   *)
(***************************************************************************)
EXTENDS Integers, SequencesExt

CONSTANTS
  NumThreads,   \* --nthreads
  FAppClauses,  \* --fapp-clauses
  FAppPeriods,  \* --fapp-periods
  MaxPeriod,    \* BOUND: periods the search goes through
  MaxImports    \* BOUND: clauses imported in all

ASSUME ImportAssumption ==
  /\ NumThreads \in Nat \ {0}
  /\ FAppClauses \in Nat
  /\ FAppPeriods \in Nat
  /\ MaxPeriod \in Nat
  /\ MaxImports \in Nat

VARIABLES
  kissat,                 \* is the base solver Kissat, or one of the MiniSat
                          \* family?  Never changes.
  pc,                     \* where the loop of search() is
  at_root,                \* is the decision level 0?
  periods,
  last_fapp_period,
  imported,               \* how many clauses were imported so far
  imported_clauses,
  imported_unit_clauses,
  moved,                  \* importedUnitClauses, importedClauses: local
                          \* variables of DPS_kissat_applyImportedClauses
  applied                 \* the clauses handed to the base solver, in order

vectors == <<imported, imported_clauses, imported_unit_clauses>>
vars == <<kissat, pc, at_root, periods, last_fapp_period, vectors, moved,
          applied>>

Init ==
  /\ kissat \in BOOLEAN
  /\ pc = IF kissat THEN "check" ELSE "apply"
  /\ at_root = TRUE
  /\ periods = 0
  /\ last_fapp_period = 0
  /\ imported = 0
  /\ imported_clauses = <<>>
  /\ imported_unit_clauses = <<>>
  /\ moved = <<>>
  /\ applied = <<>>

AllImported == applied \o moved \o imported_unit_clauses \o imported_clauses

-----------------------------------------------------------------------------
(* checkPeriod                                                             *)

\* New clauses, numbered from first + 1; prd is the period the thread enters then.
NewClauses(first, number) ==
  [n \in 1 .. number |-> [id |-> first + n, prd |-> periods + 1]]

\* A period ends: importClauses fills the vectors, moveToNextPeriod.  The clauses
\* get their numbers here, those of one literal first.
\* BOUND: at most two clauses at a time.
NextPeriod ==
  /\ periods < MaxPeriod
  /\ \E units, others \in 0 .. 2 :
       /\ units + others <= 2
       /\ imported + units + others <= MaxImports
       /\ imported' = imported + units + others
       /\ imported_unit_clauses' =
            imported_unit_clauses \o NewClauses(imported, units)
       /\ imported_clauses' =
            imported_clauses \o NewClauses(imported + units, others)
  /\ periods' = periods + 1

\* The call in the loop of search(): the period ends, or it goes on.
CheckPeriod ==
  /\ pc = "check"
  /\ NextPeriod \/ UNCHANGED <<periods, vectors>>
  /\ pc' = IF kissat THEN "apply" ELSE "search"
  /\ UNCHANGED <<kissat, at_root, last_fapp_period, moved, applied>>

\* Kissat also calls it while it propagates, analyses or simplifies.
CheckPeriodInside ==
  /\ kissat
  /\ pc \in {"applying", "search"}
  /\ NextPeriod
  /\ UNCHANGED <<kissat, pc, at_root, last_fapp_period, moved, applied>>

-----------------------------------------------------------------------------
(* Application                                                             *)

\* Mutant: the first test is left out.
ShouldApplyManyOnly ==
  /\ periods >= last_fapp_period + FAppPeriods
  /\ FAppClauses > 0
  /\ Len(imported_clauses) \div NumThreads >= FAppClauses

ShouldApplyImportedClauses ==
  /\ periods >= last_fapp_period + FAppPeriods
  /\ \/ imported_unit_clauses # <<>>
     \/ /\ FAppClauses > 0
        /\ Len(imported_clauses) \div NumThreads >= FAppClauses

\* At level 0 the test is not made; else it notes the period.
DecideToApply ==
  \/ /\ at_root
     /\ UNCHANGED last_fapp_period
  \/ /\ ~at_root
     /\ ShouldApplyImportedClauses
     /\ last_fapp_period' = periods

SkipApply ==
  /\ pc = "apply"
  /\ ~at_root
  /\ ~ShouldApplyImportedClauses
  /\ pc' = IF kissat THEN "search" ELSE "check"
  /\ UNCHANGED <<kissat, at_root, periods, last_fapp_period, vectors, moved,
                 applied>>

\* Solver::applyImportedClauses: back to level 0, unit clauses first.  The
\* loops run over the vectors themselves: nothing is imported meanwhile.  A
\* clause that contradicts the others ends the search.
ApplyAll ==
  /\ ~kissat
  /\ pc = "apply"
  /\ DecideToApply
  /\ at_root' = TRUE
  /\ applied' = applied \o imported_unit_clauses \o imported_clauses
  /\ imported_unit_clauses' = <<>>
  /\ imported_clauses' = <<>>
  /\ pc' \in {"check", "unsat"}
  /\ UNCHANGED <<kissat, periods, imported, moved>>

\* DPS_kissat_applyImportedClauses: back to level 0; the vectors are moved.
StartApply ==
  /\ kissat
  /\ pc = "apply"
  /\ DecideToApply
  /\ at_root' = TRUE
  /\ moved' = imported_unit_clauses \o imported_clauses
  /\ imported_unit_clauses' = <<>>
  /\ imported_clauses' = <<>>
  /\ pc' = "applying"
  /\ UNCHANGED <<kissat, periods, imported, applied>>

ApplyNext ==
  /\ pc = "applying"
  /\ moved # <<>>
  /\ applied' = Append(applied, Head(moved))
  /\ moved' = Tail(moved)
  /\ pc' \in {"applying", "unsat"}
  /\ UNCHANGED <<kissat, at_root, periods, last_fapp_period, vectors>>

\* Mutant: the vectors of the worker are cleared, not the local ones.
EndApplyClearsVectors ==
  /\ pc = "applying"
  /\ moved = <<>>
  /\ imported_unit_clauses' = <<>>
  /\ imported_clauses' = <<>>
  /\ pc' = "search"
  /\ UNCHANGED <<kissat, at_root, periods, imported, last_fapp_period, moved,
                 applied>>

EndApply ==
  /\ pc = "applying"
  /\ moved = <<>>
  /\ pc' = "search"
  /\ UNCHANGED <<kissat, at_root, periods, last_fapp_period, vectors, moved,
                 applied>>

\* Propagation, decisions, backjumps and restarts, up to the top of the loop.
Search ==
  /\ pc = "search"
  /\ at_root' \in BOOLEAN
  /\ pc' = IF kissat THEN "check" ELSE "apply"
  /\ UNCHANGED <<kissat, periods, last_fapp_period, vectors, moved, applied>>

Next ==
  \/ CheckPeriod \/ CheckPeriodInside
  \/ SkipApply \/ ApplyAll \/ StartApply \/ ApplyNext \/ EndApply
  \/ Search

Spec == Init /\ [][Next]_vars

-----------------------------------------------------------------------------
(* Properties                                                              *)

\* No clause is lost or applied twice, also when clauses are imported while
\* others are being applied (DPS_C_API.cpp: "these clauses should be
\* separated from new importation").
NoClauseLost ==
  pc # "unsat" =>
    /\ Len(AllImported) = imported
    /\ {AllImported[n].id : n \in 1 .. imported} = 1 .. imported

\* In the MiniSat family, whose search asks once a period, a unit clause is
\* never kept longer than the interval between two interruptions.
UnitsKeptOneInterval ==
  ~kissat => \A n \in 1 .. Len(imported_unit_clauses) :
               periods <= imported_unit_clauses[n].prd + FAppPeriods
=============================================================================
