----------------------------- MODULE SearchInvariant -----------------------------
(***************************************************************************)
(* The inductive invariant of the search, in named parts.  Those about     *)
(* the trail are operators of a trail t and of the limits of its levels,   *)
(* for what actions do to the trail in several steps.                      *)
(***************************************************************************)
EXTENDS BaseSolver

Entries == [lit : Literal, level : Nat, reason : AnyClause]

-----------------------------------------------------------------------------
(* The trail                                                               *)

\* No variable is on the trail twice.
Distinct(t) ==
  \A i, j \in DOMAIN t : i # j => t[i].lit # t[j].lit /\ t[i].lit # -t[j].lit

\* A level begins with its decision.
Limits(t, lim) ==
  \A k \in DOMAIN lim :
    /\ lim[k] < Len(t)
    /\ t[lim[k] + 1].level = k
    /\ t[lim[k] + 1].reason = NoReason
    /\ \A j \in 1 .. k - 1 : lim[j] < lim[k]

\* What is assigned before a level begins has a lower level.
Levels(t, lim) ==
  \A i \in DOMAIN t :
    /\ t[i].level <= Len(lim)
    /\ \A k \in DOMAIN lim : i <= lim[k] => t[i].level < k

\* In the MiniSat family this is so only then.
InOrder(t, lim) ==
  \A i \in DOMAIN t, k \in DOMAIN lim : t[i].level < k => i <= lim[k]

\* Only decisions have no reason.
Decisions(t, lim) ==
  \A i \in DOMAIN t :
    t[i].level > 0 /\ t[i].reason = NoReason => i = lim[t[i].level] + 1

\* What is true at level 0 is true in every model.
RootRight(t, models) ==
  \A i \in DOMAIN t : t[i].level = 0 => \A a \in models : t[i].lit \in a

\* The reason of an entry follows from the formula and its other literals were false
\* before, none at a higher level; in Kissat one of them at the same level.
Justified(e, before, models, s) ==
  /\ e.reason.lits \in Clauses
  /\ e.lit \in e.reason.lits
  /\ \A a \in models : e.reason.lits \cap a # {}
  /\ \A l \in e.reason.lits \ {e.lit} :
       \E b \in before : b.lit = -l /\ b.level <= e.level
  /\ s = "Kissat" => \E b \in before : -b.lit \in e.reason.lits /\ b.level = e.level

EntriesUpTo(t, n) == {t[i] : i \in 1 .. n}

ReasonsRight(t, models, s) ==
  \A i \in DOMAIN t :
    t[i].level > 0 /\ t[i].reason # NoReason =>
      Justified(t[i], EntriesUpTo(t, i - 1), models, s)

TrailOK(t, lim, models, s) ==
  /\ t \in Seq(Entries)
  /\ lim \in Seq(Nat)
  /\ Distinct(t)
  /\ Limits(t, lim)
  /\ Levels(t, lim)
  /\ s # "Kissat" => InOrder(t, lim)
  /\ Decisions(t, lim)
  /\ RootRight(t, models)
  /\ ReasonsRight(t, models, s)

-----------------------------------------------------------------------------
(* The watched literals                                                    *)

\* The first n literals of the trail made these false; of levels below k these are
\* true.
FalseIn(t, n) == {-t[i].lit : i \in 1 .. n}
TrueBelow(t, k) == {t[i].lit : i \in {j \in DOMAIN t : t[j].level < k}}

\* If one watched literal is false when level k has begun, and in the last level when
\* it has been propagated, then some literal of the clause is true at a lower level.
\* So it is also after backtracking.  A weak clause is one that Kissat's reduction may
\* have given other watched literals: then both are false.
WatchesSee(t, k, false, lits, pair, strong) ==
  /\ pair[1] \in false /\ pair[2] \in false => lits \cap TrueBelow(t, k) # {}
  /\ (k = 1 \/ strong) /\ (pair[1] \in false \/ pair[2] \in false)
        => lits \cap TrueBelow(t, k) # {}

Limit(t, lim, k, propagated) == IF k \in DOMAIN lim THEN lim[k] ELSE propagated

WatchesOK(t, lim, propagated, top, lits, pair, strong) ==
  \A k \in 1 .. top :
    WatchesSee(t, k, FalseIn(t, Limit(t, lim, k, propagated)), lits, pair, strong)

-----------------------------------------------------------------------------
(* The parts                                                               *)

TrailInv == TrailOK(trail, trailLim, Models, solver)

ControlInv ==
  /\ pc \in {"load", "import", "stamp", "reduce"} => Level = 0
  /\ pc = "propagate" /\ caller # "search" => Level = 0
  /\ pc # "propagate" => visiting = {}
  /\ pc \in {"decide", "simplified", "reduced", "stamp", "reduce"} => qhead = Len(trail)
  /\ pc = "reduce" \/ (pc = "propagate" /\ caller = "reduce") => reductions < MaxReductions
  /\ loaded # Len(formula) => pc = "load" \/ (pc = "propagate" /\ caller = "load")

\* The search propagates at its last level, for the last literal taken off the queue.
PropagateInv ==
  /\ \A k \in DOMAIN trailLim : trailLim[k] <= qhead
  /\ \A c \in visiting :
       /\ qhead > 0
       /\ \A k \in DOMAIN trailLim : trailLim[k] < qhead
       /\ c \in Watching(-trail[qhead].lit)

ClauseInv ==
  \A c \in DOMAIN order :
    /\ c.lits \in Clauses
    /\ \A a \in Models : c.lits \cap a # {}
    /\ order[c][1] # order[c][2]
    /\ order[c][1] \in c.lits /\ order[c][2] \in c.lits

\* A clause of the formula is true at level 0, or what is left of it is there.
Remains(input, t, clauses) ==
  \/ input \cap TrueBelow(t, 1) # {}
  \/ \E c \in clauses : ~c.learnt /\ c.lits \subseteq input \cup Complement(TrueBelow(t, 1))

FormulaInv == \A i \in 1 .. loaded : Remains(formula[i], trail, DOMAIN order)

\* A reason is there, but in Kissat not that of a literal resolved away by a clause
\* that was strengthened.
Analyzing == pc \in {"conflict", "analyze", "failed"}

Present(i) ==
  LET c == trail[i].reason
  IN  \/ c \in DOMAIN order /\ (solver # "Kissat" /\ ~Binary(c) => order[c][1] = trail[i].lit)
      \/ solver = "Kissat" /\ Analyzing /\ trail[i].level = Level /\ ~LookedAt(i)

PresentInv ==
  \A i \in DOMAIN trail : trail[i].level > 0 /\ trail[i].reason # NoReason => Present(i)

Strong == solver # "Kissat" \/ reductions = 0

WatchInv ==
  \A c \in DOMAIN order :
    \/ pc = "conflict" /\ c = conflict
    \/ WatchesOK(trail, trailLim, IF c \in visiting THEN qhead - 1 ELSE qhead,
                 IF Analyzing THEN Level ELSE Level + 1, c.lits, order[c], Strong)

AnalysisInv ==
  /\ pc \in {"analyze", "failed"} =>
       /\ Level > 0
       /\ pc = "failed" => Level = 1
       /\ analyzed # {}
       /\ \A l \in analyzed : \E i \in DOMAIN trail : trail[i].lit = -l /\ trail[i].level > 0
       /\ \A a \in Models : analyzed \cap a # {}
  /\ solver = "Kissat" /\ Analyzing =>
       /\ conflict \in DOMAIN order
       /\ conflict.lits \subseteq FalseLits

Parts ==
  /\ TrailInv
  /\ ControlInv
  /\ PropagateInv
  /\ ClauseInv
  /\ FormulaInv
  /\ PresentInv
  /\ WatchInv
  /\ AnalysisInv

IInv == TypeOK /\ AnswersAreRight /\ (pc # "unsat" => Parts)
=================================================================================
