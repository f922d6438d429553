------------------------------- MODULE SearchState -------------------------------
(***************************************************************************)
(* The state of a search, of whichever base solver: clauses, two of whose  *)
(* literals are watched, and the trail, with levels and reasons.  Also     *)
(* here: how a search begins, and what must be true of it.                 *)
(***************************************************************************)
EXTENDS Cnf, Sequences, FiniteSets

CONSTANTS
  Solvers,        \* the solvers: "MiniSat", "Glucose", "MapleCOMSPS", "Kissat"
  InputFormulas,  \* for each solver the formulas, as sequences of clauses
  AnyVariable,    \* BOUND: FALSE: decisions are made in the order of the variables
  Arriving,       \* BOUND: the clauses that may arrive from other threads
  MaxImports,     \* BOUND: so many of them do
  MaxReductions   \* BOUND: calls of reduceDB, kissat_reduce

ASSUME SearchAssumption ==
  /\ Solvers \subseteq {"MiniSat", "Glucose", "MapleCOMSPS", "Kissat"}
  /\ \A s \in Solvers : InputFormulas[s] \subseteq Seq(Clauses)
  /\ AnyVariable \in BOOLEAN
  /\ Arriving \subseteq Clauses
  /\ MaxImports \in Nat
  /\ MaxReductions \in Nat

VARIABLES
  solver,         \* which solver this is
  formula,        \* the input, a sequence of clauses
  loaded,         \* how many of them have been given to addClause_
  order,          \* for every clause there is, its literals at positions 0 and 1:
                  \* the watched ones
  trail,          \* the literals made true, in this order, with level and reason
  trailLim,       \* trail_lim: the length of the trail when each level began
  qhead,          \* so many literals of the trail have been propagated or begun
  visiting,       \* the clauses that propagate still has to visit for the last one
  caller,         \* what called propagate
  conflict,       \* in Kissat: the false clause that is analyzed
  analyzed,       \* the literals seen so far by analyze, less those resolved away
  conflicted,     \* there was a conflict since the last restart
  imports,        \* the number of imported clauses so far
  reductions,     \* the number of calls of reduceDB so far
  pc

clauseVars == <<solver, formula, loaded, order>>
trailVars == <<trail, trailLim, qhead>>
analysis == <<conflict, analyzed>>
counters == <<conflicted, imports, reductions>>
vars == <<clauseVars, trailVars, visiting, caller, analysis, counters, pc>>

NoReason == [lits |-> {}, learnt |-> FALSE]
Clause(lits, learnt) == [lits |-> lits, learnt |-> learnt]

AnyClause == [lits : SUBSET Literal, learnt : BOOLEAN]

\* The solutions of the formula.
Models == {a \in Assignment : \A i \in DOMAIN formula : formula[i] \cap a # {}}

\* The literals there are for the search: those of the variables of the formula.
Searched == UNION {formula[i] \cup Complement(formula[i]) : i \in DOMAIN formula}

-----------------------------------------------------------------------------
(* The assignment                                                          *)

Level == Len(trailLim)
TrueLits == {trail[i].lit : i \in DOMAIN trail}
FalseLits == Complement(TrueLits)
Assigned(lit) == lit \in TrueLits \cup FalseLits

\* The entry of the trail for a literal or its complement.
Entry(lit) == CHOOSE e \in {trail[i] : i \in DOMAIN trail} : e.lit \in {lit, -lit}
LevelOf(lit) == Entry(lit).level

\* uncheckedEnqueue.
Enqueued(lit, reason) ==
  Append(trail, [lit |-> lit, level |-> Level, reason |-> reason])

-----------------------------------------------------------------------------
(* Clauses                                                                 *)

\* attachClause: the first two literals are watched.
Attached(c, watched) ==
  [d \in DOMAIN order \cup {c} |-> IF d = c THEN watched ELSE order[d]]

\* All but MiniSat keep binary clauses in watch lists only, and do not bring the
\* implied literal to the front.
Binary(c) == solver # "MiniSat" /\ Cardinality(c.lits) = 2

\* The literal a clause has made true, as analyze, litRedundant and locked find
\* it: the first one, of a binary clause the one that is not false.  Kissat looks
\* for the one that is true.
Implied(c) ==
  IF solver = "Kissat" THEN CHOOSE l \in c.lits : l \in TrueLits
  ELSE IF Binary(c) /\ order[c][1] \notin TrueLits THEN order[c][2]
  ELSE order[c][1]

Satisfied(c) == c.lits \cap TrueLits # {}

\* The order that sorting the literals gives.
Sorted(lits) ==
  LET first == CHOOSE l \in lits : \A m \in lits : Var(l) <= Var(m)
  IN  <<first, CHOOSE l \in lits \ {first} : \A m \in lits \ {first} : Var(l) <= Var(m)>>

\* The two watched literals; in Kissat their order means nothing.
Watched(first, second) ==
  IF solver = "Kissat" THEN Sorted({first, second}) ELSE <<first, second>>

-----------------------------------------------------------------------------
(* Loading the formula                                                     *)

Init ==
  /\ solver \in Solvers
  /\ formula \in InputFormulas[solver]
  /\ loaded = 0
  /\ order = << >>
  /\ trail = << >>
  /\ trailLim = << >>
  /\ qhead = 0
  /\ visiting = {}
  /\ caller = "load"
  /\ conflict = NoReason
  /\ analyzed = {}
  /\ conflicted = FALSE
  /\ imports = 0
  /\ reductions = 0
  /\ pc = "load"

\* Mutant: they are left in.
OpenAll(c) == c

\* The literals of a clause that are left when it is added at level 0.
Open(c) == c \ FalseLits

\* A literal is made true at level 0, and propagated at once.
AddUnit(lit, from) ==
  /\ trail' = Enqueued(lit, NoReason)
  /\ caller' = from
  /\ pc' = "propagate"
  /\ UNCHANGED <<order, trailLim, qhead>>

\* A clause is added at level 0: false literals are left out, and a clause that is
\* true already is not needed.
Add(c, learnt, pairs, from) ==
  LET open == Open(c)
  IN  \/ /\ c \cap TrueLits # {}
         /\ pc' = from
         /\ UNCHANGED <<order, trailVars, caller>>
      \/ /\ open = {}
         /\ pc' = "unsat"
         /\ UNCHANGED <<order, trailVars, caller>>
      \/ /\ c \cap TrueLits = {}
         /\ \E lit \in open : open = {lit} /\ AddUnit(lit, from)
      \/ /\ c \cap TrueLits = {} /\ Cardinality(open) > 1
         /\ \E watched \in pairs : order' = Attached(Clause(open, learnt), watched)
         /\ pc' = from
         /\ UNCHANGED <<trailVars, caller>>

\* addClause_, kissat_add.
AddClause ==
  /\ pc = "load" /\ loaded < Len(formula)
  /\ loaded' = loaded + 1
  /\ LET c == formula[loaded + 1]
     IN  Add(c, FALSE, {Sorted(Open(c))}, "load")
  /\ UNCHANGED <<solver, formula, visiting, analysis, counters>>

StartSearch ==
  /\ pc = "load" /\ loaded = Len(formula)
  /\ pc' = "top"
  /\ UNCHANGED <<clauseVars, trailVars, visiting, caller, analysis, counters>>

\* The literals that are watched in a clause that comes from elsewhere: any two.
AnyPair(lits) == {Watched(p[1], p[2]) : p \in {q \in lits \X lits : q[1] # q[2]}}

\* The formula implies the clauses of the others.
Arrives(c) == imports < MaxImports /\ \A a \in Models : c \cap a # {}

\* Its literals are in any order.
ApplyImportedClause(c) ==
  /\ pc = "import" \/ (pc = "top" /\ Level = 0)
  /\ Arrives(c)
  /\ imports' = imports + 1
  /\ Add(c, TRUE, AnyPair(Open(c)), "top")
  /\ UNCHANGED <<solver, formula, loaded, visiting, analysis, conflicted, reductions>>

-----------------------------------------------------------------------------
(* Propagation                                                             *)

StartPropagation ==
  /\ pc = "top"
  /\ caller' = "search"
  /\ pc' = "propagate"
  /\ UNCHANGED <<clauseVars, trailVars, visiting, analysis, counters>>

Watching(lit) == {c \in DOMAIN order : lit \in {order[c][1], order[c][2]}}

\* Mutant: several literals in a row count as one.
NextLiteralOfAll ==
  /\ pc = "propagate" /\ visiting = {} /\ qhead < Len(trail)
  /\ qhead' = Len(trail)
  /\ visiting' = Watching(-trail[qhead + 1].lit)
  /\ UNCHANGED <<clauseVars, trail, trailLim, caller, analysis, counters, pc>>

NextLiteral ==
  /\ pc = "propagate" /\ visiting = {} /\ qhead < Len(trail)
  /\ qhead' = qhead + 1
  /\ visiting' = Watching(-trail[qhead + 1].lit)
  /\ UNCHANGED <<clauseVars, trail, trailLim, caller, analysis, counters, pc>>

EndPropagation ==
  /\ pc = "propagate" /\ visiting = {} /\ qhead = Len(trail)
  /\ pc' = IF caller = "search" THEN "decide" ELSE caller
  /\ UNCHANGED <<clauseVars, trailVars, visiting, caller, analysis, counters>>

-----------------------------------------------------------------------------
(* No conflict                                                             *)

\* pickBranchLit, kissat_decide: activities, the random seed and phases choose.
Decide(lit) ==
  /\ pc \in {"decide", "simplified", "reduced"}
  /\ lit \in Searched /\ ~Assigned(lit)
  /\ AnyVariable \/ \A l \in Searched : Assigned(l) \/ Var(lit) <= Var(l)
  /\ trailLim' = Append(trailLim, Len(trail))
  /\ trail' = Append(trail, [lit |-> lit, level |-> Level + 1, reason |-> NoReason])
  /\ pc' = "top"
  /\ UNCHANGED <<clauseVars, qhead, visiting, caller, analysis, counters>>

ModelFound ==
  /\ pc \in {"decide", "simplified", "reduced"}
  /\ \A lit \in Searched : Assigned(lit)
  /\ pc' = "sat"
  /\ UNCHANGED <<clauseVars, trailVars, visiting, caller, analysis, counters>>

Ended == pc \in {"sat", "unsat", "stopped"}

Done == Ended /\ UNCHANGED vars

-----------------------------------------------------------------------------
(* Properties                                                              *)

TypeOK ==
  /\ solver \in Solvers
  /\ formula \in InputFormulas[solver]
  /\ loaded \in 0 .. Len(formula)
  /\ \A c \in DOMAIN order : c \in AnyClause /\ order[c] \in Literal \X Literal
  /\ trail \in Seq([lit : Literal, level : Nat, reason : AnyClause])
  /\ trailLim \in Seq(Nat)
  /\ qhead \in 0 .. Len(trail)
  /\ visiting \subseteq DOMAIN order
  /\ caller \in {"load", "top", "search", "stamp", "reduce"}
  /\ conflict \in AnyClause
  /\ analyzed \subseteq Literal
  /\ conflicted \in BOOLEAN
  /\ imports \in 0 .. MaxImports
  /\ reductions \in 0 .. MaxReductions
  /\ pc \in {"load", "top", "import", "propagate", "conflict", "analyze", "failed",
             "decide", "stamp", "simplified", "reduce", "reduced", "sat", "unsat",
             "stopped"}

\* The clauses of the search, its learnt and imported ones too, all follow from
\* the formula, and so does what is true at level 0: what is offered for export
\* may be used by the others.
ClausesAreImplied ==
  \A a \in Models :
    /\ \A c \in DOMAIN order : c.lits \cap a # {}
    /\ \A i \in DOMAIN trail : trail[i].level = 0 => trail[i].lit \in a

\* An answer is right, whatever the other threads have sent.
AnswersAreRight ==
  /\ pc = "unsat" => Models = {}
  /\ pc = "sat" => /\ TrueLits \cap FalseLits = {}
                   /\ \A i \in DOMAIN formula : formula[i] \cap TrueLits # {}

\* With two watched literals per clause propagation overlooks nothing: when it
\* ends without a conflict no clause is false and none has one literal left, also
\* after restarts, forced imports and deletions.  The exception is Kissat once it has
\* reduced above level 0: a clause may then watch its only true literal and a false one
\* of a higher level than that; after backtracking it may have one literal left and
\* nobody knows, but it is still found when that one becomes false.
MayHaveOneLeft == solver = "Kissat" /\ Level > 0 /\ reductions > 0

PropagationIsComplete ==
  pc \in {"decide", "simplified", "reduced", "stamp"} =>
    \A c \in DOMAIN order :
      Satisfied(c) \/ Cardinality(c.lits \ FalseLits) > (IF MayHaveOneLeft THEN 0 ELSE 1)

\* The literals analyze looks at, those up to the last one of the conflict, have their
\* reasons: the clause still exists, it has the literal where it is looked for, and its
\* other literals were false before.  Kissat shortens reasons, deletes clauses and
\* keeps literals on the trail out of their order.
LookedAt(i) ==
  pc \in {"conflict", "analyze", "failed"} =>
    \E j \in i .. Len(trail) : -trail[j].lit \in conflict.lits \cup analyzed

ReasonsStay ==
  pc # "unsat" =>
    \A i \in DOMAIN trail :
      LET c == trail[i].reason
      IN  trail[i].level > 0 /\ c # NoReason /\ LookedAt(i) =>
            /\ c \in DOMAIN order
            /\ Implied(c) = trail[i].lit
            /\ c.lits \ {trail[i].lit} \subseteq Complement({trail[j].lit : j \in 1 .. i - 1})

\* When false literals are taken out of the clauses, those watched are not among
\* them: they would be watched no more.
WatchedAreOpen ==
  pc \in {"decide", "stamp"} /\ Level = 0 =>
    \A c \in DOMAIN order :
      Satisfied(c) \/ (~Assigned(order[c][1]) /\ ~Assigned(order[c][2]))
=================================================================================
