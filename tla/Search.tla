--------------------------------- MODULE Search ---------------------------------
(***************************************************************************)
(* The search of the MiniSat family, with the calls DPS has put into it:   *)
(* Solver::search, propagate, analyze, reduceDB and simplify of MiniSat,   *)
(* Glucose and MapleCOMSPS.  The thread is alone here: the clauses of the  *)
(* others arrive as any clauses that the formula implies, at the places    *)
(* where the search takes them.                                            *)
(***************************************************************************)
EXTENDS SearchState

\* Mutant: propagation goes on where it was.
CancelUntilUnread(level) ==
  /\ trail' = SubSeq(trail, 1, IF Level > level THEN trailLim[level + 1] ELSE Len(trail))
  /\ trailLim' = SubSeq(trailLim, 1, level)
  /\ qhead' = qhead

\* cancelUntil: what the trail is, and how far it has been propagated.
LengthAt(level) == IF Level > level THEN trailLim[level + 1] ELSE Len(trail)
TrailAt(level) == SubSeq(trail, 1, LengthAt(level))
CancelUntil(level) ==
  /\ trail' = TrailAt(level)
  /\ trailLim' = SubSeq(trailLim, 1, level)
  /\ qhead' = IF Level > level THEN LengthAt(level) ELSE qhead

\* Mutant: no clause is.
LockedNever(c) == FALSE

Locked(c) ==
  Implied(c) \in TrueLits /\ Entry(Implied(c)).reason = c

\* Imported unit clauses, or too many others, do not wait for level 0.
ForceImport ==
  /\ pc = "top" /\ Level > 0 /\ \E c \in Arriving : Arrives(c)
  /\ CancelUntil(0)
  /\ pc' = "import"
  /\ UNCHANGED <<clauseVars, visiting, caller, analysis, counters>>

\* checkPeriod says that another thread has the answer, or a limit is met.
Terminate ==
  /\ pc = "top"
  /\ CancelUntil(0)
  /\ pc' = "stopped"
  /\ UNCHANGED <<clauseVars, visiting, caller, analysis, counters>>

-----------------------------------------------------------------------------
(* propagate                                                               *)

\* A conflict at level 0 is the end; search leaves others to analyze, which looks
\* at the literals above level 0.
Conflict(c) ==
  /\ visiting' = {}
  /\ pc' = IF caller = "search" /\ Level > 0 THEN "analyze" ELSE "unsat"
  /\ analyzed' = IF pc' = "analyze" THEN {l \in c.lits : LevelOf(l) > 0} ELSE {}

\* Binary clauses come first.  A conflict is returned at once.
VisitBinary(c) ==
  LET false == -trail[qhead].lit
  IN  /\ pc = "propagate"
      /\ c \in visiting /\ Binary(c)
      /\ \E other \in c.lits \ {false} :
           \/ /\ other \in FalseLits
              /\ Conflict(c)
              /\ UNCHANGED trail
           \/ /\ other \in TrueLits
              /\ visiting' = visiting \ {c}
              /\ UNCHANGED <<trail, analyzed, pc>>
           \/ /\ ~Assigned(other)
              /\ trail' = Enqueued(other, c)
              /\ visiting' = visiting \ {c}
              /\ UNCHANGED <<analyzed, pc>>
      /\ UNCHANGED <<clauseVars, trailLim, qhead, caller, conflict, counters>>

\* A literal that was seen in the clause before, the blocker, is true.
SkipWatch(c) ==
  /\ pc = "propagate"
  /\ c \in visiting /\ ~Binary(c)
  /\ \A d \in visiting : ~Binary(d)
  /\ Satisfied(c)
  /\ visiting' = visiting \ {c}
  /\ UNCHANGED <<clauseVars, trailVars, caller, analysis, counters, pc>>

VisitWatch(c) ==
  LET false == -trail[qhead].lit
      first == IF order[c][1] = false THEN order[c][2] ELSE order[c][1]
      others == c.lits \ {first, false}
      Keep(second) == order' = [order EXCEPT ![c] = <<first, second>>]
  IN  /\ pc = "propagate"
      /\ c \in visiting /\ ~Binary(c)
      /\ \A d \in visiting : ~Binary(d)
      /\ \/ /\ first \in TrueLits
            /\ Keep(false)
            /\ visiting' = visiting \ {c}
            /\ UNCHANGED <<trail, qhead, analyzed, pc>>
         \/ /\ first \notin TrueLits
            /\ \E l \in others \ FalseLits : Keep(l)
            /\ visiting' = visiting \ {c}
            /\ UNCHANGED <<trail, qhead, analyzed, pc>>
         \/ /\ ~Assigned(first) /\ others \subseteq FalseLits
            /\ Keep(false)
            /\ trail' = Enqueued(first, c)
            /\ visiting' = visiting \ {c}
            /\ UNCHANGED <<qhead, analyzed, pc>>
         \/ /\ first \in FalseLits /\ others \subseteq FalseLits
            /\ Keep(false)
            /\ qhead' = Len(trail)
            /\ Conflict(c)
            /\ UNCHANGED trail
      /\ UNCHANGED <<solver, formula, loaded, trailLim, caller, conflict, counters>>

-----------------------------------------------------------------------------
(* analyze                                                                 *)

AtLevel(lits, level) == {l \in lits : LevelOf(l) = level}

\* The other literals of the reason, as the loops that begin at position 1 see
\* them, without those false at level 0.
Antecedents(reason) == {l \in reason.lits \ {Implied(reason)} : LevelOf(l) > 0}

\* One round of the loop: the literal assigned last is replaced by its reason.
Resolve ==
  /\ pc = "analyze"
  /\ Cardinality(AtLevel(analyzed, Level)) > 1
  /\ \E i \in DOMAIN trail :
       /\ -trail[i].lit \in analyzed
       /\ \A j \in DOMAIN trail : j > i => -trail[j].lit \notin analyzed
       /\ trail[i].reason # NoReason
       /\ analyzed' = (analyzed \ {-trail[i].lit}) \cup Antecedents(trail[i].reason)
  /\ UNCHANGED <<clauseVars, trailVars, visiting, caller, conflict, counters, pc>>

\* litRedundant: the literals of the clause that others of it imply, by the
\* reasons of literals that need not be in the clause.
Redundant(lits) ==
  LET inferred == {l \in FalseLits : LevelOf(l) > 0 /\ Entry(l).reason # NoReason}
      Closed(s) == \A l \in s : Antecedents(Entry(l).reason) \subseteq lits \cup s
  IN  lits \cap UNION {s \in SUBSET inferred : Closed(s)}

\* binResMinimize, minimisationWithBinaryResolution: literals removed by the
\* binary clauses with the literal that stays true.
RemovedByBinaries(lits, lit) ==
  {l \in lits : \E c \in DOMAIN order : Binary(c) /\ c.lits = {lit, -l}}

\* What can be learnt besides the literal that stays true.  Binary clauses are used
\* when the clause is short and its literals are of few levels.
Minimized(lits, lit) ==
  LET fewer == lits \ Redundant(lits)
  IN  {fewer, fewer \ RemovedByBinaries(fewer, lit)}

\* The search goes back to a lower level and makes a literal true there.
BackjumpTo(level, lit, reason) ==
  /\ trail' = Append(TrailAt(level), [lit |-> lit, level |-> level, reason |-> reason])
  /\ trailLim' = SubSeq(trailLim, 1, level)
  /\ qhead' = LengthAt(level)

\* A clause is learnt, and offered for export.  Its second literal is one of the
\* highest level among the others.
Learn ==
  /\ pc = "analyze"
  /\ \E lit \in AtLevel(analyzed, Level) :
       /\ AtLevel(analyzed, Level) = {lit}
       /\ \E others \in Minimized(analyzed \ {lit}, lit) :
            \/ /\ others = {}
               /\ BackjumpTo(0, lit, NoReason)
               /\ UNCHANGED order
            \/ \E second \in others :
                 LET c == Clause({lit} \cup others, TRUE)
                 IN  /\ \A l \in others : LevelOf(l) <= LevelOf(second)
                     /\ BackjumpTo(LevelOf(second), lit, c)
                     /\ order' = Attached(c, <<lit, second>>)
  /\ analyzed' = {}
  /\ conflicted' = TRUE
  /\ pc' = "top"
  /\ UNCHANGED <<solver, formula, loaded, visiting, caller, conflict, imports,
                 reductions>>

-----------------------------------------------------------------------------
(* No conflict: restart, simplify, reduceDB, and a decision, in this order *)

\* Mutant: the search restarts over and over.
RestartAgain ==
  /\ pc = "decide" /\ conflicted
  /\ CancelUntil(0)
  /\ pc' = "top"
  /\ UNCHANGED <<clauseVars, visiting, caller, analysis, counters>>

Restart ==
  /\ pc = "decide" /\ conflicted
  /\ CancelUntil(0)
  /\ conflicted' = FALSE
  /\ pc' = "top"
  /\ UNCHANGED <<clauseVars, visiting, caller, analysis, imports, reductions>>

\* safeRemoveSatisfiedCompact: MapleCOMSPS takes false literals out of learnt
\* clauses; the literals at positions 0 and 1 must stay there.
Compacted(c) ==
  IF solver = "MapleCOMSPS" /\ c.learnt THEN Clause(c.lits \ FalseLits, TRUE) ELSE c

\* removeClause: no reason is left of a clause that is gone.  Glucose takes the
\* literal at position 0 for the one a binary clause has made true.
ReasonsCleared(gone) ==
  {[i \in DOMAIN trail |->
      IF trail[i].reason \in gone /\ i \notin stale
      THEN [trail[i] EXCEPT !.reason = NoReason] ELSE trail[i]] :
   stale \in SUBSET {i \in DOMAIN trail : solver = "Glucose" /\ Binary(trail[i].reason)}}

\* simplify, which a counter may put off: clauses that are true are removed, those of
\* the formula only if the solver has preprocessed it.
Simplify ==
  /\ pc = "decide" /\ Level = 0
  /\ \E removeSatisfied \in BOOLEAN :
       LET gone == {c \in DOMAIN order : Satisfied(c) /\ (c.learnt \/ removeSatisfied)}
           kept == DOMAIN order \ gone
       IN  /\ order' = [d \in {Compacted(c) : c \in kept} |->
                          order[CHOOSE c \in kept : Compacted(c) = d]]
           /\ trail' \in ReasonsCleared(gone)
  /\ pc' = IF solver = "MapleCOMSPS" THEN "stamp" ELSE "simplified"
  /\ UNCHANGED <<solver, formula, loaded, trailLim, qhead, visiting, caller, analysis,
                 counters>>

\* stampAll, stamp: a literal that makes another one both true and false, by
\* binary clauses alone, is false itself.
FailedLiteral(lit) ==
  LET binaries == {c.lits : c \in {d \in DOMAIN order : Binary(d) /\ ~Satisfied(d)}}
      Closed(lits) == \A c \in binaries : c \cap Complement(lits) # {} => c \cap lits # {}
  IN  /\ pc = "stamp"
      /\ ~Assigned(lit)
      /\ \A lits \in Clauses : lit \in lits => ~Closed(lits)
      /\ AddUnit(-lit, "stamp")
      /\ UNCHANGED <<solver, formula, loaded, visiting, analysis, counters>>

EndStamping ==
  /\ pc = "stamp"
  /\ pc' = "simplified"
  /\ UNCHANGED <<clauseVars, trailVars, visiting, caller, analysis, counters>>

\* Which of the learnt clauses go depends on activities and levels; those of two
\* literals and the reasons of literals stay.
ReduceDB ==
  /\ pc \in {"decide", "simplified"} /\ reductions < MaxReductions
  /\ \E gone \in SUBSET {c \in DOMAIN order :
                           c.learnt /\ Cardinality(c.lits) > 2 /\ ~Locked(c)} :
       order' = [c \in DOMAIN order \ gone |-> order[c]]
  /\ reductions' = reductions + 1
  /\ pc' = "reduced"
  /\ UNCHANGED <<solver, formula, loaded, trailVars, visiting, caller, analysis,
                 conflicted, imports>>

MiniSatNext ==
  \/ ForceImport \/ Terminate
  \/ \E c \in visiting : VisitBinary(c) \/ SkipWatch(c) \/ VisitWatch(c)
  \/ Resolve \/ Learn
  \/ Restart \/ Simplify \/ EndStamping \/ ReduceDB
  \/ \E lit \in Literal : FailedLiteral(lit)
=================================================================================
