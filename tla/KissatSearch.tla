------------------------------ MODULE KissatSearch ------------------------------
(***************************************************************************)
(* The search of Kissat, with the calls DPS has put into it: kissat_search *)
(* and what it calls for a conflict, a restart and a reduction.  Unlike in *)
(* the MiniSat family the trail is not ordered by level: a literal gets    *)
(* the highest level of its reason, whatever the level of the search, and  *)
(* stays on the trail when the search goes back to a level not below it.   *)
(***************************************************************************)
EXTENDS SearchState, SequencesExt

-----------------------------------------------------------------------------
(* The trail                                                               *)

Root(lit) == LevelOf(lit) = 0
NonRoot(lits) == {l \in lits : ~Root(l)}
OnLevel(lits, level) == {l \in lits : LevelOf(l) = level}
HighestLevel(lits) ==
  CHOOSE k \in 0 .. Level : OnLevel(lits, k) # {} /\ \A l \in lits : LevelOf(l) <= k

\* The one of the literals that was assigned last.
Latest(lits) ==
  LET Position(l) == CHOOSE i \in DOMAIN trail : trail[i].lit \in {l, -l}
  IN  CHOOSE l \in lits : \A k \in lits : Position(k) <= Position(l)

\* kissat_assign: nobody asks for the reason of a literal of level 0.
Assign(lit, level, reason) ==
  [lit |-> lit, level |-> level, reason |-> IF level = 0 THEN NoReason ELSE reason]

\* kissat_assignment_level, kissat_assign_reference.
Forced(lit, reason) == Assign(lit, HighestLevel(reason.lits \ {lit}), reason)

\* Where the trail is cut to go back to a level.
CutAt(level) == IF level = Level THEN Len(trail) ELSE trailLim[level + 1]

\* What stays on the trail then: above the cut what is not of a higher level.
Kept(level) ==
  LET kept[n \in CutAt(level) .. Len(trail)] ==
        IF n = CutAt(level) THEN SubSeq(trail, 1, n)
        ELSE IF trail[n].level <= level THEN Append(kept[n - 1], trail[n])
        ELSE kept[n - 1]
  IN  kept[Len(trail)]

\* Mutant: what stays on the trail is not propagated again.
BacktrackPropagated(level, assigned) ==
  /\ trail' = Kept(level) \o assigned
  /\ trailLim' = SubSeq(trailLim, 1, level)
  /\ qhead' = IF level = Level THEN qhead ELSE Len(Kept(level))

\* kissat_backtrack_without_updating_phases, and the literals assigned then.  What
\* stays on the trail above the new level is propagated again.
Backtrack(level, assigned) ==
  /\ trail' = Kept(level) \o assigned
  /\ trailLim' = SubSeq(trailLim, 1, level)
  /\ qhead' = IF level = Level THEN qhead ELSE CutAt(level)

-----------------------------------------------------------------------------
(* The top of the loop                                                     *)

\* kissat_forced_restart, before clauses are imported above level 0.
ForcedRestart ==
  /\ pc = "top" /\ Level > 0 /\ \E c \in Arriving : Arrives(c)
  /\ Backtrack(0, << >>)
  /\ pc' = "import"
  /\ UNCHANGED <<clauseVars, visiting, caller, analysis, counters>>

\* dps_check_period has been told to stop, here or in the last conflict.
LeaveSearch ==
  /\ pc = "top"
  /\ pc' = "stopped"
  /\ UNCHANGED <<clauseVars, trailVars, visiting, caller, analysis, counters>>

-----------------------------------------------------------------------------
(* Propagation                                                             *)

\* kissat_update_conflicts_and_trail: a conflict at level 0 is the end.
ConflictFound(c) ==
  /\ visiting' = {}
  /\ conflict' = IF Level = 0 THEN NoReason ELSE c
  /\ pc' = IF Level = 0 THEN "unsat" ELSE "conflict"
  /\ UNCHANGED <<order, trail>>

\* search_propagate_literal, one clause: it is skipped if the other watched literal
\* or the one tried next is true, and watched elsewhere if that one is open.
PropagateClause(c) ==
  LET false == -trail[qhead].lit
      other == CHOOSE l \in {order[c][1], order[c][2]} : l # false
      rest == c.lits \ {other, false}
      Visited == visiting' = visiting \ {c}
  IN  /\ pc = "propagate" /\ c \in visiting
      /\ \/ /\ Satisfied(c)
            /\ Visited /\ UNCHANGED <<order, trail, conflict, pc>>
         \/ /\ other \notin TrueLits
            /\ \E l \in rest : ~Assigned(l) /\ order' = Attached(c, Watched(other, l))
            /\ Visited /\ UNCHANGED <<trail, conflict, pc>>
         \/ /\ ~Assigned(other) /\ rest \subseteq FalseLits
            /\ trail' = Append(trail, Forced(other, c))
            /\ Visited /\ UNCHANGED <<order, conflict, pc>>
         \/ /\ other \in FalseLits /\ rest \subseteq FalseLits
            /\ ConflictFound(c)
      /\ UNCHANGED <<solver, formula, loaded, trailLim, qhead, caller, analyzed, counters>>

-----------------------------------------------------------------------------
(* Conflicts                                                               *)

\* The pairs of literals of the highest levels that have most in common with those
\* watched now.
HighestPairs(c) ==
  LET now == {order[c][1], order[c][2]}
      Others(p) == c.lits \ p
      highest == {p \in {{a, b} : a, b \in c.lits} :
                    /\ Cardinality(p) = 2
                    /\ \A l \in p, k \in Others(p) : LevelOf(k) <= LevelOf(l)}
  IN  {Sorted(p) : p \in {q \in highest : \A r \in highest :
                            Cardinality(r \cap now) <= Cardinality(q \cap now)}}

\* one_literal_on_conflict_level, and what kissat_analyze does next.  The level of
\* the conflict may be below that of the search.  If only one literal is on it, the
\* clause makes this one true a level below.
FindConflictLevel ==
  /\ pc = "conflict"
  /\ LET level == HighestLevel(conflict.lits)
         highest == OnLevel(conflict.lits, level)
     IN  \/ /\ level = 0
            /\ conflict' = NoReason
            /\ pc' = "unsat"
            /\ UNCHANGED <<order, trailVars, analyzed>>
         \/ /\ level > 0
            /\ \E watched \in HighestPairs(conflict) : order' = Attached(conflict, watched)
            /\ \/ \E lit \in highest :
                    /\ highest = {lit}
                    /\ Backtrack(level - 1, <<Forced(lit, conflict)>>)
                    /\ conflict' = NoReason
                    /\ pc' = "top"
                    /\ UNCHANGED analyzed
               \/ /\ Cardinality(highest) > 1
                  /\ Backtrack(level, << >>)
                  /\ analyzed' = NonRoot(conflict.lits)
                  /\ pc' = IF level = 1 THEN "failed" ELSE "analyze"
                  /\ UNCHANGED conflict
  /\ UNCHANGED <<solver, formula, loaded, visiting, caller, counters>>

\* The literals, above level 0, that a literal is false because of.
Because(lit) == NonRoot(Entry(lit).reason.lits \ {-lit})

Resolvent(lits, lit) == (lits \ {lit}) \cup Because(lit)

\* The literals seen while those analyzed are resolved, back to the failed one.
SeenFrom(failed) ==
  LET seen[n \in 0 .. Len(trail)] ==
        IF n = 0 THEN analyzed
        ELSE LET before == seen[n - 1]
             IN  IF -failed \in before THEN before ELSE Resolvent(before, Latest(before))
  IN  seen

\* analyze_failed_literal: all literals of level 1 that alone imply the conflict are
\* false, back to the decision.
AnalyzeFailedLiteral ==
  /\ pc = "failed"
  /\ LET failed == trail[trailLim[1] + 1].lit
         seen == SeenFrom(failed)
         alone == {l \in Literal : \E n \in 0 .. Len(trail) : seen[n] = {l}}
         units == SetToSeq(alone \cup {-failed})
     IN  Backtrack(0, [i \in DOMAIN units |-> Assign(units[i], 0, NoReason)])
  /\ conflict' = NoReason
  /\ analyzed' = {}
  /\ conflicted' = TRUE
  /\ pc' = "top"
  /\ UNCHANGED <<clauseVars, visiting, caller, imports, reductions>>

-----------------------------------------------------------------------------
(* kissat_deduce_first_uip_clause                                          *)

\* The literal to be resolved next, and its reason.
NextResolved == Latest(OnLevel(analyzed, Level))

Unresolved == Cardinality(OnLevel(analyzed, Level)) > 1

\* The resolvent is its reason without the literal.
Strengthens(lit) ==
  LET antecedent == NonRoot(Entry(lit).reason.lits)
  IN  /\ Cardinality(antecedent) > 2
      /\ Cardinality(Resolvent(analyzed, lit)) < Cardinality(antecedent)

DeduceResolve ==
  /\ pc = "analyze"
  /\ Unresolved /\ ~Strengthens(NextResolved)
  /\ analyzed' = Resolvent(analyzed, NextResolved)
  /\ UNCHANGED <<clauseVars, trailVars, visiting, caller, conflict, counters, pc>>

\* kissat_on_the_fly_strengthen: the literal is removed from its reason c, which is
\* the next conflict.  Literals of level 0 go too, but not from a long clause if
\* they are watched.
Strengthened(c, lit) ==
  LET kept == {order[c][1], order[c][2]} \ {-lit}
      lits == IF Cardinality(NonRoot(c.lits)) = 3 THEN NonRoot(c.lits) \ {-lit}
              ELSE kept \cup (NonRoot(c.lits) \ {-lit})
  IN  Clause(lits, c.learnt)

\* The other watched literal stays, the second one is of the highest level.
StrengthenedPairs(c, d) ==
  {Watched(p[1], p[2]) :
     p \in {q \in d.lits \X d.lits :
       /\ q[1] # q[2]
       /\ Cardinality(d.lits) > 2 =>
            /\ q[1] \in {order[c][1], order[c][2]}
            /\ \A l \in d.lits \ {q[1]} : LevelOf(l) <= LevelOf(q[2])}}

\* kissat_on_the_fly_subsume: the first resolvent subsumes the conflict, which is
\* removed; what is left in its stead must not be deleted if it could not be.
OnTheFlyStrengthen ==
  /\ pc = "analyze"
  /\ Unresolved /\ Strengthens(NextResolved)
  /\ LET lit == NextResolved
         c == Entry(lit).reason
         strong == Strengthened(c, lit)
         subsumes == /\ analyzed = NonRoot(conflict.lits)
                     /\ Cardinality(Resolvent(analyzed, lit)) < Cardinality(analyzed)
         new == IF subsumes THEN [strong EXCEPT !.learnt = @ /\ conflict.learnt] ELSE strong
         gone == {c} \cup (IF subsumes THEN {conflict} ELSE {})
     IN  /\ \E pair \in StrengthenedPairs(c, strong) :
              order' = [d \in (DOMAIN order \ gone) \cup {new} |->
                          IF d = new THEN pair ELSE order[d]]
         /\ conflict' = new
  /\ analyzed' = {}
  /\ pc' = "conflict"
  /\ UNCHANGED <<solver, formula, loaded, trailVars, visiting, caller, counters>>

-----------------------------------------------------------------------------
(* Shrinking and learning                                                  *)

\* minimize_literal: the literals that are false because the given ones are, by the
\* reasons of literals that are among them.
ImpliedBy(removable) ==
  LET inferred == {l \in FalseLits : ~Root(l) /\ Entry(l).reason # NoReason}
      Closed(s) == \A l \in s : Because(l) \subseteq removable \cup s
  IN  removable \cup UNION {s \in SUBSET inferred : Closed(s)}

\* Mutant: literals of lower levels are not looked at.
BlockAnyLower(block, level, removable) ==
  LET set[n \in 0 .. Len(trail)] ==
        IF n = 0 THEN block
        ELSE LET before == set[n - 1]
                 latest == Latest(before)
             IN  IF Cardinality(before) < 2 THEN before
                 ELSE (before \ {latest}) \cup OnLevel(Because(latest), level)
  IN  set

\* One literal of a block is replaced by its reason; the others in it must be implied.
\* No literal is left if one is not.
ShrunkBy(before, level, removable) ==
  LET latest == Latest(before)
  IN  IF Cardinality(before) < 2 THEN before
      ELSE IF {l \in Because(latest) : LevelOf(l) < level} \subseteq ImpliedBy(removable)
      THEN (before \ {latest}) \cup OnLevel(Because(latest), level)
      ELSE {}

\* shrink_block: the literals of one level are replaced by their reasons until a
\* single one is left.
Block(block, level, removable) ==
  LET set[n \in 0 .. Len(trail)] ==
        IF n = 0 THEN block ELSE ShrunkBy(set[n - 1], level, removable)
  IN  set

\* shrink_literals, minimize_block: a level that does not shrink to one literal is
\* minimized.
ShrunkenLevel(before, k) ==
  LET block == OnLevel(before.lits, k)
      set == Block(block, k, before.removable)
      last == set[Len(trail)]
      redundant == {l \in block : /\ Entry(l).reason # NoReason
                                  /\ Because(l) \subseteq ImpliedBy(before.removable)}
  IN  IF Cardinality(block) < 2 THEN before
      ELSE IF last # {}
      THEN [lits |-> (before.lits \ block) \cup last,
            removable |-> before.removable \cup UNION {set[n] : n \in 0 .. Len(trail)}]
      ELSE [before EXCEPT !.lits = @ \ redundant]

\* kissat_shrink_clause, the levels in ascending order.
Shrunken(clause) ==
  LET state[k \in 0 .. Level] ==
        IF k = 0 THEN [lits |-> clause, removable |-> clause]
        ELSE ShrunkenLevel(state[k - 1], k)
  IN  state[Level].lits

\* determine_new_level: back by one level only if more than chronolevels are jumped
\* over; that may be any number here.
NewLevels(jump) == {jump, Level - 1}

\* kissat_eager_subsume: clauses learnt of late that the new one subsumes.
EagerlySubsumed(new) ==
  SUBSET {c \in DOMAIN order : c.learnt /\ Cardinality(c.lits) > 2
                               /\ new \subseteq c.lits /\ c.lits # new}

\* kissat_learn_clause.  A unit is true at level 0, also if the search does not go
\* back so far.
LearnClause ==
  /\ pc = "analyze" /\ ~Unresolved
  /\ \E lit \in OnLevel(analyzed, Level) :
       LET lits == Shrunken(analyzed)
           others == lits \ {lit}
           c == Clause(lits, TRUE)
       IN  \/ /\ others = {}
              /\ \E level \in NewLevels(0) :
                   Backtrack(level, <<Assign(lit, 0, NoReason)>>)
              /\ UNCHANGED order
           \/ /\ others # {}
              /\ \E level \in NewLevels(HighestLevel(others)) :
                   Backtrack(level, <<Forced(lit, c)>>)
              /\ \E second \in OnLevel(others, HighestLevel(others)),
                    gone \in EagerlySubsumed(lits) :
                   order' = [d \in (DOMAIN order \ gone) \cup {c} |->
                               IF d = c THEN Watched(lit, second) ELSE order[d]]
  /\ conflict' = NoReason
  /\ analyzed' = {}
  /\ conflicted' = TRUE
  /\ pc' = "top"
  /\ UNCHANGED <<solver, formula, loaded, visiting, caller, imports, reductions>>

-----------------------------------------------------------------------------
(* No conflict: reduce or restart                                          *)

Undecided == pc = "decide" /\ \E lit \in Searched : ~Assigned(lit)

\* smallest_out_of_order_trail_level, Level if there is none.
SmallestOutOfOrder ==
  LET levels == {trail[i].level : i \in {j \in DOMAIN trail :
                   \E k \in 1 .. j - 1 : trail[j].level < trail[k].level}}
  IN  IF levels = {} THEN Level ELSE CHOOSE k \in levels : \A l \in levels : k <= l

\* kissat_restart: scores say how much of the trail would come back as it is.
RestartReusingTrail ==
  /\ Undecided /\ Level > 0 /\ conflicted
  /\ \E level \in 0 .. SmallestOutOfOrder : Backtrack(level, << >>)
  /\ conflicted' = FALSE
  /\ pc' = "top"
  /\ UNCHANGED <<clauseVars, visiting, caller, analysis, imports, reductions>>

\* kissat_reducing.
Reducing == reductions < MaxReductions /\ \E c \in DOMAIN order : c.learnt

\* Literals of level 0 that have not been taken off the trail.
Unflushed == Level > 0 /\ \E i \in trailLim[1] + 1 .. Len(trail) : trail[i].level = 0

\* kissat_restart_and_flush_trail.
FlushTrail ==
  /\ Undecided /\ Unflushed /\ Reducing
  /\ Backtrack(0, << >>)
  /\ caller' = "reduce"
  /\ pc' = "propagate"
  /\ UNCHANGED <<clauseVars, visiting, analysis, counters>>

\* kissat_sort_literals: open literals come first, then true ones of low levels, then
\* false ones of high levels; as second one a true literal is as good as an open one.
\* Those that are watched stay if there are no better ones.
SortedPair(lits, watched) ==
  LET open == {l \in lits : ~Assigned(l)}
      Best(choice, free) ==
        LET true == choice \cap TrueLits
        IN  IF free # {} THEN free
            ELSE IF true # {} THEN {l \in true : \A k \in true : LevelOf(l) <= LevelOf(k)}
            ELSE OnLevel(choice, HighestLevel(choice))
      First(best) ==
        LET stay == best \cap watched
        IN  IF stay # {} THEN Min(stay) ELSE Min(best)
      first == First(Best(lits, open))
      rest == lits \ {first}
  IN  Watched(first, First(Best(rest, rest \cap (open \cup TrueLits))))

RootTrue == {trail[i].lit : i \in {j \in DOMAIN trail : trail[j].level = 0}}

\* sparse_sweep_garbage_clauses: literals false at level 0 are left out.
Swept(c) == Clause(c.lits \ Complement(RootTrue), c.learnt)

\* kissat_reduce, kissat_sparse_collect.  Clauses that can be deleted are long, and
\* not reasons.  Clauses that are true at level 0 go too.  The irredundant clauses come
\* before the others in memory, and are only looked at when all is compacted.
ReduceRedundant ==
  /\ \/ Undecided /\ ~Unflushed /\ Reducing
     \/ pc = "reduce"
  /\ LET reasons == {trail[i].reason : i \in DOMAIN trail}
         long == {c \in DOMAIN order : Cardinality(c.lits) > 2}
         learnt == {c \in long : c.learnt}
         true == {c \in DOMAIN order : c.lits \cap RootTrue # {}}
     IN  \E gone \in SUBSET (learnt \ reasons), seen \in {learnt, long} :
           LET kept == DOMAIN order \ (gone \cup (true \ (long \ seen)))
               New(c) == IF c \in seen THEN Swept(c) ELSE c
               Pair(c) == IF c \in seen
                          THEN SortedPair(New(c).lits, {order[c][1], order[c][2]})
                          ELSE order[c]
           IN  \/ /\ learnt \subseteq reasons /\ seen = learnt
                  /\ UNCHANGED <<order, trail>>
               \/ /\ ~(learnt \subseteq reasons /\ seen = learnt)
                  /\ order' = [d \in {New(c) : c \in kept} |->
                                 Pair(CHOOSE c \in kept : New(c) = d)]
                  /\ trail' = [i \in DOMAIN trail |-> [trail[i] EXCEPT !.reason = New(@)]]
  /\ reductions' = reductions + 1
  /\ pc' = "top"
  /\ UNCHANGED <<solver, formula, loaded, trailLim, qhead, visiting, caller, analysis,
                 conflicted, imports>>

KissatNext ==
  \/ ForcedRestart \/ LeaveSearch
  \/ \E c \in visiting : PropagateClause(c)
  \/ FindConflictLevel \/ AnalyzeFailedLiteral
  \/ DeduceResolve \/ OnTheFlyStrengthen \/ LearnClause
  \/ RestartReusingTrail \/ FlushTrail \/ ReduceRedundant
=================================================================================
