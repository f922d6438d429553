----------------------------- MODULE Simplification -----------------------------
(***************************************************************************)
(* What Kissat does with its clauses at level 0, between two runs of its   *)
(* search: elimination of variables, subsumption, substitution of          *)
(* equivalent literals, ternary resolution, vivification, probing,         *)
(* transitive reduction and autarkies.  Scores, limits and delays decide   *)
(* which of these comes when, and how far it goes; here any of them may    *)
(* come next, and the clauses of other threads in between.                 *)
(***************************************************************************)
EXTENDS SimplificationState, Gates, Extension

\* Kissat is at level 0.
AtRoot == solver = "Kissat" /\ pc = "search" /\ ok

\* kissat_learned_unit, and the propagation that follows.
LearnUnit(lit) == Settle(irredundant, redundant, fixed \cup {lit})

\* Propagation of the literals leads to a conflict.
Conflicting(cs, lits) == Falsified(cs, Propagated(cs, lits))

Binaries(cs) == {c \in cs : Cardinality(c) = 2}

\* All literals that follow by propagation along binary clauses alone.
BinaryPropagated(cs, lits) == Propagated(Binaries(cs), lits)

-----------------------------------------------------------------------------
(* Elimination of variables                                                *)

\* The literal of a variable with fewer occurrences.
Rarer(v) ==
  IF Cardinality(Occurring(irredundant, v)) > Cardinality(Occurring(irredundant, -v))
  THEN -v ELSE v

GatesOf(lit) ==
  LET found == FoundGates(irredundant, lit)
  IN  IF Occurring(irredundant, -lit) = {} \/ found = {} THEN {NoGate} ELSE found

\* kissat_forward_subsume_temporary: resolvents that a clause subsumes are not added.
Added(resolvents, cs) ==
  {c \in resolvents : c \notin cs /\ ~Subsumed(c, cs \cup resolvents)}

\* kissat_backward_subsume_temporary: new clauses subsume or strengthen the others.
Reduced(cs, new) ==
  {IF \E d \in new : Removable(c, d) # {}
   THEN c \ {CHOOSE l \in c : \E d \in new : l \in Removable(c, d)} ELSE c :
     c \in {d \in cs : ~Subsumed(d, new)}}

\* weaken_clauses: all clauses with lit, and -lit itself for those with -lit.
WeakenClauses(lit) ==
  LET cs == InSomeOrder(Occurring(irredundant, lit))
      clauses == [i \in DOMAIN cs |-> Weakened(lit, cs[i], FalseLits)]
  IN  IF Occurring(irredundant, -lit) = {} THEN clauses
      ELSE Append(clauses, Weakened(-lit, {-lit}, FalseLits))

\* eliminate_variable: the clauses with the variable are replaced by resolvents;
\* how far these reduce other clauses depends on limits.  Redundant clauses with
\* it are removed by kissat_resume_sparse_mode.
Eliminate(v) ==
  LET lit == Rarer(v)
      rest == Without(irredundant, {v})
  IN  /\ AtRoot /\ Active(v)
      /\ \E gate \in GatesOf(lit) :
           LET new == Added(Resolvents(irredundant, lit, gate), rest)
           IN  \E irr \in {rest \cup new, Reduced(rest \cup new, new)} :
                 Settle(irr, Without(redundant, {v}), fixed)
      /\ eliminated' = Append(eliminated, v)
      /\ extension' = extension \o WeakenClauses(lit)
      /\ last' = {}
      /\ UNCHANGED <<inputVars, phaseVars>>

\* generate_resolvents learns a unit at once; then there may be too many resolvents.
LearnUnitResolvent(v) ==
  LET lit == Rarer(v)
  IN  /\ AtRoot /\ Active(v)
      /\ \E gate \in GatesOf(lit) : \E c \in Resolvents(irredundant, lit, gate) :
           \E unit \in c : c = {unit} /\ LearnUnit(unit)
      /\ last' = {}
      /\ UNCHANGED <<inputVars, stackVars, phaseVars>>

\* kissat_find_definition: a core with clauses on one side only is a unit.
LearnDefinedUnit(lit) ==
  /\ AtRoot /\ Active(lit)
  /\ \E core \in Cores(irredundant, lit) :
       core = Occurring(core, lit) /\ LearnUnit(lit)
  /\ last' = {}
  /\ UNCHANGED <<inputVars, stackVars, phaseVars>>

-----------------------------------------------------------------------------
(* Forward subsumption, of irredundant clauses only                        *)

\* remove_all_duplicated_binary_clauses.
ResolveBinaries(lit) ==
  /\ AtRoot /\ Active(lit)
  /\ \E other \in Literal : {{lit, other}, {lit, -other}} \subseteq irredundant
  /\ LearnUnit(lit)
  /\ last' = {}
  /\ UNCHANGED <<inputVars, stackVars, phaseVars>>

Subsume ==
  /\ AtRoot
  /\ \E c \in irredundant :
       /\ Subsumed(c, irredundant)
       /\ irredundant' = irredundant \ {c}
  /\ last' = {}
  /\ UNCHANGED <<inputVars, redundant, fixed, stackVars, ok, phaseVars>>

Strengthen ==
  /\ AtRoot
  /\ \E c, d \in irredundant : \E l \in Removable(c, d) :
       Settle((irredundant \ {c}) \cup {c \ {l}}, redundant, fixed)
  /\ last' = {}
  /\ UNCHANGED <<inputVars, stackVars, phaseVars>>

-----------------------------------------------------------------------------
(* Substitution of equivalent literals                                     *)

\* The literals that follow from lit by binary clauses.
Reached(lit) ==
  LET binaries == Binaries(irredundant \cup redundant)
      after[n \in 0 .. 2 * NumVars] ==
        IF n = 0 THEN {lit}
        ELSE LET before == after[n - 1]
             IN  before \cup {l \in Literal : \E k \in before : {-k, l} \in binaries}
  IN  after[2 * NumVars]

\* determine_representatives: the smallest of the literals equivalent to lit.
Representative(lit) ==
  LET same == {l \in Reached(lit) : lit \in Reached(l)}
  IN  CHOOSE l \in same : \A k \in same : Var(l) <= Var(k)

FailedRoots == {l \in Literal : Active(l) /\ \E k \in Reached(l) : -k \in Reached(l)}

\* substitute_binaries: two literals may become the same, and the clause a unit.
SubstitutedLits(c) == {Representative(l) : l \in c}

\* substitute_clauses: clauses with two complementary literals are dropped.
Substituted(cs) == {SubstitutedLits(c) : c \in cs} \cap Clauses

\* remove_representative_equivalences: lit, a variable, is replaced by other.
WeakenEquivalence(lit, other, lits) ==
  IF other \in lits THEN <<Weakened(lit, {lit}, {})>>
  ELSE IF -other \in lits THEN <<Weakened(-lit, {-lit}, {})>>
  ELSE <<Weakened(-lit, {-lit, other}, {}), Weakened(lit, {lit}, {})>>

\* substitute_round.  A literal equivalent to its complement is a conflict.  Of the
\* literals that fail on binary clauses some are found, and propagated first.
SubstituteRound ==
  LET irr == Substituted(irredundant)
      red == Substituted(redundant)
      lits == Propagated(irr \cup red, fixed)
      replaced == Increasing({v \in 1 .. NumVars : Active(v) /\ Representative(v) # v})
  IN  /\ AtRoot
      /\ \/ /\ \E l \in FailedRoots : -l \in Reached(l) /\ l \in Reached(-l)
            /\ ok' = FALSE
            /\ UNCHANGED <<clauseVars, stackVars>>
         \/ /\ \E l \in FailedRoots : LearnUnit(-l)
            /\ UNCHANGED stackVars
         \/ /\ \A l \in FailedRoots : -l \notin Reached(l) \/ l \notin Reached(-l)
            /\ replaced # << >>
            /\ Settle(irr, red, fixed)
            /\ eliminated' = eliminated \o replaced
            /\ extension' = extension \o FlattenSeq(
                 [i \in DOMAIN replaced |->
                    WeakenEquivalence(replaced[i], Representative(replaced[i]), lits)])
      /\ last' = {}
      /\ UNCHANGED <<inputVars, phaseVars>>

-----------------------------------------------------------------------------
(* Ternary resolution                                                      *)

\* find_binary, find_ternary: there is such a clause, or one that subsumes it.
Found(c, cs) == \E d \in cs : d \subseteq c

\* ternary_resolution: a binary resolvent may be deleted if both clauses may be.
RedundantIfBoth(c, d) == {c, d} \subseteq redundant

\* A resolvent of three literals is redundant; one of two replaces both clauses.
ResolveTernary ==
  LET all == irredundant \cup redundant
  IN  /\ AtRoot
      /\ \E c, d \in {e \in all : Cardinality(e) = 3} : \E l \in c :
           LET new == (c \ {l}) \cup (d \ {-l})
           IN  /\ -l \in d /\ new \in Clauses
               /\ \/ /\ Cardinality(new) = 3 /\ ~Found(new, all)
                     /\ Settle(irredundant, redundant \cup {new}, fixed)
                  \/ /\ Cardinality(new) = 2 /\ RedundantIfBoth(c, d)
                     /\ Settle(irredundant, (redundant \ {c, d}) \cup
                                 (IF Found(new, all) THEN {} ELSE {new}), fixed)
                  \/ /\ Cardinality(new) = 2 /\ ~RedundantIfBoth(c, d)
                     /\ Settle((irredundant \ {c, d}) \cup {new}, redundant \ {c, d}, fixed)
      /\ last' = {}
      /\ UNCHANGED <<inputVars, stackVars, phaseVars>>

-----------------------------------------------------------------------------
(* Vivification: the literals of a clause are made false one by one        *)

\* vivify_analyze: the other clauses imply the literals as a clause; a literal of
\* the clause that becomes true is a conflict too, and kept.
Refuted(lits, others) == Conflicting(others, fixed \cup Complement(lits))

\* vivify_clause: what can be kept of a clause.  Making the kept literals false
\* leads to a conflict or makes all others false.
Kept(c, others) ==
  {kept \in SUBSET c \ {{}, c} :
     \/ Refuted(kept, others)
     \/ c \ kept \subseteq Complement(Propagated(others, fixed \cup Complement(kept)))}

\* vivify_learn: the clause gets shorter, and stays what it was.
VivifyShorten ==
  LET all == irredundant \cup redundant
  IN  /\ AtRoot
      /\ \/ \E c \in irredundant : Cardinality(c) > 2 /\
              \E kept \in Kept(c, all \ {c}) :
                Settle((irredundant \ {c}) \cup {kept}, redundant, fixed)
         \/ \E c \in redundant : Cardinality(c) > 2 /\
              \E kept \in Kept(c, all \ {c}) :
                Settle(irredundant, (redundant \ {c}) \cup {kept}, fixed)
      /\ last' = {}
      /\ UNCHANGED <<inputVars, stackVars, phaseVars>>

\* Mutant: redundant clauses imply the clause.
VivifyRemoveByAny ==
  /\ AtRoot
  /\ \E c \in irredundant :
       /\ Cardinality(c) > 2
       /\ Refuted(c, (irredundant \cup redundant) \ {c})
       /\ irredundant' = irredundant \ {c}
  /\ last' = {}
  /\ UNCHANGED <<inputVars, redundant, fixed, stackVars, ok, phaseVars>>

\* vivify_learn: an irredundant clause that others imply is removed; all of these
\* must be irredundant.
VivifyRemove ==
  /\ AtRoot
  /\ \E c \in irredundant :
       /\ Cardinality(c) > 2
       /\ Refuted(c, irredundant \ {c})
       /\ irredundant' = irredundant \ {c}
  /\ last' = {}
  /\ UNCHANGED <<inputVars, redundant, fixed, stackVars, ok, phaseVars>>

-----------------------------------------------------------------------------
(* Probing                                                                 *)

\* probe_round: propagating lit fails.
FailedLiteral(lit) ==
  /\ AtRoot /\ Active(lit)
  /\ Conflicting(irredundant \cup redundant, fixed \cup {lit})
  /\ LearnUnit(-lit)
  /\ last' = {}
  /\ UNCHANGED <<inputVars, stackVars, phaseVars>>

\* compute_backbone: propagating lit fails on binary clauses alone.
Backbone(lit) ==
  /\ AtRoot /\ Active(lit)
  /\ Falsified(Binaries(irredundant \cup redundant),
               BinaryPropagated(irredundant \cup redundant, {lit}))
  /\ LearnUnit(-lit)
  /\ last' = {}
  /\ UNCHANGED <<inputVars, stackVars, phaseVars>>

\* kissat_find_dominator: by binary clauses dom makes all of a larger clause false
\* but lit.
Dominates(dom, lit, c) ==
  /\ Cardinality(c) > 2
  /\ lit \in c
  /\ c \ {lit} \subseteq Complement(BinaryPropagated(irredundant \cup redundant, {dom}))

\* kissat_hyper_propagate: a larger clause becomes a reason for lit, and a binary
\* clause with the dominator takes its place.
HyperBinary(dom, lit) ==
  LET all == irredundant \cup redundant
  IN  /\ AtRoot /\ Active(dom) /\ Active(lit)
      /\ \E c \in all : Dominates(dom, lit, c)
      /\ {-dom, lit} \in Clauses /\ ~Found({-dom, lit}, all)
      /\ Settle(irredundant, redundant \cup {{-dom, lit}}, fixed)
      /\ last' = {}
      /\ UNCHANGED <<inputVars, stackVars, phaseVars>>

\* The clauses a binary clause may be removed for.
TransitiveClauses(c) ==
  (IF c \in irredundant THEN irredundant ELSE irredundant \cup redundant) \ {c}

\* transitive_reduce: a binary clause that binary clauses imply is removed.
TransitiveReduce ==
  /\ AtRoot
  /\ \E c \in Binaries(irredundant \cup redundant) : \E l \in c :
       /\ c \ {l} \subseteq BinaryPropagated(TransitiveClauses(c), {-l})
       /\ irredundant' = irredundant \ {c}
       /\ redundant' = IF c \in irredundant THEN redundant ELSE redundant \ {c}
  /\ last' = {}
  /\ UNCHANGED <<inputVars, fixed, stackVars, ok, phaseVars>>

-----------------------------------------------------------------------------
(* Autarkies                                                               *)

\* Every clause that the literals touch is made true by them.
Autarkic(lits) ==
  \A c \in irredundant : c \cap Complement(lits) # {} => c \cap lits # {}

\* determine_autarky: the largest one among the saved phases.
LargestAutarky(phases) == UNION {s \in SUBSET phases : Autarkic(s)}

\* autarky_literal, flush_large_connected_and_autarky_binaries.
Autarky ==
  /\ AtRoot
  /\ \E phases \in Assignment :
       LET lits == LargestAutarky({l \in phases : Active(l)})
           vs == Increasing({Var(l) : l \in lits})
           LitOf(v) == CHOOSE l \in lits : Var(l) = v
       IN  /\ lits # {}
           /\ irredundant' = Without(irredundant, ToSet(vs))
           /\ redundant' = Without(redundant, ToSet(vs))
           /\ eliminated' = eliminated \o vs
           /\ extension' = extension \o
                [i \in DOMAIN vs |-> Weakened(LitOf(vs[i]), {LitOf(vs[i])}, {})]
  /\ last' = {}
  /\ UNCHANGED <<inputVars, fixed, ok, phaseVars>>

KissatNext ==
  \/ \E v \in 1 .. NumVars : Eliminate(v) \/ LearnUnitResolvent(v)
  \/ \E lit \in Literal : \/ LearnDefinedUnit(lit) \/ ResolveBinaries(lit)
                          \/ FailedLiteral(lit) \/ Backbone(lit)
  \/ Subsume \/ Strengthen
  \/ SubstituteRound
  \/ ResolveTernary
  \/ VivifyShorten \/ VivifyRemove
  \/ \E dom, lit \in Literal : HyperBinary(dom, lit)
  \/ TransitiveReduce
  \/ Autarky
================================================================================
