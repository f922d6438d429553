------------------------------ MODULE Preprocessing ------------------------------
(***************************************************************************)
(* What the solvers of the MiniSat family do with the formula before their *)
(* search, if --ms-simp, --gl-simp or --mc-simp is given: SimpSolver       *)
(* subsumes, strengthens and eliminates by turns, and that of MapleCOMSPS  *)
(* also looks for exclusive ors and solves them as linear equations.       *)
(***************************************************************************)
EXTENDS SimplificationState, Gates

-----------------------------------------------------------------------------
(* Exclusive ors, of MapleCOMSPS                                           *)

\* The sum of the variables, modulo 2, is 1 if rhs is TRUE.
Xor(vs, rhs) == [vars |-> vs, rhs |-> rhs]

\* The clauses over all of its variables that say so: an even number of negations
\* excludes the sum 0.
ClausesOf(x) ==
  {c \in Clauses : /\ {Var(l) : l \in c} = x.vars
                   /\ x.rhs <=> Cardinality({l \in c : l < 0}) % 2 = 0}

\* searchXors: all clauses of an exclusive or of 3 to 6 variables are there.
Xors(cs) ==
  {x \in {Xor(vs, rhs) : vs \in SUBSET (1 .. NumVars), rhs \in BOOLEAN} :
     Cardinality(x.vars) \in 3 .. 6 /\ ClausesOf(x) \subseteq cs}

\* computeVarSccs, computeXorSccs: those connected by common variables.
Components(xs) ==
  LET Closed(s) == \A x \in s, y \in xs \ s : x.vars \cap y.vars = {}
  IN  {s \in SUBSET xs \ {{}} : Closed(s) /\ \A t \in SUBSET s \ {{}} : Closed(t) => t = s}

Sum(xs) ==
  Xor({v \in 1 .. NumVars : Cardinality({x \in xs : v \in x.vars}) % 2 = 1},
      Cardinality({x \in xs : x.rhs}) % 2 = 1)

\* mzd_echelonize: of the sums that begin with the same variable, the one that
\* contains no other variable with which a sum begins.
Echelon(xs) ==
  LET sums == {Sum(s) : s \in SUBSET xs}
      leading == {Min(x.vars) : x \in {y \in sums : y.vars # {}}}
  IN  {x \in sums : x.vars # {} /\ x.vars \cap leading = {Min(x.vars)}}

\* performGaussElim: an equation of one or two variables becomes clauses, and without
\* variables a contradiction.  A unit is enqueued whatever the value of its variable.
GaussElim ==
  LET xs == Xors(irredundant)
      systems == {s \in Components(xs) : Cardinality(s) > 1}
      equations == UNION {Echelon(s) : s \in systems}
      clauses == UNION {ClausesOf(x) : x \in {y \in equations : Cardinality(y.vars) <= 2}}
      units == UNION {c \in clauses : Cardinality(c) = 1}
  IN  /\ xorsFound' = (xs # {})
      /\ \/ /\ \E s \in systems : \E t \in SUBSET s : Sum(t) = Xor({}, TRUE)
            /\ ok' = FALSE
            /\ UNCHANGED clauseVars
         \/ /\ \A s \in systems : \A t \in SUBSET s : Sum(t) # Xor({}, TRUE)
            /\ Settle(irredundant \cup clauses, redundant,
                      (fixed \ Complement(units)) \cup units)

FirstGaussElim ==
  /\ pc = "gauss" /\ ok
  /\ GaussElim
  /\ pc' = "subsume"
  /\ last' = {}
  /\ UNCHANGED <<inputVars, stackVars, round>>

-----------------------------------------------------------------------------
(* backwardSubsumptionCheck, which goes on until it finds nothing          *)

BackwardSubsume ==
  /\ pc = "subsume" /\ ok
  /\ \E c \in irredundant :
       /\ Subsumed(c, irredundant)
       /\ irredundant' = irredundant \ {c}
  /\ last' = {}
  /\ UNCHANGED <<inputVars, redundant, fixed, stackVars, ok, phaseVars>>

StrengthenClause ==
  /\ pc = "subsume" /\ ok
  /\ \E c, d \in irredundant : \E l \in Removable(c, d) :
       Settle((irredundant \ {c}) \cup {c \ {l}}, redundant, fixed)
  /\ last' = {}
  /\ UNCHANGED <<inputVars, stackVars, phaseVars>>

EndSubsumption ==
  /\ pc = "subsume" /\ ok
  /\ \A c, d \in irredundant : ~Subsumed(c, {d}) /\ Removable(c, d) = {}
  /\ pc' = "eliminate"
  /\ last' = {}
  /\ UNCHANGED <<inputVars, clauseVars, stackVars, ok, xorsFound, round>>

-----------------------------------------------------------------------------
(* Elimination of variables                                                *)

\* The literal of a variable whose clauses are kept for the model.
KeptLit(v) ==
  IF Cardinality(Occurring(irredundant, v)) > Cardinality(Occurring(irredundant, -v))
  THEN -v ELSE v

\* Not more clauses come than go.  In its later rounds MapleCOMSPS allows more.
FewResolvents(v) ==
  \/ round = 1
  \/ Cardinality({p \in Occurring(irredundant, v) \X Occurring(irredundant, -v) :
                    (p[1] \ {v}) \cup (p[2] \ {-v}) \in Clauses})
       <= Cardinality(Occurring(irredundant, v) \cup Occurring(irredundant, -v))

\* mkElimClause: the clause, with the literal that may be made true.
ElimClause(lit, c) == [witness |-> lit, clause |-> c]

\* All clauses with the literal, and its complement in case they are all true.
ElimClauses(lit) ==
  LET cs == InSomeOrder(Occurring(irredundant, lit))
  IN  Append([i \in DOMAIN cs |-> ElimClause(lit, cs[i])], ElimClause(-lit, {-lit}))

\* eliminateVar.
EliminateVar(v) ==
  /\ pc = "eliminate" /\ ok
  /\ Active(v) /\ FewResolvents(v)
  /\ Settle(Without(irredundant, {v}) \cup Resolvents(irredundant, v, NoGate),
            redundant, fixed)
  /\ eliminated' = Append(eliminated, v)
  /\ extension' = extension \o ElimClauses(KeptLit(v))
  /\ pc' = "subsume"
  /\ last' = {}
  /\ UNCHANGED <<inputVars, xorsFound, round>>

\* No variable is left that the limits allow, or the solver is interrupted.
\* MapleCOMSPS goes on to its second chance.
EndElimination ==
  /\ pc = "eliminate" /\ ok
  /\ pc' = IF solver = "MapleCOMSPS" /\ round = 0 THEN "chance" ELSE "search"
  /\ last' = {}
  /\ UNCHANGED <<inputVars, clauseVars, stackVars, ok, xorsFound, round>>

\* xors_found belongs to all threads: when another one has found exclusive ors at its
\* second chance, this one no longer looks for any.  The size of the formula decides
\* whether elimination goes on with a higher limit.
SecondChance ==
  /\ pc = "chance" /\ ok
  /\ \/ ~xorsFound /\ GaussElim
     \/ /\ xorsFound \/ Xors(irredundant) # {}
        /\ UNCHANGED <<clauseVars, ok, xorsFound>>
  /\ round' = 1
  /\ pc' \in {"subsume", "search"}
  /\ last' = {}
  /\ UNCHANGED <<inputVars, stackVars>>

PreprocessingNext ==
  \/ FirstGaussElim
  \/ BackwardSubsume \/ StrengthenClause \/ EndSubsumption
  \/ \E v \in 1 .. NumVars : EliminateVar(v)
  \/ EndElimination
  \/ SecondChance

-----------------------------------------------------------------------------
(* Reconstruction of a model                                               *)

\* extendModel: the clauses are read from the last to the first, and one whose other
\* literals are all false makes its first literal true, whatever the search said.
ExtendedModel(stack, true) ==
  LET after[n \in 0 .. Len(stack)] ==
        IF n = 0 THEN true
        ELSE LET lits == after[n - 1]
                 e == stack[Len(stack) - n + 1]
             IN  IF e.clause \ {e.witness} \subseteq Complement(lits)
                 THEN (lits \ {-e.witness}) \cup {e.witness} ELSE lits
  IN  after[Len(stack)]
================================================================================
