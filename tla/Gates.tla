--------------------------------- MODULE Gates ---------------------------------
(***************************************************************************)
(* The gates Kissat looks for before it eliminates a variable: clauses     *)
(* that define a literal by others.  With a gate fewer resolvents are      *)
(* needed: those of a clause of the gate with another clause, and those    *)
(* of two clauses of the gate only if some of its clauses are stronger     *)
(* than the definition itself.                                             *)
(***************************************************************************)
EXTENDS Cnf, FiniteSets

\* The clauses of cs with a literal.
Occurring(cs, lit) == {c \in cs : lit \in c}

\* stronger: the clauses of the gate are to be resolved with each other too.
Gate(clauses, stronger) == [clauses |-> clauses, stronger |-> stronger]

\* lit is the same as r.
EquivalenceGates(cs, lit) ==
  {Gate({{lit, -r}, {-lit, r}}, FALSE) :
     r \in {l \in Literal : {lit, -l} \in cs /\ {-lit, l} \in cs}}

\* lit is true unless all of its inputs are: a clause with -lit, and a binary
\* clause for each of its other literals.
AndGates(cs, lit) ==
  {Gate({base} \cup {{lit, -other} : other \in base \ {-lit}}, FALSE) :
     base \in {c \in Occurring(cs, -lit) :
                 /\ Cardinality(c) > 2
                 /\ \A other \in c \ {-lit} : {lit, -other} \in cs}}

\* The clauses that are found when one looks for a clause c with lit: shorter ones
\* will do.
Matching(cs, lit, c) == {d \in Occurring(cs, lit) : d \subseteq c}

\* lit depends on the literal b: two clauses of three literals, one with b and one
\* with -b, and their counterparts with -lit.
IfThenElseGates(cs, lit) ==
  LET Ternary(b) == {c \in Occurring(cs, lit) : Cardinality(c) = 3 /\ b \in c}
      Counterpart(c, b) == {-lit, b} \cup Complement(c \ {lit, b})
      Completed(b, c, d) ==
        {Gate({c, d, e, f}, Cardinality(e) < 3 \/ Cardinality(f) < 3) :
           e \in Matching(cs, -lit, Counterpart(c, b)),
           f \in Matching(cs, -lit, Counterpart(d, -b))}
  IN  UNION {
        Completed(t[1], t[2], t[3]) :
          t \in {u \in Literal \X cs \X cs :
                  /\ u[2] \in Ternary(u[1]) /\ u[3] \in Ternary(-u[1])
                  /\ u[2] \ {lit, u[1]} # Complement(u[3] \ {lit, -u[1]})
                  /\ u[2] \ {lit, u[1]} # u[3] \ {lit, -u[1]}}}

\* The clauses that come from c by changing the signs of an even number of literals.
SameParity(c) ==
  {(c \ flipped) \cup Complement(flipped) :
     flipped \in {s \in SUBSET c : Cardinality(s) % 2 = 0}}

\* lit is the parity of the others: all of SameParity(base) or shorter ones.
XorGates(cs, lit) ==
  LET both == Occurring(cs, lit) \cup Occurring(cs, -lit)
      Large(l) == {c \in Occurring(cs, l) : Cardinality(c) > 2}
      Matched(c, g) == \E d \in g : d \subseteq c /\ (lit \in d <=> lit \in c)
  IN  IF Cardinality(Large(lit)) < 2 \/ Cardinality(Large(-lit)) < 2 THEN {}
      ELSE UNION {
        {Gate(g, \E d \in g : Cardinality(d) < Cardinality(base)) :
           g \in {s \in SUBSET {d \in both : \E c \in SameParity(base) : d \subseteq c} :
                    \A c \in SameParity(base) : Matched(c, s)}} :
        base \in Large(lit)}

\* Cores: the clauses of cs, without lit and -lit, that no assignment satisfies.
\* The solver kitten finds some of them.
Cores(cs, lit) ==
  {core \in SUBSET (Occurring(cs, lit) \cup Occurring(cs, -lit)) :
     ~\E a \in Assignment : Satisfies(a, {c \ {lit, -lit} : c \in core})}

\* A core with clauses on both sides is a definition of lit.
DefinitionGates(cs, lit) ==
  {Gate(core, TRUE) :
     core \in {k \in Cores(cs, lit) : \A l \in {lit, -lit} : Occurring(k, l) # {}}}

\* The first kind that is found is taken.
FoundGates(cs, lit) ==
  LET ands == IF AndGates(cs, lit) # {} THEN AndGates(cs, lit) ELSE AndGates(cs, -lit)
      ites == IF IfThenElseGates(cs, lit) # {} THEN IfThenElseGates(cs, lit)
              ELSE IfThenElseGates(cs, -lit)
      xors == IF XorGates(cs, lit) # {} THEN XorGates(cs, lit) ELSE XorGates(cs, -lit)
  IN  IF EquivalenceGates(cs, lit) # {} THEN EquivalenceGates(cs, lit)
      ELSE IF ands # {} THEN ands
      ELSE IF ites # {} THEN ites
      ELSE IF xors # {} THEN xors
      ELSE DefinitionGates(cs, lit)

\* The pairs of clauses that are resolved.
Pairs(cs, lit, gate) ==
  LET pos == Occurring(cs, lit)
      neg == Occurring(cs, -lit)
      inside == gate.clauses
  IN  {p \in pos \X neg : (p[1] \in inside /\ p[2] \in inside) => gate.stronger}
        \cap {p \in pos \X neg : inside # {} => p[1] \in inside \/ p[2] \in inside}

\* The resolvents of these pairs, tautologies left out.
Resolvents(cs, lit, gate) ==
  {(p[1] \ {lit}) \cup (p[2] \ {-lit}) : p \in Pairs(cs, lit, gate)} \cap Clauses

NoGate == Gate({}, TRUE)
================================================================================
