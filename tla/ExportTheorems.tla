---------------------------- MODULE ExportTheorems ----------------------------
(***************************************************************************)
(* Two facts about what a worker exports.  The limit on the LBD of         *)
(* exported clauses never excludes the glue clauses, however often the     *)
(* control of the exported literals lowers it.  And each accepted clause   *)
(* is exported at most once, the shortest and oldest ones first.           *)
(***************************************************************************)
EXTENDS ClauseExport, Induction

-----------------------------------------------------------------------------
(* The inductive invariant                                                 *)

\* A limit of Glucose, which keeps it in an integer.
Whole(limit) == \E n \in Nat : limit = n * Scale

\* The limit stays at 2 or above, if it began there.
LimitInv ==
  /\ base_solver \in BaseSolvers
  /\ exp_clause_lbd_lim \in Nat
  /\ base_solver = "glucose" => Whole(exp_clause_lbd_lim)
  /\ LBDLim >= 2 => exp_clause_lbd_lim >= 2 * Scale

-----------------------------------------------------------------------------
(* The operations on the limit                                             *)

\* incExpClauseGen never lowers the limit.
LEMMA IncreaseKeepsLimit ==
  ASSUME LimitInv
  PROVE  /\ IncExpClauseGen \in Nat
         /\ IncExpClauseGen >= exp_clause_lbd_lim
         /\ base_solver = "glucose" => Whole(IncExpClauseGen)
<1> DEFINE lim == exp_clause_lbd_lim
<1>1. CASE base_solver = "minisat"
  BY <1>1 DEF LimitInv, IncExpClauseGen
<1>2. CASE base_solver = "glucose"
  <2>1. PICK n \in Nat : lim = n * Scale  BY <1>2 DEF LimitInv, Whole
  <2>2. lim + Scale = (n + 1) * Scale  BY <2>1 DEF Scale
  <2>3. IncExpClauseGen = lim + Scale  BY <1>2 DEF IncExpClauseGen
  <2> QED  BY <1>2, <2>1, <2>2, <2>3 DEF LimitInv, Scale, Whole
<1>3. CASE base_solver \notin {"minisat", "glucose"}
  <2>1. IncExpClauseGen = IF lim \in {0, Infinity} THEN Infinity
                          ELSE lim + (Scale * Scale) \div lim
    BY <1>3 DEF IncExpClauseGen
  <2>2. CASE lim \in {0, Infinity}
    BY <1>3, <2>1, <2>2 DEF Infinity, Scale
  <2>3. CASE lim \notin {0, Infinity}
    <3>1. lim \in Nat \ {0}  BY <2>3 DEF LimitInv
    <3>2. (Scale * Scale) \div lim \in Nat  BY <3>1 DEF Scale
    <3> QED  BY <1>3, <2>1, <2>3, <3>1, <3>2
  <2> QED  BY <2>2, <2>3
<1> QED  BY <1>1, <1>2, <1>3

\* decExpClauseGen stops at 2.
LEMMA DecreaseKeepsLimit ==
  ASSUME LimitInv
  PROVE  /\ DecExpClauseGen \in Nat
         /\ LBDLim >= 2 => DecExpClauseGen >= 2 * Scale
         /\ base_solver = "glucose" => Whole(DecExpClauseGen)
<1> DEFINE lim == exp_clause_lbd_lim
<1>1. CASE base_solver = "minisat"
  <2>1. DecExpClauseGen = lim  BY <1>1 DEF DecExpClauseGen
  <2> QED  BY <2>1 DEF LimitInv
<1>2. CASE base_solver = "glucose"
  <2>1. PICK n \in Nat : lim = n * Scale  BY <1>2 DEF LimitInv, Whole
  <2>2. DecExpClauseGen = IF lim > 2 * Scale THEN lim - Scale ELSE lim
    BY <1>2 DEF DecExpClauseGen
  <2>3. CASE lim > 2 * Scale
    <3>1. n > 2  BY <2>1, <2>3 DEF Scale
    <3>2. lim - Scale = (n - 1) * Scale /\ n - 1 \in Nat  BY <2>1, <3>1 DEF Scale
    <3>3. lim - Scale >= 2 * Scale /\ lim - Scale \in Nat
      BY <3>1, <3>2 DEF Scale
    <3> QED  BY <2>2, <2>3, <3>2, <3>3 DEF Whole
  <2>4. CASE ~(lim > 2 * Scale)
    BY <1>2, <2>2, <2>4 DEF LimitInv
  <2> QED  BY <2>3, <2>4
<1>3. CASE base_solver \notin {"minisat", "glucose"}
  <2>1. DecExpClauseGen = IF lim = Infinity THEN Infinity
                          ELSE IF lim < 3 * Scale THEN 2 * Scale
                          ELSE lim - Scale
    BY <1>3 DEF DecExpClauseGen
  <2> QED  BY <1>3, <2>1 DEF LimitInv, Scale, Infinity
<1> QED  BY <1>1, <1>2, <1>3

-----------------------------------------------------------------------------
(* The steps                                                               *)

\* In the beginning the limit is the option's.
LEMMA InitLimit ==
  ASSUME Init
  PROVE  LimitInv
<1>1. LBDLim * Scale \in Nat /\ (LBDLim >= 2 => LBDLim * Scale >= 2 * Scale)
  BY ExportAssumption DEF Scale
<1>2. Whole(LBDLim * Scale)  BY ExportAssumption DEF Whole
<1> QED  BY <1>1, <1>2 DEF Init, LimitInv

\* A step that leaves the limit alone.
LEMMA KeepLimit ==
  ASSUME LimitInv, UNCHANGED <<base_solver, exp_clause_lbd_lim>>
  PROVE  LimitInv'
BY DEF LimitInv, Whole

\* The control of the literals changes the limit.
LEMMA AdjustStep ==
  ASSUME LimitInv, AdjustExpClauseGen, UNCHANGED base_solver
  PROVE  LimitInv'
<1>1. exp_clause_lbd_lim' \in
        {IncExpClauseGen, DecExpClauseGen, exp_clause_lbd_lim}
  BY DEF AdjustExpClauseGen
<1>2. /\ exp_clause_lbd_lim' \in Nat
      /\ LBDLim >= 2 => exp_clause_lbd_lim' >= 2 * Scale
      /\ base_solver = "glucose" => Whole(exp_clause_lbd_lim')
  <2>1. CASE exp_clause_lbd_lim' = IncExpClauseGen
    BY <2>1, IncreaseKeepsLimit DEF LimitInv, Scale
  <2>2. CASE exp_clause_lbd_lim' = DecExpClauseGen
    BY <2>2, DecreaseKeepsLimit
  <2>3. CASE exp_clause_lbd_lim' = exp_clause_lbd_lim
    BY <2>3 DEF LimitInv
  <2> QED  BY <1>1, <2>1, <2>2, <2>3
<1> QED  BY <1>2 DEF LimitInv, Whole

\* Every step keeps the limit in its bounds.
LEMMA LimitStep ==
  ASSUME LimitInv, [Next]_vars
  PROVE  LimitInv'
<1>1. CASE \E len \in Lengths, lbd \in LBDs : Learn(len, lbd)
  BY <1>1, KeepLimit DEF Learn, controlVars
<1>2. CASE LearnUnit  BY <1>2, KeepLimit DEF LearnUnit, controlVars
<1>3. CASE ExportSelectedClauses
  BY <1>3, KeepLimit, AdjustStep DEF ExportSelectedClauses, controlVars
<1>4. CASE UNCHANGED vars
  BY <1>4, KeepLimit DEF vars, exportVars, controlVars
<1> QED  BY <1>1, <1>2, <1>3, <1>4 DEF Next

-----------------------------------------------------------------------------
(* The theorems                                                            *)

\* exp_clause_lbd_lim keeps the lower bound that decExpClauseGen gives it.
THEOREM LimitInvariant == Spec => []LimitInv
<1>1. Init => LimitInv  BY InitLimit
<1>2. LimitInv /\ [Next]_vars => LimitInv'  BY LimitStep
<1> QED  BY <1>1, <1>2, PTL DEF Spec

\* With such a limit the test of the wrapper lets every glue clause pass.
LEMMA GlueClausePasses ==
  ASSUME LimitInv, LBDLim >= 2, base_solver \in {"glucose", "mcomsps"},
         NEW len, NEW lbd \in {1, 2}, NEW upper
  PROVE  ShouldBeExported(len, lbd, upper)
<1>1. lbd * Scale <= exp_clause_lbd_lim  BY DEF LimitInv, Scale
<1>2. ~(2 < lbd) /\ ~(exp_clause_lbd_lim < lbd * Scale)
  BY <1>1 DEF LimitInv, Scale
<1>3. GlucoseExports(len, lbd, upper)  BY <1>2 DEF GlucoseExports
<1> QED  BY <1>3 DEF ShouldBeExported

\* GlucoseWrapper.cpp:77: a glue clause is exported, whatever its length.
THEOREM GlueClausesAlwaysExported == Spec => GlueClausesExported
<1> DEFINE A == \A len \in Lengths, lbd \in LBDs \cap {1, 2} :
                  /\ base_solver \in {"glucose", "mcomsps"}
                  /\ LBDLim >= 2
                  /\ Learn(len, lbd)
                  => accepted' = accepted + 1
<1>1. LimitInv => A
  BY GlueClausePasses DEF Learn, Offer
<1>2. LimitInv => [A]_vars  BY <1>1
<1> QED  BY <1>2, LimitInvariant, PTL DEF GlueClausesExported

-----------------------------------------------------------------------------
(* The clauses in the buffer                                               *)

Clause == [id : Nat, len : Lengths]

Longest == Max(Lengths)

\* The lengths are bounded by the greatest one.
LEMMA LongestIs == Longest \in Nat /\ \A k \in Lengths : k \in 1 .. Longest
<1>5. Longest \in Lengths /\ \A k \in Lengths : Longest >= k
  BY BufferAssumption DEF Longest, Max
<1> QED  BY <1>5, BufferAssumption

\* g is Joined, which adds the queue of each key to those of the smaller keys.
IsJoined(g, queues, ks) ==
  /\ g \in [0 .. Longest -> Seq(Clause)]
  /\ \A k \in 0 .. Longest : Joined(queues, ks, k) = g[k]
  /\ g[0] = <<>>
  /\ \A k \in 1 .. Longest :
       g[k] = IF k \in ks THEN g[k - 1] \o queues[k] ELSE g[k - 1]

\* There is such a function.
LEMMA JoinedIs ==
  ASSUME NEW queues \in [Lengths -> Seq(Clause)], NEW ks \in SUBSET Lengths
  PROVE  \E g : IsJoined(g, queues, ks)
<1> DEFINE Body(g) == [k \in 0 .. Longest |->
                         IF k = 0 THEN <<>>
                         ELSE IF k \in ks THEN g[k - 1] \o queues[k]
                         ELSE g[k - 1]]
           D == [x \in Nat \X Seq(Clause) |->
                   IF x[1] \in ks THEN x[2] \o queues[x[1]] ELSE x[2]]
<1>1. D \in [Nat \X Seq(Clause) -> Seq(Clause)]
  <2> SUFFICES ASSUME NEW n \in Nat, NEW s \in Seq(Clause), n \in ks
               PROVE  s \o queues[n] \in Seq(Clause)
    OBVIOUS
  <2>1. queues[n] \in Seq(Clause)  OBVIOUS
  <2> QED  BY <2>1
<1>2. 0 \in Nat /\ Longest \in Nat /\ <<>> \in Seq(Clause)  BY LongestIs
<1>3. PICK h : IsRecursive(h, 0, Longest, Seq(Clause), <<>>, D)
  <2> HIDE DEF D
  <2> QED  BY <1>1, <1>2, Recursion
<1>4. h \in [0 .. Longest -> Seq(Clause)]  BY <1>3 DEF IsRecursive
<1>5. \A k \in 0 .. Longest :
        h[k] = IF k = 0 THEN <<>>
               ELSE IF k \in ks THEN h[k - 1] \o queues[k] ELSE h[k - 1]
  <2> SUFFICES ASSUME NEW k \in 0 .. Longest
               PROVE  h[k] = IF k = 0 THEN <<>>
                             ELSE IF k \in ks THEN h[k - 1] \o queues[k] ELSE h[k - 1]
    OBVIOUS
  <2>0. CASE k = 0  BY <1>3, <2>0 DEF IsRecursive
  <2>a. CASE k # 0
  <3>1. k \in Nat /\ k - 1 \in 0 .. Longest  BY <1>2, <2>a
  <3>2. h[k - 1] \in Seq(Clause)  BY <1>4, <3>1
  <3>3. h[k] = D[<<k, h[k - 1]>>]  BY <1>3, <2>a DEF IsRecursive
  <3>4. <<k, h[k - 1]>> \in Nat \X Seq(Clause)  BY <3>1, <3>2
  <3>5. D[<<k, h[k - 1]>>] = IF k \in ks THEN h[k - 1] \o queues[k] ELSE h[k - 1]
    BY <3>4
  <3> HIDE DEF D
  <3> QED  BY <2>a, <3>3, <3>5
  <2> QED  BY <2>0, <2>a
<1>6. h = Body(h)  BY <1>4, <1>5
<1> DEFINE F == CHOOSE g : g = Body(g)
<1>7. F = Body(F)
  <2>1. \E g : g = Body(g)  BY <1>6
  <2> HIDE DEF Body
  <2> QED  BY <2>1
<1>8. \A k : Joined(queues, ks, k) = F[k]  BY DEF Joined, Longest
<1> HIDE DEF F
<1>9. \A k \in 0 .. Longest :
        F[k] = IF k = 0 THEN <<>>
               ELSE IF k \in ks THEN F[k - 1] \o queues[k] ELSE F[k - 1]
  BY <1>7
<1> HIDE DEF Body
<1> DEFINE G == {k \in Nat : F[k] = h[k]}
<1>11. 0 .. Longest \subseteq G
  <2>1. 0 \in G  BY <1>2, <1>5, <1>9
  <2>2. ASSUME NEW n \in 0 + 1 .. Longest, n - 1 \in G
        PROVE  n \in G
    <3>1. n \in 0 .. Longest /\ n # 0 /\ n \in Nat  BY <1>2
    <3>2. F[n - 1] = h[n - 1]  BY <2>2
    <3>3. F[n] = h[n]  BY <1>5, <1>9, <3>1, <3>2
    <3> QED  BY <3>1, <3>3
  <2> HIDE DEF G
  <2> QED  BY <1>2, <2>1, <2>2, RangeInduction
<1>12. \A k \in 0 .. Longest : Joined(queues, ks, k) = h[k]  BY <1>8, <1>11
<1>13. \A k \in 1 .. Longest : k \in 0 .. Longest /\ k - 1 \in 0 .. Longest /\ k # 0
  BY <1>2
<1>14. 0 \in 0 .. Longest  BY <1>2
<1> QED  BY <1>4, <1>5, <1>12, <1>13, <1>14 DEF IsJoined

-----------------------------------------------------------------------------
(* The clauses that are added                                              *)

Ids(s) == {s[n].id : n \in 1 .. Len(s)}

\* The identifiers in a concatenation.
LEMMA JoinIds ==
  ASSUME NEW s \in Seq(Clause), NEW t \in Seq(Clause)
  PROVE  /\ s \o t \in Seq(Clause)
         /\ Len(s \o t) = Len(s) + Len(t)
         /\ Ids(s \o t) = Ids(s) \cup Ids(t)
<1>1. \A n \in 1 .. Len(s) : n \in 1 .. Len(s \o t) /\ (s \o t)[n] = s[n]
  OBVIOUS
<1>2. \A n \in 1 .. Len(t) :
        n + Len(s) \in 1 .. Len(s \o t) /\ (s \o t)[n + Len(s)] = t[n]
  OBVIOUS
<1>3. \A n \in 1 .. Len(s \o t) :
        n \in 1 .. Len(s) \/ (n - Len(s) \in 1 .. Len(t) /\ n = (n - Len(s)) + Len(s))
  OBVIOUS
<1>4. Ids(s) \cup Ids(t) \subseteq Ids(s \o t)  BY <1>1, <1>2 DEF Ids
<1>5. Ids(s \o t) \subseteq Ids(s) \cup Ids(t)
  <2> SUFFICES ASSUME NEW n \in 1 .. Len(s \o t)
               PROVE  (s \o t)[n].id \in Ids(s) \cup Ids(t)
    BY DEF Ids
  <2> QED  BY <1>1, <1>2, <1>3, ZenonT(20) DEF Ids
<1> QED  BY <1>4, <1>5

\* The identifiers after an Append.
LEMMA AppendIds ==
  ASSUME NEW s \in Seq(Clause), NEW c \in Clause
  PROVE  /\ Append(s, c) \in Seq(Clause)
         /\ Len(Append(s, c)) = Len(s) + 1
         /\ Ids(Append(s, c)) = Ids(s) \cup {c.id}
<1>1. \A n \in 1 .. Len(s) : n \in 1 .. Len(Append(s, c)) /\ Append(s, c)[n] = s[n]
  OBVIOUS
<1>2. Len(s) + 1 \in 1 .. Len(Append(s, c)) /\ Append(s, c)[Len(s) + 1] = c
  OBVIOUS
<1>3. \A n \in 1 .. Len(Append(s, c)) : n \in 1 .. Len(s) \/ n = Len(s) + 1  OBVIOUS
<1>4. Ids(s) \cup {c.id} \subseteq Ids(Append(s, c))  BY <1>1, <1>2 DEF Ids
<1>5. Ids(Append(s, c)) \subseteq Ids(s) \cup {c.id}
  <2> SUFFICES ASSUME NEW n \in 1 .. Len(Append(s, c))
               PROVE  Append(s, c)[n].id \in Ids(s) \cup {c.id}
    BY DEF Ids
  <2> QED  BY <1>1, <1>2, <1>3 DEF Ids
<1> QED  BY <1>4, <1>5

\* A clause at the end of the second of two sequences.
LEMMA OneJoined ==
  ASSUME NEW s \in Seq(Clause), NEW q \in Seq(Clause), NEW c \in Clause
  PROVE  /\ Len(s \o Append(q, c)) = Len(s \o q) + 1
         /\ Ids(s \o Append(q, c)) = Ids(s \o q) \cup {c.id}
<1> DEFINE t == Append(q, c)
<1>1. t \in Seq(Clause) /\ Len(t) = Len(q) + 1 /\ Ids(t) = Ids(q) \cup {c.id}
  BY AppendIds
<1> HIDE DEF t
<1>2. /\ Len(s \o q) = Len(s) + Len(q) /\ Ids(s \o q) = Ids(s) \cup Ids(q)
      /\ Len(s \o t) = Len(s) + Len(t) /\ Ids(s \o t) = Ids(s) \cup Ids(t)
  BY <1>1, JoinIds
<1>3. Len(s) \in Nat /\ Len(q) \in Nat  OBVIOUS
<1>4. Len(s \o t) = Len(s \o q) + 1  BY <1>1, <1>2, <1>3
<1> QED  BY <1>1, <1>2, <1>4 DEF t

\* A clause that is added to its queue is met once more among those of the keys from
\* its length on.
LEMMA JoinedMore ==
  ASSUME NEW queues \in [Lengths -> Seq(Clause)], NEW ks \in SUBSET Lengths,
         NEW c \in Clause,
         \A k \in Lengths : k \notin ks => queues[k] = <<>>
  PROVE  LET more == [queues EXCEPT ![c.len] = Append(@, c)]
             all == Joined(more, ks \cup {c.len}, Longest)
         IN  /\ more \in [Lengths -> Seq(Clause)]
             /\ Len(all) = Len(Joined(queues, ks, Longest)) + 1
             /\ Ids(all) = Ids(Joined(queues, ks, Longest)) \cup {c.id}
<1> DEFINE more == [queues EXCEPT ![c.len] = Append(@, c)]
           ms == ks \cup {c.len}
           l == c.len
<1>1. l \in Lengths /\ c.id \in Nat  BY DEF Clause
<1>2. queues[l] \in Seq(Clause)  BY <1>1
<1>3. /\ more \in [Lengths -> Seq(Clause)]
      /\ more[l] = Append(queues[l], c)
      /\ \A k \in Lengths : k # l => more[k] = queues[k]
  BY <1>1, <1>2, AppendIds
<1>4. ms \in SUBSET Lengths  BY <1>1
<1>5. Longest \in Nat /\ l \in 1 .. Longest  BY <1>1, LongestIs
<1>6. PICK J : IsJoined(J, queues, ks)  BY JoinedIs
<1>7. PICK M : IsJoined(M, more, ms)
  <2> HIDE DEF more, ms
  <2> QED  BY <1>3, <1>4, JoinedIs
<1>8. J[0] = M[0] /\ J[0] \in Seq(Clause)  BY <1>5, <1>6, <1>7 DEF IsJoined
<1>9. l \in ms /\ \A k : k # l => (k \in ms <=> k \in ks)  OBVIOUS
<1>10. l \notin ks => queues[l] = <<>>  BY <1>1
<1> HIDE DEF more, ms, l
<1> DEFINE G == {k \in 0 .. Longest :
                   /\ Len(M[k]) = Len(J[k]) + IF l <= k THEN 1 ELSE 0
                   /\ Ids(M[k]) = Ids(J[k]) \cup IF l <= k THEN {c.id} ELSE {}}
<1>11. 0 .. Longest \subseteq G
  <2>1. 0 \in G
    <3>1. 0 \in 0 .. Longest /\ ~(l <= 0)  BY <1>5
    <3>2. Len(J[0]) \in Nat  BY <1>8
    <3> QED  BY <1>8, <3>1, <3>2
  <2>2. ASSUME NEW n \in 0 + 1 .. Longest, n - 1 \in G
        PROVE  n \in G
    <3>1. n \in 1 .. Longest /\ n \in 0 .. Longest /\ n - 1 \in 0 .. Longest /\ n \in Nat  BY <1>5
    <3>2. /\ Len(M[n - 1]) = Len(J[n - 1]) + IF l <= n - 1 THEN 1 ELSE 0
          /\ Ids(M[n - 1]) = Ids(J[n - 1]) \cup IF l <= n - 1 THEN {c.id} ELSE {}
      BY <2>2
    <3>3. PICK s \in Seq(Clause), t \in Seq(Clause) : s = J[n - 1] /\ t = M[n - 1]
      BY <1>6, <1>7, <3>1 DEF IsJoined
    <3>4. Len(s) \in Nat /\ Len(t) \in Nat  BY <3>3
    <3>5. /\ J[n] = IF n \in ks THEN s \o queues[n] ELSE s
          /\ M[n] = IF n \in ms THEN t \o more[n] ELSE t
      BY <1>6, <1>7, <3>1, <3>3 DEF IsJoined
    <3>6. CASE n = l
      <4>0. PICK q \in Seq(Clause) : q = queues[l]  BY <1>2
      <4>1. M[n] = t \o Append(q, c)  BY <1>3, <1>9, <3>5, <3>6, <4>0
      <4>2. J[n] = s \o q
        <5>1. CASE l \in ks  BY <3>5, <3>6, <4>0, <5>1
        <5>2. CASE l \notin ks
          <6>1. J[n] = s /\ q = <<>>  BY <1>10, <3>5, <3>6, <4>0, <5>2
          <6>2. s \o <<>> = s  OBVIOUS
          <6> QED  BY <6>1, <6>2
        <5> QED  BY <5>1, <5>2
      <4>3. ~(l <= n - 1) /\ l <= n  BY <3>1, <3>6
      <4>4. Len(t) = Len(s) + 0 /\ Ids(t) = Ids(s) \cup {}
        BY <3>2, <3>3, <4>3
      <4>6. /\ Len(t \o q) = Len(s \o q) + 0
            /\ Ids(t \o q) = Ids(s \o q) \cup {}
        <5>1. /\ Len(s \o q) = Len(s) + Len(q) /\ Ids(s \o q) = Ids(s) \cup Ids(q)
              /\ Len(t \o q) = Len(t) + Len(q) /\ Ids(t \o q) = Ids(t) \cup Ids(q)
          BY JoinIds
        <5>2. Len(s) \in Nat /\ Len(q) \in Nat  OBVIOUS
        <5> QED  BY <4>4, <5>1, <5>2
      <4>7. /\ Len(t \o Append(q, c)) = Len(t \o q) + 1
            /\ Ids(t \o Append(q, c)) = Ids(t \o q) \cup {c.id}
        BY OneJoined
      <4>8. Len(s \o q) \in Nat  OBVIOUS
      <4>9. Len(M[n]) = Len(J[n]) + 1 /\ Ids(M[n]) = Ids(J[n]) \cup {c.id}
        BY <4>1, <4>2, <4>6, <4>7, <4>8
      <4> QED  BY <3>1, <4>3, <4>9
    <3>7. CASE n # l
      <4>1. l <= n - 1 <=> l <= n  BY <1>5, <3>1, <3>7
      <4>2. CASE n \in ks
        <5>1. n \in Lengths  BY <4>2
        <5>2. PICK q \in Seq(Clause) : q = queues[n]  BY <5>1
        <5>3. J[n] = s \o q /\ M[n] = t \o q
          BY <1>3, <1>9, <3>5, <3>7, <4>2, <5>1, <5>2
        <5>4. PICK d \in Nat : d = IF l <= n THEN 1 ELSE 0  OBVIOUS
        <5>5. PICK I : I = IF l <= n THEN {c.id} ELSE {}  OBVIOUS
        <5>6. Len(t) = Len(s) + d /\ Ids(t) = Ids(s) \cup I
          BY <3>2, <3>3, <4>1, <5>4, <5>5
        <5>7. Len(M[n]) = Len(J[n]) + d /\ Ids(M[n]) = Ids(J[n]) \cup I
          
          <6>1. Len(t \o q) = Len(s \o q) + d /\ Ids(t \o q) = Ids(s \o q) \cup I
            <7>1. /\ Len(s \o q) = Len(s) + Len(q) /\ Ids(s \o q) = Ids(s) \cup Ids(q)
                  /\ Len(t \o q) = Len(t) + Len(q) /\ Ids(t \o q) = Ids(t) \cup Ids(q)
              BY JoinIds
            <7>2. Len(s) \in Nat /\ Len(q) \in Nat  OBVIOUS
            <7>3. Len(t \o q) = Len(s \o q) + d  BY <5>6, <7>1, <7>2
            <7>4. Ids(t \o q) = Ids(s \o q) \cup I  BY <5>6, <7>1
            <7> QED  BY <7>3, <7>4
          <6> QED  BY <5>3, <6>1
        <5> QED  BY <3>1, <5>4, <5>5, <5>7
      <4>3. CASE n \notin ks
        <5>1. J[n] = s /\ M[n] = t  BY <1>9, <3>5, <3>7, <4>3
        <5> QED  BY <3>1, <3>2, <3>3, <4>1, <5>1
      <4> QED  BY <4>2, <4>3
    <3> QED  BY <3>6, <3>7
  <2>3. 0 \in Nat /\ Longest \in Nat  BY <1>5
  <2> HIDE DEF G
  <2> QED  BY <2>1, <2>2, <2>3, RangeInduction
<1>12. Longest \in 0 .. Longest /\ l <= Longest  BY <1>5
<1>13. Len(M[Longest]) = Len(J[Longest]) + 1 /\ Ids(M[Longest]) = Ids(J[Longest]) \cup {c.id}
  BY <1>11, <1>12
<1>14. J[Longest] = Joined(queues, ks, Longest) /\ M[Longest] = Joined(more, ms, Longest)
  BY <1>6, <1>7, <1>12 DEF IsJoined
<1> QED  BY <1>3, <1>13, <1>14 DEF more, ms, l

-----------------------------------------------------------------------------
(* The clauses that leave                                                  *)

\* What is left of a sequence without its first num elements.
Cut(s, num) == IF num <= Len(s) THEN num ELSE Len(s)
Rest(s, num) == SubSeq(s, Cut(s, num) + 1, Len(s))

\* The elements of what is left.
LEMMA RestIs ==
  ASSUME NEW s \in Seq(Clause), NEW num \in Nat
  PROVE  /\ Cut(s, num) \in 0 .. Len(s)
         /\ Rest(s, num) \in Seq(Clause)
         /\ Len(Rest(s, num)) = Len(s) - Cut(s, num)
         /\ \A i \in 1 .. Len(s) - Cut(s, num) : Rest(s, num)[i] = s[i + Cut(s, num)]
<1>1. PICK c \in 0 .. Len(s) : c = Cut(s, num)  BY DEF Cut
<1>2. Len(s) \in Nat /\ c \in Nat  OBVIOUS
<1>3. SubSeq(s, c + 1, Len(s)) \in Seq(Clause)  BY <1>2
<1>4. Len(SubSeq(s, c + 1, Len(s))) = Len(s) - c  BY <1>2
<1>5. \A i \in 1 .. Len(s) - c : SubSeq(s, c + 1, Len(s))[i] = s[i + c]
  <2> SUFFICES ASSUME NEW i \in 1 .. Len(s) - c
               PROVE  SubSeq(s, c + 1, Len(s))[i] = s[i + c]
    OBVIOUS
  <2>1. i \in 1 .. Len(s) - (c + 1) + 1 /\ (c + 1) + i - 1 = i + c  BY <1>2
  <2> QED  BY <1>2, <2>1
<1> QED  BY <1>1, <1>3, <1>4, <1>5 DEF Rest

\* How many have to leave the second of two sequences, if num leave both.
Left(s, num) == IF num <= Len(s) THEN 0 ELSE num - Len(s)

\* The clauses leave one sequence, then the next.
LEMMA RestJoin ==
  ASSUME NEW s \in Seq(Clause), NEW t \in Seq(Clause), NEW num \in Nat
  PROVE  Rest(s \o t, num) = Rest(s, num) \o Rest(t, Left(s, num))
<1>1. Len(s) \in Nat /\ Len(t) \in Nat  OBVIOUS
<1>2. PICK st \in Seq(Clause) :
        /\ st = s \o t
        /\ Len(st) = Len(s) + Len(t)
        /\ \A i \in 1 .. Len(s) : st[i] = s[i]
        /\ \A i \in 1 .. Len(t) : st[i + Len(s)] = t[i]
  <2>1. s \o t \in Seq(Clause) /\ Len(s \o t) = Len(s) + Len(t)  OBVIOUS
  <2>2. \A i \in 1 .. Len(s) : (s \o t)[i] = s[i]  OBVIOUS
  <2>3. \A i \in 1 .. Len(t) : (s \o t)[i + Len(s)] = t[i]  OBVIOUS
  <2> QED  BY <2>1, <2>2, <2>3
<1>3. PICK l \in Nat : l = Left(s, num)
  <2>1. num - Len(s) \in Int /\ (~(num <= Len(s)) => num - Len(s) \in Nat)  BY <1>1
  <2> QED  BY <2>1 DEF Left
<1>4. PICK r \in Seq(Clause) :
        /\ r = Rest(st, num)
        /\ Len(r) = Len(st) - Cut(st, num)
        /\ \A i \in 1 .. Len(r) : r[i] = st[i + Cut(st, num)]
  <2>1. /\ Rest(st, num) \in Seq(Clause)
        /\ Len(Rest(st, num)) = Len(st) - Cut(st, num)
        /\ \A i \in 1 .. Len(st) - Cut(st, num) : Rest(st, num)[i] = st[i + Cut(st, num)]
    BY RestIs
  <2> QED  BY <2>1
<1>5. PICK p \in Seq(Clause) :
        /\ p = Rest(s, num)
        /\ Len(p) = Len(s) - Cut(s, num)
        /\ \A i \in 1 .. Len(p) : p[i] = s[i + Cut(s, num)]
  <2>1. /\ Rest(s, num) \in Seq(Clause)
        /\ Len(Rest(s, num)) = Len(s) - Cut(s, num)
        /\ \A i \in 1 .. Len(s) - Cut(s, num) : Rest(s, num)[i] = s[i + Cut(s, num)]
    BY RestIs
  <2> QED  BY <2>1
<1>6. PICK q \in Seq(Clause) :
        /\ q = Rest(t, l)
        /\ Len(q) = Len(t) - Cut(t, l)
        /\ \A i \in 1 .. Len(q) : q[i] = t[i + Cut(t, l)]
  <2>1. /\ Rest(t, l) \in Seq(Clause)
        /\ Len(Rest(t, l)) = Len(t) - Cut(t, l)
        /\ \A i \in 1 .. Len(t) - Cut(t, l) : Rest(t, l)[i] = t[i + Cut(t, l)]
    BY RestIs
  <2> QED  BY <2>1
<1>7. PICK a \in 0 .. Len(s) : a = Cut(s, num)  BY RestIs
<1>8. PICK b \in 0 .. Len(t) : b = Cut(t, l)  BY RestIs
<1>9. Cut(st, num) = a + b /\ (b = 0 \/ a = Len(s))
  <2>1. CASE num <= Len(s)
    <3>1. a = num /\ l = 0 /\ b = 0  BY <1>1, <1>3, <1>7, <1>8, <2>1 DEF Cut, Left
    <3>2. num <= Len(st)  BY <1>1, <1>2, <2>1
    <3> QED  BY <3>1, <3>2 DEF Cut
  <2>2. CASE ~(num <= Len(s))
    <3>1. a = Len(s) /\ l = num - Len(s)  BY <1>3, <1>7, <2>2 DEF Cut, Left
    <3>2. b = IF l <= Len(t) THEN l ELSE Len(t)  BY <1>8 DEF Cut
    <3>3. Cut(st, num) = IF num <= Len(st) THEN num ELSE Len(st)  BY DEF Cut
    <3>4. l <= Len(t) <=> num <= Len(st)  BY <1>1, <1>2, <3>1
    <3> QED  BY <1>1, <1>2, <3>1, <3>2, <3>3, <3>4
  <2> QED  BY <2>1, <2>2
<1>10. /\ Len(p \o q) = Len(p) + Len(q) /\ p \o q \in Seq(Clause)
       /\ \A i \in 1 .. Len(p) : (p \o q)[i] = p[i]
       /\ \A i \in Len(p) + 1 .. Len(p) + Len(q) : (p \o q)[i] = q[i - Len(p)]
  <2>1. Len(p \o q) = Len(p) + Len(q) /\ p \o q \in Seq(Clause)  OBVIOUS
  <2>2. \A i \in 1 .. Len(p) : (p \o q)[i] = p[i]  OBVIOUS
  <2>3. \A i \in Len(p) + 1 .. Len(p) + Len(q) : (p \o q)[i] = q[i - Len(p)]  OBVIOUS
  <2> QED  BY <2>1, <2>2, <2>3
<1>11. PICK u \in Seq(Clause) :
         /\ u = p \o q
         /\ Len(u) = Len(p) + Len(q)
         /\ \A i \in 1 .. Len(p) : u[i] = p[i]
         /\ \A i \in Len(p) + 1 .. Len(p) + Len(q) : u[i] = q[i - Len(p)]
  BY <1>10
<1>12. /\ Len(p) = Len(s) - a /\ Len(q) = Len(t) - b /\ Len(r) = Len(st) - (a + b)
       /\ Len(p) \in Nat /\ Len(q) \in Nat /\ a \in Nat /\ b \in Nat
  BY <1>1, <1>4, <1>5, <1>6, <1>7, <1>8, <1>9
<1>13. Len(u) = Len(r)  BY <1>1, <1>2, <1>11, <1>12
<1>14. \A i \in 1 .. Len(r) : u[i] = r[i]
  <2> SUFFICES ASSUME NEW i \in 1 .. Len(r) PROVE u[i] = r[i]  OBVIOUS
  <2>1. r[i] = st[i + (a + b)]  BY <1>4, <1>9
  <2>2. CASE i <= Len(p)
    <3>1. i \in 1 .. Len(p) /\ i + a \in 1 .. Len(s) /\ b = 0
      BY <1>1, <1>9, <1>12, <2>2
    <3>2. u[i] = s[i + a]  BY <1>5, <1>7, <1>11, <3>1
    <3>3. st[i + a] = s[i + a] /\ i + (a + b) = i + a  BY <1>2, <1>12, <3>1
    <3> QED  BY <2>1, <3>2, <3>3
  <2>3. CASE i > Len(p)
    <3>1. i \in Len(p) + 1 .. Len(p) + Len(q)  BY <1>11, <1>12, <1>13, <2>3, SMTT(20)
    <3>2. i - Len(p) \in 1 .. Len(q) /\ (i - Len(p)) + b \in 1 .. Len(t)
      BY <1>1, <1>12, <3>1
    <3>3. u[i] = t[(i - Len(p)) + b]  BY <1>6, <1>8, <1>11, <3>1, <3>2
    <3>4. ((i - Len(p)) + b) + Len(s) = i + (a + b)  BY <1>1, <1>12
    <3>5. st[((i - Len(p)) + b) + Len(s)] = t[(i - Len(p)) + b]  BY <1>2, <3>2
    <3> QED  BY <2>1, <3>3, <3>4, <3>5
  <2>4. i \in Nat  OBVIOUS
  <2> QED  BY <1>12, <2>2, <2>3, <2>4
<1>15. u = r  BY <1>13, <1>14, SMTT(20)
<1> QED  BY <1>2, <1>3, <1>4, <1>5, <1>6, <1>11, <1>15

\* The clauses that are left in the queues are those that are left of all clauses.
LEMMA JoinedRest ==
  ASSUME NEW queues \in [Lengths -> Seq(Clause)], NEW ks \in SUBSET Lengths,
         NEW rest \in [Lengths -> Seq(Clause)], NEW rs \in SUBSET ks,
         NEW num \in Nat,
         \A k \in ks : rest[k] = Rest(queues[k], Left(Joined(queues, ks, k - 1), num)),
         \A k \in ks : k \notin rs => rest[k] = <<>>
  PROVE  Joined(rest, rs, Longest) = Rest(Joined(queues, ks, Longest), num)
<1>1. Longest \in Nat  BY LongestIs
<1>2. PICK J : IsJoined(J, queues, ks)  BY JoinedIs
<1>3. PICK R : IsJoined(R, rest, rs)  BY JoinedIs
<1> DEFINE G == {k \in 0 .. Longest : R[k] = Rest(J[k], num)}
<1>4. 0 .. Longest \subseteq G
  <2>1. 0 \in G
    <3>1. R[0] = <<>> /\ J[0] = <<>>  BY <1>2, <1>3 DEF IsJoined
    <3>2. Cut(<<>>, num) = 0 /\ Len(<<>>) = 0  BY DEF Cut
    <3>3. SubSeq(<<>>, 0 + 1, 0) = <<>>  OBVIOUS
    <3>4. Rest(<<>>, num) = <<>>  BY <3>2, <3>3 DEF Rest
    <3> QED  BY <1>1, <3>1, <3>4
  <2>2. ASSUME NEW n \in 0 + 1 .. Longest, n - 1 \in G
        PROVE  n \in G
    <3>1. n \in 1 .. Longest /\ n \in 0 .. Longest /\ n - 1 \in 0 .. Longest  BY <1>1
    <3>2. R[n - 1] = Rest(J[n - 1], num)  BY <2>2
    <3>3. /\ J[n] = IF n \in ks THEN J[n - 1] \o queues[n] ELSE J[n - 1]
          /\ R[n] = IF n \in rs THEN R[n - 1] \o rest[n] ELSE R[n - 1]
      BY <1>2, <1>3, <3>1 DEF IsJoined
    <3>4. CASE n \in ks
      <4>1. PICK s \in Seq(Clause) : s = J[n - 1] /\ s = Joined(queues, ks, n - 1)
        BY <1>2, <3>1 DEF IsJoined
      <4>2. PICK q \in Seq(Clause) : q = queues[n]  BY <3>4
      <4>3. rest[n] = Rest(q, Left(s, num))  BY <3>4, <4>1, <4>2
      <4>4. Rest(s \o q, num) = Rest(s, num) \o Rest(q, Left(s, num))  BY RestJoin
      <4>5. R[n] = R[n - 1] \o rest[n]
        <5>1. CASE n \in rs  BY <3>3, <5>1
        <5>2. CASE n \notin rs
          <6>1. R[n] = R[n - 1] /\ rest[n] = <<>>  BY <3>3, <3>4, <5>2
          <6>2. R[n - 1] \in Seq(Clause)  BY <1>3, <3>1 DEF IsJoined
          <6>3. R[n - 1] \o <<>> = R[n - 1]  BY <6>2
          <6> QED  BY <6>1, <6>3
        <5> QED  BY <5>1, <5>2
      <4>6. J[n] = s \o q  BY <3>3, <3>4, <4>1, <4>2
      <4>7. R[n] = Rest(J[n], num)  BY <3>2, <4>1, <4>3, <4>4, <4>5, <4>6
      <4> QED  BY <3>1, <4>7
    <3>5. CASE n \notin ks
      <4>1. J[n] = J[n - 1] /\ R[n] = R[n - 1]  BY <3>3, <3>5
      <4> QED  BY <3>1, <3>2, <4>1
    <3> QED  BY <3>4, <3>5
  <2>3. 0 \in Nat  OBVIOUS
  <2> HIDE DEF G
  <2> QED  BY <1>1, <2>1, <2>2, <2>3, RangeInduction
<1>5. Longest \in 0 .. Longest  BY <1>1
<1>6. J[Longest] = Joined(queues, ks, Longest) /\ R[Longest] = Joined(rest, rs, Longest)
  BY <1>2, <1>3, <1>5 DEF IsJoined
<1> QED  BY <1>4, <1>5, <1>6

-----------------------------------------------------------------------------
(* The order of the clauses                                                *)

\* Clause c leaves before clause d.
Before(c, d) == c.len < d.len \/ (c.len = d.len /\ c.id < d.id)

InOrder(s) == \A i \in 1 .. Len(s) : \A j \in i + 1 .. Len(s) : Before(s[i], s[j])

\* In the queue of a key are clauses of that length, the older ones first, and among
\* the first num that were added; exportTo looks at every queue that is not empty.
QueuesInv(queues, ks, num) ==
  /\ queues \in [Lengths -> Seq(Clause)]
  /\ ks \in SUBSET Lengths
  /\ \A k \in Lengths : k \notin ks => queues[k] = <<>>
  /\ \A k \in Lengths : \A i \in 1 .. Len(queues[k]) :
       queues[k][i].len = k /\ queues[k][i].id <= num
  /\ \A k \in Lengths : InOrder(queues[k])

\* Two sequences in order, one after the other.
LEMMA JoinInOrder ==
  ASSUME NEW s \in Seq(Clause), NEW t \in Seq(Clause), InOrder(s), InOrder(t),
         \A i \in 1 .. Len(s), j \in 1 .. Len(t) : Before(s[i], t[j])
  PROVE  InOrder(s \o t)
<1>1. Len(s) \in Nat /\ Len(t) \in Nat  OBVIOUS
<1>2. PICK st \in Seq(Clause) :
        /\ st = s \o t
        /\ Len(st) = Len(s) + Len(t)
        /\ \A i \in 1 .. Len(s) : st[i] = s[i]
        /\ \A i \in Len(s) + 1 .. Len(s) + Len(t) : st[i] = t[i - Len(s)]
  <2>1. s \o t \in Seq(Clause) /\ Len(s \o t) = Len(s) + Len(t)  OBVIOUS
  <2>2. \A i \in 1 .. Len(s) : (s \o t)[i] = s[i]  OBVIOUS
  <2>3. \A i \in Len(s) + 1 .. Len(s) + Len(t) : (s \o t)[i] = t[i - Len(s)]  OBVIOUS
  <2> QED  BY <2>1, <2>2, <2>3
<1>3. ASSUME NEW i \in 1 .. Len(st), NEW j \in i + 1 .. Len(st)
      PROVE  Before(st[i], st[j])
  <2>1. i \in Nat /\ j \in Nat /\ i < j /\ j <= Len(s) + Len(t) /\ 1 <= i  BY <1>1, <1>2
  <2>2. CASE j <= Len(s)
    <3>1. i \in 1 .. Len(s) /\ j \in i + 1 .. Len(s) /\ j \in 1 .. Len(s)  BY <1>1, <2>1, <2>2
    <3>2. Before(s[i], s[j])  BY <3>1 DEF InOrder
    <3> QED  BY <1>2, <3>1, <3>2
  <2>3. CASE i <= Len(s) /\ ~(j <= Len(s))
    <3>1. /\ i \in 1 .. Len(s) /\ j \in Len(s) + 1 .. Len(s) + Len(t)
          /\ j - Len(s) \in 1 .. Len(t)
      BY <1>1, <2>1, <2>3
    <3> QED  BY <1>2, <3>1
  <2>4. CASE ~(i <= Len(s))
    <3>1. /\ i \in Len(s) + 1 .. Len(s) + Len(t) /\ j \in Len(s) + 1 .. Len(s) + Len(t)
          /\ i - Len(s) \in 1 .. Len(t) /\ j - Len(s) \in (i - Len(s)) + 1 .. Len(t)
      BY <1>1, <2>1, <2>4
    <3>2. Before(t[i - Len(s)], t[j - Len(s)])  BY <3>1 DEF InOrder
    <3> QED  BY <1>2, <3>1, <3>2
  <2> QED  BY <2>2, <2>3, <2>4
<1> QED  BY <1>2, <1>3 DEF InOrder

\* All clauses of the buffer are in order.
LEMMA JoinedInOrder ==
  ASSUME NEW queues, NEW ks, NEW num, QueuesInv(queues, ks, num)
  PROVE  InOrder(Joined(queues, ks, Longest))
<1>1. Longest \in Nat  BY LongestIs
<1>2. PICK J : IsJoined(J, queues, ks)  BY JoinedIs DEF QueuesInv
<1> DEFINE Upto(s, k) == \A i \in 1 .. Len(s) : s[i].len <= k
           G == {k \in 0 .. Longest : InOrder(J[k]) /\ Upto(J[k], k)}
<1>3. 0 .. Longest \subseteq G
  <2>1. 0 \in G
    <3>1. J[0] = <<>>  BY <1>2 DEF IsJoined
    <3>2. InOrder(<<>>) /\ Upto(<<>>, 0)  BY DEF InOrder
    <3> QED  BY <1>1, <3>1, <3>2
  <2>2. ASSUME NEW n \in 0 + 1 .. Longest, n - 1 \in G
        PROVE  n \in G
    <3>1. n \in 1 .. Longest /\ n \in 0 .. Longest /\ n - 1 \in 0 .. Longest /\ n \in Nat  BY <1>1
    <3>2. PICK s \in Seq(Clause) : s = J[n - 1]  BY <1>2, <3>1 DEF IsJoined
    <3>3. InOrder(s) /\ Upto(s, n - 1)  BY <2>2, <3>2
    <3>4. J[n] = IF n \in ks THEN s \o queues[n] ELSE s
      BY <1>2, <3>1, <3>2 DEF IsJoined
    <3>5. \A i \in 1 .. Len(s) : s[i].len \in Nat
      <4>1. \A i \in 1 .. Len(s) : s[i] \in Clause  OBVIOUS
      <4>2. \A c \in Clause : c.len \in Nat  BY BufferAssumption DEF Clause
      <4> QED  BY <4>1, <4>2
    <3>6. Upto(s, n)
      <4> SUFFICES ASSUME NEW i \in 1 .. Len(s) PROVE s[i].len <= n  OBVIOUS
      <4> QED  BY <3>1, <3>3, <3>5
    <3>7. CASE n \in ks
      <4>1. n \in Lengths  BY <3>7 DEF QueuesInv
      <4>2. PICK t \in Seq(Clause) : t = queues[n]  BY <4>1 DEF QueuesInv
      <4>3. InOrder(t) /\ \A j \in 1 .. Len(t) : t[j].len = n  BY <4>1, <4>2 DEF QueuesInv
      <4>4. \A i \in 1 .. Len(s), j \in 1 .. Len(t) : Before(s[i], t[j])
        BY <3>1, <3>3, <3>5, <4>3 DEF Before
      <4>5. InOrder(s \o t)  BY <3>3, <4>3, <4>4, JoinInOrder
      <4>6. Upto(s \o t, n)
        <5> SUFFICES ASSUME NEW i \in 1 .. Len(s \o t) PROVE (s \o t)[i].len <= n  OBVIOUS
        <5>1. Len(s) \in Nat /\ Len(t) \in Nat /\ Len(s \o t) = Len(s) + Len(t)  OBVIOUS
        <5>2. CASE i \in 1 .. Len(s)
          <6>1. (s \o t)[i] = s[i]  BY <5>2
          <6> QED  BY <3>6, <5>2, <6>1
        <5>3. CASE i \notin 1 .. Len(s)
          <6>1. i - Len(s) \in 1 .. Len(t)  BY <5>1, <5>3
          <6>2. (s \o t)[i] = t[i - Len(s)]  BY <5>3
          <6> QED  BY <3>1, <4>3, <6>1, <6>2
        <5> QED  BY <5>2, <5>3
      <4> HIDE DEF Upto
      <4> QED  BY <3>1, <3>4, <3>7, <4>2, <4>5, <4>6
    <3>8. CASE n \notin ks  BY <3>1, <3>3, <3>4, <3>6, <3>8
    <3> QED  BY <3>7, <3>8
  <2>3. 0 \in Nat  OBVIOUS
  <2> HIDE DEF G
  <2> QED  BY <1>1, <2>1, <2>2, <2>3, RangeInduction
<1>4. Longest \in 0 .. Longest  BY <1>1
<1> QED  BY <1>2, <1>3, <1>4 DEF IsJoined

-----------------------------------------------------------------------------
(* The steps                                                               *)

\* The clauses in the buffer, and those in the sets of the periods.
BufferInv ==
  /\ accepted \in Nat
  /\ exported \in Seq(Clause)
  /\ QueuesInv(db, keys, accepted)
  /\ EachClauseOnce

\* EachClauseOnce, as a fact about a sequence.
Once(all, num) == Len(all) = num /\ Ids(all) = 1 .. num

\* All clauses of the buffer, and EachClauseOnce, in terms of Joined.
LEMMA OnceIs ==
  /\ Queued = Joined(db, keys, Longest)
  /\ EachClauseOnce <=> Once(exported \o Joined(db, keys, Longest), accepted)
BY DEF Queued, Longest, EachClauseOnce, Once, Ids

\* The same of the next state.
LEMMA OnceNext ==
  /\ Queued' = Joined(db', keys', Longest)
  /\ EachClauseOnce' <=> Once(exported' \o Joined(db', keys', Longest), accepted')
BY DEF Queued, Longest, EachClauseOnce, Once, Ids

\* All clauses of the buffer.
LEMMA QueuedIs ==
  ASSUME BufferInv
  PROVE  Joined(db, keys, Longest) \in Seq(Clause)
<1>1. PICK J : IsJoined(J, db, keys)  BY JoinedIs DEF BufferInv, QueuesInv
<1>2. Longest \in 0 .. Longest  BY LongestIs
<1> QED  BY <1>1, <1>2 DEF IsJoined

\* In the beginning the buffer is empty.
LEMMA InitBuffer ==
  ASSUME Init
  PROVE  BufferInv
<1>1. /\ db = [k \in Lengths |-> <<>>] /\ keys = {} /\ accepted = 0 /\ exported = <<>>
  BY DEF Init, BufferInit
<1>2. <<>> \in Seq(Clause)  OBVIOUS
<1>3. InOrder(<<>>)  BY DEF InOrder
<1>4. QueuesInv(db, keys, accepted)  BY <1>1, <1>2, <1>3 DEF QueuesInv
<1>5. PICK J : IsJoined(J, db, keys)  BY <1>4, JoinedIs DEF QueuesInv
<1> DEFINE G == {k \in 0 .. Longest : J[k] = <<>>}
<1>6. Longest \in Nat /\ 0 \in Nat  BY LongestIs
<1>7. 0 .. Longest \subseteq G
  <2>1. 0 \in G  BY <1>5, <1>6 DEF IsJoined
  <2>2. ASSUME NEW n \in 0 + 1 .. Longest, n - 1 \in G
        PROVE  n \in G
    <3>1. n \in 1 .. Longest /\ n \in 0 .. Longest  BY <1>6
    <3>2. J[n] = J[n - 1]  BY <1>1, <1>5, <3>1 DEF IsJoined
    <3> QED  BY <2>2, <3>1, <3>2
  <2> HIDE DEF G
  <2> QED  BY <1>6, <2>1, <2>2, RangeInduction
<1>8. Longest \in 0 .. Longest  BY <1>6
<1>9. Joined(db, keys, Longest) = <<>>  BY <1>5, <1>7, <1>8 DEF IsJoined
<1>10. <<>> \o <<>> = <<>>  OBVIOUS
<1>11. Once(<<>>, 0)  BY DEF Once, Ids
<1> QED  BY <1>1, <1>2, <1>4, <1>9, <1>10, <1>11, OnceIs DEF BufferInv

\* A clause is added to the queue of its length, as the newest.
LEMMA AddStep ==
  ASSUME BufferInv, NEW l \in Lengths, AddClause([id |-> accepted + 1, len |-> l]),
         accepted' = accepted + 1, exported' = exported
  PROVE  BufferInv'
<1> DEFINE c == [id |-> accepted + 1, len |-> l]
<1>1. accepted \in Nat /\ exported \in Seq(Clause) /\ QueuesInv(db, keys, accepted)
  BY DEF BufferInv
<1>2. c \in Clause /\ c.id = accepted + 1 /\ c.len = l  BY <1>1 DEF Clause
<1>3. db' = [db EXCEPT ![c.len] = Append(@, c)] /\ keys' = keys \cup {c.len}
  BY DEF AddClause
<1> HIDE DEF c
<1>4. PICK q \in Seq(Clause) : q = db[l]  BY <1>1 DEF QueuesInv
<1>5. db' \in [Lengths -> Seq(Clause)] /\ db'[l] = Append(q, c)
      /\ \A k \in Lengths : k # l => db'[k] = db[k]
  <2>1. Append(q, c) \in Seq(Clause)  BY <1>2, AppendIds
  <2> QED  BY <1>1, <1>2, <1>3, <1>4, <2>1 DEF QueuesInv
<1>6. QueuesInv(db', keys', accepted')
  <2>1. keys' \in SUBSET Lengths /\ \A k \in Lengths : k \notin keys' => db'[k] = <<>>
    BY <1>1, <1>2, <1>3, <1>5 DEF QueuesInv
  <2>2. /\ Len(Append(q, c)) = Len(q) + 1 /\ Len(q) \in Nat
        /\ \A i \in 1 .. Len(q) : Append(q, c)[i] = q[i]
        /\ Append(q, c)[Len(q) + 1] = c
    OBVIOUS
  <2>3. InOrder(q) /\ \A i \in 1 .. Len(q) : q[i].len = l /\ q[i].id <= accepted
    BY <1>1, <1>4 DEF QueuesInv
  <2>4. \A i \in 1 .. Len(q) : q[i].id \in Nat
    <3>1. \A i \in 1 .. Len(q) : q[i] \in Clause  OBVIOUS
    <3> QED  BY <3>1 DEF Clause
  <2>5. \A i \in 1 .. Len(Append(q, c)) :
          Append(q, c)[i].len = l /\ Append(q, c)[i].id <= accepted + 1
    <3> SUFFICES ASSUME NEW i \in 1 .. Len(Append(q, c))
                 PROVE  Append(q, c)[i].len = l /\ Append(q, c)[i].id <= accepted + 1
      OBVIOUS
    <3>1. i \in 1 .. Len(q) \/ i = Len(q) + 1  BY <2>2
    <3>2. CASE i \in 1 .. Len(q)
      <4>1. Append(q, c)[i] = q[i]  BY <2>2, <3>2
      <4> QED  BY <1>1, <2>3, <2>4, <3>2, <4>1
    <3>3. CASE i = Len(q) + 1
      <4>1. Append(q, c)[i] = c  BY <2>2, <3>3
      <4> QED  BY <1>1, <1>2, <4>1
    <3> QED  BY <3>1, <3>2, <3>3
  <2>6. InOrder(Append(q, c))
    <3> SUFFICES ASSUME NEW i \in 1 .. Len(Append(q, c)),
                        NEW j \in i + 1 .. Len(Append(q, c))
                 PROVE  Before(Append(q, c)[i], Append(q, c)[j])
      BY DEF InOrder
    <3>1. i \in 1 .. Len(q) /\ Append(q, c)[i] = q[i]  BY <2>2
    <3>2. CASE j \in i + 1 .. Len(q)
      <4>1. j \in 1 .. Len(q)  BY <2>2, <3>1, <3>2
      <4>2. Append(q, c)[j] = q[j]  BY <2>2, <4>1
      <4> QED  BY <2>3, <3>1, <3>2, <4>2 DEF InOrder
    <3>3. CASE j \notin i + 1 .. Len(q)
      <4>1. j = Len(q) + 1  BY <2>2, <3>1, <3>3
      <4>2. Append(q, c)[j] = c  BY <2>2, <4>1
      <4>3. q[i].len = l /\ q[i].id < accepted + 1  BY <1>1, <2>3, <2>4, <3>1
      <4> QED  BY <1>2, <3>1, <4>2, <4>3 DEF Before
    <3> QED  BY <3>2, <3>3
  <2>7. \A k \in Lengths : \A i \in 1 .. Len(db'[k]) :
          db'[k][i].len = k /\ db'[k][i].id <= accepted'
    <3> SUFFICES ASSUME NEW k \in Lengths, NEW i \in 1 .. Len(db'[k])
                 PROVE  db'[k][i].len = k /\ db'[k][i].id <= accepted'
      OBVIOUS
    <3>1. CASE k = l  BY <1>5, <2>5, <3>1
    <3>2. CASE k # l
      <4>1. PICK s \in Seq(Clause) : s = db[k]  BY <1>1 DEF QueuesInv
      <4>2. db'[k] = s /\ i \in 1 .. Len(s)  BY <1>5, <3>2, <4>1
      <4>3. s[i].len = k /\ s[i].id <= accepted  BY <1>1, <4>1, <4>2 DEF QueuesInv
      <4>4. s[i] \in Clause  BY <4>2
      <4>5. s[i].id \in Nat  BY <4>4 DEF Clause
      <4> QED  BY <1>1, <4>2, <4>3, <4>5
    <3> QED  BY <3>1, <3>2
  <2>8. \A k \in Lengths : InOrder(db'[k])
    <3> SUFFICES ASSUME NEW k \in Lengths PROVE InOrder(db'[k])  OBVIOUS
    <3>1. CASE k = l  BY <1>5, <2>6, <3>1
    <3>2. CASE k # l  BY <1>1, <1>5, <3>2 DEF QueuesInv
    <3> QED  BY <3>1, <3>2
  <2> QED  BY <1>5, <2>1, <2>7, <2>8 DEF QueuesInv
<1>7. Once(exported \o Joined(db', keys', Longest), accepted')
  <2>1. PICK s \in Seq(Clause) : s = Joined(db, keys, Longest)  BY QueuedIs
  <2>2. PICK J : IsJoined(J, db', keys')  BY <1>6, JoinedIs DEF QueuesInv
  <2>3. Longest \in 0 .. Longest  BY LongestIs
  <2>4. PICK t \in Seq(Clause) : t = Joined(db', keys', Longest)
    BY <2>2, <2>3 DEF IsJoined
  <2>5. Len(t) = Len(s) + 1 /\ Ids(t) = Ids(s) \cup {c.id}
    <3>1. /\ db \in [Lengths -> Seq(Clause)] /\ keys \in SUBSET Lengths
          /\ \A k \in Lengths : k \notin keys => db[k] = <<>>
      BY <1>1 DEF QueuesInv
    <3>2. LET more == [db EXCEPT ![c.len] = Append(@, c)]
              all == Joined(more, keys \cup {c.len}, Longest)
          IN  /\ more \in [Lengths -> Seq(Clause)]
              /\ Len(all) = Len(Joined(db, keys, Longest)) + 1
              /\ Ids(all) = Ids(Joined(db, keys, Longest)) \cup {c.id}
      BY ONLY <1>2, <3>1, JoinedMore
    <3> QED  BY <1>3, <2>1, <2>4, <3>2
  <2>6. Once(exported \o s, accepted)  BY <2>1, OnceIs DEF BufferInv
  <2>7. /\ Len(exported \o s) = Len(exported) + Len(s)
        /\ Ids(exported \o s) = Ids(exported) \cup Ids(s)
    BY <1>1, JoinIds
  <2>8. /\ Len(exported \o t) = Len(exported) + Len(t)
        /\ Ids(exported \o t) = Ids(exported) \cup Ids(t)
    BY <1>1, JoinIds
  <2>9. Len(exported) \in Nat /\ Len(s) \in Nat /\ Len(t) \in Nat  BY <1>1
  <2>10. Len(exported \o t) = accepted + 1
    BY <1>1, <2>5, <2>6, <2>7, <2>8, <2>9 DEF Once
  <2>11. Ids(exported \o t) = 1 .. accepted + 1
    <3>1. Ids(exported \o t) = (1 .. accepted) \cup {accepted + 1}
      BY <1>2, <2>5, <2>6, <2>7, <2>8 DEF Once
    <3> QED  BY <1>1, <3>1
  <2> QED  BY <2>4, <2>10, <2>11 DEF Once
<1>8. accepted' \in Nat /\ exported' \in Seq(Clause)  BY <1>1
<1>9. EachClauseOnce'  BY <1>7, OnceNext
<1> QED  BY <1>6, <1>8, <1>9 DEF BufferInv

\* A step that leaves the buffer and the sets alone.
LEMMA KeepBuffer ==
  ASSUME BufferInv, UNCHANGED <<db, keys, accepted, exported>>
  PROVE  BufferInv'
<1>1. EachClauseOnce'  BY OnceIs, OnceNext DEF BufferInv
<1> QED  BY <1>1 DEF BufferInv

\* A clause is offered for export.
LEMMA OfferStep ==
  ASSUME BufferInv, NEW l \in Lengths, NEW lbd, Offer(l, lbd), exported' = exported
  PROVE  BufferInv'
<1>1. CASE UNCHANGED <<bufferVars, accepted>>
  BY <1>1, KeepBuffer DEF bufferVars
<1>2. CASE AddClause([id |-> accepted + 1, len |-> l]) /\ accepted' = accepted + 1
  BY <1>2, AddStep
<1> QED  BY <1>1, <1>2 DEF Offer

-----------------------------------------------------------------------------
\* exportTo moves some of the first clauses of the buffer.
LEMMA ExportedIs ==
  ASSUME BufferInv, NEW lits
  PROVE  \E num \in 0 .. Len(Joined(db, keys, Longest)) :
           Exported(lits) = SubSeq(Joined(db, keys, Longest), 1, num)
<1>1. PICK s \in Seq(Clause) : s = Queued /\ s = Joined(db, keys, Longest)
  BY QueuedIs, OnceIs
<1>2. Len(s) \in Nat  OBVIOUS
<1>3. Overfull(lits) \in SUBSET (1 .. Len(s))  BY <1>1 DEF Overfull
<1>4. CASE Overfull(lits) = {}  BY <1>1, <1>2, <1>4 DEF Exported
<1>5. CASE Overfull(lits) # {}
  <2>1. Overfull(lits) \in SUBSET Nat  BY <1>2, <1>3
  <2>2. \E n \in Overfull(lits) : \A m \in Overfull(lits) : n <= m  BY <1>5, <2>1, Least
  <2>3. Min(Overfull(lits)) \in Overfull(lits)  BY <2>2 DEF Min
  <2>4. Min(Overfull(lits)) \in 0 .. Len(s)  BY <1>2, <1>3, <2>3
  <2> QED  BY <1>1, <1>5, <2>4 DEF Exported
<1> QED  BY <1>4, <1>5

\* exportTo moves the first clauses of the buffer: together with those that were moved
\* before they are the same clauses as ever.
LEMMA ExportStep ==
  ASSUME BufferInv, ExportSelectedClauses
  PROVE  /\ BufferInv'
         /\ exported' \o Queued' = exported \o Queued
         /\ \E num \in 0 .. Len(Queued) : exported' = exported \o SubSeq(Queued, 1, num)
<1>1. accepted \in Nat /\ exported \in Seq(Clause) /\ QueuesInv(db, keys, accepted)
  BY DEF BufferInv
<1>2. PICK s \in Seq(Clause) : s = Joined(db, keys, Longest) /\ s = Queued
  BY QueuedIs, OnceIs
<1>3. PICK num \in 0 .. Len(s) : Exported(ExpLitsLim) = SubSeq(s, 1, num)
  BY <1>2, ExportedIs
<1>4. Len(s) \in Nat /\ num \in Nat  OBVIOUS
<1>5. PICK moved \in Seq(Clause) :
        /\ moved = SubSeq(s, 1, num)
        /\ Len(moved) = num
        /\ \A i \in 1 .. num : moved[i] = s[i]
  <2>1. SubSeq(s, 1, num) \in Seq(Clause) /\ Len(SubSeq(s, 1, num)) = num  BY <1>4
  <2>2. \A i \in 1 .. num : SubSeq(s, 1, num)[i] = s[i]  BY <1>4
  <2> QED  BY <2>1, <2>2
<1>6. /\ TakeOut(moved, ExpLitsLim) /\ exported' = exported \o moved
      /\ accepted' = accepted
  BY <1>3, <1>5 DEF ExportSelectedClauses, ExportTo
<1>7. /\ db' = [k \in Lengths |->
                  IF k \in keys THEN SubSeq(db[k], NumPopped(k, num) + 1, Len(db[k]))
                  ELSE db[k]]
      /\ keys' \in SUBSET keys
      /\ \A k \in keys : k \notin keys' => db'[k] = <<>>
  BY <1>5, <1>6 DEF TakeOut
<1>8. /\ db \in [Lengths -> Seq(Clause)] /\ keys \in SUBSET Lengths
      /\ \A k \in Lengths : k \notin keys => db[k] = <<>>
  BY <1>1 DEF QueuesInv
<1>9. \A k \in keys : db'[k] = Rest(db[k], Left(Joined(db, keys, k - 1), num))
  <2> SUFFICES ASSUME NEW k \in keys
               PROVE  db'[k] = Rest(db[k], Left(Joined(db, keys, k - 1), num))
    OBVIOUS
  <2>1. PICK J : IsJoined(J, db, keys)  BY <1>8, JoinedIs
  <2>2. k - 1 \in 0 .. Longest  BY <1>8, LongestIs
  <2>3. PICK t \in Seq(Clause) : t = Joined(db, keys, k - 1)  BY <2>1, <2>2 DEF IsJoined
  <2>4. PICK q \in Seq(Clause) : q = db[k]  BY <1>8
  <2>5. Len(t) \in Nat /\ Len(q) \in Nat  OBVIOUS
  <2>6. NumPopped(k, num) = IF num <= Len(t) THEN 0
                            ELSE IF num - Len(t) <= Len(q) THEN num - Len(t)
                            ELSE Len(q)
    BY <2>3, <2>4 DEF NumPopped
  <2>7. NumPopped(k, num) = Cut(q, Left(t, num))
    <3>1. CASE num <= Len(t)  BY <2>5, <2>6, <3>1 DEF Cut, Left
    <3>2. CASE ~(num <= Len(t))  BY <2>6, <3>2 DEF Cut, Left
    <3> QED  BY <3>1, <3>2
  <2>8. k \in Lengths  BY <1>8
  <2>9. db'[k] = SubSeq(q, NumPopped(k, num) + 1, Len(q))  BY <1>7, <2>4, <2>8
  <2> QED  BY <2>3, <2>4, <2>7, <2>9 DEF Rest
<1>10. \A k \in Lengths : k \notin keys => db'[k] = db[k]  BY <1>7
<1>11. \A k \in Lengths : \E d \in Nat : db'[k] = Rest(db[k], d)
  <2> SUFFICES ASSUME NEW k \in Lengths PROVE \E d \in Nat : db'[k] = Rest(db[k], d)
    OBVIOUS
  <2>1. CASE k \in keys
    <3>1. PICK J : IsJoined(J, db, keys)  BY <1>8, JoinedIs
    <3>2. k - 1 \in 0 .. Longest  BY LongestIs
    <3>3. PICK t \in Seq(Clause) : t = Joined(db, keys, k - 1)  BY <3>1, <3>2 DEF IsJoined
    <3>4. Len(t) \in Nat  OBVIOUS
    <3>5. Left(t, num) \in Nat
      <4>1. num - Len(t) \in Int /\ (~(num <= Len(t)) => num - Len(t) \in Nat)  BY <1>4, <3>4
      <4> QED  BY <4>1 DEF Left
    <3> QED  BY <1>9, <2>1, <3>3, <3>5
  <2>2. CASE k \notin keys
    <3>1. db[k] = <<>> /\ db'[k] = <<>>  BY <1>8, <1>10, <2>2
    <3>2. Cut(<<>>, 0) = 0 /\ Len(<<>>) = 0  BY DEF Cut
    <3>3. SubSeq(<<>>, 0 + 1, 0) = <<>>  OBVIOUS
    <3>4. Rest(<<>>, 0) = <<>>  BY <3>2, <3>3 DEF Rest
    <3> QED  BY <3>1, <3>4
  <2> QED  BY <2>1, <2>2
<1>12. db' \in [Lengths -> Seq(Clause)]
  <2>1. \A k \in Lengths : db'[k] \in Seq(Clause)
    <3> SUFFICES ASSUME NEW k \in Lengths PROVE db'[k] \in Seq(Clause)  OBVIOUS
    <3>1. PICK d \in Nat : db'[k] = Rest(db[k], d)  BY <1>11
    <3>2. PICK q \in Seq(Clause) : q = db[k]  BY <1>8
    <3>3. Rest(q, d) \in Seq(Clause)  BY RestIs
    <3> QED  BY <3>1, <3>2, <3>3
  <2>2. PICK f : db' = [k \in Lengths |-> f[k]]
    <3>1. db' = [k \in Lengths |-> db'[k]]  BY <1>7
    <3> QED  BY <3>1
  <2> QED  BY <2>1, <2>2
<1>13. QueuesInv(db', keys', accepted')
  <2>1. keys' \in SUBSET Lengths /\ \A k \in Lengths : k \notin keys' => db'[k] = <<>>
    BY <1>7, <1>8, <1>10
  <2>2. ASSUME NEW k \in Lengths
        PROVE  /\ \A i \in 1 .. Len(db'[k]) : db'[k][i].len = k /\ db'[k][i].id <= accepted
               /\ InOrder(db'[k])
    <3>1. PICK d \in Nat : db'[k] = Rest(db[k], d)  BY <1>11
    <3>2. PICK q \in Seq(Clause) : q = db[k]  BY <1>8
    <3>3. /\ InOrder(q)
          /\ \A i \in 1 .. Len(q) : q[i].len = k /\ q[i].id <= accepted
      BY <1>1, <3>2 DEF QueuesInv
    <3>4. PICK c \in 0 .. Len(q) : c = Cut(q, d)  BY RestIs
    <3>5. /\ Rest(q, d) \in Seq(Clause) /\ Len(Rest(q, d)) = Len(q) - Cut(q, d)
          /\ \A i \in 1 .. Len(q) - Cut(q, d) : Rest(q, d)[i] = q[i + Cut(q, d)]
      BY RestIs
    <3>6. PICK r \in Seq(Clause) :
            /\ r = db'[k] /\ Len(r) = Len(q) - c
            /\ \A i \in 1 .. Len(r) : r[i] = q[i + c]
      BY <3>1, <3>2, <3>4, <3>5
    <3>7. Len(q) \in Nat /\ c \in Nat  OBVIOUS
    <3>8. \A i \in 1 .. Len(r) : i + c \in 1 .. Len(q)  BY <3>6, <3>7
    <3>9. \A i \in 1 .. Len(r) : r[i].len = k /\ r[i].id <= accepted
      BY <3>3, <3>6, <3>8
    <3>10. InOrder(r)
      <4> SUFFICES ASSUME NEW i \in 1 .. Len(r), NEW j \in i + 1 .. Len(r)
                   PROVE  Before(r[i], r[j])
        BY DEF InOrder
      <4>1. /\ j \in 1 .. Len(r) /\ i + c \in 1 .. Len(q)
            /\ j + c \in (i + c) + 1 .. Len(q)
        BY <3>6, <3>7
      <4>2. Before(q[i + c], q[j + c])  BY <3>3, <4>1 DEF InOrder
      <4> QED  BY <3>6, <4>1, <4>2
    <3> QED  BY <3>6, <3>9, <3>10
  <2> QED  BY <1>6, <1>12, <2>1, <2>2 DEF QueuesInv
<1>14. Joined(db', keys', Longest) = Rest(s, num)
  <2>1. /\ db' \in [Lengths -> Seq(Clause)] /\ keys' \in SUBSET keys /\ num \in Nat
        /\ \A k \in keys : k \notin keys' => db'[k] = <<>>
    BY <1>4, <1>7, <1>12
  <2>2. Joined(db', keys', Longest) = Rest(Joined(db, keys, Longest), num)
    BY ONLY <1>8, <1>9, <2>1, JoinedRest
  <2> QED  BY <1>2, <2>2
<1>15. PICK r \in Seq(Clause) :
         /\ r = Joined(db', keys', Longest) /\ Len(r) = Len(s) - num
         /\ \A i \in 1 .. Len(s) - num : r[i] = s[i + num]
  <2>1. /\ Rest(s, num) \in Seq(Clause) /\ Len(Rest(s, num)) = Len(s) - Cut(s, num)
        /\ \A i \in 1 .. Len(s) - Cut(s, num) : Rest(s, num)[i] = s[i + Cut(s, num)]
    BY <1>4, RestIs
  <2>2. Cut(s, num) = num  BY <1>4 DEF Cut
  <2> QED  BY <1>14, <2>1, <2>2
<1>16. moved \o r = s
  <2>1. Len(moved \o r) = Len(s) /\ moved \o r \in Seq(Clause)  BY <1>4, <1>5, <1>15
  <2>2. ASSUME NEW i \in 1 .. Len(s)
        PROVE  (moved \o r)[i] = s[i]
    <3>1. CASE i <= num
      <4>1. i \in 1 .. Len(moved)  BY <1>4, <1>5, <3>1
      <4>2. (moved \o r)[i] = moved[i]  BY <4>1
      <4> QED  BY <1>5, <4>1, <4>2
    <3>2. CASE ~(i <= num)
      <4>1. i - num \in 1 .. Len(r) /\ i \in Len(moved) + 1 .. Len(moved) + Len(r)
        BY <1>4, <1>5, <1>15, <3>2
      <4>2. (moved \o r)[i] = r[i - Len(moved)]  BY <4>1
      <4>3. r[i - num] = s[(i - num) + num] /\ (i - num) + num = i  BY <1>4, <1>15, <4>1
      <4> QED  BY <1>5, <4>2, <4>3
    <3> QED  BY <3>1, <3>2
  <2>3. PICK u \in Seq(Clause) :
          u = moved \o r /\ Len(u) = Len(s) /\ \A i \in 1 .. Len(s) : u[i] = s[i]
    BY <2>1, <2>2
  <2>4. u = s
    <3>1. \A i \in 1 .. Len(s) : u[i] = s[i]  BY <2>3
    <3>2. Len(u) = Len(s)  BY <2>3
    <3> QED  BY <3>1, <3>2, SMTT(20)
  <2> QED  BY <2>3, <2>4
<1>17. (exported \o moved) \o r = exported \o s
  <2>1. (exported \o moved) \o r = exported \o (moved \o r)  BY <1>1
  <2> QED  BY <1>16, <2>1
<1>18. EachClauseOnce'
  <2>1. Once(exported \o s, accepted)  BY <1>2, OnceIs DEF BufferInv
  <2>2. Once(exported' \o Joined(db', keys', Longest), accepted')
    BY <1>6, <1>15, <1>17, <2>1
  <2> QED  BY <2>2, OnceNext
<1>19. exported' \in Seq(Clause)  BY <1>1, <1>6
<1>20. BufferInv'  BY <1>1, <1>6, <1>13, <1>18, <1>19 DEF BufferInv
<1>21. Queued' = r  BY <1>15, OnceNext
<1> QED  BY <1>2, <1>5, <1>6, <1>17, <1>20, <1>21

-----------------------------------------------------------------------------
\* A clause is added or clauses are moved.
LEMMA BufferStep ==
  ASSUME BufferInv, [Next]_vars
  PROVE  BufferInv'
<1>1. CASE \E len \in Lengths, lbd \in LBDs : Learn(len, lbd)
  BY <1>1, OfferStep DEF Learn
<1>2. CASE LearnUnit  BY <1>2, OfferStep DEF LearnUnit
<1>3. CASE ExportSelectedClauses  BY <1>3, ExportStep
<1>4. CASE UNCHANGED vars
  BY <1>4, KeepBuffer DEF vars, exportVars, bufferVars
<1> QED  BY <1>1, <1>2, <1>3, <1>4 DEF Next

\* The queues of the buffer are in order and hold, together with the sets of all
\* periods, each accepted clause once.
THEOREM BufferInvariant == Spec => []BufferInv
<1>1. Init => BufferInv  BY InitBuffer
<1>2. BufferInv /\ [Next]_vars => BufferInv'  BY BufferStep
<1> QED  BY <1>1, <1>2, PTL DEF Spec

\* addClause and exportTo neither lose nor repeat a clause.
THEOREM ClausesExportedOnce == Spec => []EachClauseOnce
<1>1. BufferInv => EachClauseOnce  BY DEF BufferInv
<1> QED  BY <1>1, BufferInvariant, PTL

\* The clauses of a period leave the buffer in the order of their lengths and, among
\* those of a length, of their age; what stays is longer, or as long and younger.
THEOREM ClausesLeaveInOrder == Spec => ShortestAndOldestFirst
<1> DEFINE A == \A n \in Len(exported) + 1 .. Len(exported') :
                  \A m \in n + 1 .. Len(exported' \o Queued') :
                    LET c == exported'[n]
                        d == (exported' \o Queued')[m]
                    IN  c.len < d.len \/ (c.len = d.len /\ c.id < d.id)
<1>1. ASSUME BufferInv, [Next]_vars
      PROVE  A
  <2>1. exported \in Seq(Clause)  BY <1>1 DEF BufferInv
  <2>2. Len(exported) \in Nat  BY <2>1
  <2>3. CASE exported' = exported  BY <2>2, <2>3
  <2>4. CASE ExportSelectedClauses
    <3>1. PICK s \in Seq(Clause) : s = Queued /\ InOrder(s)
      <4>1. InOrder(Joined(db, keys, Longest))  BY <1>1, JoinedInOrder DEF BufferInv
      <4> QED  BY <1>1, <4>1, QueuedIs, OnceIs
    <3>2. PICK num \in 0 .. Len(s) : exported' = exported \o SubSeq(s, 1, num)
      BY <1>1, <2>4, <3>1, ExportStep
    <3>3. exported' \o Queued' = exported \o s  BY <1>1, <2>4, <3>1, ExportStep
    <3>4. Len(s) \in Nat /\ num \in Nat  OBVIOUS
    <3>5. PICK moved \in Seq(Clause) :
            moved = SubSeq(s, 1, num) /\ Len(moved) = num
            /\ \A i \in 1 .. num : moved[i] = s[i]
      <4>1. SubSeq(s, 1, num) \in Seq(Clause) /\ Len(SubSeq(s, 1, num)) = num  BY <3>4
      <4>2. \A i \in 1 .. num : SubSeq(s, 1, num)[i] = s[i]  BY <3>4
      <4> QED  BY <4>1, <4>2
    <3>6. SUFFICES ASSUME NEW n \in Len(exported) + 1 .. Len(exported'),
                          NEW m \in n + 1 .. Len(exported \o s)
                   PROVE  Before(exported'[n], (exported \o s)[m])
      BY <3>3 DEF Before
    <3>7. Len(exported') = Len(exported) + num /\ Len(exported \o s) = Len(exported) + Len(s)
      BY <2>1, <3>2, <3>5
    <3>8. /\ n - Len(exported) \in 1 .. num
          /\ n - Len(exported) \in 1 .. Len(s)
          /\ m - Len(exported) \in (n - Len(exported)) + 1 .. Len(s)
          /\ n \in Len(exported) + 1 .. Len(exported) + Len(moved)
          /\ m \in Len(exported) + 1 .. Len(exported) + Len(s)
      BY <2>2, <3>4, <3>5, <3>7
    <3>9. exported'[n] = moved[n - Len(exported)]  BY <2>1, <3>2, <3>5, <3>8
    <3>10. (exported \o s)[m] = s[m - Len(exported)]  BY <2>1, <3>8
    <3>11. Before(s[n - Len(exported)], s[m - Len(exported)])  BY <3>1, <3>8 DEF InOrder
    <3> QED  BY <3>5, <3>8, <3>9, <3>10, <3>11
  <2> HIDE DEF A
  <2>5. exported' = exported \/ ExportSelectedClauses
    BY <1>1 DEF Next, Learn, LearnUnit, vars, exportVars
  <2> QED  BY <2>3, <2>4, <2>5
<1>2. BufferInv /\ [Next]_vars => [A]_vars  BY <1>1
<1> QED  BY <1>2, BufferInvariant, PTL DEF Spec, ShortestAndOldestFirst
=============================================================================
