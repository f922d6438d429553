---------------------------- MODULE SearchTheorems -----------------------------
(***************************************************************************)
(* The inductive invariant is kept by what all solvers do, by the search   *)
(* of the MiniSat family and by that of Kissat: the lemmas about literals  *)
(* and the trail, and one lemma for each action.  So it is always true,    *)
(* and what the search promises follows from it.                           *)
(***************************************************************************)
EXTENDS SearchInvariant, Induction

-----------------------------------------------------------------------------
(* Literals                                                                *)

\* Taking the complement twice gives the literal back; there are finitely many.
LEMMA Literals ==
  /\ \A l \in Literal : -l \in Literal /\ -(-l) = l /\ l # -l /\ l \in Int
  /\ IsFiniteSet(Literal)
<1>1. IsFiniteSet(-NumVars .. NumVars)
  <2>1. -NumVars \in Int /\ NumVars \in Int  BY NumVarsAssumption
  <2> QED  BY <2>1, FS_Interval
<1>2. IsFiniteSet(Literal)  BY <1>1, FS_Subset DEF Literal
<1> QED  BY <1>2, NumVarsAssumption DEF Literal

\* What the size of a set of literals says about its members.
LEMMA Two ==
  ASSUME NEW S \in SUBSET Literal
  PROVE  /\ IsFiniteSet(S) /\ Cardinality(S) \in Nat
         /\ Cardinality(S) > 1 <=> \E a, b \in S : a # b
         /\ Cardinality(S) < 2 <=> \A a, b \in S : a = b
         /\ Cardinality(S) > 0 <=> S # {}
<1>1. IsFiniteSet(S) /\ Cardinality(S) \in Nat  BY Literals, FS_Subset, FS_CardinalityType
<1>2. ASSUME NEW a \in S, NEW b \in S, a # b
      PROVE  Cardinality(S) > 1
  <2>1. Cardinality({a, b}) = 2
    <3>1. IsFiniteSet({a}) /\ Cardinality({a}) = 1  BY FS_Singleton
    <3>2. Cardinality({a} \cup {b}) = 2  BY <1>2, <3>1, FS_AddElement
    <3>3. {a} \cup {b} = {a, b}  OBVIOUS
    <3> QED  BY <3>2, <3>3
  <2>2. {a, b} \subseteq S  OBVIOUS
  <2> QED  BY <1>1, <2>1, <2>2, FS_Subset
<1>3. ASSUME \A a, b \in S : a = b
      PROVE  Cardinality(S) <= 1
  <2>1. CASE S = {}  BY <2>1, FS_EmptySet
  <2>2. CASE S # {}
    <3>1. PICK a : S = {a}  BY <1>3, <2>2
    <3> QED  BY <3>1, FS_Singleton
  <2> QED  BY <2>1, <2>2
<1>4. Cardinality(S) = 0 <=> S = {}  BY <1>1, FS_EmptySet
<1> QED  BY <1>1, <1>2, <1>3, <1>4

-----------------------------------------------------------------------------
(* The trail                                                               *)

\* Appending is concatenating with one entry.
LEMMA Appended ==
  ASSUME NEW S, NEW t \in Seq(S), NEW e \in S
  PROVE  /\ Append(t, e) = t \o <<e>>
         /\ <<e>> \in Seq(S)
OBVIOUS

\* Trails that agree up to n have the same entries there.
LEMMA SamePrefix ==
  ASSUME NEW t, NEW w, NEW n, \A j \in 1 .. n : w[j] = t[j]
  PROVE  EntriesUpTo(w, n) = EntriesUpTo(t, n)
<1>1. \A x : x \in EntriesUpTo(w, n) <=> x \in EntriesUpTo(t, n)  BY DEF EntriesUpTo
<1> QED  BY <1>1

\* Entries can be added if their variables are not assigned, and they are true in
\* every model or have a reason.
LEMMA TrailExtended ==
  ASSUME NEW models, NEW s, NEW t, NEW lim, TrailOK(t, lim, models, s),
         NEW u \in Seq(Entries), Distinct(u),
         \A i \in DOMAIN u :
           /\ u[i].level <= Len(lim)
           /\ s # "Kissat" => u[i].level = Len(lim)
           /\ \A j \in DOMAIN t : t[j].lit # u[i].lit /\ t[j].lit # -u[i].lit
           /\ u[i].level = 0 => \A a \in models : u[i].lit \in a
           /\ u[i].level > 0 =>
                u[i].reason # NoReason /\ Justified(u[i], EntriesUpTo(t, Len(t)), models, s)
  PROVE  TrailOK(t \o u, lim, models, s)
<1> DEFINE w == t \o u
<1> USE DEF TrailOK
<1>1. /\ w \in Seq(Entries) /\ Len(w) = Len(t) + Len(u)
      /\ DOMAIN t = 1 .. Len(t) /\ DOMAIN u = 1 .. Len(u) /\ DOMAIN w = 1 .. Len(w)
      /\ Len(t) \in Nat /\ Len(u) \in Nat
      /\ \A i \in DOMAIN t : w[i] = t[i]
      /\ \A i \in DOMAIN w \ DOMAIN t : i - Len(t) \in DOMAIN u /\ w[i] = u[i - Len(t)]
  OBVIOUS
<1> HIDE DEF w
<1>2. \A i \in DOMAIN w : w[i].level \in Nat /\ w[i].lit \in Literal
  <2>1. \A i \in DOMAIN w : w[i] \in Entries  BY <1>1
  <2> QED  BY <2>1 DEF Entries
<1>3. Distinct(w)
  <2> SUFFICES ASSUME NEW i \in DOMAIN w, NEW j \in DOMAIN w, i # j
               PROVE  w[i].lit # w[j].lit /\ w[i].lit # -w[j].lit
    BY DEF Distinct
  <2>1. CASE i \in DOMAIN t /\ j \in DOMAIN t  BY <1>1, <2>1 DEF Distinct
  <2>2. CASE i \notin DOMAIN t /\ j \notin DOMAIN t
    <3>1. i - Len(t) \in DOMAIN u /\ j - Len(t) \in DOMAIN u /\ i - Len(t) # j - Len(t)
      BY <1>1, <2>2
    <3> QED  BY <1>1, <2>2, <3>1 DEF Distinct
  <2>3. CASE i \in DOMAIN t /\ j \notin DOMAIN t  BY <1>1, <2>3
  <2>4. CASE i \notin DOMAIN t /\ j \in DOMAIN t
    <3>1. w[j].lit # w[i].lit /\ w[j].lit # -w[i].lit  BY <1>1, <2>4
    <3> QED  BY <3>1, <1>2, Literals
  <2> QED  BY <2>1, <2>2, <2>3, <2>4
<1>4. Limits(w, lim)  BY <1>1 DEF Limits
<1>5. Levels(w, lim)  BY <1>1, <1>2, SMTT(20) DEF Levels, Limits
<1>6. s # "Kissat" => InOrder(w, lim)  BY <1>1, <1>2, SMTT(20) DEF InOrder
<1>7. Decisions(w, lim)  BY <1>1, <1>2 DEF Decisions
<1>8. RootRight(w, models)  BY <1>1 DEF RootRight
<1>9. ReasonsRight(w, models, s)
  <2> SUFFICES ASSUME NEW i \in DOMAIN w, w[i].level > 0, w[i].reason # NoReason
               PROVE  Justified(w[i], EntriesUpTo(w, i - 1), models, s)
    BY DEF ReasonsRight
  <2>1. CASE i \in DOMAIN t
    <3>1. \A j \in 1 .. i - 1 : w[j] = t[j]  BY <1>1, <2>1, SMTT(20)
    <3>2. EntriesUpTo(w, i - 1) = EntriesUpTo(t, i - 1)  BY <3>1, SamePrefix
    <3> QED  BY <1>1, <2>1, <3>2 DEF ReasonsRight
  <2>2. CASE i \notin DOMAIN t
    <3>1. EntriesUpTo(t, Len(t)) \subseteq EntriesUpTo(w, i - 1)
      <4>1. i \in Nat /\ Len(t) < i  BY <1>1, <2>2
      <4>2. \A j \in 1 .. Len(t) : j \in 1 .. i - 1  BY <1>1, <4>1
      <4>3. \A j \in 1 .. Len(t) : w[j] = t[j]  BY <1>1
      <4> QED  BY <4>2, <4>3 DEF EntriesUpTo
    <3>2. Justified(w[i], EntriesUpTo(t, Len(t)), models, s)  BY <1>1, <2>2
    <3> QED  BY <3>1, <3>2 DEF Justified
  <2> QED  BY <2>1, <2>2
<1> QED  BY <1>1, <1>3, <1>4, <1>5, <1>6, <1>7, <1>8, <1>9 DEF w

\* A level begins with a decision, of a variable that is not assigned.
LEMMA TrailDecided ==
  ASSUME NEW models, NEW s, NEW t, NEW lim, TrailOK(t, lim, models, s),
         NEW e \in Entries, e.level = Len(lim) + 1, e.reason = NoReason,
         \A j \in DOMAIN t : t[j].lit # e.lit /\ t[j].lit # -e.lit
  PROVE  TrailOK(Append(t, e), Append(lim, Len(t)), models, s)
<1> DEFINE w == Append(t, e)  v == Append(lim, Len(t))
<1> USE DEF TrailOK
<1>1. /\ w \in Seq(Entries) /\ Len(w) = Len(t) + 1 /\ Len(t) \in Nat
      /\ DOMAIN t = 1 .. Len(t) /\ DOMAIN w = 1 .. Len(w)
      /\ \A i \in DOMAIN t : w[i] = t[i]
      /\ w[Len(t) + 1] = e
      /\ \A i \in DOMAIN w : i \notin DOMAIN t => i = Len(t) + 1
  OBVIOUS
<1>2. /\ v \in Seq(Nat) /\ Len(v) = Len(lim) + 1 /\ Len(lim) \in Nat
      /\ DOMAIN lim = 1 .. Len(lim) /\ DOMAIN v = 1 .. Len(v)
      /\ \A k \in DOMAIN lim : v[k] = lim[k] /\ lim[k] \in Nat
      /\ v[Len(lim) + 1] = Len(t)
      /\ \A k \in DOMAIN v : k \notin DOMAIN lim => k = Len(lim) + 1
  OBVIOUS
<1> HIDE DEF w, v
<1>3. \A i \in DOMAIN w : w[i].level \in Nat /\ w[i].lit \in Literal
  <2>1. \A i \in DOMAIN w : w[i] \in Entries  BY <1>1
  <2> QED  BY <2>1 DEF Entries
<1>4. Distinct(w)
  <2> SUFFICES ASSUME NEW i \in DOMAIN w, NEW j \in DOMAIN w, i # j
               PROVE  w[i].lit # w[j].lit /\ w[i].lit # -w[j].lit
    BY DEF Distinct
  <2>1. CASE i \in DOMAIN t /\ j \in DOMAIN t  BY <1>1, <2>1 DEF Distinct
  <2>2. CASE i \in DOMAIN t /\ j \notin DOMAIN t  BY <1>1, <2>2
  <2>3. CASE i \notin DOMAIN t /\ j \in DOMAIN t
    <3>1. w[j].lit # w[i].lit /\ w[j].lit # -w[i].lit  BY <1>1, <2>3
    <3> QED  BY <3>1, <1>3, Literals
  <2> QED  BY <1>1, <2>1, <2>2, <2>3
<1>5. Limits(w, v)
  <2> SUFFICES ASSUME NEW k \in DOMAIN v
               PROVE  /\ v[k] < Len(w)
                      /\ w[v[k] + 1].level = k
                      /\ w[v[k] + 1].reason = NoReason
                      /\ \A j \in 1 .. k - 1 : v[j] < v[k]
    BY DEF Limits
  <2>1. CASE k \in DOMAIN lim
    <3>1. /\ lim[k] < Len(t)
          /\ t[lim[k] + 1].level = k
          /\ t[lim[k] + 1].reason = NoReason
          /\ \A j \in 1 .. k - 1 : lim[j] < lim[k]
      BY <2>1 DEF Limits
    <3>2. v[k] = lim[k] /\ v[k] \in Nat  BY <1>2, <2>1
    <3>3. v[k] + 1 \in DOMAIN t  BY <1>1, <3>1, <3>2
    <3>4. \A j \in 1 .. k - 1 : v[j] = lim[j]  BY <1>2, <2>1
    <3>5. v[k] < Len(w)  BY <1>1, <3>1, <3>2
    <3> QED  BY <1>1, <3>1, <3>2, <3>3, <3>4, <3>5
  <2>2. CASE k \notin DOMAIN lim
    <3>1. k = Len(lim) + 1  BY <1>2, <2>2
    <3>2. \A j \in 1 .. k - 1 : j \in DOMAIN lim  BY <1>2, <3>1
    <3>3. \A j \in 1 .. k - 1 : v[j] < Len(t)  BY <1>2, <3>2 DEF Limits
    <3>4. v[k] = Len(t) /\ v[k] + 1 = Len(t) + 1  BY <1>2, <3>1
    <3> QED  BY <1>1, <3>1, <3>3, <3>4
  <2> QED  BY <2>1, <2>2
<1>6. Levels(w, v)
  <2> SUFFICES ASSUME NEW i \in DOMAIN w
               PROVE  /\ w[i].level <= Len(v)
                      /\ \A k \in DOMAIN v : i <= v[k] => w[i].level < k
    BY DEF Levels
  <2>1. CASE i \in DOMAIN t
    <3>1. w[i] = t[i] /\ t[i].level <= Len(lim)  BY <1>1, <2>1 DEF Levels
    <3>2. w[i].level \in Nat  BY <1>3
    <3>3. ASSUME NEW k \in DOMAIN v, i <= v[k]  PROVE w[i].level < k
      <4>1. CASE k \in DOMAIN lim  BY <1>1, <1>2, <2>1, <3>3, <4>1 DEF Levels
      <4>2. CASE k \notin DOMAIN lim  BY <1>2, <3>1, <3>2, <4>2
      <4> QED  BY <4>1, <4>2
    <3> QED  BY <1>2, <3>1, <3>2, <3>3
  <2>2. CASE i \notin DOMAIN t
    <3>1. i = Len(t) + 1 /\ w[i] = e  BY <1>1, <2>2
    <3>2. \A k \in DOMAIN v : v[k] <= Len(t) /\ v[k] \in Nat  BY <1>1, <1>2 DEF Limits
    <3> QED  BY <1>1, <1>2, <3>1, <3>2
  <2> QED  BY <2>1, <2>2
<1>7. s # "Kissat" => InOrder(w, v)
  <2> SUFFICES ASSUME s # "Kissat", NEW i \in DOMAIN w, NEW k \in DOMAIN v, w[i].level < k
               PROVE  i <= v[k]
    BY DEF InOrder
  <2>1. CASE i \in DOMAIN t /\ k \in DOMAIN lim  BY <1>1, <1>2, <2>1 DEF InOrder
  <2>2. CASE i \in DOMAIN t /\ k \notin DOMAIN lim  BY <1>1, <1>2, <2>2
  <2>3. CASE i \notin DOMAIN t  BY <1>1, <1>2, <2>3
  <2> QED  BY <2>1, <2>2, <2>3
<1>8. Decisions(w, v)
  <2> SUFFICES ASSUME NEW i \in DOMAIN w, w[i].level > 0, w[i].reason = NoReason
               PROVE  i = v[w[i].level] + 1
    BY DEF Decisions
  <2>1. CASE i \in DOMAIN t
    <3>1. w[i] = t[i] /\ i = lim[t[i].level] + 1  BY <1>1, <2>1 DEF Decisions
    <3>2. t[i].level \in DOMAIN lim  BY <1>1, <1>2, <1>3, <2>1, <3>1 DEF Levels
    <3> QED  BY <1>2, <3>1, <3>2
  <2>2. CASE i \notin DOMAIN t  BY <1>1, <1>2, <2>2
  <2> QED  BY <2>1, <2>2
<1>9. RootRight(w, models)  BY <1>1, <1>2, SMTT(20) DEF RootRight
<1>10. ReasonsRight(w, models, s)
  <2> SUFFICES ASSUME NEW i \in DOMAIN w, w[i].level > 0, w[i].reason # NoReason
               PROVE  Justified(w[i], EntriesUpTo(w, i - 1), models, s)
    BY DEF ReasonsRight
  <2>1. i \in DOMAIN t  BY <1>1
  <2>2. \A j \in 1 .. i - 1 : w[j] = t[j]
    <3>1. \A j \in 1 .. i - 1 : j \in DOMAIN t  BY <1>1, <2>1
    <3> QED  BY <1>1, <3>1
  <2>3. EntriesUpTo(w, i - 1) = EntriesUpTo(t, i - 1)  BY <2>2, SamePrefix
  <2> QED  BY <1>1, <2>1, <2>3 DEF ReasonsRight
<1> QED  BY <1>1, <1>2, <1>4, <1>5, <1>6, <1>7, <1>8, <1>9, <1>10 DEF w, v

\* k is what stays of a trail t when the search goes back to a level: all that was
\* assigned before the next level began, and what has no higher level.
Retains(k, t, lim, level, m) ==
  /\ k \in Seq(Entries)
  /\ m \in [DOMAIN k -> DOMAIN t]
  /\ \A i, j \in DOMAIN k : i < j => m[i] < m[j]
  /\ \A i \in 1 .. Limit(t, lim, level + 1, Len(t)) : i \in DOMAIN k /\ m[i] = i
  /\ \A i \in DOMAIN k : k[i] = t[m[i]] /\ t[m[i]].level <= level
  /\ \A p \in DOMAIN t : t[p].level <= level => \E i \in DOMAIN k : m[i] = p

\* A trail from which the higher levels are taken is one of the lower level.
LEMMA TrailCut ==
  ASSUME NEW models, NEW s, NEW t, NEW lim, TrailOK(t, lim, models, s),
         NEW level \in 0 .. Len(lim), NEW k, NEW m, Retains(k, t, lim, level, m)
  PROVE  TrailOK(k, SubSeq(lim, 1, level), models, s)
<1> DEFINE v == SubSeq(lim, 1, level)
           end == Limit(t, lim, level + 1, Len(t))
<1> USE DEF TrailOK, Retains
<1>1. /\ Len(t) \in Nat /\ Len(k) \in Nat
      /\ DOMAIN t = 1 .. Len(t) /\ DOMAIN k = 1 .. Len(k)
  OBVIOUS
<1>2. /\ v \in Seq(Nat) /\ Len(v) = level /\ level \in Nat /\ Len(lim) \in Nat
      /\ DOMAIN lim = 1 .. Len(lim) /\ DOMAIN v = 1 .. level
      /\ \A j \in DOMAIN v : j \in DOMAIN lim /\ v[j] = lim[j] /\ lim[j] \in Nat
  OBVIOUS
<1>3. \A i \in DOMAIN t : t[i].level \in Nat /\ t[i].lit \in Literal
  <2>1. \A i \in DOMAIN t : t[i] \in Entries  BY <1>1
  <2> QED  BY <2>1 DEF Entries
<1>4. end \in 0 .. Len(t) /\ \A j \in DOMAIN v : v[j] < end
  <2>1. CASE level = Len(lim)  BY <1>1, <1>2, <2>1 DEF Limit, Limits
  <2>2. CASE level < Len(lim)
    <3>1. level + 1 \in DOMAIN lim /\ end = lim[level + 1]  BY <1>2, <2>2 DEF Limit
    <3>2. \A j \in DOMAIN v : j \in 1 .. (level + 1) - 1  BY <1>2
    <3>3. lim[level + 1] < Len(t) /\ \A j \in 1 .. (level + 1) - 1 : lim[j] < lim[level + 1]
      BY <3>1 DEF Limits
    <3>4. lim[level + 1] \in Nat  BY <1>2, <3>1
    <3>5. end \in 0 .. Len(t)  BY <1>1, <3>1, <3>3, <3>4
    <3> QED  BY <1>2, <3>1, <3>2, <3>3, <3>5
  <2> QED  BY <2>1, <2>2
<1>5. \A i \in DOMAIN k : m[i] \in DOMAIN t /\ k[i] = t[m[i]] /\ k[i].level <= level
  OBVIOUS
<1>6. \A i \in 1 .. end : i \in DOMAIN k /\ m[i] = i /\ k[i] = t[i]  OBVIOUS
<1>7. \A i, j \in DOMAIN k : (i < j <=> m[i] < m[j]) /\ (i # j => m[i] # m[j])
  BY <1>1, <1>5
<1>8. \A i \in DOMAIN k : i > end => m[i] > end
  <2> SUFFICES ASSUME NEW i \in DOMAIN k, i > end PROVE m[i] > end  OBVIOUS
  <2>1. CASE end = 0  BY <1>1, <1>5, <2>1
  <2>2. CASE end > 0
    <3>1. end \in 1 .. end  BY <1>4, <2>2
    <3>2. end \in DOMAIN k /\ m[end] = end /\ end < i  BY <1>6, <3>1
    <3> QED  BY <1>7, <3>2
  <2> QED  BY <1>4, <2>1, <2>2
<1> HIDE DEF v, end
<1>9. Distinct(k)  BY <1>5, <1>7 DEF Distinct
<1>10. Limits(k, v)
  <2> SUFFICES ASSUME NEW j \in DOMAIN v
               PROVE  /\ v[j] < Len(k)
                      /\ k[v[j] + 1].level = j
                      /\ k[v[j] + 1].reason = NoReason
                      /\ \A l \in 1 .. j - 1 : v[l] < v[j]
    BY DEF Limits
  <2>1. v[j] + 1 \in 1 .. end  BY <1>2, <1>4
  <2>2. v[j] + 1 \in DOMAIN k /\ k[v[j] + 1] = t[lim[j] + 1]  BY <1>2, <1>6, <2>1
  <2>3. \A l \in 1 .. j - 1 : l \in DOMAIN v  BY <1>2
  <2>4. /\ t[lim[j] + 1].level = j
        /\ t[lim[j] + 1].reason = NoReason
        /\ \A l \in 1 .. j - 1 : lim[l] < lim[j]
    BY <1>2 DEF Limits
  <2>5. v[j] < Len(k)  BY <1>1, <1>2, <2>2
  <2> QED  BY <1>2, <2>2, <2>3, <2>4, <2>5
<1>11. Levels(k, v)
  <2> SUFFICES ASSUME NEW i \in DOMAIN k, NEW j \in DOMAIN v, i <= v[j]
               PROVE  k[i].level < j
    BY <1>2, <1>5 DEF Levels
  <2>1. i \in 1 .. end  BY <1>1, <1>2, <1>4
  <2> QED  BY <1>2, <1>6, <1>5, <2>1 DEF Levels
<1>12. s # "Kissat" => InOrder(k, v)
  <2> SUFFICES ASSUME s # "Kissat", NEW i \in DOMAIN k, NEW j \in DOMAIN v, k[i].level < j
               PROVE  i <= v[j]
    BY DEF InOrder
  <2>1. m[i] <= v[j]  BY <1>2, <1>5 DEF InOrder
  <2>2. m[i] < end  BY <1>1, <1>2, <1>4, <1>5, <2>1
  <2>3. i <= end
    <3>1. i \in Nat /\ end \in Nat /\ m[i] \in Nat  BY <1>1, <1>4, <1>5
    <3>2. ~(m[i] > end)  BY ONLY <2>2, <3>1
    <3>3. ~(i > end)  BY <1>8, <3>2
    <3> QED  BY ONLY <3>1, <3>3
  <2>4. m[i] = i  BY <1>1, <1>6, <2>3
  <2> QED  BY <2>1, <2>4
<1>13. Decisions(k, v)
  <2> SUFFICES ASSUME NEW i \in DOMAIN k, k[i].level > 0, k[i].reason = NoReason
               PROVE  i = v[k[i].level] + 1
    BY DEF Decisions
  <2>1. m[i] = lim[k[i].level] + 1  BY <1>5 DEF Decisions
  <2>2. k[i].level \in DOMAIN v  BY <1>2, <1>3, <1>5
  <2>3. m[i] = v[k[i].level] + 1 /\ m[i] \in Nat  BY <1>1, <1>2, <1>5, <2>1, <2>2, SMTT(20)
  <2>6. v[k[i].level] < end /\ v[k[i].level] \in Nat  BY <1>2, <1>4, <2>2
  <2>7. m[i] <= end  BY <1>4, <2>3, <2>6
  <2>8. i \in Nat /\ end \in Nat  BY <1>1, <1>4
  <2>9. i > end => m[i] > end  BY <1>8
  <2>4. i <= end  BY <2>3, <2>7, <2>8, <2>9
  <2>5. m[i] = i  BY <1>1, <1>6, <2>4
  <2> QED  BY <2>3, <2>5
<1>14. RootRight(k, models)  BY <1>5 DEF RootRight
<1>15. ReasonsRight(k, models, s)
  <2> SUFFICES ASSUME NEW i \in DOMAIN k, k[i].level > 0, k[i].reason # NoReason
               PROVE  Justified(k[i], EntriesUpTo(k, i - 1), models, s)
    BY DEF ReasonsRight
  <2>1. Justified(k[i], EntriesUpTo(t, m[i] - 1), models, s)  BY <1>5 DEF ReasonsRight
  <2>2. ASSUME NEW b \in EntriesUpTo(t, m[i] - 1), b.level <= k[i].level
        PROVE  b \in EntriesUpTo(k, i - 1)
    <3>1. PICK p \in 1 .. m[i] - 1 : b = t[p]  BY DEF EntriesUpTo
    <3>0. m[i] \in DOMAIN t  BY <1>5
    <3>8. m[i] \in 1 .. Len(t)  BY <1>1, <3>0
    <3>6. p \in DOMAIN t  BY <1>1, <3>8, <3>1
    <3>7. t[p].level \in Nat /\ k[i].level \in Nat /\ k[i].level <= level /\ level \in Nat
      BY <1>2, <1>3, <1>5, <3>6
    <3>2. p \in DOMAIN t /\ t[p].level <= level  BY <2>2, <3>1, <3>6, <3>7
    <3>3. PICK j \in DOMAIN k : m[j] = p  BY <3>2
    <3>4. j < i  BY <1>1, <1>7, <3>1, <3>3, <3>8
    <3>5. j \in 1 .. i - 1 /\ k[j] = b  BY <1>1, <1>5, <3>1, <3>3, <3>4
    <3> QED  BY <3>5 DEF EntriesUpTo
  <2>3. k[i].level <= k[i].level  BY <1>3, <1>5
  <2> QED  BY <2>1, <2>2, <2>3 DEF Justified
<1> QED  BY <1>2, <1>9, <1>10, <1>11, <1>12, <1>13, <1>14, <1>15 DEF v

\* The trail is cut where the next level begins.
LEMMA CutAtLimit ==
  ASSUME TrailInv, NEW level, level \in 0 .. Level
  PROVE  /\ CutAt(level) = Limit(trail, trailLim, level + 1, Len(trail))
         /\ CutAt(level) \in 0 .. Len(trail)
<1> USE DEF TrailInv, TrailOK, Level
<1>1. trailLim \in Seq(Nat) /\ Len(trail) \in Nat /\ level \in 0 .. Len(trailLim)
  OBVIOUS
<1>2. CASE level = Len(trailLim)
  <2>1. level + 1 \notin DOMAIN trailLim  BY <1>1, <1>2
  <2> QED  BY <1>1, <1>2, <2>1 DEF CutAt, Limit
<1>3. CASE level # Len(trailLim)
  <2>1. level + 1 \in DOMAIN trailLim  BY ONLY <1>1, <1>3
  <2>2. trailLim[level + 1] \in Nat /\ trailLim[level + 1] < Len(trail)
    BY <2>1 DEF Limits
  <2> QED  BY <1>1, <1>3, <2>1, <2>2 DEF CutAt, Limit
<1> QED  BY <1>2, <1>3

\* Kept takes the entries one by one.
LEMMA KeptRecursion ==
  ASSUME TrailInv, NEW level, level \in 0 .. Level
  PROVE  \E f :
           /\ Kept(level) = f[Len(trail)]
           /\ \A n \in CutAt(level) .. Len(trail) :
                f[n] = IF n = CutAt(level) THEN SubSeq(trail, 1, n)
                       ELSE IF trail[n].level <= level THEN Append(f[n - 1], trail[n])
                       ELSE f[n - 1]
<1> DEFINE a == CutAt(level)
           b == Len(trail)
           Body(f) == [n \in a .. b |->
                         IF n = a THEN SubSeq(trail, 1, n)
                         ELSE IF trail[n].level <= level THEN Append(f[n - 1], trail[n])
                         ELSE f[n - 1]]
           D == [p \in Nat \X Seq(Entries) |->
                   IF p[1] \in DOMAIN trail /\ trail[p[1]].level <= level
                   THEN Append(p[2], trail[p[1]]) ELSE p[2]]
           F == CHOOSE f : f = Body(f)
<1>1. trail \in Seq(Entries) /\ b \in Nat /\ a \in 0 .. b /\ DOMAIN trail = 1 .. b
  BY CutAtLimit DEF TrailInv, TrailOK
<1>2. SubSeq(trail, 1, a) \in Seq(Entries)  BY <1>1
<1>3. D \in [Nat \X Seq(Entries) -> Seq(Entries)]  BY <1>1
<1>4. PICK g \in [a .. b -> Seq(Entries)] :
         \A n \in a .. b : g[n] = IF n = a THEN SubSeq(trail, 1, a) ELSE D[<<n, g[n - 1]>>]
  <2> DEFINE X == Seq(Entries)  c == SubSeq(trail, 1, a)
  <2>1. a \in Nat /\ b \in Nat /\ c \in X /\ D \in [Nat \X X -> X]  BY <1>1, <1>2, <1>3
  <2> HIDE DEF a, b, D, X, c
  <2>2. \E g : IsRecursive(g, a, b, X, c, D)  BY <2>1, Recursion
  <2> QED  BY <2>2 DEF X, c, IsRecursive
<1>5. g = Body(g)
  <2> SUFFICES ASSUME NEW n \in a .. b
               PROVE  g[n] = IF n = a THEN SubSeq(trail, 1, n)
                             ELSE IF trail[n].level <= level THEN Append(g[n - 1], trail[n])
                             ELSE g[n - 1]
    OBVIOUS
  <2>1. CASE n = a  BY <1>4, <2>1
  <2>2. CASE n # a
    <3>1. n - 1 \in a .. b /\ n \in DOMAIN trail /\ n \in Nat  BY <1>1, <2>2
    <3>2. <<n, g[n - 1]>> \in Nat \X Seq(Entries)  BY <3>1
    <3> QED  BY <1>4, <2>2, <3>1, <3>2
  <2> QED  BY <2>1, <2>2
<1>6. F = Body(F)
  <2> HIDE DEF Body
  <2> QED  BY <1>5
<1>7. Kept(level) = F[b]  BY DEF Kept
<1>8. \A n \in a .. b :
         F[n] = IF n = a THEN SubSeq(trail, 1, n)
                ELSE IF trail[n].level <= level THEN Append(F[n - 1], trail[n])
                ELSE F[n - 1]
  <2> HIDE DEF F, a, b
  <2> QED  BY <1>6
<1> HIDE DEF F, Body, D
<1> QED  BY <1>7, <1>8

\* Kissat keeps the entries of the level it goes back to and of lower ones.
LEMMA KeptRetains ==
  ASSUME TrailInv, NEW level, level \in 0 .. Level
  PROVE  \E m : Retains(Kept(level), trail, trailLim, level, m)
<1> DEFINE a == CutAt(level)
           b == Len(trail)
<1>1. trail \in Seq(Entries) /\ b \in Nat /\ a \in 0 .. b /\ a \in Nat
  BY CutAtLimit DEF TrailInv, TrailOK
<1>2. \A i \in 1 .. a : i \in DOMAIN trail /\ trail[i].level <= level
  <2>1. \A i \in 1 .. a : i \in DOMAIN trail  BY <1>1
  <2>2. \A i \in DOMAIN trail : trail[i].level \in Nat
    <3>1. \A i \in DOMAIN trail : trail[i] \in Entries  BY <1>1
    <3> QED  BY <3>1 DEF Entries
  <2>3. trailLim \in Seq(Nat) /\ level \in 0 .. Len(trailLim)
    BY DEF TrailInv, TrailOK, Level
  <2>4. CASE level = Len(trailLim)  BY <2>1, <2>4 DEF TrailInv, TrailOK, Levels
  <2>5. CASE level # Len(trailLim)
    <3>1. level + 1 \in DOMAIN trailLim  BY ONLY <2>3, <2>5
    <3>2. a = trailLim[level + 1]  BY <3>1, CutAtLimit DEF Limit
    <3>3. \A i \in 1 .. a : trail[i].level < level + 1
      <4> HIDE DEF a
      <4>1. \A i \in DOMAIN trail : i <= trailLim[level + 1] => trail[i].level < level + 1
        BY <3>1 DEF TrailInv, TrailOK, Levels
      <4> QED  BY <4>1, <3>2, <2>1, <1>1
    <3>4. level \in Nat  BY <2>3
    <3> QED  BY <2>1, <2>2, <3>3, <3>4
  <2> QED  BY <2>4, <2>5
<1>3. PICK f :
         /\ Kept(level) = f[b]
         /\ \A n \in a .. b :
              f[n] = IF n = a THEN SubSeq(trail, 1, n)
                     ELSE IF trail[n].level <= level THEN Append(f[n - 1], trail[n])
                     ELSE f[n - 1]
  BY KeptRecursion
<1> DEFINE Good(k, n, m) ==
             /\ k \in Seq(Entries)
             /\ m \in [DOMAIN k -> 1 .. n]
             /\ \A i, j \in DOMAIN k : i < j => m[i] < m[j]
             /\ \A i \in 1 .. a : i \in DOMAIN k /\ m[i] = i
             /\ \A i \in DOMAIN k : k[i] = trail[m[i]] /\ trail[m[i]].level <= level
             /\ \A p \in 1 .. n : trail[p].level <= level => \E i \in DOMAIN k : m[i] = p
           S == {n \in a .. b : \E m : Good(f[n], n, m)}
<1> HIDE DEF a, b
<1>4. a \in S
  <2> DEFINE k == SubSeq(trail, 1, a)  m == [i \in 1 .. a |-> i]
  <2>0. a \in a .. b  BY <1>1
  <2>1. f[a] = k
    <3> HIDE DEF Good, S, m
    <3> QED  BY <2>0, <1>3
  <2>2. k \in Seq(Entries) /\ DOMAIN k = 1 .. a /\ \A i \in 1 .. a : k[i] = trail[i]
    BY <1>1 DEF b
  <2> HIDE DEF k
  <2>3. Good(k, a, m)  BY <1>1, <1>2, <2>2
  <2> HIDE DEF Good, m
  <2> QED  BY <2>0, <2>1, <2>3
<1>5. ASSUME NEW n \in a + 1 .. b, n - 1 \in S
      PROVE  n \in S
  <2>1. PICK m : Good(f[n - 1], n - 1, m)  BY <1>5
  <2> DEFINE k == f[n - 1]
  <2>2. /\ n \in DOMAIN trail /\ n \in a .. b /\ n # a /\ n \in Nat /\ n - 1 \in Nat
        /\ trail[n] \in Entries
    BY <1>1 DEF b
  <2>3. CASE trail[n].level <= level
    <3> DEFINE l == Append(k, trail[n])
               o == [i \in DOMAIN l |-> IF i \in DOMAIN k THEN m[i] ELSE n]
    <3>1. f[n] = l  BY <1>3, <2>2, <2>3
    <3>2. /\ l \in Seq(Entries) /\ Len(k) \in Nat
          /\ DOMAIN k = 1 .. Len(k) /\ DOMAIN l = 1 .. Len(k) + 1
          /\ \A i \in DOMAIN k : l[i] = k[i] /\ i \in DOMAIN l
          /\ l[Len(k) + 1] = trail[n]
          /\ \A i \in DOMAIN l : i \notin DOMAIN k => i = Len(k) + 1
          /\ Len(k) + 1 \in DOMAIN l /\ Len(k) + 1 \notin DOMAIN k
      <4>1. k \in Seq(Entries)  BY <2>1
      <4> HIDE DEF k
      <4> QED  BY <4>1, <2>2
    <3>3. /\ \A i \in DOMAIN k : o[i] = m[i] /\ m[i] \in 1 .. n - 1
          /\ o[Len(k) + 1] = n
      BY <2>1, <3>2
    <3> HIDE DEF k, l
    <3>10. 1 .. n - 1 \subseteq 1 .. n /\ n \in 1 .. n  BY <1>1, <2>2
    <3>11. \A i \in DOMAIN l : o[i] \in 1 .. n
      BY <3>2, <3>3, <3>10
    <3>4. o \in [DOMAIN l -> 1 .. n]  BY <3>11
    <3> HIDE DEF o
    <3>5. \A i, j \in DOMAIN l : i < j => o[i] < o[j]
      <4> SUFFICES ASSUME NEW i \in DOMAIN l, NEW j \in DOMAIN l, i < j
                   PROVE  o[i] < o[j]
        OBVIOUS
      <4>1. i \in DOMAIN k  BY <3>2
      <4>2. CASE j \in DOMAIN k  BY <2>1, <3>3, <4>1, <4>2 DEF k
      <4>3. CASE j \notin DOMAIN k  BY <2>2, <3>2, <3>3, <4>1, <4>3
      <4> QED  BY <4>2, <4>3
    <3>6. \A i \in 1 .. a : i \in DOMAIN l /\ o[i] = i  BY <2>1, <3>2, <3>3 DEF k
    <3>7. \A i \in DOMAIN l : l[i] = trail[o[i]] /\ trail[o[i]].level <= level
      BY <2>1, <2>3, <3>2, <3>3 DEF k
    <3>8. \A p \in 1 .. n : trail[p].level <= level => \E i \in DOMAIN l : o[i] = p
      <4> SUFFICES ASSUME NEW p \in 1 .. n, trail[p].level <= level
                   PROVE  \E i \in DOMAIN l : o[i] = p
        OBVIOUS
      <4>1. CASE p = n  BY <3>2, <3>3, <4>1
      <4>2. CASE p # n
        <5>1. p \in 1 .. n - 1  BY <2>2, <4>2
        <5>2. PICK i \in DOMAIN k : m[i] = p  BY <2>1, <5>1 DEF k
        <5> QED  BY <3>2, <3>3, <5>2
      <4> QED  BY <4>1, <4>2
    <3>9. Good(l, n, o)  BY <3>2, <3>4, <3>5, <3>6, <3>7, <3>8
    <3> QED  BY <2>2, <3>1, <3>9, SMTT(20)
  <2>4. CASE ~(trail[n].level <= level)
    <3>1. f[n] = k  BY <1>3, <2>2, <2>4
    <3>2. 1 .. n - 1 \subseteq 1 .. n /\ \A p \in 1 .. n : p # n => p \in 1 .. n - 1  BY <2>2
    <3>3. Good(k, n, m)
      <4>1. m \in [DOMAIN k -> 1 .. n]  BY <2>1, <3>2
      <4>2. \A p \in 1 .. n : trail[p].level <= level => \E i \in DOMAIN k : m[i] = p
        BY <2>1, <2>4, <3>2
      <4> QED  BY <2>1, <4>1, <4>2
    <3> QED  BY <2>2, <3>1, <3>3
  <2> QED  BY <2>3, <2>4
<1>6. a .. b \subseteq S
  <2> HIDE DEF S
  <2> QED  BY <1>1, <1>4, <1>5, RangeInduction
<1>7. b \in a .. b  BY <1>1
<1>8. PICK m : Good(f[b], b, m)  BY <1>6, <1>7
<1>9. DOMAIN trail = 1 .. b  BY <1>1 DEF b
<1>10. Limit(trail, trailLim, level + 1, Len(trail)) = a  BY CutAtLimit DEF a
<1> QED  BY <1>3, <1>8, <1>9, <1>10 DEF Retains

\* Where levels are in order, what stays is what was assigned before the next one.
LEMMA PrefixRetains ==
  ASSUME NEW models, NEW s, NEW t, NEW lim, TrailOK(t, lim, models, s), s # "Kissat",
         NEW level \in 0 .. Len(lim)
  PROVE  \E m : Retains(SubSeq(t, 1, Limit(t, lim, level + 1, Len(t))), t, lim, level, m)
<1> DEFINE a == Limit(t, lim, level + 1, Len(t))
           k == SubSeq(t, 1, a)
           m == [i \in 1 .. a |-> i]
<1>1. /\ t \in Seq(Entries) /\ lim \in Seq(Nat) /\ Len(t) \in Nat /\ level \in Nat
      /\ Limits(t, lim) /\ Levels(t, lim) /\ InOrder(t, lim)
      /\ level \in 0 .. Len(lim)
  BY DEF TrailOK
<1>2. \A i \in DOMAIN t : t[i].level \in Nat
  <2>1. \A i \in DOMAIN t : t[i] \in Entries  BY <1>1
  <2> QED  BY <2>1 DEF Entries
<1>3. a \in 0 .. Len(t) /\ \A i \in DOMAIN t : t[i].level <= level <=> i <= a
  <2>1. CASE level = Len(lim)
    <3>1. level + 1 \notin DOMAIN lim  BY <1>1, <2>1
    <3>2. a = Len(t)  BY <3>1 DEF Limit
    <3> QED  BY <1>1, <2>1, <3>2 DEF Levels
  <2>2. CASE level # Len(lim)
    <3>1. level + 1 \in DOMAIN lim  BY ONLY <1>1, <2>2
    <3>2. a = lim[level + 1]  BY <3>1 DEF Limit
    <3>3. a \in Nat /\ a < Len(t)  BY <1>1, <3>1, <3>2 DEF Limits
    <3>4. \A i \in DOMAIN t : t[i].level < level + 1 <=> i <= lim[level + 1]
      BY <1>1, <3>1 DEF Levels, InOrder
    <3> HIDE DEF a
    <3>5. \A i \in DOMAIN t : t[i].level < level + 1 <=> t[i].level <= level
      BY <1>1, <1>2
    <3> QED  BY <1>1, <3>2, <3>3, <3>4, <3>5
  <2> QED  BY <2>1, <2>2
<1> HIDE DEF a
<1>4. k \in Seq(Entries) /\ DOMAIN k = 1 .. a /\ \A i \in 1 .. a : k[i] = t[i] /\ i \in DOMAIN t
  BY <1>1, <1>3
<1> HIDE DEF k
<1>5. m \in [DOMAIN k -> DOMAIN t]  BY <1>4
<1>6. \A p \in DOMAIN t : p <= a => p \in DOMAIN k /\ m[p] = p  BY <1>1, <1>3, <1>4
<1>7. \A i \in DOMAIN k : m[i] = i /\ i \in DOMAIN t /\ i <= a /\ k[i] = t[i]  BY <1>1, <1>3, <1>4
<1>8. Retains(k, t, lim, level, m)
  <2> HIDE DEF m
  <2>1. \A i \in 1 .. a : i \in DOMAIN k /\ m[i] = i  BY <1>4, <1>7
  <2>2. \A i, j \in DOMAIN k : i < j => m[i] < m[j]  BY <1>7
  <2>3. \A i \in DOMAIN k : k[i] = t[m[i]] /\ t[m[i]].level <= level  BY <1>3, <1>7
  <2>4. \A p \in DOMAIN t : t[p].level <= level => \E i \in DOMAIN k : m[i] = p
    BY <1>3, <1>6
  <2> QED  BY <1>4, <1>5, <2>1, <2>2, <2>3, <2>4 DEF Retains, a
<1> QED  BY <1>8 DEF a, k

\* What is true below a level, or was made false before one began, is so after going
\* back to the level before.
LEMMA CutFacts ==
  ASSUME NEW models, NEW s, NEW t, NEW lim, TrailOK(t, lim, models, s),
         NEW level \in 0 .. Len(lim), NEW k, NEW m, Retains(k, t, lim, level, m)
  PROVE  /\ \A j \in 0 .. level + 1 : TrueBelow(k, j) = TrueBelow(t, j)
         /\ \A n \in 0 .. Limit(t, lim, level + 1, Len(t)) : FalseIn(k, n) = FalseIn(t, n)
         /\ \A i \in DOMAIN k : \E p \in DOMAIN t : k[i] = t[p] /\ t[p].level <= level
         /\ \A p \in DOMAIN t : t[p].level <= level => \E i \in DOMAIN k : k[i] = t[p]
<1>1. \A i \in DOMAIN k : m[i] \in DOMAIN t /\ k[i] = t[m[i]] /\ t[m[i]].level <= level
  BY DEF Retains
<1>2. \A p \in DOMAIN t : t[p].level <= level => \E i \in DOMAIN k : k[i] = t[p]
  BY <1>1 DEF Retains
<1>3. \A p \in DOMAIN t : t[p].level \in Nat
  <2>1. \A i \in DOMAIN t : t[i] \in Entries  BY DEF TrailOK
  <2> QED  BY <2>1 DEF Entries
<1>4. ASSUME NEW j \in 0 .. level + 1
      PROVE  TrueBelow(k, j) = TrueBelow(t, j)
  <2>1. ASSUME NEW l \in TrueBelow(k, j)
        PROVE  l \in TrueBelow(t, j)
    <3>1. PICK i \in DOMAIN k : k[i].level < j /\ l = k[i].lit  BY DEF TrueBelow
    <3> QED  BY <1>1, <3>1 DEF TrueBelow
  <2>2. ASSUME NEW l \in TrueBelow(t, j)
        PROVE  l \in TrueBelow(k, j)
    <3>1. PICK p \in DOMAIN t : t[p].level < j /\ l = t[p].lit  BY DEF TrueBelow
    <3>2. t[p].level <= level  BY <1>3, <3>1
    <3> QED  BY <1>2, <3>1, <3>2 DEF TrueBelow
  <2> QED  BY <2>1, <2>2
<1>5. ASSUME NEW n \in 0 .. Limit(t, lim, level + 1, Len(t))
      PROVE  FalseIn(k, n) = FalseIn(t, n)
  <2>1. Limit(t, lim, level + 1, Len(t)) \in Nat  BY DEF Limit, TrailOK
  <2>2. \A i \in 1 .. n : i \in 1 .. Limit(t, lim, level + 1, Len(t))  BY <2>1
  <2>3. \A i \in 1 .. n : k[i] = t[i]  BY <1>1, <2>2 DEF Retains
  <2>4. \A l : l \in FalseIn(k, n) <=> l \in FalseIn(t, n)  BY <2>3 DEF FalseIn
  <2> QED  BY <2>4
<1> QED  BY <1>1, <1>2, <1>4, <1>5

\* A literal is looked up on the trail by its entry.
LEMMA EntryIs ==
  ASSUME TrailInv, NEW i \in DOMAIN trail
  PROVE  /\ Entry(trail[i].lit) = trail[i] /\ Entry(-trail[i].lit) = trail[i]
         /\ LevelOf(trail[i].lit) = trail[i].level /\ LevelOf(-trail[i].lit) = trail[i].level
<1>1. \A j \in DOMAIN trail : trail[j].lit \in Literal
  <2>1. \A j \in DOMAIN trail : trail[j] \in Entries  BY DEF TrailInv, TrailOK
  <2> QED  BY <2>1 DEF Entries
<1>2. ASSUME NEW l, l \in {trail[i].lit, -trail[i].lit}
      PROVE  Entry(l) = trail[i]
  <2>1. \A j \in DOMAIN trail : trail[j].lit \in {l, -l} => j = i
    BY <1>1, <1>2, Literals DEF TrailInv, TrailOK, Distinct
  <2>2. trail[i].lit \in {l, -l}  BY <1>1, <1>2, Literals
  <2>3. \A e \in {trail[j] : j \in DOMAIN trail} : e.lit \in {l, -l} <=> e = trail[i]
    BY <2>1, <2>2
  <2> QED  BY <2>3 DEF Entry
<1> QED  BY <1>2 DEF LevelOf

\* The types of the trail, and what is true and false on it.
LEMMA TrailTypes ==
  ASSUME TrailInv
  PROVE  /\ trail \in Seq(Entries) /\ trailLim \in Seq(Nat)
         /\ Len(trail) \in Nat /\ Level \in Nat
         /\ \A i \in DOMAIN trail :
              /\ trail[i] \in Entries
              /\ trail[i].lit \in Literal /\ trail[i].level \in 0 .. Level
              /\ trail[i].reason \in AnyClause
              /\ trail[i].lit \in TrueLits /\ -trail[i].lit \in FalseLits
         /\ \A l \in Literal : l \in TrueLits <=> \E i \in DOMAIN trail : trail[i].lit = l
         /\ \A l \in Literal : l \in FalseLits <=> \E i \in DOMAIN trail : trail[i].lit = -l
         /\ TrueLits \subseteq Literal /\ FalseLits \subseteq Literal
         /\ TrueLits \cap FalseLits = {}
         /\ \A l \in Literal : l \in TrueLits <=> -l \in FalseLits
<1>1. trail \in Seq(Entries) /\ trailLim \in Seq(Nat) /\ Len(trail) \in Nat /\ Level \in Nat
  BY DEF TrailInv, TrailOK, Level
<1>2. \A i \in DOMAIN trail : trail[i] \in Entries  BY <1>1
<1>3. \A i \in DOMAIN trail :
        /\ trail[i].lit \in Literal /\ trail[i].level \in 0 .. Level
        /\ trail[i].reason \in AnyClause
  BY <1>1, <1>2 DEF Entries, TrailInv, TrailOK, Levels, Level
<1>4. \A i \in DOMAIN trail : trail[i].lit \in TrueLits /\ -trail[i].lit \in FalseLits
  BY DEF TrueLits, FalseLits, Complement
<1>5. \A l \in Literal : l \in TrueLits <=> \E i \in DOMAIN trail : trail[i].lit = l
  BY DEF TrueLits
<1>6. \A l \in Literal : l \in FalseLits <=> \E i \in DOMAIN trail : trail[i].lit = -l
  BY <1>3, Literals DEF TrueLits, FalseLits, Complement
<1>7. TrueLits \subseteq Literal /\ FalseLits \subseteq Literal
  BY <1>3, Literals DEF TrueLits, FalseLits, Complement
<1>8. TrueLits \cap FalseLits = {}
  <2> SUFFICES ASSUME NEW l \in TrueLits, l \in FalseLits PROVE FALSE  OBVIOUS
  <2>1. PICK i \in DOMAIN trail : trail[i].lit = l  BY <1>5, <1>7
  <2>2. PICK j \in DOMAIN trail : trail[j].lit = -l  BY <1>6, <1>7
  <2>3. l \in Literal /\ -l # l  BY <1>7, Literals
  <2> QED  BY <2>1, <2>2, <2>3, Literals DEF TrailInv, TrailOK, Distinct
<1>9. \A l \in Literal : l \in TrueLits <=> -l \in FalseLits
  BY <1>5, <1>6, Literals
<1> QED  BY <1>1, <1>2, <1>3, <1>4, <1>5, <1>6, <1>7, <1>8, <1>9

\* Levels are natural numbers.
LEMMA TrailLevels ==
  ASSUME TrailInv
  PROVE  \A i \in DOMAIN trail : trail[i].level \in Nat
<1>1. \A i \in DOMAIN trail : trail[i].level \in 0 .. Level /\ Level \in Nat  BY TrailTypes
<1> QED  BY ONLY <1>1

-----------------------------------------------------------------------------
(* What longer trails show                                                 *)

\* The entries of a trail and of those added to it.
LEMMA Concatenated ==
  ASSUME NEW t \in Seq(Entries), NEW u \in Seq(Entries)
  PROVE  /\ t \o u \in Seq(Entries) /\ Len(t \o u) = Len(t) + Len(u)
         /\ Len(t) \in Nat /\ Len(u) \in Nat
         /\ \A i \in DOMAIN t : (t \o u)[i] = t[i] /\ i \in DOMAIN (t \o u)
         /\ \A i \in DOMAIN u : (t \o u)[Len(t) + i] = u[i] /\ Len(t) + i \in DOMAIN (t \o u)
         /\ \A i \in DOMAIN (t \o u) :
              i \in DOMAIN t \/ (i - Len(t) \in DOMAIN u /\ (t \o u)[i] = u[i - Len(t)])
OBVIOUS

\* What was true and false stays so when entries are added.
LEMMA ExtensionFacts ==
  ASSUME NEW t \in Seq(Entries), NEW u \in Seq(Entries)
  PROVE  /\ \A k : TrueBelow(t, k) \subseteq TrueBelow(t \o u, k)
         /\ \A n \in 0 .. Len(t) : FalseIn(t \o u, n) = FalseIn(t, n)
         /\ \A k : \A i \in DOMAIN u : u[i].level < k => u[i].lit \in TrueBelow(t \o u, k)
<1> DEFINE w == t \o u
<1>1. /\ \A i \in DOMAIN t : w[i] = t[i] /\ i \in DOMAIN w
      /\ \A i \in DOMAIN u : w[Len(t) + i] = u[i] /\ Len(t) + i \in DOMAIN w
  BY Concatenated
<1> HIDE DEF w
<1>2. ASSUME NEW k  PROVE TrueBelow(t, k) \subseteq TrueBelow(w, k)
  BY <1>1 DEF TrueBelow
<1>3. ASSUME NEW n \in 0 .. Len(t)  PROVE FalseIn(w, n) = FalseIn(t, n)
  <2>1. \A i \in 1 .. n : i \in DOMAIN t  OBVIOUS
  <2>2. \A l : l \in FalseIn(w, n) <=> l \in FalseIn(t, n)  BY <1>1, <2>1 DEF FalseIn
  <2> QED  BY <2>2
<1>4. ASSUME NEW k, NEW i \in DOMAIN u, u[i].level < k  PROVE u[i].lit \in TrueBelow(w, k)
  BY <1>1, <1>4 DEF TrueBelow
<1> QED  BY <1>2, <1>3, <1>4 DEF w

\* Watched literals stay right when entries are added to the trail.
LEMMA WatchesExtended ==
  ASSUME NEW t \in Seq(Entries), NEW u \in Seq(Entries), NEW lim \in Seq(Nat), Limits(t, lim),
         NEW q \in 0 .. Len(t), NEW top, NEW lits, NEW pair, NEW strong,
         WatchesOK(t, lim, q, top, lits, pair, strong)
  PROVE  WatchesOK(t \o u, lim, q, top, lits, pair, strong)
<1> SUFFICES ASSUME NEW k \in 1 .. top
             PROVE  WatchesSee(t \o u, k, FalseIn(t \o u, Limit(t \o u, lim, k, q)), lits, pair, strong)
  BY DEF WatchesOK
<1>1. Limit(t \o u, lim, k, q) = Limit(t, lim, k, q)  BY DEF Limit
<1>2. Limit(t, lim, k, q) \in 0 .. Len(t)  BY DEF Limit, Limits
<1>3. FalseIn(t \o u, Limit(t, lim, k, q)) = FalseIn(t, Limit(t, lim, k, q))
  BY <1>2, ExtensionFacts
<1>4. TrueBelow(t, k) \subseteq TrueBelow(t \o u, k)  BY ExtensionFacts
<1>5. WatchesSee(t, k, FalseIn(t, Limit(t, lim, k, q)), lits, pair, strong)  BY DEF WatchesOK
<1> QED  BY <1>1, <1>3, <1>4, <1>5 DEF WatchesSee

\* A clause of the formula stays represented when entries are added.
LEMMA RemainsExtended ==
  ASSUME NEW t \in Seq(Entries), NEW u \in Seq(Entries), NEW input, NEW clauses,
         Remains(input, t, clauses)
  PROVE  Remains(input, t \o u, clauses)
BY ExtensionFacts DEF Remains, Complement

-----------------------------------------------------------------------------
(* What does not change                                                    *)

\* The models are those of the formula.
LEMMA SameModels == ASSUME formula' = formula PROVE Models' = Models
BY DEF Models

\* The invariant of the trail speaks of nothing else.
LEMMA SameTrail ==
  ASSUME TrailInv, UNCHANGED <<trail, trailLim, formula, solver>>
  PROVE  TrailInv'
BY SameModels DEF TrailInv

\* The invariant of the clauses speaks of nothing else.
LEMMA SameClauses ==
  ASSUME ClauseInv, UNCHANGED <<order, formula>>
  PROVE  ClauseInv'
BY SameModels DEF ClauseInv

\* The formula stays represented while the clauses and the trail stay.
LEMMA SameFormula ==
  ASSUME FormulaInv, UNCHANGED <<loaded, formula, trail>>, DOMAIN order' = DOMAIN order
  PROVE  FormulaInv'
BY DEF FormulaInv

\* Reasons stay while the clauses and the trail stay.
LEMMA SamePresent ==
  ASSUME PresentInv, UNCHANGED <<trail, trailLim, order, solver>>, ~Analyzing
  PROVE  PresentInv'
BY DEF PresentInv, Present, Binary

\* Watched literals stay right while nothing is propagated.
LEMMA SameWatches ==
  ASSUME WatchInv, UNCHANGED <<trail, trailLim, qhead, order, solver, reductions>>,
         ~Analyzing, ~Analyzing',
         visiting' = visiting
  PROVE  WatchInv'
BY DEF WatchInv, Analyzing, Level, Strong

\* Outside an analysis nothing is asked of the analyzed literals.
LEMMA NoAnalysis ==
  ASSUME ~Analyzing'
  PROVE  AnalysisInv'
BY DEF AnalysisInv, Analyzing

\* An action that only goes on to another place.
LEMMA Quiet ==
  ASSUME IInv, UNCHANGED <<clauseVars, trailVars, visiting, reductions>>, TypeOK',
         pc \notin {"unsat", "conflict", "analyze", "failed"}, ControlInv',
         pc' \notin {"sat", "unsat", "conflict", "analyze", "failed"}
  PROVE  IInv'
<1>1. AnswersAreRight'  BY DEF AnswersAreRight
<1>2. Parts /\ ~Analyzing /\ ~Analyzing'  BY DEF IInv, Analyzing
<1>3. Parts'
  BY ONLY <1>2, ControlInv', UNCHANGED <<clauseVars, trailVars, visiting, reductions>>,
     SameTrail, SameClauses, SameFormula, SamePresent, SameWatches, NoAnalysis
     DEF Parts, PropagateInv, Watching, clauseVars, trailVars
<1> QED  BY <1>1, <1>3 DEF IInv

-----------------------------------------------------------------------------
(* What the watched literals show                                          *)

\* What is true below a level and false up to an entry, at the extremes.
LEMMA AllLits ==
  ASSUME TrailInv
  PROVE  /\ TrueBelow(trail, Level + 1) = TrueLits
         /\ FalseIn(trail, Len(trail)) = FalseLits
         /\ TrueBelow(trail, 1) = RootTrue
         /\ \A n \in 0 .. Len(trail) : FalseIn(trail, n) \subseteq FalseLits
         /\ \A k \in Nat : TrueBelow(trail, k) \subseteq TrueLits
<1>1. \A l : l \in TrueBelow(trail, Level + 1) <=> l \in TrueLits
  <2>1. \A i \in DOMAIN trail : trail[i].level < Level + 1  BY TrailTypes
  <2> QED  BY <2>1 DEF TrueBelow, TrueLits
<1>2. \A l : l \in FalseIn(trail, Len(trail)) <=> l \in FalseLits
  <2>1. trail \in Seq(Entries)  BY TrailTypes
  <2> QED  BY <2>1 DEF FalseIn, FalseLits, TrueLits, Complement
<1>3. \A l : l \in TrueBelow(trail, 1) <=> l \in RootTrue
  BY TrailTypes DEF TrueBelow, RootTrue
<1>4. ASSUME NEW n \in 0 .. Len(trail)  PROVE FalseIn(trail, n) \subseteq FalseLits
  <2>1. \A i \in 1 .. n : i \in DOMAIN trail  BY TrailTypes
  <2> QED  BY <2>1, TrailTypes DEF FalseIn
<1>5. \A k \in Nat : TrueBelow(trail, k) \subseteq TrueLits  BY DEF TrueBelow, TrueLits
<1> QED  BY <1>1, <1>2, <1>3, <1>4, <1>5

\* After propagation no clause is false; while no clause is weak, or at level 0, a
\* clause that is not true watches two open literals.
LEMMA Propagated ==
  ASSUME Parts, pc \in {"decide", "simplified", "reduced", "stamp", "reduce"},
         NEW c \in DOMAIN order
  PROVE  /\ c.lits \cap TrueLits # {} \/ order[c][1] \notin FalseLits \/ order[c][2] \notin FalseLits
         /\ Strong \/ Level = 0 =>
              c.lits \cap TrueLits # {} \/ {order[c][1], order[c][2]} \cap FalseLits = {}
<1>1. visiting = {} /\ qhead = Len(trail) /\ TrailInv  BY DEF Parts, ControlInv
<1>2. WatchesOK(trail, trailLim, Len(trail), Level + 1, c.lits, order[c], Strong)
  BY <1>1 DEF Parts, WatchInv, Analyzing
<1>3. Level + 1 \in 1 .. Level + 1 /\ Limit(trail, trailLim, Level + 1, Len(trail)) = Len(trail)
  <2>1. trailLim \in Seq(Nat) /\ Len(trailLim) = Level /\ Level \in Nat
    BY <1>1, TrailTypes DEF Level
  <2>2. Level + 1 \notin DOMAIN trailLim  BY <2>1
  <2> QED  BY <2>1, <2>2 DEF Limit
<1>4. WatchesSee(trail, Level + 1, FalseLits, c.lits, order[c], Strong)
  BY <1>1, <1>2, <1>3, AllLits DEF WatchesOK
<1>5. Level \in Nat  BY <1>1, TrailTypes
<1> QED  BY <1>1, <1>4, <1>5, AllLits DEF WatchesSee

-----------------------------------------------------------------------------
(* The search without conflict                                             *)

\* kissat_search and solve_ begin after the last clause.
LEMMA StartSearchInv == ASSUME IInv, StartSearch PROVE IInv'
<1> USE DEF StartSearch, clauseVars, trailVars, analysis, counters
<1>1. TypeOK'  BY DEF IInv, TypeOK
<1>2. ControlInv'  BY DEF ControlInv, IInv, Parts, Level
<1> QED  BY <1>1, <1>2, Quiet

\* The call of propagate.
LEMMA StartPropagationInv == ASSUME IInv, StartPropagation PROVE IInv'
<1> USE DEF StartPropagation, clauseVars, trailVars, analysis, counters
<1>1. TypeOK'  BY DEF IInv, TypeOK
<1>2. ControlInv'  BY DEF ControlInv, IInv, Parts, Level
<1> QED  BY <1>1, <1>2, Quiet

\* propagate returns without a conflict.
LEMMA EndPropagationInv == ASSUME IInv, EndPropagation PROVE IInv'
<1> USE DEF EndPropagation, clauseVars, trailVars, analysis, counters
<1>1. TypeOK' /\ caller \in {"load", "top", "search", "stamp", "reduce"}
  BY DEF IInv, TypeOK
<1>2. ControlInv'  BY <1>1 DEF ControlInv, IInv, Parts, Level
<1> QED  BY <1>1, <1>2, Quiet

\* MapleCOMSPS goes on after simplifying.
LEMMA EndStampingInv == ASSUME IInv, EndStamping PROVE IInv'
<1> USE DEF EndStamping, clauseVars, trailVars, analysis, counters
<1>1. TypeOK'  BY DEF IInv, TypeOK
<1>2. ControlInv'  BY DEF ControlInv, IInv, Parts, Level
<1> QED  BY <1>1, <1>2, Quiet

\* Kissat leaves the search when it is to stop.
LEMMA LeaveSearchInv == ASSUME IInv, LeaveSearch PROVE IInv'
<1> USE DEF LeaveSearch, clauseVars, trailVars, analysis, counters
<1>1. TypeOK'  BY DEF IInv, TypeOK
<1>2. ControlInv'  BY DEF ControlInv, IInv, Parts, Level
<1> QED  BY <1>1, <1>2, Quiet

\* Nothing happens.
LEMMA StutterInv == ASSUME IInv, UNCHANGED vars PROVE IInv'
<1> USE DEF vars, clauseVars, trailVars, analysis, counters
<1>1. TypeOK'  BY DEF IInv, TypeOK
<1>2. Models' = Models  BY SameModels
<1>3. AnswersAreRight'  BY <1>2 DEF IInv, AnswersAreRight, TrueLits, FalseLits
<1>4. pc # "unsat" => Parts'
  BY <1>2 DEF IInv, Parts, TrailInv, ControlInv, PropagateInv, ClauseInv, FormulaInv, PresentInv, WatchInv,
     AnalysisInv, Level, Watching, Present, Analyzing, LookedAt, Binary, Strong, TrueLits, FalseLits
<1> QED  BY <1>1, <1>3, <1>4 DEF IInv

\* When all literals are assigned and none is to be propagated the assignment is a
\* model: no clause is false, and each clause of the formula is represented.
LEMMA ModelFoundInv == ASSUME IInv, ModelFound PROVE IInv'
<1> USE DEF ModelFound, clauseVars, trailVars, analysis, counters
<1>1. Parts /\ TypeOK  BY DEF IInv
<1>2. TypeOK'  BY DEF IInv, TypeOK
<1>3. \A i \in DOMAIN formula : formula[i] \cap TrueLits # {}
  <2> SUFFICES ASSUME NEW i \in DOMAIN formula PROVE formula[i] \cap TrueLits # {}  OBVIOUS
  <2>1. i \in 1 .. loaded
    <3>1. loaded = Len(formula)  BY <1>1 DEF Parts, ControlInv
    <3>2. formula \in Seq(Clauses)  BY <1>1, SearchAssumption DEF TypeOK
    <3> QED  BY <3>1, <3>2
  <2>2. TrailInv  BY <1>1 DEF Parts
  <2>3. CASE formula[i] \cap TrueBelow(trail, 1) # {}  BY <2>2, <2>3, AllLits
  <2>4. CASE \E c \in DOMAIN order : c.lits \subseteq formula[i] \cup Complement(TrueBelow(trail, 1))
    <3>1. PICK c \in DOMAIN order : c.lits \subseteq formula[i] \cup Complement(TrueBelow(trail, 1))
      BY <2>4
    <3>2. Complement(TrueBelow(trail, 1)) \subseteq FalseLits
      BY <2>2, AllLits DEF FalseLits, Complement
    <3>3. c.lits \subseteq TrueLits \cup FalseLits
      <4>1. formula[i] \subseteq Searched  BY DEF Searched
      <4> QED  BY <3>1, <3>2, <4>1 DEF Assigned
    <3>4. order[c][1] \in c.lits /\ order[c][2] \in c.lits  BY <1>1 DEF Parts, ClauseInv
    <3>5. c.lits \cap TrueLits # {}  BY <1>1, <3>3, <3>4, Propagated
    <3> QED  BY <2>2, <3>1, <3>2, <3>5, TrailTypes
  <2> QED  BY <1>1, <2>1, <2>3, <2>4 DEF Parts, FormulaInv, Remains
<1>4. TrueLits \cap FalseLits = {}  BY <1>1, TrailTypes DEF Parts
<1>5. AnswersAreRight'  BY <1>3, <1>4 DEF AnswersAreRight, TrueLits, FalseLits
<1>6. ControlInv'  BY DEF ControlInv, IInv, Parts, Level
<1>7. ~Analyzing /\ ~Analyzing'  BY DEF Analyzing
<1>8. Parts'
  BY <1>1, <1>6, <1>7, SameTrail, SameClauses, SameFormula, SamePresent, SameWatches, NoAnalysis
     DEF Parts, PropagateInv, Watching, Level
<1> QED  BY <1>2, <1>5, <1>8 DEF IInv

\* The clauses that watch the complement of the next literal are visited.
LEMMA NextLiteralInv == ASSUME IInv, NextLiteral PROVE IInv'
<1> USE DEF NextLiteral, clauseVars, analysis, counters
<1>1. Parts /\ TypeOK /\ TrailInv  BY DEF IInv, Parts
<1>2. /\ trail \in Seq(Entries) /\ Len(trail) \in Nat /\ qhead \in 0 .. Len(trail)
      /\ qhead < Len(trail) /\ qhead + 1 \in 1 .. Len(trail)
      /\ qhead' = qhead + 1 /\ qhead' - 1 = qhead
  BY <1>1, TrailTypes DEF TypeOK
<1>3. TypeOK'  BY <1>1, <1>2 DEF TypeOK, Watching
<1>4. AnswersAreRight'  BY DEF AnswersAreRight
<1>5. ControlInv'  BY <1>1 DEF Parts, ControlInv, Level
<1>6. PropagateInv'
  <2>1. \A k \in DOMAIN trailLim : trailLim[k] \in Nat  BY <1>1, TrailTypes
  <2>2. \A k \in DOMAIN trailLim : trailLim[k] <= qhead  BY <1>1 DEF Parts, PropagateInv
  <2>3. \A k \in DOMAIN trailLim : trailLim[k] < qhead + 1  BY <1>2, <2>1, <2>2
  <2>4. \A k \in DOMAIN trailLim : trailLim[k] <= qhead + 1  BY <1>2, <2>1, <2>2
  <2> QED  BY <1>2, <2>3, <2>4 DEF PropagateInv, Watching
<1>7. ~Analyzing /\ ~Analyzing'  BY DEF Analyzing
<1>8. WatchInv'
  <2> SUFFICES ASSUME NEW c \in DOMAIN order
               PROVE  WatchesOK(trail, trailLim, IF c \in visiting' THEN qhead' - 1 ELSE qhead',
                                Level + 1, c.lits, order[c], Strong)
    BY <1>7 DEF WatchInv, Level, Strong
  <2>1. WatchesOK(trail, trailLim, qhead, Level + 1, c.lits, order[c], Strong)
    BY <1>1, <1>7 DEF Parts, WatchInv, Analyzing
  <2>2. CASE c \in visiting'  BY <1>2, <2>1, <2>2
  <2>3. CASE c \notin visiting'
    <3>1. order[c][1] # -trail[qhead + 1].lit /\ order[c][2] # -trail[qhead + 1].lit
      BY <2>3 DEF Watching
    <3>2. 1 .. qhead + 1 = (1 .. qhead) \cup {qhead + 1}  BY <1>2
    <3>3. FalseIn(trail, qhead + 1) = FalseIn(trail, qhead) \cup {-trail[qhead + 1].lit}
      BY <3>2 DEF FalseIn
    <3>4. \A k \in 1 .. Level + 1 :
            WatchesSee(trail, k, FalseIn(trail, Limit(trail, trailLim, k, qhead + 1)),
                       c.lits, order[c], Strong)
      <4> SUFFICES ASSUME NEW k \in 1 .. Level + 1
                   PROVE WatchesSee(trail, k, FalseIn(trail, Limit(trail, trailLim, k, qhead + 1)),
                                    c.lits, order[c], Strong)
        OBVIOUS
      <4>1. WatchesSee(trail, k, FalseIn(trail, Limit(trail, trailLim, k, qhead)),
                       c.lits, order[c], Strong)
        BY <2>1 DEF WatchesOK
      <4>2. CASE k \in DOMAIN trailLim  BY <4>1, <4>2 DEF Limit
      <4>3. CASE k \notin DOMAIN trailLim
        BY <3>1, <3>3, <4>1, <4>3 DEF Limit, WatchesSee
      <4> QED  BY <4>2, <4>3
    <3> QED  BY <1>2, <2>3, <3>4 DEF WatchesOK
  <2> QED  BY <2>2, <2>3
<1>9. Parts'
  BY <1>1, <1>5, <1>6, <1>7, <1>8, SameTrail, SameClauses, SameFormula, SamePresent, NoAnalysis
     DEF Parts
<1> QED  BY <1>3, <1>4, <1>9 DEF IInv

\* The formula is a sequence of clauses.
LEMMA FormulaOK == ASSUME TypeOK PROVE formula \in Seq(Clauses)
BY SearchAssumption DEF TypeOK

\* The search decides literals.
LEMMA SearchedLiterals == ASSUME TypeOK PROVE Searched \subseteq Literal
<1>1. formula \in Seq(Clauses)  BY FormulaOK
<1>2. \A i \in DOMAIN formula : formula[i] \in Clauses  BY <1>1
<1>3. \A i \in DOMAIN formula : formula[i] \cup Complement(formula[i]) \subseteq Literal
  BY <1>2, Literals DEF Clauses, Complement
<1> QED  BY <1>3 DEF Searched

\* A decision begins a level.
LEMMA DecideInv == ASSUME IInv, NEW lit \in Searched, Decide(lit) PROVE IInv'
<1> USE DEF Decide, clauseVars, analysis, counters
<1>1. Parts /\ TypeOK /\ TrailInv  BY DEF IInv, Parts
<1> DEFINE e == [lit |-> lit, level |-> Level + 1, reason |-> NoReason]
<1>2. /\ trail \in Seq(Entries) /\ trailLim \in Seq(Nat) /\ Level \in Nat /\ Len(trailLim) = Level
      /\ qhead = Len(trail) /\ Len(trail) \in Nat /\ visiting = {}
  BY <1>1, TrailTypes DEF Parts, ControlInv, Level
<1>3. lit \in Literal  BY <1>1, SearchedLiterals
<1>4. e \in Entries  BY <1>2, <1>3 DEF Entries, AnyClause, NoReason
<1>5. \A j \in DOMAIN trail : trail[j].lit # e.lit /\ trail[j].lit # -e.lit
  BY <1>1, <1>3, TrailTypes DEF Assigned
<1>6. TrailOK(Append(trail, e), Append(trailLim, Len(trail)), Models, solver)
  <2>1. e.level = Len(trailLim) + 1 /\ e.reason = NoReason  BY <1>2
  <2> HIDE DEF e
  <2> QED  BY <1>1, <1>4, <1>5, <2>1, TrailDecided DEF TrailInv
<1>7. TrailInv'  BY <1>6, SameModels DEF TrailInv
<1>8. TypeOK'
  <2>1. trail' \in Seq([lit : Literal, level : Nat, reason : AnyClause])
    BY <1>2, <1>4 DEF Entries
  <2>2. trailLim' \in Seq(Nat) /\ qhead' \in 0 .. Len(trail')  BY <1>2
  <2> QED  BY <1>1, <2>1, <2>2 DEF TypeOK
<1>9. AnswersAreRight'  BY DEF AnswersAreRight
<1>10. ControlInv'  BY <1>1 DEF ControlInv, Parts
<1>11. PropagateInv'
  <2> SUFFICES ASSUME NEW k \in DOMAIN trailLim' PROVE trailLim'[k] <= qhead'
    BY <1>2 DEF PropagateInv
  <2>1. CASE k \in DOMAIN trailLim  BY <1>1, <1>2, <2>1 DEF Parts, PropagateInv
  <2>2. CASE k \notin DOMAIN trailLim  BY <1>2, <2>2, SMTT(20)
  <2> QED  BY <2>1, <2>2
<1>12. ClauseInv'  BY <1>1, SameClauses DEF Parts
<1>13. /\ trail' \in Seq(Entries)
       /\ DOMAIN trail' = 1 .. Len(trail) + 1 /\ DOMAIN trail = 1 .. Len(trail)
       /\ \A i \in DOMAIN trail : trail'[i] = trail[i] /\ i \in DOMAIN trail'
       /\ trail'[Len(trail) + 1] = e
       /\ \A i \in DOMAIN trail' : i \in DOMAIN trail \/ i = Len(trail) + 1
  BY <1>2, <1>4
<1>14. \A k \in 0 .. Level + 1 : TrueBelow(trail', k) = TrueBelow(trail, k)
  <2> SUFFICES ASSUME NEW k \in 0 .. Level + 1, NEW l
               PROVE  l \in TrueBelow(trail', k) <=> l \in TrueBelow(trail, k)
    OBVIOUS
  <2> QED  BY <1>2, <1>13 DEF TrueBelow
<1>15. \A n \in 0 .. Len(trail) : FalseIn(trail', n) = FalseIn(trail, n)
  <2> SUFFICES ASSUME NEW n \in 0 .. Len(trail), NEW l
               PROVE  l \in FalseIn(trail', n) <=> l \in FalseIn(trail, n)
    OBVIOUS
  <2> \A i \in 1 .. n : i \in DOMAIN trail  BY <1>13
  <2> QED  BY <1>13 DEF FalseIn
<1>16. FormulaInv'
  BY <1>1, <1>2, <1>14 DEF Parts, FormulaInv, Remains
<1>17. ~Analyzing /\ ~Analyzing'  BY DEF Analyzing
<1>18. PresentInv'
  BY <1>1, <1>13, <1>17 DEF Parts, PresentInv, Present, Binary
<1>19. WatchInv'
  <2> SUFFICES ASSUME NEW c \in DOMAIN order
               PROVE  WatchesOK(trail', trailLim', qhead, Level + 2, c.lits, order[c], Strong)
    BY <1>2, <1>17 DEF WatchInv, Level, Strong
  <2>1. WatchesOK(trail, trailLim, qhead, Level + 1, c.lits, order[c], Strong)
    BY <1>1, <1>2, <1>17 DEF Parts, WatchInv, Analyzing
  <2> SUFFICES ASSUME NEW k \in 1 .. Level + 2
               PROVE  WatchesSee(trail', k, FalseIn(trail', Limit(trail', trailLim', k, qhead)),
                                 c.lits, order[c], Strong)
    BY DEF WatchesOK
  <2>2. CASE k \in 1 .. Level
    <3>1. k \in DOMAIN trailLim /\ k \in DOMAIN trailLim' /\ trailLim'[k] = trailLim[k]
      BY <1>2, <2>2
    <3>2. trailLim[k] \in 0 .. Len(trail)
      BY <1>1, <1>2, <3>1 DEF TrailInv, TrailOK, Limits
    <3>3. k \in 1 .. Level + 1 /\ k \in 0 .. Level + 1  BY <1>2, <2>2
    <3> QED  BY <1>14, <1>15, <2>1, <3>1, <3>2, <3>3 DEF WatchesOK, WatchesSee, Limit
  <2>3. CASE k \notin 1 .. Level
    <3>1. k = Level + 1 \/ k = Level + 2  BY <1>2, <2>3
    <3>2. Limit(trail', trailLim', k, qhead) = Len(trail)
      <4>1. CASE k = Level + 1
        <5>1. k \in DOMAIN trailLim' /\ trailLim'[k] = Len(trail)  BY <1>2, <4>1
        <5> QED  BY <5>1 DEF Limit
      <4>2. CASE k = Level + 2
        <5>1. k \notin DOMAIN trailLim'  BY <1>2, <4>2
        <5> QED  BY <1>2, <5>1 DEF Limit
      <4> QED  BY <3>1, <4>1, <4>2
    <3>3. FalseIn(trail', Len(trail)) = FalseIn(trail, Len(trail))  BY <1>2, <1>15
    <3>4. Limit(trail, trailLim, Level + 1, qhead) = Len(trail)
      <4>1. Level + 1 \notin DOMAIN trailLim  BY <1>2
      <4> QED  BY <1>2, <4>1 DEF Limit
    <3>5. WatchesSee(trail, Level + 1, FalseIn(trail, Len(trail)), c.lits, order[c], Strong)
      BY <1>2, <2>1, <3>4 DEF WatchesOK
    <3>6. TrueBelow(trail, Level + 1) \subseteq TrueBelow(trail', k)
      <4>1. \A i \in DOMAIN trail : trail[i].level < Level + 1 => trail'[i].level < k
        BY <1>1, <1>2, <1>13, <3>1, TrailTypes
      <4> QED  BY <1>13, <4>1 DEF TrueBelow
    <3>7. k = 1 => Level + 1 = 1  BY <1>2, <3>1
    <3> QED  BY <3>2, <3>3, <3>5, <3>6, <3>7 DEF WatchesSee
  <2> QED  BY <2>2, <2>3
<1>20. AnalysisInv'  BY <1>17, NoAnalysis
<1> QED
  BY <1>7, <1>8, <1>9, <1>10, <1>11, <1>12, <1>16, <1>18, <1>19, <1>20 DEF IInv, Parts

-----------------------------------------------------------------------------
(* Clauses and literals added at level 0                                   *)

\* A literal is made true at level 0.
LEMMA UnitStep ==
  ASSUME Parts, TypeOK, Level = 0, visiting = {}, ~Analyzing, ~Analyzing',
         NEW lit \in Literal, ~Assigned(lit), \A a \in Models : lit \in a,
         trail' = Enqueued(lit, NoReason),
         UNCHANGED <<solver, formula, order, trailLim, qhead, visiting, reductions>>
  PROVE  /\ TrailInv' /\ PropagateInv' /\ ClauseInv' /\ PresentInv' /\ WatchInv'
         /\ trail' \in Seq(Entries) /\ qhead \in 0 .. Len(trail')
         /\ \A input : Remains(input, trail, DOMAIN order) => Remains(input, trail', DOMAIN order)
         /\ lit \in TrueBelow(trail', 1)
<1> DEFINE e == [lit |-> lit, level |-> 0, reason |-> NoReason]  u == <<e>>
<1>1. /\ TrailInv /\ trail \in Seq(Entries) /\ trailLim \in Seq(Nat)
      /\ Len(trail) \in Nat /\ qhead \in 0 .. Len(trail) /\ Len(trailLim) = 0
  BY TrailTypes DEF Parts, Level, TypeOK
<1>2. e \in Entries  BY DEF Entries, AnyClause, NoReason
<1>3. /\ u \in Seq(Entries) /\ DOMAIN u = {1} /\ u[1] = e /\ trail' = trail \o u
      /\ e.level = 0 /\ e.lit = lit
  BY <1>1, <1>2, Appended DEF Enqueued
<1>4. \A j \in DOMAIN trail : trail[j].lit # lit /\ trail[j].lit # -lit
  BY <1>1, TrailTypes DEF Assigned
<1> HIDE DEF e, u
<1>5. TrailOK(trail \o u, trailLim, Models, solver)
  <2>1. Distinct(u)  BY <1>3 DEF Distinct
  <2> QED  BY <1>1, <1>3, <1>4, <2>1, TrailExtended DEF TrailInv
<1>6. TrailInv'  BY <1>3, <1>5, SameModels DEF TrailInv
<1>7. PropagateInv'  BY DEF Parts, PropagateInv
<1>8. ClauseInv'  BY SameClauses DEF Parts
<1>9. Limits(trail, trailLim)  BY <1>1 DEF TrailInv, TrailOK
<1>10. WatchInv'
  <2> SUFFICES ASSUME NEW c \in DOMAIN order
               PROVE  WatchesOK(trail \o u, trailLim, qhead, Level + 1, c.lits, order[c], Strong)
    BY <1>3 DEF WatchInv, Level, Strong
  <2>1. WatchesOK(trail, trailLim, qhead, Level + 1, c.lits, order[c], Strong)
    BY DEF Parts, WatchInv, Analyzing
  <2> QED  BY <1>1, <1>3, <1>9, <2>1, WatchesExtended
<1>11. PresentInv'
  <2>1. \A i \in DOMAIN trail' : trail'[i].level <= Len(trailLim)
    BY <1>3, <1>5 DEF TrailOK, Levels
  <2>2. \A i \in DOMAIN trail' : ~(trail'[i].level > 0)
    <3>1. TrailInv' => \A i \in DOMAIN trail' : trail'[i].level \in Nat
      <4>1. trail' \in Seq(Entries)  BY <1>1, <1>3
      <4>2. \A i \in DOMAIN trail' : trail'[i] \in Entries  BY <4>1
      <4> QED  BY <4>2 DEF Entries
    <3> QED  BY <1>1, <1>6, <2>1, <3>1
  <2> QED  BY <2>2 DEF PresentInv
<1>12. trail' \in Seq(Entries) /\ qhead \in 0 .. Len(trail')  BY <1>1, <1>3, Concatenated
<1>13. \A input : Remains(input, trail, DOMAIN order) => Remains(input, trail', DOMAIN order)
  BY <1>1, <1>3, RemainsExtended
<1>14. lit \in TrueBelow(trail', 1)
  <2>0. trail \in Seq(Entries) /\ u \in Seq(Entries)  BY <1>1, <1>3
  <2>1. 1 \in DOMAIN u /\ u[1].level < 1 /\ u[1].lit = lit  BY <1>3
  <2>2. u[1].lit \in TrueBelow(trail \o u, 1)
    BY ONLY <2>0, <2>1, ExtensionFacts
  <2> QED  BY <1>3, <2>1, <2>2
<1> QED  BY <1>6, <1>7, <1>8, <1>10, <1>11, <1>12, <1>13, <1>14

\* A model has one of each literal and its complement.
LEMMA ModelsTypes ==
  \A a \in Models : a \in SUBSET Literal /\ \A l \in Literal : l \in a <=> -l \notin a
BY DEF Models, Assignment

\* At level 0 what is true is so in every model.
LEMMA RootFalse ==
  ASSUME TrailInv, Level = 0, NEW a \in Models
  PROVE  TrueLits \subseteq a /\ a \cap FalseLits = {}
<1>1. \A i \in DOMAIN trail : trail[i].level = 0  BY TrailTypes
<1>2. \A i \in DOMAIN trail : trail[i].lit \in a /\ trail[i].lit \in Literal
  BY <1>1, TrailTypes DEF TrailInv, TrailOK, RootRight
<1> QED  BY <1>2, ModelsTypes DEF TrueLits, FalseLits, Complement

\* The order of the clauses does not matter where no level has begun.
LEMMA AddStep ==
  ASSUME Parts, TypeOK, Level = 0, visiting = {}, ~Analyzing,
         NEW c \in Clauses, \A a \in Models : c \cap a # {}, NEW learnt \in BOOLEAN,
         NEW pairs,
         Cardinality(Open(c)) > 1 =>
           \A p \in pairs : p \in Literal \X Literal /\ p[1] # p[2]
                             /\ p[1] \in Open(c) /\ p[2] \in Open(c),
         NEW from \in {"load", "top"}, Add(c, learnt, pairs, from),
         UNCHANGED <<solver, formula, visiting, reductions>>
  PROVE  /\ pc' = "unsat" =>
              /\ Models = {}
              /\ UNCHANGED <<order, trailVars, caller>>
         /\ pc' # "unsat" =>
              /\ TrailInv' /\ PropagateInv' /\ ClauseInv' /\ PresentInv' /\ WatchInv' /\ ~Analyzing'
              /\ \A input : Remains(input, trail, DOMAIN order) => Remains(input, trail', DOMAIN order')
              /\ ~learnt => Remains(c, trail', DOMAIN order')
              /\ trailLim' = trailLim /\ qhead' = qhead
              /\ \/ pc' = "propagate" /\ caller' = from
                 \/ pc' = from /\ caller' = caller
         /\ trail' \in Seq(Entries) /\ qhead' \in 0 .. Len(trail') /\ trailLim' = trailLim
         /\ \A d \in DOMAIN order' : d \in AnyClause /\ order'[d] \in Literal \X Literal
<1>1. /\ TrailInv /\ trail \in Seq(Entries) /\ trailLim \in Seq(Nat)
      /\ Len(trail) \in Nat /\ qhead \in 0 .. Len(trail) /\ Len(trailLim) = 0
      /\ c \in SUBSET Literal /\ Open(c) \in SUBSET Literal
      /\ \A d \in DOMAIN order : d \in AnyClause /\ order[d] \in Literal \X Literal
  BY TrailTypes DEF Parts, Level, TypeOK, Open, Clauses
<1>2. CASE c \cap TrueLits # {} /\ pc' = from /\ UNCHANGED <<order, trailVars, caller>>
  <2>1. ~Analyzing'  BY <1>2 DEF Analyzing
  <2>2. Remains(c, trail, DOMAIN order)
    <3>1. TrueBelow(trail, 1) = TrueLits  BY <1>1, AllLits
    <3> QED  BY <1>2, <3>1 DEF Remains
  <2>3. UNCHANGED <<order, trail, trailLim, qhead, caller>>  BY <1>2 DEF trailVars
  <2>4. PropagateInv'  BY <2>3 DEF Parts, PropagateInv
  <2>5. TrailInv' /\ ClauseInv' /\ PresentInv' /\ WatchInv'
    BY <2>1, <2>3, SameTrail, SameClauses, SamePresent, SameWatches DEF Parts
  <2> QED  BY <1>1, <1>2, <2>1, <2>2, <2>3, <2>4, <2>5
<1>3. CASE Open(c) = {} /\ pc' = "unsat" /\ UNCHANGED <<order, trailVars, caller>>
  <2>1. \A a \in Models : FALSE  BY <1>1, <1>3, RootFalse DEF Open
  <2>2. Models = {}  BY <2>1
  <2>3. UNCHANGED <<order, trail, trailLim, qhead, caller>>  BY <1>3 DEF trailVars
  <2> QED  BY <1>1, <1>3, <2>2, <2>3
<1>4. CASE c \cap TrueLits = {} /\ \E lit \in Open(c) : Open(c) = {lit} /\ AddUnit(lit, from)
  <2>1. PICK lit \in Open(c) : Open(c) = {lit} /\ AddUnit(lit, from)  BY <1>4
  <2>2. lit \in Literal /\ lit \in c /\ ~Assigned(lit)
    BY <1>1, <1>4, <2>1 DEF Open, Assigned
  <2>3. \A a \in Models : lit \in a
    <3>1. \A a \in Models : a \cap FalseLits = {}  BY <1>1, RootFalse
    <3> QED  BY <2>1, <3>1 DEF Open
  <2>4. ~Analyzing' /\ trail' = Enqueued(lit, NoReason)
        /\ UNCHANGED <<order, trailLim, qhead>> /\ caller' = from /\ pc' = "propagate"
    BY <2>1 DEF AddUnit, Analyzing
  <2>5. /\ TrailInv' /\ PropagateInv' /\ ClauseInv' /\ PresentInv' /\ WatchInv'
        /\ trail' \in Seq(Entries) /\ qhead \in 0 .. Len(trail')
        /\ \A input : Remains(input, trail, DOMAIN order) => Remains(input, trail', DOMAIN order)
        /\ lit \in TrueBelow(trail', 1)
    BY <2>2, <2>3, <2>4, UnitStep
  <2>6. Remains(c, trail', DOMAIN order')  BY <2>2, <2>5 DEF Remains
  <2> QED  BY <1>1, <2>4, <2>5, <2>6
<1>5. CASE /\ c \cap TrueLits = {} /\ Cardinality(Open(c)) > 1
           /\ \E watched \in pairs : order' = Attached(Clause(Open(c), learnt), watched)
           /\ pc' = from /\ UNCHANGED <<trailVars, caller>>
  <2> DEFINE d == Clause(Open(c), learnt)
  <2>1. PICK p \in pairs : order' = Attached(d, p)  BY <1>5
  <2>2. p \in Literal \X Literal /\ p[1] # p[2] /\ p[1] \in Open(c) /\ p[2] \in Open(c)
    BY <1>5
  <2>3. d \in AnyClause /\ d.lits = Open(c) /\ d.learnt = learnt
    BY <1>1 DEF Clause, AnyClause
  <2>4. DOMAIN order' = DOMAIN order \cup {d} /\ order'[d] = p
        /\ \A x \in DOMAIN order : x # d => order'[x] = order[x]
    BY <2>1 DEF Attached
  <2> HIDE DEF d
  <2>5. ~Analyzing'  BY <1>5 DEF Analyzing
  <2>6. UNCHANGED <<trail, trailLim, qhead, caller>>  BY <1>5 DEF trailVars
  <2>7. TrailInv'  BY <1>1, <2>6, SameTrail
  <2>8. PropagateInv'  BY <2>6 DEF Parts, PropagateInv
  <2>9. ClauseInv'
    <3>1. Models' = Models  BY SameModels
    <3>2. d.lits \in Clauses
      BY <2>2, <2>3, Literals DEF Clauses, Open
    <3>3. \A a \in Models : d.lits \cap a # {}
      <4>1. \A a \in Models : a \cap FalseLits = {}  BY <1>1, RootFalse
      <4> QED  BY <2>3, <4>1 DEF Open
    <3> QED  BY <2>2, <2>3, <2>4, <3>1, <3>2, <3>3 DEF Parts, ClauseInv
  <2>10. PresentInv'
    <3>1. \A i \in DOMAIN trail : ~(trail[i].level > 0)  BY <1>1, TrailTypes
    <3> QED  BY <2>6, <3>1 DEF PresentInv
  <2>11. WatchInv'
    <3> SUFFICES ASSUME NEW x \in DOMAIN order'
                 PROVE  WatchesOK(trail, trailLim, qhead, Level + 1, x.lits, order'[x], Strong)
      BY <2>5, <2>6 DEF WatchInv, Level, Strong
    <3>1. CASE x = d
      <4>1. \A n \in 0 .. Len(trail) : FalseIn(trail, n) \subseteq FalseLits  BY <1>1, AllLits
      <4>2. \A k : Limit(trail, trailLim, k, qhead) = qhead
        <5>1. DOMAIN trailLim = {}  BY <1>1
        <5> QED  BY <5>1 DEF Limit
      <4>3. \A k : p[1] \notin FalseIn(trail, Limit(trail, trailLim, k, qhead))
                   /\ p[2] \notin FalseIn(trail, Limit(trail, trailLim, k, qhead))
        BY <1>1, <2>2, <4>1, <4>2 DEF Open
      <4> QED  BY <2>4, <3>1, <4>3 DEF WatchesOK, WatchesSee
    <3>2. CASE x # d
      <4>1. x \in DOMAIN order /\ order'[x] = order[x]  BY <2>4, <3>2
      <4> QED  BY <4>1 DEF Parts, WatchInv, Analyzing
    <3> QED  BY <3>1, <3>2
  <2>12. ASSUME NEW input, Remains(input, trail, DOMAIN order)
         PROVE  Remains(input, trail', DOMAIN order')
    BY <2>4, <2>6, <2>12 DEF Remains
  <2>13. ~learnt => Remains(c, trail', DOMAIN order')
    BY <2>3, <2>4 DEF Remains, Open
  <2>14. \A x \in DOMAIN order' : x \in AnyClause /\ order'[x] \in Literal \X Literal
    BY <1>1, <2>2, <2>3, <2>4
  <2> QED
    BY <1>1, <1>5, <2>5, <2>6, <2>7, <2>8, <2>9, <2>10, <2>11, <2>12, <2>13, <2>14
<1> QED  BY <1>2, <1>3, <1>4, <1>5 DEF Add

\* Some literal has the least variable.
LEMMA FirstVariable ==
  ASSUME NEW lits \in SUBSET Literal, lits # {}
  PROVE  \E l \in lits : \A m \in lits : Var(l) <= Var(m)
<1>1. \A l \in lits : Var(l) \in Nat  BY NumVarsAssumption DEF Var, Literal
<1> DEFINE S == {Var(l) : l \in lits}
<1>2. S \in SUBSET Nat /\ S # {}  BY <1>1
<1>3. PICK n \in S : \A m \in S : n <= m
  <2> HIDE DEF S
  <2> QED  BY <1>2, Least
<1> QED  BY <1>3

\* The first two literals of a sorted clause.
LEMMA SortedTwo ==
  ASSUME NEW lits \in SUBSET Literal, \E a, b \in lits : a # b
  PROVE  /\ Sorted(lits) \in Literal \X Literal
         /\ Sorted(lits)[1] # Sorted(lits)[2]
         /\ Sorted(lits)[1] \in lits /\ Sorted(lits)[2] \in lits
<1> DEFINE first == CHOOSE l \in lits : \A m \in lits : Var(l) <= Var(m)
           second == CHOOSE l \in lits \ {first} : \A m \in lits \ {first} : Var(l) <= Var(m)
<1>1. first \in lits  BY FirstVariable
<1> HIDE DEF first
<1>2. lits \ {first} # {} /\ lits \ {first} \in SUBSET Literal
  <2>1. PICK a \in lits, b \in lits : a # b  OBVIOUS
  <2>2. a \in lits \ {first} \/ b \in lits \ {first}  BY <2>1
  <2> QED  BY <2>2
<1>3. \E l \in lits \ {first} : \A m \in lits \ {first} : Var(l) <= Var(m)
  BY <1>2, FirstVariable
<1>4. second \in lits \ {first}  BY <1>3
<1>5. Sorted(lits) = <<first, second>>  BY DEF Sorted, first
<1> HIDE DEF second
<1> QED  BY <1>1, <1>4, <1>5

\* Two literals to watch, in either order in Kissat.
LEMMA WatchedTwo ==
  ASSUME NEW first \in Literal, NEW second \in Literal, first # second, NEW w, w = Watched(first, second)
  PROVE  /\ w \in Literal \X Literal /\ w[1] # w[2]
         /\ {w[1], w[2]} = {first, second}
         /\ solver # "Kissat" => w = <<first, second>>
<1>1. CASE solver = "Kissat"
  <2>1. w = Sorted({first, second})  BY <1>1 DEF Watched
  <2> QED  BY <1>1, <2>1, SortedTwo
<1>2. CASE solver # "Kissat"  BY <1>2 DEF Watched
<1> QED  BY <1>1, <1>2

\* addClause_ and kissat_add keep the invariant.
LEMMA AddClauseInv == ASSUME IInv, AddClause PROVE IInv'
<1> USE DEF AddClause, analysis, counters
<1> DEFINE c == formula[loaded + 1]
<1>1. Parts /\ TypeOK  BY DEF IInv
<1>2. /\ loaded \in 0 .. Len(formula) /\ loaded < Len(formula) /\ formula \in Seq(Clauses)
      /\ loaded + 1 \in DOMAIN formula
  BY <1>1, FormulaOK DEF TypeOK
<1>3. c \in Clauses /\ \A a \in Models : c \cap a # {}  BY <1>2 DEF Models
<1>4. Level = 0 /\ visiting = {} /\ ~Analyzing  BY <1>1 DEF Parts, ControlInv, Analyzing
<1>5. Open(c) \in SUBSET Literal  BY <1>3 DEF Clauses, Open
<1>6. Cardinality(Open(c)) > 1 =>
        \A p \in {Sorted(Open(c))} : p \in Literal \X Literal /\ p[1] # p[2]
                             /\ p[1] \in Open(c) /\ p[2] \in Open(c)
  BY <1>5, Two, SortedTwo
<1>7. Add(c, FALSE, {Sorted(Open(c))}, "load")  OBVIOUS
<1>8. UNCHANGED <<solver, formula, visiting, conflict, analyzed, conflicted, imports, reductions>>
      /\ loaded' = loaded + 1
  OBVIOUS
<1> HIDE DEF c
<1>9. /\ pc' = "unsat" => Models = {} /\ UNCHANGED <<order, trailVars, caller>>
      /\ pc' # "unsat" =>
           /\ TrailInv' /\ PropagateInv' /\ ClauseInv' /\ PresentInv' /\ WatchInv' /\ ~Analyzing'
           /\ \A input : Remains(input, trail, DOMAIN order) => Remains(input, trail', DOMAIN order')
           /\ Remains(c, trail', DOMAIN order')
           /\ trailLim' = trailLim /\ qhead' = qhead
           /\ \/ pc' = "propagate" /\ caller' = "load"
              \/ pc' = "load" /\ caller' = caller
      /\ trail' \in Seq(Entries) /\ qhead' \in 0 .. Len(trail') /\ trailLim' = trailLim
      /\ \A d \in DOMAIN order' : d \in AnyClause /\ order'[d] \in Literal \X Literal
  BY <1>1, <1>3, <1>4, <1>6, <1>7, <1>8, AddStep
<1>10. TypeOK'
  <2>1. pc' \in {"unsat", "propagate", "load"} /\ (caller' = "load" \/ caller' = caller)  BY <1>9
  <2>2. loaded' \in 0 .. Len(formula)  BY <1>2, <1>8
  <2>3. trail' \in Seq([lit : Literal, level : Nat, reason : AnyClause])  BY <1>9 DEF Entries
  <2>4. visiting' \subseteq DOMAIN order'  BY <1>4, <1>8
  <2> QED  BY <1>1, <1>8, <1>9, <2>1, <2>2, <2>3, <2>4 DEF TypeOK
<1>11. CASE pc' = "unsat"
  <2>1. AnswersAreRight'  BY <1>8, <1>9, <1>11, SameModels DEF AnswersAreRight
  <2> QED  BY <1>10, <1>11, <2>1 DEF IInv
<1>12. CASE pc' # "unsat"
  <2>1. AnswersAreRight'  BY <1>9, <1>12 DEF AnswersAreRight
  <2>2. ControlInv'  BY <1>4, <1>8, <1>9, <1>12 DEF ControlInv, Level
  <2>3. FormulaInv'
    <3>1. \A i \in 1 .. loaded' : i \in 1 .. loaded \/ i = loaded + 1  BY <1>2, <1>8
    <3>2. \A i \in 1 .. loaded : Remains(formula[i], trail, DOMAIN order)
      BY <1>1 DEF Parts, FormulaInv
    <3> QED  BY <1>8, <1>9, <1>12, <3>1, <3>2 DEF FormulaInv, c
  <2>4. AnalysisInv'  BY <1>9, <1>12, NoAnalysis
  <2> QED  BY <1>9, <1>10, <1>12, <2>1, <2>2, <2>3, <2>4 DEF IInv, Parts
<1> QED  BY <1>11, <1>12

\* A clause of another thread keeps the invariant, whatever it is.
LEMMA ApplyImportedClauseInv ==
  ASSUME IInv, NEW c \in Arriving, ApplyImportedClause(c)
  PROVE  IInv'
<1> USE DEF ApplyImportedClause, analysis
<1>1. Parts /\ TypeOK  BY DEF IInv
<1>2. c \in Clauses /\ \A a \in Models : c \cap a # {}
  BY SearchAssumption DEF Arrives
<1>3. Level = 0 /\ visiting = {} /\ ~Analyzing  BY <1>1 DEF Parts, ControlInv, Analyzing
<1>4. Open(c) \in SUBSET Literal  BY <1>2 DEF Clauses, Open
<1>5. \A p \in AnyPair(Open(c)) : p \in Literal \X Literal /\ p[1] # p[2]
                             /\ p[1] \in Open(c) /\ p[2] \in Open(c)
  <2> SUFFICES ASSUME NEW q \in Open(c) \X Open(c), q[1] # q[2], NEW p, p = Watched(q[1], q[2])
               PROVE  p \in Literal \X Literal /\ p[1] # p[2]
                             /\ p[1] \in Open(c) /\ p[2] \in Open(c)
    BY DEF AnyPair
  <2>1. q[1] \in Open(c) /\ q[2] \in Open(c)  OBVIOUS
  <2>2. p \in Literal \X Literal /\ p[1] # p[2] /\ {p[1], p[2]} = {q[1], q[2]}
    BY <1>4, <2>1, WatchedTwo
  <2> QED  BY <2>1, <2>2
<1>6. Add(c, TRUE, AnyPair(Open(c)), "top")  OBVIOUS
<1>7. UNCHANGED <<solver, formula, loaded, visiting, conflict, analyzed, conflicted, reductions>>
      /\ imports' = imports + 1 /\ imports < MaxImports
  BY DEF Arrives
<1>9. /\ pc' = "unsat" => Models = {} /\ UNCHANGED <<order, trailVars, caller>>
      /\ pc' # "unsat" =>
           /\ TrailInv' /\ PropagateInv' /\ ClauseInv' /\ PresentInv' /\ WatchInv' /\ ~Analyzing'
           /\ \A input : Remains(input, trail, DOMAIN order) => Remains(input, trail', DOMAIN order')
           /\ trailLim' = trailLim /\ qhead' = qhead
           /\ \/ pc' = "propagate" /\ caller' = "top"
              \/ pc' = "top" /\ caller' = caller
      /\ trail' \in Seq(Entries) /\ qhead' \in 0 .. Len(trail') /\ trailLim' = trailLim
      /\ \A d \in DOMAIN order' : d \in AnyClause /\ order'[d] \in Literal \X Literal
  BY <1>1, <1>2, <1>3, <1>5, <1>6, <1>7, AddStep
<1>10. TypeOK'
  <2>1. pc' \in {"unsat", "propagate", "top"} /\ (caller' = "top" \/ caller' = caller)  BY <1>9
  <2>2. imports' \in 0 .. MaxImports  BY <1>1, <1>7, SearchAssumption DEF TypeOK
  <2>3. trail' \in Seq([lit : Literal, level : Nat, reason : AnyClause])  BY <1>9 DEF Entries
  <2>4. visiting' \subseteq DOMAIN order'  BY <1>3, <1>7
  <2> QED  BY <1>1, <1>7, <1>9, <2>1, <2>2, <2>3, <2>4 DEF TypeOK
<1>11. CASE pc' = "unsat"
  <2>1. AnswersAreRight'  BY <1>7, <1>9, <1>11, SameModels DEF AnswersAreRight
  <2> QED  BY <1>10, <1>11, <2>1 DEF IInv
<1>12. CASE pc' # "unsat"
  <2>1. AnswersAreRight'  BY <1>9, <1>12 DEF AnswersAreRight
  <2>2. ControlInv'
    <3>1. loaded = Len(formula)  BY <1>1 DEF Parts, ControlInv
    <3> QED  BY <1>3, <1>7, <1>9, <1>12, <3>1 DEF ControlInv, Level
  <2>3. FormulaInv'  BY <1>1, <1>7, <1>9, <1>12 DEF Parts, FormulaInv
  <2>4. AnalysisInv'  BY <1>9, <1>12, NoAnalysis
  <2> QED  BY <1>9, <1>10, <1>12, <2>1, <2>2, <2>3, <2>4 DEF IInv, Parts
<1> QED  BY <1>11, <1>12

\* A failed literal that simplifying found keeps the invariant.
LEMMA FailedLiteralInv ==
  ASSUME IInv, NEW lit \in Literal, FailedLiteral(lit)
  PROVE  IInv'
<1> USE DEF analysis, counters
<1>1. Parts /\ TypeOK  BY DEF IInv, FailedLiteral
<1>2. /\ pc = "stamp" /\ ~Assigned(lit) /\ AddUnit(-lit, "stamp")
      /\ UNCHANGED <<solver, formula, loaded, visiting, conflict, analyzed, conflicted, imports, reductions>>
  BY DEF FailedLiteral
<1>3. Level = 0 /\ visiting = {} /\ ~Analyzing  BY <1>1, <1>2 DEF Parts, ControlInv, Analyzing
<1>4. -lit \in Literal /\ ~Assigned(-lit)
  <2>1. TrailInv  BY <1>1 DEF Parts
  <2> QED  BY <1>2, <2>1, TrailTypes, Literals DEF Assigned
<1>5. \A a \in Models : -lit \in a
  <2> SUFFICES ASSUME NEW a \in Models, lit \in a PROVE FALSE  BY ModelsTypes, <1>4, Literals
  <2>1. a \in Clauses  BY ModelsTypes DEF Clauses
  <2>2. \A c \in DOMAIN order : c.lits \cap a # {}  BY <1>1 DEF Parts, ClauseInv
  <2> QED  BY <2>1, <2>2 DEF FailedLiteral
<1>6. ~Analyzing' /\ trail' = Enqueued(-lit, NoReason)
      /\ UNCHANGED <<order, trailLim, qhead>> /\ caller' = "stamp" /\ pc' = "propagate"
  BY <1>2 DEF AddUnit, Analyzing
<1>7. /\ TrailInv' /\ PropagateInv' /\ ClauseInv' /\ PresentInv' /\ WatchInv'
      /\ trail' \in Seq(Entries) /\ qhead \in 0 .. Len(trail')
      /\ \A input : Remains(input, trail, DOMAIN order) => Remains(input, trail', DOMAIN order)
  BY <1>1, <1>2, <1>3, <1>4, <1>5, <1>6, UnitStep
<1>8. TypeOK'
  <2>1. trail' \in Seq([lit : Literal, level : Nat, reason : AnyClause])  BY <1>7 DEF Entries
  <2> QED  BY <1>1, <1>2, <1>6, <1>7, <2>1 DEF TypeOK
<1>9. AnswersAreRight'  BY <1>6 DEF AnswersAreRight
<1>10. ControlInv'
  <2>1. loaded = Len(formula)  BY <1>1, <1>2 DEF Parts, ControlInv
  <2> QED  BY <1>2, <1>3, <1>6, <2>1 DEF ControlInv, Level
<1>11. FormulaInv'  BY <1>1, <1>2, <1>6, <1>7 DEF Parts, FormulaInv
<1>12. AnalysisInv'  BY <1>6, NoAnalysis
<1> QED  BY <1>7, <1>8, <1>9, <1>10, <1>11, <1>12 DEF IInv, Parts

-----------------------------------------------------------------------------
(* Going back to a lower level                                             *)

\* The search goes back to a level and puts entries on the trail.
LEMMA BackStep ==
  ASSUME TrailInv, PropagateInv, qhead \in 0 .. Len(trail),
         NEW level, level \in 0 .. Level, NEW k, NEW m, Retains(k, trail, trailLim, level, m),
         NEW u \in Seq(Entries), TrailOK(k \o u, SubSeq(trailLim, 1, level), Models, solver),
         trail' = k \o u, trailLim' = SubSeq(trailLim, 1, level),
         qhead' = IF level = Level THEN qhead ELSE trailLim[level + 1],
         visiting' = {}, UNCHANGED <<solver, formula>>
  PROVE  /\ Level' = level
         /\ TrailInv' /\ PropagateInv'
         /\ trail' \in Seq(Entries) /\ qhead' \in 0 .. Len(trail')
         /\ \A input, clauses : Remains(input, trail, clauses) => Remains(input, trail', clauses)
         /\ \A lits, pair, strong : \A top \in Nat, now \in 0 .. level + 1 :
              WatchesOK(trail, trailLim, qhead, top, lits, pair, strong) /\ now <= top
              => WatchesOK(trail', trailLim', qhead', now, lits, pair, strong)
         /\ \A i \in DOMAIN trail' :
              \/ \E p \in DOMAIN trail : trail'[i] = trail[p] /\ trail[p].level <= level
              \/ \E j \in DOMAIN u : trail'[i] = u[j]
<1> DEFINE v == SubSeq(trailLim, 1, level)
           end == Limit(trail, trailLim, level + 1, Len(trail))
<1>1. /\ TrailOK(trail, trailLim, Models, solver)
      /\ trail \in Seq(Entries) /\ trailLim \in Seq(Nat) /\ Len(trail) \in Nat
      /\ level \in Nat /\ level \in 0 .. Len(trailLim) /\ Level = Len(trailLim)
      /\ Limits(trail, trailLim)
  BY TrailTypes DEF TrailInv, TrailOK, Level
<1>2. /\ v \in Seq(Nat) /\ Len(v) = level /\ DOMAIN v = 1 .. level
      /\ \A j \in DOMAIN v : j \in DOMAIN trailLim /\ v[j] = trailLim[j] /\ trailLim[j] \in Nat
  BY <1>1
<1>3. k \in Seq(Entries) /\ Len(k) \in Nat /\ \A i \in 1 .. end : i \in DOMAIN k  BY DEF Retains
<1>4. end \in 0 .. Len(trail) /\ end <= Len(k)
      /\ (level = Level => end = Len(trail)) /\ (level # Level => end = trailLim[level + 1])
  <2>1. CASE level = Len(trailLim)
    <3>1. level + 1 \notin DOMAIN trailLim  BY <1>1, <2>1
    <3>2. end = Len(trail)  BY <3>1 DEF Limit
    <3> HIDE DEF end
    <3>3. end # 0 => end \in 1 .. end  BY <1>1, <3>2
    <3>4. end # 0 => end \in DOMAIN k  BY <1>3, <3>3
    <3> QED  BY <1>1, <1>3, <2>1, <3>2, <3>4
  <2>2. CASE level # Len(trailLim)
    <3>1. level + 1 \in DOMAIN trailLim  BY ONLY <1>1, <2>2
    <3>2. end = trailLim[level + 1]  BY <3>1 DEF Limit
    <3>6. trailLim[level + 1] \in Nat  BY ONLY <1>1, <3>1
    <3>7. trailLim[level + 1] < Len(trail)  BY ONLY <1>1, <3>1 DEF Limits
    <3>3. end \in Nat /\ end < Len(trail)  BY <3>2, <3>6, <3>7
    <3> HIDE DEF end
    <3>4. end # 0 => end \in 1 .. end  BY <3>3
    <3>5. end # 0 => end \in DOMAIN k  BY <1>3, <3>4
    <3> QED  BY <1>1, <1>3, <2>2, <3>2, <3>3, <3>5
  <2> QED  BY <2>1, <2>2
<1>5. Level' = level  BY <1>2 DEF Level
<1>6. TrailInv'  BY SameModels DEF TrailInv
<1>7. qhead' \in 0 .. Len(k) /\ qhead' <= end
  BY <1>1, <1>3, <1>4
<1>8. trail' \in Seq(Entries) /\ qhead' \in 0 .. Len(trail')  BY <1>3, <1>7, Concatenated
<1>9. PropagateInv'
  <2> SUFFICES ASSUME NEW j \in DOMAIN v PROVE v[j] <= qhead'
    BY DEF PropagateInv
  <2>1. CASE level = Level  BY <1>2, <2>1 DEF PropagateInv
  <2>2. CASE level # Level
    <3>1. level + 1 \in DOMAIN trailLim  BY ONLY <1>1, <2>2
    <3>2. j \in 1 .. (level + 1) - 1  BY <1>2
    <3>4. trailLim[level + 1] \in Nat  BY ONLY <1>1, <3>1
    <3>5. trailLim[j] < trailLim[level + 1]  BY ONLY <1>1, <3>1, <3>2 DEF Limits
    <3>3. trailLim[j] < trailLim[level + 1] /\ trailLim[level + 1] \in Nat  BY <3>4, <3>5
    <3> QED  BY <1>2, <2>2, <3>3
  <2> QED  BY <2>1, <2>2
<1> HIDE DEF end
<1>10. /\ \A j \in 0 .. level + 1 : TrueBelow(k, j) = TrueBelow(trail, j)
       /\ \A n \in 0 .. end : FalseIn(k, n) = FalseIn(trail, n)
       /\ \A i \in DOMAIN k : \E p \in DOMAIN trail : k[i] = trail[p] /\ trail[p].level <= level
  <2>1. /\ \A j \in 0 .. level + 1 : TrueBelow(k, j) = TrueBelow(trail, j)
        /\ \A n \in 0 .. Limit(trail, trailLim, level + 1, Len(trail)) :
             FalseIn(k, n) = FalseIn(trail, n)
        /\ \A i \in DOMAIN k : \E p \in DOMAIN trail : k[i] = trail[p] /\ trail[p].level <= level
    BY ONLY <1>1, Retains(k, trail, trailLim, level, m), CutFacts
  <2> QED  BY <2>1 DEF end
<1>11. \A input, clauses : Remains(input, trail, clauses) => Remains(input, trail', clauses)
  <2>1. TrueBelow(k, 1) = TrueBelow(trail, 1)  BY <1>1, <1>10
  <2>2. \A input, clauses : Remains(input, trail, clauses) => Remains(input, k, clauses)
    BY <2>1 DEF Remains
  <2> QED  BY <1>3, <2>2, RemainsExtended
<1>12. Limits(k, v)
  <2>1. TrailOK(k, v, Models, solver)  BY <1>1, TrailCut
  <2> QED  BY <2>1 DEF TrailOK
<1>13. ASSUME NEW top \in Nat, NEW now \in 0 .. level + 1, NEW lits, NEW pair, NEW strong,
              WatchesOK(trail, trailLim, qhead, top, lits, pair, strong), now <= top
       PROVE  WatchesOK(trail', trailLim', qhead', now, lits, pair, strong)
  <2>1. WatchesOK(k, v, qhead', now, lits, pair, strong)
    <3> SUFFICES ASSUME NEW j \in 1 .. now
                 PROVE  WatchesSee(k, j, FalseIn(k, Limit(k, v, j, qhead')), lits, pair, strong)
      BY DEF WatchesOK
    <3>1. WatchesSee(trail, j, FalseIn(trail, Limit(trail, trailLim, j, qhead)), lits, pair, strong)
      BY <1>13 DEF WatchesOK
    <3>2. Limit(k, v, j, qhead') = Limit(trail, trailLim, j, qhead)
      <4>1. CASE j \in DOMAIN v  BY <1>2, <4>1 DEF Limit
      <4>2. CASE j \notin DOMAIN v
        <5>1. j = level + 1  BY <1>1, <1>2, <4>2
        <5>2. CASE level = Level
          <6>1. j \notin DOMAIN trailLim  BY <1>1, <5>1, <5>2
          <6> QED  BY <4>2, <5>2, <6>1 DEF Limit
        <5>3. CASE level # Level
          <6>1. j \in DOMAIN trailLim  BY ONLY <1>1, <5>1, <5>3
          <6> QED  BY <4>2, <5>1, <5>3, <6>1 DEF Limit
        <5> QED  BY <5>2, <5>3
      <4> QED  BY <4>1, <4>2
    <3>3. Limit(k, v, j, qhead') \in 0 .. end
      <4>1. CASE j \in DOMAIN v
        <5>1. v[j] <= qhead' /\ v[j] \in Nat  BY <1>2, <1>9, <4>1 DEF PropagateInv
        <5> HIDE DEF v
        <5> QED  BY <1>4, <1>7, <4>1, <5>1 DEF Limit
      <4>2. CASE j \notin DOMAIN v  BY <1>7, <4>2 DEF Limit
      <4> QED  BY <4>1, <4>2
    <3>4. j \in 0 .. level + 1  BY <1>1
    <3> QED  BY <1>10, <3>1, <3>2, <3>3, <3>4 DEF WatchesSee
  <2> QED  BY <1>2, <1>3, <1>7, <1>12, <2>1, WatchesExtended
<1>14. \A i \in DOMAIN trail' :
         \/ \E p \in DOMAIN trail : trail'[i] = trail[p] /\ trail[p].level <= level
         \/ \E j \in DOMAIN u : trail'[i] = u[j]
  BY <1>3, <1>10, Concatenated
<1> QED  BY <1>5, <1>6, <1>8, <1>9, <1>11, <1>13, <1>14

\* The search goes back to a level and does nothing else.
LEMMA GoBack ==
  ASSUME Parts, TypeOK, ~Analyzing, ~Analyzing', visiting = {},
         NEW level, level \in 0 .. Level, NEW k, NEW m, Retains(k, trail, trailLim, level, m),
         trail' = k, trailLim' = SubSeq(trailLim, 1, level),
         qhead' = IF level = Level THEN qhead ELSE trailLim[level + 1],
         UNCHANGED <<solver, formula, loaded, order, visiting, reductions>>
  PROVE  /\ ControlInv' => Parts'
         /\ trail' \in Seq([lit : Literal, level : Nat, reason : AnyClause])
         /\ trailLim' \in Seq(Nat) /\ qhead' \in 0 .. Len(trail') /\ Level' = level
<1>1. /\ TrailInv /\ PropagateInv /\ TrailOK(trail, trailLim, Models, solver)
      /\ qhead \in 0 .. Len(trail) /\ level \in 0 .. Len(trailLim) /\ level \in Nat
      /\ trail \in Seq(Entries) /\ trailLim \in Seq(Nat) /\ Level = Len(trailLim)
  BY TrailTypes DEF Parts, TypeOK, TrailInv, Level
<1> DEFINE u == << >>
<1>2. u \in Seq(Entries) /\ DOMAIN u = {}  OBVIOUS
<1>3. k \in Seq(Entries) /\ k \o u = k  BY DEF Retains
<1> HIDE DEF u
<1>4. TrailOK(k \o u, SubSeq(trailLim, 1, level), Models, solver)  BY <1>1, <1>3, TrailCut
<1>5. trail' = k \o u /\ visiting' = {}  BY <1>3
<1>6. /\ Level' = level
      /\ TrailInv' /\ PropagateInv'
      /\ trail' \in Seq(Entries) /\ qhead' \in 0 .. Len(trail')
      /\ \A input, clauses : Remains(input, trail, clauses) => Remains(input, trail', clauses)
      /\ \A lits, pair, strong : \A top \in Nat, now \in 0 .. level + 1 :
           WatchesOK(trail, trailLim, qhead, top, lits, pair, strong) /\ now <= top
           => WatchesOK(trail', trailLim', qhead', now, lits, pair, strong)
      /\ \A i \in DOMAIN trail' :
           \/ \E p \in DOMAIN trail : trail'[i] = trail[p] /\ trail[p].level <= level
           \/ \E j \in DOMAIN u : trail'[i] = u[j]
  BY ONLY <1>1, <1>2, <1>4, <1>5, level \in 0 .. Level, Retains(k, trail, trailLim, level, m),
     trailLim' = SubSeq(trailLim, 1, level),
     qhead' = IF level = Level THEN qhead ELSE trailLim[level + 1],
     UNCHANGED <<solver, formula, loaded, order, visiting, reductions>>, BackStep
<1>7. ClauseInv'  BY SameClauses DEF Parts
<1>8. FormulaInv'  BY <1>6 DEF Parts, FormulaInv
<1>9. PresentInv'
  <2> SUFFICES ASSUME NEW i \in DOMAIN trail', trail'[i].level > 0, trail'[i].reason # NoReason
               PROVE  Present(i)'
    BY DEF PresentInv
  <2>1. PICK p \in DOMAIN trail : trail'[i] = trail[p]  BY <1>2, <1>6
  <2>2. Present(p)  BY <2>1 DEF Parts, PresentInv
  <2> QED  BY <2>1, <2>2 DEF Present, Binary
<1>10. WatchInv'
  <2> SUFFICES ASSUME NEW c \in DOMAIN order
               PROVE  WatchesOK(trail', trailLim', qhead', level + 1, c.lits, order[c], Strong)
    BY <1>5, <1>6 DEF WatchInv, Strong
  <2>1. WatchesOK(trail, trailLim, qhead, Level + 1, c.lits, order[c], Strong)
    BY DEF Parts, WatchInv, Analyzing
  <2>2. Level + 1 \in Nat /\ level + 1 \in 0 .. level + 1 /\ level + 1 <= Level + 1  BY <1>1
  <2> QED  BY <1>6, <2>1, <2>2
<1>11. AnalysisInv'  BY NoAnalysis
<1>12. trail' \in Seq([lit : Literal, level : Nat, reason : AnyClause])  BY <1>6 DEF Entries
<1>13. trailLim' \in Seq(Nat)  BY <1>1
<1> QED  BY <1>6, <1>7, <1>8, <1>9, <1>10, <1>11, <1>12, <1>13 DEF Parts

-----------------------------------------------------------------------------
(* The MiniSat family                                                      *)

\* cancelUntil keeps the entries before the level it cancels.
LEMMA TrailAtRetains ==
  ASSUME TrailInv, solver # "Kissat", NEW level, level \in 0 .. Level
  PROVE  /\ \E m : Retains(TrailAt(level), trail, trailLim, level, m)
         /\ LengthAt(level) = Limit(trail, trailLim, level + 1, Len(trail))
         /\ Level # level => LengthAt(level) = trailLim[level + 1]
<1>1. /\ TrailOK(trail, trailLim, Models, solver) /\ trailLim \in Seq(Nat)
      /\ level \in 0 .. Len(trailLim) /\ Level = Len(trailLim)
  BY TrailTypes DEF TrailInv, Level
<1>2. LengthAt(level) = Limit(trail, trailLim, level + 1, Len(trail))
  <2>1. CASE level = Len(trailLim)
    <3>1. level + 1 \notin DOMAIN trailLim /\ ~(Level > level)  BY ONLY <1>1, <2>1
    <3> QED  BY <3>1 DEF LengthAt, Limit
  <2>2. CASE level # Len(trailLim)
    <3>1. level + 1 \in DOMAIN trailLim /\ Level > level  BY ONLY <1>1, <2>2
    <3> QED  BY <3>1 DEF LengthAt, Limit
  <2> QED  BY <2>1, <2>2
<1>3. Level # level => LengthAt(level) = trailLim[level + 1]  BY <1>1 DEF LengthAt
<1>4. \E m : Retains(SubSeq(trail, 1, Limit(trail, trailLim, level + 1, Len(trail))),
                     trail, trailLim, level, m)
  BY <1>1, PrefixRetains
<1> QED  BY <1>2, <1>3, <1>4 DEF TrailAt

\* An action that goes back to level 0.
LEMMA CancelStep ==
  ASSUME Parts, TypeOK, solver # "Kissat", ~Analyzing, visiting = {}, CancelUntil(0),
         loaded = Len(formula), pc' \in {"import", "stopped", "top"},
         UNCHANGED <<clauseVars, visiting, caller, analysis, imports, reductions>>,
         conflicted' \in BOOLEAN
  PROVE  IInv'
<1> USE DEF clauseVars, analysis
<1>1. TrailInv /\ 0 \in 0 .. Level  BY TrailTypes DEF Parts
<1>2. PICK m : Retains(TrailAt(0), trail, trailLim, 0, m)  BY <1>1, TrailAtRetains
<1>3. qhead' = IF 0 = Level THEN qhead ELSE trailLim[0 + 1]
  <2>1. Level # 0 => LengthAt(0) = trailLim[0 + 1]  BY <1>1, TrailAtRetains
  <2>2. Level \in Nat  BY <1>1, TrailTypes
  <2>3. Level # 0 <=> Level > 0  BY <2>2
  <2> QED  BY <2>1, <2>3 DEF CancelUntil
<1>4. ~Analyzing'  BY DEF Analyzing
<1>5. /\ ControlInv' => Parts'
      /\ trail' \in Seq([lit : Literal, level : Nat, reason : AnyClause])
      /\ trailLim' \in Seq(Nat) /\ qhead' \in 0 .. Len(trail') /\ Level' = 0
  <2>1. trail' = TrailAt(0) /\ trailLim' = SubSeq(trailLim, 1, 0)  BY DEF CancelUntil
  <2> QED  BY <1>1, <1>2, <1>3, <1>4, <2>1, GoBack
<1>6. ControlInv'  BY <1>5 DEF ControlInv
<1>7. TypeOK'  BY <1>5 DEF TypeOK
<1>8. AnswersAreRight'  BY DEF AnswersAreRight
<1> QED  BY <1>5, <1>6, <1>7, <1>8 DEF IInv

\* The forced import goes back to level 0 first.
LEMMA ForceImportInv == ASSUME IInv, solver # "Kissat", ForceImport PROVE IInv'
<1>1. Parts /\ TypeOK /\ loaded = Len(formula) /\ visiting = {} /\ ~Analyzing
  BY DEF IInv, ForceImport, Parts, ControlInv, Analyzing
<1>2. conflicted' \in BOOLEAN  BY <1>1 DEF TypeOK, ForceImport, counters
<1> QED  BY <1>1, <1>2, CancelStep DEF ForceImport, counters

\* The search is told to stop.
LEMMA TerminateInv == ASSUME IInv, solver # "Kissat", Terminate PROVE IInv'
<1>1. Parts /\ TypeOK /\ loaded = Len(formula) /\ visiting = {} /\ ~Analyzing
  BY DEF IInv, Terminate, Parts, ControlInv, Analyzing
<1>2. conflicted' \in BOOLEAN  BY <1>1 DEF TypeOK, Terminate, counters
<1> QED  BY <1>1, <1>2, CancelStep DEF Terminate, counters

\* A restart of the MiniSat family.
LEMMA RestartInv == ASSUME IInv, solver # "Kissat", Restart PROVE IInv'
<1>1. Parts /\ TypeOK /\ loaded = Len(formula) /\ visiting = {} /\ ~Analyzing
  BY DEF IInv, Restart, Parts, ControlInv, Analyzing
<1> QED  BY <1>1, CancelStep DEF Restart

-----------------------------------------------------------------------------
(* Reasons                                                                 *)

\* A reason follows from the formula and implied its literal when it was assigned.
LEMMA ReasonFacts ==
  ASSUME TrailInv, NEW i \in DOMAIN trail, trail[i].level > 0, trail[i].reason # NoReason
  PROVE  /\ trail[i].reason.lits \in Clauses /\ trail[i].lit \in trail[i].reason.lits
         /\ \A a \in Models : trail[i].reason.lits \cap a # {}
         /\ \A l \in trail[i].reason.lits \ {trail[i].lit} :
              /\ l \in Literal /\ l \in FalseLits /\ LevelOf(l) <= trail[i].level
              /\ \E j \in 1 .. i - 1 : j \in DOMAIN trail /\ trail[j].lit = -l
<1>1. Justified(trail[i], EntriesUpTo(trail, i - 1), Models, solver)
  BY DEF TrailInv, TrailOK, ReasonsRight
<1>2. trail \in Seq(Entries)  BY TrailTypes
<1> SUFFICES ASSUME NEW l \in trail[i].reason.lits \ {trail[i].lit}
             PROVE  /\ l \in Literal /\ l \in FalseLits /\ LevelOf(l) <= trail[i].level
                    /\ \E j \in 1 .. i - 1 : j \in DOMAIN trail /\ trail[j].lit = -l
  BY <1>1 DEF Justified
<1>3. l \in Literal  BY <1>1 DEF Justified, Clauses
<1>4. PICK j \in 1 .. i - 1 : trail[j].lit = -l /\ trail[j].level <= trail[i].level
  BY <1>1 DEF Justified, EntriesUpTo
<1>5. j \in DOMAIN trail  BY <1>2
<1>6. l \in FalseLits /\ LevelOf(l) = trail[j].level
  BY <1>3, <1>4, <1>5, TrailTypes, EntryIs, Literals
<1> QED  BY <1>3, <1>4, <1>5, <1>6

\* A set of two literals is that of any two of its members.
LEMMA PairIs ==
  ASSUME NEW S \in SUBSET Literal, Cardinality(S) = 2, NEW a \in S, NEW b \in S, a # b
  PROVE  S = {a, b}
<1> SUFFICES ASSUME NEW l \in S, l \notin {a, b} PROVE FALSE  OBVIOUS
<1>1. IsFiniteSet(S)  BY Two
<1>2. Cardinality(S \ {l}) = Cardinality(S) - 1  BY <1>1, FS_RemoveElement
<1>3. a \in S \ {l} /\ b \in S \ {l} /\ S \ {l} \in SUBSET Literal  OBVIOUS
<1>4. Cardinality(S \ {l}) > 1  BY <1>3, Two
<1> QED  BY <1>2, <1>4

\* The literal that a clause has made true is found.
LEMMA ImpliedIs ==
  ASSUME TrailInv, ClauseInv, NEW i \in DOMAIN trail, trail[i].level > 0,
         trail[i].reason # NoReason, NEW c, c = trail[i].reason, c \in DOMAIN order,
         solver # "Kissat" /\ ~Binary(c) => order[c][1] = trail[i].lit
  PROVE  Implied(c) = trail[i].lit
<1>1. trail[i].lit \in c.lits /\ trail[i].lit \in TrueLits
      /\ \A l \in c.lits \ {trail[i].lit} : l \in FalseLits
  BY ReasonFacts, TrailTypes
<1>2. \A l \in c.lits : l \in TrueLits => l = trail[i].lit  BY <1>1, TrailTypes
<1>3. CASE solver = "Kissat"
  BY <1>1, <1>2, <1>3 DEF Implied
<1>4. CASE solver # "Kissat" /\ ~Binary(c)  BY <1>4 DEF Implied
<1>5. CASE solver # "Kissat" /\ Binary(c)
  <2>1. order[c][1] \in c.lits /\ order[c][2] \in c.lits /\ order[c][1] # order[c][2]
        /\ c.lits \in SUBSET Literal
    BY DEF ClauseInv, Clauses
  <2>2. \A l \in c.lits : l \in {order[c][1], order[c][2]}
    <3>1. Cardinality(c.lits) = 2  BY <1>5 DEF Binary
    <3> QED  BY <2>1, <3>1, PairIs
  <2>3. CASE order[c][1] \in TrueLits  BY <1>2, <1>5, <2>1, <2>3 DEF Implied
  <2>4. CASE order[c][1] \notin TrueLits  BY <1>1, <1>5, <2>2, <2>4 DEF Implied
  <2> QED  BY <2>3, <2>4
<1> QED  BY <1>3, <1>4, <1>5

\* The reasons of entries are replaced by others.
LEMMA ReasonsReplaced ==
  ASSUME NEW models, NEW s, NEW t, NEW lim, TrailOK(t, lim, models, s),
         NEW w, DOMAIN w = DOMAIN t, w = [i \in DOMAIN w |-> w[i]],
         \A i \in DOMAIN t :
           /\ w[i] \in Entries /\ w[i].lit = t[i].lit /\ w[i].level = t[i].level
           /\ t[i].level > 0 =>
                /\ t[i].reason = NoReason <=> w[i].reason = NoReason
                /\ w[i].reason # NoReason => Justified(w[i], EntriesUpTo(t, i - 1), models, s)
  PROVE  /\ TrailOK(w, lim, models, s) /\ Len(w) = Len(t)
         /\ \A k : TrueBelow(w, k) = TrueBelow(t, k)
         /\ \A n \in 0 .. Len(t) : FalseIn(w, n) = FalseIn(t, n)
<1>1. /\ t \in Seq(Entries) /\ Len(t) \in Nat /\ DOMAIN t = 1 .. Len(t)
      /\ lim \in Seq(Nat) /\ Distinct(t) /\ Limits(t, lim) /\ Levels(t, lim)
      /\ (s # "Kissat" => InOrder(t, lim)) /\ Decisions(t, lim) /\ RootRight(t, models)
  BY DEF TrailOK
<1>2. w \in Seq(Entries) /\ Len(w) = Len(t)
  <2>1. w \in [1 .. Len(t) -> Entries]  BY <1>1
  <2> QED  BY <1>1, <2>1
<1>3. Distinct(w)  BY <1>1 DEF Distinct
<1>4. Limits(w, lim)
  <2> SUFFICES ASSUME NEW k \in DOMAIN lim
               PROVE  /\ lim[k] < Len(w)
                      /\ w[lim[k] + 1].level = k
                      /\ w[lim[k] + 1].reason = NoReason
                      /\ \A j \in 1 .. k - 1 : lim[j] < lim[k]
    BY DEF Limits
  <2>1. /\ lim[k] < Len(t)
        /\ t[lim[k] + 1].level = k
        /\ t[lim[k] + 1].reason = NoReason
        /\ \A j \in 1 .. k - 1 : lim[j] < lim[k]
    BY <1>1 DEF Limits
  <2>2. lim[k] \in Nat /\ k \in Nat /\ k > 0  BY <1>1
  <2>3. lim[k] + 1 \in DOMAIN t  BY <1>1, <2>1, <2>2
  <2> QED  BY <1>2, <2>1, <2>2, <2>3
<1>5. Levels(w, lim) /\ (s # "Kissat" => InOrder(w, lim))  BY <1>1 DEF Levels, InOrder
<1>6. Decisions(w, lim)  BY <1>1 DEF Decisions
<1>7. RootRight(w, models)  BY <1>1 DEF RootRight
<1>8. ReasonsRight(w, models, s)
  <2> SUFFICES ASSUME NEW i \in DOMAIN w, w[i].level > 0, w[i].reason # NoReason
               PROVE  Justified(w[i], EntriesUpTo(w, i - 1), models, s)
    BY DEF ReasonsRight
  <2>1. Justified(w[i], EntriesUpTo(t, i - 1), models, s)  OBVIOUS
  <2>2. \A b \in EntriesUpTo(t, i - 1) :
          \E d \in EntriesUpTo(w, i - 1) : d.lit = b.lit /\ d.level = b.level
    <3> SUFFICES ASSUME NEW j \in 1 .. i - 1
                 PROVE  \E d \in EntriesUpTo(w, i - 1) : d.lit = t[j].lit /\ d.level = t[j].level
      BY DEF EntriesUpTo
    <3>1. j \in DOMAIN t  BY <1>1
    <3>2. w[j] \in EntriesUpTo(w, i - 1)  BY DEF EntriesUpTo
    <3> QED  BY <3>1, <3>2
  <2>3. \A l \in w[i].reason.lits \ {w[i].lit} :
          \E b \in EntriesUpTo(w, i - 1) : b.lit = -l /\ b.level <= w[i].level
    <3> SUFFICES ASSUME NEW l \in w[i].reason.lits \ {w[i].lit}
                 PROVE  \E b \in EntriesUpTo(w, i - 1) : b.lit = -l /\ b.level <= w[i].level
      OBVIOUS
    <3>1. PICK b \in EntriesUpTo(t, i - 1) : b.lit = -l /\ b.level <= w[i].level
      BY <2>1 DEF Justified
    <3> QED  BY <2>2, <3>1
  <2>4. s = "Kissat" => \E b \in EntriesUpTo(w, i - 1) :
                          -b.lit \in w[i].reason.lits /\ b.level = w[i].level
    <3> SUFFICES ASSUME s = "Kissat"
                 PROVE  \E b \in EntriesUpTo(w, i - 1) :
                          -b.lit \in w[i].reason.lits /\ b.level = w[i].level
      OBVIOUS
    <3>1. PICK b \in EntriesUpTo(t, i - 1) : -b.lit \in w[i].reason.lits /\ b.level = w[i].level
      BY <2>1 DEF Justified
    <3> QED  BY <2>2, <3>1
  <2> QED  BY <2>1, <2>3, <2>4 DEF Justified
<1>9. ASSUME NEW k  PROVE TrueBelow(w, k) = TrueBelow(t, k)
  <2>1. \A l : l \in TrueBelow(w, k) <=> l \in TrueBelow(t, k)  BY DEF TrueBelow
  <2> QED  BY <2>1
<1>10. ASSUME NEW n \in 0 .. Len(t)  PROVE FalseIn(w, n) = FalseIn(t, n)
  <2>1. \A i \in 1 .. n : i \in DOMAIN t  BY <1>1
  <2>2. \A l : l \in FalseIn(w, n) <=> l \in FalseIn(t, n)  BY <2>1 DEF FalseIn
  <2> QED  BY <2>2
<1> QED  BY <1>1, <1>2, <1>3, <1>4, <1>5, <1>6, <1>7, <1>8, <1>9, <1>10 DEF TrailOK

-----------------------------------------------------------------------------
(* Clauses removed                                                         *)

\* reduceDB removes no reason.
LEMMA ReduceDBInv == ASSUME IInv, solver # "Kissat", ReduceDB PROVE IInv'
<1> USE DEF ReduceDB, trailVars, analysis
<1>1. Parts /\ TypeOK /\ TrailInv  BY DEF IInv, Parts
<1>2. PICK gone \in SUBSET {c \in DOMAIN order :
                              c.learnt /\ Cardinality(c.lits) > 2 /\ ~Locked(c)} :
        order' = [c \in DOMAIN order \ gone |-> order[c]]
  OBVIOUS
<1>3. /\ UNCHANGED <<solver, formula, loaded, trail, trailLim, qhead, visiting>>
      /\ pc' = "reduced" /\ reductions' = reductions + 1 /\ reductions < MaxReductions
      /\ ~Analyzing /\ ~Analyzing' /\ visiting = {} /\ qhead = Len(trail)
  BY <1>1 DEF Analyzing, Parts, ControlInv
<1>4. /\ DOMAIN order' = DOMAIN order \ gone
      /\ \A c \in DOMAIN order' : c \in DOMAIN order /\ order'[c] = order[c]
  BY <1>2
<1>5. TypeOK'
  <2>1. reductions' \in 0 .. MaxReductions  BY <1>1, <1>3, SearchAssumption DEF TypeOK
  <2> QED  BY <1>1, <1>3, <1>4, <2>1 DEF TypeOK
<1>6. AnswersAreRight'  BY <1>3 DEF AnswersAreRight
<1>7. TrailInv'  BY <1>1, <1>3, SameTrail
<1>8. ControlInv'  BY <1>1, <1>3 DEF Parts, ControlInv, Level
<1>9. PropagateInv'  BY <1>1, <1>3 DEF Parts, PropagateInv
<1>10. ClauseInv'  BY <1>1, <1>3, <1>4, SameModels DEF Parts, ClauseInv
<1>11. FormulaInv'
  <2> SUFFICES ASSUME NEW i \in 1 .. loaded
               PROVE  Remains(formula[i], trail, DOMAIN order')
    BY <1>3 DEF FormulaInv
  <2>1. \A c \in DOMAIN order : ~c.learnt => c \in DOMAIN order'  BY <1>4
  <2> QED  BY <1>1, <2>1 DEF Parts, FormulaInv, Remains
<1>12. PresentInv'
  <2> SUFFICES ASSUME NEW i \in DOMAIN trail, trail[i].level > 0, trail[i].reason # NoReason
               PROVE  Present(i)'
    BY <1>3 DEF PresentInv
  <2> DEFINE c == trail[i].reason
  <2>1. c \in DOMAIN order /\ (~Binary(c) => order[c][1] = trail[i].lit)
    BY <1>1 DEF Parts, PresentInv, Present
  <2>2. Implied(c) = trail[i].lit  BY <1>1, <2>1, ImpliedIs DEF Parts
  <2>3. Locked(c)  BY <1>1, <2>2, TrailTypes, EntryIs DEF Locked
  <2>4. c \in DOMAIN order'  BY <1>4, <2>1, <2>3
  <2> QED  BY <1>3, <1>4, <2>1, <2>4 DEF Present, Binary
<1>13. WatchInv'
  <2> SUFFICES ASSUME NEW c \in DOMAIN order'
               PROVE  WatchesOK(trail, trailLim, qhead, Level + 1, c.lits, order'[c], Strong)
    BY <1>3 DEF WatchInv, Level, Strong
  <2> QED  BY <1>1, <1>3, <1>4 DEF Parts, WatchInv, Analyzing
<1>14. AnalysisInv'  BY <1>3, NoAnalysis
<1> QED
  BY <1>5, <1>6, <1>7, <1>8, <1>9, <1>10, <1>11, <1>12, <1>13, <1>14 DEF IInv, Parts

\* Simplifying at level 0 removes clauses that are true and takes false literals out
\* of the others; the watched ones are not among them.
LEMMA SimplifyInv == ASSUME IInv, solver # "Kissat", Simplify PROVE IInv'
<1> USE DEF Simplify, analysis, counters
<1>1. Parts /\ TypeOK /\ TrailInv  BY DEF IInv, Parts
<1>2. PICK removeSatisfied \in BOOLEAN :
        LET gone == {c \in DOMAIN order : Satisfied(c) /\ (c.learnt \/ removeSatisfied)}
            kept == DOMAIN order \ gone
        IN  /\ order' = [d \in {Compacted(c) : c \in kept} |->
                           order[CHOOSE c \in kept : Compacted(c) = d]]
            /\ trail' \in ReasonsCleared(gone)
  OBVIOUS
<1> DEFINE gone == {c \in DOMAIN order : Satisfied(c) /\ (c.learnt \/ removeSatisfied)}
           kept == DOMAIN order \ gone
<1>3. /\ UNCHANGED <<solver, formula, loaded, trailLim, qhead, visiting, caller, conflict,
                     analyzed, conflicted, imports, reductions>>
      /\ pc' \in {"stamp", "simplified"}
      /\ ~Analyzing /\ ~Analyzing' /\ visiting = {} /\ qhead = Len(trail) /\ Level = 0
      /\ loaded = Len(formula)
  BY <1>1 DEF Analyzing, Parts, ControlInv
<1>4. /\ trail \in Seq(Entries) /\ Len(trail) \in Nat /\ trailLim \in Seq(Nat)
      /\ Len(trailLim) = 0 /\ DOMAIN trail = 1 .. Len(trail)
      /\ \A i \in DOMAIN trail : trail[i] \in Entries /\ trail[i].level = 0
      /\ TrueLits \subseteq Literal /\ FalseLits \subseteq Literal
      /\ TrueLits \cap FalseLits = {}
  BY <1>1, <1>3, TrailTypes DEF Level
<1>5. order' = [d \in {Compacted(c) : c \in kept} |->
                  order[CHOOSE c \in kept : Compacted(c) = d]]
  BY <1>2
<1>6. ASSUME NEW c \in kept
      PROVE  /\ c \in DOMAIN order /\ c.lits \in Clauses
             /\ order[c][1] \in c.lits /\ order[c][2] \in c.lits /\ order[c][1] # order[c][2]
             /\ c \in AnyClause /\ order[c] \in Literal \X Literal
             /\ c.learnt => c.lits \cap TrueLits = {}
             /\ ~(c.lits \cap TrueLits # {}) =>
                  order[c][1] \notin FalseLits /\ order[c][2] \notin FalseLits
             /\ Compacted(c).learnt = c.learnt /\ Compacted(c).lits \subseteq c.lits
             /\ Compacted(c) \in AnyClause
             /\ Compacted(c).lits = c.lits \/ Compacted(c).lits = c.lits \ FalseLits
             /\ ~c.learnt => Compacted(c) = c
  <2>1. c \in DOMAIN order /\ c.lits \in Clauses /\ c \in AnyClause
        /\ order[c][1] \in c.lits /\ order[c][2] \in c.lits /\ order[c][1] # order[c][2]
        /\ order[c] \in Literal \X Literal
    BY <1>1 DEF Parts, ClauseInv, TypeOK
  <2>2. c.learnt => c.lits \cap TrueLits = {}  BY DEF Satisfied
  <2>3. ~(c.lits \cap TrueLits # {}) =>
           order[c][1] \notin FalseLits /\ order[c][2] \notin FalseLits
    BY <1>1, <1>3, <2>1, Propagated
  <2>4. /\ Compacted(c).learnt = c.learnt /\ Compacted(c).lits \subseteq c.lits
        /\ Compacted(c) \in AnyClause
        /\ Compacted(c).lits = c.lits \/ Compacted(c).lits = c.lits \ FalseLits
        /\ ~c.learnt => Compacted(c) = c
    BY <2>1 DEF Compacted, Clause, AnyClause
  <2> QED  BY <2>1, <2>2, <2>3, <2>4
<1>7. ASSUME NEW d \in DOMAIN order'
      PROVE  \E c \in kept : Compacted(c) = d /\ order'[d] = order[c]
  <2>1. d \in {Compacted(c) : c \in kept}  BY <1>5
  <2>2. order'[d] = order[CHOOSE c \in kept : Compacted(c) = d]  BY <1>5, <2>1
  <2>3. \E c \in kept : Compacted(c) = d  BY <2>1
  <2> QED  BY <2>2, <2>3
<1>8. PICK stale \in SUBSET {i \in DOMAIN trail : solver = "Glucose" /\ Binary(trail[i].reason)} :
        trail' = [i \in DOMAIN trail |->
                    IF trail[i].reason \in gone /\ i \notin stale
                    THEN [trail[i] EXCEPT !.reason = NoReason] ELSE trail[i]]
  <2>1. trail' \in ReasonsCleared(gone)  BY <1>2
  <2> HIDE DEF gone
  <2> QED  BY <2>1 DEF ReasonsCleared
<1>9. /\ DOMAIN trail' = DOMAIN trail /\ trail' = [i \in DOMAIN trail' |-> trail'[i]]
      /\ \A i \in DOMAIN trail :
           trail'[i] \in Entries /\ trail'[i].lit = trail[i].lit /\ trail'[i].level = trail[i].level
  <2> HIDE DEF gone
  <2>1. NoReason \in AnyClause  BY DEF NoReason, AnyClause
  <2>2. DOMAIN trail' = DOMAIN trail /\ trail' = [i \in DOMAIN trail' |-> trail'[i]]
    BY <1>8
  <2> SUFFICES ASSUME NEW i \in DOMAIN trail
               PROVE  trail'[i] \in Entries /\ trail'[i].lit = trail[i].lit
                      /\ trail'[i].level = trail[i].level
    BY <2>2
  <2>3. trail'[i] = trail[i] \/ trail'[i] = [trail[i] EXCEPT !.reason = NoReason]  BY <1>8
  <2>4. trail[i] \in Entries  BY <1>4
  <2> QED  BY <2>1, <2>3, <2>4 DEF Entries
<1> HIDE DEF gone, kept
<1>10. /\ TrailOK(trail', trailLim, Models, solver) /\ Len(trail') = Len(trail)
       /\ \A k : TrueBelow(trail', k) = TrueBelow(trail, k)
       /\ \A n \in 0 .. Len(trail) : FalseIn(trail', n) = FalseIn(trail, n)
  BY <1>1, <1>4, <1>9, ReasonsReplaced DEF TrailInv
<1>11. TrailInv'  BY <1>3, <1>10, SameModels DEF TrailInv
<1>12. TypeOK'
  <2>1. trail' \in Seq([lit : Literal, level : Nat, reason : AnyClause])
    BY <1>10 DEF TrailOK, Entries
  <2>2. \A d \in DOMAIN order' : d \in AnyClause /\ order'[d] \in Literal \X Literal
    <3> SUFFICES ASSUME NEW d \in DOMAIN order'
                 PROVE  d \in AnyClause /\ order'[d] \in Literal \X Literal
      OBVIOUS
    <3>1. PICK c \in kept : Compacted(c) = d /\ order'[d] = order[c]  BY <1>7
    <3> QED  BY <1>6, <3>1
  <2>3. qhead' \in 0 .. Len(trail')  BY <1>3, <1>4, <1>10
  <2>4. visiting' \subseteq DOMAIN order'  BY <1>3
  <2> QED  BY <1>1, <1>3, <2>1, <2>2, <2>3, <2>4 DEF TypeOK
<1>13. AnswersAreRight'  BY <1>3 DEF AnswersAreRight
<1>14. ControlInv'  BY <1>3, <1>10 DEF ControlInv, Level
<1>15. PropagateInv'  BY <1>1, <1>3 DEF Parts, PropagateInv
<1>16. ClauseInv'
  <2> SUFFICES ASSUME NEW d \in DOMAIN order'
               PROVE  /\ d.lits \in Clauses
                      /\ \A a \in Models : d.lits \cap a # {}
                      /\ order'[d][1] # order'[d][2]
                      /\ order'[d][1] \in d.lits /\ order'[d][2] \in d.lits
    BY <1>3, SameModels DEF ClauseInv
  <2>1. PICK c \in kept : Compacted(c) = d /\ order'[d] = order[c]  BY <1>7
  <2>2. order[c][1] \in d.lits /\ order[c][2] \in d.lits
    <3>1. CASE c.learnt  BY <1>6, <2>1, <3>1
    <3>2. CASE ~c.learnt  BY <1>6, <2>1, <3>2
    <3> QED  BY <3>1, <3>2
  <2>3. d.lits \in Clauses
    <3>1. d.lits \subseteq c.lits /\ c.lits \in Clauses  BY <1>6, <2>1
    <3> QED  BY <2>2, <3>1 DEF Clauses
  <2>4. \A a \in Models : d.lits \cap a # {}
    <3> SUFFICES ASSUME NEW a \in Models PROVE d.lits \cap a # {}  OBVIOUS
    <3>1. a \cap FalseLits = {}  BY <1>1, <1>3, RootFalse
    <3>2. c.lits \cap a # {}  BY <1>1, <1>6 DEF Parts, ClauseInv
    <3> QED  BY <1>6, <2>1, <3>1, <3>2
  <2> QED  BY <1>6, <2>1, <2>2, <2>3, <2>4
<1>17. TrueBelow(trail, 1) = TrueLits  BY <1>1, <1>3, AllLits
<1>18. FormulaInv'
  <2> SUFFICES ASSUME NEW i \in 1 .. loaded
               PROVE  Remains(formula[i], trail', DOMAIN order')
    BY <1>3 DEF FormulaInv
  <2>1. Remains(formula[i], trail, DOMAIN order)  BY <1>1 DEF Parts, FormulaInv
  <2>2. TrueBelow(trail', 1) = TrueLits  BY <1>10, <1>17
  <2>3. CASE formula[i] \cap TrueLits # {}  BY <2>2, <2>3 DEF Remains
  <2>4. CASE \E c \in DOMAIN order : ~c.learnt /\ c.lits \subseteq formula[i] \cup FalseLits
    <3>1. PICK c \in DOMAIN order : ~c.learnt /\ c.lits \subseteq formula[i] \cup FalseLits
      BY <2>4
    <3>2. CASE c \in kept
      <4>1. Compacted(c) = c  BY <1>6, <3>1, <3>2
      <4>2. c \in DOMAIN order'  BY <1>5, <3>2, <4>1
      <4> QED  BY <2>2, <3>1, <4>2 DEF Remains, FalseLits
    <3>3. CASE c \notin kept
      <4>1. c.lits \cap TrueLits # {}  BY <3>3 DEF kept, gone, Satisfied
      <4>2. formula[i] \cap TrueLits # {}  BY <1>4, <3>1, <4>1
      <4> QED  BY <2>2, <4>2 DEF Remains
    <3> QED  BY <3>2, <3>3
  <2> QED  BY <1>17, <2>1, <2>3, <2>4 DEF Remains, FalseLits
<1>19. PresentInv'
  <2>1. \A i \in DOMAIN trail' : trail'[i].level = 0  BY <1>4, <1>9
  <2>2. \A i \in DOMAIN trail' : ~(trail'[i].level > 0)  BY <2>1
  <2> QED  BY <2>2 DEF PresentInv
<1>20. WatchInv'
  <2> SUFFICES ASSUME NEW d \in DOMAIN order'
               PROVE  WatchesOK(trail', trailLim, qhead, 1, d.lits, order'[d], Strong)
    <3>1. Level' = 0 /\ Level' + 1 = 1 /\ Strong' = Strong /\ visiting' = {}
      BY <1>3 DEF Level, Strong
    <3> QED  BY <1>3, <3>1 DEF WatchInv
  <2> SUFFICES WatchesSee(trail', 1, FalseIn(trail', Limit(trail', trailLim, 1, qhead)),
                          d.lits, order'[d], Strong)
    BY DEF WatchesOK
  <2>1. PICK c \in kept : Compacted(c) = d /\ order'[d] = order[c]  BY <1>7
  <2>2. Limit(trail', trailLim, 1, qhead) = Len(trail)
    <3>1. DOMAIN trailLim = {}  BY <1>4
    <3> QED  BY <1>3, <3>1 DEF Limit
  <2>3. FalseIn(trail', Len(trail)) = FalseLits  BY <1>1, <1>4, <1>10, AllLits
  <2>4. TrueBelow(trail', 1) = TrueLits  BY <1>10, <1>17
  <2>5. c.lits \cap TrueLits # {} => d.lits \cap TrueLits # {}  BY <1>4, <1>6, <2>1
  <2>6. c.lits \cap TrueLits = {} => order[c][1] \notin FalseLits /\ order[c][2] \notin FalseLits
    BY <1>6
  <2> QED  BY <2>1, <2>2, <2>3, <2>4, <2>5, <2>6 DEF WatchesSee
<1>21. AnalysisInv'  BY <1>3, NoAnalysis
<1> QED
  BY <1>11, <1>12, <1>13, <1>14, <1>15, <1>16, <1>18, <1>19, <1>20, <1>21 DEF IInv, Parts

-----------------------------------------------------------------------------
(* Propagation                                                             *)

\* What is known of a clause that is visited.
LEMMA Visited ==
  ASSUME Parts, TypeOK, pc = "propagate", NEW c \in visiting
  PROVE  /\ c \in DOMAIN order /\ qhead \in 1 .. Len(trail) /\ qhead \in DOMAIN trail
         /\ \A k \in DOMAIN trailLim : trailLim[k] < qhead
         /\ -trail[qhead].lit \in {order[c][1], order[c][2]}
         /\ -trail[qhead].lit \in FalseLits /\ -trail[qhead].lit \in Literal
         /\ c.lits \in Clauses /\ c.lits \subseteq Literal /\ c \in AnyClause
         /\ order[c][1] \in c.lits /\ order[c][2] \in c.lits /\ order[c][1] # order[c][2]
         /\ WatchesOK(trail, trailLim, qhead - 1, Level + 1, c.lits, order[c], Strong)
<1>1. TrailInv /\ c \in DOMAIN order /\ ~Analyzing  BY DEF Parts, TypeOK, Analyzing
<1>2. trail \in Seq(Entries) /\ Len(trail) \in Nat  BY <1>1, TrailTypes
<1>3. qhead \in 1 .. Len(trail) /\ \A k \in DOMAIN trailLim : trailLim[k] < qhead
  BY <1>2 DEF Parts, PropagateInv, TypeOK
<1>4. qhead \in DOMAIN trail  BY <1>2, <1>3
<1>5. -trail[qhead].lit \in {order[c][1], order[c][2]}  BY DEF Parts, PropagateInv, Watching
<1>6. -trail[qhead].lit \in FalseLits /\ -trail[qhead].lit \in Literal
  BY <1>1, <1>4, TrailTypes, Literals
<1>7. c.lits \in Clauses /\ c.lits \subseteq Literal /\ c \in AnyClause
      /\ order[c][1] \in c.lits /\ order[c][2] \in c.lits /\ order[c][1] # order[c][2]
  BY <1>1 DEF Parts, ClauseInv, Clauses, TypeOK
<1>8. WatchesOK(trail, trailLim, qhead - 1, Level + 1, c.lits, order[c], Strong)
  BY <1>1 DEF Parts, WatchInv, Analyzing
<1> QED  BY <1>1, <1>3, <1>4, <1>5, <1>6, <1>7, <1>8

\* Below the last level the watched literals see what they saw.
LEMMA WatchesBelow ==
  ASSUME NEW t, NEW lim \in Seq(Nat), NEW q, NEW r, NEW lits, NEW pair, NEW strong,
         WatchesOK(t, lim, q, Len(lim) + 1, lits, pair, strong)
  PROVE  /\ WatchesOK(t, lim, r, Len(lim), lits, pair, strong)
         /\ WatchesSee(t, Len(lim) + 1, FalseIn(t, r), lits, pair, strong)
              => WatchesOK(t, lim, r, Len(lim) + 1, lits, pair, strong)
<1>1. \A k \in 1 .. Len(lim) : k \in 1 .. Len(lim) + 1 /\ Limit(t, lim, k, r) = Limit(t, lim, k, q)
  BY DEF Limit
<1>2. Limit(t, lim, Len(lim) + 1, r) = r
  <2>1. Len(lim) + 1 \notin DOMAIN lim  OBVIOUS
  <2> QED  BY <2>1 DEF Limit
<1>3. WatchesOK(t, lim, r, Len(lim), lits, pair, strong)  BY <1>1 DEF WatchesOK
<1>4. \A k \in 1 .. Len(lim) + 1 : k \in 1 .. Len(lim) \/ k = Len(lim) + 1  OBVIOUS
<1> QED  BY <1>2, <1>3, <1>4 DEF WatchesOK

\* So they do in a clause that is true now.
LEMMA WatchesSatisfied ==
  ASSUME NEW t, NEW lim \in Seq(Nat), NEW q, NEW r, NEW lits, NEW pair, NEW strong,
         WatchesOK(t, lim, q, Len(lim) + 1, lits, pair, strong),
         lits \cap TrueBelow(t, Len(lim) + 1) # {}
  PROVE  WatchesOK(t, lim, r, Len(lim) + 1, lits, pair, strong)
<1>1. WatchesSee(t, Len(lim) + 1, FalseIn(t, r), lits, pair, strong)  BY DEF WatchesSee
<1> QED  BY <1>1, WatchesBelow

\* The order of the watched literals does not matter.
LEMMA WatchesSwapped ==
  ASSUME NEW t, NEW lim, NEW q, NEW top, NEW lits, NEW pair, NEW swapped, NEW strong,
         WatchesOK(t, lim, q, top, lits, pair, strong),
         {swapped[1], swapped[2]} = {pair[1], pair[2]}
  PROVE  WatchesOK(t, lim, q, top, lits, swapped, strong)
<1>1. \/ swapped[1] = pair[1] /\ swapped[2] = pair[2]
      \/ swapped[1] = pair[2] /\ swapped[2] = pair[1]
  OBVIOUS
<1> QED  BY <1>1 DEF WatchesOK, WatchesSee

\* Instead of the literal that has become false another one is watched.
LEMMA WatchesMoved ==
  ASSUME TrailInv, NEW q \in 1 .. Len(trail), \A k \in DOMAIN trailLim : trailLim[k] < q,
         NEW lits, NEW pair, NEW moved, NEW strong,
         NEW first, NEW l, first # -trail[q].lit, l \notin FalseLits,
         {pair[1], pair[2]} = {first, -trail[q].lit}, {moved[1], moved[2]} = {first, l},
         WatchesOK(trail, trailLim, q - 1, Level + 1, lits, pair, strong)
  PROVE  WatchesOK(trail, trailLim, q, Level + 1, lits, moved, strong)
<1>1. /\ trailLim \in Seq(Nat) /\ Level = Len(trailLim) /\ Len(trail) \in Nat
      /\ trail \in Seq(Entries)
  BY TrailTypes DEF Level
<1> SUFFICES ASSUME NEW k \in 1 .. Level + 1
             PROVE  WatchesSee(trail, k, FalseIn(trail, Limit(trail, trailLim, k, q)),
                               lits, moved, strong)
  BY DEF WatchesOK
<1>2. WatchesSee(trail, k, FalseIn(trail, Limit(trail, trailLim, k, q - 1)), lits, pair, strong)
  BY DEF WatchesOK
<1>3. Limit(trail, trailLim, k, q) \in 0 .. Len(trail)
  <2>1. CASE k \in DOMAIN trailLim
    <3>1. trailLim[k] \in Nat  BY <1>1, <2>1
    <3> QED  BY <2>1, <3>1, <1>1 DEF Limit
  <2>2. CASE k \notin DOMAIN trailLim  BY <2>2 DEF Limit
  <2> QED  BY <2>1, <2>2
<1>4. l \notin FalseIn(trail, Limit(trail, trailLim, k, q))  BY <1>3, AllLits
<1>5. first \in FalseIn(trail, Limit(trail, trailLim, k, q))
        => first \in FalseIn(trail, Limit(trail, trailLim, k, q - 1))
  <2>1. CASE k \in DOMAIN trailLim  BY <2>1 DEF Limit
  <2>2. CASE k \notin DOMAIN trailLim
    <3>1. \A i \in 1 .. q : i \in 1 .. q - 1 \/ i = q  OBVIOUS
    <3> QED  BY <2>2, <3>1 DEF Limit, FalseIn
  <2> QED  BY <2>1, <2>2
<1>6. (pair[1] = first \/ pair[2] = first)
      /\ ((moved[1] = first /\ moved[2] = l) \/ (moved[1] = l /\ moved[2] = first))
  OBVIOUS
<1> QED  BY <1>2, <1>4, <1>5, <1>6 DEF WatchesSee

\* One more literal is put on the trail.
LEMMA EnqueueStep ==
  ASSUME TrailInv, NEW e \in Entries, e.lit \notin TrueLits, e.lit \notin FalseLits,
         e.level <= Level, solver # "Kissat" => e.level = Level,
         e.level = 0 => \A a \in Models : e.lit \in a,
         e.level > 0 => e.reason # NoReason
                        /\ Justified(e, EntriesUpTo(trail, Len(trail)), Models, solver),
         trail' = trail \o <<e>>, UNCHANGED <<solver, formula, trailLim>>
  PROVE  TrailInv'
<1>1. TrailOK(trail, trailLim, Models, solver) /\ Level = Len(trailLim)
  BY DEF TrailInv, Level
<1> DEFINE u == <<e>>
<1>2. u \in Seq(Entries) /\ DOMAIN u = {1} /\ u[1] = e  OBVIOUS
<1>3. e.lit \in Literal  BY DEF Entries
<1>4. \A j \in DOMAIN trail : trail[j].lit # e.lit /\ trail[j].lit # -e.lit
  BY <1>3, TrailTypes
<1> HIDE DEF u
<1>5. Distinct(u)  BY <1>2 DEF Distinct
<1>6. TrailOK(trail \o u, trailLim, Models, solver)
  BY <1>1, <1>2, <1>4, <1>5, TrailExtended
<1> QED  BY <1>6, SameModels DEF TrailInv, u

\* A visited clause is not left for later, and perhaps a literal has become true.
LEMMA VisitStep ==
  ASSUME IInv, pc = "propagate", NEW c \in visiting, TrailInv',
         UNCHANGED <<solver, formula, loaded, trailLim, qhead, caller, conflict, analyzed,
                     conflicted, imports, reductions, pc>>,
         visiting' = visiting \ {c},
         DOMAIN order' = DOMAIN order, \A d \in DOMAIN order : d # c => order'[d] = order[d],
         order'[c] \in Literal \X Literal, order'[c][1] # order'[c][2],
         order'[c][1] \in c.lits, order'[c][2] \in c.lits,
         solver # "Kissat" /\ ~Binary(c) /\ order[c][1] # -trail[qhead].lit
            => order'[c][1] = order[c][1],
         NEW u \in Seq(Entries), trail' = trail \o u,
         \A j \in DOMAIN u : u[j].level > 0 =>
            u[j].reason = c /\ (solver # "Kissat" /\ ~Binary(c) => order'[c][1] = u[j].lit),
         WatchesOK(trail', trailLim, qhead, Level + 1, c.lits, order'[c], Strong)
  PROVE  IInv'
<1>1. Parts /\ TypeOK /\ TrailInv /\ ~Analyzing /\ ~Analyzing'  BY DEF IInv, Parts, Analyzing
<1>2. /\ trail \in Seq(Entries) /\ trailLim \in Seq(Nat) /\ Len(trail) \in Nat
      /\ trail' \in Seq(Entries) /\ Len(trail') >= Len(trail)
      /\ \A i \in DOMAIN trail : trail'[i] = trail[i] /\ i \in DOMAIN trail'
      /\ \A i \in DOMAIN trail' :
           i \in DOMAIN trail \/ \E j \in DOMAIN u : trail'[i] = u[j]
      /\ Limits(trail, trailLim)
  <2>1. trail \in Seq(Entries) /\ trailLim \in Seq(Nat) /\ Limits(trail, trailLim)
    BY <1>1, TrailTypes DEF TrailInv, TrailOK
  <2> QED  BY <2>1, Concatenated
<1>3. qhead \in 1 .. Len(trail) /\ qhead \in DOMAIN trail  BY <1>1, Visited
<1>4. TypeOK'
  <2>1. trail' \in Seq([lit : Literal, level : Nat, reason : AnyClause])
    BY <1>2 DEF Entries
  <2>2. \A d \in DOMAIN order' : d \in AnyClause /\ order'[d] \in Literal \X Literal
    BY <1>1 DEF TypeOK
  <2>3. qhead' \in 0 .. Len(trail')  BY <1>2, <1>3
  <2> QED  BY <1>1, <2>1, <2>2, <2>3 DEF TypeOK
<1>5. AnswersAreRight'  BY DEF AnswersAreRight
<1>6. ControlInv'  BY <1>1 DEF Parts, ControlInv, Level
<1>7. PropagateInv'
  <2>1. PropagateInv  BY <1>1 DEF Parts
  <2>2. trail'[qhead] = trail[qhead]  BY <1>2, <1>3
  <2>3. \A d \in visiting' : d \in visiting /\ order'[d] = order[d] /\ d \in DOMAIN order'
    BY <1>1 DEF TypeOK
  <2> QED  BY <2>1, <2>2, <2>3 DEF PropagateInv, Watching
<1>8. ClauseInv'  BY <1>1, SameModels DEF Parts, ClauseInv
<1>9. FormulaInv'
  <2>1. \A input : Remains(input, trail, DOMAIN order) => Remains(input, trail', DOMAIN order')
    BY <1>2, RemainsExtended
  <2> QED  BY <1>1, <2>1 DEF Parts, FormulaInv
<1>10. PresentInv'
  <2> SUFFICES ASSUME NEW i \in DOMAIN trail', trail'[i].level > 0, trail'[i].reason # NoReason
               PROVE  Present(i)'
    BY DEF PresentInv
  <2>1. CASE i \in DOMAIN trail
    <3>1. trail'[i] = trail[i]  BY <1>2, <2>1
    <3>2. /\ trail[i].reason \in DOMAIN order
          /\ solver # "Kissat" /\ ~Binary(trail[i].reason)
               => order[trail[i].reason][1] = trail[i].lit
      BY <1>1, <2>1, <3>1 DEF Parts, PresentInv, Present
    <3>3. trail[i].reason # c => order'[trail[i].reason] = order[trail[i].reason]  BY <3>2
    <3>4. ASSUME trail[i].reason = c, solver # "Kissat", ~Binary(c)
          PROVE  order'[c][1] = trail[i].lit
      <4>1. trail[i].lit # -trail[qhead].lit  BY <1>1, <1>3, <2>1, TrailTypes
      <4> QED  BY <3>2, <3>4, <4>1
    <3> QED  BY <3>1, <3>2, <3>3, <3>4 DEF Present, Binary
  <2>2. CASE i \notin DOMAIN trail
    <3>1. PICK j \in DOMAIN u : trail'[i] = u[j]  BY <1>2, <2>2
    <3>2. c \in DOMAIN order'  BY <1>1 DEF TypeOK
    <3> QED  BY <3>1, <3>2 DEF Present, Binary
  <2> QED  BY <2>1, <2>2
<1>11. WatchInv'
  <2> SUFFICES ASSUME NEW d \in DOMAIN order
               PROVE  WatchesOK(trail', trailLim, IF d \in visiting' THEN qhead - 1 ELSE qhead,
                                Level + 1, d.lits, order'[d], Strong)
    BY <1>1 DEF WatchInv, Level, Strong
  <2>1. CASE d = c  BY <2>1
  <2>2. CASE d # c
    <3> DEFINE q == IF d \in visiting THEN qhead - 1 ELSE qhead
    <3>1. WatchesOK(trail, trailLim, q, Level + 1, d.lits, order[d], Strong)
      BY <1>1 DEF Parts, WatchInv, Analyzing
    <3>2. q \in 0 .. Len(trail) /\ q = IF d \in visiting' THEN qhead - 1 ELSE qhead
      BY <1>2, <1>3, <2>2
    <3> HIDE DEF q
    <3>3. WatchesOK(trail \o u, trailLim, q, Level + 1, d.lits, order[d], Strong)
      BY <1>2, <3>1, <3>2, WatchesExtended
    <3> QED  BY <2>2, <3>2, <3>3
  <2> QED  BY <2>1, <2>2
<1>12. AnalysisInv'  BY <1>1, NoAnalysis
<1> QED
  BY <1>4, <1>5, <1>6, <1>7, <1>8, <1>9, <1>10, <1>11, <1>12 DEF IInv, Parts

\* A clause that is false: at level 0 the formula has no solution, above it the literals
\* that are not false at level 0 follow from the formula.
LEMMA FalseClause ==
  ASSUME TrailInv, NEW lits \in SUBSET Literal, lits \subseteq FalseLits,
         \A a \in Models : lits \cap a # {},
         NEW high, high = {l \in lits : LevelOf(l) > 0}
  PROVE  /\ Level = 0 => Models = {}
         /\ \A l \in high : \E i \in DOMAIN trail : trail[i].lit = -l /\ trail[i].level > 0
         /\ \A a \in Models : high \cap a # {}
<1>1. Level = 0 => Models = {}  BY RootFalse
<1>2. ASSUME NEW l \in lits
      PROVE  \E i \in DOMAIN trail : trail[i].lit = -l /\ trail[i].level = LevelOf(l)
  <2>1. PICK i \in DOMAIN trail : trail[i].lit = -l  BY TrailTypes
  <2>2. l = -trail[i].lit  BY <2>1, Literals
  <2> QED  BY <2>1, <2>2, EntryIs
<1>3. ASSUME NEW a \in Models
      PROVE  high \cap a # {}
  <2>1. PICK l \in lits : l \in a  OBVIOUS
  <2>2. PICK i \in DOMAIN trail : trail[i].lit = -l /\ trail[i].level = LevelOf(l)  BY <1>2
  <2>3. trail[i].level # 0  BY <2>1, <2>2, ModelsTypes DEF TrailInv, TrailOK, RootRight
  <2>4. LevelOf(l) > 0  BY <2>2, <2>3, TrailTypes
  <2> QED  BY <2>1, <2>4
<1> QED  BY <1>1, <1>2, <1>3

\* A clause that has one literal left makes this one true.
LEMMA UnitReason ==
  ASSUME Parts, TypeOK, NEW c \in DOMAIN order, NEW lit \in c.lits, ~Assigned(lit),
         c.lits \ {lit} \subseteq FalseLits, solver # "Kissat",
         NEW e, e = [lit |-> lit, level |-> Level, reason |-> c]
  PROVE  /\ e \in Entries
         /\ e.level = 0 => \A a \in Models : e.lit \in a
         /\ e.level > 0 => e.reason # NoReason
                           /\ Justified(e, EntriesUpTo(trail, Len(trail)), Models, solver)
<1>1. TrailInv /\ Level \in Nat /\ trail \in Seq(Entries)  BY TrailTypes DEF Parts
<1>2. c.lits \in Clauses /\ c \in AnyClause /\ \A a \in Models : c.lits \cap a # {}
  BY DEF Parts, ClauseInv, TypeOK
<1>3. lit \in Literal /\ c.lits \in SUBSET Literal  BY <1>2 DEF Clauses
<1>4. e \in Entries  BY <1>1, <1>2, <1>3 DEF Entries
<1>5. ASSUME e.level = 0, NEW a \in Models  PROVE e.lit \in a
  <2>1. a \cap FalseLits = {}  BY <1>1, <1>5, RootFalse
  <2> QED  BY <1>2, <2>1
<1>6. e.reason # NoReason  BY DEF NoReason
<1>7. Justified(e, EntriesUpTo(trail, Len(trail)), Models, solver)
  <2> SUFFICES ASSUME NEW l \in c.lits \ {lit}
               PROVE  \E b \in EntriesUpTo(trail, Len(trail)) : b.lit = -l /\ b.level <= Level
    BY <1>2 DEF Justified
  <2>1. PICK i \in DOMAIN trail : trail[i].lit = -l  BY <1>1, <1>3, TrailTypes
  <2>2. i \in 1 .. Len(trail) /\ trail[i].level <= Level  BY <1>1, TrailTypes
  <2> QED  BY <2>1, <2>2 DEF EntriesUpTo
<1> QED  BY <1>4, <1>5, <1>6, <1>7

\* All literals of a visited clause are false.
LEMMA ConflictStep ==
  ASSUME IInv, solver # "Kissat", pc = "propagate", NEW c \in visiting, Conflict(c),
         c.lits \subseteq FalseLits,
         UNCHANGED <<solver, formula, loaded, trail, trailLim, caller, conflict, counters>>,
         qhead' \in {qhead, Len(trail)},
         DOMAIN order' = DOMAIN order, \A d \in DOMAIN order : d # c => order'[d] = order[d],
         order'[c] \in Literal \X Literal, {order'[c][1], order'[c][2]} = {order[c][1], order[c][2]},
         ~Binary(c) /\ order[c][1] # -trail[qhead].lit => order'[c][1] = order[c][1]
  PROVE  IInv'
<1> USE DEF counters
<1>1. Parts /\ TypeOK /\ TrailInv  BY DEF IInv, Parts
<1>2. /\ c \in DOMAIN order /\ qhead \in 1 .. Len(trail) /\ qhead \in DOMAIN trail
      /\ \A k \in DOMAIN trailLim : trailLim[k] < qhead
      /\ -trail[qhead].lit \in c.lits
      /\ c.lits \in SUBSET Literal
      /\ order[c][1] \in c.lits /\ order[c][2] \in c.lits /\ order[c][1] # order[c][2]
  BY <1>1, Visited
<1>3. \A a \in Models : c.lits \cap a # {}  BY <1>1, <1>2 DEF Parts, ClauseInv
<1>4. /\ trail \in Seq(Entries) /\ trailLim \in Seq(Nat) /\ Len(trail) \in Nat
      /\ Level \in Nat /\ Level = Len(trailLim)
  BY <1>1, TrailTypes DEF Level
<1>5. order'[c][1] # order'[c][2] /\ order'[c][1] \in c.lits /\ order'[c][2] \in c.lits
  <2> DEFINE w == order'[c]  v == order[c]
  <2>1. {w[1], w[2]} = {v[1], v[2]} /\ v[1] # v[2] /\ v[1] \in c.lits /\ v[2] \in c.lits
    BY <1>2
  <2> HIDE DEF w, v
  <2>2. w[1] # w[2] /\ w[1] \in {v[1], v[2]} /\ w[2] \in {v[1], v[2]}  BY ONLY <2>1
  <2> QED  BY <2>1, <2>2 DEF w
<1> DEFINE high == {l \in c.lits : LevelOf(l) > 0}
<1>6. /\ Level = 0 => Models = {}
      /\ \A l \in high : \E i \in DOMAIN trail : trail[i].lit = -l /\ trail[i].level > 0
      /\ \A a \in Models : high \cap a # {}
  <2> HIDE DEF high
  <2>1. high = {l \in c.lits : LevelOf(l) > 0}  BY DEF high
  <2> QED  BY ONLY <1>1, <1>2, <1>3, <2>1, c.lits \subseteq FalseLits, FalseClause
<1>7. visiting' = {} /\ pc' \in {"analyze", "unsat"}
      /\ (pc' = "analyze" <=> caller = "search" /\ Level > 0)
      /\ analyzed' = IF pc' = "analyze" THEN high ELSE {}
  BY DEF Conflict
<1>8. TypeOK'
  <2>1. \A d \in DOMAIN order' : d \in AnyClause /\ order'[d] \in Literal \X Literal
    BY <1>1 DEF TypeOK
  <2>2. qhead' \in 0 .. Len(trail')  BY <1>2, <1>4
  <2>3. analyzed' \subseteq Literal  BY <1>2, <1>7
  <2> QED  BY <1>1, <1>7, <2>1, <2>2, <2>3 DEF TypeOK
<1>9. CASE pc' = "unsat"
  <2>1. Level = 0  BY <1>1, <1>4, <1>7, <1>9 DEF Parts, ControlInv
  <2>2. AnswersAreRight'  BY <1>6, <1>9, <2>1, SameModels DEF AnswersAreRight
  <2> QED  BY <1>8, <1>9, <2>2 DEF IInv
<1>10. CASE pc' = "analyze"
  <2>1. AnswersAreRight'  BY <1>10 DEF AnswersAreRight
  <2>2. TrailInv'  BY <1>1, SameTrail
  <2>3. ControlInv'  BY <1>1, <1>7, <1>10 DEF Parts, ControlInv
  <2>4. PropagateInv'
    <3>1. \A k \in DOMAIN trailLim : trailLim[k] <= qhead' /\ trailLim[k] \in Nat
      BY <1>2, <1>4
    <3> QED  BY <1>7, <3>1 DEF PropagateInv
  <2>5. ClauseInv'  BY <1>1, <1>5, SameModels DEF Parts, ClauseInv
  <2>6. FormulaInv'  BY <1>1, SameFormula DEF Parts
  <2>7. PresentInv'
    <3> SUFFICES ASSUME NEW i \in DOMAIN trail, trail[i].level > 0, trail[i].reason # NoReason
                 PROVE  Present(i)'
      BY DEF PresentInv
    <3>1. /\ trail[i].reason \in DOMAIN order
          /\ ~Binary(trail[i].reason) => order[trail[i].reason][1] = trail[i].lit
      BY <1>1 DEF Parts, PresentInv, Present
    <3>2. trail[i].lit # -trail[qhead].lit  BY <1>1, <1>2, TrailTypes
    <3> QED  BY <3>1, <3>2 DEF Present, Binary
  <2>8. WatchInv'
    <3> SUFFICES ASSUME NEW d \in DOMAIN order
                 PROVE  WatchesOK(trail, trailLim, qhead', Level, d.lits, order'[d], Strong)
      BY <1>7, <1>10 DEF WatchInv, Level, Strong, Analyzing
    <3> DEFINE q == IF d \in visiting THEN qhead - 1 ELSE qhead
    <3>1. WatchesOK(trail, trailLim, q, Level + 1, d.lits, order[d], Strong)
      BY <1>1 DEF Parts, WatchInv, Analyzing
    <3> HIDE DEF q
    <3>2. WatchesOK(trail, trailLim, qhead', Level, d.lits, order[d], Strong)
      BY <1>4, <3>1, WatchesBelow
    <3>3. {order'[d][1], order'[d][2]} = {order[d][1], order[d][2]}  OBVIOUS
    <3> QED  BY <3>2, <3>3, WatchesSwapped
  <2>9. AnalysisInv'
    <3>1. PICK l \in high : TRUE
      <4>1. LevelOf(-trail[qhead].lit) = trail[qhead].level /\ trail[qhead].level \in Nat
        BY <1>1, <1>2, EntryIs, TrailTypes
      <4>2. Level \in DOMAIN trailLim  BY <1>4, <1>7, <1>10
      <4>3. ~(trail[qhead].level < Level)
        <5>1. trailLim[Level] < qhead /\ trailLim[Level] \in Nat  BY <1>2, <1>4, <4>2
        <5> QED  BY <1>1, <1>2, <4>2, <5>1 DEF TrailInv, TrailOK, InOrder
      <4>4. LevelOf(-trail[qhead].lit) > 0  BY <1>4, <1>7, <1>10, <4>1, <4>3
      <4>5. -trail[qhead].lit \in high  BY <1>2, <4>4
      <4> QED  BY <4>5
    <3> HIDE DEF high
    <3> QED  BY <1>6, <1>7, <1>10, <3>1, SameModels DEF AnalysisInv, Level
  <2> QED
    BY <1>8, <1>10, <2>1, <2>2, <2>3, <2>4, <2>5, <2>6, <2>7, <2>8, <2>9 DEF IInv, Parts
<1> QED  BY <1>7, <1>9, <1>10

\* Nothing is added to the trail.
LEMMA Nothing ==
  ASSUME NEW t \in Seq(Entries)
  PROVE  << >> \in Seq(Entries) /\ DOMAIN << >> = {} /\ t \o << >> = t
OBVIOUS

\* What is added to the trail is true.
LEMMA EnqueuedTrue ==
  ASSUME NEW t \in Seq(Entries), NEW e \in Entries, NEW k \in Nat, e.level < k
  PROVE  e.lit \in TrueBelow(t \o <<e>>, k)
<1>1. (t \o <<e>>)[Len(t) + 1] = e /\ Len(t) + 1 \in DOMAIN (t \o <<e>>)  OBVIOUS
<1> QED  BY <1>1 DEF TrueBelow

\* The other watched literal, or the blocker, is true.
LEMMA SkipWatchInv ==
  ASSUME IInv, solver # "Kissat", NEW c \in visiting, SkipWatch(c)
  PROVE  IInv'
<1> USE DEF SkipWatch, clauseVars, trailVars, analysis, counters
<1>1. Parts /\ TypeOK /\ TrailInv  BY DEF IInv, Parts
<1>2. /\ c \in DOMAIN order
      /\ order[c][1] \in c.lits /\ order[c][2] \in c.lits /\ order[c][1] # order[c][2]
      /\ WatchesOK(trail, trailLim, qhead - 1, Level + 1, c.lits, order[c], Strong)
      /\ order[c] \in Literal \X Literal
  BY <1>1, Visited DEF TypeOK
<1>3. TrailInv'  BY <1>1, SameTrail
<1>4. /\ trail \in Seq(Entries) /\ trailLim \in Seq(Nat) /\ Level = Len(trailLim)
      /\ c.lits \cap TrueBelow(trail, Level + 1) # {}
  BY <1>1, TrailTypes, AllLits DEF Level, Satisfied
<1>5. WatchesOK(trail, trailLim, qhead, Level + 1, c.lits, order[c], Strong)
  BY <1>2, <1>4, WatchesSatisfied
<1> DEFINE u == << >>
<1>6. u \in Seq(Entries) /\ DOMAIN u = {} /\ trail' = trail \o u  BY <1>4, Nothing
<1> HIDE DEF u
<1> QED  BY <1>2, <1>3, <1>5, <1>6, VisitStep

\* A binary clause is visited.
LEMMA VisitBinaryInv ==
  ASSUME IInv, solver # "Kissat", NEW c \in visiting, VisitBinary(c)
  PROVE  IInv'
<1> DEFINE false == -trail[qhead].lit
<1>0. PICK other \in c.lits \ {false} :
           \/ /\ other \in FalseLits
              /\ Conflict(c)
              /\ UNCHANGED trail
           \/ /\ other \in TrueLits
              /\ visiting' = visiting \ {c}
              /\ UNCHANGED <<trail, analyzed, pc>>
           \/ /\ ~Assigned(other)
              /\ trail' = Enqueued(other, c)
              /\ visiting' = visiting \ {c}
              /\ UNCHANGED <<analyzed, pc>>
  BY DEF VisitBinary
<1>1. Parts /\ TypeOK /\ TrailInv  BY DEF IInv, Parts, VisitBinary
<1>2. /\ c \in DOMAIN order
      /\ order[c][1] \in c.lits /\ order[c][2] \in c.lits /\ order[c][1] # order[c][2]
      /\ WatchesOK(trail, trailLim, qhead - 1, Level + 1, c.lits, order[c], Strong)
      /\ order[c] \in Literal \X Literal
      /\ c.lits \in SUBSET Literal /\ false \in c.lits /\ false \in FalseLits
      /\ qhead \in 1 .. Len(trail)
  BY <1>1, Visited DEF TypeOK, VisitBinary
<1>3. c.lits = {other, false}
  <2>1. Cardinality(c.lits) = 2  BY DEF VisitBinary, Binary
  <2> QED  BY <1>0, <1>2, <2>1, PairIs
<1>4. /\ trail \in Seq(Entries) /\ trailLim \in Seq(Nat) /\ Level = Len(trailLim)
      /\ TrueBelow(trail, Level + 1) = TrueLits /\ Len(trail) \in Nat
  BY <1>1, TrailTypes, AllLits DEF Level
<1>5. /\ pc = "propagate" /\ Binary(c)
      /\ UNCHANGED <<solver, formula, loaded, order, trailLim, qhead, caller, conflict,
                     conflicted, imports, reductions>>
  BY DEF VisitBinary, clauseVars, counters
<1> HIDE DEF false
<1>6. CASE other \in FalseLits /\ Conflict(c) /\ UNCHANGED trail
  <2>1. c.lits \subseteq FalseLits  BY <1>2, <1>3, <1>6
  <2>2. qhead' \in {qhead, Len(trail)}  BY <1>5
  <2> QED  BY <1>1, <1>2, <1>5, <1>6, <2>1, <2>2, ConflictStep DEF counters
<1>7. CASE other \in TrueLits /\ visiting' = visiting \ {c} /\ UNCHANGED <<trail, analyzed, pc>>
  <2>1. WatchesOK(trail, trailLim, qhead, Level + 1, c.lits, order[c], Strong)
    BY <1>0, <1>2, <1>4, <1>7, WatchesSatisfied
  <2>2. TrailInv'  BY <1>1, <1>5, <1>7, SameTrail
  <2> DEFINE u == << >>
  <2>3. u \in Seq(Entries) /\ DOMAIN u = {} /\ trail' = trail \o u  BY <1>4, <1>7, Nothing
  <2> HIDE DEF u
  <2> QED  BY <1>2, <1>5, <1>7, <2>1, <2>2, <2>3, VisitStep
<1>8. CASE /\ ~Assigned(other) /\ trail' = Enqueued(other, c)
           /\ visiting' = visiting \ {c} /\ UNCHANGED <<analyzed, pc>>
  <2> DEFINE e == [lit |-> other, level |-> Level, reason |-> c]  u == <<e>>
  <2>1. c.lits \ {other} \subseteq FalseLits  BY <1>2, <1>3
  <2>2. /\ e \in Entries
        /\ e.level = 0 => \A a \in Models : e.lit \in a
        /\ e.level > 0 => e.reason # NoReason
                          /\ Justified(e, EntriesUpTo(trail, Len(trail)), Models, solver)
    <3> HIDE DEF e
    <3>1. e = [lit |-> other, level |-> Level, reason |-> c]  BY DEF e
    <3> QED  BY <1>0, <1>1, <1>2, <1>8, <2>1, <3>1, UnitReason
  <2>3. trail' = trail \o u  BY <1>4, <1>8, <2>2, Appended DEF Enqueued
  <2>4. e.lit = other /\ e.level = Level /\ e.reason = c  OBVIOUS
  <2> HIDE DEF e
  <2>5. u \in Seq(Entries) /\ DOMAIN u = {1} /\ u[1] = e  BY <2>2
  <2>6. e.lit \notin TrueLits /\ e.lit \notin FalseLits  BY <1>8, <2>4 DEF Assigned
  <2>7. e.level <= Level /\ e.level < Level + 1 /\ Level + 1 \in Nat  BY <2>4, <1>4
  <2>8. TrailInv'  BY <1>1, <1>5, <2>2, <2>3, <2>4, <2>6, <2>7, EnqueueStep
  <2> HIDE DEF u
  <2>9. WatchesOK(trail', trailLim, qhead, Level + 1, c.lits, order[c], Strong)
    <3>1. Limits(trail, trailLim) /\ qhead - 1 \in 0 .. Len(trail)
      BY <1>1, <1>2, <1>4 DEF TrailInv, TrailOK
    <3>2. WatchesOK(trail', trailLim, qhead - 1, Level + 1, c.lits, order[c], Strong)
      BY <1>2, <1>4, <2>3, <2>5, <3>1, WatchesExtended
    <3>3. other \in TrueBelow(trail', Level + 1)
      BY <1>4, <2>2, <2>3, <2>4, <2>7, EnqueuedTrue DEF u
    <3>4. c.lits \cap TrueBelow(trail', Level + 1) # {}  BY <1>0, <3>3
    <3> QED  BY <1>4, <3>2, <3>4, WatchesSatisfied
  <2>10. \A j \in DOMAIN u : u[j].level > 0 =>
            u[j].reason = c /\ (solver # "Kissat" /\ ~Binary(c) => order'[c][1] = u[j].lit)
    BY <1>5, <2>4, <2>5
  <2> QED  BY <1>2, <1>5, <1>8, <2>3, <2>5, <2>8, <2>9, <2>10, VisitStep
<1> QED  BY <1>0, <1>6, <1>7, <1>8

\* A clause is visited: another literal is watched, or it is a unit or false.
LEMMA VisitWatchInv ==
  ASSUME IInv, solver # "Kissat", NEW c \in visiting, VisitWatch(c)
  PROVE  IInv'
<1> DEFINE false == -trail[qhead].lit
           first == IF order[c][1] = false THEN order[c][2] ELSE order[c][1]
           others == c.lits \ {first, false}
           Keep(second) == order' = [order EXCEPT ![c] = <<first, second>>]
<1>0. \/ /\ first \in TrueLits
         /\ Keep(false)
         /\ visiting' = visiting \ {c}
         /\ UNCHANGED <<trail, qhead, analyzed, pc>>
      \/ /\ first \notin TrueLits
         /\ \E l \in others \ FalseLits : Keep(l)
         /\ visiting' = visiting \ {c}
         /\ UNCHANGED <<trail, qhead, analyzed, pc>>
      \/ /\ ~Assigned(first) /\ others \subseteq FalseLits
         /\ Keep(false)
         /\ trail' = Enqueued(first, c)
         /\ visiting' = visiting \ {c}
         /\ UNCHANGED <<qhead, analyzed, pc>>
      \/ /\ first \in FalseLits /\ others \subseteq FalseLits
         /\ Keep(false)
         /\ qhead' = Len(trail)
         /\ Conflict(c)
         /\ UNCHANGED trail
  BY DEF VisitWatch
<1>1. Parts /\ TypeOK /\ TrailInv  BY DEF IInv, Parts, VisitWatch
<1>2. /\ c \in DOMAIN order
      /\ order[c][1] \in c.lits /\ order[c][2] \in c.lits /\ order[c][1] # order[c][2]
      /\ false \in {order[c][1], order[c][2]}
      /\ WatchesOK(trail, trailLim, qhead - 1, Level + 1, c.lits, order[c], Strong)
      /\ c.lits \in SUBSET Literal /\ false \in c.lits /\ false \in FalseLits
      /\ qhead \in 1 .. Len(trail)
      /\ \A k \in DOMAIN trailLim : trailLim[k] < qhead
  BY <1>1, Visited DEF VisitWatch
<1>3. /\ first # false /\ first \in c.lits
      /\ {order[c][1], order[c][2]} = {first, false}
      /\ order[c][1] # false => first = order[c][1]
  BY <1>2
<1>4. /\ trail \in Seq(Entries) /\ trailLim \in Seq(Nat) /\ Level = Len(trailLim)
      /\ TrueBelow(trail, Level + 1) = TrueLits /\ Len(trail) \in Nat
  BY <1>1, TrailTypes, AllLits DEF Level
<1>5. /\ pc = "propagate" /\ ~Binary(c)
      /\ UNCHANGED <<solver, formula, loaded, trailLim, caller, conflict,
                     conflicted, imports, reductions>>
  BY DEF VisitWatch, counters
<1>6. ASSUME NEW l \in c.lits, l # first, order' = [order EXCEPT ![c] = <<first, l>>]
      PROVE  /\ DOMAIN order' = DOMAIN order /\ \A d \in DOMAIN order : d # c => order'[d] = order[d]
             /\ order'[c] = <<first, l>>
             /\ order'[c] \in Literal \X Literal /\ order'[c][1] # order'[c][2]
             /\ order'[c][1] \in c.lits /\ order'[c][2] \in c.lits
             /\ order'[c][1] = first /\ order'[c][2] = l
             /\ order[c][1] # -trail[qhead].lit => order'[c][1] = order[c][1]
  <2> HIDE DEF first
  <2>1. DOMAIN order' = DOMAIN order /\ \A d \in DOMAIN order : d # c => order'[d] = order[d]
    BY <1>6
  <2>2. order'[c] = <<first, l>>  BY <1>2, <1>6
  <2>3. first \in Literal /\ l \in Literal  BY <1>2, <1>3
  <2>4. order[c][1] # -trail[qhead].lit => first = order[c][1]  BY <1>3
  <2> HIDE DEF false
  <2> QED  BY <1>3, <1>6, <2>1, <2>2, <2>3, <2>4
<1>7. false \in c.lits /\ false # first  BY <1>2, <1>3
<1>8. c.lits \ {first} \subseteq others \cup {false}  OBVIOUS
<1> HIDE DEF first
<1>9. CASE /\ first \in TrueLits
           /\ order' = [order EXCEPT ![c] = <<first, false>>]
           /\ visiting' = visiting \ {c}
           /\ UNCHANGED <<trail, qhead, analyzed, pc>>
  <2>1. WatchesOK(trail, trailLim, qhead, Level + 1, c.lits, order[c], Strong)
    BY <1>2, <1>3, <1>4, <1>9, WatchesSatisfied
  <2>2. WatchesOK(trail, trailLim, qhead, Level + 1, c.lits, order'[c], Strong)
    <3>1. {order'[c][1], order'[c][2]} = {order[c][1], order[c][2]}  BY <1>3, <1>6, <1>7, <1>9
    <3> QED  BY <2>1, <3>1, WatchesSwapped
  <2>3. TrailInv'  BY <1>1, <1>5, <1>9, SameTrail
  <2> DEFINE u == << >>
  <2>4. u \in Seq(Entries) /\ DOMAIN u = {} /\ trail' = trail \o u  BY <1>4, <1>9, Nothing
  <2> HIDE DEF u, others
  <2> QED  BY <1>2, <1>5, <1>6, <1>7, <1>9, <2>2, <2>3, <2>4, VisitStep
<1>10. CASE /\ \E l \in others \ FalseLits : order' = [order EXCEPT ![c] = <<first, l>>]
            /\ visiting' = visiting \ {c}
            /\ UNCHANGED <<trail, qhead, analyzed, pc>>
  <2>1. PICK l \in others \ FalseLits : order' = [order EXCEPT ![c] = <<first, l>>]  BY <1>10
  <2>2. l \in c.lits /\ l # first /\ l \notin FalseLits  BY <2>1
  <2>3. WatchesOK(trail, trailLim, qhead, Level + 1, c.lits, order'[c], Strong)
    <3>1. {order'[c][1], order'[c][2]} = {first, l}  BY <1>6, <2>1, <2>2
    <3> DEFINE pair == order[c]  moved == order'[c]
    <3>2. /\ first # -trail[qhead].lit
          /\ {pair[1], pair[2]} = {first, -trail[qhead].lit}
          /\ {moved[1], moved[2]} = {first, l}
          /\ WatchesOK(trail, trailLim, qhead - 1, Level + 1, c.lits, pair, Strong)
      BY <1>2, <1>3, <3>1
    <3> HIDE DEF pair, moved
    <3>3. WatchesOK(trail, trailLim, qhead, Level + 1, c.lits, moved, Strong)
      BY ONLY <1>1, <1>2, <2>2, <3>2, WatchesMoved
    <3> QED  BY <3>3 DEF moved
  <2>4. TrailInv'  BY <1>1, <1>5, <1>10, SameTrail
  <2> DEFINE u == << >>
  <2>5. u \in Seq(Entries) /\ DOMAIN u = {} /\ trail' = trail \o u  BY <1>4, <1>10, Nothing
  <2> HIDE DEF u, others
  <2> QED  BY <1>2, <1>5, <1>6, <1>10, <2>1, <2>2, <2>3, <2>4, <2>5, VisitStep
<1>11. CASE /\ ~Assigned(first) /\ others \subseteq FalseLits
            /\ order' = [order EXCEPT ![c] = <<first, false>>]
            /\ trail' = Enqueued(first, c)
            /\ visiting' = visiting \ {c}
            /\ UNCHANGED <<qhead, analyzed, pc>>
  <2> DEFINE e == [lit |-> first, level |-> Level, reason |-> c]  u == <<e>>
  <2>1. c.lits \ {first} \subseteq FalseLits  BY <1>2, <1>8, <1>11
  <2>2. /\ e \in Entries
        /\ e.level = 0 => \A a \in Models : e.lit \in a
        /\ e.level > 0 => e.reason # NoReason
                          /\ Justified(e, EntriesUpTo(trail, Len(trail)), Models, solver)
    <3> HIDE DEF e, others
    <3>1. e = [lit |-> first, level |-> Level, reason |-> c]  BY DEF e
    <3> QED  BY <1>1, <1>2, <1>3, <1>11, <2>1, <3>1, UnitReason
  <2>3. trail' = trail \o u  BY <1>4, <1>11, <2>2, Appended DEF Enqueued
  <2>4. e.lit = first /\ e.level = Level /\ e.reason = c  OBVIOUS
  <2> HIDE DEF e, others
  <2>5. u \in Seq(Entries) /\ DOMAIN u = {1} /\ u[1] = e  BY <2>2
  <2>6. e.lit \notin TrueLits /\ e.lit \notin FalseLits  BY <1>11, <2>4 DEF Assigned
  <2>7. e.level <= Level /\ e.level < Level + 1 /\ Level + 1 \in Nat  BY <2>4, <1>4
  <2>8. TrailInv'  BY <1>1, <1>5, <2>2, <2>3, <2>4, <2>6, <2>7, EnqueueStep
  <2> HIDE DEF u
  <2>9. WatchesOK(trail', trailLim, qhead, Level + 1, c.lits, order'[c], Strong)
    <3>1. Limits(trail, trailLim) /\ qhead - 1 \in 0 .. Len(trail)
      BY <1>1, <1>2, <1>4 DEF TrailInv, TrailOK
    <3>2. WatchesOK(trail', trailLim, qhead - 1, Level + 1, c.lits, order[c], Strong)
      BY <1>2, <1>4, <2>3, <2>5, <3>1, WatchesExtended
    <3>3. first \in TrueBelow(trail', Level + 1)
      BY <1>4, <2>2, <2>3, <2>4, <2>7, EnqueuedTrue DEF u
    <3>4. c.lits \cap TrueBelow(trail', Level + 1) # {}  BY <1>3, <3>3
    <3>5. WatchesOK(trail', trailLim, qhead, Level + 1, c.lits, order[c], Strong)
      BY <1>4, <3>2, <3>4, WatchesSatisfied
    <3>6. {order'[c][1], order'[c][2]} = {order[c][1], order[c][2]}  BY <1>3, <1>6, <1>7, <1>11
    <3> QED  BY <3>5, <3>6, WatchesSwapped
  <2>10. \A j \in DOMAIN u : u[j].level > 0 =>
            u[j].reason = c /\ (solver # "Kissat" /\ ~Binary(c) => order'[c][1] = u[j].lit)
    BY <1>6, <1>7, <1>11, <2>4, <2>5
  <2>11. /\ DOMAIN order' = DOMAIN order /\ \A d \in DOMAIN order : d # c => order'[d] = order[d]
         /\ order'[c] \in Literal \X Literal /\ order'[c][1] # order'[c][2]
         /\ order'[c][1] \in c.lits /\ order'[c][2] \in c.lits
         /\ order[c][1] # -trail[qhead].lit => order'[c][1] = order[c][1]
    BY <1>6, <1>7, <1>11
  <2>12. /\ pc = "propagate" /\ visiting' = visiting \ {c}
         /\ UNCHANGED <<solver, formula, loaded, trailLim, qhead, caller, conflict, analyzed,
                        conflicted, imports, reductions, pc>>
    BY <1>5, <1>11
  <2>13. WatchesOK(trail', trailLim, qhead, Level + 1, c.lits, order'[c], Strong)  BY <2>9
  <2>14. c \in visiting /\ IInv  OBVIOUS
  <2> QED
    BY ONLY <2>3, <2>5, <2>8, <2>10, <2>11, <2>12, <2>13, <2>14, VisitStep
<1>12. CASE /\ first \in FalseLits /\ others \subseteq FalseLits
            /\ order' = [order EXCEPT ![c] = <<first, false>>]
            /\ qhead' = Len(trail)
            /\ Conflict(c)
            /\ UNCHANGED trail
  <2>1. c.lits \subseteq FalseLits  BY <1>2, <1>8, <1>12
  <2>2. {order'[c][1], order'[c][2]} = {order[c][1], order[c][2]}  BY <1>3, <1>6, <1>7, <1>12
  <2>3. qhead' \in {qhead, Len(trail)}  BY <1>12
  <2> HIDE DEF others
  <2> QED  BY <1>5, <1>6, <1>7, <1>12, <2>1, <2>2, <2>3, ConflictStep DEF counters
<1> QED  BY <1>0, <1>9, <1>10, <1>11, <1>12

-----------------------------------------------------------------------------
(* After a conflict                                                        *)

\* The search goes back, literals are made true, and clauses are changed, added and,
\* if they are learnt, removed: no such clause is the reason of what stays.
LEMMA BackAssign ==
  ASSUME Parts, TypeOK, Analyzing, pc' = "top", visiting' = {},
         NEW level, level \in 0 .. Level, level # Level,
         NEW k, NEW m, Retains(k, trail, trailLim, level, m),
         NEW u \in Seq(Entries), TrailOK(k \o u, SubSeq(trailLim, 1, level), Models, solver),
         trail' = k \o u, trailLim' = SubSeq(trailLim, 1, level),
         qhead' = trailLim[level + 1],
         UNCHANGED <<solver, formula, loaded, caller, imports, reductions>>,
         conflict' \in AnyClause, analyzed' \subseteq Literal, conflicted' \in BOOLEAN,
         NEW new \in SUBSET DOMAIN order',
         \A d \in DOMAIN order' : d \notin new => d \in DOMAIN order /\ order'[d] = order[d],
         \A d \in new :
           /\ d \in AnyClause /\ d.lits \in Clauses /\ \A a \in Models : d.lits \cap a # {}
           /\ order'[d] \in Literal \X Literal /\ order'[d][1] # order'[d][2]
           /\ order'[d][1] \in d.lits /\ order'[d][2] \in d.lits
           /\ WatchesOK(trail', trailLim', qhead', level + 1, d.lits, order'[d], Strong),
         \A d \in DOMAIN order : d \notin DOMAIN order' => d.learnt,
         \A i \in DOMAIN trail :
           trail[i].level > 0 /\ trail[i].level <= level /\ trail[i].reason # NoReason =>
             /\ trail[i].reason \notin new
             /\ trail[i].reason \in DOMAIN order => trail[i].reason \in DOMAIN order',
         \A j \in DOMAIN u : u[j].level > 0 =>
           /\ u[j].reason \in DOMAIN order'
           /\ solver # "Kissat" /\ ~Binary(u[j].reason) => order'[u[j].reason][1] = u[j].lit,
         pc = "conflict" /\ conflict \in DOMAIN order' => conflict \in new
  PROVE  IInv'
<1>1. /\ TrailInv /\ PropagateInv /\ TrailOK(trail, trailLim, Models, solver)
      /\ qhead \in 0 .. Len(trail) /\ level \in 0 .. Len(trailLim) /\ level \in Nat
      /\ trail \in Seq(Entries) /\ trailLim \in Seq(Nat) /\ Level = Len(trailLim)
  BY TrailTypes DEF Parts, TypeOK, TrailInv, Level
<1>2. qhead' = IF level = Level THEN qhead ELSE trailLim[level + 1]  OBVIOUS
<1>3. /\ Level' = level
      /\ TrailInv' /\ PropagateInv'
      /\ trail' \in Seq(Entries) /\ qhead' \in 0 .. Len(trail')
      /\ \A input, clauses : Remains(input, trail, clauses) => Remains(input, trail', clauses)
      /\ \A lits, pair, strong : \A top \in Nat, now \in 0 .. level + 1 :
           WatchesOK(trail, trailLim, qhead, top, lits, pair, strong) /\ now <= top
           => WatchesOK(trail', trailLim', qhead', now, lits, pair, strong)
      /\ \A i \in DOMAIN trail' :
           \/ \E p \in DOMAIN trail : trail'[i] = trail[p] /\ trail[p].level <= level
           \/ \E j \in DOMAIN u : trail'[i] = u[j]
  BY ONLY <1>1, <1>2, u \in Seq(Entries), TrailOK(k \o u, SubSeq(trailLim, 1, level), Models, solver),
     level \in 0 .. Level, Retains(k, trail, trailLim, level, m), trail' = k \o u, visiting' = {},
     trailLim' = SubSeq(trailLim, 1, level),
     UNCHANGED <<solver, formula, loaded, caller, imports, reductions>>, BackStep
<1>4. ~Analyzing'  BY DEF Analyzing
<1>5. TypeOK'
  <2>1. trail' \in Seq([lit : Literal, level : Nat, reason : AnyClause])
    BY <1>3 DEF Entries
  <2>2. trailLim' \in Seq(Nat)  BY <1>1
  <2>3. \A d \in DOMAIN order' : d \in AnyClause /\ order'[d] \in Literal \X Literal
    BY DEF TypeOK
  <2> QED  BY <1>3, <2>1, <2>2, <2>3 DEF TypeOK
<1>6. AnswersAreRight'  BY DEF AnswersAreRight
<1>7. ControlInv'  BY DEF ControlInv, Parts, Analyzing
<1>8. ClauseInv'  BY SameModels DEF ClauseInv, Parts
<1>9. FormulaInv'
  <2> SUFFICES ASSUME NEW i \in 1 .. loaded
               PROVE  Remains(formula[i], trail', DOMAIN order')
    BY DEF FormulaInv
  <2>1. Remains(formula[i], trail, DOMAIN order)  BY DEF Parts, FormulaInv
  <2>2. Remains(formula[i], trail', DOMAIN order)  BY <1>3, <2>1
  <2> QED  BY <2>2 DEF Remains
<1>10. PresentInv'
  <2> SUFFICES ASSUME NEW i \in DOMAIN trail', trail'[i].level > 0, trail'[i].reason # NoReason
               PROVE  Present(i)'
    BY DEF PresentInv
  <2>1. CASE \E p \in DOMAIN trail : trail'[i] = trail[p] /\ trail[p].level <= level
    <3>1. PICK p \in DOMAIN trail : trail'[i] = trail[p] /\ trail[p].level <= level  BY <2>1
    <3>2. trail[p].level # Level  BY <1>1, <3>1, TrailTypes
    <3>3. /\ trail[p].reason \in DOMAIN order
          /\ solver # "Kissat" /\ ~Binary(trail[p].reason)
               => order[trail[p].reason][1] = trail[p].lit
      BY <3>1, <3>2 DEF Parts, PresentInv, Present
    <3>4. trail[p].reason \in DOMAIN order' /\ order'[trail[p].reason] = order[trail[p].reason]
      BY <3>1, <3>3
    <3> QED  BY <3>1, <3>3, <3>4 DEF Present, Binary
  <2>2. CASE \E j \in DOMAIN u : trail'[i] = u[j]  BY <2>2 DEF Present, Binary
  <2> QED  BY <1>3, <2>1, <2>2
<1>11. WatchInv'
  <2> SUFFICES ASSUME NEW d \in DOMAIN order'
               PROVE  WatchesOK(trail', trailLim', qhead', level + 1, d.lits, order'[d], Strong)
    BY <1>3, <1>4 DEF WatchInv, Strong
  <2>1. CASE d \in new  BY <2>1
  <2>2. CASE d \notin new
    <3>1. d \in DOMAIN order /\ order'[d] = order[d] /\ ~(pc = "conflict" /\ d = conflict)
      BY <2>2
    <3>2. visiting = {}  BY DEF Parts, ControlInv, Analyzing
    <3>3. WatchesOK(trail, trailLim, qhead, Level, d.lits, order[d], Strong)
      BY <3>1, <3>2 DEF Parts, WatchInv
    <3>4. Level \in Nat /\ level + 1 \in 0 .. level + 1 /\ level + 1 <= Level  BY <1>1
    <3> QED  BY <1>3, <3>1, <3>3, <3>4
  <2> QED  BY <2>1, <2>2
<1>12. AnalysisInv'  BY <1>4, NoAnalysis
<1> QED
  BY <1>3, <1>5, <1>6, <1>7, <1>8, <1>9, <1>10, <1>11, <1>12 DEF IInv, Parts

-----------------------------------------------------------------------------
(* Conflicts of the MiniSat family                                         *)

\* The clause analyzed is resolved with the reason of its last literal.
LEMMA ResolveInv == ASSUME IInv, solver # "Kissat", Resolve PROVE IInv'
<1> USE DEF Resolve, clauseVars, trailVars, counters
<1>1. Parts /\ TypeOK /\ TrailInv /\ pc = "analyze"  BY DEF IInv, Parts
<1>2. PICK i \in DOMAIN trail :
        /\ -trail[i].lit \in analyzed
        /\ \A j \in DOMAIN trail : j > i => -trail[j].lit \notin analyzed
        /\ trail[i].reason # NoReason
        /\ analyzed' = (analyzed \ {-trail[i].lit}) \cup Antecedents(trail[i].reason)
  OBVIOUS
<1> DEFINE c == trail[i].reason  lit == trail[i].lit
<1>3. /\ analyzed # {} /\ Level > 0
      /\ \A l \in analyzed : \E j \in DOMAIN trail : trail[j].lit = -l /\ trail[j].level > 0
      /\ \A a \in Models : analyzed \cap a # {}
  BY <1>1 DEF Parts, AnalysisInv
<1>4. analyzed \subseteq Literal /\ lit \in Literal /\ -lit \in Literal /\ -(-lit) = lit
  BY <1>1, <1>2, TrailTypes, Literals DEF TypeOK
<1>5. trail[i].level > 0
  <2>1. PICK j \in DOMAIN trail : trail[j].lit = -(-lit) /\ trail[j].level > 0  BY <1>2, <1>3
  <2>2. trail[j] = trail[i]  BY <1>1, <1>4, <2>1, EntryIs
  <2> QED  BY <2>1, <2>2
<1>6. c \in DOMAIN order /\ (~Binary(c) => order[c][1] = lit)
  BY <1>1, <1>2, <1>5 DEF Parts, PresentInv, Present
<1>7. Implied(c) = lit  BY <1>1, <1>2, <1>5, <1>6, ImpliedIs DEF Parts
<1>8. /\ lit \in c.lits /\ \A a \in Models : c.lits \cap a # {}
      /\ \A l \in c.lits \ {lit} : l \in Literal /\ l \in FalseLits
  BY <1>1, <1>2, <1>5, ReasonFacts
<1>9. Antecedents(c) = {l \in c.lits \ {lit} : LevelOf(l) > 0}  BY <1>7 DEF Antecedents
<1>10. ASSUME NEW l \in c.lits \ {lit}
       PROVE  \E j \in DOMAIN trail : trail[j].lit = -l /\ trail[j].level = LevelOf(l)
  <2>1. PICK j \in DOMAIN trail : trail[j].lit = -l  BY <1>1, <1>8, TrailTypes
  <2>2. l = -trail[j].lit  BY <1>8, <2>1, Literals
  <2> QED  BY <1>1, <2>1, <2>2, EntryIs
<1> HIDE DEF c, lit
<1>11. analyzed' = (analyzed \ {-lit}) \cup {l \in c.lits \ {lit} : LevelOf(l) > 0}
  BY <1>2, <1>9 DEF c, lit
<1>12. \A l \in analyzed' : \E j \in DOMAIN trail : trail[j].lit = -l /\ trail[j].level > 0
  BY <1>3, <1>10, <1>11
<1>13. analyzed' # {}
  <2>1. AtLevel(analyzed, Level) \in SUBSET Literal  BY <1>4 DEF AtLevel
  <2>2. PICK a \in AtLevel(analyzed, Level), b \in AtLevel(analyzed, Level) : a # b
    BY <2>1, Two
  <2> QED  BY <1>11, <2>2 DEF AtLevel
<1>14. \A a \in Models : analyzed' \cap a # {}
  <2> SUFFICES ASSUME NEW a \in Models PROVE analyzed' \cap a # {}  OBVIOUS
  <2>1. PICK x \in analyzed : x \in a  BY <1>3
  <2>2. CASE x # -lit  BY <1>11, <2>1, <2>2
  <2>3. CASE x = -lit
    <3>1. lit \notin a  BY <1>4, <2>1, <2>3, ModelsTypes
    <3>2. PICK l \in c.lits \ {lit} : l \in a  BY <1>8, <3>1
    <3>3. PICK j \in DOMAIN trail : trail[j].lit = -l /\ trail[j].level = LevelOf(l)
      BY <1>10
    <3>4. trail[j].level # 0
      BY <1>1, <1>8, <3>2, <3>3, ModelsTypes DEF TrailInv, TrailOK, RootRight
    <3>5. LevelOf(l) > 0  BY <1>1, <3>3, <3>4, TrailTypes
    <3> QED  BY <1>11, <3>2, <3>5
  <2> QED  BY <2>2, <2>3
<1>15. TypeOK'
  <2>1. analyzed' \subseteq Literal  BY <1>4, <1>8, <1>11
  <2> QED  BY <1>1, <2>1 DEF TypeOK
<1>16. AnswersAreRight'  BY <1>1 DEF AnswersAreRight
<1>17. AnalysisInv'  BY <1>1, <1>3, <1>12, <1>13, <1>14, SameModels DEF AnalysisInv, Level
<1>18. ControlInv' /\ PropagateInv' /\ PresentInv' /\ WatchInv'
  BY <1>1 DEF Parts, ControlInv, PropagateInv, PresentInv, Present, Binary, WatchInv, Watching, Level,
     Analyzing, Strong
<1> QED
  BY <1>1, <1>15, <1>16, <1>17, <1>18, SameTrail, SameClauses, SameFormula DEF IInv, Parts

\* A false literal has an entry.
LEMMA FalseEntry ==
  ASSUME TrailInv, NEW l \in FalseLits
  PROVE  /\ l \in Literal /\ LevelOf(l) \in 0 .. Level
         /\ \E i \in DOMAIN trail : /\ trail[i].lit = -l /\ -trail[i].lit = l
                                    /\ trail[i].level = LevelOf(l) /\ trail[i] = Entry(l)
<1>1. l \in Literal  BY TrailTypes
<1>2. PICK i \in DOMAIN trail : trail[i].lit = -l  BY <1>1, TrailTypes
<1>3. -trail[i].lit = l  BY <1>1, <1>2, Literals
<1>4. Entry(l) = trail[i] /\ LevelOf(l) = trail[i].level  BY <1>3, EntryIs
<1>5. trail[i].level \in 0 .. Level  BY TrailTypes
<1> QED  BY <1>1, <1>2, <1>3, <1>4, <1>5

\* A clause whose literals are all false makes one of them true when the search goes
\* back to a level below this one's but not below those of the others.
LEMMA UnitAfter ==
  ASSUME TrailInv, NEW level, level \in 0 .. Level, level # Level,
         NEW k, NEW m, Retains(k, trail, trailLim, level, m),
         NEW c \in AnyClause, c.lits \in Clauses, \A a \in Models : c.lits \cap a # {},
         c.lits \subseteq FalseLits, NEW lit \in c.lits, LevelOf(lit) > level,
         NEW top \in 0 .. level, solver # "Kissat" => top = level,
         \A l \in c.lits \ {lit} : LevelOf(l) <= top,
         top > 0 => \E l \in c.lits \ {lit} : LevelOf(l) = top,
         NEW e \in Entries, e.lit = lit, e.level = top, top > 0 => e.reason = c
  PROVE  /\ <<e>> \in Seq(Entries)
         /\ TrailOK(k \o <<e>>, SubSeq(trailLim, 1, level), Models, solver)
<1> DEFINE lim == SubSeq(trailLim, 1, level)
<1>1. /\ TrailOK(trail, trailLim, Models, solver) /\ level \in 0 .. Len(trailLim)
      /\ trailLim \in Seq(Nat) /\ level \in Nat /\ Level \in Nat
  BY TrailTypes DEF TrailInv, Level
<1>2. TrailOK(k, lim, Models, solver)  BY <1>1, TrailCut
<1>3. Len(lim) = level  BY ONLY <1>1
<1>4. /\ \A i \in DOMAIN k : \E p \in DOMAIN trail : k[i] = trail[p] /\ trail[p].level <= level
      /\ \A p \in DOMAIN trail : trail[p].level <= level => \E i \in DOMAIN k : k[i] = trail[p]
  BY <1>1, CutFacts
<1>5. ASSUME NEW l \in c.lits \ {lit}
      PROVE  \E i \in DOMAIN k : k[i].lit = -l /\ k[i].level = LevelOf(l) /\ k[i].level <= top
  <2>1. PICK p \in DOMAIN trail : trail[p].lit = -l /\ trail[p].level = LevelOf(l)
    BY FalseEntry
  <2>2. trail[p].level <= top /\ trail[p].level \in Nat  BY <2>1, TrailTypes
  <2>3. trail[p].level <= level  BY <1>1, <2>2
  <2> QED  BY <1>4, <2>1, <2>2, <2>3
<1>6. top = 0 => \A a \in Models : lit \in a
  <2> SUFFICES ASSUME top = 0, NEW a \in Models PROVE lit \in a  OBVIOUS
  <2>1. ASSUME NEW l \in c.lits \ {lit} PROVE l \notin a
    <3>1. PICK i \in DOMAIN k : k[i].lit = -l /\ k[i].level <= top  BY <1>5
    <3>2. k[i].level = 0
      <4>1. k[i] \in Entries  BY <1>2 DEF TrailOK
      <4> QED  BY <3>1, <4>1 DEF Entries
    <3>3. k[i].lit \in a  BY <1>2, <3>2 DEF TrailOK, RootRight
    <3> QED  BY <3>1, <3>3, FalseEntry, ModelsTypes, Literals
  <2> QED  BY <2>1
<1>7. \A j \in DOMAIN k : k[j].lit # lit /\ k[j].lit # -lit
  <2> SUFFICES ASSUME NEW j \in DOMAIN k, k[j].lit \in {lit, -lit} PROVE FALSE  OBVIOUS
  <2>1. PICK p \in DOMAIN trail : k[j] = trail[p] /\ trail[p].level <= level  BY <1>4
  <2>2. lit \in Literal  BY FalseEntry
  <2>3. lit = trail[p].lit \/ lit = -trail[p].lit  BY <2>1, <2>2, Literals
  <2>4. LevelOf(lit) = trail[p].level  BY <2>3, EntryIs
  <2> QED  BY <1>1, <2>1, <2>4, FalseEntry
<1> DEFINE u == <<e>>
<1>8. u \in Seq(Entries) /\ DOMAIN u = {1} /\ u[1] = e  OBVIOUS
<1>9. Distinct(u)  BY <1>8 DEF Distinct
<1>10. top > 0 => e.reason # NoReason /\ Justified(e, EntriesUpTo(k, Len(k)), Models, solver)
  <2> SUFFICES ASSUME top > 0
               PROVE  e.reason # NoReason /\ Justified(e, EntriesUpTo(k, Len(k)), Models, solver)
    OBVIOUS
  <2>1. \A i \in DOMAIN k : k[i] \in EntriesUpTo(k, Len(k))  BY <1>2 DEF EntriesUpTo, TrailOK
  <2>2. \A l \in c.lits \ {lit} :
          \E b \in EntriesUpTo(k, Len(k)) : b.lit = -l /\ b.level = LevelOf(l) /\ b.level <= top
    BY <1>5, <2>1
  <2>3. \E b \in EntriesUpTo(k, Len(k)) : -b.lit \in c.lits /\ b.level = top
    <3>1. PICK l \in c.lits \ {lit} : LevelOf(l) = top  OBVIOUS
    <3>2. PICK b \in EntriesUpTo(k, Len(k)) : b.lit = -l /\ b.level = LevelOf(l)  BY <2>2
    <3>3. -b.lit = l  BY <3>2, FalseEntry, Literals
    <3> QED  BY <3>1, <3>2, <3>3
  <2>4. c # NoReason  BY DEF NoReason, Clauses
  <2> QED  BY <2>2, <2>3, <2>4 DEF Justified
<1> HIDE DEF lim, u
<1>11. ASSUME NEW i \in DOMAIN u
       PROVE  /\ u[i].level <= Len(lim)
              /\ solver # "Kissat" => u[i].level = Len(lim)
              /\ \A j \in DOMAIN k : k[j].lit # u[i].lit /\ k[j].lit # -u[i].lit
              /\ u[i].level = 0 => \A a \in Models : u[i].lit \in a
              /\ u[i].level > 0 => u[i].reason # NoReason
                   /\ Justified(u[i], EntriesUpTo(k, Len(k)), Models, solver)
  BY <1>1, <1>3, <1>6, <1>7, <1>8, <1>10
<1>12. TrailOK(k \o u, lim, Models, solver)
  BY ONLY <1>2, <1>8, <1>9, <1>11, TrailExtended
<1> QED  BY <1>8, <1>12 DEF lim, u

\* Its watches are right if it watches this literal and one of the highest level among
\* the others.
LEMMA UnitWatches ==
  ASSUME TrailInv, NEW level, level \in 0 .. Level, level # Level,
         NEW k, NEW m, Retains(k, trail, trailLim, level, m),
         NEW lits, lits \subseteq FalseLits, NEW lit \in lits, LevelOf(lit) > level,
         NEW second \in lits,
         NEW e \in Entries, e.lit = lit, e.level = LevelOf(second),
         NEW pair, {pair[1], pair[2]} = {lit, second}, NEW strong,
         NEW w, w = k \o <<e>>
  PROVE  WatchesOK(w, SubSeq(trailLim, 1, level), trailLim[level + 1], level + 1, lits, pair, strong)
<1> DEFINE lim == SubSeq(trailLim, 1, level)  q == trailLim[level + 1]
<1>1. /\ TrailOK(trail, trailLim, Models, solver) /\ level \in 0 .. Len(trailLim)
      /\ trailLim \in Seq(Nat) /\ level \in Nat /\ level # Len(trailLim)
      /\ Limits(trail, trailLim) /\ Levels(trail, trailLim)
      /\ trail \in Seq(Entries) /\ k \in Seq(Entries)
  BY TrailTypes DEF TrailInv, TrailOK, Level, Retains
<1>2. DOMAIN trailLim = 1 .. Len(trailLim) /\ level + 1 \in DOMAIN trailLim
  BY ONLY <1>1
<1>2a. \A j \in DOMAIN trailLim : trailLim[j] \in Nat
  <2>1. trailLim \in Seq(Nat)  BY <1>1
  <2> QED  BY ONLY <2>1
<1>3. \A n \in 0 .. Limit(trail, trailLim, level + 1, Len(trail)) : FalseIn(k, n) = FalseIn(trail, n)
  BY <1>1, CutFacts
<1>4. \A n \in 0 .. trailLim[level + 1] : FalseIn(k, n) = FalseIn(trail, n)
  BY <1>2, <1>3 DEF Limit
<1>5. trailLim[level + 1] <= Len(k)
  <2>1. \A i \in 1 .. Limit(trail, trailLim, level + 1, Len(trail)) : i \in DOMAIN k
    BY DEF Retains
  <2>2. \A i \in 1 .. trailLim[level + 1] : i \in DOMAIN k  BY <1>2, <2>1 DEF Limit
  <2>3. trailLim[level + 1] \in Nat  BY ONLY <1>2, <1>2a
  <2>4. k \in Seq(Entries)  BY <1>1
  <2>5. Len(k) \in Nat /\ DOMAIN k = 1 .. Len(k)  BY ONLY <2>4
  <2> QED  BY ONLY <2>2, <2>3, <2>5
<1>6. ASSUME NEW j \in 1 .. level + 1
      PROVE  WatchesSee(w, j, FalseIn(w, Limit(w, lim, j, q)), lits, pair, strong)
  <2>1. j \in DOMAIN trailLim /\ trailLim[j] \in Nat
    <3>1. j \in DOMAIN trailLim
      <4>1. j \in 1 .. level + 1  OBVIOUS
      <4>2. level \in Nat /\ trailLim \in Seq(Nat)  BY <1>1
      <4> QED  BY ONLY <1>2, <4>1, <4>2
    <3> QED  BY ONLY <3>1, <1>2a
  <2>2. Limit(w, lim, j, q) = trailLim[j]
    <3>1. CASE j = level + 1
      <4>1. j \notin DOMAIN lim  BY <1>1, <3>1
      <4> QED  BY <3>1, <4>1 DEF Limit
    <3>2. CASE j # level + 1
      <4>1. j \in DOMAIN lim /\ lim[j] = trailLim[j]  BY <1>1, <3>2
      <4> QED  BY <4>1 DEF Limit
    <3> QED  BY <3>1, <3>2
  <2>3. trailLim[j] <= trailLim[level + 1]
    <3>1. CASE j = level + 1  BY <2>1, <3>1
    <3>2. CASE j # level + 1
      <4>1. j \in 1 .. (level + 1) - 1  BY <1>1, <3>2
      <4>2. trailLim[j] < trailLim[level + 1]  BY <1>1, <1>2, <4>1 DEF Limits
      <4>3. trailLim[level + 1] \in Nat  BY ONLY <1>2, <1>2a
      <4> QED  BY ONLY <2>1, <4>2, <4>3
    <3> QED  BY <3>1, <3>2
  <2>4. FalseIn(w, trailLim[j]) = FalseIn(trail, trailLim[j])
    <3>0. <<e>> \in Seq(Entries)  OBVIOUS
    <3>1. trailLim[level + 1] \in Nat  BY ONLY <1>2, <1>2a
    <3>2. trailLim[j] \in 0 .. trailLim[level + 1] /\ trailLim[j] \in 0 .. Len(k)
      BY ONLY <1>1, <1>5, <2>1, <2>3, <3>1
    <3>3. FalseIn(w, trailLim[j]) = FalseIn(k, trailLim[j])  BY <1>1, <3>0, <3>2, ExtensionFacts
    <3> QED  BY <1>4, <3>2, <3>3
  <2>5. ASSUME NEW l \in FalseIn(trail, trailLim[j])
        PROVE  LevelOf(l) < j
    <3>1. PICK i \in 1 .. trailLim[j] : l = -trail[i].lit  BY DEF FalseIn
    <3>2. trailLim[j] < Len(trail)  BY <1>1, <2>1 DEF Limits
    <3>3. i \in DOMAIN trail /\ i <= trailLim[j]  BY ONLY <1>1, <2>1, <3>1, <3>2
    <3>4. trail[i].level < j  BY <1>1, <2>1, <3>3 DEF Levels
    <3> QED  BY <3>1, <3>3, <3>4, EntryIs
  <2>6. lit \notin FalseIn(trail, trailLim[j])  BY <1>1, <2>5, FalseEntry
  <2>7. second \in FalseIn(trail, trailLim[j]) => lit \in TrueBelow(w, j)
    <3>1. j \in Nat  OBVIOUS
    <3> QED  BY <1>1, <2>5, <3>1, EnqueuedTrue
  <2> QED  BY <2>2, <2>4, <2>6, <2>7 DEF WatchesSee
<1> QED  BY <1>6 DEF WatchesOK

\* A reason is no false clause.
LEMMA ReasonTrue ==
  ASSUME TrailInv, NEW i \in DOMAIN trail, trail[i].level > 0, trail[i].reason # NoReason
  PROVE  ~(trail[i].reason.lits \subseteq FalseLits)
BY ReasonFacts, TrailTypes

\* False literals are a clause.
LEMMA FalseIsClause ==
  ASSUME TrailInv, NEW lits, lits \subseteq FalseLits, lits # {}
  PROVE  lits \in Clauses
<1>1. \A l \in lits : l \in Literal /\ l \in FalseLits  BY TrailTypes
<1>2. \A l \in lits : -l \notin lits  BY <1>1, TrailTypes
<1> QED  BY <1>1, <1>2 DEF Clauses

\* Literals whose reasons have no other literals than these and others follow from the
\* others.
LEMMA ClosedSound ==
  ASSUME TrailInv, NEW lits, lits \subseteq FalseLits, NEW U, U \subseteq FalseLits,
         \A l \in U : /\ LevelOf(l) > 0 /\ Entry(l).reason # NoReason
                      /\ \A x \in Entry(l).reason.lits \ {-l} : LevelOf(x) > 0 => x \in lits \cup U,
         NEW a \in Models, a \cap (lits \cup U) # {}
  PROVE  a \cap (lits \ U) # {}
<1> DEFINE S == {i \in DOMAIN trail : -trail[i].lit \in a \cap (lits \cup U)}
<1>1. DOMAIN trail = 1 .. Len(trail) /\ Len(trail) \in Nat  BY TrailTypes
<1>2. S # {}
  <2>1. PICK l \in lits \cup U : l \in a  OBVIOUS
  <2>2. PICK i \in DOMAIN trail : -trail[i].lit = l  BY <2>1, FalseEntry
  <2> QED  BY <2>1, <2>2
<1>3. S \in SUBSET Nat  BY <1>1
<1> HIDE DEF S
<1>4. PICK n \in S : \A j \in S : n <= j  BY <1>2, <1>3, Least
<1>5. n \in DOMAIN trail /\ -trail[n].lit \in a /\ -trail[n].lit \in lits \cup U  BY <1>4 DEF S
<1>6. -trail[n].lit \notin U
  <2> SUFFICES ASSUME -trail[n].lit \in U PROVE FALSE  OBVIOUS
  <2> DEFINE l == -trail[n].lit  c == trail[n].reason
  <2>1. Entry(l) = trail[n] /\ LevelOf(l) = trail[n].level  BY <1>5, EntryIs
  <2>2. trail[n].level > 0 /\ c # NoReason /\ -l = trail[n].lit /\ trail[n].lit \in Literal
    BY <1>5, <2>1, TrailTypes, Literals
  <2>3. trail[n].lit \notin a  BY <1>5, <2>2, ModelsTypes
  <2>4. \A x \in c.lits \ {trail[n].lit} :
          x \in FalseLits /\ \E j \in 1 .. n - 1 : j \in DOMAIN trail /\ trail[j].lit = -x
    BY <1>5, <2>2, ReasonFacts
  <2>5. \A m \in Models : c.lits \cap m # {}  BY <1>5, <2>2, ReasonFacts
  <2>6. PICK x \in c.lits \ {trail[n].lit} : x \in a  BY <2>3, <2>5
  <2>7. PICK j \in 1 .. n - 1 : j \in DOMAIN trail /\ trail[j].lit = -x  BY <2>4, <2>6
  <2>8. x \in Literal /\ -trail[j].lit = x /\ LevelOf(x) = trail[j].level
    BY <2>4, <2>6, <2>7, FalseEntry, EntryIs, Literals
  <2>9. trail[j].level # 0
    BY <2>6, <2>7, <2>8, ModelsTypes DEF TrailInv, TrailOK, RootRight
  <2>10. LevelOf(x) > 0  BY <2>7, <2>8, <2>9, TrailTypes
  <2>11. x \in lits \cup U  BY <2>1, <2>2, <2>6, <2>10
  <2>12. j \in S  BY <2>6, <2>7, <2>8, <2>11 DEF S
  <2>13. n \in Nat /\ j < n  BY <1>1, <1>5, <2>7
  <2> QED  BY <1>3, <1>4, <2>12, <2>13
<1> QED  BY <1>5, <1>6

\* Minimizing a learnt clause of the MiniSat family leaves one that follows from the
\* formula.
LEMMA MinimizedRight ==
  ASSUME Parts, solver # "Kissat", NEW lits, lits \subseteq FalseLits, NEW lit \in Literal,
         \A a \in Models : a \cap (lits \cup {lit}) # {},
         NEW others \in Minimized(lits, lit)
  PROVE  /\ others \subseteq lits
         /\ \A a \in Models : a \cap (others \cup {lit}) # {}
<1> DEFINE inferred == {l \in FalseLits : LevelOf(l) > 0 /\ Entry(l).reason # NoReason}
           Closed(s) == \A l \in s : Antecedents(Entry(l).reason) \subseteq lits \cup s
           U == UNION {s \in SUBSET inferred : Closed(s)}
           fewer == lits \ Redundant(lits)
<1>1. TrailInv /\ ClauseInv /\ PresentInv  BY DEF Parts
<1>2. Redundant(lits) = lits \cap U  BY DEF Redundant
<1>3. U \subseteq FalseLits  OBVIOUS
<1>4. ASSUME NEW l \in U
      PROVE  /\ LevelOf(l) > 0 /\ Entry(l).reason # NoReason
             /\ \A x \in Entry(l).reason.lits \ {-l} : LevelOf(x) > 0 => x \in lits \cup U
  <2>1. PICK s \in SUBSET inferred : l \in s /\ Closed(s)  OBVIOUS
  <2>2. l \in FalseLits /\ LevelOf(l) > 0 /\ Entry(l).reason # NoReason  BY <2>1
  <2>3. PICK i \in DOMAIN trail : trail[i].lit = -l /\ trail[i].level = LevelOf(l) /\ trail[i] = Entry(l)
    BY <1>1, <2>2, FalseEntry
  <2> DEFINE c == trail[i].reason
  <2>4. c \in DOMAIN order /\ (~Binary(c) => order[c][1] = trail[i].lit)
    BY <1>1, <2>2, <2>3 DEF PresentInv, Present
  <2>5. Implied(c) = -l  BY <1>1, <2>2, <2>3, <2>4, ImpliedIs
  <2>6. Antecedents(c) = {x \in c.lits \ {-l} : LevelOf(x) > 0}  BY <2>5 DEF Antecedents
  <2>7. Antecedents(c) \subseteq lits \cup s  BY <2>1, <2>3
  <2>8. s \subseteq U  BY <2>1
  <2> QED  BY <2>2, <2>3, <2>6, <2>7, <2>8
<1> HIDE DEF U
<1>5. \A a \in Models : a \cap (fewer \cup {lit}) # {}
  <2> SUFFICES ASSUME NEW a \in Models, lit \notin a PROVE a \cap fewer # {}  OBVIOUS
  <2>1. a \cap (lits \cup U) # {}  OBVIOUS
  <2>2. a \cap (lits \ U) # {}  BY <1>1, <1>3, <1>4, <2>1, ClosedSound
  <2> QED  BY <1>2, <2>2
<1>6. fewer \subseteq lits  OBVIOUS
<1> HIDE DEF fewer
<1>7. others = fewer \/ others = fewer \ RemovedByBinaries(fewer, lit)
  BY DEF Minimized, fewer
<1>8. ASSUME NEW a \in Models, lit \notin a PROVE a \cap (fewer \ RemovedByBinaries(fewer, lit)) # {}
  <2>1. PICK l \in fewer : l \in a  BY <1>5, <1>8
  <2>2. l \notin RemovedByBinaries(fewer, lit)
    <3> SUFFICES ASSUME l \in RemovedByBinaries(fewer, lit) PROVE FALSE  OBVIOUS
    <3>1. PICK c \in DOMAIN order : c.lits = {lit, -l}  BY DEF RemovedByBinaries
    <3>2. c.lits \cap a # {}  BY <1>1, <3>1 DEF ClauseInv
    <3>3. -l \in a  BY <1>8, <3>1, <3>2
    <3>4. l \in Literal  BY <1>1, <1>6, FalseEntry
    <3> QED  BY <2>1, <3>3, <3>4, ModelsTypes
  <2> QED  BY <2>1, <2>2
<1> QED  BY <1>5, <1>6, <1>7, <1>8

\* What the conflict leaves is false.
LEMMA AnalyzedFalse ==
  ASSUME Parts, TypeOK, pc \in {"analyze", "failed"}
  PROVE  /\ Level > 0 /\ analyzed # {} /\ analyzed \subseteq FalseLits
         /\ \A l \in analyzed : LevelOf(l) \in 1 .. Level
         /\ \A a \in Models : analyzed \cap a # {}
<1>1. TrailInv /\ analyzed \subseteq Literal  BY DEF Parts, TypeOK
<1>2. /\ Level > 0 /\ analyzed # {} /\ \A a \in Models : analyzed \cap a # {}
      /\ \A l \in analyzed : \E i \in DOMAIN trail : trail[i].lit = -l /\ trail[i].level > 0
  BY DEF Parts, AnalysisInv
<1>3. ASSUME NEW l \in analyzed PROVE l \in FalseLits /\ LevelOf(l) \in 1 .. Level
  <2>1. PICK i \in DOMAIN trail : trail[i].lit = -l /\ trail[i].level > 0  BY <1>2
  <2>2. l = -trail[i].lit  BY <1>1, <2>1, Literals
  <2>3. trail[i].level \in 0 .. Level /\ -trail[i].lit \in FalseLits /\ Level \in Nat
    BY <1>1, TrailTypes
  <2>4. LevelOf(l) = trail[i].level  BY <1>1, <2>2, EntryIs
  <2> QED  BY <2>1, <2>2, <2>3, <2>4
<1> QED  BY <1>2, <1>3

\* The learnt clause follows from the formula and is a unit after going back.
LEMMA LearnInv == ASSUME IInv, solver # "Kissat", Learn PROVE IInv'
<1> USE DEF Learn, clauseVars
<1>1. Parts /\ TypeOK /\ TrailInv /\ pc = "analyze" /\ Analyzing /\ visiting = {}
  BY DEF IInv, Parts, Analyzing, ControlInv
<1>2. PICK lit \in AtLevel(analyzed, Level) :
        /\ AtLevel(analyzed, Level) = {lit}
        /\ \E others \in Minimized(analyzed \ {lit}, lit) :
             \/ /\ others = {}
                /\ BackjumpTo(0, lit, NoReason)
                /\ UNCHANGED order
             \/ \E second \in others :
                  LET c == Clause({lit} \cup others, TRUE)
                  IN  /\ \A l \in others : LevelOf(l) <= LevelOf(second)
                      /\ BackjumpTo(LevelOf(second), lit, c)
                      /\ order' = Attached(c, <<lit, second>>)
  OBVIOUS
<1>3. PICK others \in Minimized(analyzed \ {lit}, lit) :
        \/ /\ others = {}
           /\ BackjumpTo(0, lit, NoReason)
           /\ UNCHANGED order
        \/ \E second \in others :
             LET c == Clause({lit} \cup others, TRUE)
             IN  /\ \A l \in others : LevelOf(l) <= LevelOf(second)
                 /\ BackjumpTo(LevelOf(second), lit, c)
                 /\ order' = Attached(c, <<lit, second>>)
  BY <1>2
<1> DEFINE lits == {lit} \cup others  c == Clause(lits, TRUE)
<1>4. /\ Level > 0 /\ Level \in Nat /\ analyzed \subseteq FalseLits
      /\ \A l \in analyzed : LevelOf(l) \in 1 .. Level /\ l \in Literal
      /\ \A a \in Models : analyzed \cap a # {}
  BY <1>1, AnalyzedFalse, FalseEntry, TrailTypes
<1>5. lit \in analyzed /\ lit \in Literal /\ LevelOf(lit) = Level  BY <1>4 DEF AtLevel
<1>6. others \subseteq analyzed \ {lit} /\ \A a \in Models : a \cap (others \cup {lit}) # {}
  <2>1. analyzed \ {lit} \subseteq FalseLits  BY <1>4
  <2>2. \A a \in Models : a \cap ((analyzed \ {lit}) \cup {lit}) # {}  BY <1>4
  <2> QED  BY <1>1, <1>3, <1>5, <2>1, <2>2, MinimizedRight
<1>7. \A l \in others : LevelOf(l) \in 1 .. Level - 1
  <2>1. \A l \in others : LevelOf(l) # Level  BY <1>2, <1>6 DEF AtLevel
  <2> QED  BY <1>4, <1>6, <2>1
<1>8. /\ lits \subseteq FalseLits /\ lits \in Clauses /\ c \in AnyClause /\ c.lits = lits
      /\ \A a \in Models : c.lits \cap a # {}
  <2>1. lits \subseteq FalseLits  BY <1>4, <1>5, <1>6
  <2>2. lits \in Clauses  BY <1>1, <2>1, FalseIsClause
  <2> QED  BY <1>6, <2>1, <2>2 DEF Clause, AnyClause, Clauses
<1>9. \A i \in DOMAIN trail :
        trail[i].level > 0 /\ trail[i].reason # NoReason => trail[i].reason # c
  BY <1>1, <1>8, ReasonTrue
<1>10. CASE others = {} /\ BackjumpTo(0, lit, NoReason) /\ UNCHANGED order
  <2> DEFINE k == TrailAt(0)  e == [lit |-> lit, level |-> 0, reason |-> NoReason]
             u == <<e>>  lim == SubSeq(trailLim, 1, 0)
  <2>1. 0 \in 0 .. Level /\ 0 # Level  BY <1>4
  <2>2. PICK m : Retains(k, trail, trailLim, 0, m)  BY <1>1, <2>1, TrailAtRetains
  <2>3. LengthAt(0) = trailLim[0 + 1]  BY <1>1, <2>1, TrailAtRetains
  <2>4. e \in Entries
    BY <1>5 DEF Entries, NoReason, AnyClause
  <2>5. trail' = Append(k, e) /\ trailLim' = lim /\ qhead' = trailLim[0 + 1]
    BY <1>10, <2>3 DEF BackjumpTo
  <2>6. k \in Seq(Entries)  BY <2>2 DEF Retains
  <2>7. trail' = k \o u /\ u \in Seq(Entries) /\ DOMAIN u = {1} /\ u[1].level = 0
    BY <2>4, <2>5, <2>6, Appended
  <2>8. c.lits \ {lit} = {} /\ lit \in c.lits  BY <1>8, <1>10
  <2>9. e.lit = lit /\ e.level = 0  OBVIOUS
  <2> HIDE DEF k, e, lim, lits, c
  <2>10. TrailOK(k \o <<e>>, SubSeq(trailLim, 1, 0), Models, solver)
    BY <1>1, <1>4, <1>5, <1>8, <2>1, <2>2, <2>4, <2>8, <2>9, UnitAfter
  <2>11. TrailOK(k \o u, SubSeq(trailLim, 1, 0), Models, solver)  BY <2>10
  <2> HIDE DEF u
  <2>12. {} \in SUBSET DOMAIN order'  OBVIOUS
  <2>13. UNCHANGED <<solver, formula, loaded, caller, imports, reductions>>
         /\ conflict' \in AnyClause /\ analyzed' \subseteq Literal /\ conflicted' \in BOOLEAN
         /\ pc' = "top" /\ visiting' = {}
    BY <1>1 DEF TypeOK
  <2>14. trailLim' = SubSeq(trailLim, 1, 0)  BY <2>5 DEF lim
  <2>15. order' = order  BY <1>10
  <2>16. \A i \in DOMAIN trail : trail[i].level <= 0 => ~(trail[i].level > 0)
    BY <1>1, TrailTypes
  <2>17. \A j \in DOMAIN u : ~(u[j].level > 0)  BY <2>7
  <2>18. pc # "conflict"  BY <1>1
  <2> QED  BY <1>1, <2>1, <2>2, <2>5, <2>7, <2>11, <2>12, <2>13, <2>14, <2>15, <2>16, <2>17, <2>18, BackAssign
<1>11. ASSUME NEW second \in others, \A l \in others : LevelOf(l) <= LevelOf(second),
              BackjumpTo(LevelOf(second), lit, c), order' = Attached(c, <<lit, second>>)
       PROVE  IInv'
  <2> DEFINE level == LevelOf(second)
             k == TrailAt(level)  e == [lit |-> lit, level |-> level, reason |-> c]
             u == <<e>>  lim == SubSeq(trailLim, 1, level)  pair == <<lit, second>>
  <2>1. level \in 0 .. Level /\ level # Level /\ level > 0 /\ level \in Nat  BY <1>4, <1>7
  <2>2. PICK m : Retains(k, trail, trailLim, level, m)  BY <1>1, <2>1, TrailAtRetains
  <2>3. LengthAt(level) = trailLim[level + 1]  BY <1>1, <2>1, TrailAtRetains
  <2>4. e \in Entries
    BY <1>5, <1>8, <2>1 DEF Entries
  <2>5. trail' = Append(k, e) /\ trailLim' = lim /\ qhead' = trailLim[level + 1]
    BY <1>11, <2>3 DEF BackjumpTo
  <2>6. k \in Seq(Entries)  BY <2>2 DEF Retains
  <2>7. trail' = k \o u /\ u \in Seq(Entries) /\ DOMAIN u = {1} /\ u[1] = e
    <3> HIDE DEF k, e
    <3>1. Append(k, e) = k \o u /\ u \in Seq(Entries)  BY <2>4, <2>6, Appended
    <3> QED  BY <2>5, <3>1
  <2>8. /\ c.lits \ {lit} = others /\ lit \in c.lits /\ second \in c.lits /\ lit # second
        /\ lit \in Literal /\ second \in Literal
    BY <1>4, <1>5, <1>6, <1>8
  <2>9. e.lit = lit /\ e.level = level /\ e.reason = c  OBVIOUS
  <2>10. pair \in Literal \X Literal /\ pair[1] = lit /\ pair[2] = second  BY <2>8
  <2>11. {pair[1], pair[2]} = {lit, second}  BY <2>10
  <2> HIDE DEF k, e, lim, lits, c, level, pair
  <2>12. LevelOf(lit) > level  BY <1>4, <1>5, <2>1
  <2>13. TrailOK(k \o <<e>>, SubSeq(trailLim, 1, level), Models, solver)
    <3>1. \A l \in c.lits \ {lit} : LevelOf(l) <= level  BY <1>11, <2>8 DEF level
    <3>2. \E l \in c.lits \ {lit} : LevelOf(l) = level  BY <2>8 DEF level
    <3>3. level \in 0 .. level  BY <2>1
    <3> QED
      BY <1>1, <1>8, <2>1, <2>2, <2>4, <2>8, <2>9, <2>12, <3>1, <3>2, <3>3, UnitAfter
  <2>14. TrailOK(k \o u, SubSeq(trailLim, 1, level), Models, solver)  BY <2>13
  <2>15. WatchesOK(k \o <<e>>, SubSeq(trailLim, 1, level), trailLim[level + 1], level + 1, c.lits, pair, Strong)
    <3>1. e.level = LevelOf(second)  BY <2>9 DEF level
    <3> QED
      BY <1>1, <1>8, <2>1, <2>2, <2>4, <2>8, <2>9, <2>11, <2>12, <3>1, UnitWatches
  <2>16. WatchesOK(k \o u, SubSeq(trailLim, 1, level), trailLim[level + 1], level + 1, c.lits, pair, Strong)
    BY <2>15
  <2> HIDE DEF u
  <2>17. /\ DOMAIN order' = DOMAIN order \cup {c} /\ order'[c] = pair
         /\ \A d \in DOMAIN order : d # c => order'[d] = order[d]
    BY <1>11 DEF Attached, c, lits, pair
  <2>18. {c} \in SUBSET DOMAIN order'  BY <2>17
  <2>19. UNCHANGED <<solver, formula, loaded, caller, imports, reductions>>
         /\ conflict' \in AnyClause /\ analyzed' \subseteq Literal /\ conflicted' \in BOOLEAN
         /\ pc' = "top" /\ visiting' = {}
    BY <1>1 DEF TypeOK
  <2>20. trailLim' = SubSeq(trailLim, 1, level)  BY <2>5 DEF lim
  <2>21. \A d \in DOMAIN order' : d \notin {c} => d \in DOMAIN order /\ order'[d] = order[d]
    BY <2>17
  <2>22. \A d \in {c} :
           /\ d \in AnyClause /\ d.lits \in Clauses /\ \A a \in Models : d.lits \cap a # {}
           /\ order'[d] \in Literal \X Literal /\ order'[d][1] # order'[d][2]
           /\ order'[d][1] \in d.lits /\ order'[d][2] \in d.lits
           /\ WatchesOK(trail', trailLim', qhead', level + 1, d.lits, order'[d], Strong)
    BY <1>8, <2>5, <2>7, <2>8, <2>10, <2>16, <2>17, <2>20
  <2>23. \A d \in DOMAIN order : d \in DOMAIN order'  BY <2>17
  <2>24. \A i \in DOMAIN trail :
           trail[i].level > 0 /\ trail[i].level <= level /\ trail[i].reason # NoReason =>
             /\ trail[i].reason \notin {c}
             /\ trail[i].reason \in DOMAIN order => trail[i].reason \in DOMAIN order'
    BY <1>9, <2>23
  <2>25. \A j \in DOMAIN u : u[j].level > 0 =>
           /\ u[j].reason \in DOMAIN order'
           /\ solver # "Kissat" /\ ~Binary(u[j].reason) => order'[u[j].reason][1] = u[j].lit
    BY <2>7, <2>9, <2>10, <2>17
  <2>26. pc # "conflict" /\ qhead' = trailLim[level + 1]  BY <1>1, <2>5
  <2> QED
    BY ONLY <1>1, <2>1, <2>2, <2>7, <2>14, <2>18, <2>19, <2>20, <2>21, <2>22, <2>23, <2>24, <2>25, <2>26,
       BackAssign
<1> QED  BY <1>3, <1>10, <1>11

-----------------------------------------------------------------------------
(* Going back and restarting                                               *)

\* Going back, in Kissat: what stays on the trail, and what is propagated again.
LEMMA BacktrackFacts ==
  ASSUME TrailInv, NEW level, level \in 0 .. Level, NEW u \in Seq(Entries), Backtrack(level, u)
  PROVE  /\ \E m : Retains(Kept(level), trail, trailLim, level, m)
         /\ Kept(level) \in Seq(Entries)
         /\ trail' = Kept(level) \o u
         /\ trailLim' = SubSeq(trailLim, 1, level)
         /\ qhead' = IF level = Level THEN qhead ELSE trailLim[level + 1]
<1>1. PICK m : Retains(Kept(level), trail, trailLim, level, m)  BY KeptRetains
<1>2. Kept(level) \in Seq(Entries)  BY <1>1 DEF Retains
<1>3. level # Level => CutAt(level) = trailLim[level + 1]  BY DEF CutAt
<1> QED  BY <1>1, <1>2, <1>3 DEF Backtrack

\* An action that goes back without a conflict.
LEMMA BacktrackStep ==
  ASSUME Parts, TypeOK, ~Analyzing, visiting = {}, loaded = Len(formula),
         NEW level \in 0 .. Level, Backtrack(level, << >>),
         pc' \in {"import", "top", "propagate"}, pc' = "import" => level = 0,
         pc' = "propagate" => level = 0 /\ reductions < MaxReductions,
         caller' \in {"search", "reduce", "load", "top", "stamp"},
         UNCHANGED <<clauseVars, visiting, analysis, imports, reductions>>,
         conflicted' \in BOOLEAN
  PROVE  IInv'
<1> USE DEF clauseVars, analysis
<1>1. TrailInv  BY DEF Parts
<1> DEFINE u == << >>
<1>2. u \in Seq(Entries) /\ Kept(level) \o u = Kept(level)
  <2>1. PICK m : Retains(Kept(level), trail, trailLim, level, m)  BY <1>1, KeptRetains
  <2>2. Kept(level) \in Seq(Entries)  BY <2>1 DEF Retains
  <2> QED  BY <2>2, Nothing
<1>3. Backtrack(level, u)  OBVIOUS
<1> HIDE DEF u
<1>4. /\ \E m : Retains(Kept(level), trail, trailLim, level, m)
      /\ trail' = Kept(level)
      /\ trailLim' = SubSeq(trailLim, 1, level)
      /\ qhead' = IF level = Level THEN qhead ELSE trailLim[level + 1]
  BY <1>1, <1>2, <1>3, BacktrackFacts
<1>5. ~Analyzing'  BY DEF Analyzing
<1>6. PICK m : Retains(Kept(level), trail, trailLim, level, m)  BY <1>4
<1>7. /\ ControlInv' => Parts'
      /\ trail' \in Seq([lit : Literal, level : Nat, reason : AnyClause])
      /\ trailLim' \in Seq(Nat) /\ qhead' \in 0 .. Len(trail') /\ Level' = level
  BY <1>1, <1>4, <1>5, <1>6, GoBack
<1>8. ControlInv'  BY <1>7 DEF ControlInv, clauseVars
<1>9. TypeOK'  BY <1>7 DEF TypeOK
<1>10. AnswersAreRight'  BY DEF AnswersAreRight
<1> QED  BY <1>7, <1>8, <1>9, <1>10 DEF IInv

\* The forced import of Kissat goes back to level 0.
LEMMA ForcedRestartInv == ASSUME IInv, ForcedRestart PROVE IInv'
<1>1. Parts /\ TypeOK /\ loaded = Len(formula) /\ visiting = {} /\ ~Analyzing
  BY DEF IInv, ForcedRestart, Parts, ControlInv, Analyzing
<1>2. conflicted' \in BOOLEAN /\ caller' \in {"search", "reduce", "load", "top", "stamp"}
  BY <1>1 DEF TypeOK, ForcedRestart, counters
<1>3. 0 \in 0 .. Level  BY <1>1, TrailTypes DEF Parts
<1> QED  BY <1>1, <1>2, <1>3, BacktrackStep DEF ForcedRestart, counters

\* Literals of level 0 are flushed before a reduction.
LEMMA FlushTrailInv == ASSUME IInv, FlushTrail PROVE IInv'
<1>1. Parts /\ TypeOK /\ loaded = Len(formula) /\ visiting = {} /\ ~Analyzing
  BY DEF IInv, FlushTrail, Undecided, Parts, ControlInv, Analyzing
<1>2. conflicted' \in BOOLEAN
  BY <1>1 DEF TypeOK, FlushTrail, counters
<1>3. 0 \in 0 .. Level  BY <1>1, TrailTypes DEF Parts
<1>4. reductions < MaxReductions  BY DEF FlushTrail, Reducing
<1> QED  BY <1>1, <1>2, <1>3, <1>4, BacktrackStep DEF FlushTrail, counters

\* The least level that is on the trail out of order is one of those there are.
LEMMA OutOfOrderLevel ==
  ASSUME TrailInv
  PROVE  SmallestOutOfOrder \in 0 .. Level
<1> DEFINE levels == {trail[i].level : i \in {j \in DOMAIN trail :
                        \E k \in 1 .. j - 1 : trail[j].level < trail[k].level}}
<1>1. levels \in SUBSET (0 .. Level) /\ Level \in Nat  BY TrailTypes
<1>2. SmallestOutOfOrder = IF levels = {} THEN Level ELSE CHOOSE k \in levels : \A l \in levels : k <= l
  BY DEF SmallestOutOfOrder
<1> HIDE DEF levels
<1>3. levels \in SUBSET Nat  BY <1>1
<1>4. levels # {} => \E k \in levels : \A l \in levels : k <= l  BY <1>3, Least
<1>5. CASE levels = {}  BY <1>1, <1>2, <1>5
<1>6. CASE levels # {}
  <2> DEFINE low == CHOOSE k \in levels : \A l \in levels : k <= l
  <2>1. low \in levels  BY <1>4, <1>6
  <2>2. SmallestOutOfOrder = low  BY <1>2, <1>6
  <2> QED  BY <1>1, <2>1, <2>2
<1> QED  BY <1>5, <1>6

\* A restart that keeps a part of the trail.
LEMMA RestartReusingTrailInv == ASSUME IInv, RestartReusingTrail PROVE IInv'
<1>1. Parts /\ TypeOK /\ loaded = Len(formula) /\ visiting = {} /\ ~Analyzing
  BY DEF IInv, RestartReusingTrail, Undecided, Parts, ControlInv, Analyzing
<1>2. caller' \in {"search", "reduce", "load", "top", "stamp"} /\ conflicted' \in BOOLEAN
  BY <1>1 DEF TypeOK, RestartReusingTrail
<1>3. PICK level \in 0 .. SmallestOutOfOrder : Backtrack(level, << >>)
  BY DEF RestartReusingTrail
<1>4. level \in 0 .. Level  BY <1>1, OutOfOrderLevel, TrailTypes DEF Parts
<1> QED  BY <1>1, <1>2, <1>3, <1>4, BacktrackStep DEF RestartReusingTrail

-----------------------------------------------------------------------------
(* Propagation                                                             *)

\* A set of numbers up to n that is not empty has a greatest one.
LEMMA Greatest ==
  ASSUME NEW n \in Nat, NEW S \in SUBSET (0 .. n), S # {}
  PROVE  \E m \in S : \A j \in S : j <= m
<1> DEFINE T == {n - j : j \in S}
<1>1. T \in SUBSET Nat /\ T # {}
  <2>1. PICK j \in S : TRUE  OBVIOUS
  <2>2. n - j \in T  BY <2>1
  <2> QED  BY <2>2
<1> HIDE DEF T
<1>2. PICK x \in T : \A y \in T : x <= y  BY <1>1, Least
<1>3. PICK m \in S : x = n - m  BY DEF T
<1>4. \A j \in S : n - j \in T  BY DEF T
<1> QED  BY <1>2, <1>3, <1>4

\* The highest level of false literals is that of one of them.
LEMMA HighestIs ==
  ASSUME TrailInv, NEW lits, lits \subseteq FalseLits, lits # {}
  PROVE  /\ HighestLevel(lits) \in 0 .. Level
         /\ \E l \in lits : LevelOf(l) = HighestLevel(lits)
         /\ \A l \in lits : LevelOf(l) <= HighestLevel(lits)
         /\ OnLevel(lits, HighestLevel(lits)) # {}
<1> DEFINE S == {LevelOf(l) : l \in lits}
<1>1. Level \in Nat  BY TrailTypes
<1>2. S \in SUBSET (0 .. Level) /\ S # {}  BY FalseEntry
<1> HIDE DEF S
<1>3. PICK k \in S : \A j \in S : j <= k  BY <1>1, <1>2, Greatest
<1>4. OnLevel(lits, k) # {} /\ \A l \in lits : LevelOf(l) <= k  BY <1>3 DEF OnLevel, S
<1>5. k \in 0 .. Level  BY <1>2
<1> DEFINE P(j) == OnLevel(lits, j) # {} /\ \A l \in lits : LevelOf(l) <= j
<1>6. \E j \in 0 .. Level : P(j)  BY <1>4, <1>5
<1>7. HighestLevel(lits) = CHOOSE j \in 0 .. Level : P(j)  BY DEF HighestLevel
<1> HIDE DEF P
<1>8. HighestLevel(lits) \in 0 .. Level /\ P(HighestLevel(lits))  BY <1>6, <1>7
<1> QED  BY <1>8 DEF P, OnLevel

\* What a clause makes true in Kissat.
LEMMA ForcedIs ==
  ASSUME TrailInv, NEW c \in AnyClause, c.lits \in Clauses, NEW lit \in c.lits,
         c.lits \ {lit} \subseteq FalseLits, c.lits \ {lit} # {}
  PROVE  /\ Forced(lit, c) \in Entries /\ Forced(lit, c).lit = lit
         /\ Forced(lit, c).level = HighestLevel(c.lits \ {lit})
         /\ Forced(lit, c).level > 0 => Forced(lit, c).reason = c
<1> DEFINE h == HighestLevel(c.lits \ {lit})
<1>1. h \in 0 .. Level /\ Level \in Nat  BY HighestIs, TrailTypes
<1>2. lit \in Literal  BY DEF Clauses
<1> HIDE DEF h
<1>3. Forced(lit, c) = [lit |-> lit, level |-> h, reason |-> IF h = 0 THEN NoReason ELSE c]
  BY DEF Forced, Assign, h
<1>4. NoReason \in AnyClause  BY DEF NoReason, AnyClause
<1>5. (IF h = 0 THEN NoReason ELSE c) \in AnyClause  BY <1>4
<1>6. Forced(lit, c) \in Entries  BY <1>1, <1>2, <1>3, <1>5 DEF Entries
<1> QED  BY <1>1, <1>3, <1>6 DEF h

\* A literal forced by a clause has the highest level of the others, which are false.
LEMMA ForcedReason ==
  ASSUME TrailInv, NEW c \in AnyClause, c.lits \in Clauses, NEW lit \in c.lits,
         \A a \in Models : c.lits \cap a # {},
         c.lits \ {lit} \subseteq FalseLits, c.lits \ {lit} # {}, NEW e, e = Forced(lit, c)
  PROVE  /\ e \in Entries /\ e.lit = lit /\ e.level \in 0 .. Level
         /\ e.level = 0 => \A a \in Models : e.lit \in a
         /\ e.level > 0 => e.reason = c /\ e.reason # NoReason
                           /\ Justified(e, EntriesUpTo(trail, Len(trail)), Models, solver)
<1> DEFINE others == c.lits \ {lit}
<1>1. others \subseteq FalseLits /\ others # {}  OBVIOUS
<1>2. e \in Entries /\ e.lit = lit /\ e.level = HighestLevel(others) /\ (e.level > 0 => e.reason = c)
  BY ForcedIs
<1> HIDE DEF others
<1>3. /\ e.level \in 0 .. Level /\ Level \in Nat /\ \E l \in others : LevelOf(l) = e.level
      /\ \A l \in others : LevelOf(l) <= e.level
  <2>1. /\ HighestLevel(others) \in 0 .. Level
        /\ \E l \in others : LevelOf(l) = HighestLevel(others)
        /\ \A l \in others : LevelOf(l) <= HighestLevel(others)
    BY <1>1, HighestIs
  <2> QED  BY <1>2, <2>1, TrailTypes
<1>4. ASSUME NEW l \in others
      PROVE  \E b \in EntriesUpTo(trail, Len(trail)) : b.lit = -l /\ b.level = LevelOf(l) /\ -b.lit = l
  <2>1. PICK i \in DOMAIN trail : trail[i].lit = -l /\ trail[i].level = LevelOf(l) /\ -trail[i].lit = l
    BY <1>1, FalseEntry
  <2>2. i \in 1 .. Len(trail)  BY TrailTypes
  <2> QED  BY <2>1, <2>2 DEF EntriesUpTo
<1>5. ASSUME e.level = 0, NEW a \in Models PROVE lit \in a
  <2>1. ASSUME NEW l \in others PROVE l \notin a
    <3>1. LevelOf(l) = 0 /\ l \in Literal  BY <1>1, <1>3, <1>5, FalseEntry
    <3>2. PICK i \in DOMAIN trail : trail[i].lit = -l /\ trail[i].level = LevelOf(l)
      BY <1>1, FalseEntry
    <3>3. -l \in a  BY <3>1, <3>2 DEF TrailInv, TrailOK, RootRight
    <3> QED  BY <3>1, <3>3, ModelsTypes
  <2> QED  BY <2>1 DEF others
<1>6. c # NoReason  BY DEF NoReason
<1>7. ASSUME e.level > 0 PROVE Justified(e, EntriesUpTo(trail, Len(trail)), Models, solver)
  <2>1. \A l \in c.lits \ {lit} :
          \E b \in EntriesUpTo(trail, Len(trail)) : b.lit = -l /\ b.level <= e.level
    BY <1>3, <1>4 DEF others
  <2>2. \E b \in EntriesUpTo(trail, Len(trail)) : -b.lit \in c.lits /\ b.level = e.level
    <3>1. PICK l \in others : LevelOf(l) = e.level  BY <1>3
    <3>2. PICK b \in EntriesUpTo(trail, Len(trail)) : b.level = LevelOf(l) /\ -b.lit = l  BY <1>4
    <3> QED  BY <3>1, <3>2 DEF others
  <2>3. e.reason = c  BY <1>2, <1>7
  <2> QED  BY <1>2, <2>1, <2>2, <2>3 DEF Justified
<1> QED  BY <1>2, <1>3, <1>5, <1>6, <1>7

\* All literals of a visited clause are false.
LEMMA ConflictFoundInv ==
  ASSUME IInv, solver = "Kissat", pc = "propagate", NEW c \in visiting, ConflictFound(c),
         c.lits \subseteq FalseLits,
         UNCHANGED <<solver, formula, loaded, trailLim, qhead, caller, analyzed, counters>>
  PROVE  IInv'
<1> USE DEF counters
<1>1. Parts /\ TypeOK /\ TrailInv  BY DEF IInv, Parts
<1>2. /\ c \in DOMAIN order /\ c.lits \in SUBSET Literal /\ c \in AnyClause
      /\ \A k \in DOMAIN trailLim : trailLim[k] < qhead
  BY <1>1, Visited
<1>3. \A a \in Models : c.lits \cap a # {}  BY <1>1, <1>2 DEF Parts, ClauseInv
<1>4. /\ trail \in Seq(Entries) /\ trailLim \in Seq(Nat) /\ Len(trail) \in Nat
      /\ Level \in Nat /\ Level = Len(trailLim)
  BY <1>1, TrailTypes DEF Level
<1>5. /\ visiting' = {} /\ order' = order /\ trail' = trail
      /\ pc' = IF Level = 0 THEN "unsat" ELSE "conflict"
      /\ conflict' = IF Level = 0 THEN NoReason ELSE c
  BY DEF ConflictFound
<1>6. TypeOK'
  <2>1. NoReason \in AnyClause  BY DEF NoReason, AnyClause
  <2> QED  BY <1>1, <1>2, <1>5, <2>1 DEF TypeOK
<1>7. CASE Level = 0
  <2>1. Models = {}
    <3> DEFINE high == {l \in c.lits : LevelOf(l) > 0}
    <3> HIDE DEF high
    <3>1. high = {l \in c.lits : LevelOf(l) > 0}  BY DEF high
    <3> QED  BY ONLY <1>1, <1>2, <1>3, <1>7, <3>1, c.lits \subseteq FalseLits, FalseClause
  <2>2. AnswersAreRight'  BY <1>5, <1>7, <2>1, SameModels DEF AnswersAreRight
  <2> QED  BY <1>5, <1>6, <1>7, <2>2 DEF IInv
<1>8. CASE Level # 0
  <2>1. pc' = "conflict" /\ conflict' = c  BY <1>5, <1>8
  <2>2. AnswersAreRight'  BY <2>1 DEF AnswersAreRight
  <2>3. TrailInv'  BY <1>1, <1>5, SameTrail
  <2>4. ControlInv'
    <3>1. caller = "search"  BY <1>1, <1>8 DEF Parts, ControlInv
    <3> QED  BY <1>1, <1>5, <2>1, <3>1 DEF Parts, ControlInv
  <2>5. PropagateInv'  BY <1>1, <1>5 DEF PropagateInv, Parts
  <2>6. ClauseInv' /\ FormulaInv'  BY <1>1, <1>5, SameClauses, SameFormula DEF Parts
  <2>7. PresentInv'
    <3> SUFFICES ASSUME NEW i \in DOMAIN trail, trail[i].level > 0, trail[i].reason # NoReason
                 PROVE  Present(i)'
      BY <1>5 DEF PresentInv
    <3>1. trail[i].reason \in DOMAIN order  BY <1>1 DEF Parts, PresentInv, Present, Analyzing
    <3> QED  BY <1>5, <3>1 DEF Present
  <2>8. WatchInv'
    <3> SUFFICES ASSUME NEW d \in DOMAIN order
                 PROVE  WatchesOK(trail, trailLim, qhead, Level, d.lits, order[d], Strong)
      BY <1>5, <2>1 DEF WatchInv, Level, Strong, Analyzing
    <3> DEFINE q == IF d \in visiting THEN qhead - 1 ELSE qhead
    <3>1. WatchesOK(trail, trailLim, q, Level + 1, d.lits, order[d], Strong)
      BY <1>1 DEF Parts, WatchInv, Analyzing
    <3> HIDE DEF q
    <3> QED  BY <1>4, <3>1, WatchesBelow
  <2>9. AnalysisInv'
    <3>1. FalseLits' = FalseLits /\ DOMAIN order' = DOMAIN order
      BY <1>5 DEF FalseLits, TrueLits, Complement
    <3> QED  BY <1>2, <2>1, <3>1 DEF AnalysisInv
  <2> QED  BY <1>6, <2>2, <2>3, <2>4, <2>5, <2>6, <2>7, <2>8, <2>9 DEF IInv, Parts
<1> QED  BY <1>7, <1>8

\* The watched literal that is not the false one.
LEMMA OtherWatched ==
  ASSUME NEW v, NEW false, false \in {v[1], v[2]}, v[1] # v[2],
         NEW other, other = CHOOSE l \in {v[1], v[2]} : l # false
  PROVE  other # false /\ other \in {v[1], v[2]} /\ {v[1], v[2]} = {other, false}
<1>1. \E l \in {v[1], v[2]} : l # false  OBVIOUS
<1>2. other \in {v[1], v[2]} /\ other # false  BY <1>1
<1> QED  BY <1>2

\* A clause is visited by kissat_search_propagate: it is true, another literal is
\* watched, it is a unit, or it is false.
LEMMA PropagateClauseInv ==
  ASSUME IInv, solver = "Kissat", NEW c \in visiting, PropagateClause(c)
  PROVE  IInv'
<1> DEFINE false == -trail[qhead].lit
           other == CHOOSE l \in {order[c][1], order[c][2]} : l # false
           rest == c.lits \ {other, false}
<1>0. /\ pc = "propagate"
      /\ \/ /\ Satisfied(c)
            /\ visiting' = visiting \ {c} /\ UNCHANGED <<order, trail, conflict, pc>>
         \/ /\ other \notin TrueLits
            /\ \E l \in rest : ~Assigned(l) /\ order' = Attached(c, Watched(other, l))
            /\ visiting' = visiting \ {c} /\ UNCHANGED <<trail, conflict, pc>>
         \/ /\ ~Assigned(other) /\ rest \subseteq FalseLits
            /\ trail' = Append(trail, Forced(other, c))
            /\ visiting' = visiting \ {c} /\ UNCHANGED <<order, conflict, pc>>
         \/ /\ other \in FalseLits /\ rest \subseteq FalseLits
            /\ ConflictFound(c)
      /\ UNCHANGED <<solver, formula, loaded, trailLim, qhead, caller, analyzed, counters>>
  BY DEF PropagateClause
<1>1. Parts /\ TypeOK /\ TrailInv  BY <1>0 DEF IInv, Parts
<1>2. /\ c \in DOMAIN order
      /\ order[c][1] \in c.lits /\ order[c][2] \in c.lits /\ order[c][1] # order[c][2]
      /\ WatchesOK(trail, trailLim, qhead - 1, Level + 1, c.lits, order[c], Strong)
      /\ order[c] \in Literal \X Literal
      /\ c.lits \in SUBSET Literal /\ c.lits \in Clauses /\ c \in AnyClause
      /\ false \in {order[c][1], order[c][2]} /\ false \in FalseLits
      /\ qhead \in 1 .. Len(trail) /\ \A k \in DOMAIN trailLim : trailLim[k] < qhead
      /\ \A a \in Models : c.lits \cap a # {}
  BY <1>0, <1>1, Visited DEF TypeOK, Parts, ClauseInv
<1>3. other # false /\ other \in {order[c][1], order[c][2]} /\ {order[c][1], order[c][2]} = {other, false}
  <2> DEFINE v == order[c]
  <2>1. false \in {v[1], v[2]} /\ v[1] # v[2]  BY <1>2
  <2>2. other = CHOOSE l \in {v[1], v[2]} : l # false  OBVIOUS
  <2> HIDE DEF v, other, false
  <2>3. other # false /\ other \in {v[1], v[2]} /\ {v[1], v[2]} = {other, false}
    BY ONLY <2>1, <2>2, OtherWatched
  <2> QED  BY <2>3 DEF v
<1>4. /\ trail \in Seq(Entries) /\ trailLim \in Seq(Nat) /\ Level = Len(trailLim)
      /\ TrueBelow(trail, Level + 1) = TrueLits /\ Len(trail) \in Nat /\ Level \in Nat
      /\ Limits(trail, trailLim)
  BY <1>1, TrailTypes, AllLits DEF Level, TrailInv, TrailOK
<1>5. other \in c.lits /\ false \in c.lits /\ other \in Literal
  <2> HIDE DEF other, false
  <2> QED  BY <1>2, <1>3
<1> HIDE DEF other, false
<1>6. CASE /\ Satisfied(c)
           /\ visiting' = visiting \ {c} /\ UNCHANGED <<order, trail, conflict, pc>>
  <2>1. c.lits \cap TrueBelow(trail, Level + 1) # {}  BY <1>4, <1>6 DEF Satisfied
  <2>2. WatchesOK(trail, trailLim, qhead, Level + 1, c.lits, order[c], Strong)
    BY <1>2, <1>4, <2>1, WatchesSatisfied
  <2>3. TrailInv'  BY <1>0, <1>1, <1>6, SameTrail
  <2> DEFINE u == << >>
  <2>4. u \in Seq(Entries) /\ DOMAIN u = {} /\ trail' = trail \o u  BY <1>4, <1>6, Nothing
  <2> HIDE DEF u
  <2> QED  BY <1>0, <1>2, <1>6, <2>2, <2>3, <2>4, VisitStep DEF counters
<1>7. CASE /\ other \notin TrueLits
           /\ \E l \in rest : ~Assigned(l) /\ order' = Attached(c, Watched(other, l))
           /\ visiting' = visiting \ {c} /\ UNCHANGED <<trail, conflict, pc>>
  <2>1. PICK l \in rest : ~Assigned(l) /\ order' = Attached(c, Watched(other, l))  BY <1>7
  <2>2. l \in c.lits /\ l # other /\ l \in Literal /\ l \notin FalseLits  BY <1>2, <2>1 DEF Assigned
  <2> DEFINE w == Watched(other, l)
  <2> HIDE DEF w
  <2>3. w = Watched(other, l)  BY DEF w
  <2>4. w \in Literal \X Literal /\ w[1] # w[2] /\ {w[1], w[2]} = {other, l}
    BY <1>5, <2>2, <2>3, WatchedTwo
  <2>5. /\ DOMAIN order' = DOMAIN order /\ order'[c] = w
        /\ \A d \in DOMAIN order : d # c => order'[d] = order[d]
    BY <1>2, <2>1, <2>3 DEF Attached
  <2>6. w[1] \in c.lits /\ w[2] \in c.lits
    <3>1. w[1] \in {other, l} /\ w[2] \in {other, l}  BY <2>4
    <3> QED  BY <1>5, <2>2, <3>1
  <2>7. WatchesOK(trail, trailLim, qhead, Level + 1, c.lits, w, Strong)
    <3>1. {order[c][1], order[c][2]} = {other, -trail[qhead].lit} /\ other # -trail[qhead].lit
      BY <1>3 DEF false
    <3> QED  BY <1>1, <1>2, <2>2, <2>4, <3>1, WatchesMoved
  <2>8. TrailInv'  BY <1>0, <1>1, <1>7, SameTrail
  <2> DEFINE u == << >>
  <2>9. u \in Seq(Entries) /\ DOMAIN u = {} /\ trail' = trail \o u  BY <1>4, <1>7, Nothing
  <2> HIDE DEF u
  <2> QED  BY <1>0, <1>2, <1>7, <2>4, <2>5, <2>6, <2>7, <2>8, <2>9, VisitStep DEF counters
<1>8. CASE /\ ~Assigned(other) /\ rest \subseteq FalseLits
           /\ trail' = Append(trail, Forced(other, c))
           /\ visiting' = visiting \ {c} /\ UNCHANGED <<order, conflict, pc>>
  <2> DEFINE e == Forced(other, c)  u == <<e>>
  <2>1. c.lits \ {other} \subseteq FalseLits /\ c.lits \ {other} # {}
    BY <1>2, <1>3, <1>5, <1>8
  <2> HIDE DEF e
  <2>2. /\ e \in Entries /\ e.lit = other /\ e.level \in 0 .. Level
        /\ e.level = 0 => \A a \in Models : e.lit \in a
        /\ e.level > 0 => e.reason = c /\ e.reason # NoReason
                          /\ Justified(e, EntriesUpTo(trail, Len(trail)), Models, solver)
    <3>1. e = Forced(other, c)  BY DEF e
    <3> QED  BY <1>1, <1>2, <1>5, <2>1, <3>1, ForcedReason
  <2>3. trail' = trail \o u /\ u \in Seq(Entries)
    <3>1. trail' = Append(trail, e)  BY <1>8 DEF e
    <3> QED  BY <1>4, <2>2, <3>1, Appended
  <2>4. DOMAIN u = {1} /\ u[1] = e  OBVIOUS
  <2>5. e.lit \notin TrueLits /\ e.lit \notin FalseLits  BY <1>8, <2>2 DEF Assigned
  <2>6. e.level <= Level /\ e.level < Level + 1 /\ Level + 1 \in Nat  BY <2>2, <1>4
  <2>7. TrailInv'  BY <1>0, <1>1, <2>2, <2>3, <2>5, <2>6, EnqueueStep
  <2> HIDE DEF u
  <2>8. WatchesOK(trail', trailLim, qhead, Level + 1, c.lits, order[c], Strong)
    <3>1. qhead - 1 \in 0 .. Len(trail)  BY <1>2, <1>4
    <3>2. WatchesOK(trail', trailLim, qhead - 1, Level + 1, c.lits, order[c], Strong)
      BY <1>2, <1>4, <2>3, <3>1, WatchesExtended
    <3>3. other \in TrueBelow(trail', Level + 1)
      BY <1>4, <2>2, <2>3, <2>6, EnqueuedTrue DEF u
    <3>4. c.lits \cap TrueBelow(trail', Level + 1) # {}  BY <1>5, <3>3
    <3> QED  BY <1>4, <3>2, <3>4, WatchesSatisfied
  <2>9. \A j \in DOMAIN u : u[j].level > 0 =>
            u[j].reason = c /\ (solver # "Kissat" /\ ~Binary(c) => order'[c][1] = u[j].lit)
    BY <2>2, <2>4
  <2> QED  BY <1>0, <1>2, <1>8, <2>3, <2>7, <2>8, <2>9, VisitStep DEF counters
<1>9. CASE other \in FalseLits /\ rest \subseteq FalseLits /\ ConflictFound(c)
  <2>1. c.lits \subseteq FalseLits  BY <1>2, <1>9
  <2> QED  BY <1>0, <1>9, <2>1, ConflictFoundInv
<1> QED  BY <1>0, <1>6, <1>7, <1>8, <1>9

\* Going back to the level where the search is changes nothing.
LEMMA KeptAll == ASSUME TrailInv PROVE Kept(Level) = trail
<1>1. Level \in 0 .. Level /\ Level \in Nat /\ Len(trail) \in Nat /\ trail \in Seq(Entries)
  BY TrailTypes
<1>2. CutAt(Level) = Len(trail)  BY DEF CutAt
<1>3. PICK f :
           /\ Kept(Level) = f[Len(trail)]
           /\ \A n \in CutAt(Level) .. Len(trail) :
                f[n] = IF n = CutAt(Level) THEN SubSeq(trail, 1, n)
                       ELSE IF trail[n].level <= Level THEN Append(f[n - 1], trail[n])
                       ELSE f[n - 1]
  BY <1>1, KeptRecursion
<1>4. Kept(Level) = SubSeq(trail, 1, Len(trail))  BY <1>1, <1>2, <1>3
<1> QED  BY <1>1, <1>4

\* The pair watched in a false clause: no other literal is of a higher level.
LEMMA HighestPairsAre ==
  ASSUME NEW c, c.lits \in SUBSET Literal, NEW watched \in HighestPairs(c)
  PROVE  \E a, b \in c.lits :
           /\ a # b /\ watched \in Literal \X Literal /\ watched[1] # watched[2]
           /\ {watched[1], watched[2]} = {a, b}
           /\ \A l \in c.lits \ {a, b} : LevelOf(l) <= LevelOf(a) /\ LevelOf(l) <= LevelOf(b)
<1>1. PICK p \in {{a, b} : a, b \in c.lits} :
        /\ Cardinality(p) = 2
        /\ \A l \in p, k \in c.lits \ p : LevelOf(k) <= LevelOf(l)
        /\ watched = Sorted(p)
  <2> DEFINE now == {order[c][1], order[c][2]}
             highest == {p \in {{a, b} : a, b \in c.lits} :
                           /\ Cardinality(p) = 2
                           /\ \A l \in p, k \in c.lits \ p : LevelOf(k) <= LevelOf(l)}
  <2>1. HighestPairs(c) = {Sorted(p) : p \in {q \in highest : \A r \in highest :
                             Cardinality(r \cap now) <= Cardinality(q \cap now)}}
    BY DEF HighestPairs
  <2>2. PICK p \in highest : watched = Sorted(p)
    <3> HIDE DEF highest, now
    <3> QED  BY <2>1
  <2> QED  BY <2>2
<1>2. PICK a \in c.lits, b \in c.lits : p = {a, b}  BY <1>1
<1>3. a # b
  <2> SUFFICES ASSUME a = b PROVE FALSE  OBVIOUS
  <2>1. p \in SUBSET Literal /\ \A x, y \in p : x = y  BY <1>2
  <2>2. Cardinality(p) < 2  BY <2>1, Two
  <2> QED  BY <1>1, <2>2
<1>4. p \in SUBSET Literal /\ \E x, y \in p : x # y  BY <1>2, <1>3
<1> DEFINE w == Sorted(p)
<1>5. w \in Literal \X Literal /\ w[1] # w[2] /\ w[1] \in p /\ w[2] \in p  BY <1>4, SortedTwo
<1> HIDE DEF w
<1>6. {w[1], w[2]} = {a, b}  BY <1>2, <1>3, <1>5
<1>7. \A l \in c.lits \ {a, b} : LevelOf(l) <= LevelOf(a) /\ LevelOf(l) <= LevelOf(b)
  BY <1>1, <1>2
<1> QED  BY <1>1, <1>3, <1>5, <1>6, <1>7 DEF w

\* Literals of a level are not false before it begins.
LEMMA LevelOpens ==
  ASSUME TrailInv, NEW j \in DOMAIN trailLim, NEW l, j <= LevelOf(l)
  PROVE  l \notin FalseIn(trail, trailLim[j])
<1> SUFFICES ASSUME l \in FalseIn(trail, trailLim[j]) PROVE FALSE  OBVIOUS
<1>1. Limits(trail, trailLim) /\ Levels(trail, trailLim) /\ trailLim \in Seq(Nat)
      /\ Len(trail) \in Nat /\ trail \in Seq(Entries)
  BY TrailTypes DEF TrailInv, TrailOK
<1>2. PICK i \in 1 .. trailLim[j] : l = -trail[i].lit  BY DEF FalseIn
<1>3. trailLim[j] < Len(trail) /\ trailLim[j] \in Nat /\ j \in Nat
  <2>1. trailLim[j] < Len(trail)  BY <1>1 DEF Limits
  <2>2. trailLim \in Seq(Nat)  BY <1>1
  <2>3. trailLim[j] \in Nat /\ j \in Nat  BY ONLY <2>2, j \in DOMAIN trailLim
  <2> QED  BY <2>1, <2>3
<1>4. i \in DOMAIN trail /\ i <= trailLim[j]  BY <1>1, <1>2, <1>3
<1>5. trail[i].level < j  BY <1>1, <1>4 DEF Levels
<1>6. LevelOf(l) = trail[i].level /\ trail[i].level \in Nat  BY <1>2, <1>4, EntryIs, TrailTypes
<1> QED  BY <1>3, <1>5, <1>6

\* The conflict is above level 0.
LEMMA ConflictFacts ==
  ASSUME Parts, TypeOK, solver = "Kissat", Analyzing
  PROVE  /\ conflict \in DOMAIN order /\ conflict \in AnyClause /\ conflict.lits \in Clauses
         /\ conflict.lits \in SUBSET Literal
         /\ conflict.lits \subseteq FalseLits /\ conflict.lits # {}
         /\ \A a \in Models : conflict.lits \cap a # {}
         /\ order[conflict] \in Literal \X Literal
<1>1. conflict \in DOMAIN order /\ conflict.lits \subseteq FalseLits  BY DEF Parts, AnalysisInv
<1>2. conflict.lits \in Clauses /\ \A a \in Models : conflict.lits \cap a # {}
  BY <1>1 DEF Parts, ClauseInv
<1> QED  BY <1>1, <1>2 DEF TypeOK, Clauses

-----------------------------------------------------------------------------
(* Conflicts                                                               *)

\* A false clause makes one of its literals true when the search goes back to a level
\* below this one's but not below those of the others.
UnitForced(level, c, lit, e) ==
  /\ level \in 0 .. Level /\ level # Level
  /\ c \in AnyClause /\ c.lits \subseteq FalseLits /\ \A a \in Models : c.lits \cap a # {}
  /\ lit \in c.lits /\ LevelOf(lit) > level
  /\ \A l \in c.lits \ {lit} : LevelOf(l) <= level
  /\ e \in Entries /\ e.lit = lit
  /\ c.lits \ {lit} = {} => e.level = 0
  /\ c.lits \ {lit} # {} => e.level = HighestLevel(c.lits \ {lit}) /\ (e.level > 0 => e.reason = c)
  /\ Backtrack(level, <<e>>)

ClauseAdded(c, lit, e, new) ==
  /\ new \in SUBSET {c} /\ new \subseteq DOMAIN order'
  /\ c.lits \ {lit} # {} => c \in DOMAIN order'
  /\ c \in new =>
       /\ order'[c] \in Literal \X Literal /\ order'[c][1] # order'[c][2]
       /\ \E second \in c.lits \ {lit} :
            {order'[c][1], order'[c][2]} = {lit, second} /\ e.level = LevelOf(second)
  /\ \A d \in DOMAIN order' : d \notin new => d \in DOMAIN order /\ order'[d] = order[d]
  /\ \A d \in DOMAIN order : d \notin DOMAIN order' =>
       /\ d.learnt
       /\ \A i \in DOMAIN trail :
            trail[i].level > 0 /\ trail[i].reason = d => trail[i].level = Level
  /\ pc = "conflict" /\ conflict \in DOMAIN order' => conflict \in new

\* After a conflict Kissat goes back, adds a clause and assigns what that forces.
LEMMA KissatUnit ==
  ASSUME Parts, TypeOK, solver = "Kissat", Analyzing, pc' = "top",
         NEW level, NEW c, NEW lit, NEW e, NEW new,
         UnitForced(level, c, lit, e), ClauseAdded(c, lit, e, new),
         UNCHANGED <<solver, formula, loaded, visiting, caller, imports, reductions>>,
         conflict' \in AnyClause, analyzed' \subseteq Literal, conflicted' \in BOOLEAN
  PROVE  IInv'
<1> USE DEF UnitForced, ClauseAdded
<1>1. TrailInv /\ visiting = {} /\ Level \in Nat /\ level \in Nat
  BY TrailTypes DEF Parts, ControlInv, Analyzing
<1> DEFINE u == <<e>>
<1>2. u \in Seq(Entries) /\ DOMAIN u = {1} /\ u[1] = e  OBVIOUS
<1>3. c.lits \in Clauses  BY <1>1, FalseIsClause
<1>4. /\ \E m : Retains(Kept(level), trail, trailLim, level, m)
      /\ trail' = Kept(level) \o u
      /\ trailLim' = SubSeq(trailLim, 1, level)
      /\ qhead' = trailLim[level + 1]
  <2> HIDE DEF u
  <2>1. Backtrack(level, u)  BY DEF u
  <2>2. /\ \E m : Retains(Kept(level), trail, trailLim, level, m)
        /\ trail' = Kept(level) \o u
        /\ trailLim' = SubSeq(trailLim, 1, level)
        /\ qhead' = IF level = Level THEN qhead ELSE trailLim[level + 1]
    BY ONLY <1>1, <1>2, <2>1, level \in 0 .. Level, BacktrackFacts
  <2> QED  BY <2>2
<1>5. PICK m : Retains(Kept(level), trail, trailLim, level, m)  BY <1>4
<1> DEFINE top == e.level  others == c.lits \ {lit}
<1>6. /\ top \in 0 .. level /\ \A l \in others : LevelOf(l) <= top
      /\ top > 0 => (\E l \in others : LevelOf(l) = top) /\ e.reason = c
  <2>1. CASE others = {}  BY <1>1, <2>1
  <2>2. CASE others # {}
    <3>1. others \subseteq FalseLits  OBVIOUS
    <3> HIDE DEF others
    <3>2. /\ HighestLevel(others) \in 0 .. Level
          /\ \E l \in others : LevelOf(l) = HighestLevel(others)
          /\ \A l \in others : LevelOf(l) <= HighestLevel(others)
      BY <1>1, <2>2, <3>1, HighestIs
    <3>3. top = HighestLevel(others)  BY <2>2 DEF others
    <3>4. HighestLevel(others) <= level  BY <3>2 DEF others
    <3>5. top > 0 => e.reason = c  BY <2>2 DEF others
    <3>6. top \in 0 .. level
      <4> HIDE DEF top
      <4> QED  BY <1>1, <3>2, <3>3, <3>4
    <3> HIDE DEF top
    <3> QED  BY <3>2, <3>3, <3>5, <3>6
  <2> QED  BY <2>1, <2>2
<1>7. e.level = top  OBVIOUS
<1> HIDE DEF top
<1>8. TrailOK(Kept(level) \o <<e>>, SubSeq(trailLim, 1, level), Models, solver)
  BY <1>1, <1>3, <1>5, <1>6, <1>7, UnitAfter
<1>9. TrailOK(Kept(level) \o u, SubSeq(trailLim, 1, level), Models, solver)  BY <1>8
<1>10. \A d \in new :
           /\ d \in AnyClause /\ d.lits \in Clauses /\ \A a \in Models : d.lits \cap a # {}
           /\ order'[d] \in Literal \X Literal /\ order'[d][1] # order'[d][2]
           /\ order'[d][1] \in d.lits /\ order'[d][2] \in d.lits
           /\ WatchesOK(trail', trailLim', qhead', level + 1, d.lits, order'[d], Strong)
  <2> SUFFICES ASSUME c \in new
               PROVE  /\ order'[c][1] \in c.lits /\ order'[c][2] \in c.lits
                      /\ WatchesOK(trail', trailLim', qhead', level + 1, c.lits, order'[c], Strong)
    BY <1>3
  <2>1. PICK second \in c.lits \ {lit} :
          {order'[c][1], order'[c][2]} = {lit, second} /\ e.level = LevelOf(second)
    OBVIOUS
  <2> DEFINE w == order'[c]
  <2> HIDE DEF w
  <2>2. {w[1], w[2]} = {lit, second} /\ second \in c.lits  BY <2>1 DEF w
  <2>3. w[1] \in c.lits /\ w[2] \in c.lits
    <3>1. w[1] \in {lit, second} /\ w[2] \in {lit, second}  BY <2>2
    <3> QED  BY <2>2, <3>1
  <2>4. WatchesOK(Kept(level) \o <<e>>, SubSeq(trailLim, 1, level), trailLim[level + 1], level + 1,
                  c.lits, w, Strong)
    <3> DEFINE x == Kept(level) \o <<e>>
    <3> HIDE DEF x
    <3>1. x = Kept(level) \o <<e>>  BY DEF x
    <3>2. second \in c.lits /\ level \in 0 .. Level  BY <2>1
    <3>3. WatchesOK(x, SubSeq(trailLim, 1, level), trailLim[level + 1], level + 1, c.lits, w, Strong)
      <4>1. e \in Entries /\ e.lit = lit /\ e.level = LevelOf(second) /\ lit \in c.lits
            /\ c.lits \subseteq FalseLits /\ LevelOf(lit) > level /\ level # Level
        BY <2>1
      <4> QED  BY ONLY <1>1, <1>5, <2>2, <3>1, <3>2, <4>1, UnitWatches
    <3> QED  BY <3>1, <3>3
  <2> QED  BY <1>4, <2>3, <2>4 DEF w
<1>11. \A i \in DOMAIN trail :
           trail[i].level > 0 /\ trail[i].level <= level /\ trail[i].reason # NoReason =>
             /\ trail[i].reason \notin new
             /\ trail[i].reason \in DOMAIN order => trail[i].reason \in DOMAIN order'
  BY <1>1, ReasonTrue
<1>12. \A j \in DOMAIN u : u[j].level > 0 =>
           /\ u[j].reason \in DOMAIN order'
           /\ solver # "Kissat" /\ ~Binary(u[j].reason) => order'[u[j].reason][1] = u[j].lit
  BY <1>2, <1>6, <1>7
<1>13. new \in SUBSET DOMAIN order' /\ visiting' = {}
       /\ \A d \in DOMAIN order : d \notin DOMAIN order' => d.learnt
  BY <1>1
<1>14. level \in 0 .. Level  OBVIOUS
<1> HIDE DEF u
<1> QED
  BY <1>2, <1>4, <1>5, <1>9, <1>10, <1>11, <1>12, <1>13, <1>14, BackAssign

\* What stays on the trail is false after going back as before.
LEMMA StaysFalse ==
  ASSUME TrailInv, TrailInv', NEW level \in 0 .. Level,
         \A p \in DOMAIN trail : trail[p].level <= level => \E i \in DOMAIN trail' : trail'[i] = trail[p],
         NEW l \in FalseLits, LevelOf(l) <= level
  PROVE  /\ l \in FalseLits'
         /\ \E i \in DOMAIN trail' : trail'[i].lit = -l /\ trail'[i].level = LevelOf(l)
<1>1. PICK p \in DOMAIN trail : trail[p].lit = -l /\ trail[p].level = LevelOf(l) /\ -trail[p].lit = l
  BY FalseEntry
<1>2. PICK i \in DOMAIN trail' : trail'[i] = trail[p]  BY <1>1
<1>3. l \in FalseLits'  BY <1>1, <1>2 DEF FalseLits, Complement, TrueLits
<1> QED  BY <1>1, <1>2, <1>3

\* The conflict is analyzed on its highest level.
LEMMA ConflictLevelStep ==
  ASSUME Parts, TypeOK, solver = "Kissat", pc = "conflict",
         NEW level \in 1 .. Level, level = HighestLevel(conflict.lits),
         NEW watched \in HighestPairs(conflict), order' = Attached(conflict, watched),
         Cardinality(OnLevel(conflict.lits, level)) > 1,
         Backtrack(level, << >>),
         analyzed' = NonRoot(conflict.lits),
         pc' = IF level = 1 THEN "failed" ELSE "analyze",
         UNCHANGED <<conflict, solver, formula, loaded, visiting, caller, counters>>
  PROVE  IInv'
<1> USE DEF counters
<1> DEFINE u == << >>  lits == conflict.lits
<1>1. TrailInv /\ visiting = {} /\ Level \in Nat /\ level \in 0 .. Level /\ level \in Nat
      /\ PropagateInv /\ qhead \in 0 .. Len(trail) /\ Analyzing /\ loaded = Len(formula)
      /\ TrailOK(trail, trailLim, Models, solver) /\ level \in 0 .. Len(trailLim)
  BY TrailTypes DEF Parts, ControlInv, Analyzing, TypeOK, TrailInv, Level
<1>2. /\ conflict \in DOMAIN order /\ lits \in SUBSET Literal /\ lits \in Clauses
      /\ lits \subseteq FalseLits /\ lits # {} /\ \A a \in Models : lits \cap a # {}
      /\ conflict \in AnyClause
  BY <1>1, ConflictFacts
<1>3. \A l \in lits : LevelOf(l) <= level /\ LevelOf(l) \in Nat  BY <1>1, <1>2, HighestIs, FalseEntry
<1>4. u \in Seq(Entries) /\ Kept(level) \o u = Kept(level) /\ Kept(level) \in Seq(Entries)
  <2>1. PICK m : Retains(Kept(level), trail, trailLim, level, m)  BY <1>1, KeptRetains
  <2>2. Kept(level) \in Seq(Entries)  BY <2>1 DEF Retains
  <2> QED  BY <2>2, Nothing
<1>5. /\ \E m : Retains(Kept(level), trail, trailLim, level, m)
      /\ trail' = Kept(level) \o u
      /\ trailLim' = SubSeq(trailLim, 1, level)
      /\ qhead' = IF level = Level THEN qhead ELSE trailLim[level + 1]
  <2> HIDE DEF u
  <2>1. Backtrack(level, u)  BY DEF u
  <2> QED  BY <1>1, <1>4, <2>1, BacktrackFacts
<1>6. PICK m : Retains(Kept(level), trail, trailLim, level, m)  BY <1>5
<1>7. DOMAIN u = {}  OBVIOUS
<1> HIDE DEF u
<1>8. TrailOK(Kept(level) \o u, SubSeq(trailLim, 1, level), Models, solver)
  BY <1>1, <1>4, <1>6, TrailCut
<1>9. /\ Level' = level
      /\ TrailInv' /\ PropagateInv'
      /\ trail' \in Seq(Entries) /\ qhead' \in 0 .. Len(trail')
      /\ \A input, clauses : Remains(input, trail, clauses) => Remains(input, trail', clauses)
      /\ \A ls, pair, strong : \A top \in Nat, now \in 0 .. level + 1 :
           WatchesOK(trail, trailLim, qhead, top, ls, pair, strong) /\ now <= top
           => WatchesOK(trail', trailLim', qhead', now, ls, pair, strong)
      /\ \A i \in DOMAIN trail' :
           \/ \E p \in DOMAIN trail : trail'[i] = trail[p] /\ trail[p].level <= level
           \/ \E j \in DOMAIN u : trail'[i] = u[j]
  <2>1. visiting' = {}  BY <1>1
  <2> QED  BY ONLY <1>1, <1>4, <1>5, <1>6, <1>8, <2>1, UNCHANGED <<solver, formula>>, BackStep
<1>10. \A p \in DOMAIN trail : trail[p].level <= level => \E i \in DOMAIN trail' : trail'[i] = trail[p]
  <2>1. \A p \in DOMAIN trail : trail[p].level <= level => \E i \in DOMAIN Kept(level) : Kept(level)[i] = trail[p]
    BY <1>1, <1>6, CutFacts
  <2> QED  BY <1>4, <1>5, <2>1
<1>11. \A l \in lits : /\ l \in FalseLits'
                       /\ \E i \in DOMAIN trail' : trail'[i].lit = -l /\ trail'[i].level = LevelOf(l)
  BY <1>1, <1>2, <1>3, <1>9, <1>10, StaysFalse
<1>12. pc' \in {"analyze", "failed"} /\ (pc' = "failed" => level = 1) /\ Analyzing'
  BY DEF Analyzing
<1>13. PICK a \in lits, b \in lits :
           /\ a # b /\ watched \in Literal \X Literal /\ watched[1] # watched[2]
           /\ {watched[1], watched[2]} = {a, b}
           /\ \A l \in lits \ {a, b} : LevelOf(l) <= LevelOf(a) /\ LevelOf(l) <= LevelOf(b)
  BY <1>2, HighestPairsAre
<1>14. LevelOf(a) = level /\ LevelOf(b) = level
  <2>1. OnLevel(lits, level) \in SUBSET Literal  BY <1>2 DEF OnLevel
  <2>2. PICK x \in OnLevel(lits, level), y \in OnLevel(lits, level) : x # y  BY <2>1, Two
  <2>3. LevelOf(x) = level /\ LevelOf(y) = level /\ x \in lits /\ y \in lits
    BY <2>2 DEF OnLevel
  <2>4. ASSUME LevelOf(a) # level PROVE FALSE
    <3>1. x # a /\ y # a /\ (x # b \/ y # b)  BY <2>2, <2>3, <2>4
    <3>2. \E z \in lits \ {a, b} : LevelOf(z) = level  BY <2>3, <3>1
    <3> QED  BY <1>1, <1>3, <1>13, <2>4, <3>2
  <2>5. ASSUME LevelOf(b) # level PROVE FALSE
    <3>1. x # b /\ y # b /\ (x # a \/ y # a)  BY <2>2, <2>3, <2>5
    <3>2. \E z \in lits \ {a, b} : LevelOf(z) = level  BY <2>3, <3>1
    <3> QED  BY <1>1, <1>3, <1>13, <2>5, <3>2
  <2> QED  BY <2>4, <2>5
<1>15. watched[1] \in {a, b} /\ watched[2] \in {a, b}  BY <1>13
<1>16. /\ DOMAIN order' = DOMAIN order /\ order'[conflict] = watched
       /\ \A d \in DOMAIN order : d # conflict => order'[d] = order[d]
  BY <1>2 DEF Attached
<1>17. TypeOK'
  <2>1. trail' \in Seq([lit : Literal, level : Nat, reason : AnyClause])
    BY <1>9 DEF Entries
  <2>2. trailLim' \in Seq(Nat)
    <3>1. trailLim \in Seq(Nat)  BY <1>1, TrailTypes
    <3>2. SubSeq(trailLim, 1, level) \in Seq(Nat)
      <4>1. level \in 0 .. Len(trailLim)  BY <1>1
      <4> QED  BY ONLY <3>1, <4>1
    <3> QED  BY <1>5, <3>2
  <2>3. \A d \in DOMAIN order' : d \in AnyClause /\ order'[d] \in Literal \X Literal
    BY <1>13, <1>16 DEF TypeOK
  <2>4. analyzed' \subseteq Literal  BY <1>2 DEF NonRoot
  <2>5. pc' \in {"load", "top", "import", "propagate", "conflict", "analyze", "failed",
             "decide", "stamp", "simplified", "reduce", "reduced", "sat", "unsat",
             "stopped"}
    BY <1>12
  <2>6. visiting' \subseteq DOMAIN order'  BY <1>1
  <2> QED  BY <1>9, <2>1, <2>2, <2>3, <2>4, <2>5, <2>6 DEF TypeOK
<1>18. AnswersAreRight'  BY <1>12 DEF AnswersAreRight
<1>19. ControlInv'  BY <1>1, <1>12 DEF ControlInv
<1>20. ClauseInv'
  <2>1. ClauseInv  BY DEF Parts
  <2>2. watched[1] \in lits /\ watched[2] \in lits  BY <1>15
  <2> QED  BY <1>13, <1>16, <2>1, <2>2, SameModels DEF ClauseInv
<1>21. FormulaInv'
  <2> SUFFICES ASSUME NEW i \in 1 .. loaded
               PROVE  Remains(formula[i], trail', DOMAIN order)
    BY <1>16 DEF FormulaInv
  <2> QED  BY <1>9 DEF Parts, FormulaInv
<1>22. PresentInv'
  <2> SUFFICES ASSUME NEW i \in DOMAIN trail', trail'[i].level > 0, trail'[i].reason # NoReason
               PROVE  Present(i)'
    BY DEF PresentInv
  <2>1. PICK p \in DOMAIN trail : trail'[i] = trail[p] /\ trail[p].level <= level  BY <1>7, <1>9
  <2>2. CASE trail[p].reason \in DOMAIN order  BY <1>16, <2>1, <2>2 DEF Present
  <2>3. CASE trail[p].level = Level /\ level = Level /\ i # p
    <3>1. trail' = trail  BY <1>1, <1>4, <1>5, <2>3, KeptAll
    <3>2. FALSE  BY <1>1, <2>1, <2>3, <3>1, TrailTypes DEF TrailInv, TrailOK, Distinct
    <3> QED  BY <3>2
  <2>4. CASE trail[p].reason \notin DOMAIN order /\ ~(trail[p].level = Level /\ level = Level /\ i # p)
    <3>1. trail[p].level = Level /\ ~LookedAt(p)  BY <1>1, <2>1, <2>4 DEF Parts, PresentInv, Present
    <3>2. level = Level  BY <1>1, <2>1, <3>1
    <3>3. trail' = trail  BY <1>1, <1>4, <1>5, <3>2, KeptAll
    <3>4. i = p  BY <2>4, <3>1, <3>2
    <3>5. ~(LookedAt(p)')
      <4>1. analyzed' \subseteq conflict.lits /\ conflict' = conflict  BY DEF NonRoot
      <4> QED  BY <1>1, <1>12, <3>1, <3>3, <4>1 DEF LookedAt
    <3> QED  BY <1>9, <1>12, <2>1, <3>1, <3>2, <3>4, <3>5 DEF Present
  <2> QED  BY <2>2, <2>3, <2>4
<1>23. WatchInv'
  <2> SUFFICES ASSUME NEW d \in DOMAIN order
               PROVE  WatchesOK(trail', trailLim', qhead', level, d.lits, order'[d], Strong)
    BY <1>1, <1>9, <1>12, <1>16 DEF WatchInv, Strong
  <2>1. CASE d # conflict
    <3>1. WatchesOK(trail, trailLim, qhead, Level, d.lits, order[d], Strong)
      BY <1>1, <2>1 DEF Parts, WatchInv
    <3>2. level \in 0 .. level + 1 /\ level <= Level  BY <1>1
    <3> QED  BY <1>1, <1>9, <1>16, <2>1, <3>1, <3>2
  <2>2. CASE d = conflict
    <3> SUFFICES ASSUME NEW j \in 1 .. level
                 PROVE  WatchesSee(trail', j, FalseIn(trail', Limit(trail', trailLim', j, qhead')),
                                   lits, watched, Strong)
      BY <1>16, <2>2 DEF WatchesOK
    <3>1. /\ j \in DOMAIN trailLim /\ trailLim[j] \in Nat /\ trailLim[j] < Len(trail)
          /\ j \in DOMAIN trailLim' /\ trailLim'[j] = trailLim[j]
      <4>1. trailLim \in Seq(Nat) /\ Limits(trail, trailLim)
        BY <1>1, TrailTypes DEF TrailInv, TrailOK
      <4>2. j \in DOMAIN trailLim  BY <1>1, <4>1
      <4>3. trailLim[j] < Len(trail)  BY <4>1, <4>2 DEF Limits
      <4>4. trailLim[j] \in Nat  BY <4>1, <4>2
      <4>5. j \in DOMAIN trailLim' /\ trailLim'[j] = trailLim[j]  BY <1>1, <1>5, <4>1, <4>2
      <4> QED  BY <4>2, <4>3, <4>4, <4>5
    <3>2. FalseIn(trail', trailLim[j]) = FalseIn(trail, trailLim[j])
      <4>1. \A n \in 0 .. Limit(trail, trailLim, level + 1, Len(trail)) :
              FalseIn(Kept(level), n) = FalseIn(trail, n)
        BY <1>1, <1>6, CutFacts
      <4>2. trailLim[j] \in 0 .. Limit(trail, trailLim, level + 1, Len(trail))
        <5>1. CASE level + 1 \notin DOMAIN trailLim
          <6>1. Len(trail) \in Nat  BY <1>1, TrailTypes
          <6> QED  BY <3>1, <5>1, <6>1 DEF Limit
        <5>2. CASE level + 1 \in DOMAIN trailLim
          <6>1. trailLim \in Seq(Nat) /\ Limits(trail, trailLim)
            BY <1>1, TrailTypes DEF TrailInv, TrailOK
          <6>2. j \in 1 .. (level + 1) - 1  BY <1>1
          <6>3. trailLim[j] < trailLim[level + 1]  BY <5>2, <6>1, <6>2 DEF Limits
          <6>4. trailLim[level + 1] \in Nat  BY <5>2, <6>1
          <6> QED  BY <3>1, <5>2, <6>3, <6>4 DEF Limit
        <5> QED  BY <5>1, <5>2
      <4> QED  BY <1>4, <1>5, <4>1, <4>2
    <3>3. Limit(trail', trailLim', j, qhead') = trailLim[j]  BY <3>1 DEF Limit
    <3>4. a \notin FalseIn(trail, trailLim[j]) /\ b \notin FalseIn(trail, trailLim[j])
      <4>1. j <= LevelOf(a) /\ j <= LevelOf(b)  BY <1>14
      <4> QED  BY <1>1, <3>1, <4>1, LevelOpens
    <3> QED  BY <1>15, <3>2, <3>3, <3>4 DEF WatchesSee
  <2> QED  BY <2>1, <2>2
<1>24. AnalysisInv'
  <2>1. analyzed' # {}
    <3>1. a \in NonRoot(lits)  BY <1>14 DEF NonRoot, Root
    <3> QED  BY <3>1
  <2>2. \A l \in analyzed' : \E i \in DOMAIN trail' : trail'[i].lit = -l /\ trail'[i].level > 0
    <3>1. \A l \in analyzed' : l \in lits /\ LevelOf(l) > 0  BY <1>3 DEF NonRoot, Root
    <3> QED  BY <1>11, <3>1
  <2>3. \A x \in Models' : analyzed' \cap x # {}
    <3> DEFINE high == {l \in lits : LevelOf(l) > 0}
    <3>1. high \subseteq analyzed'  BY DEF NonRoot, Root
    <3> HIDE DEF high
    <3>2. high = {l \in lits : LevelOf(l) > 0}  BY DEF high
    <3>3. \A x \in Models : high \cap x # {}  BY ONLY <1>1, <1>2, <3>2, FalseClause
    <3> QED  BY <3>1, <3>3, SameModels
  <2>4. conflict' \in DOMAIN order' /\ conflict'.lits \subseteq FalseLits'
    BY <1>2, <1>11, <1>16
  <2> QED  BY <1>1, <1>9, <1>12, <2>1, <2>2, <2>3, <2>4 DEF AnalysisInv
<1> QED
  BY <1>9, <1>17, <1>18, <1>19, <1>20, <1>21, <1>22, <1>23, <1>24 DEF IInv, Parts

\* The level of the conflict is found: the search goes back to it, and a conflict with
\* one literal there is a unit instead.
LEMMA FindConflictLevelInv ==
  ASSUME IInv, solver = "Kissat", FindConflictLevel
  PROVE  IInv'
<1> DEFINE level == HighestLevel(conflict.lits)  highest == OnLevel(conflict.lits, level)
<1>0. /\ pc = "conflict"
      /\ \/ /\ level = 0
            /\ conflict' = NoReason
            /\ pc' = "unsat"
            /\ UNCHANGED <<order, trailVars, analyzed>>
         \/ /\ level > 0
            /\ \E watched \in HighestPairs(conflict) : order' = Attached(conflict, watched)
            /\ \/ \E lit \in highest :
                    /\ highest = {lit}
                    /\ Backtrack(level - 1, <<Forced(lit, conflict)>>)
                    /\ conflict' = NoReason
                    /\ pc' = "top"
                    /\ UNCHANGED analyzed
               \/ /\ Cardinality(highest) > 1
                  /\ Backtrack(level, << >>)
                  /\ analyzed' = NonRoot(conflict.lits)
                  /\ pc' = IF level = 1 THEN "failed" ELSE "analyze"
                  /\ UNCHANGED conflict
      /\ UNCHANGED <<solver, formula, loaded, visiting, caller, counters>>
  BY DEF FindConflictLevel
<1>1. Parts /\ TypeOK /\ TrailInv /\ Analyzing /\ Level \in Nat
  BY <1>0, TrailTypes DEF IInv, Parts, Analyzing
<1> DEFINE lits == conflict.lits
<1>2. /\ conflict \in DOMAIN order /\ lits \in SUBSET Literal /\ lits \in Clauses
      /\ lits \subseteq FalseLits /\ lits # {} /\ \A a \in Models : lits \cap a # {}
      /\ conflict \in AnyClause
  BY <1>1, ConflictFacts
<1>3. /\ level \in 0 .. Level /\ highest # {} /\ \A l \in lits : LevelOf(l) <= level
      /\ \A l \in lits : LevelOf(l) \in Nat
  BY <1>1, <1>2, HighestIs, FalseEntry
<1>4. NoReason \in AnyClause  BY DEF NoReason, AnyClause
<1>5. ASSUME level = 0, conflict' = NoReason, pc' = "unsat",
             UNCHANGED <<order, trailVars, analyzed>>
      PROVE  IInv'
  <2>1. Models = {}
    <3> DEFINE high == {l \in lits : LevelOf(l) > 0}
    <3>1. high = {}  BY <1>3, <1>5
    <3> HIDE DEF high
    <3>2. high = {l \in lits : LevelOf(l) > 0}  BY DEF high
    <3>3. \A x \in Models : high \cap x # {}  BY ONLY <1>1, <1>2, <3>2, FalseClause
    <3> QED  BY <3>1, <3>3
  <2>2. AnswersAreRight'  BY <1>0, <1>5, <2>1, SameModels DEF AnswersAreRight
  <2>3. TypeOK'  BY <1>0, <1>1, <1>4, <1>5 DEF TypeOK, trailVars, counters
  <2> QED  BY <1>5, <2>2, <2>3 DEF IInv
<1>6. ASSUME level > 0, NEW watched \in HighestPairs(conflict), order' = Attached(conflict, watched),
             NEW lit \in highest, highest = {lit},
             Backtrack(level - 1, <<Forced(lit, conflict)>>),
             conflict' = NoReason, pc' = "top", UNCHANGED analyzed
      PROVE  IInv'
  <2> DEFINE e == Forced(lit, conflict)
  <2>1. lit \in lits /\ LevelOf(lit) = level /\ \A l \in lits : LevelOf(l) = level => l = lit
    BY <1>6 DEF OnLevel
  <2>2. PICK a \in lits, b \in lits :
           /\ a # b /\ watched \in Literal \X Literal /\ watched[1] # watched[2]
           /\ {watched[1], watched[2]} = {a, b}
           /\ \A l \in lits \ {a, b} : LevelOf(l) <= LevelOf(a) /\ LevelOf(l) <= LevelOf(b)
    BY <1>2, HighestPairsAre
  <2> HIDE DEF level, highest
  <2>3. lit \in {a, b}
    <3> SUFFICES ASSUME lit \notin {a, b} PROVE FALSE  OBVIOUS
    <3>1. LevelOf(a) = level  BY <1>3, <2>1, <2>2
    <3> QED  BY <2>1, <2>2, <3>1
  <2>4. PICK second \in lits \ {lit} :
          /\ {watched[1], watched[2]} = {lit, second}
          /\ \A l \in lits \ {lit} : LevelOf(l) <= LevelOf(second)
    <3>1. CASE lit = a
      <4>1. \A l \in lits \ {a} : LevelOf(l) <= LevelOf(b)  BY <1>3, <2>2
      <4> QED  BY <2>2, <3>1, <4>1
    <3>2. CASE lit = b
      <4>1. \A l \in lits \ {b} : LevelOf(l) <= LevelOf(a)  BY <1>3, <2>2
      <4>2. {watched[1], watched[2]} = {b, a}  BY <2>2
      <4> QED  BY <2>2, <3>2, <4>1, <4>2
    <3> QED  BY <2>3, <3>1, <3>2
  <2>5. lits \ {lit} # {} /\ lits \ {lit} \subseteq FalseLits  BY <1>2, <2>4
  <2>6. LevelOf(second) = HighestLevel(lits \ {lit})
    <3> DEFINE others == lits \ {lit}
    <3>1. second \in others /\ \A l \in others : LevelOf(l) <= LevelOf(second) /\ LevelOf(l) \in Nat
      BY <1>3, <2>4
    <3>2. others \subseteq FalseLits /\ others # {}  BY <2>5
    <3> HIDE DEF others
    <3>3. /\ \E l \in others : LevelOf(l) = HighestLevel(others)
          /\ \A l \in others : LevelOf(l) <= HighestLevel(others)
      BY <1>1, <3>2, HighestIs
    <3>4. PICK l \in others : LevelOf(l) = HighestLevel(others)  BY <3>3
    <3>5. LevelOf(second) <= LevelOf(l) /\ LevelOf(l) <= LevelOf(second)  BY <3>1, <3>3, <3>4
    <3>6. LevelOf(second) = LevelOf(l)  BY <3>1, <3>5
    <3> QED  BY <3>4, <3>6 DEF others
  <2>7. /\ e \in Entries /\ e.lit = lit /\ e.level = HighestLevel(lits \ {lit})
        /\ e.level > 0 => e.reason = conflict
    BY <1>1, <1>2, <2>1, <2>5, ForcedIs
  <2> HIDE DEF e
  <2>8. level - 1 \in 0 .. Level /\ level - 1 # Level /\ LevelOf(lit) > level - 1
        /\ \A l \in lits \ {lit} : LevelOf(l) <= level - 1
    <3>1. \A l \in lits \ {lit} : LevelOf(l) <= level /\ LevelOf(l) # level /\ LevelOf(l) \in Nat
      BY <1>3, <2>1 DEF level
    <3> QED  BY <1>1, <1>3, <1>6, <2>1, <3>1 DEF level
  <2>9. Backtrack(level - 1, <<e>>)  BY <1>6 DEF e
  <2>10. /\ DOMAIN order' = DOMAIN order /\ order'[conflict] = watched
         /\ \A d \in DOMAIN order : d # conflict => order'[d] = order[d]
    BY <1>2, <1>6 DEF Attached
  <2>11. /\ UNCHANGED <<solver, formula, loaded, visiting, caller, imports, reductions>>
         /\ conflict' \in AnyClause /\ analyzed' \subseteq Literal /\ conflicted' \in BOOLEAN
         /\ pc' = "top"
    BY <1>0, <1>1, <1>4, <1>6 DEF TypeOK, counters
  <2> DEFINE new == {conflict}  low == level - 1
  <2>12. ClauseAdded(conflict, lit, e, new)
    <3>1. new \in SUBSET {conflict} /\ new \subseteq DOMAIN order' /\ conflict \in DOMAIN order'
      BY <1>2, <2>10
    <3>2. /\ order'[conflict] \in Literal \X Literal /\ order'[conflict][1] # order'[conflict][2]
          /\ {order'[conflict][1], order'[conflict][2]} = {lit, second} /\ e.level = LevelOf(second)
      BY <2>2, <2>4, <2>6, <2>7, <2>10
    <3>3. \A d \in DOMAIN order' : d \notin new => d \in DOMAIN order /\ order'[d] = order[d]
      BY <2>10
    <3>4. \A d \in DOMAIN order : d \in DOMAIN order'  BY <2>10
    <3> QED  BY <3>1, <3>2, <3>3, <3>4 DEF ClauseAdded
  <2>13. UnitForced(low, conflict, lit, e)
    <3>1. /\ low \in 0 .. Level /\ low # Level /\ LevelOf(lit) > low
          /\ \A l \in lits \ {lit} : LevelOf(l) <= low
          /\ Backtrack(low, <<e>>)
      BY <2>8, <2>9
    <3> HIDE DEF low
    <3> QED  BY <1>2, <2>1, <2>5, <2>7, <3>1 DEF UnitForced
  <2> HIDE DEF new, low
  <2> QED
    BY <1>1, <2>11, <2>12, <2>13, KissatUnit
<1>7. ASSUME level > 0, NEW watched \in HighestPairs(conflict), order' = Attached(conflict, watched),
             Cardinality(highest) > 1, Backtrack(level, << >>),
             analyzed' = NonRoot(conflict.lits),
             pc' = IF level = 1 THEN "failed" ELSE "analyze", UNCHANGED conflict
      PROVE  IInv'
  <2>1. level \in 1 .. Level  BY <1>1, <1>3, <1>7
  <2> HIDE DEF level
  <2>2. level = HighestLevel(conflict.lits)  BY DEF level
  <2> QED  BY <1>0, <1>1, <1>7, <2>1, <2>2, ConflictLevelStep
<1> HIDE DEF level, highest
<1> QED  BY <1>0, <1>5, <1>6, <1>7

\* The latest of false literals has the last position of theirs on the trail.
LEMMA LatestIs ==
  ASSUME TrailInv, NEW lits, lits \subseteq FalseLits, lits # {}
  PROVE  /\ Latest(lits) \in lits
         /\ \E i \in DOMAIN trail :
              /\ trail[i].lit = -Latest(lits) /\ -trail[i].lit = Latest(lits)
              /\ trail[i].level = LevelOf(Latest(lits)) /\ trail[i] = Entry(Latest(lits))
              /\ \A j \in DOMAIN trail : -trail[j].lit \in lits => j <= i
<1> DEFINE Position(l) == CHOOSE i \in DOMAIN trail : trail[i].lit \in {l, -l}
           P(l) == \A k \in lits : Position(k) <= Position(l)
           S == {Position(l) : l \in lits}
<1>1. DOMAIN trail = 1 .. Len(trail) /\ Len(trail) \in Nat  BY TrailTypes
<1>2. ASSUME NEW i \in DOMAIN trail, -trail[i].lit \in lits
      PROVE  Position(-trail[i].lit) = i
  <2> DEFINE l == -trail[i].lit
  <2>1. trail[i].lit \in Literal /\ \A j \in DOMAIN trail : trail[j].lit \in Literal  BY TrailTypes
  <2>2. \A j \in DOMAIN trail : trail[j].lit \in {l, -l} <=> j = i
    BY <2>1, Literals DEF TrailInv, TrailOK, Distinct
  <2> QED  BY <2>2
<1>3. \A l \in lits : \E i \in DOMAIN trail : -trail[i].lit = l /\ Position(l) = i
  BY <1>2, FalseEntry
<1>4. S \in SUBSET (0 .. Len(trail)) /\ S # {}
  <2> HIDE DEF Position
  <2>1. ASSUME NEW l \in lits PROVE Position(l) \in 0 .. Len(trail)
    <3>1. PICK i \in DOMAIN trail : Position(l) = i  BY <1>3
    <3> QED  BY <1>1, <3>1
  <2> QED  BY <2>1
<1> HIDE DEF Position
<1>5. PICK n \in S : \A j \in S : j <= n
  <2> HIDE DEF S
  <2> QED  BY <1>1, <1>4, Greatest
<1>6. \E l \in lits : P(l)  BY <1>5
<1>7. Latest(lits) = CHOOSE l \in lits : P(l)  BY DEF Latest, Position
<1> HIDE DEF P
<1>8. Latest(lits) \in lits /\ P(Latest(lits))  BY <1>6, <1>7
<1>9. PICK i \in DOMAIN trail : -trail[i].lit = Latest(lits) /\ Position(Latest(lits)) = i
  BY <1>3, <1>8
<1>10. \A j \in DOMAIN trail : -trail[j].lit \in lits => j <= i  BY <1>2, <1>8, <1>9 DEF P
<1>11. trail[i].lit = -Latest(lits)  BY <1>9, TrailTypes, Literals
<1>12. Entry(Latest(lits)) = trail[i] /\ LevelOf(Latest(lits)) = trail[i].level
  BY <1>9, EntryIs
<1> QED  BY <1>8, <1>9, <1>10, <1>11, <1>12

\* Resolving a literal away: the resolvent follows from the formula, its new literals are
\* earlier on the trail and of no higher level.
LEMMA ResolventIs ==
  ASSUME TrailInv, NEW before, before \subseteq FalseLits,
         \A l \in before : LevelOf(l) > 0,
         \A a \in Models : before \cap a # {},
         NEW i \in DOMAIN trail, -trail[i].lit \in before, trail[i].reason # NoReason
  PROVE  /\ Because(-trail[i].lit) =
              {l \in trail[i].reason.lits \ {trail[i].lit} : LevelOf(l) > 0}
         /\ \A l \in Because(-trail[i].lit) :
              /\ l \in FalseLits /\ LevelOf(l) > 0 /\ LevelOf(l) <= trail[i].level
              /\ \A j \in DOMAIN trail : trail[j].lit = -l => j < i
         /\ Resolvent(before, -trail[i].lit) \subseteq FalseLits
         /\ \A l \in Resolvent(before, -trail[i].lit) : LevelOf(l) > 0
         /\ \A a \in Models : Resolvent(before, -trail[i].lit) \cap a # {}
<1> DEFINE lit == -trail[i].lit  c == trail[i].reason
<1>1. trail[i].lit \in Literal /\ -lit = trail[i].lit /\ Entry(lit) = trail[i] /\ LevelOf(lit) = trail[i].level
  BY TrailTypes, EntryIs, Literals
<1>2. trail[i].level > 0  BY <1>1
<1>3. /\ \A a \in Models : c.lits \cap a # {}
      /\ \A l \in c.lits \ {-lit} :
           /\ l \in Literal /\ l \in FalseLits /\ LevelOf(l) <= trail[i].level
           /\ \E j \in 1 .. i - 1 : j \in DOMAIN trail /\ trail[j].lit = -l
  BY <1>1, <1>2, ReasonFacts
<1>4. \A l \in c.lits \ {-lit} : LevelOf(l) \in Nat  BY <1>3, FalseEntry
<1>5. Because(lit) = {l \in c.lits \ {-lit} : LevelOf(l) > 0}
  <2>1. Because(lit) = {l \in c.lits \ {-lit} : ~(LevelOf(l) = 0)}
    BY <1>1 DEF Because, NonRoot, Root
  <2> QED  BY <1>4, <2>1
<1> HIDE DEF lit, c
<1>6. ASSUME NEW l \in Because(lit)
      PROVE  /\ l \in FalseLits /\ LevelOf(l) > 0 /\ LevelOf(l) <= trail[i].level
             /\ \A j \in DOMAIN trail : trail[j].lit = -l => j < i
  <2>1. l \in c.lits \ {-lit} /\ LevelOf(l) > 0  BY <1>5
  <2>2. PICK j \in 1 .. i - 1 : j \in DOMAIN trail /\ trail[j].lit = -l  BY <1>3, <2>1
  <2>3. \A n \in DOMAIN trail : trail[n].lit = -l => n = j
    BY <2>2 DEF TrailInv, TrailOK, Distinct
  <2>4. i \in Nat  BY TrailTypes
  <2>5. j < i  BY <2>2, <2>4
  <2> QED  BY <1>3, <2>1, <2>3, <2>5
<1>7. ASSUME NEW a \in Models PROVE Resolvent(before, lit) \cap a # {}
  <2>1. PICK x \in before : x \in a  OBVIOUS
  <2>2. CASE x # lit  BY <2>1, <2>2 DEF Resolvent
  <2>3. CASE x = lit
    <3>1. lit \in Literal  BY <1>1, Literals DEF lit
    <3>2. -lit \notin a  BY <2>1, <2>3, <3>1, ModelsTypes
    <3>3. PICK l \in c.lits \ {-lit} : l \in a  BY <1>3, <3>2
    <3>4. PICK j \in DOMAIN trail : trail[j].lit = -l /\ trail[j].level = LevelOf(l)
      BY <1>3, <3>3, FalseEntry
    <3>5. trail[j].level # 0
      BY <1>3, <3>3, <3>4, ModelsTypes DEF TrailInv, TrailOK, RootRight
    <3>6. LevelOf(l) > 0  BY <1>4, <3>3, <3>4, <3>5
    <3>7. l \in Because(lit)  BY <1>5, <3>3, <3>6
    <3> QED  BY <3>3, <3>7 DEF Resolvent
  <2> QED  BY <2>2, <2>3
<1>8. Resolvent(before, lit) \subseteq FalseLits /\ \A l \in Resolvent(before, lit) : LevelOf(l) > 0
  BY <1>6 DEF Resolvent
<1> QED  BY <1>1, <1>5, <1>6, <1>7, <1>8 DEF lit, c

\* Of two literals of a level the latest is not the decision.
LEMMA LatestHasReason ==
  ASSUME TrailInv, NEW level \in 1 .. Level, NEW lits, lits \subseteq FalseLits,
         \A l \in lits : LevelOf(l) = level, NEW x \in lits, x # Latest(lits)
  PROVE  \E i \in DOMAIN trail :
           /\ trail[i].lit = -Latest(lits) /\ -trail[i].lit = Latest(lits)
           /\ trail[i].level = level /\ trail[i] = Entry(Latest(lits))
           /\ \A j \in DOMAIN trail : -trail[j].lit \in lits => j <= i
           /\ trail[i].reason # NoReason
<1>1. lits # {}  OBVIOUS
<1>2. PICK i \in DOMAIN trail :
              /\ trail[i].lit = -Latest(lits) /\ -trail[i].lit = Latest(lits)
              /\ trail[i].level = LevelOf(Latest(lits)) /\ trail[i] = Entry(Latest(lits))
              /\ \A j \in DOMAIN trail : -trail[j].lit \in lits => j <= i
  BY <1>1, LatestIs
<1>3. trail[i].level = level  BY <1>1, <1>2, LatestIs
<1>4. PICK p \in DOMAIN trail : trail[p].lit = -x /\ -trail[p].lit = x /\ trail[p].level = level
  BY FalseEntry
<1>5. p <= i /\ p # i  BY <1>2, <1>4
<1>6. /\ level \in Nat /\ Level \in Nat /\ Level = Len(trailLim) /\ trailLim \in Seq(Nat) /\ i \in Nat /\ p \in Nat
      /\ Levels(trail, trailLim) /\ Decisions(trail, trailLim)
  BY TrailTypes DEF Level, TrailInv, TrailOK
<1>7. level \in DOMAIN trailLim /\ trailLim[level] \in Nat
  <2>1. level \in DOMAIN trailLim  BY <1>6
  <2>2. trailLim \in Seq(Nat)  BY <1>6
  <2> QED  BY ONLY <2>1, <2>2
<1>8. ~(p <= trailLim[level])
  <2>1. p <= trailLim[level] => trail[p].level < level  BY <1>6, <1>7 DEF Levels
  <2> QED  BY <1>4, <1>6, <2>1
<1>9. i # trailLim[level] + 1  BY <1>5, <1>6, <1>7, <1>8
<1>10. trail[i].reason # NoReason  BY <1>3, <1>6, <1>9 DEF Decisions
<1> QED  BY <1>2, <1>3, <1>10

\* What is resolved next, and its reason.
LEMMA NextResolvedIs ==
  ASSUME Parts, TypeOK, solver = "Kissat", pc = "analyze", Unresolved
  PROVE  \E i \in DOMAIN trail :
           /\ trail[i].lit = -NextResolved /\ -trail[i].lit = NextResolved
           /\ NextResolved \in analyzed /\ NextResolved \in Literal
           /\ trail[i].level = Level /\ trail[i] = Entry(NextResolved)
           /\ \A j \in DOMAIN trail :
                -trail[j].lit \in analyzed /\ trail[j].level = Level => j <= i
           /\ trail[i].reason # NoReason
           /\ trail[i].reason \in DOMAIN order
           /\ \E x \in analyzed : x # NextResolved /\ LevelOf(x) = Level
<1> DEFINE lits == OnLevel(analyzed, Level)
<1>1. /\ TrailInv /\ Level > 0 /\ analyzed \subseteq FalseLits
      /\ \A l \in analyzed : LevelOf(l) \in 1 .. Level
  BY AnalyzedFalse DEF Parts
<1>2. lits \subseteq FalseLits /\ (\A l \in lits : LevelOf(l) = Level) /\ lits \subseteq analyzed
  BY <1>1 DEF OnLevel
<1>3. NextResolved = Latest(lits)  BY DEF NextResolved
<1>4. lits \in SUBSET Literal  BY <1>1, <1>2, TrailTypes
<1>5. PICK x \in lits, y \in lits : x # y
  <2> HIDE DEF lits
  <2>1. Cardinality(lits) > 1  BY DEF Unresolved, lits
  <2> QED  BY <1>4, <2>1, Two
<1>6. PICK z \in lits : z # Latest(lits)  BY <1>5
<1> HIDE DEF lits
<1>7. PICK i \in DOMAIN trail :
           /\ trail[i].lit = -Latest(lits) /\ -trail[i].lit = Latest(lits)
           /\ trail[i].level = Level /\ trail[i] = Entry(Latest(lits))
           /\ \A j \in DOMAIN trail : -trail[j].lit \in lits => j <= i
           /\ trail[i].reason # NoReason
  <2>1. Level \in 1 .. Level  BY <1>1, TrailTypes
  <2> QED  BY ONLY <1>1, <1>2, <1>6, <2>1, LatestHasReason
<1>8. Latest(lits) \in lits  BY <1>1, <1>2, <1>6, LatestIs
<1>9. ASSUME NEW j \in DOMAIN trail, -trail[j].lit \in analyzed, trail[j].level = Level PROVE j <= i
  <2>1. LevelOf(-trail[j].lit) = Level  BY <1>1, <1>9, EntryIs
  <2> QED  BY <1>7, <1>9, <2>1 DEF lits, OnLevel
<1>10. trail[i].reason \in DOMAIN order
  <2>1. i \in i .. Len(trail)
    <3>1. i \in Nat /\ i <= Len(trail) /\ Len(trail) \in Nat  BY <1>1, TrailTypes
    <3> QED  BY <3>1
  <2>2. LookedAt(i)  BY <1>2, <1>7, <1>8, <2>1 DEF LookedAt
  <2>3. trail[i].level > 0  BY <1>1, <1>7
  <2> QED  BY <1>7, <2>2, <2>3 DEF Parts, PresentInv, Present
<1>11. Latest(lits) \in analyzed /\ Latest(lits) \in Literal /\ z \in analyzed /\ LevelOf(z) = Level
  BY <1>2, <1>4, <1>8
<1> QED  BY <1>3, <1>6, <1>7, <1>9, <1>10, <1>11

\* kissat_deduce_first_uip_clause resolves with the reason of the last literal.
LEMMA DeduceResolveInv ==
  ASSUME IInv, solver = "Kissat", DeduceResolve
  PROVE  IInv'
<1> USE DEF DeduceResolve, clauseVars, trailVars, counters
<1>1. Parts /\ TypeOK /\ TrailInv /\ pc = "analyze" /\ Unresolved  BY DEF IInv, Parts
<1>2. PICK i \in DOMAIN trail :
           /\ trail[i].lit = -NextResolved /\ -trail[i].lit = NextResolved
           /\ NextResolved \in analyzed /\ NextResolved \in Literal
           /\ trail[i].level = Level /\ trail[i] = Entry(NextResolved)
           /\ trail[i].reason # NoReason
           /\ \E x \in analyzed : x # NextResolved /\ LevelOf(x) = Level
  BY <1>1, NextResolvedIs
<1>3. /\ Level > 0 /\ analyzed # {} /\ analyzed \subseteq FalseLits
      /\ \A l \in analyzed : LevelOf(l) \in 1 .. Level
      /\ \A a \in Models : analyzed \cap a # {}
  BY <1>1, AnalyzedFalse
<1>4. \A l \in analyzed : LevelOf(l) > 0  BY <1>3
<1> DEFINE new == Resolvent(analyzed, NextResolved)
<1>5. /\ \A l \in Because(NextResolved) :
           \A j \in DOMAIN trail : trail[j].lit = -l => j < i
      /\ new \subseteq FalseLits
      /\ \A l \in new : LevelOf(l) > 0
      /\ \A a \in Models : new \cap a # {}
  BY <1>1, <1>2, <1>3, <1>4, ResolventIs
<1>6. new # {}  BY <1>2 DEF Resolvent
<1>7. analyzed' = new  OBVIOUS
<1>8. analyzed' \subseteq analyzed \cup Because(NextResolved)  BY DEF Resolvent
<1> HIDE DEF new
<1>9. TypeOK'
  <2>1. analyzed' \subseteq Literal  BY <1>1, <1>5, <1>7, TrailTypes
  <2> QED  BY <1>1, <2>1 DEF TypeOK
<1>10. AnswersAreRight'  BY <1>1 DEF AnswersAreRight
<1>11. AnalysisInv'
  <2>1. \A l \in analyzed' : \E j \in DOMAIN trail : trail[j].lit = -l /\ trail[j].level > 0
    BY <1>1, <1>5, <1>7, FalseEntry
  <2>2. FalseLits' = FalseLits  BY DEF FalseLits, TrueLits, Complement
  <2>3. AnalysisInv  BY <1>1 DEF Parts
  <2> QED  BY <1>1, <1>3, <1>5, <1>6, <1>7, <2>1, <2>2, <2>3, SameModels DEF AnalysisInv, Level, Analyzing
<1>12. PresentInv'
  <2> SUFFICES ASSUME NEW n \in DOMAIN trail, trail[n].level > 0, trail[n].reason # NoReason
               PROVE  Present(n)'
    BY DEF PresentInv
  <2>1. CASE trail[n].reason \in DOMAIN order  BY <2>1 DEF Present
  <2>2. CASE trail[n].reason \notin DOMAIN order
    <3>1. trail[n].level = Level /\ ~LookedAt(n)  BY <1>1, <2>2 DEF Parts, PresentInv, Present
    <3>2. \A j \in n .. Len(trail) : -trail[j].lit \notin conflict.lits \cup analyzed
      BY <1>1, <3>1 DEF LookedAt
    <3>3. i \in Nat /\ n \in Nat /\ i <= Len(trail) /\ Len(trail) \in Nat /\ DOMAIN trail = 1 .. Len(trail)
      BY <1>1, TrailTypes
    <3>4. i < n  BY <1>2, <3>2, <3>3
    <3>5. ASSUME NEW j \in n .. Len(trail), -trail[j].lit \in conflict.lits \cup analyzed' PROVE FALSE
      <4>1. -trail[j].lit \in Because(NextResolved)  BY <1>8, <3>2, <3>5
      <4>2. j \in DOMAIN trail  BY <3>3
      <4>3. trail[j].lit = -(-trail[j].lit)  BY <1>1, <4>2, TrailTypes, Literals
      <4>4. j < i  BY <1>5, <4>1, <4>2, <4>3
      <4> QED  BY <3>3, <3>4, <4>4
    <3>6. ~(LookedAt(n)')  BY <1>1, <3>5 DEF LookedAt
    <3> QED  BY <1>1, <3>1, <3>6 DEF Present, Analyzing, Level
  <2> QED  BY <2>1, <2>2
<1>13. ControlInv' /\ PropagateInv' /\ WatchInv'
  BY <1>1 DEF Parts, ControlInv, PropagateInv, WatchInv, Watching, Level,
     Analyzing, Strong
<1> QED
  BY <1>1, <1>9, <1>10, <1>11, <1>12, <1>13, SameTrail, SameClauses, SameFormula DEF IInv, Parts

-----------------------------------------------------------------------------
(* Strengthening on the fly                                                *)

\* A part of a set of literals that is as large is the whole.
LEMMA SameSize ==
  ASSUME NEW Y \in SUBSET Literal, NEW X \in SUBSET Y, Cardinality(Y) <= Cardinality(X)
  PROVE  X = Y
<1>1. IsFiniteSet(Y) /\ IsFiniteSet(X) /\ X \in SUBSET Literal  BY Two
<1>2. Cardinality(X) <= Cardinality(Y) /\ (Cardinality(X) = Cardinality(Y) => X = Y)
  BY <1>1, FS_Subset
<1>3. Cardinality(X) \in Nat /\ Cardinality(Y) \in Nat  BY <1>1, Two
<1> QED  BY <1>2, <1>3

\* Removing a literal.
LEMMA OneLess ==
  ASSUME NEW Y \in SUBSET Literal, NEW l \in Y
  PROVE  Cardinality(Y \ {l}) = Cardinality(Y) - 1 /\ Cardinality(Y) \in Nat
<1>1. IsFiniteSet(Y)  BY Two
<1> QED  BY <1>1, Two, FS_RemoveElement

\* When the resolvent has fewer literals than the reason, it is the reason without the
\* literal; when it has fewer literals than what was resolved too, it is that without
\* the literal.
LEMMA StrengthensIs ==
  ASSUME Parts, TypeOK, solver = "Kissat", pc = "analyze", NEW i \in DOMAIN trail,
         NEW lit, trail[i].lit = -lit, -trail[i].lit = lit, lit \in analyzed,
         trail[i] = Entry(lit), trail[i].reason # NoReason,
         Strengthens(lit)
  PROVE  /\ Resolvent(analyzed, lit) = Because(lit)
         /\ NonRoot(trail[i].reason.lits) \ {-lit} = Because(lit)
         /\ \E x, y \in Because(lit) : x # y
         /\ Cardinality(Resolvent(analyzed, lit)) < Cardinality(analyzed)
              => Because(lit) = analyzed \ {lit}
<1> DEFINE c == trail[i].reason
<1>1. TrailInv /\ analyzed \subseteq FalseLits /\ (\A l \in analyzed : LevelOf(l) > 0)
      /\ (\A a \in Models : analyzed \cap a # {}) /\ analyzed \in SUBSET Literal
  BY AnalyzedFalse DEF Parts, TypeOK
<1>2. trail[i].level > 0 /\ LevelOf(-lit) = trail[i].level /\ lit \in Literal /\ -lit \in Literal
      /\ trail[i].level \in Nat
  <2>1. LevelOf(lit) = trail[i].level  BY <1>1, EntryIs
  <2>2. LevelOf(-lit) = trail[i].level  BY <1>1, EntryIs
  <2> QED  BY <1>1, <2>1, <2>2, TrailTypes, Literals
<1>3. c.lits \in SUBSET Literal /\ -lit \in c.lits
  <2>1. c.lits \in Clauses /\ trail[i].lit \in c.lits  BY <1>1, <1>2, ReasonFacts
  <2> QED  BY <2>1 DEF Clauses
<1> HIDE DEF c
<1>4. NonRoot(c.lits) \in SUBSET Literal /\ -lit \in NonRoot(c.lits)
  BY <1>2, <1>3 DEF NonRoot, Root
<1>5. Because(lit) = NonRoot(c.lits) \ {-lit}
  <2>1. Because(lit) = NonRoot(c.lits \ {-lit})  BY DEF Because, c
  <2> QED  BY <2>1 DEF NonRoot
<1>6. Cardinality(Because(lit)) = Cardinality(NonRoot(c.lits)) - 1 /\ Cardinality(NonRoot(c.lits)) \in Nat
  BY <1>4, <1>5, OneLess
<1>7. Cardinality(NonRoot(c.lits)) > 2
      /\ Cardinality(Resolvent(analyzed, lit)) < Cardinality(NonRoot(c.lits))
  BY DEF Strengthens, c
<1>8. /\ Resolvent(analyzed, lit) \in SUBSET Literal /\ Because(lit) \in SUBSET Resolvent(analyzed, lit)
      /\ analyzed \ {lit} \in SUBSET Resolvent(analyzed, lit)
      /\ Because(lit) \in SUBSET Literal
  BY <1>1, <1>4, <1>5 DEF Resolvent
<1>9. Cardinality(Resolvent(analyzed, lit)) \in Nat /\ Cardinality(Because(lit)) \in Nat  BY <1>8, Two
<1>10. Resolvent(analyzed, lit) = Because(lit)
  <2>1. Cardinality(Resolvent(analyzed, lit)) <= Cardinality(Because(lit))  BY <1>6, <1>7, <1>9
  <2> QED  BY <1>8, <2>1, SameSize
<1>11. \E x, y \in Because(lit) : x # y
  <2>1. Cardinality(Because(lit)) > 1  BY <1>6, <1>7
  <2> QED  BY <1>8, <2>1, Two
<1>12. ASSUME Cardinality(Resolvent(analyzed, lit)) < Cardinality(analyzed)
       PROVE  Because(lit) = analyzed \ {lit}
  <2>1. Cardinality(analyzed \ {lit}) = Cardinality(analyzed) - 1 /\ Cardinality(analyzed) \in Nat
    BY <1>1, OneLess
  <2>2. Cardinality(Resolvent(analyzed, lit)) <= Cardinality(analyzed \ {lit})  BY <1>9, <1>12, <2>1
  <2>3. analyzed \ {lit} = Resolvent(analyzed, lit)  BY <1>8, <2>2, SameSize
  <2> QED  BY <1>10, <2>3
<1> QED  BY <1>5, <1>10, <1>11, <1>12 DEF c

\* The reason without the literal.
LEMMA StrengthenedIs ==
  ASSUME Parts, TypeOK, solver = "Kissat", pc = "analyze", NEW i \in DOMAIN trail,
         NEW lit, trail[i].lit = -lit, -trail[i].lit = lit, lit \in analyzed,
         trail[i] = Entry(lit), trail[i].reason # NoReason, trail[i].reason \in DOMAIN order,
         Strengthens(lit), NEW strong, strong = Strengthened(trail[i].reason, lit)
  PROVE  /\ strong \in AnyClause /\ strong.learnt = trail[i].reason.learnt
         /\ strong.lits \subseteq trail[i].reason.lits \ {-lit}
         /\ Because(lit) \subseteq strong.lits
         /\ \A l \in strong.lits \ Because(lit) : LevelOf(l) = 0
         /\ strong.lits \subseteq FalseLits /\ strong.lits \in Clauses
         /\ \A a \in Models : strong.lits \cap a # {}
<1> DEFINE c == trail[i].reason
<1>1. TrailInv /\ analyzed \subseteq FalseLits /\ (\A l \in analyzed : LevelOf(l) > 0)
      /\ (\A a \in Models : analyzed \cap a # {}) /\ ClauseInv
  BY AnalyzedFalse DEF Parts
<1>2. /\ Resolvent(analyzed, lit) = Because(lit)
      /\ NonRoot(c.lits) \ {-lit} = Because(lit)
      /\ \E x, y \in Because(lit) : x # y
  BY StrengthensIs
<1>3. trail[i].level > 0 /\ LevelOf(lit) = trail[i].level
  <2>1. LevelOf(lit) = trail[i].level  BY <1>1, EntryIs
  <2> QED  BY <1>1, <2>1
<1>4. \A l \in c.lits \ {-lit} : l \in FalseLits  BY <1>1, <1>3, ReasonFacts
<1>5. \A a \in Models : Because(lit) \cap a # {}
  <2>1. \A a \in Models : Resolvent(analyzed, -trail[i].lit) \cap a # {}  BY <1>1, ResolventIs
  <2> QED  BY <1>2, <2>1
<1>6. c \in DOMAIN order /\ order[c][1] \in c.lits /\ order[c][2] \in c.lits /\ c \in AnyClause
  BY <1>1 DEF ClauseInv, TypeOK
<1> HIDE DEF c
<1> DEFINE kept == {order[c][1], order[c][2]} \ {-lit}
           lits == IF Cardinality(NonRoot(c.lits)) = 3 THEN NonRoot(c.lits) \ {-lit}
                   ELSE kept \cup (NonRoot(c.lits) \ {-lit})
<1>7. strong = Clause(lits, c.learnt)  BY DEF Strengthened, c
<1>8. kept \subseteq c.lits \ {-lit}  BY <1>6
<1>9. Because(lit) \subseteq c.lits \ {-lit}  BY <1>2 DEF NonRoot, c
<1> HIDE DEF kept
<1>10. lits = Because(lit) \/ lits = kept \cup Because(lit)  BY <1>2 DEF c
<1> HIDE DEF lits
<1>11. lits \subseteq c.lits \ {-lit} /\ Because(lit) \subseteq lits  BY <1>8, <1>9, <1>10
<1>12. lits \subseteq FalseLits /\ lits \in Clauses
  <2>1. lits \subseteq FalseLits /\ lits # {}  BY <1>2, <1>4, <1>11 DEF c
  <2> QED  BY <1>1, <2>1, FalseIsClause
<1>13. ASSUME NEW l \in lits \ Because(lit) PROVE LevelOf(l) = 0
  <2>1. l \in c.lits \ {-lit} /\ l \notin NonRoot(c.lits) \ {-lit}  BY <1>2, <1>11 DEF c
  <2> QED  BY <2>1 DEF NonRoot, Root
<1>14. strong.lits = lits /\ strong.learnt = c.learnt /\ strong \in AnyClause
  BY <1>6, <1>7, <1>12 DEF Clause, AnyClause, Clauses
<1>15. \A a \in Models : lits \cap a # {}  BY <1>5, <1>11
<1> QED  BY <1>11, <1>12, <1>13, <1>14, <1>15 DEF c

\* A strengthened clause watches two of its literals.
LEMMA StrengthenedPairIs ==
  ASSUME NEW c, NEW d, d.lits \in SUBSET Literal, NEW pair \in StrengthenedPairs(c, d)
  PROVE  /\ pair \in Literal \X Literal /\ pair[1] # pair[2]
         /\ pair[1] \in d.lits /\ pair[2] \in d.lits
<1> DEFINE Fits(q) == /\ q[1] # q[2]
                      /\ Cardinality(d.lits) > 2 =>
                           /\ q[1] \in {order[c][1], order[c][2]}
                           /\ \A l \in d.lits \ {q[1]} : LevelOf(l) <= LevelOf(q[2])
<1>1. StrengthenedPairs(c, d) = {Watched(p[1], p[2]) : p \in {q \in d.lits \X d.lits : Fits(q)}}
  BY DEF StrengthenedPairs
<1>2. PICK p \in d.lits \X d.lits : p[1] # p[2] /\ pair = Watched(p[1], p[2])
  BY <1>1
<1>3. p[1] \in d.lits /\ p[2] \in d.lits /\ p[1] \in Literal /\ p[2] \in Literal  BY <1>2
<1> DEFINE a == p[1]  b == p[2]
<1>4. pair = Watched(a, b) /\ a # b /\ a \in d.lits /\ b \in d.lits /\ a \in Literal /\ b \in Literal
  BY <1>2, <1>3
<1> HIDE DEF a, b
<1>5. pair \in Literal \X Literal /\ pair[1] # pair[2] /\ {pair[1], pair[2]} = {a, b}
  BY <1>4, WatchedTwo
<1>6. pair[1] \in {a, b} /\ pair[2] \in {a, b}  BY <1>5
<1> QED  BY <1>4, <1>5, <1>6

\* The resolvent replaces the clause it is a part of, and may subsume the conflict.
LEMMA OnTheFlyStrengthenInv ==
  ASSUME IInv, solver = "Kissat", OnTheFlyStrengthen
  PROVE  IInv'
<1> DEFINE lit == NextResolved
           c == Entry(lit).reason
           strong == Strengthened(c, lit)
           subsumes == /\ analyzed = NonRoot(conflict.lits)
                       /\ Cardinality(Resolvent(analyzed, lit)) < Cardinality(analyzed)
           new == IF subsumes THEN [strong EXCEPT !.learnt = @ /\ conflict.learnt] ELSE strong
           gone == {c} \cup (IF subsumes THEN {conflict} ELSE {})
<1>0. /\ pc = "analyze" /\ Unresolved /\ Strengthens(lit)
      /\ \E pair \in StrengthenedPairs(c, strong) :
           order' = [d \in (DOMAIN order \ gone) \cup {new} |->
                       IF d = new THEN pair ELSE order[d]]
      /\ conflict' = new /\ analyzed' = {} /\ pc' = "conflict"
      /\ UNCHANGED <<solver, formula, loaded, trail, trailLim, qhead, visiting, caller, counters>>
  BY DEF OnTheFlyStrengthen, trailVars
<1>1. /\ Parts /\ TypeOK /\ TrailInv /\ Analyzing /\ Analyzing' /\ visiting = {}
      /\ ClauseInv
  BY <1>0 DEF IInv, Parts, Analyzing, ControlInv
<1>2. PICK i \in DOMAIN trail :
           /\ trail[i].lit = -lit /\ -trail[i].lit = lit
           /\ lit \in analyzed /\ lit \in Literal
           /\ trail[i].level = Level /\ trail[i] = Entry(lit)
           /\ trail[i].reason # NoReason
           /\ trail[i].reason \in DOMAIN order
  BY <1>0, <1>1, NextResolvedIs
<1>3. PICK pair \in StrengthenedPairs(c, strong) :
        order' = [d \in (DOMAIN order \ gone) \cup {new} |-> IF d = new THEN pair ELSE order[d]]
  BY <1>0
<1>4. c = trail[i].reason  BY <1>2
<1> HIDE DEF lit
<1>5. /\ strong \in AnyClause /\ strong.learnt = c.learnt
      /\ strong.lits \subseteq c.lits \ {-lit}
      /\ Because(lit) \subseteq strong.lits
      /\ \A l \in strong.lits \ Because(lit) : LevelOf(l) = 0
      /\ strong.lits \subseteq FalseLits /\ strong.lits \in Clauses
      /\ \A a \in Models : strong.lits \cap a # {}
  <2> DEFINE r == trail[i].reason  d == Strengthened(r, lit)
  <2>1. /\ d \in AnyClause /\ d.learnt = r.learnt
        /\ d.lits \subseteq r.lits \ {-lit}
        /\ Because(lit) \subseteq d.lits
        /\ \A l \in d.lits \ Because(lit) : LevelOf(l) = 0
        /\ d.lits \subseteq FalseLits /\ d.lits \in Clauses
        /\ \A a \in Models : d.lits \cap a # {}
    BY <1>0, <1>1, <1>2, StrengthenedIs
  <2>2. c = r /\ strong = d  BY <1>4
  <2> HIDE DEF c, strong, d, r
  <2> QED  BY <2>1, <2>2
<1>6. subsumes => Because(lit) \subseteq conflict.lits
  <2>1. Cardinality(Resolvent(analyzed, lit)) < Cardinality(analyzed)
              => Because(lit) = analyzed \ {lit}
    BY <1>0, <1>1, <1>2, StrengthensIs
  <2> QED  BY <2>1 DEF NonRoot
<1> HIDE DEF subsumes, strong
<1>7. c \in DOMAIN order /\ c \in AnyClause /\ c.learnt \in BOOLEAN /\ conflict.learnt \in BOOLEAN
      /\ conflict.lits \subseteq FalseLits
  BY <1>1, <1>2, <1>4 DEF TypeOK, AnyClause, Parts, AnalysisInv
<1>8. /\ new \in AnyClause /\ new.lits = strong.lits
      /\ ~c.learnt => ~new.learnt
      /\ subsumes /\ ~conflict.learnt => ~new.learnt
  <2>1. CASE subsumes
    <3>1. new = [strong EXCEPT !.learnt = strong.learnt /\ conflict.learnt]  BY <2>1
    <3>2. new.lits = strong.lits /\ new.learnt = (strong.learnt /\ conflict.learnt)
      BY <1>5, <3>1 DEF AnyClause
    <3>3. new \in AnyClause  BY <1>5, <1>7, <3>1 DEF AnyClause
    <3> QED  BY <1>5, <3>2, <3>3
  <2>2. CASE ~subsumes  BY <1>5, <2>2
  <2> QED  BY <2>1, <2>2
<1>9. gone \subseteq {c, conflict} /\ (conflict \in gone /\ conflict # c => subsumes) /\ c \in gone
  OBVIOUS
<1> HIDE DEF new, gone
<1>10. /\ pair \in Literal \X Literal /\ pair[1] # pair[2]
       /\ pair[1] \in new.lits /\ pair[2] \in new.lits
  <2>1. strong.lits \in SUBSET Literal  BY <1>5 DEF Clauses
  <2> HIDE DEF c
  <2> QED  BY <1>8, <2>1, StrengthenedPairIs
<1>11. /\ new \in DOMAIN order' /\ order'[new] = pair
       /\ \A d \in DOMAIN order' : d = new \/ (d \in DOMAIN order /\ order'[d] = order[d])
       /\ \A d \in DOMAIN order : d \notin gone => d \in DOMAIN order'
  BY <1>3
<1> HIDE DEF c
<1>12. \A n \in DOMAIN trail : n >= i => ~(LookedAt(n)')
  <2> SUFFICES ASSUME NEW n \in DOMAIN trail, n >= i, NEW j \in n .. Len(trail),
                      -trail[j].lit \in new.lits
               PROVE  FALSE
    BY <1>0 DEF LookedAt
  <2>1. -trail[j].lit \in c.lits \ {trail[i].lit}  BY <1>2, <1>5, <1>8
  <2>2. trail[i].level > 0
    <3>1. Level > 0  BY <1>0, <1>1, AnalyzedFalse
    <3> QED  BY <1>2, <3>1
  <2>3. PICK p \in 1 .. i - 1 : p \in DOMAIN trail /\ trail[p].lit = -(-trail[j].lit)
    BY <1>1, <1>2, <1>4, <2>1, <2>2, ReasonFacts
  <2>4. i \in Nat /\ n \in Nat /\ DOMAIN trail = 1 .. Len(trail) /\ Len(trail) \in Nat
    BY <1>1, TrailTypes
  <2>5. j \in DOMAIN trail /\ p # j  BY <2>3, <2>4
  <2>6. trail[p].lit = trail[j].lit  BY <1>1, <2>3, <2>5, TrailTypes, Literals
  <2> QED  BY <1>1, <2>3, <2>5, <2>6 DEF TrailInv, TrailOK, Distinct
<1>13. TypeOK'
  <2>1. \A d \in DOMAIN order' : d \in AnyClause /\ order'[d] \in Literal \X Literal
    BY <1>1, <1>8, <1>10, <1>11 DEF TypeOK
  <2> QED  BY <1>0, <1>1, <1>8, <2>1 DEF TypeOK, counters
<1>14. AnswersAreRight'  BY <1>0 DEF AnswersAreRight
<1>15. TrailInv'  BY <1>0, <1>1, SameTrail
<1>16. ControlInv' /\ PropagateInv'
  BY <1>0, <1>1 DEF Parts, ControlInv, PropagateInv, Level
<1>17. ClauseInv'
  <2> SUFFICES ASSUME NEW d \in DOMAIN order'
               PROVE  /\ d.lits \in Clauses
                      /\ \A a \in Models : d.lits \cap a # {}
                      /\ order'[d][1] # order'[d][2]
                      /\ order'[d][1] \in d.lits /\ order'[d][2] \in d.lits
    BY <1>0, SameModels DEF ClauseInv
  <2>1. CASE d = new  BY <1>5, <1>8, <1>10, <1>11, <2>1
  <2>2. CASE d # new  BY <1>1, <1>11, <2>2 DEF ClauseInv
  <2> QED  BY <2>1, <2>2
<1>18. FormulaInv'
  <2> SUFFICES ASSUME NEW k \in 1 .. loaded
               PROVE  Remains(formula[k], trail, DOMAIN order')
    BY <1>0 DEF FormulaInv
  <2> DEFINE input == formula[k]  root == Complement(TrueBelow(trail, 1))
  <2>1. Remains(input, trail, DOMAIN order)  BY <1>1 DEF Parts, FormulaInv
  <2>2. CASE input \cap TrueBelow(trail, 1) # {}  BY <2>2 DEF Remains
  <2>3. ASSUME NEW d \in DOMAIN order, ~d.learnt, d.lits \subseteq input \cup root
        PROVE  Remains(input, trail, DOMAIN order')
    <3>1. CASE d \notin gone  BY <1>11, <2>3, <3>1 DEF Remains
    <3>2. CASE d \in gone
      <4>1. ~new.learnt  BY <1>8, <1>9, <2>3, <3>2
      <4>2. Because(lit) \subseteq d.lits  BY <1>5, <1>6, <1>9, <3>2
      <4>3. ASSUME NEW l \in new.lits PROVE l \in input \cup root
        <5>1. CASE l \in Because(lit)  BY <2>3, <4>2, <5>1
        <5>2. CASE l \notin Because(lit)
          <6>1. LevelOf(l) = 0 /\ l \in FalseLits  BY <1>5, <1>8, <5>2
          <6>2. PICK j \in DOMAIN trail : -trail[j].lit = l /\ trail[j].level = 0
            BY <1>1, <6>1, FalseEntry
          <6>3. trail[j].lit \in TrueBelow(trail, 1)  BY <6>2 DEF TrueBelow
          <6> QED  BY <6>2, <6>3 DEF Complement
        <5> QED  BY <5>1, <5>2
      <4>4. new.lits \subseteq input \cup root  BY <4>3
      <4> HIDE DEF root, input
      <4>5. new \in DOMAIN order' /\ ~new.learnt /\ new.lits \subseteq input \cup root
        BY <1>11, <4>1, <4>4
      <4> QED  BY <4>5 DEF Remains, root
    <3> QED  BY <3>1, <3>2
  <2> QED  BY <2>1, <2>2, <2>3 DEF Remains
<1>19. PresentInv'
  <2> SUFFICES ASSUME NEW n \in DOMAIN trail, trail[n].level > 0, trail[n].reason # NoReason
               PROVE  Present(n)'
    BY <1>0 DEF PresentInv
  <2>0. solver = "Kissat" /\ solver' = "Kissat" /\ trail' = trail /\ Level' = Level
    BY <1>0 DEF Level
  <2>1. CASE trail[n].reason \in DOMAIN order'  BY <2>0, <2>1 DEF Present
  <2>2. CASE n >= i /\ trail[n].level = Level
    <3>1. ~(LookedAt(n)')  BY <1>12, <2>2
    <3> QED  BY <1>1, <2>0, <2>2, <3>1 DEF Present
  <2>3. CASE trail[n].reason \notin DOMAIN order
    <3>1. trail[n].level = Level /\ ~LookedAt(n)  BY <1>1, <2>3 DEF Parts, PresentInv, Present
    <3>2. \A j \in n .. Len(trail) : -trail[j].lit \notin conflict.lits \cup analyzed
      BY <1>0, <3>1 DEF LookedAt
    <3>3. i \in Nat /\ n \in Nat /\ i <= Len(trail) /\ Len(trail) \in Nat
      BY <1>1, TrailTypes
    <3>4. n >= i  BY <1>2, <3>2, <3>3
    <3> QED  BY <2>2, <3>1, <3>4
  <2>4. CASE trail[n].reason \in gone
    <3>1. trail[n].reason # conflict  BY <1>1, <1>7, ReasonTrue
    <3>2. trail[n].reason = trail[i].reason  BY <1>4, <1>9, <2>4, <3>1
    <3>3. trail[n].lit = trail[i].lit
      <4>1. trail[i].level > 0  BY <1>1, <1>0, <1>2, AnalyzedFalse
      <4>2. \A l \in trail[i].reason.lits \ {trail[i].lit} : l \in FalseLits
        BY <1>1, <1>2, <4>1, ReasonFacts
      <4>3. trail[n].lit \in trail[i].reason.lits  BY <1>1, <3>2, ReasonFacts
      <4> QED  BY <1>1, <4>2, <4>3, TrailTypes
    <3>4. n = i  BY <1>1, <3>3 DEF TrailInv, TrailOK, Distinct
    <3>5. n >= i  BY <1>1, <3>4, TrailTypes
    <3> QED  BY <1>2, <2>2, <3>4, <3>5
  <2> QED  BY <1>11, <2>1, <2>3, <2>4
<1>20. WatchInv'
  <2> SUFFICES ASSUME NEW d \in DOMAIN order', d # new
               PROVE  WatchesOK(trail, trailLim, qhead, Level, d.lits, order'[d], Strong)
    BY <1>0, <1>1 DEF WatchInv, Level, Strong, counters
  <2>1. d \in DOMAIN order /\ order'[d] = order[d]  BY <1>11
  <2> QED  BY <1>0, <1>1, <2>1 DEF Parts, WatchInv
<1>21. AnalysisInv'
  <2>1. FalseLits' = FalseLits  BY <1>0 DEF FalseLits, TrueLits, Complement
  <2>2. conflict' \in DOMAIN order' /\ conflict'.lits \subseteq FalseLits'
    BY <1>0, <1>5, <1>8, <1>11, <2>1
  <2> QED  BY <1>0, <2>2 DEF AnalysisInv
<1> QED
  BY <1>13, <1>14, <1>15, <1>16, <1>17, <1>18, <1>19, <1>20, <1>21 DEF IInv, Parts

-----------------------------------------------------------------------------
(* Shrinking                                                               *)

\* What the shrinking of a learnt clause may rely on: the literals follow from those of
\* the clause that are left, by the reasons of literals that do.
Follow(lits, removable) ==
  /\ lits \subseteq removable /\ removable \subseteq FalseLits
  /\ \A l \in removable : LevelOf(l) > 0
  /\ \A l \in removable \ lits :
       Entry(l).reason # NoReason /\ Because(l) \subseteq ImpliedBy(removable)

\* What follows, by reasons, from removable literals: the closure and its monotony.
LEMMA ImpliedByIs ==
  ASSUME TrailInv, NEW removable, removable \subseteq FalseLits,
         \A l \in removable : LevelOf(l) > 0
  PROVE  /\ removable \subseteq ImpliedBy(removable) /\ ImpliedBy(removable) \subseteq FalseLits
         /\ \A l \in ImpliedBy(removable) : LevelOf(l) > 0
         /\ \A l \in ImpliedBy(removable) \ removable :
              Entry(l).reason # NoReason /\ Because(l) \subseteq ImpliedBy(removable)
         /\ \A more : removable \subseteq more => ImpliedBy(removable) \subseteq ImpliedBy(more)
<1> DEFINE inferred == {l \in FalseLits : ~Root(l) /\ Entry(l).reason # NoReason}
           Closed(s, given) == \A l \in s : Because(l) \subseteq given \cup s
           All(given) == given \cup UNION {s \in SUBSET inferred : Closed(s, given)}
<1>1. \A given : ImpliedBy(given) = All(given)  BY DEF ImpliedBy
<1>2. \A l \in inferred : l \in FalseLits /\ LevelOf(l) > 0 /\ Entry(l).reason # NoReason
  BY FalseEntry DEF Root
<1> HIDE DEF inferred
<1>3. ASSUME NEW l \in All(removable) \ removable
      PROVE  /\ l \in FalseLits /\ LevelOf(l) > 0 /\ Entry(l).reason # NoReason
             /\ Because(l) \subseteq All(removable)
  <2>1. PICK s \in SUBSET inferred : l \in s /\ Closed(s, removable)  OBVIOUS
  <2>2. Because(l) \subseteq removable \cup s  BY <2>1
  <2>3. s \subseteq All(removable)  BY <2>1
  <2> QED  BY <1>2, <2>1, <2>2, <2>3
<1>4. ASSUME NEW more, removable \subseteq more
      PROVE  All(removable) \subseteq All(more)
  <2> SUFFICES ASSUME NEW l \in All(removable) PROVE l \in All(more)  OBVIOUS
  <2>1. CASE l \in removable  BY <1>4, <2>1
  <2>2. CASE l \notin removable
    <3>1. PICK s \in SUBSET inferred : l \in s /\ Closed(s, removable)  BY <2>2
    <3>2. Closed(s, more)  BY <1>4, <3>1
    <3> QED  BY <3>1, <3>2
  <2> QED  BY <2>1, <2>2
<1>5. removable \subseteq All(removable)  OBVIOUS
<1> HIDE DEF All
<1> QED  BY <1>1, <1>3, <1>4, <1>5

\* If each removable literal follows from the clause, a model that has one of them
\* has a literal of the clause.
LEMMA FollowSound ==
  ASSUME TrailInv, NEW lits, NEW removable, Follow(lits, removable),
         NEW a \in Models, a \cap removable # {}
  PROVE  a \cap lits # {}
<1> USE DEF Follow
<1> DEFINE U == ImpliedBy(removable) \ lits
<1>1. /\ removable \subseteq ImpliedBy(removable) /\ ImpliedBy(removable) \subseteq FalseLits
      /\ \A l \in ImpliedBy(removable) : LevelOf(l) > 0
      /\ \A l \in ImpliedBy(removable) \ removable :
            Entry(l).reason # NoReason /\ Because(l) \subseteq ImpliedBy(removable)
  BY ImpliedByIs
<1>2. lits \subseteq FalseLits /\ U \subseteq FalseLits /\ lits \cup U = ImpliedBy(removable)
  BY <1>1
<1>3. a \cap (lits \cup U) # {}  BY <1>1, <1>2
<1>4. ASSUME NEW l \in U
      PROVE  /\ LevelOf(l) > 0 /\ Entry(l).reason # NoReason
             /\ \A x \in Entry(l).reason.lits \ {-l} : LevelOf(x) > 0 => x \in lits \cup U
  <2>1. LevelOf(l) > 0 /\ Entry(l).reason # NoReason /\ Because(l) \subseteq lits \cup U
    BY <1>1, <1>2
  <2> HIDE DEF U
  <2> QED  BY <2>1 DEF Because, NonRoot, Root
<1> HIDE DEF U
<1>5. a \cap (lits \ U) # {}  BY <1>2, <1>3, <1>4, ClosedSound
<1> QED  BY <1>5

\* Sets of false literals of one level.
FalseSets(level) == SUBSET {l \in FalseLits : LevelOf(l) = level}

\* One step of shrinking a block: all of a block is replaced, or nothing is.
LEMMA ShrunkByIs ==
  ASSUME TrailInv, NEW level \in 1 .. Level, NEW before \in FalseSets(level),
         NEW removable, NEW after, after = ShrunkBy(before, level, removable)
  PROVE  /\ after \in FalseSets(level)
         /\ before = {} => after = {}
         /\ after = {} \/ \A l \in before :
              \/ l \in after
              \/ /\ Entry(l).reason # NoReason
                 /\ Because(l) \subseteq ImpliedBy(removable) \cup after
<1> DEFINE latest == Latest(before)
           lower == {l \in Because(latest) : LevelOf(l) < level}
           next == (before \ {latest}) \cup OnLevel(Because(latest), level)
<1>1. before \in SUBSET Literal /\ before \subseteq FalseLits /\ \A l \in before : LevelOf(l) = level
  BY TrailTypes DEF FalseSets
<1>2. after = IF Cardinality(before) < 2 THEN before
              ELSE IF lower \subseteq ImpliedBy(removable) THEN next ELSE {}
  BY DEF ShrunkBy
<1>3. CASE Cardinality(before) < 2  BY <1>2, <1>3
<1>4. CASE ~(Cardinality(before) < 2)
  <2>1. PICK x \in before : x # latest  BY <1>1, <1>4, Two
  <2> HIDE DEF latest
  <2>2. PICK i \in DOMAIN trail :
           /\ trail[i].lit = -latest /\ -trail[i].lit = latest
           /\ trail[i].level = level /\ trail[i] = Entry(latest)
           /\ trail[i].reason # NoReason
    <3>1. x # Latest(before)  BY <2>1 DEF latest
    <3>2. \E i \in DOMAIN trail :
           /\ trail[i].lit = -Latest(before) /\ -trail[i].lit = Latest(before)
           /\ trail[i].level = level /\ trail[i] = Entry(Latest(before))
           /\ trail[i].reason # NoReason
      BY <1>1, <3>1, LatestHasReason
    <3> QED  BY <3>2 DEF latest
  <2>3. \A l \in Because(latest) : l \in FalseLits /\ LevelOf(l) \in 0 .. level
    <3>1. trail[i].level > 0  BY <2>2
    <3>2. \A l \in trail[i].reason.lits \ {trail[i].lit} : l \in FalseLits /\ LevelOf(l) <= level
      BY <2>2, <3>1, ReasonFacts
    <3>3. \A l \in Because(latest) : l \in FalseLits /\ LevelOf(l) <= level
      BY <2>2, <3>2 DEF Because, NonRoot
    <3> QED  BY <3>3, FalseEntry
  <2>4. next \in FalseSets(level)  BY <1>1, <2>3 DEF FalseSets, OnLevel
  <2>5. before # {}  BY <2>1
  <2>6. CASE lower \subseteq ImpliedBy(removable)
    <3>1. after = next  BY <1>2, <1>4, <2>6
    <3>2. Because(latest) \subseteq ImpliedBy(removable) \cup next
      BY <2>3, <2>6 DEF OnLevel
    <3>3. Entry(latest).reason # NoReason  BY <2>2
    <3>4. \A l \in before : l = latest \/ l \in next  OBVIOUS
    <3> HIDE DEF next
    <3> QED  BY <2>4, <2>5, <3>1, <3>2, <3>3, <3>4
  <2>7. CASE ~(lower \subseteq ImpliedBy(removable))
    <3>1. after = {}  BY <1>2, <1>4, <2>7
    <3> QED  BY <2>5, <3>1 DEF FalseSets
  <2> QED  BY <2>6, <2>7
<1> QED  BY <1>3, <1>4

\* The steps of shrinking a block.
LEMMA BlockIs ==
  ASSUME TrailInv, NEW level \in 1 .. Level, NEW block \in FalseSets(level),
         NEW removable, NEW set, set = Block(block, level, removable)
  PROVE  /\ \A n \in 0 .. Len(trail) : set[n] \in FalseSets(level)
         /\ set[0] = block
         /\ \A n \in 1 .. Len(trail) : set[n] = ShrunkBy(set[n - 1], level, removable)
<1> DEFINE b == Len(trail)  X == FalseSets(level)
           Body(f) == [n \in 0 .. b |->
                         IF n = 0 THEN block ELSE ShrunkBy(f[n - 1], level, removable)]
           D == [p \in Nat \X X |-> ShrunkBy(p[2], level, removable)]
           F == CHOOSE f : f = Body(f)
<1>1. b \in Nat  BY TrailTypes
<1>2. D \in [Nat \X X -> X]
  <2> SUFFICES ASSUME NEW p \in Nat \X X PROVE ShrunkBy(p[2], level, removable) \in X
    OBVIOUS
  <2>1. p[2] \in FalseSets(level)  OBVIOUS
  <2> QED  BY <2>1, ShrunkByIs
<1>3. PICK g \in [0 .. b -> X] :
         \A n \in 0 .. b : g[n] = IF n = 0 THEN block ELSE D[<<n, g[n - 1]>>]
  <2> DEFINE a == 0
  <2>1. a \in Nat /\ b \in Nat /\ block \in X  BY <1>1
  <2> HIDE DEF a, b, D, X
  <2>2. \E g : IsRecursive(g, a, b, X, block, D)  BY <1>2, <2>1, Recursion
  <2> QED  BY <2>2 DEF a, IsRecursive
<1>4. \A n \in 1 .. b : g[n] = ShrunkBy(g[n - 1], level, removable)
  <2> SUFFICES ASSUME NEW n \in 1 .. b PROVE g[n] = ShrunkBy(g[n - 1], level, removable)
    OBVIOUS
  <2>1. n - 1 \in 0 .. b /\ n \in 0 .. b /\ n \in Nat /\ n # 0  BY <1>1
  <2>2. g[n - 1] \in X  BY <2>1
  <2>3. <<n, g[n - 1]>> \in Nat \X X  BY <2>1, <2>2
  <2> HIDE DEF X
  <2> QED  BY <1>3, <2>1, <2>3
<1>5. g = Body(g)
  <2>1. ASSUME NEW n \in 0 .. b
        PROVE  g[n] = IF n = 0 THEN block ELSE ShrunkBy(g[n - 1], level, removable)
    <3> HIDE DEF D, X
    <3>1. CASE n = 0  BY <1>3, <3>1
    <3>2. CASE n # 0
      <4>1. n \in 1 .. b  BY <1>1, <3>2
      <4> QED  BY <1>4, <3>2, <4>1
    <3> QED  BY <3>1, <3>2
  <2> QED  BY <2>1
<1>6. F = Body(F)
  <2> HIDE DEF Body
  <2> QED  BY <1>5
<1>7. set = F  BY DEF Block
<1>8. /\ F[0] = block
      /\ \A n \in 1 .. b : F[n] = ShrunkBy(F[n - 1], level, removable)
  <2> HIDE DEF F
  <2> QED  BY <1>1, <1>6
<1> DEFINE S == {n \in 0 .. b : F[n] \in X}
<1> HIDE DEF F, Body, D
<1>9. 0 .. b \subseteq S
  <2>1. 0 \in S  BY <1>1, <1>8
  <2>2. ASSUME NEW n \in 0 + 1 .. b, n - 1 \in S PROVE n \in S
    <3>1. F[n - 1] \in FalseSets(level)  BY <2>2
    <3>2. F[n] = ShrunkBy(F[n - 1], level, removable)  BY <1>8, <2>2
    <3>3. F[n] \in X  BY <3>1, <3>2, ShrunkByIs
    <3> QED  BY <1>1, <2>2, <3>3
  <2>3. 0 \in Nat  OBVIOUS
  <2> HIDE DEF S, b
  <2> QED  BY ONLY <1>1, <2>1, <2>2, <2>3, RangeInduction
<1> QED  BY <1>7, <1>8, <1>9

\* What was in the block at any step stays or follows from what is there at the end.
LEMMA BlockShrinks ==
  ASSUME TrailInv, NEW level \in 1 .. Level, NEW block \in FalseSets(level),
         NEW removable, NEW set, set = Block(block, level, removable),
         set[Len(trail)] # {}
  PROVE  \A n \in 0 .. Len(trail) : \A l \in set[n] :
           \/ l \in set[Len(trail)]
           \/ /\ Entry(l).reason # NoReason
              /\ Because(l) \subseteq
                   ImpliedBy(removable) \cup UNION {set[m] : m \in 0 .. Len(trail)}
<1> DEFINE b == Len(trail)
           all == UNION {set[m] : m \in 0 .. b}
           Gone(l) == Entry(l).reason # NoReason /\ Because(l) \subseteq ImpliedBy(removable) \cup all
           S == {n \in 0 .. b : set[n] = {} \/ \A m \in 0 .. n : \A l \in set[m] : l \in set[n] \/ Gone(l)}
<1>1. b \in Nat  BY TrailTypes
<1>2. /\ \A n \in 0 .. b : set[n] \in FalseSets(level)
      /\ \A n \in 1 .. b : set[n] = ShrunkBy(set[n - 1], level, removable)
  <2>1. TrailInv /\ level \in 1 .. Level /\ block \in FalseSets(level)
        /\ set = Block(block, level, removable)
    OBVIOUS
  <2> QED  BY ONLY <2>1, BlockIs
<1>3. 0 \in S
  <2>1. \A m \in 0 .. 0 : set[m] = set[0]  OBVIOUS
  <2> HIDE DEF Gone
  <2> QED  BY <1>1, <2>1
<1>4. ASSUME NEW n \in 0 + 1 .. b, n - 1 \in S PROVE n \in S
  <2>0. n \in 1 .. b /\ n - 1 \in 0 .. b /\ n \in 0 .. b /\ n \in Nat  BY <1>1, <1>4
  <2> DEFINE before == set[n - 1]  after == set[n]
  <2>1. before \in FalseSets(level) /\ after = ShrunkBy(before, level, removable)
    BY <1>2, <2>0
  <2> HIDE DEF before, after
  <2>2. /\ before = {} => after = {}
        /\ after = {} \/ \A l \in before :
              \/ l \in after
              \/ Entry(l).reason # NoReason /\ Because(l) \subseteq ImpliedBy(removable) \cup after
    BY <2>1, ShrunkByIs
  <2>3. after \subseteq all  BY <2>0 DEF after
  <2>4. after = {} \/ \A l \in before : l \in after \/ Gone(l)
    <3> HIDE DEF all
    <3> QED  BY <2>2, <2>3
  <2> HIDE DEF Gone
  <2>5. before = {} \/ \A m \in 0 .. n - 1 : \A l \in set[m] : l \in before \/ Gone(l)
    BY <1>4 DEF before
  <2>6. after = {} \/ \A m \in 0 .. n : \A l \in set[m] : l \in after \/ Gone(l)
    <3> SUFFICES ASSUME after # {}, NEW m \in 0 .. n, NEW l \in set[m] PROVE l \in after \/ Gone(l)
      OBVIOUS
    <3>1. CASE m = n  BY <3>1 DEF after
    <3>2. CASE m # n
      <4>1. m \in 0 .. n - 1  BY <2>0, <3>2
      <4>2. l \in before \/ Gone(l)  BY <2>2, <2>5, <4>1
      <4> QED  BY <2>4, <4>2
    <3> QED  BY <3>1, <3>2
  <2> QED  BY <2>0, <2>6 DEF after
<1>5. 0 .. b \subseteq S
  <2>1. 0 \in Nat  OBVIOUS
  <2> HIDE DEF S, b
  <2> QED  BY ONLY <1>1, <1>3, <1>4, <2>1, RangeInduction
<1> HIDE DEF Gone
<1>6. b \in S  BY <1>1, <1>5
<1>7. \A m \in 0 .. b : \A l \in set[m] : l \in set[b] \/ Gone(l)  BY <1>6
<1> QED  BY <1>7 DEF Gone

\* Shrinking the block of one level keeps the clause sound and the literal of the
\* last level.
LEMMA ShrunkenLevelIs ==
  ASSUME TrailInv, NEW level \in 1 .. Level, NEW before,
         before = [lits |-> before.lits, removable |-> before.removable],
         Follow(before.lits, before.removable), Cardinality(OnLevel(before.lits, Level)) < 2,
         NEW after, after = ShrunkenLevel(before, level)
  PROVE  /\ after.lits \in SUBSET FalseLits /\ after.removable \in SUBSET FalseLits
         /\ after = [lits |-> after.lits, removable |-> after.removable]
         /\ Follow(after.lits, after.removable)
         /\ OnLevel(after.lits, Level) = OnLevel(before.lits, Level)
         /\ before.removable \subseteq after.removable
<1> DEFINE lits == before.lits
           removable == before.removable
           block == OnLevel(lits, level)
           set == Block(block, level, removable)
           last == set[Len(trail)]
           all == UNION {set[n] : n \in 0 .. Len(trail)}
           redundant == {l \in block : /\ Entry(l).reason # NoReason
                                       /\ Because(l) \subseteq ImpliedBy(removable)}
<1>1. after = IF Cardinality(block) < 2 THEN [lits |-> lits, removable |-> removable]
              ELSE IF last # {}
              THEN [lits |-> (lits \ block) \cup last, removable |-> removable \cup all]
              ELSE [lits |-> lits \ redundant, removable |-> removable]
  <2>1. after = IF Cardinality(block) < 2 THEN before
                ELSE IF last # {}
                THEN [lits |-> (lits \ block) \cup last, removable |-> removable \cup all]
                ELSE [before EXCEPT !.lits = @ \ redundant]
    BY DEF ShrunkenLevel
  <2> DEFINE left == lits \ redundant  given == [before EXCEPT !.lits = @ \ redundant]
  <2>2. given = [before EXCEPT !.lits = left]  OBVIOUS
  <2> HIDE DEF left
  <2>3. [before EXCEPT !.lits = left] = [lits |-> left, removable |-> before.removable]
    <3>1. \A x, y, z : [[lits |-> x, removable |-> y] EXCEPT !.lits = z] = [lits |-> z, removable |-> y]
      OBVIOUS
    <3>2. [[lits |-> before.lits, removable |-> before.removable] EXCEPT !.lits = left]
             = [lits |-> left, removable |-> before.removable]
      BY ONLY <3>1
    <3> QED  BY ONLY <3>2, before = [lits |-> before.lits, removable |-> before.removable]
  <2> HIDE DEF given, block, last, all, set, redundant
  <2>4. after = IF Cardinality(block) < 2 THEN before
                ELSE IF last # {}
                THEN [lits |-> (lits \ block) \cup last, removable |-> removable \cup all]
                ELSE given
    BY <2>1 DEF given
  <2>5. before = [lits |-> lits, removable |-> removable]  OBVIOUS
  <2>6. given = [lits |-> lits \ redundant, removable |-> removable]  BY <2>2, <2>3 DEF left
  <2> HIDE DEF lits, removable
  <2> QED  BY <2>4, <2>5, <2>6
<1>0. /\ Follow(lits, removable) /\ Cardinality(OnLevel(lits, Level)) < 2
      /\ lits = before.lits /\ removable = before.removable
  OBVIOUS
<1> HIDE DEF lits, removable
<1>2. Level \in Nat /\ Len(trail) \in Nat  BY TrailTypes
<1>3. lits \subseteq removable /\ removable \subseteq FalseLits /\ \A l \in removable : LevelOf(l) > 0
  BY <1>0 DEF Follow
<1>4. block \in FalseSets(level)  BY <1>3 DEF OnLevel, FalseSets
<1>5. CASE Cardinality(block) < 2
  <2>1. after.lits = lits /\ after.removable = removable /\ after = [lits |-> lits, removable |-> removable]
    BY <1>1, <1>5
  <2> QED  BY <1>0, <1>3, <2>1
<1>6. CASE ~(Cardinality(block) < 2) /\ last = {}
  <2>1. after = [lits |-> lits \ redundant, removable |-> removable]  BY <1>1, <1>6
  <2> DEFINE left == lits \ redundant
  <2>2. level # Level  BY <1>0, <1>6
  <2>3. OnLevel(left, Level) = OnLevel(lits, Level)
    <3>1. \A l \in redundant : LevelOf(l) # Level  BY <2>2 DEF OnLevel
    <3> HIDE DEF redundant
    <3> QED  BY <3>1 DEF OnLevel
  <2>4. Follow(left, removable)
    <3>1. ASSUME NEW l \in removable \ left
          PROVE  Entry(l).reason # NoReason /\ Because(l) \subseteq ImpliedBy(removable)
      <4>1. CASE l \in lits  BY <3>1, <4>1
      <4>2. CASE l \notin lits  BY <1>0, <3>1, <4>2 DEF Follow
      <4> QED  BY <4>1, <4>2
    <3> HIDE DEF redundant
    <3> QED  BY <1>3, <3>1 DEF Follow
  <2> HIDE DEF left
  <2>5. after = [lits |-> left, removable |-> removable]  BY <2>1 DEF left
  <2>6. after.lits = left /\ after.removable = removable  BY <2>5
  <2> QED  BY <1>0, <1>3, <2>3, <2>4, <2>5, <2>6 DEF Follow
<1>7. CASE ~(Cardinality(block) < 2) /\ last # {}
  <2> DEFINE left == (lits \ block) \cup last  more == removable \cup all
  <2>1. after = [lits |-> left, removable |-> more]  BY <1>1, <1>7
  <2>2. level # Level  BY <1>0, <1>7
  <2>3. /\ \A n \in 0 .. Len(trail) : set[n] \in FalseSets(level)
        /\ set[0] = block
    <3>1. set = Block(block, level, removable)  OBVIOUS
    <3>2. block \in FalseSets(level)  BY <1>4
    <3> HIDE DEF set, block
    <3> QED  BY ONLY TrailInv, level \in 1 .. Level, <3>1, <3>2, BlockIs
  <2>4. \A n \in 0 .. Len(trail) : \A l \in set[n] :
           \/ l \in set[Len(trail)]
           \/ /\ Entry(l).reason # NoReason
              /\ Because(l) \subseteq
                   ImpliedBy(removable) \cup UNION {set[m] : m \in 0 .. Len(trail)}
    <3>1. set = Block(block, level, removable) /\ set[Len(trail)] # {}  BY <1>7
    <3>2. block \in FalseSets(level)  BY <1>4
    <3> HIDE DEF set, block
    <3> QED  BY ONLY TrailInv, level \in 1 .. Level, <3>1, <3>2, BlockShrinks
  <2>5. (\A l \in all : LevelOf(l) = level /\ l \in FalseLits) /\ last \subseteq all /\ block \subseteq all
    <3>1. 0 \in 0 .. Len(trail) /\ Len(trail) \in 0 .. Len(trail)  BY <1>2
    <3> HIDE DEF set, block
    <3> QED  BY <2>3, <3>1 DEF FalseSets
  <2>6. \A l \in all : l \in last \/ (/\ Entry(l).reason # NoReason
                                      /\ Because(l) \subseteq ImpliedBy(removable) \cup all)
    <3> HIDE DEF set, block
    <3> QED  BY <2>4
  <2> HIDE DEF set, last, all
  <2>7. \A l \in all : LevelOf(l) = level /\ l \in FalseLits  BY <2>5
  <2>8. OnLevel(left, Level) = OnLevel(lits, Level)
    BY <2>2, <2>5, <2>7 DEF OnLevel
  <2>9. left \subseteq more /\ more \subseteq FalseLits /\ \A l \in more : LevelOf(l) > 0
    BY <1>3, <2>5, <2>7
  <2>10. removable \subseteq more  OBVIOUS
  <2>11. /\ ImpliedBy(removable) \subseteq ImpliedBy(more) /\ more \subseteq ImpliedBy(more)
    BY <1>3, <2>9, <2>10, ImpliedByIs
  <2>12. ASSUME NEW l \in more \ left
         PROVE  Entry(l).reason # NoReason /\ Because(l) \subseteq ImpliedBy(more)
    <3>1. CASE l \in all
      <4>1. Entry(l).reason # NoReason /\ Because(l) \subseteq ImpliedBy(removable) \cup all
        BY <2>6, <2>12, <3>1
      <4>2. all \subseteq ImpliedBy(more)  BY <2>11
      <4> QED  BY <2>11, <4>1, <4>2
    <3>2. CASE l \notin all
      <4>1. l \in removable \ lits  BY <2>5, <2>12, <3>2
      <4>2. Entry(l).reason # NoReason /\ Because(l) \subseteq ImpliedBy(removable)
        BY <1>0, <4>1 DEF Follow
      <4> QED  BY <2>11, <4>2
    <3> QED  BY <3>1, <3>2
  <2> HIDE DEF left, more
  <2>13. Follow(left, more)  BY <2>9, <2>12 DEF Follow
  <2>14. after.lits = left /\ after.removable = more  BY <2>1
  <2> QED  BY <1>0, <2>1, <2>8, <2>9, <2>10, <2>13, <2>14
<1>8. lits = before.lits /\ removable = before.removable  BY DEF lits, removable
<1> HIDE DEF lits, removable, block, set, last, redundant, all
<1> QED  BY <1>5, <1>6, <1>7, <1>8

\* The states of kissat_shrink_clause between two levels.
Shrinking(clause) ==
  {s \in [lits : SUBSET FalseLits, removable : SUBSET FalseLits] :
     /\ Follow(s.lits, s.removable)
     /\ OnLevel(s.lits, Level) = OnLevel(clause, Level)
     /\ clause \subseteq s.removable}

\* A level more.
LEMMA ShrinkingStep ==
  ASSUME TrailInv, NEW clause, Cardinality(OnLevel(clause, Level)) < 2,
         NEW before \in Shrinking(clause), NEW level \in 1 .. Level
  PROVE  ShrunkenLevel(before, level) \in Shrinking(clause)
<1> DEFINE after == ShrunkenLevel(before, level)
<1>1. /\ before = [lits |-> before.lits, removable |-> before.removable]
      /\ Follow(before.lits, before.removable)
      /\ OnLevel(before.lits, Level) = OnLevel(clause, Level)
      /\ clause \subseteq before.removable
  BY DEF Shrinking
<1>2. after = ShrunkenLevel(before, level) /\ Cardinality(OnLevel(before.lits, Level)) < 2
  BY <1>1
<1> HIDE DEF after
<1>3. /\ after.lits \in SUBSET FalseLits /\ after.removable \in SUBSET FalseLits
      /\ after = [lits |-> after.lits, removable |-> after.removable]
      /\ Follow(after.lits, after.removable)
      /\ OnLevel(after.lits, Level) = OnLevel(before.lits, Level)
      /\ before.removable \subseteq after.removable
  BY <1>1, <1>2, ShrunkenLevelIs
<1>4. after \in [lits : SUBSET FalseLits, removable : SUBSET FalseLits]
  BY <1>3
<1>5. after \in Shrinking(clause)  BY <1>1, <1>3, <1>4 DEF Shrinking
<1> QED  BY <1>2, <1>5

\* The shrunken clause follows from the formula too, and still has the one literal of
\* the last level.
LEMMA ShrunkenIs ==
  ASSUME TrailInv, NEW clause, clause \subseteq FalseLits, \A l \in clause : LevelOf(l) > 0,
         Cardinality(OnLevel(clause, Level)) < 2, \A a \in Models : clause \cap a # {},
         NEW lits, lits = Shrunken(clause)
  PROVE  /\ lits \subseteq FalseLits /\ \A l \in lits : LevelOf(l) > 0
         /\ OnLevel(lits, Level) = OnLevel(clause, Level)
         /\ \A a \in Models : lits \cap a # {}
<1> DEFINE b == Level  X == Shrinking(clause)
           c == [lits |-> clause, removable |-> clause]
           Body(f) == [k \in 0 .. b |-> IF k = 0 THEN c ELSE ShrunkenLevel(f[k - 1], k)]
           D == [p \in Nat \X X |-> IF p[1] \in 1 .. b THEN ShrunkenLevel(p[2], p[1]) ELSE p[2]]
           F == CHOOSE f : f = Body(f)
<1>1. b \in Nat  BY TrailTypes
<1>2. c \in X
  <2>1. Follow(clause, clause)  BY DEF Follow
  <2>2. c \in [lits : SUBSET FalseLits, removable : SUBSET FalseLits]  OBVIOUS
  <2>3. c.lits = clause /\ c.removable = clause  OBVIOUS
  <2> HIDE DEF c
  <2> QED  BY <2>1, <2>2, <2>3 DEF Shrinking
<1> HIDE DEF c
<1>3. D \in [Nat \X X -> X]
  <2> SUFFICES ASSUME NEW p \in Nat \X X
               PROVE (IF p[1] \in 1 .. b THEN ShrunkenLevel(p[2], p[1]) ELSE p[2]) \in X
    OBVIOUS
  <2>1. p[2] \in X  OBVIOUS
  <2>2. CASE p[1] \in 1 .. b  BY <2>1, <2>2, ShrinkingStep
  <2> QED  BY <2>1, <2>2
<1>4. PICK g \in [0 .. b -> X] :
         \A n \in 0 .. b : g[n] = IF n = 0 THEN c ELSE D[<<n, g[n - 1]>>]
  <2> DEFINE a == 0
  <2>1. a \in Nat /\ b \in Nat /\ c \in X  BY <1>1, <1>2
  <2> HIDE DEF a, b, D, X
  <2>2. \E g : IsRecursive(g, a, b, X, c, D)  BY <1>3, <2>1, Recursion
  <2> QED  BY <2>2 DEF a, IsRecursive
<1>5. \A n \in 1 .. b : g[n] = ShrunkenLevel(g[n - 1], n)
  <2> SUFFICES ASSUME NEW n \in 1 .. b PROVE g[n] = ShrunkenLevel(g[n - 1], n)
    OBVIOUS
  <2>1. n - 1 \in 0 .. b /\ n \in 0 .. b /\ n \in Nat /\ n # 0  BY <1>1
  <2>2. g[n - 1] \in X  BY <2>1
  <2>3. <<n, g[n - 1]>> \in Nat \X X  BY <2>1, <2>2
  <2> HIDE DEF X
  <2> QED  BY <1>4, <2>1, <2>3
<1>6. g = Body(g)
  <2>1. ASSUME NEW n \in 0 .. b
        PROVE  g[n] = IF n = 0 THEN c ELSE ShrunkenLevel(g[n - 1], n)
    <3> HIDE DEF D, X
    <3>1. CASE n = 0  BY <1>4, <3>1
    <3>2. CASE n # 0
      <4>1. n \in 1 .. b  BY <1>1, <3>2
      <4> QED  BY <1>5, <3>2, <4>1
    <3> QED  BY <3>1, <3>2
  <2> QED  BY <2>1
<1>7. F = Body(F)
  <2> HIDE DEF Body
  <2> QED  BY <1>6
<1>8. lits = F[b].lits  BY DEF Shrunken, c
<1>9. /\ F[0] = c
      /\ \A n \in 1 .. b : F[n] = ShrunkenLevel(F[n - 1], n)
  <2> HIDE DEF F
  <2> QED  BY <1>1, <1>7
<1> DEFINE S == {n \in 0 .. b : F[n] \in X}
<1> HIDE DEF F, Body, D
<1>10. 0 .. b \subseteq S
  <2>1. 0 \in S  BY <1>1, <1>2, <1>9
  <2>2. ASSUME NEW n \in 0 + 1 .. b, n - 1 \in S PROVE n \in S
    <3>1. n \in 1 .. b /\ n \in 0 .. b  BY <1>1, <2>2
    <3>2. F[n] = ShrunkenLevel(F[n - 1], n) /\ F[n - 1] \in X  BY <1>9, <2>2, <3>1
    <3>3. F[n] \in X  BY <3>1, <3>2, ShrinkingStep
    <3> QED  BY <3>1, <3>3
  <2>3. 0 \in Nat  OBVIOUS
  <2> HIDE DEF S, b
  <2> QED  BY ONLY <1>1, <2>1, <2>2, <2>3, RangeInduction
<1>11. F[b] \in Shrinking(clause)  BY <1>1, <1>10
<1> DEFINE s == F[b]
<1>12. /\ lits = s.lits /\ Follow(s.lits, s.removable)
       /\ OnLevel(s.lits, Level) = OnLevel(clause, Level) /\ clause \subseteq s.removable
  BY <1>8, <1>11 DEF Shrinking
<1> HIDE DEF s
<1>13. lits \subseteq FalseLits /\ \A l \in lits : LevelOf(l) > 0
  BY <1>12 DEF Follow
<1>14. ASSUME NEW a \in Models PROVE lits \cap a # {}
  <2>1. a \cap s.removable # {}  BY <1>12, <1>14
  <2> QED  BY <1>12, <2>1, FollowSound
<1> QED  BY <1>12, <1>13, <1>14

-----------------------------------------------------------------------------
(* Learning                                                                *)

\* The learnt clause of Kissat, shrunken, follows from the formula and is a unit after
\* going back, also when it does not go back all the way.
LEMMA LearnClauseInv ==
  ASSUME IInv, solver = "Kissat", LearnClause
  PROVE  IInv'
<1> DEFINE lits == Shrunken(analyzed)
           Others(lit) == lits \ {lit}
           c == Clause(lits, TRUE)
<1>0. /\ pc = "analyze" /\ ~Unresolved
      /\ \E lit \in OnLevel(analyzed, Level) :
           \/ /\ Others(lit) = {}
              /\ \E level \in NewLevels(0) :
                   Backtrack(level, <<Assign(lit, 0, NoReason)>>)
              /\ UNCHANGED order
           \/ /\ Others(lit) # {}
              /\ \E level \in NewLevels(HighestLevel(Others(lit))) :
                   Backtrack(level, <<Forced(lit, c)>>)
              /\ \E second \in OnLevel(Others(lit), HighestLevel(Others(lit))),
                    gone \in EagerlySubsumed(lits) :
                   order' = [d \in (DOMAIN order \ gone) \cup {c} |->
                               IF d = c THEN Watched(lit, second) ELSE order[d]]
      /\ conflict' = NoReason /\ analyzed' = {} /\ conflicted' = TRUE /\ pc' = "top"
      /\ UNCHANGED <<solver, formula, loaded, visiting, caller, imports, reductions>>
  BY DEF LearnClause
<1>1. Parts /\ TypeOK /\ TrailInv /\ Analyzing /\ Level \in Nat
  BY <1>0, TrailTypes DEF IInv, Parts, Analyzing
<1>2. /\ Level > 0 /\ analyzed \subseteq FalseLits
      /\ \A l \in analyzed : LevelOf(l) \in 1 .. Level
      /\ \A a \in Models : analyzed \cap a # {}
  BY <1>0, <1>1, AnalyzedFalse
<1>3. Cardinality(OnLevel(analyzed, Level)) < 2
  <2> DEFINE top == OnLevel(analyzed, Level)
  <2>1. top \in SUBSET Literal  BY <1>1, <1>2, TrailTypes DEF OnLevel
  <2>2. ~(Cardinality(top) > 1)  BY <1>0 DEF Unresolved
  <2> HIDE DEF top
  <2>3. Cardinality(top) < 2  BY <2>1, <2>2, Two
  <2> QED  BY <2>3 DEF top
<1>4. PICK lit \in OnLevel(analyzed, Level) :
           \/ /\ Others(lit) = {}
              /\ \E level \in NewLevels(0) :
                   Backtrack(level, <<Assign(lit, 0, NoReason)>>)
              /\ UNCHANGED order
           \/ /\ Others(lit) # {}
              /\ \E level \in NewLevels(HighestLevel(Others(lit))) :
                   Backtrack(level, <<Forced(lit, c)>>)
              /\ \E second \in OnLevel(Others(lit), HighestLevel(Others(lit))),
                    gone \in EagerlySubsumed(lits) :
                   order' = [d \in (DOMAIN order \ gone) \cup {c} |->
                               IF d = c THEN Watched(lit, second) ELSE order[d]]
  BY <1>0
<1>5. /\ lits \subseteq FalseLits /\ \A l \in lits : LevelOf(l) > 0
      /\ OnLevel(lits, Level) = OnLevel(analyzed, Level)
      /\ \A a \in Models : lits \cap a # {}
  <2>1. \A l \in analyzed : LevelOf(l) > 0  BY <1>2
  <2> QED  BY <1>1, <1>2, <1>3, <2>1, ShrunkenIs
<1> DEFINE others == Others(lit)
<1>6. c.lits = lits /\ c.learnt = TRUE /\ c \in AnyClause
  <2>1. lits \in SUBSET Literal  BY <1>1, <1>5, TrailTypes
  <2> HIDE DEF lits
  <2> QED  BY <2>1 DEF Clause, AnyClause
<1> HIDE DEF lits
<1>7. /\ lit \in lits /\ LevelOf(lit) = Level /\ lit \in FalseLits /\ lit \in Literal
      /\ \A l \in others : LevelOf(l) \in 1 .. Level - 1
  <2>1. lit \in lits /\ LevelOf(lit) = Level  BY <1>4, <1>5 DEF OnLevel
  <2>2. \A x, y \in OnLevel(analyzed, Level) : x = y
    <3> DEFINE top == OnLevel(analyzed, Level)
    <3>1. top \in SUBSET Literal /\ Cardinality(top) < 2  BY <1>1, <1>2, <1>3, TrailTypes DEF OnLevel
    <3> HIDE DEF top
    <3>2. \A x, y \in top : x = y  BY <3>1, Two
    <3> QED  BY <3>2 DEF top
  <2>3. ASSUME NEW l \in others PROVE LevelOf(l) \in 1 .. Level - 1
    <3>1. l \in lits /\ l # lit  BY <2>3
    <3>2. LevelOf(l) # Level  BY <1>4, <1>5, <2>2, <3>1 DEF OnLevel
    <3>3. LevelOf(l) \in 0 .. Level /\ LevelOf(l) > 0  BY <1>1, <1>5, <3>1, FalseEntry
    <3> QED  BY <1>1, <3>2, <3>3
  <2>4. lit \in FalseLits /\ lit \in Literal  BY <1>1, <1>5, <2>1, TrailTypes
  <2> QED  BY <2>1, <2>3, <2>4
<1>8. NoReason \in AnyClause  BY DEF NoReason, AnyClause
<1>9. /\ UNCHANGED <<solver, formula, loaded, visiting, caller, imports, reductions>>
      /\ conflict' \in AnyClause /\ analyzed' \subseteq Literal /\ conflicted' \in BOOLEAN
      /\ pc' = "top"
  BY <1>0, <1>8
<1> HIDE DEF c
<1>10. ASSUME NEW level, level \in 0 .. Level - 1, \A l \in others : LevelOf(l) <= level,
              NEW e, e \in Entries, e.lit = lit,
              others = {} => e.level = 0,
              others # {} => e.level = HighestLevel(others) /\ (e.level > 0 => e.reason = c),
              Backtrack(level, <<e>>)
       PROVE  UnitForced(level, c, lit, e)
  <2>1. level \in 0 .. Level /\ level # Level /\ LevelOf(lit) > level  BY <1>1, <1>2, <1>7, <1>10
  <2> QED  BY <1>5, <1>6, <1>7, <1>10, <2>1 DEF UnitForced
<1>11. ASSUME others = {}, NEW level \in NewLevels(0),
              Backtrack(level, <<Assign(lit, 0, NoReason)>>), UNCHANGED order
       PROVE  IInv'
  <2> DEFINE e == Assign(lit, 0, NoReason)  new == {}
  <2>1. e \in Entries /\ e.lit = lit /\ e.level = 0  BY <1>7, <1>8 DEF Assign, Entries
  <2>2. level \in 0 .. Level - 1  BY <1>1, <1>2, <1>11 DEF NewLevels
  <2>3. Backtrack(level, <<e>>)  BY <1>11
  <2> HIDE DEF e
  <2>4. UnitForced(level, c, lit, e)
    <3>1. \A l \in others : LevelOf(l) <= level  BY <1>11
    <3> HIDE DEF others
    <3> QED  BY <1>10, <1>11, <2>1, <2>2, <2>3, <3>1
  <2>5. ClauseAdded(c, lit, e, new)
    <3>1. c.lits \ {lit} = {}  BY <1>6, <1>11
    <3> QED  BY <1>0, <1>11, <3>1 DEF ClauseAdded
  <2> HIDE DEF new, others
  <2> QED  BY <1>1, <1>9, <2>4, <2>5, KissatUnit
<1>12. ASSUME others # {}, NEW level \in NewLevels(HighestLevel(others)),
              Backtrack(level, <<Forced(lit, c)>>),
              NEW second \in OnLevel(others, HighestLevel(others)),
              NEW gone \in EagerlySubsumed(lits),
              order' = [d \in (DOMAIN order \ gone) \cup {c} |->
                          IF d = c THEN Watched(lit, second) ELSE order[d]]
       PROVE  IInv'
  <2> DEFINE e == Forced(lit, c)  new == {c}  w == Watched(lit, second)
  <2>0. others \subseteq FalseLits /\ c.lits \ {lit} = others  BY <1>5, <1>6
  <2>1. c.lits \in Clauses /\ lit \in c.lits  BY <1>1, <1>5, <1>6, <1>7, FalseIsClause
  <2>2. /\ HighestLevel(others) \in 0 .. Level - 1
        /\ \A l \in others : LevelOf(l) <= HighestLevel(others)
    <3> HIDE DEF others
    <3>1. /\ HighestLevel(others) \in 0 .. Level
          /\ \E l \in others : LevelOf(l) = HighestLevel(others)
          /\ \A l \in others : LevelOf(l) <= HighestLevel(others)
      BY <1>1, <1>12, <2>0, HighestIs
    <3> QED  BY <1>1, <1>2, <1>7, <3>1
  <2>3. /\ e \in Entries /\ e.lit = lit /\ e.level = HighestLevel(others)
        /\ e.level > 0 => e.reason = c
    <3>1. c.lits \ {lit} \subseteq FalseLits /\ c.lits \ {lit} # {}  BY <1>12, <2>0
    <3>2. /\ Forced(lit, c) \in Entries /\ Forced(lit, c).lit = lit
          /\ Forced(lit, c).level = HighestLevel(c.lits \ {lit})
          /\ Forced(lit, c).level > 0 => Forced(lit, c).reason = c
      BY <1>1, <1>6, <2>1, <3>1, ForcedIs
    <3> QED  BY <2>0, <3>2
  <2>4. Backtrack(level, <<e>>)  BY <1>12
  <2> HIDE DEF e
  <2>5. second \in others /\ LevelOf(second) = HighestLevel(others) /\ second # lit
    BY <1>12 DEF OnLevel
  <2>6. level \in 0 .. Level - 1 /\ \A l \in others : LevelOf(l) <= level
    <3>1. level = HighestLevel(others) \/ level = Level - 1  BY <1>12 DEF NewLevels
    <3> HIDE DEF others
    <3>2. CASE level = HighestLevel(others)  BY <2>2, <3>2
    <3>3. CASE level = Level - 1
      <4>1. \A l \in others : LevelOf(l) <= Level - 1  BY <1>7
      <4> QED  BY <1>1, <1>2, <3>3, <4>1
    <3> QED  BY <3>1, <3>2, <3>3
  <2>7. /\ c \in DOMAIN order' /\ order'[c] = w
        /\ \A d \in DOMAIN order' : d # c => d \in DOMAIN order /\ order'[d] = order[d]
        /\ \A d \in DOMAIN order : d \notin DOMAIN order' => d \in gone
    <3> HIDE DEF w
    <3>1. order' = [d \in (DOMAIN order \ gone) \cup {c} |-> IF d = c THEN w ELSE order[d]]
      BY <1>12 DEF w
    <3> QED  BY <3>1
  <2>8. w \in Literal \X Literal /\ w[1] # w[2] /\ {w[1], w[2]} = {lit, second}
    <3>1. second \in Literal  BY <1>1, <2>0, <2>5, TrailTypes
    <3>2. w = Watched(lit, second)  OBVIOUS
    <3> HIDE DEF w
    <3> QED  BY <1>7, <2>5, <3>1, <3>2, WatchedTwo
  <2>9. \A d \in gone : d.learnt /\ lits \subseteq d.lits  BY <1>12 DEF EagerlySubsumed
  <2>10. ASSUME NEW d \in gone, NEW i \in DOMAIN trail, trail[i].level > 0, trail[i].reason = d
         PROVE  trail[i].level = Level
    <3>1. lit \in d.lits  BY <1>7, <2>9, <2>10
    <3>2. d # NoReason  BY <3>1 DEF NoReason
    <3>3. trail[i].lit # lit  BY <1>1, <1>7, <2>10, TrailTypes
    <3>4. LevelOf(lit) <= trail[i].level  BY <1>1, <2>10, <3>1, <3>2, <3>3, ReasonFacts
    <3> QED  BY <1>1, <1>7, <2>10, <3>4, TrailTypes
  <2> HIDE DEF w
  <2>11. ClauseAdded(c, lit, e, new)
    <3>1. \E x \in c.lits \ {lit} : {order'[c][1], order'[c][2]} = {lit, x} /\ e.level = LevelOf(x)
      BY <2>0, <2>3, <2>5, <2>7, <2>8
    <3>2. \A d \in DOMAIN order : d \notin DOMAIN order' =>
            /\ d.learnt
            /\ \A i \in DOMAIN trail : trail[i].level > 0 /\ trail[i].reason = d => trail[i].level = Level
      BY <2>7, <2>9, <2>10
    <3>3. order'[c] \in Literal \X Literal /\ order'[c][1] # order'[c][2]  BY <2>7, <2>8
    <3>4. \A d \in DOMAIN order' : d \notin new => d \in DOMAIN order /\ order'[d] = order[d]
      BY <2>7
    <3>5. pc # "conflict"  BY <1>0
    <3> QED  BY <2>7, <3>1, <3>2, <3>3, <3>4, <3>5 DEF ClauseAdded
  <2>12. UnitForced(level, c, lit, e)
    <3> HIDE DEF others
    <3> QED  BY <1>10, <1>12, <2>3, <2>4, <2>6
  <2> HIDE DEF new, others
  <2> QED  BY <1>1, <1>9, <2>11, <2>12, KissatUnit
<1> HIDE DEF c, lits
<1> QED  BY <1>4, <1>11, <1>12

-----------------------------------------------------------------------------
(* A failed literal                                                        *)

\* SetToSeq lists the members of a finite set, each once.
LEMMA SeqOfSet ==
  ASSUME NEW S, IsFiniteSet(S), NEW f, f = SetToSeq(S)
  PROVE  /\ f \in [1 .. Cardinality(S) -> S] /\ Cardinality(S) \in Nat
         /\ \A i, j \in DOMAIN f : f[i] = f[j] => i = j
<1>1. PICK n \in Nat : ExistsBijection(1 .. n, S)  BY FS_NatBijection
<1>2. Cardinality(S) = n  BY <1>1, FS_CountingElements
<1>3. PICK g \in Bijection(1 .. n, S) : TRUE  BY <1>1 DEF ExistsBijection
<1>4. g \in [1 .. Cardinality(S) -> S] /\ IsInjective(g)
  BY <1>2, <1>3 DEF Bijection, Injection
<1>5. f \in [1 .. Cardinality(S) -> S] /\ IsInjective(f)
  <2>1. f = CHOOSE h \in [1 .. Cardinality(S) -> S] : IsInjective(h)  BY DEF SetToSeq
  <2> QED  BY <1>4, <2>1
<1> QED  BY <1>1, <1>2, <1>5 DEF IsInjective

\* Sets of false literals above level 0, at least one of which is true in every model.
Refuted ==
  {s \in SUBSET FalseLits : /\ s # {}
                            /\ \A l \in s : LevelOf(l) > 0
                            /\ \A a \in Models : s \cap a # {}}

\* A literal is resolved away.
LEMMA SeenStep ==
  ASSUME TrailInv, solver = "Kissat", Level = 1, NEW failed, failed = trail[trailLim[1] + 1].lit,
         NEW before \in Refuted, -failed \notin before
  PROVE  Resolvent(before, Latest(before)) \in Refuted
<1>1. /\ before \subseteq FalseLits /\ before # {} /\ \A l \in before : LevelOf(l) > 0
      /\ \A a \in Models : before \cap a # {}
  BY DEF Refuted
<1>2. PICK i \in DOMAIN trail :
              /\ trail[i].lit = -Latest(before) /\ -trail[i].lit = Latest(before)
              /\ trail[i].level = LevelOf(Latest(before)) /\ trail[i] = Entry(Latest(before))
              /\ \A j \in DOMAIN trail : -trail[j].lit \in before => j <= i
  BY <1>1, LatestIs
<1>3. Latest(before) \in before  BY <1>1, LatestIs
<1>4. trail[i].level > 0 /\ trail[i].level = 1
  BY <1>1, <1>2, <1>3, TrailTypes
<1>5. trail[i].reason # NoReason
  <2>1. trail[i].reason = NoReason => i = trailLim[1] + 1
    BY <1>4 DEF TrailInv, TrailOK, Decisions
  <2> QED  BY <1>2, <1>3, <2>1
<1>6. -trail[i].lit \in before  BY <1>2, <1>3
<1>7. /\ Because(-trail[i].lit) =
           {l \in trail[i].reason.lits \ {trail[i].lit} : LevelOf(l) > 0}
      /\ Resolvent(before, -trail[i].lit) \subseteq FalseLits
      /\ \A l \in Resolvent(before, -trail[i].lit) : LevelOf(l) > 0
      /\ \A a \in Models : Resolvent(before, -trail[i].lit) \cap a # {}
  BY ONLY TrailInv, <1>1, <1>5, <1>6, ResolventIs
<1>8. Because(-trail[i].lit) # {}
  <2>1. Justified(trail[i], EntriesUpTo(trail, i - 1), Models, solver)
    BY <1>4, <1>5 DEF TrailInv, TrailOK, ReasonsRight
  <2>2. PICK b \in EntriesUpTo(trail, i - 1) :
          -b.lit \in trail[i].reason.lits /\ b.level = trail[i].level
    BY <2>1 DEF Justified
  <2>3. PICK j \in 1 .. i - 1 : b = trail[j]  BY DEF EntriesUpTo
  <2>4. j \in DOMAIN trail /\ i \in Nat /\ j # i  BY <2>3, TrailTypes
  <2>5. -trail[j].lit # trail[i].lit
    <3>1. trail[i].lit # -trail[j].lit  BY <2>4 DEF TrailInv, TrailOK, Distinct
    <3> QED  BY <3>1
  <2>6. LevelOf(-trail[j].lit) = trail[i].level  BY <2>2, <2>3, <2>4, EntryIs
  <2> QED  BY <1>4, <1>7, <2>2, <2>3, <2>5, <2>6
<1>9. Resolvent(before, -trail[i].lit) # {}  BY <1>8 DEF Resolvent
<1>10. Resolvent(before, -trail[i].lit) \in Refuted  BY <1>7, <1>9 DEF Refuted
<1> QED  BY <1>2, <1>10

\* The literals seen going back over the trail of a failed literal.
LEMMA SeenIs ==
  ASSUME TrailInv, solver = "Kissat", Level = 1, NEW failed, failed = trail[trailLim[1] + 1].lit,
         analyzed \in Refuted
  PROVE  \A n \in 0 .. Len(trail) : SeenFrom(failed)[n] \in Refuted
<1> DEFINE b == Len(trail)
           Next1(before) == IF -failed \in before THEN before ELSE Resolvent(before, Latest(before))
           Body(f) == [n \in 0 .. b |-> IF n = 0 THEN analyzed ELSE Next1(f[n - 1])]
           D == [p \in Nat \X Refuted |-> Next1(p[2])]
           F == CHOOSE f : f = Body(f)
<1>1. b \in Nat  BY TrailTypes
<1>2. \A before \in Refuted : Next1(before) \in Refuted  BY SeenStep
<1>3. SeenFrom(failed) = F  BY DEF SeenFrom
<1> HIDE DEF Next1
<1>4. D \in [Nat \X Refuted -> Refuted]  BY <1>2
<1>5. PICK g \in [0 .. b -> Refuted] :
         \A n \in 0 .. b : g[n] = IF n = 0 THEN analyzed ELSE D[<<n, g[n - 1]>>]
  <2> DEFINE a == 0
  <2>1. a \in Nat /\ b \in Nat /\ analyzed \in Refuted  BY <1>1
  <2> HIDE DEF a, b, D
  <2>2. \E g : IsRecursive(g, a, b, Refuted, analyzed, D)  BY <1>4, <2>1, Recursion
  <2> QED  BY <2>2 DEF a, IsRecursive
<1>6. \A n \in 1 .. b : g[n] = Next1(g[n - 1])
  <2> SUFFICES ASSUME NEW n \in 1 .. b PROVE g[n] = Next1(g[n - 1])
    OBVIOUS
  <2>1. n - 1 \in 0 .. b /\ n \in 0 .. b /\ n \in Nat /\ n # 0  BY <1>1
  <2>2. g[n - 1] \in Refuted  BY <2>1
  <2>3. <<n, g[n - 1]>> \in Nat \X Refuted  BY <2>1, <2>2
  <2> QED  BY <1>5, <2>1, <2>3
<1>7. g = Body(g)
  <2>1. ASSUME NEW n \in 0 .. b
        PROVE  g[n] = IF n = 0 THEN analyzed ELSE Next1(g[n - 1])
    <3> HIDE DEF D
    <3>1. CASE n = 0  BY <1>5, <3>1
    <3>2. CASE n # 0
      <4>1. n \in 1 .. b  BY <1>1, <3>2
      <4> QED  BY <1>6, <3>2, <4>1
    <3> QED  BY <3>1, <3>2
  <2> QED  BY <2>1
<1>8. F = Body(F)
  <2> HIDE DEF Body
  <2> QED  BY <1>7
<1>9. /\ F[0] = analyzed
      /\ \A n \in 1 .. b : F[n] = Next1(F[n - 1])
  <2> HIDE DEF F
  <2> QED  BY <1>1, <1>8
<1> DEFINE S == {n \in 0 .. b : F[n] \in Refuted}
<1> HIDE DEF F, Body, D
<1>10. 0 .. b \subseteq S
  <2>1. 0 \in S  BY <1>1, <1>9
  <2>2. ASSUME NEW n \in 0 + 1 .. b, n - 1 \in S PROVE n \in S
    <3>1. n \in 1 .. b /\ n \in 0 .. b  BY <1>1, <2>2
    <3>2. F[n] = Next1(F[n - 1]) /\ F[n - 1] \in Refuted  BY <1>9, <2>2, <3>1
    <3> QED  BY <1>2, <3>1, <3>2
  <2>3. 0 \in Nat  OBVIOUS
  <2> HIDE DEF S, b
  <2> QED  BY ONLY <1>1, <2>1, <2>2, <2>3, RangeInduction
<1> QED  BY <1>3, <1>10

\* A failed literal is false in every model.
LEMMA FailedRefuted ==
  ASSUME TrailInv, solver = "Kissat", Level = 1, NEW failed, failed = trail[trailLim[1] + 1].lit,
         analyzed \in Refuted, NEW a \in Models
  PROVE  -failed \in a
<1> DEFINE lits == {-failed}
           U == {l \in FalseLits : LevelOf(l) > 0 /\ Entry(l).reason # NoReason}
<1>1. lits \subseteq FalseLits
  <2>1. 1 \in DOMAIN trailLim  BY TrailTypes DEF Level
  <2>2. trailLim \in Seq(Nat) /\ Limits(trail, trailLim) /\ Len(trail) \in Nat  BY TrailTypes DEF TrailInv, TrailOK
  <2>3. trailLim[1] \in Nat  BY ONLY <2>1, <2>2
  <2>4. trailLim[1] + 1 \in DOMAIN trail
    <3>1. trailLim[1] < Len(trail)  BY <2>1, <2>2 DEF Limits
    <3>2. DOMAIN trail = 1 .. Len(trail)  BY TrailTypes
    <3> QED  BY <2>2, <2>3, <3>1, <3>2
  <2> QED  BY <2>4, TrailTypes
<1>2. \A l \in FalseLits : LevelOf(l) > 0 => l \in lits \cup U
  <2> SUFFICES ASSUME NEW l \in FalseLits, LevelOf(l) > 0, Entry(l).reason = NoReason PROVE l \in lits
    OBVIOUS
  <2>1. PICK i \in DOMAIN trail :
          -trail[i].lit = l /\ trail[i].level = LevelOf(l) /\ trail[i] = Entry(l)
    BY FalseEntry
  <2>2. trail[i].level = 1 /\ trail[i].level > 0  BY <2>1, TrailTypes
  <2>3. i = trailLim[1] + 1  BY <2>1, <2>2 DEF TrailInv, TrailOK, Decisions
  <2> QED  BY <2>1, <2>3
<1>3. ASSUME NEW l \in U
      PROVE  /\ LevelOf(l) > 0 /\ Entry(l).reason # NoReason
             /\ \A x \in Entry(l).reason.lits \ {-l} : LevelOf(x) > 0 => x \in lits \cup U
  <2>1. LevelOf(l) > 0 /\ Entry(l).reason # NoReason /\ l \in FalseLits  OBVIOUS
  <2>2. PICK i \in DOMAIN trail :
          trail[i].lit = -l /\ trail[i].level = LevelOf(l) /\ trail[i] = Entry(l)
    BY <2>1, FalseEntry
  <2>3. \A x \in Entry(l).reason.lits \ {-l} : x \in FalseLits  BY <2>1, <2>2, ReasonFacts
  <2> HIDE DEF U, lits
  <2> QED  BY <1>2, <2>1, <2>3
<1>4. a \cap (lits \cup U) # {}
  <2>1. analyzed \cap a # {} /\ analyzed \subseteq FalseLits /\ \A l \in analyzed : LevelOf(l) > 0
    BY DEF Refuted
  <2> HIDE DEF U, lits
  <2> QED  BY <1>2, <2>1
<1>5. U \subseteq FalseLits  OBVIOUS
<1> HIDE DEF U, lits
<1>6. a \cap (lits \ U) # {}  BY <1>1, <1>3, <1>4, <1>5, ClosedSound
<1> QED  BY <1>6 DEF lits

\* Literals that are false above the level gone back to are made true at level 0.
LEMMA UnitsAfter ==
  ASSUME TrailInv, NEW level, level \in 0 .. Level,
         NEW k, NEW m, Retains(k, trail, trailLim, level, m),
         NEW units \in SUBSET FalseLits, \A l \in units : LevelOf(l) > level,
         \A a \in Models : units \subseteq a, solver = "Kissat",
         NEW u \in Seq(Entries),
         \A i \in DOMAIN u : u[i].lit \in units /\ u[i].level = 0,
         \A i, j \in DOMAIN u : u[i].lit = u[j].lit => i = j
  PROVE  TrailOK(k \o u, SubSeq(trailLim, 1, level), Models, solver)
<1> DEFINE lim == SubSeq(trailLim, 1, level)
<1>1. /\ TrailOK(trail, trailLim, Models, solver) /\ level \in 0 .. Len(trailLim)
      /\ trailLim \in Seq(Nat) /\ level \in Nat /\ Level \in Nat
  BY TrailTypes DEF TrailInv, Level
<1>2. TrailOK(k, lim, Models, solver)  BY <1>1, TrailCut
<1>3. Len(lim) = level  BY ONLY <1>1
<1>4. \A i \in DOMAIN k : \E p \in DOMAIN trail : k[i] = trail[p] /\ trail[p].level <= level
  BY <1>1, CutFacts
<1>5. ASSUME NEW l \in units, NEW j \in DOMAIN k PROVE k[j].lit # l /\ k[j].lit # -l
  <2>1. PICK p \in DOMAIN trail : k[j] = trail[p] /\ trail[p].level <= level  BY <1>4
  <2>2. l \in Literal  BY FalseEntry
  <2>3. l = trail[p].lit => LevelOf(l) = trail[p].level  BY EntryIs
  <2>4. -l = trail[p].lit => LevelOf(l) = trail[p].level
    <3>1. -l = trail[p].lit => l = -trail[p].lit  BY <2>2, Literals
    <3> QED  BY <3>1, EntryIs
  <2> QED  BY <1>1, <2>1, <2>3, <2>4, FalseEntry
<1>6. Distinct(u)
  <2> SUFFICES ASSUME NEW i \in DOMAIN u, NEW j \in DOMAIN u, i # j
               PROVE  u[i].lit # u[j].lit /\ u[i].lit # -u[j].lit
    BY DEF Distinct
  <2>1. u[i].lit \in FalseLits /\ u[j].lit \in FalseLits  OBVIOUS
  <2>2. -u[j].lit \notin FalseLits
    <3>1. u[j].lit \in Literal /\ -(-u[j].lit) = u[j].lit /\ -u[j].lit \in Literal
      BY <2>1, TrailTypes, Literals
    <3>2. u[j].lit \notin TrueLits  BY <2>1, TrailTypes
    <3> QED  BY <3>1, <3>2, TrailTypes
  <2> QED  BY <2>1, <2>2
<1> HIDE DEF lim
<1>7. ASSUME NEW i \in DOMAIN u
      PROVE  /\ u[i].level <= Len(lim)
             /\ solver # "Kissat" => u[i].level = Len(lim)
             /\ \A j \in DOMAIN k : k[j].lit # u[i].lit /\ k[j].lit # -u[i].lit
             /\ u[i].level = 0 => \A a \in Models : u[i].lit \in a
             /\ u[i].level > 0 => u[i].reason # NoReason
                  /\ Justified(u[i], EntriesUpTo(k, Len(k)), Models, solver)
  BY <1>1, <1>3, <1>5
<1>8. u \in Seq(Entries)  OBVIOUS
<1>9. TrailOK(k \o u, lim, Models, solver)
  BY ONLY <1>2, <1>6, <1>7, <1>8, TrailExtended
<1> QED  BY <1>9 DEF lim

\* kissat_analyze at level 1: the dominators that are refuted become units.
LEMMA AnalyzeFailedLiteralInv ==
  ASSUME IInv, solver = "Kissat", AnalyzeFailedLiteral
  PROVE  IInv'
<1> DEFINE failed == trail[trailLim[1] + 1].lit
           seen == SeenFrom(failed)
           alone == {l \in Literal : \E n \in 0 .. Len(trail) : seen[n] = {l}}
           set == alone \cup {-failed}
           units == SetToSeq(set)
           u == [i \in DOMAIN units |-> Assign(units[i], 0, NoReason)]
<1>0. /\ pc = "failed" /\ Backtrack(0, u)
      /\ conflict' = NoReason /\ analyzed' = {} /\ conflicted' = TRUE /\ pc' = "top"
      /\ UNCHANGED <<clauseVars, visiting, caller, imports, reductions>>
  BY DEF AnalyzeFailedLiteral
<1>1. Parts /\ TypeOK /\ TrailInv /\ Analyzing /\ Level \in Nat /\ visiting = {} /\ Level = 1
  BY <1>0, TrailTypes DEF IInv, Parts, Analyzing, ControlInv, AnalysisInv
<1>2. analyzed \in Refuted
  <2>1. /\ analyzed # {} /\ analyzed \subseteq FalseLits
        /\ \A l \in analyzed : LevelOf(l) \in 1 .. Level
        /\ \A a \in Models : analyzed \cap a # {}
    BY <1>0, <1>1, AnalyzedFalse
  <2>2. \A l \in analyzed : LevelOf(l) > 0  BY <1>1, <2>1
  <2> QED  BY <2>1, <2>2 DEF Refuted
<1>3. /\ \A n \in 0 .. Len(trail) : seen[n] \in Refuted
      /\ \A a \in Models : -failed \in a
  BY <1>1, <1>2, SeenIs, FailedRefuted
<1>4. -failed \in FalseLits /\ LevelOf(-failed) = 1
  <2>1. 1 \in DOMAIN trailLim  BY <1>1, TrailTypes DEF Level
  <2>2. trailLim \in Seq(Nat) /\ Limits(trail, trailLim) /\ Len(trail) \in Nat
        /\ DOMAIN trail = 1 .. Len(trail)
    BY <1>1, TrailTypes DEF TrailInv, TrailOK
  <2>3. trailLim[1] \in Nat  BY ONLY <2>1, <2>2
  <2>4. trailLim[1] + 1 \in DOMAIN trail /\ trail[trailLim[1] + 1].level = 1
    <3>1. trailLim[1] < Len(trail) /\ trail[trailLim[1] + 1].level = 1
      BY <2>1, <2>2 DEF Limits
    <3> QED  BY <2>2, <2>3, <3>1
  <2> QED  BY <1>1, <2>4, TrailTypes, EntryIs
<1> HIDE DEF seen, failed
<1>5. set \in SUBSET FalseLits /\ (\A l \in set : LevelOf(l) > 0) /\ \A a \in Models : set \subseteq a
  <2>1. ASSUME NEW l \in alone
        PROVE  l \in FalseLits /\ LevelOf(l) > 0 /\ \A a \in Models : l \in a
    <3>1. {l} \in Refuted  BY <1>3, <2>1
    <3> QED  BY <3>1 DEF Refuted
  <2> HIDE DEF alone
  <2> QED  BY <1>3, <1>4, <2>1
<1> HIDE DEF set
<1>6. IsFiniteSet(set)
  <2>1. set \in SUBSET Literal  BY <1>1, <1>5, TrailTypes
  <2> QED  BY <2>1, Two
<1>7. /\ units \in [1 .. Cardinality(set) -> set] /\ Cardinality(set) \in Nat
      /\ \A i, j \in DOMAIN units : units[i] = units[j] => i = j
  BY <1>6, SeqOfSet
<1> HIDE DEF units
<1>8. /\ \A i \in DOMAIN u : u[i].lit \in set /\ u[i].level = 0 /\ u[i] \in Entries
      /\ \A i, j \in DOMAIN u : u[i].lit = u[j].lit => i = j
      /\ DOMAIN u = 1 .. Cardinality(set)
  <2>1. ASSUME NEW i \in DOMAIN u
        PROVE  u[i].lit = units[i] /\ u[i].level = 0 /\ u[i] \in Entries /\ units[i] \in set
    <3>1. units[i] \in set  BY <1>7
    <3>2. units[i] \in Literal  BY <1>1, <1>5, <3>1, TrailTypes
    <3>3. NoReason \in AnyClause  BY DEF NoReason, AnyClause
    <3>4. u[i] = [lit |-> units[i], level |-> 0, reason |-> NoReason]  BY DEF Assign
    <3> HIDE DEF u
    <3> QED  BY <3>1, <3>2, <3>3, <3>4 DEF Entries
  <2>2. DOMAIN u = DOMAIN units  OBVIOUS
  <2> HIDE DEF u
  <2> QED  BY <1>7, <2>1, <2>2
<1>9. u \in Seq(Entries)
  <2>1. u = [i \in DOMAIN u |-> u[i]]  OBVIOUS
  <2> HIDE DEF u
  <2>2. u \in [1 .. Cardinality(set) -> Entries]  BY <1>8, <2>1
  <2> QED  BY <1>7, <2>2
<1> HIDE DEF u
<1> DEFINE level == 0
<1>10. level \in 0 .. Level /\ level # Level  BY <1>1
<1>11. /\ \E m : Retains(Kept(level), trail, trailLim, level, m)
       /\ trail' = Kept(level) \o u
       /\ trailLim' = SubSeq(trailLim, 1, level)
       /\ qhead' = trailLim[level + 1]
  <2> HIDE DEF level
  <2>1. Backtrack(level, u)  BY <1>0 DEF level
  <2>2. /\ \E m : Retains(Kept(level), trail, trailLim, level, m)
        /\ trail' = Kept(level) \o u
        /\ trailLim' = SubSeq(trailLim, 1, level)
        /\ qhead' = IF level = Level THEN qhead ELSE trailLim[level + 1]
    BY ONLY <1>1, <1>9, <1>10, <2>1, BacktrackFacts
  <2> QED  BY <1>10, <2>2
<1>12. PICK m : Retains(Kept(level), trail, trailLim, level, m)  BY <1>11
<1>13. \A l \in set : LevelOf(l) > level  BY <1>5
<1>14. \A i \in DOMAIN trail : ~(trail[i].level > 0 /\ trail[i].level <= level)
  <2>1. TrailInv  BY <1>1
  <2>2. \A i \in DOMAIN trail : trail[i].level \in Nat  BY ONLY <2>1, TrailLevels
  <2> QED  BY <2>2
<1>15. \A i \in DOMAIN u : u[i].level = 0  BY <1>8
<1> HIDE DEF level
<1>16. TrailOK(Kept(level) \o u, SubSeq(trailLim, 1, level), Models, solver)
  BY <1>1, <1>5, <1>8, <1>9, <1>10, <1>12, <1>13, UnitsAfter
<1> DEFINE new == {}
<1>17. /\ UNCHANGED <<solver, formula, loaded, caller, imports, reductions>>
       /\ conflict' \in AnyClause /\ analyzed' \subseteq Literal /\ conflicted' \in BOOLEAN
       /\ pc' = "top" /\ visiting' = {} /\ order' = order
  BY <1>0, <1>1 DEF NoReason, AnyClause, clauseVars
<1>18. /\ new \in SUBSET DOMAIN order'
       /\ \A d \in DOMAIN order' : d \notin new => d \in DOMAIN order /\ order'[d] = order[d]
       /\ \A d \in DOMAIN order : d \notin DOMAIN order' => d.learnt
       /\ pc # "conflict"
  BY <1>0, <1>17
<1>19. \A d \in new :
           /\ d \in AnyClause /\ d.lits \in Clauses /\ \A a \in Models : d.lits \cap a # {}
           /\ order'[d] \in Literal \X Literal /\ order'[d][1] # order'[d][2]
           /\ order'[d][1] \in d.lits /\ order'[d][2] \in d.lits
           /\ WatchesOK(trail', trailLim', qhead', level + 1, d.lits, order'[d], Strong)
  OBVIOUS
<1>20. \A i \in DOMAIN trail :
           trail[i].level > 0 /\ trail[i].level <= level /\ trail[i].reason # NoReason =>
             /\ trail[i].reason \notin new
             /\ trail[i].reason \in DOMAIN order => trail[i].reason \in DOMAIN order'
  BY <1>14
<1>21. \A j \in DOMAIN u : u[j].level > 0 =>
           /\ u[j].reason \in DOMAIN order'
           /\ solver # "Kissat" /\ ~Binary(u[j].reason) => order'[u[j].reason][1] = u[j].lit
  BY <1>15
<1> HIDE DEF new
<1> QED
  BY <1>1, <1>9, <1>10, <1>11, <1>12, <1>16, <1>17, <1>18, <1>19, <1>20, <1>21, BackAssign

-----------------------------------------------------------------------------
(* Reductions                                                              *)

\* A set of literals that is not empty has a least one.
LEMMA LeastLiteral ==
  ASSUME NEW S \in SUBSET Literal, S # {}
  PROVE  Min(S) \in S
<1> DEFINE T == {l + NumVars : l \in S}
<1>1. NumVars \in Nat /\ \A l \in S : l \in Int /\ l + NumVars \in Nat
  BY NumVarsAssumption DEF Literal
<1>2. T \in SUBSET Nat /\ T # {}  BY <1>1
<1> HIDE DEF T
<1>3. PICK n \in T : \A m \in T : n <= m  BY <1>2, Least
<1>4. PICK l \in S : n = l + NumVars  BY <1>3 DEF T
<1>5. \A k \in S : l <= k
  <2> SUFFICES ASSUME NEW k \in S PROVE l <= k  OBVIOUS
  <2>1. k + NumVars \in T  BY DEF T
  <2> QED  BY <1>1, <1>3, <1>4, <2>1
<1> QED  BY <1>4, <1>5 DEF Min

\* The literals that kissat_sort_literals prefers.
Best(choice, free) ==
  IF free # {} THEN free
  ELSE IF choice \cap TrueLits # {}
  THEN {l \in choice \cap TrueLits : \A k \in choice \cap TrueLits : LevelOf(l) <= LevelOf(k)}
  ELSE OnLevel(choice, HighestLevel(choice))

\* An open literal is preferred, then a true one: a false one only if all are.
LEMMA BestIs ==
  ASSUME TrailInv, NEW choice \in SUBSET Literal, choice # {}, NEW free \in SUBSET choice,
         free \cap FalseLits = {}, \A l \in choice : ~Assigned(l) => l \in free
  PROVE  /\ Best(choice, free) \in SUBSET choice /\ Best(choice, free) # {}
         /\ (\E l \in choice : l \notin FalseLits) => Best(choice, free) \cap FalseLits = {}
<1> DEFINE true == choice \cap TrueLits  best == Best(choice, free)
<1>0. best = IF free # {} THEN free
             ELSE IF true # {} THEN {l \in true : \A k \in true : LevelOf(l) <= LevelOf(k)}
             ELSE OnLevel(choice, HighestLevel(choice))
  BY DEF Best
<1>00. true \subseteq choice /\ true \subseteq TrueLits /\ \A l \in choice : l \in TrueLits => l \in true
  OBVIOUS
<1> HIDE DEF true, best
<1>1. CASE free # {}  BY <1>0, <1>1 DEF best
<1>2. CASE free = {} /\ true # {}
  <2> DEFINE T == {LevelOf(l) : l \in true}
  <2>1. \A l \in true : LevelOf(l) \in Nat
    <3> SUFFICES ASSUME NEW l \in true PROVE LevelOf(l) \in Nat  OBVIOUS
    <3>1. PICK i \in DOMAIN trail : trail[i].lit = l  BY <1>00 DEF TrueLits
    <3> QED  BY <3>1, EntryIs, TrailTypes
  <2>2. T \in SUBSET Nat /\ T # {}  BY <1>2, <2>1
  <2> HIDE DEF T
  <2>3. PICK n \in T : \A m \in T : n <= m  BY <2>2, Least
  <2>4. PICK l \in true : n = LevelOf(l)  BY <2>3 DEF T
  <2>5. \A k \in true : LevelOf(l) <= LevelOf(k)  BY <2>3, <2>4 DEF T
  <2>6. best = {x \in true : \A k \in true : LevelOf(x) <= LevelOf(k)}  BY <1>0, <1>2
  <2>7. TrueLits \cap FalseLits = {}  BY TrailTypes
  <2> QED  BY <1>00, <2>4, <2>5, <2>6, <2>7 DEF best
<1>3. CASE free = {} /\ true = {}
  <2>1. choice \subseteq FalseLits  BY <1>00, <1>3 DEF Assigned
  <2>2. best = OnLevel(choice, HighestLevel(choice))  BY <1>0, <1>3
  <2>3. OnLevel(choice, HighestLevel(choice)) # {}  BY <2>1, HighestIs
  <2> QED  BY <2>1, <2>2, <2>3 DEF OnLevel, best
<1> QED  BY <1>1, <1>2, <1>3 DEF best

\* The two literals that sorting brings to the front are not both false, if some
\* literal of the clause is not.
LEMMA SortedPairIs ==
  ASSUME TrailInv, NEW lits \in SUBSET Literal, NEW a \in lits, NEW b \in lits, a # b,
         \E l \in lits : l \notin FalseLits, NEW watched, NEW pair, pair = SortedPair(lits, watched)
  PROVE  /\ pair \in Literal \X Literal /\ pair[1] # pair[2]
         /\ pair[1] \in lits /\ pair[2] \in lits
         /\ pair[1] \notin FalseLits \/ pair[2] \notin FalseLits
<1> DEFINE open == {l \in lits : ~Assigned(l)}
           First(best) == IF best \cap watched # {} THEN Min(best \cap watched) ELSE Min(best)
           first == First(Best(lits, open))
           rest == lits \ {first}
           free == rest \cap (open \cup TrueLits)
           second == First(Best(rest, free))
<1>1. pair = Watched(first, second)  BY DEF SortedPair, Best
<1>2. \A best \in SUBSET Literal : best # {} => First(best) \in best
  <2> SUFFICES ASSUME NEW best \in SUBSET Literal, best # {} PROVE First(best) \in best
    OBVIOUS
  <2>1. best \cap watched \in SUBSET Literal  OBVIOUS
  <2>2. CASE best \cap watched # {}
    <3>1. Min(best \cap watched) \in best \cap watched  BY <2>1, <2>2, LeastLiteral
    <3> QED  BY <2>2, <3>1
  <2>3. CASE best \cap watched = {}
    <3>1. Min(best) \in best  BY LeastLiteral
    <3> QED  BY <2>3, <3>1
  <2> QED  BY <2>2, <2>3
<1>4. TrueLits \cap FalseLits = {}  BY TrailTypes
<1>5. open \in SUBSET lits /\ open \cap FalseLits = {} /\ \A l \in lits : ~Assigned(l) => l \in open
  BY DEF Assigned
<1>6. /\ Best(lits, open) \in SUBSET lits /\ Best(lits, open) # {}
      /\ Best(lits, open) \cap FalseLits = {}
  <2>1. lits # {}  OBVIOUS
  <2> HIDE DEF open
  <2> QED  BY <1>5, <2>1, BestIs
<1>7. first \in lits /\ first \notin FalseLits
  <2> HIDE DEF First
  <2>1. Best(lits, open) \in SUBSET Literal  BY <1>6
  <2> QED  BY <1>2, <1>6, <2>1
<1> HIDE DEF first
<1>8. rest \in SUBSET Literal /\ rest # {} /\ rest \subseteq lits
  OBVIOUS
<1>9. free \in SUBSET rest /\ free \cap FalseLits = {} /\ \A l \in rest : ~Assigned(l) => l \in free
  BY <1>4, <1>5
<1> HIDE DEF free, open
<1>10. Best(rest, free) \in SUBSET rest /\ Best(rest, free) # {}
  <2> HIDE DEF rest
  <2> QED  BY <1>8, <1>9, BestIs
<1>11. second \in rest
  <2>1. Best(rest, free) \in SUBSET Literal  BY <1>8, <1>10
  <2> HIDE DEF First, rest
  <2> QED  BY <1>2, <1>10, <2>1
<1>12. second \in lits /\ second # first  BY <1>11
<1> HIDE DEF second
<1>13. pair \in Literal \X Literal /\ pair[1] # pair[2] /\ {pair[1], pair[2]} = {first, second}
  BY <1>1, <1>7, <1>12, WatchedTwo
<1>14. pair[1] \in {first, second} /\ pair[2] \in {first, second} /\ first \in {pair[1], pair[2]}
  BY <1>13
<1> QED  BY <1>7, <1>12, <1>13, <1>14

\* A clause that is not true at level 0 watches no literal that is false there.
LEMMA RootFalseWatches ==
  ASSUME TrailInv, qhead = Len(trail), ~Unflushed,
         NEW lits, NEW pair, WatchesOK(trail, trailLim, qhead, Level + 1, lits, pair, Strong),
         lits \cap RootTrue = {}
  PROVE  pair[1] \notin Complement(RootTrue) /\ pair[2] \notin Complement(RootTrue)
<1>1. Level \in Nat /\ trailLim \in Seq(Nat) /\ Level = Len(trailLim) /\ Len(trail) \in Nat
      /\ DOMAIN trail = 1 .. Len(trail)
  BY TrailTypes DEF Level
<1> DEFINE n == Limit(trail, trailLim, 1, qhead)
<1>2. Complement(RootTrue) \subseteq FalseIn(trail, n)
  <2> SUFFICES ASSUME NEW i \in DOMAIN trail, trail[i].level = 0 PROVE i \in 1 .. n
    BY DEF Complement, RootTrue, FalseIn
  <2>1. CASE Level = 0
    <3>1. 1 \notin DOMAIN trailLim
      <4>1. DOMAIN trailLim = 1 .. Len(trailLim)  BY ONLY <1>1
      <4> QED  BY <1>1, <2>1, <4>1
    <3>2. n = Len(trail)  BY <3>1 DEF Limit
    <3> QED  BY <1>1, <3>2
  <2>2. CASE Level # 0
    <3>1. 1 \in DOMAIN trailLim /\ trailLim \in Seq(Nat)  BY <1>1, <2>2
    <3>2. trailLim[1] \in Nat  BY ONLY <3>1
    <3>3. n = trailLim[1]  BY <3>1 DEF Limit
    <3>4. i \notin trailLim[1] + 1 .. Len(trail)  BY <1>1, <2>2 DEF Unflushed
    <3> QED  BY <1>1, <3>2, <3>3, <3>4
  <2> QED  BY <2>1, <2>2
<1>3. WatchesSee(trail, 1, FalseIn(trail, n), lits, pair, Strong)
  <2>1. 1 \in 1 .. Level + 1  BY <1>1
  <2> QED  BY <2>1 DEF WatchesOK
<1>4. lits \cap TrueBelow(trail, 1) = {}  BY AllLits
<1> HIDE DEF n
<1> QED  BY <1>2, <1>3, <1>4 DEF WatchesSee

\* A clause that is not true at level 0 still follows from the formula when the literals
\* false at level 0 are left out.
LEMMA SweptIs ==
  ASSUME TrailInv, NEW c \in AnyClause, c.lits \in Clauses, \A a \in Models : c.lits \cap a # {},
         NEW l \in c.lits, l \notin Complement(RootTrue)
  PROVE  /\ Swept(c) \in AnyClause /\ Swept(c).learnt = c.learnt
         /\ Swept(c).lits = c.lits \ Complement(RootTrue)
         /\ Swept(c).lits \in Clauses /\ \A a \in Models : Swept(c).lits \cap a # {}
<1>1. Swept(c).learnt = c.learnt /\ Swept(c).lits = c.lits \ Complement(RootTrue)
  BY DEF Swept, Clause
<1>2. Swept(c) \in AnyClause  BY DEF Swept, Clause, AnyClause
<1>3. Swept(c).lits \in Clauses  BY <1>1 DEF Clauses
<1>4. ASSUME NEW a \in Models PROVE Swept(c).lits \cap a # {}
  <2>1. PICK k \in c.lits : k \in a  BY <1>4
  <2>2. k \notin Complement(RootTrue)
    <3> SUFFICES ASSUME NEW i \in DOMAIN trail, trail[i].level = 0, k = -trail[i].lit PROVE FALSE
      BY DEF Complement, RootTrue
    <3>1. trail[i].lit \in a  BY DEF TrailInv, TrailOK, RootRight
    <3> QED  BY <2>1, <3>1, TrailTypes, ModelsTypes
  <2> QED  BY <1>1, <2>1, <2>2
<1> QED  BY <1>1, <1>2, <1>3, <1>4

\* What is true at level 0 is not assigned at another one.
LEMMA RootLits ==
  ASSUME TrailInv
  PROVE  /\ RootTrue \subseteq TrueLits /\ Complement(RootTrue) \subseteq FalseLits
         /\ \A i \in DOMAIN trail : trail[i].level > 0 =>
              trail[i].lit \notin RootTrue /\ -trail[i].lit \notin Complement(RootTrue)
<1>1. RootTrue \subseteq TrueLits  BY DEF RootTrue, TrueLits
<1>2. Complement(RootTrue) \subseteq FalseLits  BY <1>1 DEF Complement, FalseLits
<1>3. ASSUME NEW i \in DOMAIN trail, trail[i].level > 0, NEW j \in DOMAIN trail, trail[j].level = 0
      PROVE  trail[i].lit # trail[j].lit /\ -trail[i].lit # -trail[j].lit
  <2>1. i # j  BY <1>3
  <2>2. trail[i].lit # trail[j].lit  BY <2>1 DEF TrailInv, TrailOK, Distinct
  <2> QED  BY <2>2, TrailTypes, Literals
<1> QED  BY <1>1, <1>2, <1>3 DEF RootTrue, Complement

\* The reason of an entry, without literals false at level 0.
LEMMA ReasonSwept ==
  ASSUME TrailInv, NEW i \in DOMAIN trail, trail[i].level > 0, trail[i].reason # NoReason,
         solver = "Kissat"
  PROVE  /\ trail[i].reason.lits \cap RootTrue = {}
         /\ Swept(trail[i].reason) \in AnyClause /\ Swept(trail[i].reason) # NoReason
         /\ Justified([trail[i] EXCEPT !.reason = Swept(@)], EntriesUpTo(trail, i - 1), Models, solver)
<1> DEFINE c == trail[i].reason  before == EntriesUpTo(trail, i - 1)
           e == [trail[i] EXCEPT !.reason = Swept(@)]
<1>1. /\ c \in AnyClause /\ c.lits \in Clauses /\ trail[i].lit \in c.lits
      /\ \A a \in Models : c.lits \cap a # {}
      /\ \A l \in c.lits \ {trail[i].lit} : l \in FalseLits
      /\ trail[i] \in Entries
  BY TrailTypes, ReasonFacts
<1>2. c.lits \cap RootTrue = {}
  <2>1. RootTrue \cap FalseLits = {} /\ trail[i].lit \notin RootTrue
    BY RootLits, TrailTypes
  <2> QED  BY <1>1, <2>1
<1>3. trail[i].lit \notin Complement(RootTrue)
  BY RootLits, TrailTypes
<1> HIDE DEF c
<1>4. /\ Swept(c) \in AnyClause /\ Swept(c).lits = c.lits \ Complement(RootTrue)
      /\ Swept(c).lits \in Clauses /\ \A a \in Models : Swept(c).lits \cap a # {}
  BY <1>1, <1>3, SweptIs
<1>5. e.lit = trail[i].lit /\ e.level = trail[i].level /\ e.reason = Swept(c)
  BY <1>1 DEF Entries, c
<1>6. Justified(trail[i], before, Models, solver)
  BY DEF TrailInv, TrailOK, ReasonsRight
<1>7. Swept(c) # NoReason  BY <1>4 DEF NoReason, Clauses
<1>8. \A l \in e.reason.lits \ {e.lit} : \E b \in before : b.lit = -l /\ b.level <= e.level
  BY <1>4, <1>5, <1>6 DEF Justified, c
<1>9. \E b \in before : -b.lit \in e.reason.lits /\ b.level = e.level
  <2>1. PICK b \in before : -b.lit \in c.lits /\ b.level = trail[i].level
    BY <1>6 DEF Justified, c
  <2>2. PICK j \in 1 .. i - 1 : b = trail[j]  BY DEF EntriesUpTo
  <2>3. j \in DOMAIN trail  BY TrailTypes
  <2>4. -b.lit \notin Complement(RootTrue)  BY <2>1, <2>2, <2>3, RootLits
  <2> QED  BY <1>4, <1>5, <2>1, <2>4
<1> HIDE DEF e, before
<1>10. Justified(e, before, Models, solver)
  BY <1>1, <1>3, <1>4, <1>5, <1>8, <1>9 DEF Justified
<1> QED  BY <1>2, <1>4, <1>7, <1>10 DEF c, e, before

\* Watched literals that are right are so in the weak sense too.
LEMMA WeakWatches ==
  ASSUME NEW t, NEW w, NEW lim, NEW q, NEW top, NEW lits, NEW pair, NEW strong,
         WatchesOK(t, lim, q, top, lits, pair, strong),
         \A k : TrueBelow(w, k) = TrueBelow(t, k),
         \A k \in 1 .. top : FalseIn(w, Limit(w, lim, k, q)) = FalseIn(t, Limit(t, lim, k, q)),
         NEW weak, ~weak
  PROVE  WatchesOK(w, lim, q, top, lits, pair, weak)
<1> SUFFICES ASSUME NEW k \in 1 .. top
             PROVE  WatchesSee(w, k, FalseIn(w, Limit(w, lim, k, q)), lits, pair, weak)
  BY DEF WatchesOK
<1>1. WatchesSee(t, k, FalseIn(t, Limit(t, lim, k, q)), lits, pair, strong)
  BY DEF WatchesOK
<1>2. WatchesSee(t, k, FalseIn(w, Limit(w, lim, k, q)), lits, pair, strong)
  BY <1>1
<1>3. TrueBelow(w, k) = TrueBelow(t, k)  OBVIOUS
<1> QED  BY <1>2, <1>3 DEF WatchesSee

\* What is assigned before the first level is assigned at level 0.
LEMMA FirstLimit ==
  ASSUME TrailInv, qhead \in 0 .. Len(trail)
  PROVE  /\ \A k : Limit(trail, trailLim, k, qhead) \in 0 .. Len(trail)
         /\ FalseIn(trail, Limit(trail, trailLim, 1, qhead)) \subseteq Complement(RootTrue)
<1>1. /\ Level \in Nat /\ trailLim \in Seq(Nat) /\ Level = Len(trailLim) /\ Len(trail) \in Nat
      /\ DOMAIN trail = 1 .. Len(trail) /\ DOMAIN trailLim = 1 .. Level
      /\ Levels(trail, trailLim) /\ Limits(trail, trailLim)
      /\ \A i \in DOMAIN trail : trail[i].level \in Nat
  BY TrailTypes DEF Level, TrailInv, TrailOK
<1>2. \A k \in DOMAIN trailLim : trailLim[k] \in 0 .. Len(trail)
  <2> SUFFICES ASSUME NEW k \in DOMAIN trailLim PROVE trailLim[k] \in 0 .. Len(trail)
    OBVIOUS
  <2>0. k \in DOMAIN trailLim /\ trailLim \in Seq(Nat)  BY <1>1
  <2>1. trailLim[k] \in Nat  BY ONLY <2>0
  <2>2. trailLim[k] < Len(trail)  BY <1>1 DEF Limits
  <2> QED  BY <1>1, <2>1, <2>2
<1>3. \A k : Limit(trail, trailLim, k, qhead) \in 0 .. Len(trail)
  BY <1>2 DEF Limit
<1>4. ASSUME NEW i \in 1 .. Limit(trail, trailLim, 1, qhead)
      PROVE  -trail[i].lit \in Complement(RootTrue)
  <2>1. i \in DOMAIN trail  BY <1>1, <1>3
  <2>2. trail[i].level = 0
    <3>1. CASE 1 \in DOMAIN trailLim
      <4>1. i <= trailLim[1]  BY <1>2, <3>1 DEF Limit
      <4>2. trail[i].level < 1  BY <1>1, <2>1, <3>1, <4>1 DEF Levels
      <4> QED  BY <1>1, <2>1, <4>2
    <3>2. CASE 1 \notin DOMAIN trailLim
      <4>1. Len(trailLim) = 0  BY <1>1, <3>2
      <4>2. trail[i].level <= 0  BY <1>1, <2>1, <4>1 DEF Levels
      <4> QED  BY <1>1, <2>1, <4>2
    <3> QED  BY <3>1, <3>2
  <2> QED  BY <2>1, <2>2 DEF Complement, RootTrue
<1> QED  BY <1>3, <1>4 DEF FalseIn

\* A clause that is looked at again, sorted and without its false literals of level 0.
LEMMA SweptWatches ==
  ASSUME Parts, TypeOK, solver = "Kissat", pc \in {"decide", "reduce"}, ~Unflushed,
         NEW c \in DOMAIN order, c.lits \cap RootTrue = {}, NEW pair,
         pair = SortedPair(Swept(c).lits, {order[c][1], order[c][2]}),
         NEW weak, ~weak
  PROVE  /\ Swept(c) \in AnyClause /\ Swept(c).learnt = c.learnt /\ Swept(c).lits \subseteq c.lits
         /\ Swept(c).lits = c.lits \ Complement(RootTrue)
         /\ Swept(c).lits \in Clauses /\ \A a \in Models : Swept(c).lits \cap a # {}
         /\ pair \in Literal \X Literal /\ pair[1] # pair[2]
         /\ pair[1] \in Swept(c).lits /\ pair[2] \in Swept(c).lits
         /\ WatchesOK(trail, trailLim, qhead, Level + 1, Swept(c).lits, pair, weak)
<1>1. /\ TrailInv /\ qhead = Len(trail) /\ ~Analyzing /\ visiting = {} /\ qhead \in 0 .. Len(trail)
      /\ Level \in Nat /\ pc # "conflict"
  BY TrailTypes DEF Parts, ControlInv, Analyzing, TypeOK
<1>2. /\ c \in AnyClause /\ c.lits \in Clauses /\ \A a \in Models : c.lits \cap a # {}
      /\ order[c][1] # order[c][2] /\ order[c][1] \in c.lits /\ order[c][2] \in c.lits
  BY DEF Parts, ClauseInv, TypeOK
<1>3. WatchesOK(trail, trailLim, qhead, Level + 1, c.lits, order[c], Strong)
  BY <1>1 DEF Parts, WatchInv
<1>4. order[c][1] \notin Complement(RootTrue) /\ order[c][2] \notin Complement(RootTrue)
  BY ONLY <1>1, <1>3, RootFalseWatches, ~Unflushed, c.lits \cap RootTrue = {}
<1>5. /\ Swept(c) \in AnyClause /\ Swept(c).learnt = c.learnt
      /\ Swept(c).lits = c.lits \ Complement(RootTrue)
      /\ Swept(c).lits \in Clauses /\ \A a \in Models : Swept(c).lits \cap a # {}
  BY <1>1, <1>2, <1>4, SweptIs
<1>6. Complement(RootTrue) \subseteq FalseLits  BY <1>1, RootLits
<1>7. \E l \in Swept(c).lits : l \notin FalseLits
  <2>1. c.lits \cap TrueLits # {} \/ order[c][1] \notin FalseLits \/ order[c][2] \notin FalseLits
    BY Propagated
  <2>2. TrueLits \cap FalseLits = {}  BY <1>1, TrailTypes
  <2>3. \E l \in c.lits : l \notin FalseLits  BY <1>2, <2>1, <2>2
  <2> QED  BY <1>5, <1>6, <2>3
<1>8. /\ pair \in Literal \X Literal /\ pair[1] # pair[2]
      /\ pair[1] \in Swept(c).lits /\ pair[2] \in Swept(c).lits
      /\ pair[1] \notin FalseLits \/ pair[2] \notin FalseLits
  <2> DEFINE lits == Swept(c).lits
  <2>1. lits \in SUBSET Literal /\ order[c][1] \in lits /\ order[c][2] \in lits
    BY <1>2, <1>4, <1>5 DEF Clauses
  <2>2. pair = SortedPair(lits, {order[c][1], order[c][2]})  OBVIOUS
  <2>3. \E l \in lits : l \notin FalseLits  BY <1>7
  <2> HIDE DEF lits
  <2>4. /\ pair \in Literal \X Literal /\ pair[1] # pair[2]
        /\ pair[1] \in lits /\ pair[2] \in lits
        /\ pair[1] \notin FalseLits \/ pair[2] \notin FalseLits
    BY <1>1, <1>2, <2>1, <2>2, <2>3, SortedPairIs
  <2> QED  BY <2>4 DEF lits
<1>9. WatchesOK(trail, trailLim, qhead, Level + 1, Swept(c).lits, pair, weak)
  <2> SUFFICES ASSUME NEW k \in 1 .. Level + 1
               PROVE  WatchesSee(trail, k, FalseIn(trail, Limit(trail, trailLim, k, qhead)),
                                 Swept(c).lits, pair, weak)
    BY DEF WatchesOK
  <2>1. FalseIn(trail, Limit(trail, trailLim, k, qhead)) \subseteq FalseLits
    BY <1>1, FirstLimit, AllLits
  <2>2. k = 1 => FalseIn(trail, Limit(trail, trailLim, k, qhead)) \subseteq Complement(RootTrue)
    BY <1>1, FirstLimit
  <2> QED  BY <1>5, <1>8, <2>1, <2>2 DEF WatchesSee
<1> QED  BY <1>5, <1>8, <1>9

\* What a reduction does that looks at the clauses seen and deletes gone.
Reduces(long, seen, gone) ==
  LET true == {c \in DOMAIN order : c.lits \cap RootTrue # {}}
      kept == DOMAIN order \ (gone \cup (true \ (long \ seen)))
      New(c) == IF c \in seen THEN Swept(c) ELSE c
      Pair(c) == IF c \in seen
                 THEN SortedPair(New(c).lits, {order[c][1], order[c][2]})
                 ELSE order[c]
  IN  /\ \A c \in gone : c.learnt /\ \A i \in DOMAIN trail : trail[i].reason # c
      /\ \/ UNCHANGED <<order, trail>>
         \/ /\ order' = [d \in {New(c) : c \in kept} |->
                           Pair(CHOOSE c \in kept : New(c) = d)]
            /\ trail' = [i \in DOMAIN trail |-> [trail[i] EXCEPT !.reason = New(@)]]

\* A reduction removes no reason, takes out literals false at level 0 and leaves weak
\* clauses behind.
LEMMA ReduceRedundantInv == ASSUME IInv, solver = "Kissat", ReduceRedundant PROVE IInv'
<1> USE DEF ReduceRedundant, analysis, counters
<1>1. Parts /\ TypeOK /\ TrailInv
  BY DEF IInv, Parts, Undecided
<1>2. /\ UNCHANGED <<solver, formula, loaded, trailLim, qhead, visiting, caller, conflict,
                     analyzed, conflicted, imports>>
      /\ reductions' = reductions + 1 /\ pc' = "top"
      /\ pc \in {"decide", "reduce"} /\ reductions < MaxReductions /\ reductions \in Nat
      /\ ~Analyzing /\ ~Analyzing' /\ visiting = {} /\ qhead = Len(trail)
      /\ loaded = Len(formula) /\ ~Unflushed
      /\ pc # "conflict" /\ qhead \in 0 .. Len(trail)
  BY <1>1 DEF Analyzing, Parts, ControlInv, Undecided, Reducing, Unflushed, TypeOK
<1>3. /\ trail \in Seq(Entries) /\ Len(trail) \in Nat /\ trailLim \in Seq(Nat)
      /\ Level \in Nat /\ DOMAIN trail = 1 .. Len(trail)
      /\ \A i \in DOMAIN trail : trail[i] \in Entries /\ trail[i].reason \in AnyClause
  BY <1>1, TrailTypes
<1>4. PICK long \in SUBSET DOMAIN order, seen \in SUBSET DOMAIN order, gone \in SUBSET DOMAIN order :
        Reduces(long, seen, gone)
  <2> DEFINE reasons == {trail[i].reason : i \in DOMAIN trail}
             large == {c \in DOMAIN order : Cardinality(c.lits) > 2}
             learnt == {c \in large : c.learnt}
             RootSatisfied == {c \in DOMAIN order : c.lits \cap RootTrue # {}}
             Remaining(g, s) == DOMAIN order \ (g \cup (RootSatisfied \ (large \ s)))
             Newer(c, s) == IF c \in s THEN Swept(c) ELSE c
             NewPair(c, s) == IF c \in s
                              THEN SortedPair(Newer(c, s).lits, {order[c][1], order[c][2]})
                              ELSE order[c]
  <2>1. PICK g \in SUBSET (learnt \ reasons), s \in {learnt, large} :
          \/ UNCHANGED <<order, trail>>
          \/ /\ order' = [d \in {Newer(c, s) : c \in Remaining(g, s)} |->
                            NewPair(CHOOSE c \in Remaining(g, s) : Newer(c, s) = d, s)]
             /\ trail' = [i \in DOMAIN trail |-> [trail[i] EXCEPT !.reason = Newer(@, s)]]
    BY ZenonT(20)
  <2>2. \A c \in g : c.learnt /\ \A i \in DOMAIN trail : trail[i].reason # c  OBVIOUS
  <2>3. large \in SUBSET DOMAIN order /\ s \in SUBSET DOMAIN order /\ g \in SUBSET DOMAIN order
    OBVIOUS
  <2> HIDE DEF large, learnt, reasons
  <2>4. \A c \in g : c.learnt /\ \A i \in DOMAIN trail : trail[i].reason # c  BY <2>2
  <2>5. Reduces(large, s, g)  BY <2>1, <2>4 DEF Reduces
  <2> QED  BY <2>3, <2>5
<1> DEFINE true == {c \in DOMAIN order : c.lits \cap RootTrue # {}}
           kept == DOMAIN order \ (gone \cup (true \ (long \ seen)))
           New(c) == IF c \in seen THEN Swept(c) ELSE c
           Pair(c) == IF c \in seen
                      THEN SortedPair(New(c).lits, {order[c][1], order[c][2]})
                      ELSE order[c]
<1>7. Level' = Level /\ Models' = Models /\ ~Strong'
  <2>1. reductions + 1 # 0  BY <1>2
  <2> QED  BY <1>2, <2>1, SameModels DEF Level, Strong
<1>5. ASSUME NEW c \in DOMAIN order
      PROVE  /\ c \in AnyClause /\ c.lits \in Clauses /\ \A a \in Models : c.lits \cap a # {}
             /\ order[c] \in Literal \X Literal /\ order[c][1] # order[c][2]
             /\ order[c][1] \in c.lits /\ order[c][2] \in c.lits
             /\ WatchesOK(trail, trailLim, qhead, Level + 1, c.lits, order[c], Strong')
  <2>1. WatchesOK(trail, trailLim, qhead, Level + 1, c.lits, order[c], Strong)
    BY <1>1, <1>2 DEF Parts, WatchInv
  <2>2. WatchesOK(trail, trailLim, qhead, Level + 1, c.lits, order[c], Strong')
    BY <1>7, <2>1, WeakWatches
  <2> QED  BY <1>1, <2>2 DEF Parts, ClauseInv, TypeOK
<1>6. /\ \/ UNCHANGED <<order, trail>>
         \/ /\ order' = [d \in {New(c) : c \in kept} |-> Pair(CHOOSE c \in kept : New(c) = d)]
            /\ trail' = [i \in DOMAIN trail |-> [trail[i] EXCEPT !.reason = New(@)]]
      /\ \A c \in gone : c.learnt /\ \A i \in DOMAIN trail : trail[i].reason # c
  BY <1>4 DEF Reduces
<1>8. ControlInv' /\ AnswersAreRight' /\ AnalysisInv'
  <2>1. ControlInv'  BY <1>2, <1>7 DEF ControlInv
  <2> QED  BY <1>2, <2>1, NoAnalysis DEF AnswersAreRight
<1>9. PropagateInv'
  BY <1>1, <1>2 DEF Parts, PropagateInv
<1>10. CASE UNCHANGED <<order, trail>>
  <2>1. TypeOK'
    <3>1. reductions + 1 \in 0 .. MaxReductions
      BY <1>1, <1>2, SearchAssumption DEF TypeOK
    <3> QED  BY <1>1, <1>2, <1>10, <3>1 DEF TypeOK
  <2>2. WatchInv'
    <3> SUFFICES ASSUME NEW c \in DOMAIN order
                 PROVE  WatchesOK(trail, trailLim, qhead, Level + 1, c.lits, order[c], Strong')
      BY <1>2, <1>7, <1>10 DEF WatchInv
    <3> QED  BY <1>5
  <2>3. TrailInv' /\ ClauseInv' /\ FormulaInv' /\ PresentInv'
    BY <1>1, <1>2, <1>10, SameTrail, SameClauses, SameFormula, SamePresent DEF Parts
  <2> QED  BY <1>8, <1>9, <2>1, <2>2, <2>3 DEF IInv, Parts
<1>11. CASE /\ order' = [d \in {New(c) : c \in kept} |-> Pair(CHOOSE c \in kept : New(c) = d)]
            /\ trail' = [i \in DOMAIN trail |-> [trail[i] EXCEPT !.reason = New(@)]]
  <2>1. ASSUME NEW d \in DOMAIN order'
        PROVE  \E c \in kept : New(c) = d /\ order'[d] = Pair(c)
    <3>1. d \in {New(c) : c \in kept}  BY <1>11
    <3>2. order'[d] = Pair(CHOOSE c \in kept : New(c) = d)  BY <1>11, <3>1
    <3>3. \E c \in kept : New(c) = d  BY <3>1
    <3> HIDE DEF New, Pair, kept
    <3> QED  BY <3>2, <3>3
  <2>2. ASSUME NEW c \in kept
        PROVE  /\ New(c) \in AnyClause /\ New(c).learnt = c.learnt
               /\ New(c).lits \subseteq c.lits
               /\ New(c).lits \in Clauses /\ \A a \in Models : New(c).lits \cap a # {}
               /\ Pair(c) \in Literal \X Literal /\ Pair(c)[1] # Pair(c)[2]
               /\ Pair(c)[1] \in New(c).lits /\ Pair(c)[2] \in New(c).lits
               /\ WatchesOK(trail, trailLim, qhead, Level + 1, New(c).lits, Pair(c), Strong')
    <3>0. c \in DOMAIN order  OBVIOUS
    <3>1. CASE c \in seen
      <4>1. c.lits \cap RootTrue = {}  BY <3>0, <3>1
      <4>2. New(c) = Swept(c) /\ Pair(c) = SortedPair(Swept(c).lits, {order[c][1], order[c][2]})
        BY <3>1
      <4> DEFINE pair == Pair(c)
      <4>3. pair = SortedPair(Swept(c).lits, {order[c][1], order[c][2]})  BY <4>2
      <4> HIDE DEF pair
      <4>4. /\ Swept(c) \in AnyClause /\ Swept(c).learnt = c.learnt /\ Swept(c).lits \subseteq c.lits
            /\ Swept(c).lits \in Clauses /\ \A a \in Models : Swept(c).lits \cap a # {}
            /\ pair \in Literal \X Literal /\ pair[1] # pair[2]
            /\ pair[1] \in Swept(c).lits /\ pair[2] \in Swept(c).lits
            /\ WatchesOK(trail, trailLim, qhead, Level + 1, Swept(c).lits, pair, Strong')
        BY ONLY <1>1, <1>2, <1>7, <3>0, <4>1, <4>3, SweptWatches, solver = "Kissat"
      <4>5. pair = Pair(c)  BY DEF pair
      <4> HIDE DEF New, Pair
      <4> QED  BY <4>2, <4>4, <4>5
    <3>2. CASE c \notin seen
      <4> DEFINE d == New(c)  pair == Pair(c)
      <4>1. d = c /\ pair = order[c]  BY <3>2
      <4> HIDE DEF d, pair
      <4>2. /\ d \in AnyClause /\ d.learnt = c.learnt /\ d.lits \subseteq c.lits
            /\ d.lits \in Clauses /\ \A a \in Models : d.lits \cap a # {}
            /\ pair \in Literal \X Literal /\ pair[1] # pair[2]
            /\ pair[1] \in d.lits /\ pair[2] \in d.lits
            /\ WatchesOK(trail, trailLim, qhead, Level + 1, d.lits, pair, Strong')
        BY <1>5, <3>0, <4>1
      <4> QED  BY <4>2 DEF d, pair
    <3> QED  BY <3>1, <3>2
  <2>3. /\ DOMAIN trail' = DOMAIN trail /\ trail' = [i \in DOMAIN trail' |-> trail'[i]]
        /\ \A i \in DOMAIN trail : trail'[i] = [trail[i] EXCEPT !.reason = New(@)]
    <3>1. trail' = [i \in DOMAIN trail |-> [trail[i] EXCEPT !.reason = New(@)]]  BY <1>11
    <3> HIDE DEF New
    <3>2. DOMAIN trail' = DOMAIN trail  BY ONLY <3>1
    <3>3. \A i \in DOMAIN trail : trail'[i] = [trail[i] EXCEPT !.reason = New(@)]  BY ONLY <3>1
    <3> QED  BY ONLY <3>1, <3>2, <3>3
  <2>4. ASSUME NEW i \in DOMAIN trail
        PROVE  /\ trail'[i] \in Entries /\ trail'[i].lit = trail[i].lit
               /\ trail'[i].level = trail[i].level /\ trail'[i].reason = New(trail[i].reason)
    <3>1. trail[i] \in Entries /\ trail[i].reason \in AnyClause  BY <1>3
    <3>2. New(trail[i].reason) \in AnyClause
      BY <3>1 DEF Swept, Clause, AnyClause
    <3>3. trail'[i] = [trail[i] EXCEPT !.reason = New(trail[i].reason)]
      BY <2>3, <3>1 DEF Entries
    <3> HIDE DEF New
    <3> QED  BY <3>1, <3>2, <3>3 DEF Entries
  <2>5. ASSUME NEW i \in DOMAIN trail, trail[i].level > 0
        PROVE  /\ trail[i].reason = NoReason <=> trail'[i].reason = NoReason
               /\ trail[i].reason # NoReason =>
                    /\ trail[i].reason \in kept
                    /\ Justified(trail'[i], EntriesUpTo(trail, i - 1), Models, solver)
    <3> DEFINE c == trail[i].reason
    <3>1. c = NoReason => c \notin seen
      <4>1. NoReason.lits = {}  BY DEF NoReason
      <4>2. \A d \in seen : d.lits # {}  BY <1>5
      <4> QED  BY <4>1, <4>2
    <3>2. CASE c = NoReason
      <4>1. trail'[i].reason = NoReason  BY <2>4, <3>1, <3>2
      <4> QED  BY <3>2, <4>1
    <3>3. CASE c # NoReason
      <4>1. /\ c.lits \cap RootTrue = {}
            /\ Swept(c) \in AnyClause /\ Swept(c) # NoReason
            /\ Justified([trail[i] EXCEPT !.reason = Swept(@)], EntriesUpTo(trail, i - 1), Models, solver)
        BY <1>1, <2>5, <3>3, ReasonSwept
      <4>2. c \in DOMAIN order
        BY <1>1, <1>2, <2>5, <3>3 DEF Parts, PresentInv, Present
      <4>3. c \in kept  BY <1>6, <4>1, <4>2
      <4>4. trail'[i] = [trail[i] EXCEPT !.reason = New(@)]  BY <2>3
      <4>5. CASE c \in seen
        <5>1. trail'[i] = [trail[i] EXCEPT !.reason = Swept(@)]  BY <4>4, <4>5
        <5>2. trail'[i].reason = Swept(c)  BY <2>4, <4>5
        <5> QED  BY <3>3, <4>1, <4>3, <5>1, <5>2
      <4>6. CASE c \notin seen
        <5>1. trail'[i] = trail[i]
          <6>1. trail[i] \in Entries /\ New(c) = c  BY <1>3, <4>6
          <6>2. trail'[i] = [trail[i] EXCEPT !.reason = c]  BY <4>4, <4>6
          <6> QED  BY <6>1, <6>2 DEF Entries
        <5>2. Justified(trail[i], EntriesUpTo(trail, i - 1), Models, solver)
          BY <1>1, <2>5, <3>3 DEF TrailInv, TrailOK, ReasonsRight
        <5> QED  BY <3>3, <4>3, <5>1, <5>2
      <4> QED  BY <4>5, <4>6
    <3> QED  BY <3>2, <3>3
  <2> HIDE DEF Pair
  <2>6. ASSUME NEW c \in kept
        PROVE  /\ c \in DOMAIN order /\ New(c) \in DOMAIN order'
    BY <1>11
  <2>7. \A c \in DOMAIN order \ kept : c.learnt \/ c.lits \cap RootTrue # {}
    BY <1>6
  <2> HIDE DEF New, kept, true
  <2>8. /\ TrailOK(trail', trailLim, Models, solver) /\ Len(trail') = Len(trail)
        /\ \A k : TrueBelow(trail', k) = TrueBelow(trail, k)
        /\ \A n \in 0 .. Len(trail) : FalseIn(trail', n) = FalseIn(trail, n)
    <3>1. \A i \in DOMAIN trail :
           /\ trail'[i] \in Entries /\ trail'[i].lit = trail[i].lit /\ trail'[i].level = trail[i].level
           /\ trail[i].level > 0 =>
                /\ trail[i].reason = NoReason <=> trail'[i].reason = NoReason
                /\ trail'[i].reason # NoReason =>
                     Justified(trail'[i], EntriesUpTo(trail, i - 1), Models, solver)
      BY <2>4, <2>5
    <3>2. TrailOK(trail, trailLim, Models, solver)  BY <1>1 DEF TrailInv
    <3> QED  BY <2>3, <3>1, <3>2, ReasonsReplaced
  <2>9. TrailInv'  BY <1>2, <1>7, <2>8 DEF TrailInv
  <2>10. TypeOK'
    <3>1. trail' \in Seq([lit : Literal, level : Nat, reason : AnyClause])
      BY <2>8 DEF TrailOK, Entries
    <3>2. \A d \in DOMAIN order' : d \in AnyClause /\ order'[d] \in Literal \X Literal
      <4> SUFFICES ASSUME NEW d \in DOMAIN order'
                   PROVE  d \in AnyClause /\ order'[d] \in Literal \X Literal
        OBVIOUS
      <4>1. PICK c \in kept : New(c) = d /\ order'[d] = Pair(c)  BY <2>1
      <4> QED  BY <2>2, <4>1
    <3>3. qhead' \in 0 .. Len(trail')  BY <1>2, <2>8
    <3>4. visiting' \subseteq DOMAIN order'  BY <1>2
    <3>5. reductions' \in 0 .. MaxReductions  BY <1>1, <1>2, SearchAssumption DEF TypeOK
    <3> QED  BY <1>1, <1>2, <3>1, <3>2, <3>3, <3>4, <3>5 DEF TypeOK
  <2>11. ClauseInv'
    <3> SUFFICES ASSUME NEW d \in DOMAIN order'
                 PROVE  /\ d.lits \in Clauses
                        /\ \A a \in Models : d.lits \cap a # {}
                        /\ order'[d][1] # order'[d][2]
                        /\ order'[d][1] \in d.lits /\ order'[d][2] \in d.lits
      BY <1>7 DEF ClauseInv
    <3>1. PICK c \in kept : New(c) = d /\ order'[d] = Pair(c)  BY <2>1
    <3> QED  BY <2>2, <3>1
  <2>12. FormulaInv'
    <3> SUFFICES ASSUME NEW i \in 1 .. loaded
                 PROVE  Remains(formula[i], trail', DOMAIN order')
      BY <1>2 DEF FormulaInv
    <3>1. Remains(formula[i], trail, DOMAIN order)  BY <1>1 DEF Parts, FormulaInv
    <3>2. TrueBelow(trail', 1) = TrueBelow(trail, 1) /\ TrueBelow(trail, 1) = RootTrue
      BY <1>1, <2>8, AllLits
    <3>3. RootTrue \cap Complement(RootTrue) = {}
      <4>1. RootTrue \subseteq TrueLits /\ Complement(RootTrue) \subseteq FalseLits
            /\ TrueLits \cap FalseLits = {}
        BY <1>1, RootLits, TrailTypes
      <4> QED  BY <4>1
    <3>4. CASE formula[i] \cap RootTrue # {}  BY <3>2, <3>4 DEF Remains
    <3>5. CASE \E c \in DOMAIN order : ~c.learnt /\ c.lits \subseteq formula[i] \cup Complement(RootTrue)
      <4>1. PICK c \in DOMAIN order : ~c.learnt /\ c.lits \subseteq formula[i] \cup Complement(RootTrue)
        BY <3>5
      <4>2. CASE c \in kept
        <5>1. New(c) \in DOMAIN order' /\ ~New(c).learnt
              /\ New(c).lits \subseteq formula[i] \cup Complement(RootTrue)
          BY <2>2, <2>6, <4>1, <4>2
        <5> QED  BY <3>2, <5>1 DEF Remains
      <4>3. CASE c \notin kept
        <5>1. c.lits \cap RootTrue # {}  BY <2>7, <4>1, <4>3
        <5> QED  BY <3>3, <3>4, <4>1, <5>1
      <4> QED  BY <4>2, <4>3
    <3> QED  BY <3>1, <3>2, <3>4, <3>5 DEF Remains
  <2>13. PresentInv'
    <3> SUFFICES ASSUME NEW i \in DOMAIN trail, trail[i].level > 0, trail'[i].reason # NoReason
                 PROVE  trail'[i].reason \in DOMAIN order'
      <4>1. \A i \in DOMAIN trail' : i \in DOMAIN trail /\ trail'[i].level = trail[i].level
        BY <2>3, <2>4
      <4>2. solver' = "Kissat"  BY <1>2
      <4> QED  BY <4>1, <4>2 DEF PresentInv, Present
    <3>1. trail[i].reason \in kept  BY <2>5
    <3> QED  BY <2>4, <2>6, <3>1
  <2>14. WatchInv'
    <3> SUFFICES ASSUME NEW d \in DOMAIN order'
                 PROVE  WatchesOK(trail', trailLim, qhead, Level + 1, d.lits, order'[d], Strong')
      BY <1>2, <1>7 DEF WatchInv
    <3>1. PICK c \in kept : New(c) = d /\ order'[d] = Pair(c)  BY <2>1
    <3>2. WatchesOK(trail, trailLim, qhead, Level + 1, d.lits, order'[d], Strong')  BY <2>2, <3>1
    <3>3. \A k : TrueBelow(trail', k) = TrueBelow(trail, k)  BY <2>8
    <3>4. \A k \in 1 .. Level + 1 :
            FalseIn(trail', Limit(trail', trailLim, k, qhead)) = FalseIn(trail, Limit(trail, trailLim, k, qhead))
      <4>1. \A k : Limit(trail, trailLim, k, qhead) \in 0 .. Len(trail)  BY <1>1, <1>2, FirstLimit
      <4>2. \A k : Limit(trail', trailLim, k, qhead) = Limit(trail, trailLim, k, qhead)  BY DEF Limit
      <4> QED  BY <2>8, <4>1, <4>2
    <3> QED  BY ONLY <1>7, <3>2, <3>3, <3>4, WeakWatches
  <2> QED
    BY <1>8, <1>9, <2>9, <2>10, <2>11, <2>12, <2>13, <2>14 DEF IInv, Parts
<1> QED  BY <1>6, <1>10, <1>11

-----------------------------------------------------------------------------
(* The theorems                                                            *)

\* Nothing is there at the beginning.
LEMMA InitInv == Init => IInv
<1> SUFFICES ASSUME Init PROVE IInv  OBVIOUS
<1> USE DEF Init
<1>1. DOMAIN order = {} /\ DOMAIN trail = {} /\ DOMAIN trailLim = {}
      /\ Len(trail) = 0 /\ Len(trailLim) = 0
  OBVIOUS
<1>2. TypeOK
  <2>1. formula \in Seq(Clauses)  BY SearchAssumption
  <2>2. loaded \in 0 .. Len(formula)  BY <2>1
  <2>3. imports \in 0 .. MaxImports /\ reductions \in 0 .. MaxReductions
    BY SearchAssumption
  <2>4. NoReason \in AnyClause  BY DEF NoReason, AnyClause
  <2>5. \A S : << >> \in Seq(S)  OBVIOUS
  <2>6. trail \in Seq([lit : Literal, level : Nat, reason : AnyClause]) /\ trailLim \in Seq(Nat)
    BY <2>5
  <2>7. qhead \in 0 .. Len(trail)  BY <1>1
  <2> QED  BY <1>1, <2>2, <2>3, <2>4, <2>6, <2>7 DEF TypeOK
<1>3. AnswersAreRight  BY DEF AnswersAreRight
<1>4. TrailInv
  <2>1. trail \in Seq(Entries) /\ trailLim \in Seq(Nat)  BY <1>2 DEF TypeOK, Entries
  <2> QED
    BY <1>1, <2>1 DEF TrailInv, TrailOK, Distinct, Limits, Levels, InOrder, Decisions,
                      RootRight, ReasonsRight
<1>5. ControlInv  BY <1>1 DEF ControlInv, Level
<1>6. PropagateInv  BY <1>1 DEF PropagateInv
<1>7. ClauseInv /\ WatchInv  BY <1>1 DEF ClauseInv, WatchInv
<1>8. FormulaInv  BY DEF FormulaInv
<1>9. PresentInv  BY <1>1 DEF PresentInv
<1>10. AnalysisInv  BY DEF AnalysisInv, Analyzing
<1> QED
  BY <1>2, <1>3, <1>4, <1>5, <1>6, <1>7, <1>8, <1>9, <1>10 DEF IInv, Parts

\* Every action keeps the invariant.
LEMMA NextInv == IInv /\ [Next]_vars => IInv'
<1> SUFFICES ASSUME IInv, [Next]_vars PROVE IInv'  OBVIOUS
<1>1. CASE UNCHANGED vars  BY <1>1, StutterInv
<1>2. CASE AddClause  BY <1>2, AddClauseInv
<1>3. CASE StartSearch  BY <1>3, StartSearchInv
<1>4. CASE StartPropagation  BY <1>4, StartPropagationInv
<1>5. CASE \E c \in Arriving : ApplyImportedClause(c)  BY <1>5, ApplyImportedClauseInv
<1>6. CASE NextLiteral  BY <1>6, NextLiteralInv
<1>7. CASE EndPropagation  BY <1>7, EndPropagationInv
<1>8. CASE \E lit \in Searched : Decide(lit)  BY <1>8, DecideInv
<1>9. CASE ModelFound  BY <1>9, ModelFoundInv
<1>10. CASE Done  BY <1>10, StutterInv DEF Done
<1>11. CASE solver # "Kissat" /\ MiniSatNext
  <2>1. CASE ForceImport  BY <1>11, <2>1, ForceImportInv
  <2>2. CASE Terminate  BY <1>11, <2>2, TerminateInv
  <2>3. ASSUME NEW c \in visiting, VisitBinary(c) PROVE IInv'
    BY <1>11, <2>3, VisitBinaryInv
  <2>4. ASSUME NEW c \in visiting, SkipWatch(c) PROVE IInv'
    BY <1>11, <2>4, SkipWatchInv
  <2>5. ASSUME NEW c \in visiting, VisitWatch(c) PROVE IInv'
    BY <1>11, <2>5, VisitWatchInv
  <2>6. CASE Resolve  BY <1>11, <2>6, ResolveInv
  <2>7. CASE Learn  BY <1>11, <2>7, LearnInv
  <2>8. CASE Restart  BY <1>11, <2>8, RestartInv
  <2>9. CASE Simplify  BY <1>11, <2>9, SimplifyInv
  <2>10. CASE EndStamping  BY <2>10, EndStampingInv
  <2>11. CASE ReduceDB  BY <1>11, <2>11, ReduceDBInv
  <2>12. CASE \E lit \in Literal : FailedLiteral(lit)  BY <2>12, FailedLiteralInv
  <2> QED
    BY <1>11, <2>1, <2>2, <2>3, <2>4, <2>5, <2>6, <2>7, <2>8, <2>9, <2>10, <2>11, <2>12
    DEF MiniSatNext
<1>12. CASE solver = "Kissat" /\ KissatNext
  <2>1. CASE ForcedRestart  BY <2>1, ForcedRestartInv
  <2>2. CASE LeaveSearch  BY <2>2, LeaveSearchInv
  <2>3. CASE \E c \in visiting : PropagateClause(c)  BY <1>12, <2>3, PropagateClauseInv
  <2>4. CASE FindConflictLevel  BY <1>12, <2>4, FindConflictLevelInv
  <2>5. CASE AnalyzeFailedLiteral  BY <1>12, <2>5, AnalyzeFailedLiteralInv
  <2>6. CASE DeduceResolve  BY <1>12, <2>6, DeduceResolveInv
  <2>7. CASE OnTheFlyStrengthen  BY <1>12, <2>7, OnTheFlyStrengthenInv
  <2>8. CASE LearnClause  BY <1>12, <2>8, LearnClauseInv
  <2>9. CASE RestartReusingTrail  BY <2>9, RestartReusingTrailInv
  <2>10. CASE FlushTrail  BY <2>10, FlushTrailInv
  <2>11. CASE ReduceRedundant  BY <1>12, <2>11, ReduceRedundantInv
  <2> QED
    BY <1>12, <2>1, <2>2, <2>3, <2>4, <2>5, <2>6, <2>7, <2>8, <2>9, <2>10, <2>11
    DEF KissatNext
<1> QED
  BY <1>1, <1>2, <1>3, <1>4, <1>5, <1>6, <1>7, <1>8, <1>9, <1>10, <1>11, <1>12 DEF Next

\* The inductive invariant of the search, in all four solvers.
THEOREM SearchInvariantHolds == Spec => []IInv
<1>1. Init => IInv  BY InitInv
<1>2. IInv /\ [Next]_vars => IInv'  BY NextInv
<1> QED  BY <1>1, <1>2, PTL DEF Spec

\* Type correctness of the search.
THEOREM SearchTypes == Spec => []TypeOK
<1>1. IInv => TypeOK  BY DEF IInv
<1> QED  BY <1>1, SearchInvariantHolds, PTL

\* A solver says that there is no solution only if there is none, and that there is
\* one only if its assignment is one, whatever the other threads have sent.
THEOREM SearchAnswers == Spec => []AnswersAreRight
<1>1. IInv => AnswersAreRight  BY DEF IInv
<1> QED  BY <1>1, SearchInvariantHolds, PTL

\* The clauses of a search, its learnt and imported ones too, and its literals of
\* level 0 follow from the formula: what is exported may be used by the others.
THEOREM SearchImplied == Spec => []ClausesAreImplied
<1>1. IInv => ClausesAreImplied
  <2> SUFFICES ASSUME IInv, NEW a \in Models
               PROVE  /\ \A c \in DOMAIN order : c.lits \cap a # {}
                      /\ \A i \in DOMAIN trail : trail[i].level = 0 => trail[i].lit \in a
    BY DEF ClausesAreImplied
  <2>1. pc # "unsat"  BY DEF IInv, AnswersAreRight
  <2> QED  BY <2>1 DEF IInv, Parts, ClauseInv, TrailInv, TrailOK, RootRight
<1> QED  BY <1>1, SearchInvariantHolds, PTL

\* Propagation with two watched literals overlooks nothing, also after restarts,
\* forced imports, learnt clauses that do not take the search all the way back, and
\* reductions.
THEOREM SearchPropagates == Spec => []PropagationIsComplete
<1>1. IInv => PropagationIsComplete
  <2> SUFFICES ASSUME IInv, pc \in {"decide", "simplified", "reduced", "stamp"},
                      NEW c \in DOMAIN order, ~Satisfied(c)
               PROVE  Cardinality(c.lits \ FalseLits) > (IF MayHaveOneLeft THEN 0 ELSE 1)
    BY DEF PropagationIsComplete
  <2>1. Parts /\ TypeOK  BY DEF IInv
  <2>2. /\ order[c][1] \notin FalseLits \/ order[c][2] \notin FalseLits
        /\ Strong \/ Level = 0 => {order[c][1], order[c][2]} \cap FalseLits = {}
    BY <2>1, Propagated DEF Satisfied
  <2>3. /\ order[c][1] # order[c][2] /\ order[c][1] \in c.lits /\ order[c][2] \in c.lits
        /\ c.lits \in Clauses
    BY <2>1 DEF Parts, ClauseInv
  <2>4. c.lits \ FalseLits \in SUBSET Literal  BY <2>3 DEF Clauses
  <2>5. CASE MayHaveOneLeft
    <3>1. c.lits \ FalseLits # {}  BY <2>2, <2>3
    <3> QED  BY <2>4, <2>5, <3>1, Two
  <2>6. CASE ~MayHaveOneLeft
    <3>1. Level \in Nat /\ reductions \in Nat  BY <2>1, TrailTypes DEF Parts, TypeOK
    <3>2. Strong \/ Level = 0  BY <2>6, <3>1 DEF MayHaveOneLeft, Strong
    <3>3. \E a, b \in c.lits \ FalseLits : a # b  BY <2>2, <2>3, <3>2
    <3> QED  BY <2>4, <2>6, <3>3, Two
  <2> QED  BY <2>5, <2>6
<1> QED  BY <1>1, SearchInvariantHolds, PTL

\* The literals an analysis looks at have their reasons: the clause is there, it is
\* found by the literal it implied, and its other literals were false before.
THEOREM SearchReasons == Spec => []ReasonsStay
<1>1. IInv => ReasonsStay
  <2> SUFFICES ASSUME IInv, pc # "unsat", NEW i \in DOMAIN trail, NEW c, c = trail[i].reason,
                      trail[i].level > 0, c # NoReason, LookedAt(i)
               PROVE  /\ c \in DOMAIN order
                      /\ Implied(c) = trail[i].lit
                      /\ c.lits \ {trail[i].lit} \subseteq
                           Complement({trail[j].lit : j \in 1 .. i - 1})
    BY DEF ReasonsStay
  <2>1. Parts /\ TrailInv /\ ClauseInv  BY DEF IInv, Parts
  <2>2. c \in DOMAIN order /\ (solver # "Kissat" /\ ~Binary(c) => order[c][1] = trail[i].lit)
    BY <2>1 DEF Parts, PresentInv, Present
  <2>3. Implied(c) = trail[i].lit  BY <2>1, <2>2, ImpliedIs
  <2>4. ASSUME NEW l \in c.lits \ {trail[i].lit}
        PROVE  l \in Complement({trail[j].lit : j \in 1 .. i - 1})
    <3>1. PICK j \in 1 .. i - 1 : j \in DOMAIN trail /\ trail[j].lit = -l /\ l \in Literal
      BY <2>1, <2>4, ReasonFacts
    <3>2. l = -trail[j].lit  BY <3>1, Literals
    <3> QED  BY <3>2 DEF Complement
  <2> QED  BY <2>2, <2>3, <2>4
<1> QED  BY <1>1, SearchInvariantHolds, PTL

\* At level 0 the watched literals of a clause that is not true are open: they are not
\* among the literals that simplifying takes out.
THEOREM SearchWatches == Spec => []WatchedAreOpen
<1>1. IInv => WatchedAreOpen
  <2> SUFFICES ASSUME IInv, pc \in {"decide", "stamp"}, Level = 0,
                      NEW c \in DOMAIN order, ~Satisfied(c)
               PROVE  ~Assigned(order[c][1]) /\ ~Assigned(order[c][2])
    BY DEF WatchedAreOpen
  <2>1. Parts  BY DEF IInv
  <2>2. {order[c][1], order[c][2]} \cap FalseLits = {}
    BY <2>1, Propagated DEF Satisfied
  <2>3. order[c][1] \in c.lits /\ order[c][2] \in c.lits  BY <2>1 DEF Parts, ClauseInv
  <2> QED  BY <2>2, <2>3 DEF Assigned, Satisfied
<1> QED  BY <1>1, SearchInvariantHolds, PTL
=================================================================================
