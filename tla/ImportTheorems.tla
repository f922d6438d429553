---------------------------- MODULE ImportTheorems ----------------------------
(***************************************************************************)
(* No imported clause is lost or applied twice, and unit clauses do not    *)
(* wait longer than an interval, for any bounds.                           *)
(***************************************************************************)
EXTENDS ImportedClauses, TLAPS

USE ImportAssumption

-----------------------------------------------------------------------------
(* The inductive invariant                                                 *)

Numbered == [id : Nat, prd : Nat]
Ids(s) == {s[n].id : n \in DOMAIN s}

Types ==
  /\ kissat \in BOOLEAN
  /\ pc \in {"check", "apply", "applying", "search", "unsat"}
  /\ at_root \in BOOLEAN
  /\ periods \in Nat
  /\ last_fapp_period \in 0 .. periods
  /\ imported \in Nat
  /\ imported_clauses \in Seq(Numbered)
  /\ imported_unit_clauses \in Seq(Numbered)
  /\ moved \in Seq(Numbered)
  /\ applied \in Seq(Numbered)

\* The four places hold all numbers, and as many clauses as there are numbers.
PlacesInv ==
  /\ Ids(applied) \cup Ids(moved) \cup Ids(imported_unit_clauses)
       \cup Ids(imported_clauses) = 1 .. imported
  /\ Len(applied) + Len(moved) + Len(imported_unit_clauses)
       + Len(imported_clauses) = imported

\* Kissat moves the vectors away only when the last ones are used up.
MovedInv == moved # << >> => kissat /\ pc \in {"applying", "unsat"}

\* The unit clauses there are came after the last interruption; when the search of
\* the MiniSat family asks again, the interval since then is not over.
UnitsInv ==
  ~kissat =>
    /\ \A n \in 1 .. Len(imported_unit_clauses) :
         last_fapp_period < imported_unit_clauses[n].prd
    /\ pc = "check" /\ imported_unit_clauses # << >> =>
         periods < last_fapp_period + FAppPeriods
    /\ UnitsKeptOneInterval

IInv == Types /\ PlacesInv /\ MovedInv /\ UnitsInv

-----------------------------------------------------------------------------
(* Sequences of numbered clauses                                           *)

LEMMA IdsOfConcat ==
  ASSUME NEW s \in Seq(Numbered), NEW t \in Seq(Numbered)
  PROVE  /\ s \o t \in Seq(Numbered)
         /\ Ids(s \o t) = Ids(s) \cup Ids(t)
         /\ Len(s \o t) = Len(s) + Len(t)
<1>1. \A n \in DOMAIN s : (s \o t)[n] = s[n] /\ n \in DOMAIN (s \o t)  OBVIOUS
<1>2. \A n \in DOMAIN t :
        (s \o t)[Len(s) + n] = t[n] /\ Len(s) + n \in DOMAIN (s \o t)
  OBVIOUS
<1>3. \A n \in DOMAIN (s \o t) : \/ n \in DOMAIN s
                                 \/ n - Len(s) \in DOMAIN t /\ n = Len(s) + (n - Len(s))
  OBVIOUS
<1>4. Ids(s) \cup Ids(t) \subseteq Ids(s \o t)  BY <1>1, <1>2 DEF Ids
<1>5. Ids(s \o t) \subseteq Ids(s) \cup Ids(t)
  <2> SUFFICES ASSUME NEW n \in DOMAIN (s \o t)
               PROVE  (s \o t)[n].id \in Ids(s) \cup Ids(t)
    BY DEF Ids
  <2>1. CASE n \in DOMAIN s  BY <1>1, <2>1 DEF Ids
  <2>2. CASE n - Len(s) \in DOMAIN t /\ n = Len(s) + (n - Len(s))
    <3>1. (s \o t)[n] = t[n - Len(s)]  BY <1>2, <2>2
    <3> QED  BY <2>2, <3>1 DEF Ids
  <2> QED  BY <1>3, <2>1, <2>2
<1> QED  BY <1>4, <1>5

LEMMA IdsOfHead ==
  ASSUME NEW s \in Seq(Numbered), s # << >>
  PROVE  /\ Head(s) \in Numbered /\ Tail(s) \in Seq(Numbered)
         /\ Ids(s) = {Head(s).id} \cup Ids(Tail(s))
         /\ Len(Tail(s)) = Len(s) - 1
<1>1. /\ Head(s) = s[1] /\ 1 \in DOMAIN s /\ Tail(s) \in Seq(Numbered)
      /\ Len(Tail(s)) = Len(s) - 1
  OBVIOUS
<1>2. \A n \in DOMAIN Tail(s) : Tail(s)[n] = s[n + 1] /\ n + 1 \in DOMAIN s  OBVIOUS
<1>3. \A n \in DOMAIN s : n = 1 \/ (n - 1 \in DOMAIN Tail(s) /\ n = (n - 1) + 1)
  OBVIOUS
<1>4. {Head(s).id} \cup Ids(Tail(s)) \subseteq Ids(s)  BY <1>1, <1>2 DEF Ids
<1>5. Ids(s) \subseteq {Head(s).id} \cup Ids(Tail(s))
  <2> SUFFICES ASSUME NEW n \in DOMAIN s
               PROVE  s[n].id \in {Head(s).id} \cup Ids(Tail(s))
    BY DEF Ids
  <2>1. CASE n = 1  BY <1>1, <2>1
  <2>2. CASE n # 1
    <3>1. n - 1 \in DOMAIN Tail(s) /\ Tail(s)[n - 1] = s[n]  BY <1>2, <1>3, <2>2
    <3> QED  BY <3>1 DEF Ids
  <2> QED  BY <2>1, <2>2
<1> QED  BY <1>1, <1>4, <1>5

LEMMA IdsOfAppend ==
  ASSUME NEW s \in Seq(Numbered), NEW c \in Numbered
  PROVE  /\ Append(s, c) \in Seq(Numbered)
         /\ Ids(Append(s, c)) = Ids(s) \cup {c.id}
         /\ Len(Append(s, c)) = Len(s) + 1
<1>1. \A n \in DOMAIN s : Append(s, c)[n] = s[n] /\ n \in DOMAIN Append(s, c)  OBVIOUS
<1>2. /\ Append(s, c)[Len(s) + 1] = c /\ Len(s) + 1 \in DOMAIN Append(s, c)
      /\ \A n \in DOMAIN Append(s, c) : n \in DOMAIN s \/ n = Len(s) + 1
  OBVIOUS
<1>3. Ids(s) \cup {c.id} \subseteq Ids(Append(s, c))
  <2>1. Ids(s) \subseteq Ids(Append(s, c))  BY <1>1 DEF Ids
  <2>2. c.id \in Ids(Append(s, c))  BY <1>2 DEF Ids
  <2> QED  BY <2>1, <2>2
<1>4. Ids(Append(s, c)) \subseteq Ids(s) \cup {c.id}  BY <1>1, <1>2 DEF Ids
<1> QED  BY <1>3, <1>4

\* New clauses have the next numbers.
LEMMA IdsOfNew ==
  ASSUME NEW first \in Nat, NEW number \in Nat, periods \in Nat
  PROVE  /\ NewClauses(first, number) \in Seq(Numbered)
         /\ Ids(NewClauses(first, number)) = first + 1 .. first + number
         /\ Len(NewClauses(first, number)) = number
<1> DEFINE new == NewClauses(first, number)
<1>1. new \in [1 .. number -> Numbered]  BY DEF NewClauses, Numbered
<1>2. new \in Seq(Numbered) /\ Len(new) = number  BY <1>1
<1>3. DOMAIN new = 1 .. number  BY <1>1
<1>4. \A n \in 1 .. number : new[n].id = first + n  BY DEF NewClauses
<1> HIDE DEF new
<1>5. Ids(new) \subseteq first + 1 .. first + number  BY <1>3, <1>4 DEF Ids
<1>6. ASSUME NEW k \in first + 1 .. first + number PROVE k \in Ids(new)
  <2>1. k - first \in DOMAIN new /\ new[k - first].id = k  BY <1>3, <1>4
  <2> QED  BY <2>1 DEF Ids
<1> QED  BY <1>2, <1>5, <1>6 DEF new

LEMMA NoIds == << >> \in Seq(Numbered) /\ Ids(<< >>) = {} /\ Len(<< >>) = 0
BY DEF Ids

-----------------------------------------------------------------------------
(* The steps                                                               *)

\* A period may end while Kissat applies clauses.
LEMMA NextPeriodStep ==
  ASSUME IInv, NextPeriod, pc' \in {"apply", "applying", "search"},
         moved # << >> => pc' = "applying", ~kissat => pc = "check",
         UNCHANGED <<kissat, at_root, last_fapp_period, moved, applied>>
  PROVE  IInv'
<1> USE DEF IInv
<1>1. PICK units \in 0 .. 2, others \in 0 .. 2 :
        /\ imported' = imported + units + others
        /\ imported_unit_clauses' =
             imported_unit_clauses \o NewClauses(imported, units)
        /\ imported_clauses' =
             imported_clauses \o NewClauses(imported + units, others)
  BY DEF NextPeriod
<1>2. periods' = periods + 1 /\ periods \in Nat /\ imported \in Nat
  BY DEF NextPeriod, Types
<1> DEFINE newUnits == NewClauses(imported, units)
           newOthers == NewClauses(imported + units, others)
<1>3. /\ newUnits \in Seq(Numbered) /\ Len(newUnits) = units
      /\ Ids(newUnits) = imported + 1 .. imported + units
      /\ newOthers \in Seq(Numbered) /\ Len(newOthers) = others
      /\ Ids(newOthers) = imported + units + 1 .. imported + units + others
  <2>1. /\ newUnits \in Seq(Numbered) /\ Len(newUnits) = units
        /\ Ids(newUnits) = imported + 1 .. imported + units
    BY <1>2, IdsOfNew
  <2>2. imported + units \in Nat  BY <1>2
  <2>3. /\ newOthers \in Seq(Numbered) /\ Len(newOthers) = others
        /\ Ids(newOthers) = imported + units + 1 .. imported + units + others
    BY <1>2, <2>2, IdsOfNew
  <2> QED  BY <2>1, <2>3
<1>4. \A n \in 1 .. units : newUnits[n].prd = periods'  BY <1>2 DEF NewClauses
<1> HIDE DEF newUnits, newOthers
<1>5. /\ imported_unit_clauses' \in Seq(Numbered)
      /\ Ids(imported_unit_clauses') = Ids(imported_unit_clauses) \cup Ids(newUnits)
      /\ Len(imported_unit_clauses') = Len(imported_unit_clauses) + units
      /\ imported_clauses' \in Seq(Numbered)
      /\ Ids(imported_clauses') = Ids(imported_clauses) \cup Ids(newOthers)
      /\ Len(imported_clauses') = Len(imported_clauses) + others
  BY <1>1, <1>3, IdsOfConcat DEF Types, newUnits, newOthers
<1>6. Types'  BY <1>1, <1>2, <1>5 DEF Types
<1>7. PlacesInv'
  <2>1. 1 .. imported' = (1 .. imported) \cup (imported + 1 .. imported + units)
                           \cup (imported + units + 1 .. imported + units + others)
    BY <1>1, <1>2
  <2>2. Ids(applied') = Ids(applied) /\ Ids(moved') = Ids(moved)  OBVIOUS
  <2>3. Len(applied) \in Nat /\ Len(moved) \in Nat /\ Len(imported_unit_clauses) \in Nat
          /\ Len(imported_clauses) \in Nat
    BY DEF Types
  <2>4. Len(applied') + Len(moved') + Len(imported_unit_clauses') + Len(imported_clauses')
          = imported'
    <3>1. Len(applied') = Len(applied) /\ Len(moved') = Len(moved)  OBVIOUS
    <3>2. Len(applied) + Len(moved) + Len(imported_unit_clauses)
            + Len(imported_clauses) = imported
      BY DEF PlacesInv
    <3>3. /\ imported' = imported + units + others
          /\ Len(imported_unit_clauses') = Len(imported_unit_clauses) + units
          /\ Len(imported_clauses') = Len(imported_clauses) + others
      BY <1>1, <1>5
    <3> HIDE DEF IInv
    <3> QED  BY <2>3, <3>1, <3>2, <3>3
  <2> QED  BY <1>3, <1>5, <2>1, <2>2, <2>4 DEF PlacesInv
<1>8. MovedInv'  BY DEF MovedInv
<1>9. UnitsInv'
  <2> SUFFICES ASSUME ~kissat
               PROVE  \A n \in 1 .. Len(imported_unit_clauses') :
                        /\ last_fapp_period < imported_unit_clauses'[n].prd
                        /\ periods' <= imported_unit_clauses'[n].prd + FAppPeriods
    BY DEF UnitsInv, UnitsKeptOneInterval
  <2> SUFFICES ASSUME NEW n \in 1 .. Len(imported_unit_clauses')
               PROVE  /\ last_fapp_period < imported_unit_clauses'[n].prd
                      /\ periods' <= imported_unit_clauses'[n].prd + FAppPeriods
    OBVIOUS
  <2>1. CASE n \in 1 .. Len(imported_unit_clauses)
    <3>1. imported_unit_clauses'[n] = imported_unit_clauses[n]
      BY <1>1, <1>3, <2>1 DEF Types, newUnits
    <3>2. /\ last_fapp_period < imported_unit_clauses[n].prd
          /\ periods < last_fapp_period + FAppPeriods
      BY <2>1 DEF UnitsInv
    <3>3. imported_unit_clauses[n] \in Numbered  BY <2>1 DEF Types
    <3> QED  BY <1>2, <3>1, <3>2, <3>3 DEF Types, Numbered
  <2>2. CASE n \notin 1 .. Len(imported_unit_clauses)
    <3>1. n - Len(imported_unit_clauses) \in 1 .. units
      BY <1>5, <2>2 DEF Types
    <3>2. imported_unit_clauses'[n] = newUnits[n - Len(imported_unit_clauses)]
      BY <1>1, <1>3, <3>1 DEF Types, newUnits
    <3>3. imported_unit_clauses'[n].prd = periods'  BY <1>4, <3>1, <3>2
    <3> QED  BY <1>2, <3>3 DEF Types
  <2> QED  BY <2>1, <2>2
<1> QED  BY <1>6, <1>7, <1>8, <1>9

\* The vectors and what has been applied stay as they are.
LEMMA QuietStep ==
  ASSUME IInv,
         UNCHANGED <<kissat, periods, last_fapp_period, vectors, moved, applied>>,
         at_root' \in BOOLEAN,
         pc' \in {"check", "apply", "applying", "search", "unsat"},
         moved # << >> => pc' \in {"applying", "unsat"},
         ~kissat /\ pc' = "check" /\ imported_unit_clauses # << >> =>
           periods < last_fapp_period + FAppPeriods
  PROVE  IInv'
<1> USE DEF IInv, vectors
<1>1. Types'  BY DEF Types
<1>2. PlacesInv'  BY DEF PlacesInv
<1>3. MovedInv'  BY DEF MovedInv
<1>4. UnitsInv'  BY DEF UnitsInv, UnitsKeptOneInterval
<1> QED  BY <1>1, <1>2, <1>3, <1>4

LEMMA ApplyAllStep ==
  ASSUME IInv, ApplyAll
  PROVE  IInv'
<1> USE DEF IInv, ApplyAll
<1> DEFINE before == applied \o imported_unit_clauses
<1>1. /\ before \in Seq(Numbered)
      /\ Ids(before) = Ids(applied) \cup Ids(imported_unit_clauses)
      /\ Len(before) = Len(applied) + Len(imported_unit_clauses)
  BY IdsOfConcat DEF Types
<1> HIDE DEF before
<1>2. /\ applied' = before \o imported_clauses
      /\ applied' \in Seq(Numbered)
      /\ Ids(applied') = Ids(before) \cup Ids(imported_clauses)
      /\ Len(applied') = Len(before) + Len(imported_clauses)
  BY <1>1, IdsOfConcat DEF Types, before
<1>3. Types'  BY <1>2 DEF Types, DecideToApply
<1>4. PlacesInv'
  <2>1. Ids(imported_unit_clauses') = {} /\ Ids(imported_clauses') = {}
          /\ Len(imported_unit_clauses') = 0 /\ Len(imported_clauses') = 0
    BY NoIds
  <2> QED  BY <1>1, <1>2, <2>1 DEF PlacesInv, Types
<1>5. MovedInv'  BY DEF MovedInv
<1>6. UnitsInv'  BY DEF UnitsInv, UnitsKeptOneInterval
<1> QED  BY <1>3, <1>4, <1>5, <1>6

LEMMA StartApplyStep ==
  ASSUME IInv, StartApply
  PROVE  IInv'
<1> USE DEF IInv, StartApply
<1>1. moved = << >>  BY DEF MovedInv
<1>2. /\ moved' \in Seq(Numbered)
      /\ Ids(moved') = Ids(imported_unit_clauses) \cup Ids(imported_clauses)
      /\ Len(moved') = Len(imported_unit_clauses) + Len(imported_clauses)
  BY IdsOfConcat DEF Types
<1>3. Types'  BY <1>2 DEF Types, DecideToApply
<1>4. PlacesInv'
  <2>1. Ids(imported_unit_clauses') = {} /\ Ids(imported_clauses') = {}
          /\ Len(imported_unit_clauses') = 0 /\ Len(imported_clauses') = 0
    BY NoIds
  <2>2. Ids(moved) = {} /\ Len(moved) = 0  BY <1>1, NoIds
  <2> QED  BY <1>2, <2>1, <2>2 DEF PlacesInv, Types
<1>5. MovedInv'  BY DEF MovedInv
<1>6. UnitsInv'  BY DEF UnitsInv
<1> QED  BY <1>3, <1>4, <1>5, <1>6

LEMMA ApplyNextStep ==
  ASSUME IInv, ApplyNext
  PROVE  IInv'
<1> USE DEF IInv, ApplyNext, vectors
<1>1. /\ Head(moved) \in Numbered /\ moved' \in Seq(Numbered)
      /\ Ids(moved) = {Head(moved).id} \cup Ids(moved')
      /\ Len(moved') = Len(moved) - 1
  BY IdsOfHead DEF Types
<1>2. /\ applied' \in Seq(Numbered)
      /\ Ids(applied') = Ids(applied) \cup {Head(moved).id}
      /\ Len(applied') = Len(applied) + 1
  BY <1>1, IdsOfAppend DEF Types
<1>3. Types'  BY <1>1, <1>2 DEF Types
<1>4. PlacesInv'
  <2>1. Len(applied) \in Nat /\ Len(moved) \in Nat  BY DEF Types
  <2>2. Len(applied') + Len(moved') = Len(applied) + Len(moved)  BY <1>1, <1>2, <2>1
  <2>3. Ids(applied') \cup Ids(moved') = Ids(applied) \cup Ids(moved)  BY <1>1, <1>2
  <2>4. UNCHANGED <<imported, imported_clauses, imported_unit_clauses>>  OBVIOUS
  <2> HIDE DEF ApplyNext
  <2> QED  BY <2>2, <2>3, <2>4 DEF PlacesInv
<1>5. MovedInv'  BY DEF MovedInv
<1>6. UnitsInv'  BY DEF MovedInv, UnitsInv
<1> QED  BY <1>3, <1>4, <1>5, <1>6

-----------------------------------------------------------------------------
(* The theorems                                                            *)

LEMMA IInvInit == Init => IInv
<1> SUFFICES ASSUME Init PROVE IInv  OBVIOUS
<1> USE NoIds DEF Init
<1>1. Types  BY DEF Types
<1>2. PlacesInv  BY DEF PlacesInv
<1>3. MovedInv /\ UnitsInv  BY DEF MovedInv, UnitsInv, UnitsKeptOneInterval
<1> QED  BY <1>1, <1>2, <1>3 DEF IInv

LEMMA IInvNext == IInv /\ [Next]_vars => IInv'
<1> SUFFICES ASSUME IInv, [Next]_vars PROVE IInv'  OBVIOUS
<1> USE DEF IInv
<1>1. CASE CheckPeriod
  <2>1. CASE NextPeriod
    BY <1>1, <2>1, NextPeriodStep DEF CheckPeriod, MovedInv
  <2>2. CASE UNCHANGED <<periods, vectors>>
    BY <1>1, <2>2, QuietStep DEF CheckPeriod, MovedInv, Types
  <2> QED  BY <1>1, <2>1, <2>2 DEF CheckPeriod
<1>2. CASE CheckPeriodInside
  BY <1>2, NextPeriodStep DEF CheckPeriodInside, MovedInv
<1>3. CASE SkipApply
  BY <1>3, QuietStep DEF SkipApply, ShouldApplyImportedClauses, MovedInv, Types
<1>4. CASE ApplyAll  BY <1>4, ApplyAllStep
<1>5. CASE StartApply  BY <1>5, StartApplyStep
<1>6. CASE ApplyNext  BY <1>6, ApplyNextStep
<1>7. CASE EndApply  BY <1>7, QuietStep DEF EndApply, Types
<1>8. CASE Search  BY <1>8, QuietStep DEF Search, MovedInv, Types
<1>9. CASE UNCHANGED vars
  BY <1>9, QuietStep DEF vars, MovedInv, Types, UnitsInv
<1> QED  BY <1>1, <1>2, <1>3, <1>4, <1>5, <1>6, <1>7, <1>8, <1>9 DEF Next

\* Every number is in one place, the unit clauses are younger than the last
\* interruption: in every reachable state, for any bounds.
THEOREM ImportInvariant == Spec => []IInv
<1> QED  BY IInvInit, IInvNext, PTL DEF Spec

\* What a worker has imported it has applied once, or still has, also when Kissat
\* imports more while it applies.
THEOREM NothingLost == Spec => []NoClauseLost
<1>1. IInv => NoClauseLost
  <2> SUFFICES ASSUME IInv
               PROVE  /\ Len(AllImported) = imported
                      /\ {AllImported[n].id : n \in 1 .. imported} = 1 .. imported
    BY DEF NoClauseLost
  <2> USE DEF IInv, Types
  <2> DEFINE first == applied \o moved
             second == first \o imported_unit_clauses
  <2>1. /\ first \in Seq(Numbered) /\ Ids(first) = Ids(applied) \cup Ids(moved)
        /\ Len(first) = Len(applied) + Len(moved)
    BY IdsOfConcat
  <2> HIDE DEF first
  <2>2. /\ second \in Seq(Numbered)
        /\ Ids(second) = Ids(first) \cup Ids(imported_unit_clauses)
        /\ Len(second) = Len(first) + Len(imported_unit_clauses)
    BY <2>1, IdsOfConcat
  <2> HIDE DEF second
  <2>3. /\ AllImported \in Seq(Numbered)
        /\ Ids(AllImported) = Ids(second) \cup Ids(imported_clauses)
        /\ Len(AllImported) = Len(second) + Len(imported_clauses)
    BY <2>2, IdsOfConcat DEF AllImported, first, second
  <2>4. Len(AllImported) = imported  BY <2>1, <2>2, <2>3 DEF PlacesInv
  <2>5. Ids(AllImported) = 1 .. imported  BY <2>1, <2>2, <2>3 DEF PlacesInv
  <2>6. DOMAIN AllImported = 1 .. imported  BY <2>3, <2>4
  <2>7. {AllImported[n].id : n \in 1 .. imported} = Ids(AllImported)  BY <2>6 DEF Ids
  <2> QED  BY <2>4, <2>5, <2>7
<1> QED  BY <1>1, ImportInvariant, PTL

\* In the MiniSat family no unit clause waits longer than --fapp-periods.
THEOREM UnitsAppliedInTime == Spec => []UnitsKeptOneInterval
<1>1. IInv => UnitsKeptOneInterval  BY DEF IInv, UnitsInv, UnitsKeptOneInterval
<1> QED  BY <1>1, ImportInvariant, PTL
===============================================================================
