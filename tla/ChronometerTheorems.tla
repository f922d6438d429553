------------------------- MODULE ChronometerTheorems -------------------------
(***************************************************************************)
(* The clocks of a worker measure exclusive times, however its calls are   *)
(* nested.  The inductive invariant is the conjunction of the properties:  *)
(* a clock that is stopped must be the one of the call that returns, and   *)
(* the clock below must start again at that moment.                        *)
(***************************************************************************)
EXTENDS Chronometer, SequenceTheorems, TLAPS

USE ChronometerAssumption

CInv ==
  /\ now \in 0 .. MaxTime
  /\ time \in [ProcName -> Nat]
  /\ stack \in Seq(Clock)
  /\ calls \in Seq(Place)
  /\ spent \in [ProcName -> 0 .. now]
  /\ ClocksFollowCalls
  /\ TimesAreExclusive

\* Every place is accounted for under one of the four names.
LEMMA ProcOfType == \A place \in Place : ProcOf(place) \in ProcName
BY DEF ProcOf, Place, ProcName

\* Appending one element.
LEMMA AppendFacts ==
  ASSUME NEW S, NEW s \in Seq(S), NEW e \in S
  PROVE  /\ Append(s, e) \in Seq(S)
         /\ Len(Append(s, e)) = Len(s) + 1
         /\ Append(s, e) # <<>>
         /\ Append(s, e)[Len(s) + 1] = e
         /\ \A n \in 1 .. Len(s) : Append(s, e)[n] = s[n]
OBVIOUS

\* Taking the last element away.
LEMMA FrontFacts ==
  ASSUME NEW S, NEW s \in Seq(S), s # <<>>
  PROVE  /\ Len(s) \in Nat \ {0}
         /\ Front(s) \in Seq(S)
         /\ Len(Front(s)) = Len(s) - 1
         /\ \A n \in 1 .. Len(s) - 1 : Front(s)[n] = s[n]
<1>1. Len(s) \in Nat \ {0}
  OBVIOUS
<1>2. \A n \in 1 .. Len(s) - 1 : s[n] \in S
  BY <1>1
<1>3. /\ Front(s) \in Seq(S)
      /\ Len(Front(s)) = Len(s) - 1
      /\ \A n \in 1 .. Len(s) - 1 : Front(s)[n] = s[n]
  <2> DEFINE m == Len(s) - 1
  <2>1. m \in Nat /\ 1 \in Int /\ m \in Int /\ Front(s) = SubSeq(s, 1, m)
    BY <1>1 DEF Front
  <2>2. \A n \in 1 .. m : s[n] \in S
    BY <1>2
  <2> HIDE DEF m
  <2>3. /\ SubSeq(s, 1, m) \in Seq(S)
        /\ Len(SubSeq(s, 1, m)) = IF 1 <= m THEN m - 1 + 1 ELSE 0
        /\ \A n \in 1 .. m - 1 + 1 : SubSeq(s, 1, m)[n] = s[1 + n - 1]
    <3> DEFINE T == SubSeq(s, 1, m)
    <3>1. T \in Seq(S)
      BY <2>1, <2>2, SubSeqProperties
    <3>2. Len(T) = IF 1 <= m THEN m - 1 + 1 ELSE 0
      BY <2>1, <2>2, SubSeqProperties
    <3>3. \A n \in 1 .. m - 1 + 1 : T[n] = s[1 + n - 1]
      BY <2>1, <2>2, SubSeqProperties
    <3> QED BY <3>1, <3>2, <3>3
  <2>4. (IF 1 <= m THEN m - 1 + 1 ELSE 0) = m /\ m - 1 + 1 = m
    BY <2>1
  <2>5. \A n \in 1 .. m : Front(s)[n] = s[n]
    <3>1. TAKE n \in 1 .. m
    <3>2. 1 + n - 1 = n
      BY <2>1
    <3>3. Front(s)[n] = s[1 + n - 1]
      BY <2>1, <2>3, <2>4, Zenon
    <3> QED BY <3>2, <3>3
  <2> QED BY <2>1, <2>3, <2>4, <2>5 DEF m
<1> QED BY <1>1, <1>3

\* The stack that stop leaves: the names below are kept, the last is anew.
LEMMA PoppedFacts ==
  ASSUME now \in Nat, stack \in Seq(Clock), stack # <<>>
  PROVE  /\ Popped \in Seq(Clock)
         /\ Len(Popped) = Len(stack) - 1
         /\ \A n \in 1 .. Len(stack) - 1 : Popped[n].type = stack[n].type
         /\ Popped # <<>> => Last(Popped).start = now
<1> DEFINE rest == Front(stack)
<1>1. /\ Len(stack) \in Nat \ {0}
      /\ rest \in Seq(Clock)
      /\ Len(rest) = Len(stack) - 1
      /\ \A n \in 1 .. Len(stack) - 1 : rest[n] = stack[n]
  BY FrontFacts
<1>2. CASE rest = <<>>
  <2>1. Popped = <<>>
    BY <1>2 DEF Popped
  <2>2. Len(rest) = 0
    BY <1>2
  <2> QED BY <1>1, <2>1, <2>2
<1>3. CASE rest # <<>>
  <2> DEFINE top == [type |-> rest[Len(rest)].type, start |-> now]
  <2>1. Popped = [rest EXCEPT ![Len(rest)] = top]
    BY <1>3 DEF Popped
  <2>2. Len(rest) \in Nat \ {0} /\ rest[Len(rest)] \in Clock
    BY <1>1, <1>3
  <2>3. top \in Clock /\ top.start = now /\ top.type = rest[Len(rest)].type
    BY <2>2 DEF Clock
  <2> HIDE DEF rest, top
  <2>4. /\ Popped \in Seq(Clock)
        /\ Len(Popped) = Len(rest)
        /\ Popped[Len(rest)] = top
        /\ \A n \in 1 .. Len(rest) : n # Len(rest) => Popped[n] = rest[n]
    BY <1>1, <2>1, <2>2, <2>3
  <2>5. \A n \in 1 .. Len(stack) - 1 : Popped[n].type = stack[n].type
    BY <1>1, <2>3, <2>4
  <2> QED BY <1>1, <2>3, <2>4, <2>5 DEF Last
<1> QED BY <1>2, <1>3

\* Reading the running clock into the time of its name.
LEMMA ChargeFacts ==
  ASSUME CInv, stack # <<>>
  PROVE  /\ Last(stack) \in Clock
         /\ Charge \in [ProcName -> Nat]
         /\ \A p \in ProcName : spent[p] = Charge[p]
<1>1. Last(stack) \in Clock
  BY DEF CInv, Last
<1>2. /\ Last(stack).type \in ProcName
      /\ Last(stack).start \in 0 .. now
      /\ now \in Nat
  BY <1>1 DEF Clock, CInv
<1>3. \A p \in ProcName :
        Charge[p] = time[p] + (IF Last(stack).type = p
                               THEN now - Last(stack).start ELSE 0)
  BY <1>2 DEF Charge, CInv
<1>4. Charge \in [ProcName -> Nat]
  BY <1>2 DEF Charge, CInv
<1> QED BY <1>1, <1>3, <1>4 DEF CInv, TimesAreExclusive

-----------------------------------------------------------------------------

LEMMA CallKeepsCInv ==
  ASSUME CInv, NEW place \in Place, Call(place)
  PROVE  CInv'
<1> DEFINE clock == [type |-> ProcOf(place), start |-> now]
<1>1. clock \in Clock
  BY ProcOfType DEF Clock, CInv
<1>2. /\ now' = now /\ spent' = spent /\ Clock' = Clock
      /\ calls' = Append(calls, place)
      /\ stack' = Append(stack, clock)
      /\ time' = IF stack # <<>> THEN Charge ELSE time
  BY DEF Call, Start, Clock
<1> HIDE DEF clock
<1>3. /\ calls' \in Seq(Place) /\ Len(calls') = Len(calls) + 1
      /\ calls'[Len(calls) + 1] = place
      /\ \A n \in 1 .. Len(calls) : calls'[n] = calls[n]
  BY <1>2, AppendFacts DEF CInv
<1>4. /\ stack' \in Seq(Clock) /\ Len(stack') = Len(stack) + 1
      /\ stack' # <<>>
      /\ stack'[Len(stack) + 1] = clock
      /\ \A n \in 1 .. Len(stack) : stack'[n] = stack[n]
  BY <1>1, <1>2, AppendFacts DEF CInv
<1>5. ClocksFollowCalls'
  <2>1. Len(stack) = Len(calls) /\ Len(calls) \in Nat
    BY DEF CInv, ClocksFollowCalls
  <2>2. clock.type = ProcOf(place)
    BY DEF clock
  <2> QED BY <1>3, <1>4, <2>1, <2>2 DEF CInv, ClocksFollowCalls
<1>6. /\ time' \in [ProcName -> Nat]
      /\ \A p \in ProcName : spent[p] = time'[p]
  BY <1>2, ChargeFacts DEF CInv, TimesAreExclusive
<1>7. TimesAreExclusive'
  <2>1. Last(stack').start = now
    BY <1>4 DEF Last, clock
  <2>2. SUFFICES ASSUME NEW p \in ProcName
                 PROVE  spent'[p] = time'[p]
                          + (IF stack' # <<>> /\ Last(stack').type = p
                             THEN now' - Last(stack').start ELSE 0)
    BY DEF TimesAreExclusive, Last
  <2>3. now' - Last(stack').start = 0 /\ time'[p] \in Nat
    BY <1>2, <1>6, <2>1 DEF CInv
  <2> QED BY <1>2, <1>6, <2>3
<1> QED BY <1>2, <1>3, <1>4, <1>5, <1>6, <1>7 DEF CInv

\* What stop and the first half of toggle leave behind.
LEMMA StopFacts ==
  ASSUME CInv, calls # <<>>
  PROVE  /\ Charge \in [ProcName -> Nat]
         /\ \A p \in ProcName : spent[p] = Charge[p]
         /\ Popped \in Seq(Clock)
         /\ Front(calls) \in Seq(Place)
         /\ Len(Popped) = Len(Front(calls))
         /\ \A n \in 1 .. Len(Popped) : Popped[n].type = ProcOf(Front(calls)[n])
         /\ Popped # <<>> => Last(Popped).start = now
<1>1. stack # <<>>
  BY DEF CInv, ClocksFollowCalls
<1>2. /\ Popped \in Seq(Clock)
      /\ Len(Popped) = Len(stack) - 1
      /\ \A n \in 1 .. Len(stack) - 1 : Popped[n].type = stack[n].type
      /\ Popped # <<>> => Last(Popped).start = now
  BY <1>1, PoppedFacts DEF CInv
<1>3. /\ Front(calls) \in Seq(Place)
      /\ Len(Front(calls)) = Len(calls) - 1
      /\ \A n \in 1 .. Len(calls) - 1 : Front(calls)[n] = calls[n]
  BY FrontFacts DEF CInv
<1>4. Len(stack) = Len(calls) /\ Len(calls) \in Nat
  BY DEF CInv, ClocksFollowCalls
<1>5. \A n \in 1 .. Len(Popped) : Popped[n].type = ProcOf(Front(calls)[n])
  BY <1>2, <1>3, <1>4 DEF CInv, ClocksFollowCalls
<1> QED BY <1>1, <1>2, <1>3, <1>4, <1>5, ChargeFacts

LEMMA ReturnKeepsCInv ==
  ASSUME CInv, NEW place \in Place, Return(place)
  PROVE  CInv'
<1>1. /\ calls # <<>>
      /\ now' = now /\ spent' = spent /\ Clock' = Clock
      /\ calls' = Front(calls) /\ stack' = Popped /\ time' = Charge
  BY DEF Return, In, Stop, Clock
<1>2. ClocksFollowCalls'
  BY <1>1, StopFacts DEF ClocksFollowCalls
<1>3. TimesAreExclusive'
  <2>1. SUFFICES ASSUME NEW p \in ProcName
                 PROVE  spent'[p] = time'[p]
                          + (IF stack' # <<>> /\ Last(stack').type = p
                             THEN now' - Last(stack').start ELSE 0)
    BY DEF TimesAreExclusive, Last
  <2>2. spent'[p] = time'[p] /\ time'[p] \in Nat
    BY <1>1, StopFacts
  <2>3. stack' # <<>> => now' - Last(stack').start = 0
    BY <1>1, StopFacts DEF CInv, Last
  <2> QED BY <2>2, <2>3
<1> QED BY <1>1, <1>2, <1>3, StopFacts DEF CInv

LEMMA GoOnKeepsCInv ==
  ASSUME CInv, NEW from \in Place, NEW to \in Place, GoOn(from, to)
  PROVE  CInv'
<1> DEFINE clock == [type |-> ProcOf(to), start |-> now]
<1>1. clock \in Clock /\ clock.type = ProcOf(to) /\ clock.start = now
  BY ProcOfType DEF Clock, CInv
<1>2. /\ calls # <<>>
      /\ now' = now /\ spent' = spent /\ Clock' = Clock
      /\ calls' = Append(Front(calls), to)
      /\ stack' = Append(Popped, clock)
      /\ time' = Charge
  BY DEF GoOn, In, Toggle, Clock
<1> HIDE DEF clock
<1>3. /\ calls' \in Seq(Place) /\ Len(calls') = Len(Front(calls)) + 1
      /\ calls'[Len(Front(calls)) + 1] = to
      /\ \A n \in 1 .. Len(Front(calls)) : calls'[n] = Front(calls)[n]
  <2>1. Front(calls) \in Seq(Place)
    BY <1>2, StopFacts
  <2> QED BY <1>2, <2>1, AppendFacts
<1>4. /\ stack' \in Seq(Clock) /\ Len(stack') = Len(Popped) + 1
      /\ stack' # <<>>
      /\ stack'[Len(Popped) + 1] = clock
      /\ \A n \in 1 .. Len(Popped) : stack'[n] = Popped[n]
  <2>1. Popped \in Seq(Clock)
    BY <1>2, StopFacts
  <2> QED BY <1>1, <1>2, <2>1, AppendFacts
<1>5. /\ Len(Popped) = Len(Front(calls)) /\ Len(Popped) \in Nat
      /\ \A n \in 1 .. Len(Popped) : Popped[n].type = ProcOf(Front(calls)[n])
  BY <1>2, StopFacts
<1>6. ClocksFollowCalls'
  BY <1>1, <1>3, <1>4, <1>5 DEF ClocksFollowCalls
<1>7. TimesAreExclusive'
  <2>1. SUFFICES ASSUME NEW p \in ProcName
                 PROVE  spent'[p] = time'[p]
                          + (IF stack' # <<>> /\ Last(stack').type = p
                             THEN now' - Last(stack').start ELSE 0)
    BY DEF TimesAreExclusive, Last
  <2>2. spent'[p] = time'[p] /\ time'[p] \in Nat
    BY <1>2, StopFacts
  <2>3. now' - Last(stack').start = 0
    BY <1>1, <1>2, <1>4, <1>5 DEF CInv, Last
  <2> QED BY <2>2, <2>3
<1> QED BY <1>2, <1>3, <1>4, <1>6, <1>7, StopFacts DEF CInv

LEMMA TickKeepsCInv ==
  ASSUME CInv, Tick
  PROVE  CInv'
<1>1. /\ now \in Nat /\ MaxTime \in Nat /\ now < MaxTime /\ now' = now + 1
      /\ time' = time /\ stack' = stack /\ calls' = calls
  BY DEF Tick, CInv
<1>2. stack' \in Seq(Clock')
  <2>1. Clock \subseteq Clock'
    BY <1>1 DEF Clock
  <2> HIDE DEF Clock
  <2> QED BY <1>1, <2>1 DEF CInv
<1>3. CASE calls = <<>>
  <2>1. stack = <<>> /\ spent' = spent
    BY <1>3 DEF CInv, ClocksFollowCalls, Tick
  <2>2. TimesAreExclusive'
    BY <1>1, <2>1 DEF CInv, TimesAreExclusive
  <2>3. spent' \in [ProcName -> 0 .. now']
    BY <1>1, <2>1 DEF CInv
  <2> QED BY <1>1, <1>2, <2>2, <2>3 DEF CInv, ClocksFollowCalls
<1>4. CASE calls # <<>>
  <2> DEFINE q == ProcOf(Last(calls))
  <2>1. stack # <<>> /\ Last(stack) \in Clock /\ Last(stack).type = q
    BY <1>4 DEF CInv, ClocksFollowCalls, Last
  <2>2. q \in ProcName /\ Last(stack).start \in 0 .. now
    BY <2>1 DEF Clock
  <2>3. spent' = [spent EXCEPT ![q] = @ + 1]
    BY <1>4 DEF Tick
  <2> HIDE DEF q
  <2>4. spent' \in [ProcName -> 0 .. now']
    BY <1>1, <2>2, <2>3 DEF CInv
  <2>5. TimesAreExclusive'
    <3>1. SUFFICES ASSUME NEW p \in ProcName
                   PROVE  spent'[p] = time[p] + (IF q = p
                            THEN now + 1 - Last(stack).start ELSE 0)
      <4>1. Last(stack') = Last(stack)
        BY <1>1 DEF Last
      <4>2. stack' # <<>> /\ Last(stack').type = q
        BY <1>1, <2>1, <4>1
      <4>3. \A p \in ProcName :
              (IF stack' # <<>> /\ Last(stack').type = p
               THEN now' - Last(stack').start ELSE 0)
              = IF q = p THEN now + 1 - Last(stack).start ELSE 0
        <5>1. now' - Last(stack').start = now + 1 - Last(stack).start
          BY <1>1, <2>2 DEF Last
        <5> QED BY <4>2, <5>1, Zenon
      <4>4. TimesAreExclusive' <=>
              \A p \in ProcName :
                spent'[p] = time'[p] + (IF stack' # <<>> /\ Last(stack').type = p
                                        THEN now' - Last(stack').start ELSE 0)
        BY DEF TimesAreExclusive, Last
      <4> QED BY <1>1, <4>3, <4>4
    <3>2. spent[p] = time[p] + (IF q = p THEN now - Last(stack).start ELSE 0)
      BY <2>1 DEF CInv, TimesAreExclusive
    <3>3. time[p] \in Nat /\ spent[p] \in Nat
      BY <1>1 DEF CInv
    <3>4. spent'[p] = IF p = q THEN spent[p] + 1 ELSE spent[p]
      BY <2>3 DEF CInv
    <3> QED BY <1>1, <2>2, <3>2, <3>3, <3>4
  <2> QED BY <1>1, <1>2, <2>4, <2>5 DEF CInv, ClocksFollowCalls
<1> QED BY <1>3, <1>4

\* In every run the clocks are nested as the calls are, so that no assertion
\* of stop or toggle fails, and the times are exclusive.
THEOREM CInvAlways == Spec => []CInv
<1>1. Init => CInv
  BY DEF Init, CInv, ClocksFollowCalls, TimesAreExclusive, Clock
<1>2. CInv /\ [Next]_vars => CInv'
  <2>1. SUFFICES ASSUME CInv, [Next]_vars PROVE CInv'
    OBVIOUS
  <2>2. \A place \in Place : Call(place) => CInv'
    BY <2>1, CallKeepsCInv
  <2>3. \A place \in Place : Return(place) => CInv'
    BY <2>1, ReturnKeepsCInv
  <2>4. \A from, to \in Place : GoOn(from, to) => CInv'
    BY <2>1, GoOnKeepsCInv
  <2>5. CASE Tick
    BY <2>1, <2>5, TickKeepsCInv
  <2>6. CASE Solve \/ ExportClause \/ Apply \/ CheckPeriod \/ Wait
    BY <2>2, <2>6 DEF Solve, ExportClause, Apply, CheckPeriod, Wait, Place
  <2>7. CASE SolveEnds \/ ExportClauseEnds \/ ApplyEnds \/ CheckPeriodEnds
               \/ WaitEnds
    BY <2>3, <2>7
    DEF SolveEnds, ExportClauseEnds, ApplyEnds, CheckPeriodEnds, WaitEnds, Place
  <2>8. CASE ExportEnds \/ CompleteEnds \/ ImportEnds
    BY <2>4, <2>8 DEF ExportEnds, CompleteEnds, ImportEnds, Place
  <2>9. CASE UNCHANGED vars
    BY <2>1, <2>9
    DEF vars, CInv, ClocksFollowCalls, TimesAreExclusive, Clock, Last
  <2> QED BY <2>1, <2>5, <2>6, <2>7, <2>8, <2>9 DEF Next
<1> QED BY <1>1, <1>2, PTL DEF Spec

\* The assertions on the type of the clock in stop and toggle hold.
THEOREM ClocksFollowCallsAlways == Spec => []ClocksFollowCalls
<1>1. CInv => ClocksFollowCalls
  BY DEF CInv
<1> QED BY <1>1, CInvAlways, PTL

\* getTime counts no time twice and leaves none out.
THEOREM TimesAreExclusiveAlways == Spec => []TimesAreExclusive
<1>1. CInv => TimesAreExclusive
  BY DEF CInv
<1> QED BY <1>1, CInvAlways, PTL

\* Type correctness; no name accounts for more than all the time.
THEOREM ChronometerTypes == Spec => []TypeOK
<1>1. ASSUME CInv PROVE TypeOK
  <2>1. now \in Nat
    BY <1>1 DEF CInv
  <2>2. ASSUME NEW p \in ProcName PROVE time[p] \in 0 .. now
    <3>1. time[p] \in Nat /\ spent[p] \in 0 .. now
      BY <1>1 DEF CInv
    <3>2. stack # <<>> => Last(stack).start \in 0 .. now
      <4>1. stack # <<>> => Last(stack) \in Clock
        BY <1>1 DEF CInv, Last
      <4> QED BY <4>1 DEF Clock
    <3>3. spent[p] = time[p] + (IF stack # <<>> /\ Last(stack).type = p
                                THEN now - Last(stack).start ELSE 0)
      BY <1>1 DEF CInv, TimesAreExclusive
    <3>4. CASE stack # <<>> /\ Last(stack).type = p
      BY <2>1, <3>1, <3>2, <3>3, <3>4
    <3>5. CASE ~(stack # <<>> /\ Last(stack).type = p)
      BY <2>1, <3>1, <3>3, <3>5
    <3> QED BY <3>4, <3>5
  <2>3. time \in [ProcName -> 0 .. now]
    BY <1>1, <2>2 DEF CInv
  <2> QED BY <1>1, <2>3 DEF CInv, TypeOK
<1> QED BY <1>1, CInvAlways, PTL
=============================================================================
