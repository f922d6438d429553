----------------------------- MODULE Chronometer -----------------------------
(***************************************************************************)
(* class Chronometer, and the calls a worker makes of it.  The clocks of a *)
(* worker are nested like its calls: only the innermost one runs.  Apart   *)
(* from the class (time, stack) there is the call stack, and spent, where  *)
(* every tick is charged to what the worker is really doing.               *)
(***************************************************************************)
EXTENDS Integers, Sequences

CONSTANTS
  Kissat,    \* is the base solver Kissat, or one of the MiniSat family?
  MaxTime    \* BOUND: ticks of the clock

ASSUME ChronometerAssumption ==
  /\ Kissat \in BOOLEAN
  /\ MaxTime \in Nat

ProcName ==
  {"RunningTime", "WaitingTime", "ExchangingTime", "PeriodUpdateTime"}

\* What a worker does, and under which name that is to be accounted.
Place == {"search", "export clause", "apply",
          "export", "complete", "import", "wait", "move"}

ProcOf(place) ==
  IF place = "search" THEN "RunningTime"
  ELSE IF place = "wait" THEN "WaitingTime"
  ELSE IF place \in {"complete", "move"} THEN "PeriodUpdateTime"
  ELSE "ExchangingTime"

VARIABLES
  now,      \* system_clock
  time,     \* the time accumulated under each name
  stack,    \* the clocks; the last one runs
  calls,    \* the call stack
  spent     \* the time really spent in each way

vars == <<now, time, stack, calls, spent>>

Init ==
  /\ now = 0
  /\ time = [p \in ProcName |-> 0]
  /\ stack = <<>>
  /\ calls = <<>>
  /\ spent = [p \in ProcName |-> 0]

Clock == [type : ProcName, start : 0 .. now]

Front(s) == SubSeq(s, 1, Len(s) - 1)
Last(s) == s[Len(s)]

\* No name accounts for more than all the time.
TypeOK ==
  /\ now \in 0 .. MaxTime
  /\ time \in [ProcName -> 0 .. now]
  /\ stack \in Seq(Clock)
  /\ calls \in Seq(Place)
  /\ spent \in [ProcName -> 0 .. now]

-----------------------------------------------------------------------------
(* The class                                                               *)

\* The time since the last clock was started, added to its name.
Charge ==
  LET top == Last(stack)
  IN  [time EXCEPT ![top.type] = @ + (now - top.start)]

\* Mutant: the interrupted clock is not read.
StartUnread(type) ==
  /\ time' = time
  /\ stack' = Append(stack, [type |-> type, start |-> now])

Start(type) ==
  /\ time' = IF stack # <<>> THEN Charge ELSE time
  /\ stack' = Append(stack, [type |-> type, start |-> now])

\* The stack without its last clock; the one below starts again.
Popped ==
  LET rest == Front(stack)
  IN  IF rest = <<>> THEN rest
      ELSE [rest EXCEPT ![Len(rest)] = [type |-> @.type, start |-> now]]

Stop ==
  /\ time' = Charge
  /\ stack' = Popped

Toggle(to) ==
  /\ time' = Charge
  /\ stack' = Append(Popped, [type |-> to, start |-> now])

-----------------------------------------------------------------------------
(* The calls.  stop and toggle name the clock they expect to be running;   *)
(* that they are right is the invariant ClocksFollowCalls.                 *)

In(place) == calls # <<>> /\ Last(calls) = place

Call(place) ==
  /\ calls' = Append(calls, place)
  /\ Start(ProcOf(place))
  /\ UNCHANGED <<now, spent>>

Return(place) ==
  /\ In(place)
  /\ calls' = Front(calls)
  /\ Stop
  /\ UNCHANGED <<now, spent>>

GoOn(from, to) ==
  /\ In(from)
  /\ calls' = Append(Front(calls), to)
  /\ Toggle(ProcOf(to))
  /\ UNCHANGED <<now, spent>>

\* solve
Solve == calls = <<>> /\ Call("search")
SolveEnds == Return("search")

\* exportClause, uncheckedExportClause.  In Kissat a unit clause that is
\* being applied counts as learnt and is exported again.
ExportClause == (In("search") \/ (Kissat /\ In("apply"))) /\ Call("export clause")
ExportClauseEnds == Return("export clause")

\* applyImportedClauses
Apply == In("search") /\ Call("apply")
ApplyEnds == Return("apply")

\* checkPeriod, also out of the propagation of an applied clause in Kissat
CheckPeriod == (In("search") \/ (Kissat /\ In("apply"))) /\ Call("export")
ExportEnds == GoOn("export", "complete")
CompleteEnds == GoOn("complete", "import")
ImportEnds == GoOn("import", "move")
CheckPeriodEnds == Return("move")

\* Mutant: waitAdditionCompleted has no clock of its own.
WaitUntimed ==
  /\ In("import")
  /\ calls' = Append(calls, "wait")
  /\ UNCHANGED <<now, time, stack, spent>>

\* importClauses: waitAdditionCompleted
Wait == In("import") /\ Call("wait")
WaitEnds == Return("wait")

Tick ==
  /\ now < MaxTime
  /\ now' = now + 1
  /\ spent' = IF calls = <<>> THEN spent
              ELSE [spent EXCEPT ![ProcOf(Last(calls))] = @ + 1]
  /\ UNCHANGED <<time, stack, calls>>

Next ==
  \/ Solve \/ SolveEnds
  \/ ExportClause \/ ExportClauseEnds
  \/ Apply \/ ApplyEnds
  \/ CheckPeriod \/ ExportEnds \/ CompleteEnds \/ ImportEnds \/ CheckPeriodEnds
  \/ Wait \/ WaitEnds
  \/ Tick

Spec == Init /\ [][Next]_vars

-----------------------------------------------------------------------------
(* Properties                                                              *)

\* The clocks are nested as the calls are: the assertions of stop and toggle
\* (pt.type == type) hold, also when Kissat exchanges while it applies.
ClocksFollowCalls ==
  /\ Len(stack) = Len(calls)
  /\ \A n \in 1 .. Len(calls) : stack[n].type = ProcOf(calls[n])

\* What getTime will return, if all clocks were stopped now, is the time
\* really spent: nothing is counted twice or not at all.
TimesAreExclusive ==
  \A p \in ProcName :
    spent[p] = time[p] + (IF stack # <<>> /\ Last(stack).type = p
                          THEN now - Last(stack).start ELSE 0)
=============================================================================
