----------------------------- MODULE MainThread -----------------------------
(***************************************************************************)
(* The main thread (DetParallelSolver::solve, main), what it shares with   *)
(* the workers, and the handler of SIGINT and SIGXCPU.  The search of a    *)
(* worker is an oracle: outcome[t] is the status and the period it ends    *)
(* with.  The handler and the main thread read the result without a lock,  *)
(* so the assignments of IFinished are steps of their own here.            *)
(***************************************************************************)
EXTENDS Sharer, FiniteSets

CONSTANTS
  Answer,         \* "SAT" or "UNSAT": the status of the input formula
  AdjustThreads,  \* --adjust-threads
  MemUseLim,      \* --mem-lim
  UsedMemory      \* memory in use after loading, in MB: values to consider

ASSUME MainAssumption ==
  /\ Answer \in {"SAT", "UNSAT"}
  /\ AdjustThreads \in Nat
  /\ MemUseLim \in Nat
  /\ UsedMemory \subseteq Nat \ {0}

VARIABLES
  main,              \* where the main thread is
  num_threads,       \* how many solvers there are
  used_mem,          \* used_mem_after_loading
  created,           \* threads created so far
  joined,            \* threads joined so far
  worker,            \* where each worker is
  outcome,           \* the oracle; never changes
  lock,              \* mutexJobFinished: its holder, or -1
  num_live_threads,
  lanched,
  handler,           \* where the signal handler is
  interrupted,       \* the thread it runs in: -1 for the main thread
  printed,           \* the lines "s ..." printed
  model_of,          \* the thread whose model was printed; -2 for none
  exit_code          \* "none" as long as the process runs

mainVars == <<main, created, joined>>
startVars == <<num_threads, used_mem, outcome>>
liveVars == <<num_live_threads, lanched>>
handlerVars == <<handler, interrupted>>
outputVars == <<printed, model_of>>
vars == <<mainVars, startVars, worker, lock, liveVars, handlerVars, outputVars,
          exit_code, sharerVars>>

NoModel == -2

Init ==
  /\ SharerInit
  /\ main = "load"
  /\ num_threads = 0
  /\ used_mem \in UsedMemory
  /\ created = 0
  /\ joined = 0
  /\ worker = [t \in Thread |-> "none"]
  /\ outcome \in [Thread -> [status : {Answer, "UNKNOWN"}, prd : 0 .. MaxPeriod]]
  /\ lock = -1
  /\ num_live_threads = 0
  /\ lanched = FALSE
  /\ handler = "none"
  /\ interrupted = -1
  /\ printed = {}
  /\ model_of = NoModel
  /\ exit_code = "none"

-----------------------------------------------------------------------------

Alive == exit_code = "none"

\* The thread whose code the handler has interrupted does nothing else.
MainRuns == Alive /\ (handler = "none" \/ interrupted # -1)
WorkerRuns(t) == Alive /\ (handler = "none" \/ interrupted # t)

MainFrom(from, to) == MainRuns /\ main = from /\ main' = to
WorkerFrom(t, from, to) ==
  WorkerRuns(t) /\ worker[t] = from /\ worker' = [worker EXCEPT ![t] = to]

-----------------------------------------------------------------------------
(* The main thread                                                         *)

Load ==
  /\ MainFrom("load", "generate")
  /\ UNCHANGED <<created, joined, startVars, worker, lock, liveVars,
                 handlerVars, outputVars, exit_code, sharerVars>>

\* An exception (no such file, unknown solver): main prints the result.
Throw ==
  /\ MainRuns
  /\ main \in {"load", "generate"}
  /\ printed' = printed \cup {final_result}
  /\ exit_code' = final_result
  /\ UNCHANGED <<mainVars, startVars, worker, lock, liveVars, handlerVars,
                 model_of, sharerVars>>

\* generateAllSolvers: fewer threads for a large formula.
AdjustedThreads(requested, used) ==
  LET fitting == MemUseLim \div (used * AdjustThreads)
  IN  IF AdjustThreads = 0 \/ MemUseLim = 0 \/ used < 250 \/ requested < fitting
      THEN requested
      ELSE IF fitting = 0 THEN 1
      ELSE fitting

Generate ==
  /\ MainFrom("generate", "create")
  /\ num_threads' = AdjustedThreads(NumThreads, used_mem)
  /\ UNCHANGED <<created, joined, used_mem, outcome, worker, lock, liveVars,
                 handlerVars, outputVars, exit_code, sharerVars>>

Create ==
  /\ MainRuns
  /\ main = "create"
  /\ created < num_threads
  /\ created' = created + 1
  /\ worker' = [worker EXCEPT ![created] = "created"]
  /\ main' = IF created + 1 = num_threads THEN "loop" ELSE "create"
  /\ UNCHANGED <<joined, startVars, lock, liveVars, handlerVars, outputVars,
                 exit_code, sharerVars>>

\* getNumLiveSolvers() = 0
NoLiveSolvers == lanched /\ num_live_threads = 0

CheckLive ==
  /\ MainFrom("loop", IF NoLiveSolvers THEN "join" ELSE "wait")
  /\ UNCHANGED <<created, joined, startVars, worker, lock, liveVars,
                 handlerVars, outputVars, exit_code, sharerVars>>

\* Mutant: pthread_cond_wait in place of pthread_cond_timedwait.
TimeoutNever ==
  /\ MainFrom("wait", "loop")
  /\ FALSE
  /\ UNCHANGED <<created, joined, startVars, worker, lock, liveVars,
                 handlerVars, outputVars, exit_code, sharerVars>>

\* pthread_cond_timedwait returns ETIMEDOUT; printStats.
Timeout ==
  /\ MainFrom("wait", "loop")
  /\ UNCHANGED <<created, joined, startVars, worker, lock, liveVars,
                 handlerVars, outputVars, exit_code, sharerVars>>

\* It may also return without any reason.
SpuriousWakeup ==
  /\ MainFrom("wait", "join")
  /\ UNCHANGED <<created, joined, startVars, worker, lock, liveVars,
                 handlerVars, outputVars, exit_code, sharerVars>>

\* Mutant: without pthread_join.
JoinNothing ==
  /\ MainFrom("join", "print")
  /\ joined' = created
  /\ UNCHANGED <<created, startVars, worker, lock, liveVars, handlerVars,
                 outputVars, exit_code, sharerVars>>

Join ==
  /\ MainRuns
  /\ main = "join"
  /\ worker[joined] = "ended"
  /\ joined' = joined + 1
  /\ main' = IF joined + 1 = num_threads THEN "print" ELSE "join"
  /\ UNCHANGED <<created, startVars, worker, lock, liveVars, handlerVars,
                 outputVars, exit_code, sharerVars>>

\* printResult: the status, then the model of the winner.
PrintStatus ==
  /\ MainFrom("print", IF final_result = "SAT" THEN "model" ELSE "exit")
  /\ printed' = printed \cup {final_result}
  /\ UNCHANGED <<created, joined, startVars, worker, lock, liveVars,
                 handlerVars, model_of, exit_code, sharerVars>>

PrintModel ==
  /\ MainFrom("model", "exit")
  /\ model_of' = winner_id
  /\ UNCHANGED <<created, joined, startVars, worker, lock, liveVars,
                 handlerVars, printed, exit_code, sharerVars>>

Exit ==
  /\ MainRuns
  /\ main = "exit"
  /\ exit_code' = final_result
  /\ UNCHANGED <<mainVars, startVars, worker, lock, liveVars, handlerVars,
                 outputVars, sharerVars>>

MainStep ==
  \/ Load \/ Generate \/ Create \/ CheckLive \/ Timeout \/ Join
  \/ PrintStatus \/ PrintModel \/ Exit

-----------------------------------------------------------------------------
(* A worker: localLaunch and the end of a wrapper's solve                  *)

IncNumLiveThreads(t) ==
  /\ WorkerFrom(t, "created", "solving")
  /\ num_live_threads' = num_live_threads + 1
  /\ lanched' = TRUE
  /\ UNCHANGED <<mainVars, startVars, lock, handlerVars, outputVars, exit_code,
                 sharerVars>>

Solve(t) ==
  /\ WorkerFrom(t, "solving", "returned")
  /\ UNCHANGED <<mainVars, startVars, lock, liveVars, handlerVars, outputVars,
                 exit_code, sharerVars>>

Better(t) == FoundBetterOne(outcome[t].status, outcome[t].prd, t)

\* Mutant: the first assignment of IFinished is the last.
IFinishedResultFirst(t) ==
  /\ WorkerFrom(t, "returned", IF Better(t) THEN "winner" ELSE "unlock")
  /\ lock = -1
  /\ lock' = t
  /\ final_result' = IF Better(t) THEN outcome[t].status ELSE final_result
  /\ UNCHANGED <<sol_found, winner_id, winner_period>>
  /\ UNCHANGED <<mainVars, startVars, liveVars, handlerVars, outputVars,
                 exit_code>>

\* IFinished: sol_found, winner_id and winner_period ...
SetWinner(t) ==
  /\ WorkerFrom(t, "returned", IF Better(t) THEN "winner" ELSE "unlock")
  /\ lock = -1
  /\ lock' = t
  /\ \/ /\ Better(t)
        /\ sol_found' = TRUE
        /\ winner_id' = t
        /\ winner_period' = outcome[t].prd
        /\ UNCHANGED final_result
     \/ ~Better(t) /\ UNCHANGED sharerVars
  /\ UNCHANGED <<mainVars, startVars, liveVars, handlerVars, outputVars,
                 exit_code>>

\* ... then final_result.
SetResult(t) ==
  /\ WorkerFrom(t, "winner", "unlock")
  /\ final_result' = outcome[t].status
  /\ UNCHANGED <<sol_found, winner_id, winner_period>>
  /\ UNCHANGED <<mainVars, startVars, lock, liveVars, handlerVars, outputVars,
                 exit_code>>

Unlock(t) ==
  /\ WorkerFrom(t, "unlock", "signal")
  /\ lock' = -1
  /\ UNCHANGED <<mainVars, startVars, liveVars, handlerVars, outputVars,
                 exit_code, sharerVars>>

\* pthread_cond_signal(pcfinished): lost if the main thread does not wait.
Signal(t) ==
  /\ WorkerFrom(t, "signal", "leaving")
  /\ main' = IF main = "wait" THEN "join" ELSE main
  /\ UNCHANGED <<created, joined, startVars, lock, liveVars, handlerVars,
                 outputVars, exit_code, sharerVars>>

DecNumLiveThreads(t) ==
  /\ WorkerFrom(t, "leaving", "ended")
  /\ num_live_threads' = num_live_threads - 1
  /\ UNCHANGED <<mainVars, startVars, lock, lanched, handlerVars, outputVars,
                 exit_code, sharerVars>>

WorkerStep(t) ==
  \/ IncNumLiveThreads(t) \/ Solve(t)
  \/ SetWinner(t) \/ SetResult(t) \/ Unlock(t)
  \/ Signal(t) \/ DecNumLiveThreads(t)

-----------------------------------------------------------------------------
(* SIGINT_exit, in whichever thread the signal is delivered to             *)

Interrupt ==
  /\ Alive
  /\ handler = "none"
  /\ handler' = "print"
  /\ interrupted' \in
       {-1} \cup {t \in Thread : worker[t] \notin {"none", "ended"}}
  /\ UNCHANGED <<mainVars, startVars, worker, lock, liveVars, outputVars,
                 exit_code, sharerVars>>

HandlerPrintsStatus ==
  /\ Alive
  /\ handler = "print"
  /\ printed' = printed \cup {final_result}
  /\ handler' = IF final_result = "SAT" THEN "model" ELSE "exit"
  /\ UNCHANGED <<mainVars, startVars, worker, lock, liveVars, interrupted,
                 model_of, exit_code, sharerVars>>

HandlerPrintsModel ==
  /\ Alive
  /\ handler = "model"
  /\ model_of' = winner_id
  /\ handler' = "exit"
  /\ UNCHANGED <<mainVars, startVars, worker, lock, liveVars, interrupted,
                 printed, exit_code, sharerVars>>

HandlerExits ==
  /\ Alive
  /\ handler = "exit"
  /\ exit_code' = final_result
  /\ UNCHANGED <<mainVars, startVars, worker, lock, liveVars, handlerVars,
                 outputVars, sharerVars>>

HandlerStep == HandlerPrintsStatus \/ HandlerPrintsModel \/ HandlerExits

-----------------------------------------------------------------------------

Terminated == ~Alive /\ UNCHANGED vars

Next ==
  \/ MainStep \/ Throw \/ SpuriousWakeup
  \/ \E t \in Thread : WorkerStep(t)
  \/ Interrupt \/ HandlerStep
  \/ Terminated

Spec == Init /\ [][Next]_vars

\* Every thread that can run does, and a search ends some time.  Nothing is
\* assumed of signals and spurious wakeups.
FairSpec ==
  /\ Spec
  /\ WF_vars(MainStep)
  /\ WF_vars(HandlerStep)
  /\ \A t \in Thread : WF_vars(WorkerStep(t))

-----------------------------------------------------------------------------
(* Properties                                                              *)

\* A printed model is that of a thread whose search has returned SAT, also
\* when the handler reads the winner in the middle of IFinished.
ModelIsFromSolver ==
  model_of # NoModel =>
    /\ model_of \in Thread
    /\ outcome[model_of].status = "SAT"
    /\ worker[model_of] \notin {"none", "created", "solving"}

\* All lines "s ..." of a run say the same, also when a signal arrives while
\* the main thread prints the result.
PrintedLinesAgree == Cardinality(printed) <= 1

\* A run that is not interrupted prints the answer of a thread that found it
\* in an earlier period than those in which the others gave up, whatever the
\* order in which the threads report.
AnswerIsPrinted ==
  ~Alive /\ handler = "none" /\ main = "exit" =>
    LET solvers == 0 .. num_threads - 1
    IN  (\E t \in solvers :
           /\ outcome[t].status = Answer
           /\ \A u \in solvers : outcome[u].status = "UNKNOWN" =>
                                   outcome[t].prd < outcome[u].prd)
        => printed = {Answer}

\* No signal is needed for the run to end: a wakeup that a worker sends before
\* the main thread waits is made up for by the timeout.
RunEnds == <>~Alive
=============================================================================
