-------------------------- MODULE MainThreadTheorems --------------------------
(***************************************************************************)
(* What a run prints, for any number of threads: the lines of the main     *)
(* thread and of the signal handler agree, a model is that of a thread     *)
(* that has one, and an answer that was found is not lost.  Before that,   *)
(* for a file of any length: the formula that is searched is the one that  *)
(* the file says.                                                          *)
(***************************************************************************)
EXTENDS MainThread, DimacsFile, Induction, SequenceTheorems

USE OptionsAssumption, MainAssumption

-----------------------------------------------------------------------------
(* The inductive invariant                                                 *)

MainPlace == {"load", "generate", "create", "loop", "wait", "join", "print",
              "model", "exit"}
WorkerPlace == {"none", "created", "solving", "returned", "winner", "unlock",
                "signal", "leaving", "ended"}

Types ==
  /\ main \in MainPlace
  /\ num_threads \in 0 .. NumThreads
  /\ used_mem \in UsedMemory
  /\ created \in 0 .. NumThreads
  /\ joined \in 0 .. NumThreads
  /\ worker \in [Thread -> WorkerPlace]
  /\ outcome \in [Thread -> [status : {Answer, "UNKNOWN"}, prd : 0 .. MaxPeriod]]
  /\ lock \in Thread \cup {-1}
  /\ handler \in {"none", "print", "model", "exit"}
  /\ interrupted \in Thread \cup {-1}
  /\ SharerTypeOK

\* How far the creation of the threads and the joins have come.
ThreadsInv ==
  /\ main \in {"load", "generate"} => created = 0
  /\ main \notin {"load", "generate"} => num_threads > 0
  /\ main = "create" => created < num_threads
  /\ main \notin {"load", "generate", "create"} => created = num_threads
  /\ \A t \in Thread : worker[t] = "none" <=> t >= created
  /\ main \in {"load", "generate", "create", "loop", "wait"} => joined = 0
  /\ main = "join" => joined < num_threads
  /\ main \in {"print", "model", "exit"} => joined = num_threads
  /\ \A t \in Thread : t < joined => worker[t] = "ended"

\* The thread that the handler interrupts has been created and has not ended.
HandlerInv ==
  handler # "none" /\ interrupted # -1 => worker[interrupted] \notin {"none", "ended"}

\* The threads that have called IFinished, or are in it.
Reported(t) == worker[t] \in {"winner", "unlock", "signal", "leaving", "ended"}

\* One thread at a time is in IFinished.
LockInv == \A t \in Thread : worker[t] \in {"winner", "unlock"} <=> lock = t

\* The winner has reported, and no other report is better.
WinnerInv ==
  /\ sol_found => /\ winner_id \in Thread
                  /\ Reported(winner_id)
                  /\ winner_period = outcome[winner_id].prd
  /\ ~sol_found => final_result = "UNKNOWN"
  /\ \A t \in Thread :
       Reported(t) => sol_found /\ ~FoundBetterOne(outcome[t].status, outcome[t].prd, t)

\* Between the assignments of IFinished the result is behind the winner; it is never
\* an answer that the winner does not have.
ResultInv ==
  /\ \A t \in Thread : worker[t] = "winner" => winner_id = t
  /\ sol_found /\ worker[winner_id] # "winner" => final_result = outcome[winner_id].status
  /\ final_result # "UNKNOWN" => /\ sol_found
                                 /\ final_result = Answer
                                 /\ outcome[winner_id].status = Answer

\* Nothing is printed twice with a change of the result in between.
PrintInv ==
  /\ Alive /\ main \notin {"model", "exit"} /\ handler \in {"none", "print"} => printed = {}
  /\ main \in {"model", "exit"} => printed = {final_result}
  /\ \E s \in SATResult : printed \subseteq {s}

\* Who prints a model has read that there is one.
ModelInv ==
  /\ main = "model" \/ handler = "model" => final_result = "SAT"
  /\ ModelIsFromSolver

MInv ==
  /\ Types /\ ThreadsInv /\ HandlerInv /\ LockInv /\ WinnerInv /\ ResultInv
  /\ PrintInv /\ ModelInv
-----------------------------------------------------------------------------
(* Lemmas                                                                  *)

\* generateAllSolvers creates at least one thread, and never more than were asked for.
LEMMA AdjustedInRange ==
  ASSUME NEW used \in UsedMemory
  PROVE  AdjustedThreads(NumThreads, used) \in 1 .. NumThreads
<1> DEFINE product == used * AdjustThreads
<1>1. CASE AdjustThreads = 0  BY <1>1 DEF AdjustedThreads
<1>2. CASE AdjustThreads # 0
  <2>1. used \in Nat \ {0} /\ AdjustThreads \in Nat \ {0}  BY <1>2
  <2>2. product \in Nat \ {0}  BY <2>1
  <2>3. \A b \in Nat \ {0} : MemUseLim \div b \in Nat  OBVIOUS
  <2>4. MemUseLim \div product \in Nat  BY <2>2, <2>3
  <2> HIDE DEF product
  <2>5. \A f \in Nat : NumThreads < f \/ f = 0 \/ f \in 1 .. NumThreads  OBVIOUS
  <2>6. AdjustedThreads(NumThreads, used) =
          IF AdjustThreads = 0 \/ MemUseLim = 0 \/ used < 250
               \/ NumThreads < MemUseLim \div product
          THEN NumThreads
          ELSE IF MemUseLim \div product = 0 THEN 1 ELSE MemUseLim \div product
    BY Zenon DEF AdjustedThreads, product
  <2> QED  BY <2>4, <2>5, <2>6
<1> QED  BY <1>1, <1>2

\* When the main thread prints, every thread there is has ended, and the handler
\* runs in none of them.
LEMMA NobodyLeft ==
  ASSUME MInv, main \in {"print", "model", "exit"}
  PROVE  /\ \A t \in Thread : worker[t] \in {"none", "ended"}
         /\ handler = "none" \/ interrupted = -1
<1>1. ASSUME NEW t \in Thread PROVE worker[t] \in {"none", "ended"}
  BY DEF MInv, Types, ThreadsInv, Thread
<1> QED  BY <1>1 DEF MInv, Types, HandlerInv

\* Steps that only move the main thread.
LEMMA MainMoves ==
  ASSUME MInv, UNCHANGED <<startVars, worker, lock, handlerVars, outputVars, exit_code,
                           sharerVars, created, joined>>,
         \/ main = "load" /\ main' = "generate"
         \/ main = "loop" /\ main' \in {"join", "wait"}
         \/ main = "wait" /\ main' \in {"join", "loop"}
  PROVE  MInv'
<1> USE DEF MInv, startVars, handlerVars, outputVars, sharerVars
<1>1. Types'  BY DEF Types, MainPlace, SharerTypeOK
<1>2. ThreadsInv'  BY DEF ThreadsInv, Types
<1>3. HandlerInv' /\ LockInv'  BY DEF HandlerInv, LockInv
<1>4. WinnerInv' /\ ResultInv'  BY DEF WinnerInv, ResultInv, Reported, FoundBetterOne
<1>5. PrintInv' /\ ModelInv'  BY DEF PrintInv, ModelInv, ModelIsFromSolver, Alive
<1> QED  BY <1>1, <1>2, <1>3, <1>4, <1>5

-----------------------------------------------------------------------------
(* The main thread                                                         *)

\* Nothing has been printed yet: there is no thread the handler could run in.
LEMMA ThrowStep ==
  ASSUME MInv, Throw
  PROVE  MInv'
<1> USE DEF MInv, mainVars, startVars, liveVars, handlerVars, outputVars, sharerVars
<1>1. Types'  BY DEF Throw, MainRuns, Alive, Types, MainPlace, WorkerPlace, SharerTypeOK
<1>2. ThreadsInv'  BY DEF Throw, MainRuns, Alive, Types, ThreadsInv, Thread
<1>3. HandlerInv'  BY DEF Throw, MainRuns, Alive, Types, ThreadsInv, HandlerInv
<1>4. LockInv'  BY DEF Throw, MainRuns, Alive, Types, LockInv
<1>5. WinnerInv'
  BY DEF Throw, MainRuns, Alive, Types, WinnerInv, Reported, FoundBetterOne
<1>6. ResultInv'  BY DEF Throw, MainRuns, Alive, Types, WinnerInv, ResultInv, Reported
<1>7. PrintInv'
  <2>1. handler = "none"
    <3>1. \A t \in Thread : worker[t] = "none"  BY DEF Throw, Types, ThreadsInv, Thread
    <3> QED  BY <3>1 DEF Throw, MainRuns, Types, HandlerInv
  <2>2. printed' = {final_result} /\ final_result' \in SATResult
    BY <2>1 DEF Throw, MainRuns, PrintInv, Types, SharerTypeOK
  <2>3. exit_code' # "none"  BY DEF Throw, Types, SharerTypeOK, SATResult
  <2> QED  BY <2>2, <2>3 DEF Throw, PrintInv, Alive
<1>8. ModelInv'
  BY DEF Throw, MainRuns, Alive, Types, ModelInv, ModelIsFromSolver, NoModel
<1> QED  BY <1>1, <1>2, <1>3, <1>4, <1>5, <1>6, <1>7, <1>8

\* Fewer threads for a large formula.
LEMMA GenerateStep ==
  ASSUME MInv, Generate
  PROVE  MInv'
<1> USE DEF MInv, mainVars, startVars, liveVars, handlerVars, outputVars, sharerVars
<1>1. Types'
  BY AdjustedInRange DEF Generate, MainFrom, Types, MainPlace, WorkerPlace, SharerTypeOK
<1>2. ThreadsInv'  BY AdjustedInRange DEF Generate, MainFrom, Types, ThreadsInv, Thread
<1>3. HandlerInv'  BY DEF Generate, MainFrom, Types, ThreadsInv, HandlerInv
<1>4. LockInv'  BY DEF Generate, MainFrom, Types, LockInv
<1>5. WinnerInv'  BY DEF Generate, MainFrom, Types, WinnerInv, Reported, FoundBetterOne
<1>6. ResultInv'  BY DEF Generate, MainFrom, Types, WinnerInv, ResultInv, Reported
<1>7. PrintInv'  BY DEF Generate, MainFrom, Types, PrintInv, Alive, SharerTypeOK
<1>8. ModelInv'  BY DEF Generate, MainFrom, Types, ModelInv, ModelIsFromSolver, NoModel
<1> QED  BY <1>1, <1>2, <1>3, <1>4, <1>5, <1>6, <1>7, <1>8

\* The next thread gets its place.
LEMMA CreateStep ==
  ASSUME MInv, Create
  PROVE  MInv'
<1> USE DEF MInv, mainVars, startVars, liveVars, handlerVars, outputVars, sharerVars
<1>0. created \in Thread /\ worker[created] = "none"
  BY DEF Create, Types, ThreadsInv, Thread
<1>1. Types'
  BY <1>0 DEF Create, Types, ThreadsInv, MainPlace, WorkerPlace, SharerTypeOK
<1>2. ThreadsInv'  BY <1>0 DEF Create, Types, ThreadsInv, Thread
<1>3. HandlerInv'  BY <1>0 DEF Create, Types, ThreadsInv, HandlerInv
<1>4. LockInv'  BY <1>0 DEF Create, Types, LockInv
<1>5. WinnerInv'  BY <1>0 DEF Create, Types, WinnerInv, Reported, FoundBetterOne
<1>6. ResultInv'  BY <1>0 DEF Create, Types, WinnerInv, ResultInv, Reported
<1>7. PrintInv'  BY <1>0 DEF Create, Types, PrintInv, Alive, SharerTypeOK
<1>8. ModelInv'  BY <1>0 DEF Create, Types, ModelInv, ModelIsFromSolver, NoModel
<1> QED  BY <1>1, <1>2, <1>3, <1>4, <1>5, <1>6, <1>7, <1>8

\* A thread is joined once it has ended.
LEMMA JoinStep ==
  ASSUME MInv, Join
  PROVE  MInv'
<1> USE DEF MInv, mainVars, startVars, liveVars, handlerVars, outputVars, sharerVars
<1>1. Types'  BY DEF Join, Types, ThreadsInv, MainPlace, WorkerPlace, SharerTypeOK
<1>2. ThreadsInv'  BY DEF Join, Types, ThreadsInv, Thread
<1>3. HandlerInv'  BY DEF Join, Types, ThreadsInv, HandlerInv
<1>4. LockInv'  BY DEF Join, Types, LockInv
<1>5. WinnerInv'  BY DEF Join, Types, WinnerInv, Reported, FoundBetterOne
<1>6. ResultInv'  BY DEF Join, Types, WinnerInv, ResultInv, Reported
<1>7. PrintInv'  BY DEF Join, Types, PrintInv, Alive, SharerTypeOK
<1>8. ModelInv'  BY DEF Join, Types, ModelInv, ModelIsFromSolver, NoModel
<1> QED  BY <1>1, <1>2, <1>3, <1>4, <1>5, <1>6, <1>7, <1>8

\* Nothing has been printed, and the result is final.
LEMMA PrintStatusStep ==
  ASSUME MInv, PrintStatus
  PROVE  MInv'
<1> USE DEF MInv, mainVars, startVars, liveVars, handlerVars, outputVars, sharerVars
<1>1. Types'
  BY DEF PrintStatus, MainFrom, MainRuns, Types, MainPlace, WorkerPlace, SharerTypeOK
<1>2. ThreadsInv'  BY DEF PrintStatus, MainFrom, MainRuns, Types, ThreadsInv, Thread
<1>3. HandlerInv'  BY DEF PrintStatus, MainFrom, MainRuns, Types, ThreadsInv, HandlerInv
<1>4. LockInv'  BY DEF PrintStatus, MainFrom, MainRuns, Types, LockInv
<1>5. WinnerInv'
  BY DEF PrintStatus, MainFrom, MainRuns, Types, WinnerInv, Reported, FoundBetterOne
<1>6. ResultInv'
  BY DEF PrintStatus, MainFrom, MainRuns, Types, WinnerInv, ResultInv, Reported
<1>7. PrintInv'
  BY NobodyLeft DEF PrintStatus, MainFrom, MainRuns, Types, PrintInv, Alive,
         SharerTypeOK
<1>8. ModelInv'
  BY DEF PrintStatus, MainFrom, MainRuns, Types, ModelInv, ModelIsFromSolver, NoModel
<1> QED  BY <1>1, <1>2, <1>3, <1>4, <1>5, <1>6, <1>7, <1>8

\* The result is an answer, so the winner has it.
LEMMA PrintModelStep ==
  ASSUME MInv, PrintModel
  PROVE  MInv'
<1> USE DEF MInv, mainVars, startVars, liveVars, handlerVars, outputVars, sharerVars
<1>1. Types'  BY DEF PrintModel, MainFrom, Types, MainPlace, WorkerPlace, SharerTypeOK
<1>2. ThreadsInv'  BY DEF PrintModel, MainFrom, Types, ThreadsInv, Thread
<1>3. HandlerInv'  BY DEF PrintModel, MainFrom, Types, ThreadsInv, HandlerInv
<1>4. LockInv'  BY DEF PrintModel, MainFrom, Types, LockInv
<1>5. WinnerInv'
  BY DEF PrintModel, MainFrom, Types, WinnerInv, Reported, FoundBetterOne
<1>6. ResultInv'  BY DEF PrintModel, MainFrom, Types, WinnerInv, ResultInv, Reported
<1>7. PrintInv'  BY DEF PrintModel, MainFrom, Types, PrintInv, Alive, SharerTypeOK
<1>8. ModelInv'
  BY DEF PrintModel, MainFrom, Types, ModelInv, ModelIsFromSolver, NoModel, ResultInv,
                        WinnerInv, Reported, SharerTypeOK
<1> QED  BY <1>1, <1>2, <1>3, <1>4, <1>5, <1>6, <1>7, <1>8

\* The process ends.
LEMMA ExitStep ==
  ASSUME MInv, Exit
  PROVE  MInv'
<1> USE DEF MInv, mainVars, startVars, liveVars, handlerVars, outputVars, sharerVars
<1>1. Types'  BY DEF Exit, Types, MainPlace, WorkerPlace, SharerTypeOK
<1>2. ThreadsInv'  BY DEF Exit, Types, ThreadsInv, Thread
<1>3. HandlerInv'  BY DEF Exit, Types, ThreadsInv, HandlerInv
<1>4. LockInv'  BY DEF Exit, Types, LockInv
<1>5. WinnerInv'  BY DEF Exit, Types, WinnerInv, Reported, FoundBetterOne
<1>6. ResultInv'  BY DEF Exit, Types, WinnerInv, ResultInv, Reported
<1>7. PrintInv'  BY DEF Exit, Types, PrintInv, Alive, SharerTypeOK
<1>8. ModelInv'  BY DEF Exit, Types, ModelInv, ModelIsFromSolver, NoModel
<1> QED  BY <1>1, <1>2, <1>3, <1>4, <1>5, <1>6, <1>7, <1>8

-----------------------------------------------------------------------------
(* The workers                                                             *)

\* Steps that do not touch the result.
LEMMA QuietStep ==
  ASSUME MInv, NEW t \in Thread, 
         IncNumLiveThreads(t) \/ Solve(t) \/ Unlock(t) \/ Signal(t) \/ DecNumLiveThreads(t)
  PROVE  MInv'
<1> USE DEF MInv, mainVars, startVars, liveVars, handlerVars, outputVars, sharerVars
<1>1. Types'  BY DEF IncNumLiveThreads, Solve, Unlock, Signal, DecNumLiveThreads,
                   WorkerFrom, WorkerRuns, Types, MainPlace, WorkerPlace, SharerTypeOK,
                   SATResult
<1>2. ThreadsInv'  BY ZenonT(20)
                   DEF IncNumLiveThreads, Solve, Unlock, Signal, DecNumLiveThreads,
                   WorkerFrom, WorkerRuns, Types, ThreadsInv, Thread
<1>3. HandlerInv'  BY DEF IncNumLiveThreads, Solve, Unlock, Signal, DecNumLiveThreads,
                   WorkerFrom, WorkerRuns, Types, ThreadsInv, HandlerInv
<1>4. LockInv'
  <2>1. CASE Unlock(t)  BY <2>1 DEF Unlock, WorkerFrom, Types, LockInv, Thread
  <2>2. CASE ~Unlock(t)
    BY <2>2 DEF IncNumLiveThreads, Solve, Signal, DecNumLiveThreads, WorkerFrom, Types,
                LockInv
  <2> QED  BY <2>1, <2>2
<1>5. WinnerInv'  BY DEF IncNumLiveThreads, Solve, Unlock, Signal, DecNumLiveThreads,
                   WorkerFrom, WorkerRuns, Types, WinnerInv, Reported, FoundBetterOne
<1>6. ResultInv'  BY DEF IncNumLiveThreads, Solve, Unlock, Signal, DecNumLiveThreads,
                   WorkerFrom, WorkerRuns, Types, WinnerInv, ResultInv, Reported
<1>7. PrintInv'  BY DEF IncNumLiveThreads, Solve, Unlock, Signal, DecNumLiveThreads,
                   WorkerFrom, WorkerRuns, Types, PrintInv, Alive, SharerTypeOK
<1>8. ModelInv'  BY DEF IncNumLiveThreads, Solve, Unlock, Signal, DecNumLiveThreads,
                   WorkerFrom, WorkerRuns, Types, ModelInv, ModelIsFromSolver, NoModel
<1> QED  BY <1>1, <1>2, <1>3, <1>4, <1>5, <1>6, <1>7, <1>8

\* A report that is better than the present one is better than all before it.
LEMMA SetWinnerStep ==
  ASSUME MInv, NEW t \in Thread, SetWinner(t)
  PROVE  MInv'
<1> USE DEF MInv, mainVars, startVars, liveVars, handlerVars, outputVars, sharerVars
<1>1. Types'
  <2>1. outcome[t].prd \in Nat  BY DEF Types
  <2> QED
    BY <2>1 DEF SetWinner, Better, WorkerFrom, Types, MainPlace, WorkerPlace,
           SharerTypeOK
<1>2. ThreadsInv'
  BY DEF SetWinner, Better, WorkerFrom, WorkerRuns, Types, ThreadsInv, Thread
<1>3. HandlerInv'
  BY DEF SetWinner, Better, WorkerFrom, WorkerRuns, Types, ThreadsInv, HandlerInv
<1>4. LockInv'  BY DEF SetWinner, Better, WorkerFrom, WorkerRuns, Types, LockInv, Thread
<1>5. WinnerInv'
  BY DEF SetWinner, Better, WorkerFrom, WorkerRuns, Types, WinnerInv, Reported,
         FoundBetterOne, SharerTypeOK
<1>6. ResultInv'
  <2>1. \A u \in Thread : worker[u] # "winner"
    BY DEF SetWinner, Types, LockInv, Thread
  <2>2. CASE Better(t)
    <3>1. winner_id' = t /\ worker'[t] = "winner" /\ sol_found' /\ final_result' = final_result
      BY <2>2 DEF SetWinner, WorkerFrom, Types
    <3>2. \A u \in Thread : worker'[u] = "winner" => u = t
      BY <2>1 DEF SetWinner, WorkerFrom, Types
    <3>3. final_result # "UNKNOWN" => outcome[t].status = Answer
      BY <2>2 DEF Better, FoundBetterOne, ResultInv, Types
    <3> QED  BY <3>1, <3>2, <3>3 DEF ResultInv, SetWinner
  <2>3. CASE ~Better(t)
    <3>1. UNCHANGED <<sharerVars, outcome>>  BY <2>3 DEF SetWinner
    <3>2. \A u \in Thread : worker'[u] # "winner"
      BY <2>1, <2>3 DEF SetWinner, WorkerFrom, Types
    <3> QED  BY <2>1, <3>1, <3>2 DEF ResultInv, WinnerInv
  <2> QED  BY <2>2, <2>3
<1>7. PrintInv'
  BY DEF SetWinner, Better, WorkerFrom, WorkerRuns, Types, PrintInv, Alive, SharerTypeOK
<1>8. ModelInv'
  BY DEF SetWinner, Better, WorkerFrom, WorkerRuns, Types, ModelInv, ModelIsFromSolver,
         NoModel, ResultInv
<1> QED  BY <1>1, <1>2, <1>3, <1>4, <1>5, <1>6, <1>7, <1>8

\* The result becomes that of the winner.
LEMMA SetResultStep ==
  ASSUME MInv, NEW t \in Thread, SetResult(t)
  PROVE  MInv'
<1> USE DEF MInv, mainVars, startVars, liveVars, handlerVars, outputVars, sharerVars
<1>1. Types'
  BY DEF SetResult, WorkerFrom, WorkerRuns, Types, MainPlace, WorkerPlace, SharerTypeOK,
                   SATResult
<1>2. ThreadsInv'  BY DEF SetResult, WorkerFrom, WorkerRuns, Types, ThreadsInv, Thread
<1>3. HandlerInv'
  BY DEF SetResult, WorkerFrom, WorkerRuns, Types, ThreadsInv, HandlerInv
<1>4. LockInv'  BY DEF SetResult, WorkerFrom, WorkerRuns, Types, LockInv, Thread
<1>5. WinnerInv'
  BY DEF SetResult, WorkerFrom, WorkerRuns, Types, WinnerInv, Reported, FoundBetterOne
<1>6. ResultInv'
  BY DEF SetResult, WorkerFrom, WorkerRuns, Types, WinnerInv, ResultInv, Reported,
         FoundBetterOne, SharerTypeOK, LockInv
<1>7. PrintInv'
  BY NobodyLeft DEF SetResult, WorkerFrom, WorkerRuns, Types, PrintInv, Alive,
         SharerTypeOK
<1>8. ModelInv'
  BY DEF SetResult, WorkerFrom, WorkerRuns, Types, ModelInv, ModelIsFromSolver,
         NoModel, ResultInv, FoundBetterOne, WinnerInv
<1> QED  BY <1>1, <1>2, <1>3, <1>4, <1>5, <1>6, <1>7, <1>8

-----------------------------------------------------------------------------
(* The signal handler                                                      *)

\* It interrupts the main thread or one that has been created and not ended.
LEMMA InterruptStep ==
  ASSUME MInv, Interrupt
  PROVE  MInv'
<1> USE DEF MInv, mainVars, startVars, liveVars, handlerVars, outputVars, sharerVars
<1>1. Types'  BY DEF Interrupt, Types, MainPlace, WorkerPlace, SharerTypeOK
<1>2. ThreadsInv'  BY DEF Interrupt, Types, ThreadsInv, Thread
<1>3. HandlerInv'  BY DEF Interrupt, Types, ThreadsInv, HandlerInv
<1>4. LockInv'  BY DEF Interrupt, Types, LockInv, Thread
<1>5. WinnerInv'  BY DEF Interrupt, Types, WinnerInv, Reported, FoundBetterOne
<1>6. ResultInv'  BY DEF Interrupt, Types, WinnerInv, ResultInv, Reported
<1>7. PrintInv'  BY DEF Interrupt, Types, PrintInv, Alive, SharerTypeOK
<1>8. ModelInv'  BY DEF Interrupt, Types, ModelInv, ModelIsFromSolver, NoModel
<1> QED  BY <1>1, <1>2, <1>3, <1>4, <1>5, <1>6, <1>7, <1>8

\* It is the first to print, or repeats what the main thread has printed.
LEMMA HandlerPrintsStatusStep ==
  ASSUME MInv, HandlerPrintsStatus
  PROVE  MInv'
<1> USE DEF MInv, mainVars, startVars, liveVars, handlerVars, outputVars, sharerVars
<1>1. Types'  BY DEF HandlerPrintsStatus, Types, MainPlace, WorkerPlace, SharerTypeOK
<1>2. ThreadsInv'  BY DEF HandlerPrintsStatus, Types, ThreadsInv, Thread
<1>3. HandlerInv'  BY DEF HandlerPrintsStatus, Types, ThreadsInv, HandlerInv
<1>4. LockInv'  BY DEF HandlerPrintsStatus, Types, LockInv, Thread
<1>5. WinnerInv'  BY DEF HandlerPrintsStatus, Types, WinnerInv, Reported, FoundBetterOne
<1>6. ResultInv'  BY DEF HandlerPrintsStatus, Types, WinnerInv, ResultInv, Reported
<1>7. PrintInv'  BY DEF HandlerPrintsStatus, Types, PrintInv, Alive, SharerTypeOK
<1>8. ModelInv'  BY DEF HandlerPrintsStatus, Types, ModelInv, ModelIsFromSolver, NoModel
<1> QED  BY <1>1, <1>2, <1>3, <1>4, <1>5, <1>6, <1>7, <1>8

\* The winner may be newer than the result; it has an answer too.
LEMMA HandlerPrintsModelStep ==
  ASSUME MInv, HandlerPrintsModel
  PROVE  MInv'
<1> USE DEF MInv, mainVars, startVars, liveVars, handlerVars, outputVars, sharerVars
<1>1. Types'  BY DEF HandlerPrintsModel, Types, MainPlace, WorkerPlace, SharerTypeOK
<1>2. ThreadsInv'  BY DEF HandlerPrintsModel, Types, ThreadsInv, Thread
<1>3. HandlerInv'  BY DEF HandlerPrintsModel, Types, ThreadsInv, HandlerInv
<1>4. LockInv'  BY DEF HandlerPrintsModel, Types, LockInv, Thread
<1>5. WinnerInv'  BY DEF HandlerPrintsModel, Types, WinnerInv, Reported, FoundBetterOne
<1>6. ResultInv'  BY DEF HandlerPrintsModel, Types, WinnerInv, ResultInv, Reported
<1>7. PrintInv'  BY DEF HandlerPrintsModel, Types, PrintInv, Alive, SharerTypeOK
<1>8. ModelInv'
  BY DEF HandlerPrintsModel, Types, ModelInv, ModelIsFromSolver, NoModel, ResultInv,
                        WinnerInv, Reported, SharerTypeOK
<1> QED  BY <1>1, <1>2, <1>3, <1>4, <1>5, <1>6, <1>7, <1>8

\* The process ends.
LEMMA HandlerExitsStep ==
  ASSUME MInv, HandlerExits
  PROVE  MInv'
<1> USE DEF MInv, mainVars, startVars, liveVars, handlerVars, outputVars, sharerVars
<1>1. Types'  BY DEF HandlerExits, Types, MainPlace, WorkerPlace, SharerTypeOK
<1>2. ThreadsInv'  BY DEF HandlerExits, Types, ThreadsInv, Thread
<1>3. HandlerInv'  BY DEF HandlerExits, Types, ThreadsInv, HandlerInv
<1>4. LockInv'  BY DEF HandlerExits, Types, LockInv, Thread
<1>5. WinnerInv'  BY DEF HandlerExits, Types, WinnerInv, Reported, FoundBetterOne
<1>6. ResultInv'  BY DEF HandlerExits, Types, WinnerInv, ResultInv, Reported
<1>7. PrintInv'  BY DEF HandlerExits, Types, PrintInv, Alive, SharerTypeOK
<1>8. ModelInv'  BY DEF HandlerExits, Types, ModelInv, ModelIsFromSolver, NoModel
<1> QED  BY <1>1, <1>2, <1>3, <1>4, <1>5, <1>6, <1>7, <1>8

-----------------------------------------------------------------------------
(* The theorems                                                            *)

LEMMA MInvInit == Init => MInv
<1> SUFFICES ASSUME Init PROVE MInv  OBVIOUS
<1> USE DEF Init, SharerInit
<1>1. Types
  <2>1. worker \in [Thread -> WorkerPlace]  BY DEF WorkerPlace
  <2>2. SharerTypeOK  BY DEF SharerTypeOK, SATResult
  <2>3. main \in MainPlace /\ 0 \in 0 .. NumThreads  BY DEF MainPlace
  <2> QED  BY <2>1, <2>2, <2>3, Zenon DEF Types
<1>2. ThreadsInv /\ HandlerInv /\ LockInv
  BY DEF ThreadsInv, HandlerInv, LockInv, Thread
<1>3. WinnerInv /\ ResultInv  BY DEF WinnerInv, ResultInv, Reported
<1>4. PrintInv /\ ModelInv
  BY DEF PrintInv, ModelInv, ModelIsFromSolver, SATResult
<1> QED  BY <1>1, <1>2, <1>3, <1>4 DEF MInv

LEMMA MInvNext == MInv /\ [Next]_vars => MInv'
<1> SUFFICES ASSUME MInv, [Next]_vars PROVE MInv'  OBVIOUS
<1>1. CASE MainStep
  <2>1. CASE Load \/ CheckLive \/ Timeout
    BY <2>1, MainMoves DEF Load, CheckLive, Timeout, MainFrom, liveVars
  <2>2. CASE Generate \/ Create \/ Join
    BY <2>2, GenerateStep, CreateStep, JoinStep
  <2>3. CASE PrintStatus \/ PrintModel \/ Exit
    BY <2>3, PrintStatusStep, PrintModelStep, ExitStep
  <2> QED  BY <1>1, <2>1, <2>2, <2>3 DEF MainStep
<1>2. CASE SpuriousWakeup
  BY <1>2, MainMoves DEF SpuriousWakeup, MainFrom
<1>3. CASE Throw  BY <1>3, ThrowStep
<1>4. CASE \E t \in Thread : WorkerStep(t)
  BY <1>4, QuietStep, SetWinnerStep, SetResultStep DEF WorkerStep
<1>5. CASE Interrupt \/ HandlerStep
  BY <1>5, InterruptStep, HandlerPrintsStatusStep, HandlerPrintsModelStep,
     HandlerExitsStep DEF HandlerStep
<1>6. CASE UNCHANGED vars
  <2> USE <1>6 DEF MInv, vars, mainVars, startVars, liveVars, handlerVars, outputVars,
                   sharerVars
  <2>1. Types'  BY DEF Types, SharerTypeOK
  <2>2. ThreadsInv' /\ HandlerInv' /\ LockInv'  BY DEF ThreadsInv, HandlerInv, LockInv
  <2>3. WinnerInv' /\ ResultInv'
    BY DEF WinnerInv, ResultInv, Reported, FoundBetterOne
  <2>4. PrintInv' /\ ModelInv'  BY DEF PrintInv, ModelInv, ModelIsFromSolver, Alive
  <2> QED  BY <2>1, <2>2, <2>3, <2>4
<1> QED  BY <1>1, <1>2, <1>3, <1>4, <1>5, <1>6 DEF Next, Terminated

\* The types, the places of the threads and of the handler, the winner and what has been
\* printed, in every reachable state, for any number of threads.
THEOREM MainInvariant == Spec => []MInv
<1> QED  BY MInvInit, MInvNext, PTL DEF Spec

\* Whenever the signal comes, also in the middle of IFinished, a model that is printed
\* is that of a thread whose search has returned SAT.
THEOREM PrintedModelIsRight == Spec => []ModelIsFromSolver
<1>1. MInv => ModelIsFromSolver  BY DEF MInv, ModelInv
<1> QED  BY <1>1, MainInvariant, PTL

\* Main thread and signal handler never print two different lines "s ...": while the
\* handler runs in a worker, the main thread cannot have joined all of them.
THEOREM NoTwoAnswers == Spec => []PrintedLinesAgree
<1>1. MInv => PrintedLinesAgree
  <2> SUFFICES ASSUME MInv PROVE Cardinality(printed) <= 1  BY DEF PrintedLinesAgree
  <2>1. PICK s \in SATResult : printed \subseteq {s}  BY DEF MInv, PrintInv
  <2>2. printed = {} \/ printed = {s}  BY <2>1
  <2> QED  BY <2>2, FS_EmptySet, FS_Singleton
<1> QED  BY <1>1, MainInvariant, PTL

\* A run that no signal interrupts prints the answer if a thread found it before the
\* others gave up, in whatever order the threads report.
THEOREM FoundAnswerIsPrinted == Spec => []AnswerIsPrinted
<1>1. MInv => AnswerIsPrinted
  <2> DEFINE solvers == 0 .. num_threads - 1
  <2> SUFFICES ASSUME MInv, main = "exit",
                      NEW t \in solvers, outcome[t].status = Answer,
                      \A u \in solvers : outcome[u].status = "UNKNOWN" =>
                                            outcome[t].prd < outcome[u].prd
               PROVE  printed = {Answer}
    BY DEF AnswerIsPrinted
  <2>1. solvers \subseteq Thread /\ created = num_threads
    BY DEF MInv, Types, ThreadsInv, Thread
  <2>2. \A u \in Thread : worker[u] \in {"none", "ended"}  BY NobodyLeft
  <2>3. Reported(t)
    BY <2>1, <2>2 DEF Reported, MInv, Types, ThreadsInv, Thread
  <2>4. /\ sol_found /\ winner_id \in Thread /\ winner_period = outcome[winner_id].prd
        /\ ~FoundBetterOne(Answer, outcome[t].prd, t)
        /\ Reported(winner_id)
    BY <2>1, <2>3 DEF MInv, WinnerInv
  <2>5. winner_id \in solvers
    BY <2>1, <2>4 DEF Reported, MInv, Types, ThreadsInv, Thread
  <2>6. ~(outcome[t].prd < winner_period)  BY <2>4 DEF FoundBetterOne
  <2>7. outcome[winner_id].status = Answer
    BY <2>4, <2>5, <2>6 DEF MInv, Types
  <2>8. final_result = Answer
    BY <2>2, <2>4, <2>7 DEF MInv, ResultInv
  <2> QED  BY <2>8 DEF MInv, PrintInv
<1> QED  BY <1>1, MainInvariant, PTL

-----------------------------------------------------------------------------
(* The input file, which the main thread reads first (Instance::loadFormula)*)

HIDE MainAssumption
HIDE OptionsAssumption

CONSTANT MaxLen
VARIABLES pos, num, neg, num_clauses, tot_literals, max_var

Reader == INSTANCE DimacsReader

\* What a function that is defined by recursion takes its values from.
LEMMA Unfolded ==
  ASSUME NEW b \in Nat, NEW X, NEW c \in X, NEW D \in [Nat \X X -> X], NEW F,
         F = [k \in 0 .. b |-> F[k]],
         F[0] = c, \A k \in 1 .. b : F[k - 1] \in X => F[k] = D[<<k, F[k - 1]>>]
  PROVE  IsRecursive(F, 0, b, X, c, D)
<1> DEFINE S == {k \in 0 .. b : F[k] \in X}
<1>1. 0 \in S  OBVIOUS
<1>2. ASSUME NEW k \in 0 + 1 .. b, k - 1 \in S PROVE k \in S
  <2>1. k \in 1 .. b /\ k \in 0 .. b /\ k \in Nat /\ F[k - 1] \in X  BY <1>2
  <2>2. F[k] = D[<<k, F[k - 1]>>]  BY <2>1
  <2>3. <<k, F[k - 1]>> \in Nat \X X  BY <2>1
  <2> QED  BY <2>1, <2>2, <2>3
<1>3. 0 .. b \subseteq S
  <2> HIDE DEF S
  <2>1. 0 \in Nat  OBVIOUS
  <2> QED  BY <1>1, <1>2, <2>1, RangeInduction
<1>4. \A k \in 0 .. b : F[k] \in X  BY <1>3
<1>5. F \in [0 .. b -> X]
  <2> DEFINE H == [k \in 0 .. b |-> F[k]]
  <2>1. H \in [0 .. b -> X]  BY <1>4
  <2>2. F = H  OBVIOUS
  <2> HIDE DEF H
  <2> QED  BY <2>1, <2>2
<1>6. \A k \in 0 .. b : F[k] = IF k = 0 THEN c ELSE D[<<k, F[k - 1]>>]
  <2> SUFFICES ASSUME NEW k \in 0 .. b, k # 0 PROVE F[k] = D[<<k, F[k - 1]>>]  OBVIOUS
  <2>1. k \in 1 .. b /\ k - 1 \in 0 .. b  OBVIOUS
  <2> QED  BY <1>4, <2>1
<1> QED  BY <1>5, <1>6 DEF IsRecursive

\* Steps that are the same up to m, and functions that are.
SameSteps(D, E, m, X) ==
  /\ D \in [Nat \X X -> X] /\ E \in [Nat \X X -> X]
  /\ \A k \in 1 .. m : \A x \in X : D[<<k, x>>] = E[<<k, x>>]

SameValues(g, h, m, X) == \A k \in 0 .. m : g[k] = h[k] /\ g[k] \in X

\* Two such functions agree as long as their steps do.
LEMMA Agreement ==
  ASSUME NEW m \in Nat, NEW n \in Nat, m <= n, NEW X, NEW c, c \in X,
         NEW D, NEW E, SameSteps(D, E, m, X),
         NEW g, IsRecursive(g, 0, m, X, c, D), NEW h, IsRecursive(h, 0, n, X, c, E)
  PROVE  SameValues(g, h, m, X)
<1> USE DEF SameSteps, SameValues
<1> DEFINE S == {k \in 0 .. m : g[k] = h[k] /\ g[k] \in X}
<1>1. 0 \in S
  <2>1. 0 \in 0 .. m /\ 0 \in 0 .. n  OBVIOUS
  <2>2. g[0] = c /\ h[0] = c  BY <2>1 DEF IsRecursive
  <2> QED  BY <2>1, <2>2
<1>2. ASSUME NEW k \in 0 + 1 .. m, k - 1 \in S PROVE k \in S
  <2>1. /\ k \in 1 .. m /\ k \in 0 .. m /\ k \in 0 .. n /\ k # 0 /\ k \in Nat
        /\ g[k - 1] = h[k - 1] /\ g[k - 1] \in X
    BY <1>2
  <2>2. g[k] = D[<<k, g[k - 1]>>] /\ h[k] = E[<<k, h[k - 1]>>] /\ g[k] \in X
    BY <2>1 DEF IsRecursive
  <2>3. D[<<k, g[k - 1]>>] = E[<<k, g[k - 1]>>]  BY <2>1
  <2> QED  BY <2>1, <2>2, <2>3
<1>3. 0 .. m \subseteq S
  <2> HIDE DEF S
  <2>1. 0 \in Nat  OBVIOUS
  <2> QED  BY <1>1, <1>2, <2>1, RangeInduction
<1> QED  BY <1>3

\* Another last element of a sequence.
LEMMA LastReplaced ==
  ASSUME NEW S, NEW s \in Seq(S), s # << >>, NEW e \in S
  PROVE  /\ Len(s) \in 1 .. Len(s)
         /\ [s EXCEPT ![Len(s)] = e] \in Seq(S)
         /\ [s EXCEPT ![Len(s)] = e] # << >>
         /\ Len([s EXCEPT ![Len(s)] = e]) = Len(s)
         /\ \A j \in 1 .. Len(s) :
              [s EXCEPT ![Len(s)] = e][j] = IF j = Len(s) THEN e ELSE s[j]
<1>1. Len(s) \in 1 .. Len(s) /\ Len(s) \in Nat /\ Len(s) # 0  BY EmptySeq, LenProperties
<1> DEFINE t == [s EXCEPT ![Len(s)] = e]
<1>2. /\ t \in Seq(S) /\ Len(t) = Len(s)
      /\ \A j \in 1 .. Len(s) : t[j] = IF j = Len(s) THEN e ELSE s[j]
  BY <1>1, ExceptSeq
<1>3. t # << >>  BY <1>1, <1>2
<1> QED  BY <1>1, <1>2, <1>3

\* The last element of Append(s, d) is another one.
LEMMA AppendedReplaced ==
  ASSUME NEW S, NEW s \in Seq(S), NEW d \in S, NEW e \in S
  PROVE  LET t == Append(s, d) IN [t EXCEPT ![Len(t)] = e] = Append(s, e)
<1> DEFINE t == Append(s, d)  u == [t EXCEPT ![Len(t)] = e]  w == Append(s, e)
<1>1. t \in Seq(S) /\ t # << >> /\ Len(t) = Len(s) + 1
      /\ \A i \in 1 .. Len(s) : t[i] = s[i]
  BY AppendProperties
<1>2. w \in Seq(S) /\ Len(w) = Len(s) + 1 /\ w[Len(s) + 1] = e
      /\ \A i \in 1 .. Len(s) : w[i] = s[i]
  BY AppendProperties
<1>3. /\ u \in Seq(S) /\ Len(u) = Len(t)
      /\ \A j \in 1 .. Len(t) : u[j] = IF j = Len(t) THEN e ELSE t[j]
  <2> HIDE DEF t
  <2> QED  BY <1>1, LastReplaced
<1>4. Len(s) \in Nat  OBVIOUS
<1> HIDE DEF t, u, w
<1>5. \A i \in 1 .. Len(u) : u[i] = w[i]
  <2> SUFFICES ASSUME NEW i \in 1 .. Len(s) + 1 PROVE u[i] = w[i]  BY <1>1, <1>3
  <2>1. CASE i = Len(s) + 1  BY <1>1, <1>2, <1>3, <2>1
  <2>2. CASE i # Len(s) + 1
    <3>1. i \in 1 .. Len(s)  BY <1>4, <2>2
    <3> QED  BY <1>1, <1>2, <1>3, <2>2, <3>1
  <2> QED  BY <2>1, <2>2
<1>6. u = w  BY <1>1, <1>2, <1>3, <1>5, SeqEqual
<1> QED  BY <1>6 DEF t, u, w

\* Sequences of sequences, at least one.
Pieces(T) == Seq(Seq(T)) \ {<< >>}

\* A sequence that has been cut, with one element more.
CutAt(s, c, seps) ==
  IF c \in seps THEN Append(s, << >>) ELSE [s EXCEPT ![Len(s)] = Append(@, c)]

\* That is cut, too.
LEMMA CutAtType ==
  ASSUME NEW T, NEW s \in Pieces(T), NEW c \in T, NEW seps
  PROVE  CutAt(s, c, seps) \in Pieces(T)
<1>1. s \in Seq(Seq(T)) /\ s # << >>  BY DEF Pieces
<1>2. CASE c \in seps
  <2> DEFINE ST == Seq(T)
  <2>1. << >> \in ST /\ s \in Seq(ST)  BY <1>1, EmptySeq
  <2> HIDE DEF ST
  <2>2. Append(s, << >>) \in Seq(ST) /\ Append(s, << >>) # << >>
    BY <2>1, AppendProperties
  <2> QED  BY <1>2, <2>2 DEF CutAt, Pieces, ST
<1>3. CASE c \notin seps
  <2>1. Len(s) \in 1 .. Len(s)  BY <1>1, EmptySeq, LenProperties
  <2>2. s[Len(s)] \in Seq(T)  BY <1>1, <2>1, ElementOfSeq
  <2>3. Append(s[Len(s)], c) \in Seq(T)  BY <2>2, AppendProperties
  <2> DEFINE e == Append(s[Len(s)], c)
  <2>4. [s EXCEPT ![Len(s)] = e] \in Seq(Seq(T)) /\ [s EXCEPT ![Len(s)] = e] # << >>
    <3> HIDE DEF e
    <3>1. e \in Seq(T)  BY <2>3 DEF e
    <3> QED  BY <1>1, <3>1, LastReplaced
  <2> QED  BY <1>3, <2>4 DEF CutAt, Pieces
<1> QED  BY <1>2, <1>3

\* The step from the first n - 1 elements to n.
CutStep(f, seps, T) ==
  [x \in Nat \X Pieces(T) |->
     IF x[1] \in 1 .. Len(f) THEN CutAt(x[2], f[x[1]], seps) ELSE x[2]]

\* The values of that.
CutsAt(D, f, seps, T) ==
  /\ D \in [Nat \X Pieces(T) -> Pieces(T)]
  /\ \A k \in 1 .. Len(f) : \A s \in Pieces(T) : D[<<k, s>>] = CutAt(s, f[k], seps)

\* This step has those values.
LEMMA CutStepIs ==
  ASSUME NEW T, NEW f \in Seq(T), NEW seps
  PROVE  CutsAt(CutStep(f, seps, T), f, seps, T)
<1>1. ASSUME NEW x \in Nat \X Pieces(T)
      PROVE  (IF x[1] \in 1 .. Len(f) THEN CutAt(x[2], f[x[1]], seps) ELSE x[2]) \in Pieces(T)
  <2>1. x[2] \in Pieces(T)  OBVIOUS
  <2>2. CASE x[1] \in 1 .. Len(f)
    <3>1. f[x[1]] \in T  BY <2>2, ElementOfSeq
    <3> QED  BY <2>1, <2>2, <3>1, CutAtType
  <2> QED  BY <2>1, <2>2
<1>2. CutStep(f, seps, T) \in [Nat \X Pieces(T) -> Pieces(T)]  BY <1>1 DEF CutStep
<1>3. ASSUME NEW k \in 1 .. Len(f), NEW s \in Pieces(T)
      PROVE  CutStep(f, seps, T)[<<k, s>>] = CutAt(s, f[k], seps)
  <2>1. <<k, s>> \in Nat \X Pieces(T)  OBVIOUS
  <2> QED  BY <2>1 DEF CutStep
<1> QED  BY <1>2, <1>3 DEF CutsAt

\* The pieces are those of a recursive function.
LEMMA CutIs ==
  ASSUME NEW T, NEW f \in Seq(T), NEW seps
  PROVE  \E g : /\ IsRecursive(g, 0, Len(f), Pieces(T), << << >> >>, CutStep(f, seps, T))
                /\ Cut(f, seps) = g[Len(f)]
<1> DEFINE X == Pieces(T)
           N == Len(f)
           D == CutStep(f, seps, T)
           Body(g) == [n \in 0 .. N |->
                         IF n = 0 THEN << << >> >>
                         ELSE IF f[n] \in seps THEN Append(g[n - 1], << >>)
                         ELSE [g[n - 1] EXCEPT ![Len(g[n - 1])] = Append(@, f[n])]]
           F == CHOOSE g : g = Body(g)
<1>1. /\ D \in [Nat \X X -> X]
      /\ \A k \in 1 .. N : \A s \in X : D[<<k, s>>] = CutAt(s, f[k], seps)
  <2> HIDE DEF D
  <2>1. CutsAt(D, f, seps, T)  BY CutStepIs DEF D
  <2> QED  BY <2>1 DEF CutsAt
<1>2. 0 \in Nat /\ N \in Nat  OBVIOUS
<1>3. << << >> >> \in X
  <2>1. << >> \in Seq(T)  BY EmptySeq
  <2> QED  BY <2>1 DEF Pieces
<1>4. PICK h : IsRecursive(h, 0, N, X, << << >> >>, D)
  <2> HIDE DEF D, X, N
  <2> QED  BY <1>1, <1>2, <1>3, Recursion
<1>5. h \in [0 .. N -> X]  BY <1>4 DEF IsRecursive
<1>6. \A k \in 0 .. N : h[k] = IF k = 0 THEN << << >> >> ELSE CutAt(h[k - 1], f[k], seps)
  <2> SUFFICES ASSUME NEW k \in 0 .. N
               PROVE  h[k] = IF k = 0 THEN << << >> >> ELSE CutAt(h[k - 1], f[k], seps)
    OBVIOUS
  <2>1. h[k] = IF k = 0 THEN << << >> >> ELSE D[<<k, h[k - 1]>>]
    BY <1>4 DEF IsRecursive
  <2>2. CASE k # 0
    <3>1. k \in 1 .. N /\ k - 1 \in 0 .. N  BY <1>2, <2>2
    <3>2. h[k - 1] \in X  BY <1>5, <3>1
    <3> HIDE DEF D
    <3> QED  BY <1>1, <2>1, <2>2, <3>1, <3>2
  <2> HIDE DEF D
  <2> QED  BY <2>1, <2>2
<1>7. h = Body(h)  BY <1>5, <1>6 DEF CutAt
<1>8. F = Body(F)
  <2> HIDE DEF Body
  <2> QED  BY <1>7
<1>9. Cut(f, seps) = F[N]  BY DEF Cut
<1> HIDE DEF F
<1>10. F[0] = << << >> >> /\ \A k \in 1 .. N : F[k] = CutAt(F[k - 1], f[k], seps)
  <2>1. \A k \in 0 .. N : F[k] = Body(F)[k]  BY <1>8
  <2>2. \A k \in 1 .. N : k \in 0 .. N /\ k # 0  BY <1>2
  <2>3. 0 \in 0 .. N  BY <1>2
  <2> QED  BY ONLY <2>1, <2>2, <2>3 DEF CutAt
<1>11. F = [k \in 0 .. N |-> F[k]]
  <2>1. Body(F) = [k \in 0 .. N |-> Body(F)[k]]  OBVIOUS
  <2> HIDE DEF Body
  <2> QED  BY <1>8, <2>1
<1>12. \A k \in 1 .. N : F[k - 1] \in X => F[k] = D[<<k, F[k - 1]>>]
  <2> HIDE DEF D, X
  <2> QED  BY <1>1, <1>10
<1>13. IsRecursive(F, 0, N, X, << << >> >>, D)
  <2> HIDE DEF D, X, N
  <2> QED  BY <1>1, <1>2, <1>3, <1>10, <1>11, <1>12, Unfolded
<1> QED  BY <1>9, <1>13

\* One element more.
LEMMA CutAppend ==
  ASSUME NEW T, NEW f \in Seq(T), NEW c \in T, NEW seps
  PROVE  /\ Cut(f, seps) \in Pieces(T)
         /\ Cut(Append(f, c), seps) = CutAt(Cut(f, seps), c, seps)
<1> DEFINE X == Pieces(T)  e == Append(f, c)  m == Len(f)
           D == CutStep(f, seps, T)  E == CutStep(e, seps, T)
<1>1. /\ e \in Seq(T) /\ Len(e) = m + 1 /\ e[m + 1] = c
      /\ \A i \in 1 .. m : e[i] = f[i]
  BY AppendProperties
<1>2. PICK g : IsRecursive(g, 0, m, X, << << >> >>, D) /\ Cut(f, seps) = g[m]
  BY CutIs
<1>3. PICK h : /\ IsRecursive(h, 0, m + 1, X, << << >> >>, E)
               /\ Cut(e, seps) = h[m + 1]
  <2> HIDE DEF e
  <2>1. Len(e) = m + 1  BY <1>1
  <2> QED  BY <1>1, <2>1, CutIs
<1>4. /\ D \in [Nat \X X -> X]
      /\ \A k \in 1 .. m : \A s \in X : D[<<k, s>>] = CutAt(s, f[k], seps)
  <2> HIDE DEF D
  <2>1. CutsAt(D, f, seps, T)  BY CutStepIs DEF D
  <2> QED  BY <2>1 DEF CutsAt
<1>5. /\ E \in [Nat \X X -> X]
      /\ \A k \in 1 .. m + 1 : \A s \in X : E[<<k, s>>] = CutAt(s, e[k], seps)
  <2> HIDE DEF e, E
  <2>1. CutsAt(E, e, seps, T)  BY <1>1, CutStepIs DEF E
  <2> QED  BY <1>1, <2>1 DEF CutsAt
<1>6. << << >> >> \in X
  <2>1. << >> \in Seq(T)  BY EmptySeq
  <2> QED  BY <2>1 DEF Pieces
<1>7. m \in Nat /\ m + 1 \in Nat /\ m <= m + 1 /\ m \in 0 .. m /\ m + 1 \in 0 .. m + 1
      /\ m + 1 # 0 /\ (m + 1) - 1 = m /\ m + 1 \in 1 .. m + 1
      /\ \A k \in 1 .. m : k \in 1 .. m + 1
  OBVIOUS
<1> HIDE DEF X, D, E, m, e
<1>8. SameSteps(D, E, m, X)  BY <1>1, <1>4, <1>5, <1>7 DEF SameSteps
<1>9. g[m] = h[m] /\ g[m] \in X
  <2> DEFINE n == m + 1  c0 == << << >> >>
  <2>3. /\ IsRecursive(g, 0, m, X, c0, D) /\ IsRecursive(h, 0, n, X, c0, E)
        /\ m \in Nat /\ n \in Nat /\ m <= n /\ c0 \in X
    BY <1>2, <1>3, <1>6, <1>7
  <2> HIDE DEF n, c0
  <2>2. SameValues(g, h, m, X)  BY <1>8, <2>3, Agreement
  <2> QED  BY <1>7, <2>2 DEF SameValues
<1>10. h[m + 1] = E[<<m + 1, h[m]>>]  BY <1>3, <1>7 DEF IsRecursive
<1>11. h[m + 1] = CutAt(g[m], c, seps)  BY <1>1, <1>5, <1>7, <1>9, <1>10
<1> QED  BY <1>2, <1>3, <1>9, <1>11 DEF X, e

\* The pieces of the empty sequence.
LEMMA CutEmpty ==
  ASSUME NEW seps
  PROVE  Cut(<< >>, seps) = << << >> >>
<1>1. << >> \in Seq({}) /\ Len(<< >>) = 0  BY EmptySeq
<1>2. PICK g : IsRecursive(g, 0, 0, Pieces({}), << << >> >>, CutStep(<< >>, seps, {}))
               /\ Cut(<< >>, seps) = g[0]
  BY <1>1, CutIs
<1>3. 0 \in 0 .. 0  OBVIOUS
<1> QED  BY <1>2, <1>3 DEF IsRecursive

\* The characters of numbers.
Numeral == Digit \cup {"-"}

\* A number with one character more.
DigitAt(v, c) == IF c = "-" THEN 0 ELSE 10 * v + Digits[c]

\* Digits have values.
LEMMA DigitValues ==
  /\ \A c \in Digit : Digits[c] \in Nat /\ c # "-"
  /\ \A c \in Numeral : \A v \in Nat : DigitAt(v, c) \in Nat
<1>1. ASSUME NEW c \in Digit PROVE Digits[c] \in Nat /\ c # "-"
  <2>1. c = "0" \/ c = "1" \/ c = "2"  BY DEF Digit, Digits
  <2>2. Digits[c] = IF c = "0" THEN 0 ELSE IF c = "1" THEN 1 ELSE 2
    BY <2>1 DEF Digits
  <2> QED  BY <2>1, <2>2
<1>2. ASSUME NEW c \in Numeral, NEW v \in Nat PROVE DigitAt(v, c) \in Nat
  <2>1. CASE c = "-"  BY <2>1 DEF DigitAt
  <2>2. CASE c # "-"
    <3>1. Digits[c] \in Nat  BY <1>1, <2>2 DEF Numeral
    <3> QED  BY <2>2, <3>1 DEF DigitAt
  <2> QED  BY <2>1, <2>2
<1> QED  BY <1>1, <1>2

\* The step from the first n - 1 characters to n.
DigitStep(w) ==
  [x \in Nat \X Nat |-> IF x[1] \in 1 .. Len(w) THEN DigitAt(x[2], w[x[1]]) ELSE x[2]]

DigitsAt(D, w) ==
  /\ D \in [Nat \X Nat -> Nat]
  /\ \A k \in 1 .. Len(w) : \A v \in Nat : D[<<k, v>>] = DigitAt(v, w[k])

\* The values of that.
LEMMA DigitStepIs ==
  ASSUME NEW w \in Seq(Numeral)
  PROVE  DigitsAt(DigitStep(w), w)
<1>1. ASSUME NEW x \in Nat \X Nat
      PROVE  (IF x[1] \in 1 .. Len(w) THEN DigitAt(x[2], w[x[1]]) ELSE x[2]) \in Nat
  <2>1. x[2] \in Nat  OBVIOUS
  <2>2. CASE x[1] \in 1 .. Len(w)
    <3>1. w[x[1]] \in Numeral  BY <2>2, ElementOfSeq
    <3> QED  BY <2>1, <2>2, <3>1, DigitValues
  <2> QED  BY <2>1, <2>2
<1>2. DigitStep(w) \in [Nat \X Nat -> Nat]  BY <1>1 DEF DigitStep
<1>3. ASSUME NEW k \in 1 .. Len(w), NEW v \in Nat
      PROVE  DigitStep(w)[<<k, v>>] = DigitAt(v, w[k])
  <2>1. <<k, v>> \in Nat \X Nat  OBVIOUS
  <2> QED  BY <2>1 DEF DigitStep
<1> QED  BY <1>2, <1>3 DEF DigitsAt

\* The value of the digits is that of a recursive function.
LEMMA MagnitudeIs ==
  ASSUME NEW w \in Seq(Numeral)
  PROVE  \E g : /\ IsRecursive(g, 0, Len(w), Nat, 0, DigitStep(w))
                /\ Magnitude(w) = g[Len(w)]
<1> DEFINE N == Len(w)
           D == DigitStep(w)
           Body(g) == [n \in 0 .. N |->
                         IF n = 0 THEN 0
                         ELSE IF w[n] = "-" THEN 0
                         ELSE 10 * g[n - 1] + Digits[w[n]]]
           F == CHOOSE g : g = Body(g)
<1>1. D \in [Nat \X Nat -> Nat] /\ \A k \in 1 .. N : \A v \in Nat : D[<<k, v>>] = DigitAt(v, w[k])
  <2> HIDE DEF D
  <2>1. DigitsAt(D, w)  BY DigitStepIs DEF D
  <2> QED  BY <2>1 DEF DigitsAt
<1>2. 0 \in Nat /\ N \in Nat  OBVIOUS
<1>3. PICK h : IsRecursive(h, 0, N, Nat, 0, D)
  <2> HIDE DEF D, N
  <2> QED  BY <1>1, <1>2, Recursion
<1>4. h \in [0 .. N -> Nat]  BY <1>3 DEF IsRecursive
<1>5. \A k \in 0 .. N : h[k] = IF k = 0 THEN 0 ELSE DigitAt(h[k - 1], w[k])
  <2> SUFFICES ASSUME NEW k \in 0 .. N
               PROVE  h[k] = IF k = 0 THEN 0 ELSE DigitAt(h[k - 1], w[k])
    OBVIOUS
  <2>1. h[k] = IF k = 0 THEN 0 ELSE D[<<k, h[k - 1]>>]
    BY <1>3 DEF IsRecursive
  <2>2. CASE k # 0
    <3>1. k \in 1 .. N /\ k - 1 \in 0 .. N  BY <1>2, <2>2
    <3>2. h[k - 1] \in Nat  BY <1>4, <3>1
    <3> HIDE DEF D
    <3> QED  BY <1>1, <2>1, <2>2, <3>1, <3>2
  <2> HIDE DEF D
  <2> QED  BY <2>1, <2>2
<1>6. h = Body(h)  BY <1>4, <1>5 DEF DigitAt
<1>7. F = Body(F)
  <2> HIDE DEF Body
  <2> QED  BY <1>6
<1>8. Magnitude(w) = F[N]  BY DEF Magnitude
<1> HIDE DEF F
<1>9. F[0] = 0 /\ \A k \in 1 .. N : F[k] = DigitAt(F[k - 1], w[k])
  <2>1. \A k \in 0 .. N : F[k] = Body(F)[k]  BY <1>7
  <2>2. \A k \in 1 .. N : k \in 0 .. N /\ k # 0  BY <1>2
  <2>3. 0 \in 0 .. N  BY <1>2
  <2> QED  BY ONLY <2>1, <2>2, <2>3 DEF DigitAt
<1>10. F = [k \in 0 .. N |-> F[k]]
  <2>1. Body(F) = [k \in 0 .. N |-> Body(F)[k]]  OBVIOUS
  <2> HIDE DEF Body
  <2> QED  BY <1>7, <2>1
<1>11. \A k \in 1 .. N : F[k - 1] \in Nat => F[k] = D[<<k, F[k - 1]>>]
  <2> HIDE DEF D
  <2> QED  BY <1>1, <1>9
<1>12. IsRecursive(F, 0, N, Nat, 0, D)
  <2> HIDE DEF D, N
  <2> QED  BY <1>1, <1>2, <1>9, <1>10, <1>11, Unfolded
<1> QED  BY <1>8, <1>12

\* One character more.
LEMMA MagnitudeAppend ==
  ASSUME NEW w \in Seq(Numeral), NEW c \in Numeral
  PROVE  /\ Magnitude(w) \in Nat
         /\ Magnitude(Append(w, c)) = DigitAt(Magnitude(w), c)
<1> DEFINE e == Append(w, c)  m == Len(w)  n == m + 1
           D == DigitStep(w)  E == DigitStep(e)
<1>1. /\ e \in Seq(Numeral) /\ Len(e) = n /\ e[n] = c
      /\ \A i \in 1 .. m : e[i] = w[i]
  BY AppendProperties
<1>2. PICK g : IsRecursive(g, 0, m, Nat, 0, D) /\ Magnitude(w) = g[m]
  BY MagnitudeIs
<1>3. PICK h : IsRecursive(h, 0, n, Nat, 0, E) /\ Magnitude(e) = h[n]
  <2> HIDE DEF e
  <2> QED  BY <1>1, MagnitudeIs
<1>4. D \in [Nat \X Nat -> Nat] /\ \A k \in 1 .. m : \A v \in Nat : D[<<k, v>>] = DigitAt(v, w[k])
  <2> HIDE DEF D
  <2>1. DigitsAt(D, w)  BY DigitStepIs DEF D
  <2> QED  BY <2>1 DEF DigitsAt
<1>5. E \in [Nat \X Nat -> Nat] /\ \A k \in 1 .. n : \A v \in Nat : E[<<k, v>>] = DigitAt(v, e[k])
  <2> HIDE DEF e, E
  <2>1. DigitsAt(E, e)  BY <1>1, DigitStepIs DEF E
  <2> QED  BY <1>1, <2>1 DEF DigitsAt
<1>6. m \in Nat /\ n \in Nat /\ m <= n /\ m \in 0 .. m /\ n \in 0 .. n
      /\ n # 0 /\ n - 1 = m /\ n \in 1 .. n /\ 0 \in Nat
      /\ \A k \in 1 .. m : k \in 1 .. n
  OBVIOUS
<1> HIDE DEF D, E, m, n, e
<1>7. SameSteps(D, E, m, Nat)  BY <1>1, <1>4, <1>5, <1>6 DEF SameSteps
<1>8. SameValues(g, h, m, Nat)  BY <1>2, <1>3, <1>6, <1>7, Agreement
<1>9. g[m] = h[m] /\ g[m] \in Nat  BY <1>6, <1>8 DEF SameValues
<1>10. h[n] = E[<<n, h[m]>>]  BY <1>3, <1>6 DEF IsRecursive
<1>11. h[n] = DigitAt(g[m], c)  BY <1>1, <1>5, <1>6, <1>9, <1>10
<1> QED  BY <1>2, <1>3, <1>9, <1>11 DEF e

\* No digits have the value 0.
LEMMA MagnitudeEmpty == Magnitude(<< >>) = 0
<1>1. << >> \in Seq(Numeral) /\ Len(<< >>) = 0  BY EmptySeq
<1>2. PICK g : IsRecursive(g, 0, 0, Nat, 0, DigitStep(<< >>)) /\ Magnitude(<< >>) = g[0]
  BY <1>1, MagnitudeIs
<1>3. 0 \in 0 .. 0  OBVIOUS
<1> QED  BY <1>2, <1>3 DEF IsRecursive

\* Sequences of words.
Texts == Seq(Seq(Chars) \ {<< >>})

\* The words up to n, from those up to n - 1.
WordsAt(s, f, n) ==
  IF Blank(f, n) THEN s
  ELSE IF Blank(f, n - 1) THEN Append(s, <<f[n]>>)
  ELSE [s EXCEPT ![Len(s)] = Append(@, f[n])]

\* They are words.
LEMMA WordsAtType ==
  ASSUME NEW f \in Seq(Chars), NEW n \in 1 .. Len(f), NEW s \in Texts
  PROVE  /\ WordsAt(s, f, n) \in Texts
         /\ s # << >> => WordsAt(s, f, n) # << >>
         /\ ~Blank(f, n) /\ Blank(f, n - 1) => WordsAt(s, f, n) # << >>
<1>1. f[n] \in Chars  BY ElementOfSeq
<1>2. CASE Blank(f, n)  BY <1>2 DEF WordsAt
<1>3. CASE ~Blank(f, n) /\ Blank(f, n - 1)
  <2>1. <<f[n]>> \in Seq(Chars) \ {<< >>}  BY <1>1
  <2>2. Append(s, <<f[n]>>) \in Texts /\ Append(s, <<f[n]>>) # << >>
    <3> DEFINE e == <<f[n]>>  S == Seq(Chars) \ {<< >>}
    <3>1. e \in S /\ s \in Seq(S)  BY <2>1 DEF Texts
    <3> HIDE DEF e, S
    <3>2. Append(s, e) \in Seq(S) /\ Append(s, e) # << >>  BY <3>1, AppendProperties
    <3> QED  BY <3>2 DEF e, S, Texts
  <2> QED  BY <1>3, <2>2 DEF WordsAt
<1>4. CASE ~Blank(f, n) /\ ~Blank(f, n - 1)
  <2> DEFINE S == Seq(Chars) \ {<< >>}  e == Append(s[Len(s)], f[n])
             t == [s EXCEPT ![Len(s)] = e]
  <2>1. WordsAt(s, f, n) = t  BY <1>4 DEF WordsAt
  <2>2. s \in Seq(S)  BY DEF Texts
  <2>3. CASE s = << >>
    <3>1. t = s  BY <2>3
    <3> QED  BY <1>4, <2>1, <2>3, <3>1
  <2>4. CASE s # << >>
    <3>1. Len(s) \in 1 .. Len(s)  BY <2>2, <2>4, EmptySeq, LenProperties
    <3>2. s[Len(s)] \in S
      <4> HIDE DEF S
      <4> QED  BY <2>2, <3>1, ElementOfSeq
    <3>3. e \in S  BY <1>1, <3>2, AppendProperties
    <3> HIDE DEF S, e
    <3>4. t \in Seq(S) /\ t # << >>  BY <2>2, <2>4, <3>3, LastReplaced
    <3> QED  BY <1>4, <2>1, <3>4 DEF Texts, S
  <2> QED  BY <2>3, <2>4
<1> QED  BY <1>2, <1>3, <1>4

\* The step from the first n - 1 characters to n.
WordStep(f) ==
  [x \in Nat \X Texts |-> IF x[1] \in 1 .. Len(f) THEN WordsAt(x[2], f, x[1]) ELSE x[2]]

WordsStepAt(D, f) ==
  /\ D \in [Nat \X Texts -> Texts]
  /\ \A k \in 1 .. Len(f) : \A s \in Texts : D[<<k, s>>] = WordsAt(s, f, k)

\* The values of that.
LEMMA WordStepIs ==
  ASSUME NEW f \in Seq(Chars)
  PROVE  WordsStepAt(WordStep(f), f)
<1>1. ASSUME NEW x \in Nat \X Texts
      PROVE  (IF x[1] \in 1 .. Len(f) THEN WordsAt(x[2], f, x[1]) ELSE x[2]) \in Texts
  <2>1. x[2] \in Texts  OBVIOUS
  <2> QED  BY <2>1, WordsAtType
<1>2. WordStep(f) \in [Nat \X Texts -> Texts]  BY <1>1 DEF WordStep
<1>3. ASSUME NEW k \in 1 .. Len(f), NEW s \in Texts
      PROVE  WordStep(f)[<<k, s>>] = WordsAt(s, f, k)
  <2>1. <<k, s>> \in Nat \X Texts  OBVIOUS
  <2> QED  BY <2>1 DEF WordStep
<1> QED  BY <1>2, <1>3 DEF WordsStepAt

\* The words up to each position, from those before it.
AreWords(W, f) ==
  /\ W[0] = << >>
  /\ \A k \in 1 .. Len(f) : W[k] = WordsAt(W[k - 1], f, k)
  /\ \A k \in 0 .. Len(f) : W[k] \in Texts /\ (~Blank(f, k) => W[k] # << >>)

\* WordsUpTo is a recursive function.
LEMMA WordsAre ==
  ASSUME NEW f \in Seq(Chars)
  PROVE  AreWords(WordsUpTo(f), f)
<1> DEFINE N == Len(f)
           D == WordStep(f)
           Body(g) == [n \in 0 .. N |->
                         IF n = 0 THEN << >>
                         ELSE IF Blank(f, n) THEN g[n - 1]
                         ELSE IF Blank(f, n - 1) THEN Append(g[n - 1], <<f[n]>>)
                         ELSE [g[n - 1] EXCEPT ![Len(g[n - 1])] = Append(@, f[n])]]
           F == CHOOSE g : g = Body(g)
<1>1. /\ D \in [Nat \X Texts -> Texts]
      /\ \A k \in 1 .. N : \A s \in Texts : D[<<k, s>>] = WordsAt(s, f, k)
  <2> HIDE DEF D
  <2>1. WordsStepAt(D, f)  BY WordStepIs DEF D
  <2> QED  BY <2>1 DEF WordsStepAt
<1>2. 0 \in Nat /\ N \in Nat  OBVIOUS
<1>3. << >> \in Texts  BY EmptySeq DEF Texts
<1>4. PICK h : IsRecursive(h, 0, N, Texts, << >>, D)
  <2> HIDE DEF D, N
  <2> QED  BY <1>1, <1>2, <1>3, Recursion
<1>5. h \in [0 .. N -> Texts]  BY <1>4 DEF IsRecursive
<1>6. \A k \in 0 .. N : h[k] = IF k = 0 THEN << >> ELSE WordsAt(h[k - 1], f, k)
  <2> SUFFICES ASSUME NEW k \in 0 .. N
               PROVE  h[k] = IF k = 0 THEN << >> ELSE WordsAt(h[k - 1], f, k)
    OBVIOUS
  <2>1. h[k] = IF k = 0 THEN << >> ELSE D[<<k, h[k - 1]>>]
    BY <1>4 DEF IsRecursive
  <2>2. CASE k # 0
    <3>1. k \in 1 .. N /\ k - 1 \in 0 .. N  BY <1>2, <2>2
    <3>2. h[k - 1] \in Texts  BY <1>5, <3>1
    <3> HIDE DEF D
    <3> QED  BY <1>1, <2>1, <2>2, <3>1, <3>2
  <2> HIDE DEF D
  <2> QED  BY <2>1, <2>2
<1>7. h = Body(h)  BY <1>5, <1>6 DEF WordsAt
<1>8. F = Body(F)
  <2> HIDE DEF Body
  <2> QED  BY <1>7
<1>9. WordsUpTo(f) = F  BY DEF WordsUpTo
<1> HIDE DEF F
<1>10. F[0] = << >> /\ \A k \in 1 .. N : F[k] = WordsAt(F[k - 1], f, k)
  <2>1. \A k \in 0 .. N : F[k] = Body(F)[k]  BY <1>8
  <2>2. \A k \in 1 .. N : k \in 0 .. N /\ k # 0  BY <1>2
  <2>3. 0 \in 0 .. N  BY <1>2
  <2> QED  BY ONLY <2>1, <2>2, <2>3 DEF WordsAt
<1>11. \A k \in 0 .. N : F[k] \in Texts /\ (~Blank(f, k) => F[k] # << >>)
  <2> DEFINE S == {k \in 0 .. N : F[k] \in Texts /\ (~Blank(f, k) => F[k] # << >>)}
  <2>1. 0 \in S  BY <1>2, <1>3, <1>10 DEF Blank
  <2>2. ASSUME NEW k \in 0 + 1 .. N, k - 1 \in S PROVE k \in S
    <3>1. k \in 1 .. N /\ k \in 0 .. N /\ F[k - 1] \in Texts
          /\ (~Blank(f, k - 1) => F[k - 1] # << >>)
      BY <2>2
    <3>2. F[k] = WordsAt(F[k - 1], f, k)  BY <1>10, <3>1
    <3> QED  BY <3>1, <3>2, WordsAtType
  <2>3. 0 .. N \subseteq S
    <3> HIDE DEF S
    <3> QED  BY <1>2, <2>1, <2>2, RangeInduction
  <2> QED  BY <2>3
<1> QED  BY <1>9, <1>10, <1>11 DEF AreWords

\* A comment begins with c or p at the beginning of a line and ends with the line.
LEMMA CommentStep ==
  ASSUME NEW f, NEW n \in Nat
  PROVE  InComment(f, n + 1) <=>
           /\ f[n + 1] # "newline"
           /\ \/ InComment(f, n)
              \/ f[n + 1] \in {"c", "p"} /\ (n = 0 \/ f[n] = "newline")
<1> DEFINE At(b, m) == /\ f[b] \in {"c", "p"}
                       /\ b = 1 \/ f[b - 1] = "newline"
                       /\ \A i \in b .. m : f[i] # "newline"
<1>1. \A m : InComment(f, m) <=> \E b \in 1 .. m : At(b, m)  BY DEF InComment
<1>2. ASSUME NEW b \in 1 .. n + 1, At(b, n + 1)
      PROVE  /\ f[n + 1] # "newline"
             /\ \/ \E a \in 1 .. n : At(a, n)
                \/ f[n + 1] \in {"c", "p"} /\ (n = 0 \/ f[n] = "newline")
  <2>1. n + 1 \in b .. n + 1  OBVIOUS
  <2>2. CASE b = n + 1
    <3>1. b = 1 => n = 0  BY <2>2
    <3>2. b - 1 = n  BY <2>2
    <3> QED  BY <1>2, <2>1, <2>2, <3>1, <3>2
  <2>3. CASE b # n + 1
    <3>1. b \in 1 .. n /\ \A i \in b .. n : i \in b .. n + 1  BY <2>3
    <3>2. At(b, n)  BY <1>2, <3>1
    <3> HIDE DEF At
    <3>3. f[n + 1] # "newline"  BY <1>2, <2>1 DEF At
    <3> QED  BY <3>1, <3>2, <3>3
  <2> QED  BY <2>2, <2>3
<1>3. ASSUME f[n + 1] # "newline", NEW b \in 1 .. n, At(b, n)
      PROVE  \E a \in 1 .. n + 1 : At(a, n + 1)
  <2>1. b \in 1 .. n + 1 /\ \A i \in b .. n + 1 : i \in b .. n \/ i = n + 1  OBVIOUS
  <2>2. At(b, n + 1)  BY <1>3, <2>1
  <2> HIDE DEF At
  <2> QED  BY <2>1, <2>2
<1>4. ASSUME f[n + 1] # "newline", f[n + 1] \in {"c", "p"}, n = 0 \/ f[n] = "newline"
      PROVE  \E a \in 1 .. n + 1 : At(a, n + 1)
  <2>1. n + 1 \in 1 .. n + 1 /\ (n = 0 => n + 1 = 1) /\ (n + 1) - 1 = n
        /\ \A i \in n + 1 .. n + 1 : i = n + 1
    OBVIOUS
  <2>2. At(n + 1, n + 1)  BY <1>4, <2>1
  <2> HIDE DEF At
  <2> QED  BY <2>1, <2>2
<1> HIDE DEF At
<1> QED  BY <1>1, <1>2, <1>3, <1>4

-----------------------------------------------------------------------------

\* What an integer may begin with.
Prefix(w) ==
  \A n \in 1 .. Len(w) : w[n] \in Digit \/ (n = 1 /\ w[n] = "-")

\* Where an integer may end.
Ends(w) == w[Len(w)] \in Digit

\* Words that are integers, all of them.
AllIntegers(ws) == \A i \in 1 .. Len(ws) : Prefix(ws[i]) /\ Ends(ws[i])

\* Words that may become integers, if the last one goes on.
Hopeful(ws, open) ==
  \A i \in 1 .. Len(ws) : Prefix(ws[i]) /\ (Ends(ws[i]) \/ (i = Len(ws) /\ open))

\* A character that goes on with a beginning of an integer.
LEMMA PrefixGrows ==
  ASSUME NEW w \in Seq(Chars), NEW c \in Chars
  PROVE  /\ Prefix(Append(w, c)) <=>
              Prefix(w) /\ (c \in Digit \/ (w = << >> /\ c = "-"))
         /\ Ends(Append(w, c)) <=> c \in Digit
<1> DEFINE e == Append(w, c)
<1>1. /\ e \in Seq(Chars) /\ Len(e) = Len(w) + 1 /\ e[Len(w) + 1] = c
      /\ \A i \in 1 .. Len(w) : e[i] = w[i]
  BY AppendProperties
<1>2. Len(w) \in Nat /\ (Len(w) = 0 <=> w = << >>)  BY EmptySeq, LenProperties
<1> HIDE DEF e
<1>3. \A i \in 1 .. Len(e) : i \in 1 .. Len(w) \/ i = Len(w) + 1  BY <1>1, <1>2
<1>4. \A i \in 1 .. Len(w) : i \in 1 .. Len(e)  BY <1>1, <1>2
<1>5. Len(w) + 1 \in 1 .. Len(e) /\ (Len(w) + 1 = 1 <=> w = << >>)  BY <1>1, <1>2
<1>6. ASSUME Prefix(e)
      PROVE  Prefix(w) /\ (c \in Digit \/ (w = << >> /\ c = "-"))
  BY <1>1, <1>4, <1>5, <1>6 DEF Prefix
<1>7. ASSUME Prefix(w), c \in Digit \/ (w = << >> /\ c = "-")
      PROVE  Prefix(e)
  BY <1>1, <1>3, <1>5, <1>7 DEF Prefix
<1>8. Ends(e) <=> c \in Digit  BY <1>1 DEF Ends
<1> QED  BY <1>6, <1>7, <1>8 DEF e

\* Words are the last one and those before it.
LEMMA HopefulLast ==
  ASSUME NEW s \in Texts, NEW w \in Seq(Chars) \ {<< >>}, NEW open
  PROVE  /\ Append(s, w) \in Texts
         /\ Hopeful(Append(s, w), open) <=> AllIntegers(s) /\ Prefix(w) /\ (Ends(w) \/ open)
         /\ AllIntegers(Append(s, w)) <=> AllIntegers(s) /\ Prefix(w) /\ Ends(w)
<1> DEFINE S == Seq(Chars) \ {<< >>}  t == Append(s, w)  m == Len(s)
<1>1. s \in Seq(S) /\ w \in S  BY DEF Texts
<1>2. t \in Seq(S) /\ Len(t) = m + 1 /\ t[m + 1] = w /\ \A i \in 1 .. m : t[i] = s[i]
  <2> HIDE DEF S
  <2> QED  BY <1>1, AppendProperties
<1>3. m \in Nat  BY <1>1, LenProperties
<1> HIDE DEF t, m, S
<1>4. \A i : i \in 1 .. Len(t) <=> i \in 1 .. m \/ i = m + 1  BY <1>2, <1>3
<1>5. \A i \in 1 .. m : i # Len(t)  BY <1>2, <1>3
<1>6. Hopeful(t, open) <=> AllIntegers(s) /\ Prefix(w) /\ (Ends(w) \/ open)
  <2>1. Hopeful(t, open) <=> /\ \A i \in 1 .. m : Prefix(s[i]) /\ Ends(s[i])
                             /\ Prefix(w) /\ (Ends(w) \/ open)
    BY <1>2, <1>4, <1>5 DEF Hopeful
  <2> QED  BY <2>1 DEF AllIntegers, m
<1>7. AllIntegers(t) <=> AllIntegers(s) /\ Prefix(w) /\ Ends(w)
  <2>1. AllIntegers(t) <=> /\ \A i \in 1 .. m : Prefix(s[i]) /\ Ends(s[i])
                        /\ Prefix(w) /\ Ends(w)
    BY <1>2, <1>4 DEF AllIntegers
  <2> QED  BY <2>1 DEF AllIntegers, m
<1> QED  BY <1>2, <1>6, <1>7 DEF t, S, Texts

\* The last word of words.
LEMMA LastWord ==
  ASSUME NEW ws \in Texts, ws # << >>
  PROVE  \E s \in Texts, w \in Seq(Chars) \ {<< >>} : ws = Append(s, w)
<1> DEFINE S == Seq(Chars) \ {<< >>}
<1>1. ws \in Seq(S)  BY DEF Texts
<1>2. \E s \in Seq(S), w \in S : ws = Append(s, w)
  <2> HIDE DEF S
  <2> QED  BY <1>1, SequenceEmptyOrAppend
<1> QED  BY <1>2 DEF Texts

\* The last word goes on.
LEMMA WordGrows ==
  ASSUME NEW s \in Texts, NEW w \in Seq(Chars) \ {<< >>}, NEW f, NEW n, f[n] \in Chars,
         ~Blank(f, n), ~Blank(f, n - 1)
  PROVE  /\ Append(w, f[n]) \in Seq(Chars) \ {<< >>}
         /\ WordsAt(Append(s, w), f, n) = Append(s, Append(w, f[n]))
<1> DEFINE S == Seq(Chars) \ {<< >>}  t == Append(s, w)  e == Append(w, f[n])
<1>1. s \in Seq(S) /\ w \in S  BY DEF Texts
<1>2. e \in S  BY AppendProperties
<1>3. Len(t) = Len(s) + 1 /\ t[Len(s) + 1] = w
  <2> HIDE DEF S
  <2> QED  BY <1>1, AppendProperties
<1>4. WordsAt(t, f, n) = [t EXCEPT ![Len(t)] = Append(@, f[n])]  BY DEF WordsAt
<1>5. [t EXCEPT ![Len(t)] = Append(@, f[n])] = [t EXCEPT ![Len(t)] = e]
  BY <1>3
<1>6. [t EXCEPT ![Len(t)] = e] = Append(s, e)
  <2> HIDE DEF S, e
  <2> QED  BY <1>1, <1>2, AppendedReplaced
<1> QED  BY <1>2, <1>4, <1>5, <1>6

\* Where words may become integers, they may so before.
LEMMA HopefulBack ==
  ASSUME NEW f \in Seq(Chars), NEW n \in 1 .. Len(f), NEW s \in Texts,
         ~Blank(f, n - 1) => s # << >>,
         Hopeful(WordsAt(s, f, n), ~Blank(f, n))
  PROVE  Hopeful(s, ~Blank(f, n - 1))
<1>1. f[n] \in Chars  BY ElementOfSeq
<1>2. CASE Blank(f, n)
  <2>1. WordsAt(s, f, n) = s  BY <1>2 DEF WordsAt
  <2>2. Hopeful(s, FALSE)  BY <1>2, <2>1
  <2> QED  BY <2>2 DEF Hopeful
<1>3. CASE ~Blank(f, n) /\ Blank(f, n - 1)
  <2>1. WordsAt(s, f, n) = Append(s, <<f[n]>>)  BY <1>3 DEF WordsAt
  <2>2. <<f[n]>> \in Seq(Chars) \ {<< >>}  BY <1>1
  <2>3. AllIntegers(s)
    <3> DEFINE w == <<f[n]>>
    <3> HIDE DEF w
    <3>1. w \in Seq(Chars) \ {<< >>} /\ Hopeful(Append(s, w), ~Blank(f, n))
      BY <2>1, <2>2 DEF w
    <3> QED  BY <3>1, HopefulLast
  <2> QED  BY <2>3 DEF AllIntegers, Hopeful
<1>4. CASE ~Blank(f, n) /\ ~Blank(f, n - 1)
  <2>1. PICK r \in Texts, w \in Seq(Chars) \ {<< >>} : s = Append(r, w)
    BY <1>4, LastWord
  <2>2. /\ Append(w, f[n]) \in Seq(Chars) \ {<< >>}
        /\ WordsAt(s, f, n) = Append(r, Append(w, f[n]))
    BY <1>1, <1>4, <2>1, WordGrows
  <2>3. AllIntegers(r) /\ Prefix(Append(w, f[n]))
    <3> DEFINE e == Append(w, f[n])
    <3> HIDE DEF e
    <3>1. e \in Seq(Chars) \ {<< >>} /\ Hopeful(Append(r, e), ~Blank(f, n))
      BY <2>2 DEF e
    <3>2. AllIntegers(r) /\ Prefix(e)  BY <3>1, HopefulLast
    <3> QED  BY <3>2 DEF e
  <2>4. Prefix(w)  BY <1>1, <2>3, PrefixGrows
  <2>5. Hopeful(Append(r, w), TRUE)  BY <2>3, <2>4, HopefulLast
  <2> QED  BY <1>4, <2>1, <2>5
<1> QED  BY <1>2, <1>3, <1>4

\* The values of words.
Ints(ws) == [i \in 1 .. Len(ws) |-> Value(ws[i])]

\* AllIntegers consist of numerals, and have a value.
LEMMA PrefixValue ==
  ASSUME NEW w \in Seq(Chars) \ {<< >>}, Prefix(w)
  PROVE  /\ w \in Seq(Numeral) /\ Magnitude(w) \in Nat /\ Value(w) \in Int
         /\ Value(w) = IF w[1] = "-" THEN -Magnitude(w) ELSE Magnitude(w)
<1>1. \A n \in 1 .. Len(w) : w[n] \in Numeral  BY DEF Prefix, Numeral
<1>2. w \in Seq(Numeral)
  <2>1. Len(w) \in Nat /\ w = [n \in 1 .. Len(w) |-> w[n]]  OBVIOUS
  <2>2. [n \in 1 .. Len(w) |-> w[n]] \in [1 .. Len(w) -> Numeral]  BY <1>1
  <2>3. w \in [1 .. Len(w) -> Numeral]  BY <2>1, <2>2
  <2> QED  BY <2>1, <2>3, SeqDef
<1>3. Magnitude(w) \in Nat
  <2>1. "-" \in Numeral  BY DEF Numeral
  <2> QED  BY <1>2, <2>1, MagnitudeAppend
<1> QED  BY <1>2, <1>3 DEF Value

\* The sign of a number is its first character.
LEMMA ValueGrows ==
  ASSUME NEW w \in Seq(Chars) \ {<< >>}, Prefix(w), NEW c \in Chars, c \in Digit
  PROVE  /\ Append(w, c)[1] = w[1]
         /\ Magnitude(Append(w, c)) = 10 * Magnitude(w) + Digits[c]
<1>1. w \in Seq(Numeral)  BY PrefixValue
<1>2. c \in Numeral /\ c # "-"  BY DigitValues DEF Numeral
<1>3. Magnitude(Append(w, c)) = DigitAt(Magnitude(w), c)
  BY <1>1, <1>2, MagnitudeAppend
<1>4. 1 \in 1 .. Len(w)  BY EmptySeq, LenProperties
<1>5. Append(w, c)[1] = w[1]  BY <1>4, AppendProperties
<1> QED  BY <1>2, <1>3, <1>5 DEF DigitAt

\* The value of a single character.
LEMMA ValueBegins ==
  ASSUME NEW c \in Numeral
  PROVE  /\ <<c>>[1] = c
         /\ c \in Digit => Magnitude(<<c>>) = Digits[c]
         /\ c = "-" => Magnitude(<<c>>) = 0
<1>1. << >> \in Seq(Numeral)  BY EmptySeq
<1>2. Append(<< >>, c) = <<c>>  OBVIOUS
<1>3. Magnitude(Append(<< >>, c)) = DigitAt(Magnitude(<< >>), c)
  BY <1>1, MagnitudeAppend
<1>4. Magnitude(<<c>>) = DigitAt(0, c)  BY <1>2, <1>3, MagnitudeEmpty
<1>5. c \in Digit => c # "-" /\ Digits[c] \in Nat  BY DigitValues
<1> QED  BY <1>4, <1>5 DEF DigitAt

\* The values of one word more.
LEMMA IntsAppend ==
  ASSUME NEW s \in Texts, AllIntegers(s), NEW w \in Seq(Chars) \ {<< >>}, Prefix(w)
  PROVE  /\ Ints(s) \in Seq(Int)
         /\ Ints(Append(s, w)) = Append(Ints(s), Value(w))
<1> DEFINE S == Seq(Chars) \ {<< >>}  t == Append(s, w)  m == Len(s)
<1>1. s \in Seq(S) /\ w \in S  BY DEF Texts
<1>2. t \in Seq(S) /\ Len(t) = m + 1 /\ t[m + 1] = w /\ \A i \in 1 .. m : t[i] = s[i]
  <2> HIDE DEF S
  <2> QED  BY <1>1, AppendProperties
<1>3. m \in Nat /\ \A i \in 1 .. m : s[i] \in S
  <2> HIDE DEF S
  <2> QED  BY <1>1, LenProperties, ElementOfSeq
<1>4. \A i \in 1 .. m : Value(s[i]) \in Int
  <2> SUFFICES ASSUME NEW i \in 1 .. m PROVE Value(s[i]) \in Int  OBVIOUS
  <2>1. s[i] \in Seq(Chars) \ {<< >>} /\ Prefix(s[i])  BY <1>3 DEF AllIntegers
  <2> QED  BY <2>1, PrefixValue
<1>5. Value(w) \in Int  BY PrefixValue
<1> HIDE DEF t, m, S
<1>6. Ints(s) = [i \in 1 .. m |-> Value(s[i])]  BY DEF Ints, m
<1>7. Ints(s) \in Seq(Int) /\ Len(Ints(s)) = m
      /\ \A i \in 1 .. m : Ints(s)[i] = Value(s[i])
  <2>1. Ints(s) \in [1 .. m -> Int]  BY <1>4, <1>6
  <2> QED  BY <1>3, <1>6, <2>1, SeqDef, LenProperties
<1>8. Ints(t) = [i \in 1 .. m + 1 |-> Value(t[i])]  BY <1>2 DEF Ints
<1>9. \A i \in 1 .. m + 1 : Value(t[i]) \in Int
  <2> SUFFICES ASSUME NEW i \in 1 .. m + 1 PROVE Value(t[i]) \in Int  OBVIOUS
  <2>1. i \in 1 .. m \/ i = m + 1  BY <1>3
  <2> QED  BY <1>2, <1>4, <1>5, <2>1
<1>10. Ints(t) \in Seq(Int) /\ Len(Ints(t)) = m + 1
       /\ \A i \in 1 .. m + 1 : Ints(t)[i] = Value(t[i])
  <2>1. Ints(t) \in [1 .. m + 1 -> Int]  BY <1>8, <1>9
  <2>2. m + 1 \in Nat  BY <1>3
  <2> QED  BY <1>8, <2>1, <2>2, SeqDef, LenProperties
<1> DEFINE u == Append(Ints(s), Value(w))
<1>11. u \in Seq(Int) /\ Len(u) = m + 1 /\ u[m + 1] = Value(w)
       /\ \A i \in 1 .. m : u[i] = Ints(s)[i]
  BY <1>5, <1>7, AppendProperties
<1> HIDE DEF u
<1>12. \A i \in 1 .. m + 1 : Ints(t)[i] = u[i]
  <2> SUFFICES ASSUME NEW i \in 1 .. m + 1 PROVE Ints(t)[i] = u[i]  OBVIOUS
  <2>1. i \in 1 .. m \/ i = m + 1  BY <1>3
  <2>2. CASE i \in 1 .. m  BY <1>2, <1>7, <1>10, <1>11, <2>2
  <2>3. CASE i = m + 1  BY <1>2, <1>10, <1>11, <2>3
  <2> QED  BY <2>1, <2>2, <2>3
<1>13. Ints(t) = u  BY <1>10, <1>11, <1>12, SeqEqual
<1> QED  BY <1>7, <1>13 DEF t, u

-----------------------------------------------------------------------------

\* The words have been stored as clauses cs and the literals c.
Stored(ws, cs, c) == Append(cs, c) = Cut(Ints(ws), {0})

\* Nothing is stored at the beginning.
LEMMA StoredNothing == Stored(<< >>, << >>, << >>)
<1>1. Ints(<< >>) = << >>  BY DEF Ints
<1> QED  BY <1>1, CutEmpty DEF Stored

\* What StoreNumber stores is the number.
LEMMA StoredNext ==
  ASSUME NEW s \in Texts, AllIntegers(s), NEW w \in Seq(Chars) \ {<< >>}, Prefix(w),
         clauses \in Seq(Seq(Int)), clause \in Seq(Int), Stored(s, clauses, clause),
         num = Magnitude(w), neg = (w[1] = "-"), Reader!StoreNumber
  PROVE  /\ clauses' \in Seq(Seq(Int)) /\ clause' \in Seq(Int)
         /\ Stored(Append(s, w), clauses', clause')
<1> DEFINE v == Value(w)
<1>1. v \in Int /\ num \in Nat /\ v = Reader!Literal /\ (v = 0 <=> num = 0)
  <2>1. num \in Nat /\ v = IF w[1] = "-" THEN -num ELSE num  BY PrefixValue
  <2>2. CASE w[1] = "-"
    <3>1. neg = TRUE  BY <2>2
    <3>2. Reader!Literal = -num  BY <3>1 DEF Reader!Literal
    <3> HIDE DEF v
    <3> QED  BY <2>1, <2>2, <3>2
  <2>3. CASE w[1] # "-"
    <3>1. neg = FALSE  BY <2>3
    <3>2. Reader!Literal = num  BY <3>1 DEF Reader!Literal
    <3> HIDE DEF v
    <3> QED  BY <2>1, <2>3, <3>2
  <2> QED  BY <2>2, <2>3
<1> HIDE DEF v
<1>2. Ints(s) \in Seq(Int) /\ Ints(Append(s, w)) = Append(Ints(s), v)
  BY IntsAppend DEF v
<1>3. Cut(Ints(Append(s, w)), {0}) = CutAt(Append(clauses, clause), v, {0})
  <2> DEFINE x == Ints(s)
  <2>1. x \in Seq(Int)  BY <1>2
  <2>2. Cut(x, {0}) = Append(clauses, clause)  BY DEF Stored
  <2>3. Ints(Append(s, w)) = Append(x, v)  BY <1>2
  <2> HIDE DEF x
  <2>4. Cut(Append(x, v), {0}) = CutAt(Cut(x, {0}), v, {0})  BY ONLY <1>1, <2>1, CutAppend
  <2> QED  BY ONLY <2>2, <2>3, <2>4
<1>4. CASE num # 0
  <2>1. clauses' = clauses /\ clause' = Append(clause, v)
    BY <1>1, <1>4 DEF Reader!StoreNumber, Reader!instanceVars
  <2>2. Append(clause, v) \in Seq(Int)  BY <1>1, AppendProperties
  <2> DEFINE t == Append(clauses, clause)  e == Append(clause, v)
  <2>3. CutAt(t, v, {0}) = [t EXCEPT ![Len(t)] = Append(@, v)]  BY <1>1, <1>4 DEF CutAt
  <2>4. t[Len(t)] = clause  BY AppendProperties
  <2>5. [t EXCEPT ![Len(t)] = Append(@, v)] = [t EXCEPT ![Len(t)] = e]  BY <2>4
  <2>6. [t EXCEPT ![Len(t)] = e] = Append(clauses, e)
    <3> HIDE DEF e
    <3>1. e \in Seq(Int)  BY <2>2 DEF e
    <3> QED  BY <3>1, AppendedReplaced
  <2>7. Append(clauses', clause') = CutAt(t, v, {0})  BY <2>1, <2>3, <2>5, <2>6
  <2> QED  BY <1>3, <2>1, <2>2, <2>7 DEF Stored
<1>5. CASE num = 0
  <2>1. clauses' = Append(clauses, clause) /\ clause' = << >>
    BY <1>5 DEF Reader!StoreNumber
  <2>2. clauses' \in Seq(Seq(Int)) /\ clause' \in Seq(Int)
    BY <2>1, AppendProperties, EmptySeq
  <2>3. CutAt(Append(clauses, clause), v, {0}) = Append(clauses', clause')
    BY <1>1, <1>5, <2>1 DEF CutAt
  <2> QED  BY <1>3, <2>2, <2>3 DEF Stored
<1> QED  BY <1>1, <1>4, <1>5

\* The words read so far, whether the last one may go on, and whether this is a comment.
WordsRead == WordsUpTo(file)[pos]
Open == ~Blank(file, pos)
Comment == InComment(file, pos)

\* The places of the loops, if the words read may still become integers.  Between words all of
\* them have been stored.
Between ==
  /\ neg = FALSE /\ Stored(WordsRead, clauses, clause)
  /\ ~Comment /\ (Open => pos = Len(file))

\* After a sign, all words but the sign.
AfterMinus ==
  /\ Open /\ neg = TRUE
  /\ \E s \in Texts, w \in Seq(Chars) \ {<< >>} :
       WordsRead = Append(s, w) /\ Stored(s, clauses, clause) /\ w = <<"-">>

\* In a number, all words but that, and num is its value so far.
InNumber ==
  /\ Open
  /\ \E s \in Texts, w \in Seq(Chars) \ {<< >>} :
       /\ WordsRead = Append(s, w) /\ Stored(s, clauses, clause)
       /\ Ends(w) /\ neg = (w[1] = "-") /\ num = Magnitude(w)

\* In a comment, all words, and no sign is left.
Skipping == Comment /\ neg = FALSE /\ Stored(WordsRead, clauses, clause)

\* At the end all words have been stored, or there is one that is no integer.
AtEnd == Stored(WordsRead, clauses, clause) \/ ~AllIntegers(WordsRead)

\* The loop that reads next is where the words say.
Place ==
  /\ pc = "main" => Between \/ AfterMinus
  /\ pc = "number" => InNumber
  /\ pc = "skip" => Skipping
  /\ pc = "done" => AtEnd

\* The types of what the proof is about.
ReaderTypes ==
  /\ file \in Seq(Chars) /\ pos \in 0 .. Len(file)
  /\ pc \in {"main", "number", "skip", "done"}
  /\ num \in Nat /\ clauses \in Seq(Seq(Int)) /\ clause \in Seq(Int)

\* The inductive invariant: nothing is said once a word can be no integer any more.
ReaderInv ==
  /\ ReaderTypes
  /\ pc = "done" => pos = Len(file)
  /\ Hopeful(WordsRead, Open) => Place

\* gzgetc goes one position on, unless the file has ended.
Moved ==
  /\ ReaderTypes
  /\ file' = file /\ pos' = IF pos < Len(file) THEN pos + 1 ELSE pos

\* The characters that the loops tell apart.
LEMMA Characters ==
  /\ Digit = {"0", "1", "2"} /\ Space = {"space", "newline"}
  /\ Reader!EOF = "EOF" /\ Numeral = {"0", "1", "2", "-"}
  /\ Reader!EOF \notin Chars
  /\ Reader!Digit = Digit /\ Reader!Digits = Digits /\ Reader!Space = Space
BY CharsAssumption
   DEF Digit, Digits, Space, Numeral, Reader!EOF, Reader!Digit, Reader!Digits, Reader!Space

\* What is known of the words and of the next character.
LEMMA NextCharacter ==
  ASSUME Moved
  PROVE  /\ WordsRead \in Texts /\ (Open => WordsRead # << >>)
         /\ WordsRead' \in Texts /\ pos' \in 0 .. Len(file)
         /\ Reader!Char = Reader!EOF => /\ pos = Len(file) /\ pos' = pos
                                        /\ WordsRead' = WordsRead /\ Open' = Open
         /\ Reader!Char # Reader!EOF =>
              /\ pos \in Nat /\ pos' = pos + 1 /\ pos' \in 1 .. Len(file) /\ pos' - 1 = pos
              /\ pos # Len(file)
              /\ Reader!Char = file[pos'] /\ Reader!Char \in Chars
              /\ WordsRead' = WordsAt(WordsRead, file, pos')
              /\ Hopeful(WordsRead', Open') => Hopeful(WordsRead, Open)
<1> DEFINE W == WordsUpTo(file)
<1>1. /\ file \in Seq(Chars) /\ pos \in 0 .. Len(file) /\ Len(file) \in Nat
      /\ file' = file /\ pos' = IF pos < Len(file) THEN pos + 1 ELSE pos
  BY DEF Moved, ReaderTypes
<1>2. pos' \in 0 .. Len(file)  BY <1>1
<1>3. AreWords(W, file)  BY <1>1, WordsAre
<1>4. WordsRead = W[pos] /\ WordsRead' = W[pos']  BY <1>1 DEF WordsRead
<1>5. Open = ~Blank(file, pos) /\ Open' = ~Blank(file, pos')  BY <1>1 DEF Open
<1> HIDE DEF W
<1>6. /\ WordsRead \in Texts /\ (Open => WordsRead # << >>)
      /\ WordsRead' \in Texts
  BY <1>1, <1>2, <1>3, <1>4, <1>5 DEF AreWords
<1>7. CASE pos < Len(file)
  <2>1. pos' = pos + 1 /\ pos \in Nat /\ pos' \in 1 .. Len(file) /\ pos' - 1 = pos
    BY <1>1, <1>7
  <2>2. Reader!Char = file[pos'] /\ file[pos'] \in Chars
    BY <1>1, <1>7, <2>1, ElementOfSeq DEF Reader!Char
  <2>3. Reader!Char # Reader!EOF  BY <2>2, Characters
  <2>4. WordsRead' = WordsAt(WordsRead, file, pos')  BY <1>3, <1>4, <2>1 DEF AreWords
  <2>5. Hopeful(WordsRead', Open') => Hopeful(WordsRead, Open)
    <3> SUFFICES ASSUME Hopeful(WordsRead', Open') PROVE Hopeful(WordsRead, Open)
      OBVIOUS
    <3> DEFINE n == pos'  s == WordsRead
    <3>1. /\ n \in 1 .. Len(file) /\ s \in Texts
          /\ ~Blank(file, n - 1) => s # << >>
          /\ Hopeful(WordsAt(s, file, n), ~Blank(file, n))
      BY <1>5, <1>6, <2>1, <2>4
    <3> HIDE DEF n, s
    <3>2. Hopeful(s, ~Blank(file, n - 1))  BY <1>1, <3>1, HopefulBack
    <3> QED  BY <1>5, <2>1, <3>2 DEF n, s
  <2>6. pos # Len(file)  BY <1>1, <1>7
  <2> QED  BY <1>2, <1>6, <2>1, <2>2, <2>3, <2>4, <2>5, <2>6
<1>8. CASE ~(pos < Len(file))
  <2>1. pos = Len(file) /\ pos' = pos  BY <1>1, <1>8
  <2>2. Reader!Char = Reader!EOF  BY <1>8 DEF Reader!Char
  <2>3. WordsRead' = WordsRead /\ Open' = Open  BY <1>4, <1>5, <2>1
  <2> QED  BY <1>2, <1>6, <2>1, <2>2, <2>3
<1> QED  BY <1>7, <1>8

\* Comments begin with c or p at the beginning of a line, and end with the line.
LEMMA NextComment ==
  ASSUME Moved, Reader!Char # Reader!EOF
  PROVE  /\ Comment' <=> /\ Reader!Char # "newline"
                         /\ Comment \/ (Reader!Char \in {"c", "p"}
                                        /\ (pos = 0 \/ file[pos] = "newline"))
         /\ Open' <=> Reader!Char \notin Space /\ ~Comment'
         /\ Comment => ~Open
         /\ ~Open /\ ~Comment => pos = 0 \/ file[pos] \in Space
         /\ Open => pos # 0 /\ file[pos] # "newline"
<1>1. /\ pos \in Nat /\ pos' = pos + 1 /\ pos' \in 1 .. Len(file) /\ Reader!Char = file[pos']
  BY NextCharacter
<1>2. file' = file  BY DEF Moved
<1>3. Comment' = InComment(file, pos + 1)  BY <1>1, <1>2 DEF Comment
<1>4. InComment(file, pos + 1) <=>
        /\ file[pos + 1] # "newline"
        /\ Comment \/ (file[pos + 1] \in {"c", "p"} /\ (pos = 0 \/ file[pos] = "newline"))
  BY <1>1, CommentStep DEF Comment
<1>5. Open' = ~Blank(file, pos')  BY <1>1, <1>2 DEF Open
<1>6. Comment' = InComment(file, pos')  BY <1>2 DEF Comment
<1>7. pos' # 0  BY <1>1
<1>8. Open' <=> Reader!Char \notin Space /\ ~Comment'
  BY <1>1, <1>5, <1>6, <1>7 DEF Blank
<1>9. /\ Comment => ~Open
      /\ ~Open /\ ~Comment => pos = 0 \/ file[pos] \in Space
      /\ Open => pos # 0 /\ file[pos] # "newline"
  BY DEF Open, Comment, Blank, Space
<1> QED  BY <1>1, <1>3, <1>4, <1>8, <1>9

\* No word goes on.
LEMMA ToBlank ==
  ASSUME Moved, Reader!Char # Reader!EOF, ~Open'
  PROVE  WordsRead' = WordsRead
<1>1. WordsRead' = WordsAt(WordsRead, file, pos')  BY NextCharacter
<1>2. file' = file  BY DEF Moved
<1>3. Blank(file, pos')  BY <1>2 DEF Open
<1> QED  BY <1>1, <1>3 DEF WordsAt

\* A word begins.
LEMMA ToNewWord ==
  ASSUME Moved, Reader!Char # Reader!EOF, Open', ~Open
  PROVE  WordsRead' = Append(WordsRead, <<Reader!Char>>)
         /\ <<Reader!Char>> \in Seq(Chars) \ {<< >>}
         /\ (Hopeful(WordsRead', Open') =>
               AllIntegers(WordsRead) /\ Prefix(<<Reader!Char>>) /\ Reader!Char \in Numeral)
<1>1. /\ WordsRead' = WordsAt(WordsRead, file, pos') /\ pos' - 1 = pos
      /\ Reader!Char = file[pos'] /\ Reader!Char \in Chars /\ WordsRead \in Texts
  BY NextCharacter
<1>2. file' = file  BY DEF Moved
<1>3. ~Blank(file, pos') /\ Blank(file, pos' - 1)  BY <1>1, <1>2 DEF Open
<1>4. WordsRead' = Append(WordsRead, <<Reader!Char>>)  BY <1>1, <1>3 DEF WordsAt
<1> DEFINE w == <<Reader!Char>>
<1>5. w \in Seq(Chars) \ {<< >>} /\ Len(w) = 1 /\ w[1] = Reader!Char  BY <1>1
<1>6. Prefix(w) => Reader!Char \in Numeral
  <2>1. 1 \in 1 .. Len(w)  BY <1>5
  <2> HIDE DEF w
  <2> QED  BY <1>5, <2>1 DEF Prefix, Numeral
<1> HIDE DEF w
<1>7. Hopeful(Append(WordsRead, w), Open') => AllIntegers(WordsRead) /\ Prefix(w)
  BY <1>1, <1>5, HopefulLast
<1> QED  BY <1>4, <1>5, <1>6, <1>7 DEF w

\* A word goes on.
LEMMA ToLongerWord ==
  ASSUME Moved, Reader!Char # Reader!EOF, Open', Open,
         NEW s \in Texts, NEW w \in Seq(Chars) \ {<< >>}, WordsRead = Append(s, w)
  PROVE  /\ WordsRead' = Append(s, Append(w, Reader!Char))
         /\ Append(w, Reader!Char) \in Seq(Chars) \ {<< >>}
         /\ Reader!Char \in Chars
         /\ Hopeful(WordsRead', Open') =>
              /\ AllIntegers(s) /\ Prefix(w) /\ Prefix(Append(w, Reader!Char))
              /\ Reader!Char \in Digit
<1>1. /\ WordsRead' = WordsAt(WordsRead, file, pos') /\ pos' - 1 = pos
      /\ Reader!Char = file[pos'] /\ Reader!Char \in Chars
  BY NextCharacter
<1>2. file' = file  BY DEF Moved
<1>3. ~Blank(file, pos') /\ ~Blank(file, pos' - 1)  BY <1>1, <1>2 DEF Open
<1> DEFINE n == pos'  e == Append(w, file[n])
<1>4. e \in Seq(Chars) \ {<< >>} /\ WordsAt(Append(s, w), file, n) = Append(s, e)
  <2>1. file[n] \in Chars /\ ~Blank(file, n) /\ ~Blank(file, n - 1)
    BY <1>1, <1>3
  <2> HIDE DEF n
  <2> QED  BY <2>1, WordGrows
<1>5. WordsRead' = Append(s, e)  BY <1>1, <1>4
<1>6. Prefix(e) <=> Prefix(w) /\ (file[n] \in Digit \/ (w = << >> /\ file[n] = "-"))
  <2>1. file[n] \in Chars  BY <1>1
  <2> HIDE DEF n
  <2> QED  BY <2>1, PrefixGrows
<1>7. e = Append(w, Reader!Char) /\ file[n] = Reader!Char  BY <1>1
<1> HIDE DEF e, n
<1>8. Hopeful(Append(s, e), Open') => AllIntegers(s) /\ Prefix(e)  BY <1>4, HopefulLast
<1> QED  BY <1>1, <1>4, <1>5, <1>6, <1>7, <1>8

\* A sign alone is no integer.
LEMMA OnlySign ==
  /\ Prefix(<<"-">>) /\ ~Ends(<<"-">>)
<1> DEFINE w == <<"-">>
<1>1. Len(w) = 1 /\ w[1] = "-"  OBVIOUS
<1>2. "-" \notin Digit  BY Characters
<1>3. \A i \in 1 .. 1 : i = 1  OBVIOUS
<1> HIDE DEF w
<1> QED  BY <1>1, <1>2, <1>3 DEF Prefix, Ends, w

\* Each step is one of gzgetc, or the last.
LEMMA StepMoves ==
  ASSUME ReaderTypes, NEW from, NEW to, Reader!Read(from, to)
  PROVE  Moved /\ pc = from /\ pc' = to
BY DEF Reader!Read, Moved

\* The types stay if the numbers stored are.
LEMMA TypesStay ==
  ASSUME Moved, pc' \in {"main", "number", "skip", "done"},
         num' \in Nat, clauses' \in Seq(Seq(Int)), clause' \in Seq(Int)
  PROVE  ReaderTypes'
<1>1. file' = file /\ file \in Seq(Chars) /\ pos' \in 0 .. Len(file)
  BY NextCharacter DEF Moved, ReaderTypes
<1> QED  BY <1>1 DEF ReaderTypes

\* EndOfFile: a sign that nothing follows is no integer, else all words have been stored.
LEMMA EndOfFileReads ==
  ASSUME ReaderInv, Reader!EndOfFile
  PROVE  ReaderInv'
<1>1. Moved /\ pc = "main" /\ pc' = "done" /\ Reader!Char = Reader!EOF
  BY StepMoves DEF Reader!EndOfFile, ReaderInv
<1>2. UNCHANGED <<num, neg, clause, clauses>>
  BY DEF Reader!EndOfFile, Reader!instanceVars
<1>3. ReaderTypes'  BY <1>1, <1>2, TypesStay DEF ReaderInv, ReaderTypes
<1>4. file' = file /\ pos = Len(file) /\ pos' = pos /\ WordsRead' = WordsRead /\ Open' = Open
      /\ WordsRead \in Texts
  BY <1>1, NextCharacter DEF Moved
<1>5. ASSUME Hopeful(WordsRead', Open') PROVE AtEnd'
  <2>1. Between \/ AfterMinus  BY <1>1, <1>4, <1>5 DEF ReaderInv, Place
  <2>2. CASE Between  BY <1>2, <1>4, <2>2 DEF Between, AtEnd
  <2>3. CASE AfterMinus
    <3>1. PICK s \in Texts, w \in Seq(Chars) \ {<< >>} : WordsRead = Append(s, w) /\ w = <<"-">>
      BY <2>3 DEF AfterMinus
    <3>2. ~AllIntegers(WordsRead)  BY <3>1, OnlySign, HopefulLast
    <3> QED  BY <1>4, <3>2 DEF AtEnd
  <2> QED  BY <2>1, <2>2, <2>3
<1> QED  BY <1>1, <1>3, <1>4, <1>5 DEF ReaderInv, Place

\* BeginLine: c or p is at the beginning of a line, or in a word that is no integer.
LEMMA BeginLineReads ==
  ASSUME ReaderInv, Reader!BeginLine
  PROVE  ReaderInv'
<1>1. Moved /\ pc = "main" /\ pc' = "skip" /\ Reader!Char \in {"c", "p"}
  BY StepMoves DEF Reader!BeginLine, ReaderInv
<1>2. UNCHANGED <<num, neg, clause, clauses>>
  BY DEF Reader!BeginLine, Reader!instanceVars
<1>3. ReaderTypes'  BY <1>1, <1>2, TypesStay DEF ReaderInv, ReaderTypes
<1>4. Reader!Char # Reader!EOF /\ Reader!Char \notin Space \cup Numeral
  BY <1>1, Characters
<1>5. Numeral = Digit \cup {"-"}  BY DEF Numeral
<1>6. ASSUME Hopeful(WordsRead', Open') PROVE Skipping'
  <2>1. Between \/ AfterMinus  BY <1>1, <1>4, <1>6, NextCharacter DEF ReaderInv, Place
  <2>2. CASE Between
    <3>1. ~Open  BY <1>1, <1>4, <2>2, NextCharacter DEF Between
    <3>2. ~Open'  BY <1>1, <1>4, <1>6, <3>1, ToNewWord
    <3>3. Comment'  BY <1>1, <1>4, <3>2, NextComment
    <3> QED  BY <1>1, <1>2, <1>4, <2>2, <3>2, <3>3, ToBlank DEF Between, Skipping
  <2>3. CASE AfterMinus
    <3>1. PICK s \in Texts, w \in Seq(Chars) \ {<< >>} : WordsRead = Append(s, w)
      BY <2>3 DEF AfterMinus
    <3>2. Open  BY <2>3 DEF AfterMinus
    <3>3. Open'  BY <1>1, <1>4, <3>2, NextComment
    <3> QED  BY <1>1, <1>4, <1>5, <1>6, <3>1, <3>2, <3>3, ToLongerWord
  <2> QED  BY <2>1, <2>2, <2>3
<1> QED  BY <1>1, <1>3, <1>6 DEF ReaderInv, Place

\* SkipLine: the comment goes on, or a new line begins.
LEMMA SkipLineReads ==
  ASSUME ReaderInv, Reader!SkipLine
  PROVE  ReaderInv'
<1>1. /\ Moved /\ pc = "skip"
      /\ pc' = IF Reader!Char = "newline" THEN "main" ELSE "skip"
  BY StepMoves DEF Reader!SkipLine, ReaderInv
<1>2. UNCHANGED <<num, neg, clause, clauses>>
  BY DEF Reader!SkipLine, Reader!instanceVars
<1>3. ReaderTypes'  BY <1>1, <1>2, TypesStay DEF ReaderInv, ReaderTypes
<1>4. CASE Reader!Char = Reader!EOF
  <2>1. /\ pos = Len(file) /\ pos' = pos /\ WordsRead' = WordsRead /\ Open' = Open
        /\ file' = file /\ pc' = "skip"
    BY <1>1, <1>4, NextCharacter, Characters DEF Moved
  <2>2. Comment' = Comment  BY <2>1 DEF Comment
  <2>3. Skipping => Skipping'  BY <1>2, <2>1, <2>2 DEF Skipping
  <2> QED  BY <1>1, <1>3, <2>1, <2>3 DEF ReaderInv, Place
<1>5. CASE Reader!Char # Reader!EOF
  <2> SUFFICES ASSUME Hopeful(WordsRead', Open') PROVE Place'
    BY <1>1, <1>3 DEF ReaderInv
  <2>1. Skipping  BY <1>1, <1>5, NextCharacter DEF ReaderInv, Place
  <2>2. ~Open'  BY <1>1, <1>5, <2>1, NextComment, Characters DEF Skipping
  <2>3. WordsRead' = WordsRead  BY <1>1, <1>5, <2>2, ToBlank
  <2>4. Comment' <=> Reader!Char # "newline"  BY <1>1, <1>5, <2>1, NextComment DEF Skipping
  <2>5. CASE Reader!Char = "newline"
    BY <1>1, <1>2, <2>1, <2>2, <2>3, <2>4, <2>5 DEF Place, Between, Skipping
  <2>6. CASE Reader!Char # "newline"
    BY <1>1, <1>2, <2>1, <2>3, <2>4, <2>6 DEF Place, Skipping
  <2> QED  BY <2>5, <2>6
<1> QED  BY <1>4, <1>5

\* Minus: a word begins with a sign, or a second sign makes it no integer.
LEMMA MinusReads ==
  ASSUME ReaderInv, Reader!Minus
  PROVE  ReaderInv'
<1>1. Moved /\ pc = "main" /\ pc' = "main" /\ Reader!Char = "-"
  BY StepMoves DEF Reader!Minus, ReaderInv
<1>2. neg' = TRUE /\ UNCHANGED <<num, clause, clauses>>
  BY DEF Reader!Minus, Reader!instanceVars
<1>3. ReaderTypes'  BY <1>1, <1>2, TypesStay DEF ReaderInv, ReaderTypes
<1>4. Reader!Char # Reader!EOF /\ Reader!Char \notin Space \cup Digit
  BY <1>1, Characters
<1>5. ASSUME Hopeful(WordsRead', Open') PROVE AfterMinus'
  <2>1. Between \/ AfterMinus  BY <1>1, <1>4, <1>5, NextCharacter DEF ReaderInv, Place
  <2>2. ~Comment  BY <1>1, <1>4, <2>1, NextComment DEF Between, AfterMinus
  <2>3. Open'  BY <1>1, <1>4, <2>2, NextComment
  <2>4. CASE Between
    <3>1. ~Open  BY <1>1, <1>4, <2>4, NextCharacter DEF Between
    <3>2. /\ WordsRead' = Append(WordsRead, <<Reader!Char>>)
          /\ <<Reader!Char>> \in Seq(Chars) \ {<< >>} /\ WordsRead \in Texts
      BY <1>1, <1>4, <2>3, <3>1, ToNewWord, NextCharacter
    <3>3. Stored(WordsRead, clauses', clause')  BY <1>2, <2>4 DEF Between
    <3> QED  BY <1>1, <1>2, <2>3, <3>2, <3>3 DEF AfterMinus
  <2>5. CASE AfterMinus
    <3>1. PICK s \in Texts, w \in Seq(Chars) \ {<< >>} : WordsRead = Append(s, w)
      BY <2>5 DEF AfterMinus
    <3>2. Open  BY <2>5 DEF AfterMinus
    <3> QED  BY <1>1, <1>4, <1>5, <2>3, <3>1, <3>2, ToLongerWord
  <2> QED  BY <2>1, <2>4, <2>5
<1> QED  BY <1>1, <1>3, <1>5 DEF ReaderInv, Place

\* Ignore: white space between words, or a character that is in no integer.
LEMMA IgnoreReads ==
  ASSUME ReaderInv, Reader!Ignore
  PROVE  ReaderInv'
<1>1. /\ Moved /\ pc = "main" /\ pc' = "main"
      /\ Reader!Char \notin Digit \cup {"c", "p", "-", Reader!EOF}
  BY Characters, StepMoves DEF Reader!Ignore, ReaderInv
<1>2. UNCHANGED <<num, neg, clause, clauses>>
  BY DEF Reader!Ignore, Reader!instanceVars
<1>3. ReaderTypes'  BY <1>1, <1>2, TypesStay DEF ReaderInv, ReaderTypes
<1>4. Reader!Char # Reader!EOF /\ Reader!Char \notin Numeral  BY <1>1 DEF Numeral
<1>5. ASSUME Hopeful(WordsRead', Open') PROVE Between'
  <2>1. Between \/ AfterMinus  BY <1>1, <1>4, <1>5, NextCharacter DEF ReaderInv, Place
  <2>2. CASE Between
    <3>1. ~Open  BY <1>1, <1>4, <2>2, NextCharacter DEF Between
    <3>2. ~Open'  BY <1>1, <1>4, <1>5, <3>1, ToNewWord
    <3>3. WordsRead' = WordsRead  BY <1>1, <1>4, <3>2, ToBlank
    <3>4. ~Comment'  BY <1>1, <1>4, <2>2, NextComment DEF Between
    <3> QED  BY <1>2, <2>2, <3>2, <3>3, <3>4 DEF Between
  <2>3. CASE AfterMinus
    <3>1. PICK s \in Texts, w \in Seq(Chars) \ {<< >>} : WordsRead = Append(s, w) /\ w = <<"-">>
      BY <2>3 DEF AfterMinus
    <3>2. Open  BY <2>3 DEF AfterMinus
    <3>3. CASE Open'  BY <1>1, <1>4, <1>5, <3>1, <3>2, <3>3, ToLongerWord
    <3>4. CASE ~Open'
      <4>1. WordsRead' = Append(s, w)  BY <1>1, <1>4, <3>1, <3>4, ToBlank
      <4>2. Ends(w)  BY <1>5, <3>4, <4>1, HopefulLast
      <4> QED  BY <3>1, <4>2, OnlySign
    <3> QED  BY <3>3, <3>4
  <2> QED  BY <2>1, <2>2, <2>3
<1> QED  BY <1>1, <1>3, <1>5 DEF ReaderInv, Place

\* BeginNumber: a word begins with a digit, or the sign is followed by one.
LEMMA BeginNumberReads ==
  ASSUME ReaderInv, Reader!BeginNumber
  PROVE  ReaderInv'
<1>1. Moved /\ pc = "main" /\ pc' = "number" /\ Reader!Char \in Digit
  BY Characters, StepMoves DEF Reader!BeginNumber, ReaderInv
<1>2. num' = Digits[Reader!Char] /\ UNCHANGED <<neg, clause, clauses>>
  BY Characters DEF Reader!BeginNumber, Reader!instanceVars
<1>3. num' \in Nat  BY <1>1, <1>2, DigitValues
<1>4. ReaderTypes'  BY <1>1, <1>2, <1>3, TypesStay DEF ReaderInv, ReaderTypes
<1>5. /\ Reader!Char # Reader!EOF /\ Reader!Char \notin Space \cup {"c", "p"}
      /\ Reader!Char \in Numeral /\ Reader!Char # "-"
  BY <1>1, Characters
<1>6. ASSUME Hopeful(WordsRead', Open') PROVE InNumber'
  <2>1. Between \/ AfterMinus  BY <1>1, <1>5, <1>6, NextCharacter DEF ReaderInv, Place
  <2>2. ~Comment  BY <1>1, <1>5, <2>1, NextComment DEF Between, AfterMinus
  <2>3. Open'  BY <1>1, <1>5, <2>2, NextComment
  <2>4. CASE Between
    <3> DEFINE w == <<Reader!Char>>
    <3>1. ~Open  BY <1>1, <1>5, <2>4, NextCharacter DEF Between
    <3>2. /\ WordsRead' = Append(WordsRead, w)
          /\ w \in Seq(Chars) \ {<< >>} /\ WordsRead \in Texts
      BY <1>1, <1>5, <2>3, <3>1, ToNewWord, NextCharacter
    <3>3. Stored(WordsRead, clauses', clause') /\ neg' = FALSE  BY <1>2, <2>4 DEF Between
    <3>4. w[1] = Reader!Char /\ num' = Magnitude(w)  BY <1>1, <1>2, <1>5, ValueBegins
    <3>5. Ends(w)
      <4>1. Len(w) = 1 /\ w[1] = Reader!Char  OBVIOUS
      <4> HIDE DEF w
      <4> QED  BY <1>1, <4>1 DEF Ends
    <3>6. neg' = (w[1] = "-")  BY <1>5, <3>3, <3>4
    <3> HIDE DEF w
    <3> QED  BY <2>3, <3>2, <3>3, <3>4, <3>5, <3>6 DEF InNumber
  <2>5. CASE AfterMinus
    <3>1. PICK s \in Texts, w \in Seq(Chars) \ {<< >>} :
            WordsRead = Append(s, w) /\ Stored(s, clauses, clause) /\ w = <<"-">>
      BY <2>5 DEF AfterMinus
    <3>2. Open /\ neg = TRUE  BY <2>5 DEF AfterMinus
    <3> DEFINE e == Append(w, Reader!Char)
    <3>3. /\ WordsRead' = Append(s, e) /\ e \in Seq(Chars) \ {<< >>} /\ Reader!Char \in Chars
          /\ Prefix(w)
      BY <1>1, <1>5, <1>6, <2>3, <3>1, <3>2, ToLongerWord
    <3>4. Ends(e)  BY <1>1, <3>3, PrefixGrows
    <3>5. "-" \in Numeral /\ w[1] = "-" /\ Magnitude(w) = 0
      BY <3>1, ValueBegins, Characters
    <3>6. e[1] = w[1] /\ Magnitude(e) = 10 * Magnitude(w) + Digits[Reader!Char]
      BY <1>1, <3>3, ValueGrows
    <3>7. Stored(s, clauses', clause') /\ neg' = TRUE  BY <1>2, <3>1, <3>2
    <3> HIDE DEF e
    <3>8. num' = Magnitude(e)  BY <1>2, <1>3, <3>5, <3>6
    <3>9. neg' = (e[1] = "-")  BY <3>5, <3>6, <3>7
    <3> QED  BY <2>3, <3>3, <3>4, <3>7, <3>8, <3>9 DEF InNumber
  <2> QED  BY <2>1, <2>4, <2>5
<1> QED  BY <1>1, <1>4, <1>6 DEF ReaderInv, Place

\* NextDigit: the word goes on and so does its value.
LEMMA NextDigitReads ==
  ASSUME ReaderInv, Reader!NextDigit
  PROVE  ReaderInv'
<1>1. Moved /\ pc = "number" /\ pc' = "number" /\ Reader!Char \in Digit
  BY Characters, StepMoves DEF Reader!NextDigit, ReaderInv
<1>2. num' = 10 * num + Digits[Reader!Char] /\ UNCHANGED <<neg, clause, clauses>>
  BY Characters DEF Reader!NextDigit, Reader!instanceVars
<1>3. num' \in Nat
  <2>1. Digits[Reader!Char] \in Nat /\ num \in Nat
    BY <1>1, DigitValues DEF ReaderInv, ReaderTypes
  <2> QED  BY <1>2, <2>1
<1>4. ReaderTypes'  BY <1>1, <1>2, <1>3, TypesStay DEF ReaderInv, ReaderTypes
<1>5. Reader!Char # Reader!EOF /\ Reader!Char \notin Space \cup {"c", "p"}
  BY <1>1, Characters
<1>6. ASSUME Hopeful(WordsRead', Open') PROVE InNumber'
  <2>1. InNumber  BY <1>1, <1>5, <1>6, NextCharacter DEF ReaderInv, Place
  <2>2. PICK s \in Texts, w \in Seq(Chars) \ {<< >>} :
          /\ WordsRead = Append(s, w) /\ Stored(s, clauses, clause)
          /\ neg = (w[1] = "-") /\ num = Magnitude(w)
    BY <2>1 DEF InNumber
  <2>3. Open  BY <2>1 DEF InNumber
  <2>4. Open'  BY <1>1, <1>5, <2>3, NextComment
  <2> DEFINE e == Append(w, Reader!Char)
  <2>5. /\ WordsRead' = Append(s, e) /\ e \in Seq(Chars) \ {<< >>} /\ Reader!Char \in Chars
        /\ Prefix(w)
    BY <1>1, <1>5, <1>6, <2>2, <2>3, <2>4, ToLongerWord
  <2>6. Ends(e)  BY <1>1, <2>5, PrefixGrows
  <2>7. e[1] = w[1] /\ Magnitude(e) = 10 * Magnitude(w) + Digits[Reader!Char]
    BY <1>1, <2>5, ValueGrows
  <2> HIDE DEF e
  <2>8. num' = Magnitude(e)  BY <1>2, <2>2, <2>7
  <2>9. neg' = (e[1] = "-") /\ Stored(s, clauses', clause')  BY <1>2, <2>2, <2>7
  <2> QED  BY <2>4, <2>5, <2>6, <2>8, <2>9 DEF InNumber
<1> QED  BY <1>1, <1>4, <1>6 DEF ReaderInv, Place

\* Whatever the number is, what is stored has its type.
LEMMA StoreTypes ==
  ASSUME num \in Nat, clauses \in Seq(Seq(Int)), clause \in Seq(Int), Reader!StoreNumber
  PROVE  clauses' \in Seq(Seq(Int)) /\ clause' \in Seq(Int)
<1>1. CASE num # 0
  <2>1. Reader!Literal \in Int  BY DEF Reader!Literal
  <2>2. clauses' = clauses /\ clause' = Append(clause, Reader!Literal)
    BY <1>1 DEF Reader!StoreNumber, Reader!instanceVars
  <2> QED  BY <2>1, <2>2, AppendProperties
<1>2. CASE num = 0
  <2>1. clauses' = Append(clauses, clause) /\ clause' = << >>
    BY <1>2 DEF Reader!StoreNumber
  <2> QED  BY <2>1, AppendProperties, EmptySeq
<1> QED  BY <1>1, <1>2

\* EndNumber: the word has ended and is stored, whatever the character that is lost: white space,
\* or one that makes the word no integer.
LEMMA EndNumberReads ==
  ASSUME ReaderInv, Reader!EndNumber
  PROVE  ReaderInv'
<1>1. Moved /\ pc = "number" /\ pc' = "main" /\ Reader!Char \notin Digit
  BY Characters, StepMoves DEF Reader!EndNumber, ReaderInv
<1>2. neg' = FALSE /\ num' = num /\ Reader!StoreNumber  BY DEF Reader!EndNumber
<1>3. num \in Nat /\ clauses \in Seq(Seq(Int)) /\ clause \in Seq(Int)
  BY DEF ReaderInv, ReaderTypes
<1>4. ReaderTypes'  BY <1>1, <1>2, <1>3, StoreTypes, TypesStay
<1>5. ASSUME Hopeful(WordsRead', Open') PROVE Between'
  <2>1. InNumber
    <3>1. CASE Reader!Char = Reader!EOF
      <4>1. Hopeful(WordsRead, Open)  BY <1>1, <1>5, <3>1, NextCharacter
      <4> QED  BY <1>1, <4>1 DEF ReaderInv, Place
    <3>2. CASE Reader!Char # Reader!EOF
      <4>1. Hopeful(WordsRead, Open)  BY <1>1, <1>5, <3>2, NextCharacter
      <4> QED  BY <1>1, <4>1 DEF ReaderInv, Place
    <3> QED  BY <3>1, <3>2
  <2>2. PICK s \in Texts, w \in Seq(Chars) \ {<< >>} :
          /\ WordsRead = Append(s, w) /\ Stored(s, clauses, clause)
          /\ neg = (w[1] = "-") /\ num = Magnitude(w)
    BY <2>1 DEF InNumber
  <2>3. Open  BY <2>1 DEF InNumber
  <2>4. Reader!Char # Reader!EOF => ~Open'
    BY <1>1, <1>5, <2>2, <2>3, ToLongerWord
  <2>5. WordsRead' = Append(s, w)
    <3>1. CASE Reader!Char = Reader!EOF  BY <1>1, <2>2, <3>1, NextCharacter
    <3>2. CASE Reader!Char # Reader!EOF  BY <1>1, <2>2, <2>4, <3>2, ToBlank
    <3> QED  BY <3>1, <3>2
  <2>6. AllIntegers(s) /\ Prefix(w)  BY <1>5, <2>5, HopefulLast
  <2>7. Stored(WordsRead', clauses', clause')
    BY <1>2, <1>3, <2>2, <2>5, <2>6, StoredNext
  <2>8. ~Comment' /\ (Open' => pos' = Len(file'))
    <3>1. file' = file  BY <1>1 DEF Moved
    <3>2. CASE Reader!Char = Reader!EOF
      <4>1. pos' = pos /\ pos = Len(file)  BY <1>1, <3>2, NextCharacter
      <4>2. ~Comment  BY <2>3 DEF Open, Comment, Blank
      <4>3. Comment' = Comment  BY <3>1, <4>1 DEF Comment
      <4> QED  BY <3>1, <4>1, <4>2, <4>3
    <3>3. CASE Reader!Char # Reader!EOF
      <4>1. ~Comment /\ pos # 0 /\ file[pos] # "newline"  BY <1>1, <2>3, <3>3, NextComment
      <4>2. ~Comment'  BY <1>1, <3>3, <4>1, NextComment
      <4> QED  BY <2>4, <3>3, <4>2
    <3> QED  BY <3>2, <3>3
  <2> QED  BY <1>2, <2>7, <2>8 DEF Between
<1> QED  BY <1>1, <1>4, <1>5 DEF ReaderInv, Place

\* Nothing has been read, and nothing stored.
LEMMA ReaderInit ==
  ASSUME Reader!Init
  PROVE  ReaderInv
<1>1. /\ file \in UNION {[1 .. n -> Chars] : n \in 0 .. MaxLen}
      /\ pos = 0 /\ pc = "main" /\ num = 0 /\ neg = FALSE /\ clause = << >> /\ clauses = << >>
  BY DEF Reader!Init
<1>2. file \in Seq(Chars)
  <2>1. PICK n \in 0 .. MaxLen : file \in [1 .. n -> Chars]  BY <1>1
  <2>2. n \in Nat  OBVIOUS
  <2> QED  BY <2>1, <2>2, SeqDef
<1>3. ReaderTypes
  <2>1. clauses \in Seq(Seq(Int)) /\ clause \in Seq(Int)  BY <1>1, EmptySeq
  <2>2. Len(file) \in Nat  BY <1>2, LenProperties
  <2> QED  BY <1>1, <1>2, <2>1, <2>2 DEF ReaderTypes
<1>4. WordsRead = << >>  BY <1>1, <1>2, WordsAre DEF AreWords, WordsRead
<1>5. ~Open /\ ~Comment
  <2>1. \A b \in 1 .. 0 : FALSE  OBVIOUS
  <2> QED  BY <1>1, <2>1 DEF Open, Comment, Blank, InComment
<1>6. Between  BY <1>1, <1>4, <1>5, StoredNothing DEF Between
<1> QED  BY <1>1, <1>3, <1>6 DEF ReaderInv, Place

\* Each action keeps the invariant.
LEMMA ReaderStep ==
  ASSUME ReaderInv, [Reader!Next]_Reader!vars
  PROVE  ReaderInv'
<1>1. CASE Reader!EndOfFile  BY <1>1, EndOfFileReads
<1>2. CASE Reader!BeginLine  BY <1>2, BeginLineReads
<1>3. CASE Reader!SkipLine  BY <1>3, SkipLineReads
<1>4. CASE Reader!Minus  BY <1>4, MinusReads
<1>5. CASE Reader!Ignore  BY <1>5, IgnoreReads
<1>6. CASE Reader!BeginNumber  BY <1>6, BeginNumberReads
<1>7. CASE Reader!NextDigit  BY <1>7, NextDigitReads
<1>8. CASE Reader!EndNumber  BY <1>8, EndNumberReads
<1>9. CASE Reader!Terminated \/ UNCHANGED Reader!vars
  <2>1. UNCHANGED <<file, pos, pc, num, neg, clause, clauses>>
    BY <1>9 DEF Reader!Terminated, Reader!vars, Reader!instanceVars
  <2>2. WordsRead' = WordsRead /\ Open' = Open /\ Comment' = Comment
    BY <2>1 DEF WordsRead, Open, Comment
  <2>3. (Between' <=> Between) /\ (AtEnd' <=> AtEnd) /\ (Skipping' <=> Skipping)
    BY <2>1, <2>2 DEF Between, AtEnd, Skipping
  <2>4. (AfterMinus' <=> AfterMinus) /\ (InNumber' <=> InNumber)
    BY <2>1, <2>2 DEF AfterMinus, InNumber
  <2>5. ReaderTypes'  BY <2>1 DEF ReaderInv, ReaderTypes
  <2> QED  BY <2>1, <2>2, <2>3, <2>4, <2>5 DEF ReaderInv, Place
<1> QED
  BY <1>1, <1>2, <1>3, <1>4, <1>5, <1>6, <1>7, <1>8, <1>9 DEF Reader!Next

\* At the end, the words of a well-formed file have been stored.
LEMMA ReaderEnds ==
  ASSUME ReaderInv
  PROVE  ReadsFormula
<1> SUFFICES ASSUME pc = "done", WellFormed(file)
             PROVE  Append(clauses, clause) = ClausesAndRest(file)
  BY DEF ReadsFormula
<1> DEFINE W == WordsUpTo(file)  ws == W[Len(file)]
<1>1. file \in Seq(Chars) /\ Len(file) \in 0 .. Len(file)
  BY LenProperties DEF ReaderInv, ReaderTypes
<1>2. ws = Words(file)  BY DEF Words
<1>3. ws \in Texts
  <2>1. AreWords(W, file)  BY <1>1, WordsAre
  <2> HIDE DEF W
  <2> QED  BY <1>1, <2>1 DEF AreWords
<1> HIDE DEF ws, W
<1>4. AllIntegers(ws)
  <2> SUFFICES ASSUME NEW i \in 1 .. Len(ws) PROVE Prefix(ws[i]) /\ Ends(ws[i])
    BY DEF AllIntegers
  <2>1. IsInteger(ws[i])  BY <1>2 DEF WellFormed
  <2> QED  BY <2>1 DEF IsInteger, Prefix, Ends
<1>5. pos = Len(file)  BY DEF ReaderInv
<1>6. WordsRead = ws  BY <1>5 DEF WordsRead, ws, W
<1>7. Hopeful(WordsRead, Open)  BY <1>4, <1>6 DEF AllIntegers, Hopeful
<1>8. Stored(ws, clauses, clause)  BY <1>4, <1>6, <1>7 DEF ReaderInv, Place, AtEnd
<1> QED  BY <1>2, <1>8 DEF Stored, Ints, ClausesAndRest

\* ReaderInv is inductive: the words read so far, as long as they may still become integers,
\* have been stored, but for the one in work.
THEOREM ReaderInvariant ==
  Reader!Spec => []ReaderInv
<1>1. Reader!Init => ReaderInv  BY ReaderInit
<1>2. ReaderInv /\ [Reader!Next]_Reader!vars => ReaderInv'  BY ReaderStep
<1> QED  BY <1>1, <1>2, PTL DEF Reader!Spec

\* The reader stores the clauses that a well-formed file says, for files of any length
\* with comments, line breaks and spaces anywhere (Instance::loadFormula).
THEOREM FormulaIsRead ==
  Reader!Spec => []ReadsFormula
<1>1. ReaderInv => ReadsFormula  BY ReaderEnds
<1> QED  BY <1>1, ReaderInvariant, PTL
===============================================================================
