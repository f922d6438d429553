# TLA+ specifications of DPS

DPS is a deterministic parallel SAT solver: several threads run a sequential
base solver (MiniSat, Glucose, MapleCOMSPS or Kissat) on the same formula and
exchange learnt clauses. Its promise is *reproducibility*: in deterministic
mode two runs with the same options make the same searches and give the same
answer by the same thread, however the threads are scheduled. It keeps that
promise without a strict barrier, by *delayed clause exchange*: each search is
cut into periods of equally many memory accesses, and what a thread imports at
the end of period `p` are the clauses the others exported up to period
`p - margin`.

This directory holds a TLA+ model of that protocol and of the sequential solvers
it connects, TLC configurations that check them on small instances, and TLAPS
proofs of the main properties: of the protocol, its determinism among them, for every
number of threads, every margin and every choice of the searches; of the searches,
that what they learn, export and answer is right, and of the simplifications between
them, that what they keep and export follows from the formula, for every formula, every
number of variables and whatever clauses arrive.

## 1. The system

Paths are relative to `src/DPS-src/` unless they say otherwise.

| Component | State | Operations | Interaction |
|---|---|---|---|
| **Worker threads**, `solvers/AbstDetSeqSolver` | `periods`, `num_mem_accesses`, `mem_acc_lim`, `next_mem_acc_lim`, imported clauses not yet applied, export buffer | `checkPeriod` = export, complete the set, import, enter the next period, ask whether to stop; `completeCurrPeriod`; `shouldApplyImportedClauses` | called back by the search of the base solver; reads the queues of all other threads, writes its own |
| **Sets and queues**, `period/PrdClauses`, `PrdClausesQueue`, `PrdClausesQueueMgr` | per thread a deque of sets; per set the clauses, `completed`, `prd_len`, `num_exported_threads`; per queue `next_period[]` | `addClause`, `completeAddtion`, `get`, `waitAdditionCompleted`, `isAdditionCompleted`, `completeExportation` | read-write lock per queue, mutex and condition variable per set |
| **Sharer**, `parallel/Sharer` | `sol_found`, `final_result`, `winner_period`, `winner_id`, `num_live_threads` | `IFinished`, `shouldBeTerminated`, `inc/decNumLiveThreads` | one mutex; called by every worker |
| **Wrappers**, `solvers/*Wrapper`, `DPS_C_API` | the base solver | `solve`: run the search, report, complete the current period, signal | call `Sharer` and the worker |
| **Hooks in the base solvers**, `../minisat`, `../glucose`, `../mcomsps`, `../kissat` (`dps_api.c`) | count of memory accesses; in Kissat a sticky "terminated" flag | call `checkPeriod` between propagations; leave the search when told to | call back the wrapper |
| **Search**, `core/Solver.cc` of `../minisat`, `../glucose`, `../mcomsps`; `../kissat` | clauses and watch lists, trail with levels and reasons, queue of propagation | `addClause_`, `propagate`, `analyze`, restart, `simplify`, `reduceDB`, `applyImportedClause`; in Kissat also shrinking, strengthening on the fly, chronological backtracking | calls `checkPeriod`, `exportClause` and `shouldApplyImportedClauses` |
| **Preprocessing**, `simp/SimpSolver.cc` of the MiniSat family, off unless `--ms-simp`, `--gl-simp`, `--mc-simp` | clauses with occurrence lists, eliminated variables, `elimclauses` | `eliminate`: subsumption, strengthening, elimination; in MapleCOMSPS also Gaussian elimination; `extendModel` | before the search; the solvers then differ in their variables |
| **Simplification**, `../kissat` | irredundant and redundant clauses, literals fixed at level 0, eliminated variables, extension stack | elimination with gates, subsumption, substitution, ternary resolution, vivification, probing, transitive reduction, autarkies, `kissat_extend` | the clauses of the other threads arrive in between |
| **Main thread**, `parallel/DetParallelSolver`, `Main.cpp` | threads, solvers, `mfinished`, `cfinished` | launch, timed wait that prints statistics, join, print the result; adjustment of the number of threads to the memory; signal handler | creates and joins the workers |
| **Export buffer**, `period/ClauseBuffer` | ordered map from key (LBD or length) to a queue of clauses, counts | `addClause`, `exportTo` up to a limit of literals | owned by one worker |
| **Options**, `parallel/Options` | the command line | parsing, defaults | read by all |
| **SolverFactory**, `ThreadLocalVars` | – | diversifies and lists the solvers | called once |
| **Formula and model**, `sat/` | clauses, assignment | DIMACS reader, printing | loaded before the threads start |
| **Utilities**, `utils/` | stack of running clocks (`Chronometer`), quantile estimator (`p2`), memory and time probes | | |

### What is hard about it

* *Interleavings.* Each thread imports from all others while they export,
  complete and remove sets. A set is pushed before the one before it is
  completed, `completed` is read and then the clauses without a lock, and the
  broadcast may meet a waiter that has not begun to wait.
* *Order of results.* A result counts from the period in which it was found,
  not from when it is reported. Stopping must depend on the former only.
* *Waiting for each other.* Every thread waits for sets of every other one,
  and a thread that has returned completes exactly one more set.
* *Limits.* `--mem-lim` and `--real-time-lim` stop a thread in a period of its
  own, which nothing in the protocol agrees on.
* *Resources.* A set must leave a queue after its last reader and not before.
* *Each thread has a formula of its own.* Clauses are shared between solvers that
  have eliminated, substituted and fixed different variables; and they come in the
  midst of a search whose watches, levels and reasons must survive that.
* *Agreement without communication.* With `--adpt-prd` every thread computes
  the next period length by itself from the proposals of all.

### What makes each component correct

* Workers: imports depend on the period alone; no read before completion; each
  set once, in order, whole; nobody waits for ever; bounded drift.
* Queues: index in range; removal after the last reader; bounded length.
* Sharer: the winner is the first finder by (period, number); results only
  improve; no search cut short inside the margin.
* Period lengths: all threads agree.
* Main thread: it ends, also when a wake-up is lost; one answer is printed, the
  model is that of a thread that has found it.
* Export buffer and limits: ascending lengths, nothing lost or doubled, the limit
  of literals exceeded by at most one clause; glue clauses are never shut out.
* Imported clauses: none lost or applied twice although Kissat may import while
  it applies; none waits too long; applying one is sound beside eliminations.
* Search: what is learnt and exported follows from the formula; propagation
  overlooks nothing; reasons outlive every deletion; answers are right.
* Preprocessing and simplification: imported clauses are sound here and complete
  (they still prune); eliminated variables stay away; a model of what is left
  extends to one of the formula.
* Chronometer: `stop` and `toggle` meet the clock they name; no time is counted
  twice.
* DIMACS reader: the clauses are those of the file; reading ends.

## 2. The modules

```
Options                      constants, their assumptions, Thread, Period
 |- Sharer                   IFinished, shouldBeTerminated
 |   |- MainThread           main thread, workers, signal handler
 |        MainThreadTheorems
 |- PrdClausesQueue          the queues and their operations
      PeriodExchange         the workers; composes queues and Sharer
        ExchangeProperties   what is promised            DelayedBarrier (abstract)
          ExchangeInvariant  inductive invariants GInv, BInv, RInv, DInv
            MCPeriodExchange oracles for TLC
              SpuriousWakeups  the same on a system with spurious wake-ups
            ExchangeTheorems

ClauseBuffer -> ClauseExport -> ExportTheorems   what a worker exports
ImportedClauses -> ImportTheorems     when a worker applies what it imported
Cnf                                   literals, clauses, assignments
 |- SearchState                       clauses, watches, trail; loading, propagation
 |   |- Search                        the search of the MiniSat family
 |   |- KissatSearch                  the search of Kissat
 |       BaseSolver -> MCSearch       composes both
 |         SearchInvariant            inductive invariant IInv
 |           SearchTheorems             for the MiniSat family, then Kissat, then both
 |- SimplificationState               clauses at level 0; loading, imported clauses
     |- Preprocessing                 the MiniSat family before its search
     |- Simplification                Kissat between its searches; uses
     |   Gates, Extension               definitions of variables, the extension stack
         Simplifier                   composes both, and says what is promised
           MCSimplification, SimplifierTheorems
Chronometer -> ChronometerTheorems    the clocks of a worker
DimacsFile -> DimacsReader            the input file; proofs in MainThreadTheorems
Induction                             lemmas on sets and recursive functions
```

`Induction` states induction over the numbers and recursion over finite sets with
sets in place of predicates: the theorems of the TLAPS library take an operator as a
parameter, which its provers cannot instantiate. The theorems about the exchange, the
searches, the simplifications and the export buffer use it.

From `ClauseBuffer` on they are about one thread each: nothing in that code is
shared, so they are state machines of their own and need no interleaving with the
exchange. What the other threads send is any clause that follows from the formula.

### Options

The options the protocol depends on, as constants with the assumption
`OptionsAssumption`. `NumThreads` is the number after
`DetParallelSolver::generateAllSolvers` has adjusted it (at least 1).
`MaxPeriod` is a bound of the model.

### PrdClausesQueue

The queue of thread `t` holds the sets of the periods `head[t] .. last[t]`. As
the code never frees a set (the `delete` is commented out), the contents of the
sets are functions of owner and period. A set's clauses are abstracted to
`"none"`, `"some"` (the export loop is running) and `"all"`: enough to tell a
torn read from a whole one and a period that exported from one that did not.
`completeAddtion` is three actions, `PushNext`, `CompleteAddition` and
`RemoveExported`, because importers look at `completed` (and proceed) in
between; its write lock is held all through, so `get` is guarded with the owner
being outside (`WriteLocked`). `RemovalStopsAt(t, h)` says where the removal
loop ends, without the loop.

### Sharer

Two critical sections, one step each. `FoundBetterOne` is the condition of
`IFinished`.

### PeriodExchange

`pc[t]` is where thread `t` is; one step is what runs between two
synchronisations.

| Label | Action | Code |
|---|---|---|
| `search` | `BeginExport` (memory accesses used up), `Finish` (answer found), `Restart` | search; `checkPeriod`; loop of `solve_` |
| `export` | `EndExport` | `exportTo` |
| `push`, `complete`, `remove` | `Push`, `Complete`, `RemoveSets` | `completeAddtion` |
| `import` | `GetSet`, `NextTarget`, `EnterNextPeriod` | `get`, end of the loops, `moveToNextPeriod` |
| `wait`, `blocked` | `CheckCompleted` | `waitAdditionCompleted`, `isAdditionCompleted` |
| `copy` | `Copy` | copying the clauses, `completeExportation` |
| `check` | `CheckTermination` | `shouldBeTerminated` at the end of `checkPeriod` |
| `restart` | `Restart` | the MiniSat family asks again in the loop around `search` |
| `stop` | `Stop` | the search returns UNKNOWN (or, in Kissat, still an answer) |
| `done` | – | `solve` has returned |

The search is an oracle: `fate[t]` is the period in which the search of thread
`t` finds the answer. It is fixed in the initial state. That is what
determinism lets one assume of the search (same imports, same search), and what
the model shows is the converse: that under this assumption imports, stops and
the winner do not depend on the scheduling. Both kinds of base solver are
modelled (`Kissat`): Kissat remembers that it was told to stop, the others ask
again, and may also stop at any restart. Memory readings are arbitrary; the
real-time limit passes for the threads in the order in which their clocks were
started (`Tick`).

Three abstractions: the proposal of a period length is any of `PrdLens` (its
arithmetic is floating point); the choice of clauses to export and the
application of imported ones are local to a thread and modelled in modules of
their own; and the call back into `checkPeriod` from several places of a base
solver is one place.

### DelayedBarrier

The abstract specification: a thread leaves period `p` only when it has
completed `p` and everybody has completed `p - Margin`; what is completed stays
completed. There are no queues, locks or waiting in it.
`ImplementsDelayedBarrier` instantiates it with `period <- periods` and
`done <- completed`.

### MainThread

`DetParallelSolver::solve`, `main`, the life of a worker around its search
(`localLaunch`, the end of `solve`) and the handler `SIGINT_exit`. The search is
an oracle again: `outcome[t]` is the status and the period it ends with, any
combination of them.

| Variable | Code |
|---|---|
| `main`, `created`, `joined` | where the main thread is: `load`, `generate`, `create`, `loop` (`getNumLiveSolvers`), `wait` (`pthread_cond_timedwait`), `join`, `print`, `model`, `exit` |
| `worker[t]`, `lock` | where worker `t` is; the holder of `mutexJobFinished` |
| `num_live_threads`, `lanched` | `Sharer` |
| `handler`, `interrupted` | where the handler is, and in which thread: that thread does nothing else |
| `printed`, `model_of`, `exit_code` | the output |

`IFinished`, one step in `Sharer`, is two here (`SetWinner`, `SetResult`),
because the handler reads its variables without the lock, between them.
`Signal` is lost if the main thread is not waiting; `SpuriousWakeup` and
`Timeout` are the other two ways a wait ends. `Throw` is the exception path of
`main`.

### ClauseBuffer and ClauseExport

`ClauseBuffer` has a queue per key and the two counters; a clause is its place
in the order of arrival and its length. `Exported(max_lits)` says which clauses
`exportTo` moves, without its loops: the queues in ascending order of the keys,
up to the first clause with which the limit is exceeded. `Joined` is the concatenation
of the queues, one after another; `NumPopped` says how many clauses of each leave it at
the front. `TakeOut` pops them and says which keys remain (a quirk: not erased is the
key at which the loop stops).

`ClauseExport` adds the tests that each wrapper makes (`MiniSatExports`,
`GlucoseExports`, `KissatExports`), the learning of a clause (`Learn`,
`LearnUnit`) and `exportSelectedClauses`, with the control that raises or
lowers `exp_clause_lbd_lim` by the literals left behind (`AdjustExpClauseGen`).
That limit is a `double` in two wrappers: here integers, in thousandths. The
quantile of the LBDs is any of `Quantiles`. The base solver is chosen in `Init`.

### ImportedClauses

The module follows the two vectors of imported clauses from
`importClauses` to the base solver. Clauses are numbered as they come, so that none
can go unnoticed; each period brings some unit clauses and some others
(`NextPeriod`). `DecideToApply` and `SkipApply` are the two
outcomes of `shouldApplyImportedClauses`, asked for only above decision level 0.
The MiniSat family applies everything in one step (`ApplyAll`); Kissat moves the
vectors away (`StartApply`), applies clause by clause (`ApplyNext`), and meanwhile
may end a period and import (`CheckPeriodInside`).

### SearchState, Search

`SearchState` is what the four searches have in common: state, loading, imported
clauses, decisions, and the properties. `Search` is the loop of `Solver::search`
with everything it calls. `solver` says which program runs; the code of the
MiniSat family is the same but where `Binary`, `Compacted`, `FailedLiteral` and
`ReasonsCleared` differ. The map names one of the three for each definition.

| Variable | Code |
|---|---|
| `order` | `clauses` and `learnts`, and of each clause the literals at positions 0 and 1, which are the watched ones |
| `trail`, `trailLim`, `qhead` | the same, with `vardata` (level and reason) as part of the trail |
| `visiting` | the watch list that `propagate` goes through, from `i` to `end` |
| `caller` | what called `propagate`: `addClause_`, `applyImportedClause`, `search`, `stampAll` |
| `conflict` | in Kissat the false clause under analysis |
| `analyzed` | the literals `analyze` has seen, less those resolved away |
| `pc` | the place in `search` |

A clause is the set of its literals and whether it is learnt, so two equal learnt
clauses are one. Left open, because activities, seeds and counters decide
them: the order of a watch list (but binary clauses first, in Glucose and
MapleCOMSPS), the literal watched next, the blocker (any true literal of the
clause), which learnt clauses `reduceDB` takes, when `simplify` is due and whether
it removes original clauses (only if the solver has preprocessed), and which
variable is decided. Conflicts are resolved one by one; `litRedundant` is defined
as a closure (`Redundant`), not by its stack. `stampAll` learns one failed literal
after another, each propagated at once.

### KissatSearch

The loop of `kissat_search` with the calls DPS has put into it. What sets it apart:

* A literal gets the highest level of its reason (`Forced`), so the trail is not
  ordered by level. `Backtrack` keeps the literals of levels that stay, wherever
  they are on the trail, and propagates them again.
* `FindConflictLevel`: the conflict may lie below the level of the search, and if
  one literal alone is on its level that literal is flipped without learning.
* `DeduceResolve`, `OnTheFlyStrengthen`: when the resolvent is part of the clause
  just resolved, that clause is strengthened, and the analysis starts again with it.
* `Shrunken` replaces, level by level, the literals of a clause by one that implies
  them (`Block`), or minimizes them. `ImpliedBy` is the largest set of literals whose
  reasons stay within it and the clause: that is what the recursion comes to, because
  a reason lies earlier on the trail. The limits on depth and the memory of failed
  attempts (`poisoned`) only save time and are left out.
* `NewLevels`: after a conflict the search goes back to the jump level or, by
  chronological backtracking, one level.
* `AnalyzeFailedLiteral` learns the dominator of a conflict of level 1;
  `EagerlySubsumed` drops recent learnt clauses that the new one subsumes.
* `RestartReusingTrail`, `FlushTrail`, `ReduceRedundant` with `Swept`. Which redundant
  clauses go is open, except reasons; new watches of a clause are those of
  highest level (`SortedPair`, ties by the smaller literal).

`ReasonsStay` says that no reason is deleted which `analyze` may still look at:
reasons of literals of level 0 are not.

`PropagationIsComplete` says that no clause is false or has one literal left unnoticed
when propagation has ended. Of Kissat above level 0 and after a reduction it says only
that no clause is false. The reduction watches every clause anew (`SortedPair`), and
may so watch the only true literal of a clause and a false one of a higher level; after
backtracking the clause has one literal left and is on no queue. Nothing is lost: that
literal is watched, and the clause is looked at when it becomes false.

### SimplificationState, Preprocessing, Simplification

Clauses are sets of literals, `irredundant` and `redundant`; the literals true at
level 0 are `fixed`. `AddClause` and `FinishLoading` load the formula.
`AddImportedClause` and `IgnoreImportedClause` are the two outcomes of
`kissat_import_*` in `dps_api.c` and of `applyImportedClause` in the MiniSat
family, which asks only whether a literal is true (`Useless`), for any clause of
`Arriving` that the input implies.

`Preprocessing` goes through the phases of `SimpSolver::eliminate` (`pc`):

| `pc` | Action | Code |
|---|---|---|
| `load` | `AddClause`, `FinishLoading` | `addClause_`, begin of `eliminate` |
| `gauss` | `FirstGaussElim` | `gaussElim` of MapleCOMSPS |
| `subsume` | `BackwardSubsume`, `StrengthenClause`, `EndSubsumption` | `backwardSubsumptionCheck`, to its end |
| `eliminate` | `EliminateVar`, `EndElimination` | `eliminateVar`; the loop may end early (interrupt, limit of length) |
| `chance` | `SecondChance` | the rest of `eliminate` in MapleCOMSPS, with the shared `xors_found` |
| `search` | all that follows | imported clauses, deletion of redundant ones |

`Xors` says which exclusive ors the clauses contain, and `Echelon` which equations
`mzd_echelonize` leaves of a system, as sums of its equations. In the later rounds of
MapleCOMSPS the limit on resolvents grows; there any variable may go
(`FewResolvents`). `asymm`, `implied` and `substitute` run in no configuration.
Left out: Glucose's test for more than 4 800 000 clauses, and the limit on the size
of a matrix.

`Simplification` is what Kissat does at level 0 between two runs of its search.
Every simplifier is an action (or a few, one per outcome), enabled whenever the
solver is consistent: in the code schedules, delays and effort limits choose, and
they may choose anything. `Gates` says which gates `kissat_find_gates` may find for
a literal (equivalence, and, if-then-else, xor, definitions by cores) and which
resolvents each leaves to be made. `Extension` is `kissat_extend`: a fold over the
stack of weakened clauses; `ExtendedModel` is the same for `elimclauses`.

What is abstracted: units are propagated when they are learnt (`Settle`), and false
literals leave the clauses at once; the code does both before it looks at a
clause next. Only where it does not, while MapleCOMSPS loads and looks for
exclusive ors, the clauses stay as they are. In Kissat occurrence limits, the
order of candidates and backward subsumption are open. The clauses of one
variable are kept in a fixed order. `SubstituteRound` learns one failed literal
at a time; `HyperBinary` takes any dominator where the code takes the closest; a
clause that a unit found during the same elimination makes true is still put on
the extension stack (it is true in every extension). The cores that kitten finds
are any unsatisfiable set of clauses (`Cores`).

### Chronometer, DimacsFile, DimacsReader

`Chronometer` has the class (`time`, `stack`) and, beside it, the call stack of a
worker (`calls`) with every place that starts, toggles or stops a clock. `spent`
charges each tick to what the worker is really doing; the class must come to
the same sums.

`DimacsReader` reads a file one `gzgetc` per step. What the file says is defined a
second time in `DimacsFile`, by lines and words (`ClausesAndRest`), without reference
to the loop: a character belongs to a word if it is no white space and no comment
(a line that begins with c or p), a word is an integer or not, and the zeros cut
the integers into clauses. The theorems about it are in `MainThreadTheorems`: the main thread
reads the file first.

## 3. What TLC checks

| Run | Question | Properties | States |
|---|---|---|---|
| `deterministic` | 3 Kissat threads, margin 1, every choice of finders in periods 0..2 | `TypeOK`, `NoReadBeforeComplete`, `NoOrphanWait`, `ImportsAreDeterministic`, `WinnerIsFirst`, `SearchNotCutShort`, `OverrunBounded`, `ImplementsDelayedBarrier`, `Termination` | 334 000 |
| `adaptive` | 2 threads of the MiniSat family, margin 1, adaptive lengths, an answer in period 4 | `PeriodLengthsAgree`, `QueueStaysShort`, `QueueIndexInRange` | 1 380 000 |
| `non_deterministic` | 3 threads of the MiniSat family, `--non-det` with a time limit | `ExactlyOnceInOrder`, `ResultOnlyImproves`, `Termination` | 306 000 |
| `limit_hang` | finding 1 | `Termination` is violated | |
| `spurious_wakeups` | finding 2 | `NoReadBeforeComplete` is violated | |
| `main_thread` | 2 workers, the main thread, and a signal at any moment | `ModelIsFromSolver`, `PrintedLinesAgree`, `AnswerIsPrinted`, `RunEnds` | 39 000 |
| `export` | 5 conflicts in each of the four base solvers | `EachClauseOnce`, `ShortestAndOldestFirst`, `GlueClausesExported`, `BufferDrains` | 50 000 |
| `imports` | 6 periods, 4 imported clauses, both kinds of base solver | `NoClauseLost`, `UnitsKeptOneInterval` | 198 000 |
| `search` | nine formulas of 2 to 6 clauses over up to 5 variables, in each of the four solvers, and one more in Kissat, with an import and a call of `reduceDB` | `TypeOK`, `ClausesAreImplied`, `AnswersAreRight`, `PropagationIsComplete`, `ReasonsStay`, `WatchedAreOpen`, `SearchEnds` | 405 000 |
| `simplify` | ten formulas over 4 variables for each of the four solvers, five more with exclusive ors for MapleCOMSPS, and five clauses that may arrive | `ImportsAreSound`, `ModelIsReconstructed`, `LastClausePrunes`, `EliminatedStayOut` | 27 000 |
| `chronometer` | a Kissat thread, 3 ticks | `ClocksFollowCalls`, `TimesAreExclusive` | 3 000 |
| `read_formula` | every file of up to 6 of the characters c, 0, 1, -, space, line break | `ReadsFormula`, `ReadingEnds` | 430 000 |

*Bounds of the exchange.* Three threads are the least with which one thread (the
finder) can delay a second (the one that stops) and a third waits; with two, the
ring order and the winner's tie break have one case only. A margin of 1
separates the period imported from the one searched. `LastFate` is the last
period with an answer, and `MaxPeriod >= LastFate + Margin + 1`, the furthest any
thread gets (`OverrunBounded`), so the bound of the model cuts off no behaviour
that a run without limits has. `adaptive` has two threads, because each
completion chooses one of two proposals, but more periods: a set leaves a queue
only `Margin + 1` periods after it came. In `--non-det` mode nothing but the speed
of the threads bounds how far they drift apart: there a thread that has reached
`MaxPeriod` (2) stays in its search, where it may still find an answer, run out of
its limit or be told to stop; two periods let a thread skip a set and take it
together with the next one.

*Bounds of the others.* `main_thread`: two workers give every order of their
reports; outcomes in periods 0 and 1 give a tie and both orders; 100 and 400 MB
lie on both sides of the 250 MB of `generateAllSolvers`. `export`: lengths 1, 2 and
4 with a limit of 3 literals make a clause longer than the limit, and four
clauses two full queues; LBDs 1 to 3 lie on both sides of the tests of the
wrappers. `imports`: `FAppPeriods` is 2 and six periods make three intervals.
`search`: five variables give clauses of three and four literals, so that a watch
has somewhere to go, learnt clauses that can be minimized or shrunk, and a trail
with literals out of order over three levels; decisions are made in the order
of the variables (`AnyVariable`), as another order is the same as another formula.
One import may come at any level, one reduction at any decision; `ReasonsStay`
would fail already with one if a reason could go. `simplify`: the formulas are
chosen so that each simplification applies to at least one; four variables give
two exclusive ors with two variables in common, whose sum is a binary equation, and
one that only shows after strengthening; two redundant clauses at one time let two
of them be resolved and let one support another; the arriving clauses are a binary
one, a unit, and ones that later lose a variable.
`chronometer`: three ticks let a clock
run, be interrupted and go on; the proofs lift this bound.
`read_formula`: six characters suffice for a comment, a sign and a clause
with its 0.

*Deadlock* is checked in every run except `limit_hang`, which is about one, and
`imports`, where the search stops at the bound of its periods or with UNSAT.

*Fairness.* `FairSpec` of `PeriodExchange` assumes weak fairness of each thread's
steps: the operating system runs every thread that can run. That is all, and it
suffices: locks are held for bounded code, and a broadcast wakes all waiters. No
fairness is assumed of `Tick`; a search that never finds anything (`NoAnswer`)
still comes to the end of each period. `MainThread` assumes the same of the main
thread, the handler and each worker, and nothing of signals, spurious wakeups and
exceptions. `ClauseExport` assumes that periods end (the search makes memory
accesses, or it is over), `BaseSolver` and `DimacsReader` that the program, which has
one thread, runs. `SearchEnds` holds because learnt clauses are deleted only
`MaxReductions` times: with deletions for ever it is a matter of schedules.

## 4. What is proved

TLAPS checks the following for every value of the constants that satisfies
the assumptions named in the modules.

| Theorem | Statement | Mode |
|---|---|---|
| `Exchange` | `Spec => []GInv` | all |
| `TypeCorrect` | `[]TypeOK` | all |
| `ReadsComplete` | `[]NoReadBeforeComplete` | all |
| `RemovalIsSafe` | `[]RemovedAreTaken` | all |
| `GetInRange` | `[]QueueIndexInRange` | all |
| `ResultImproves` | `ResultOnlyImproves` | all |
| `TakenOnceInOrder` | `[]ExactlyOnceInOrder` | all |
| `Refinement` | `ImplementsDelayedBarrier` | deterministic, any limits |
| `StayClose` | `[]PeriodsStayClose` | deterministic, any limits |
| `ResultInvariant` | `[]RInv` | deterministic, no limits |
| `FirstFinderWins` | `[]WinnerIsFirst` | deterministic, no limits |
| `SearchIsWhole` | `[]SearchNotCutShort` | deterministic, no limits |
| `EndsInTime` | `[]OverrunBounded` | deterministic, no limits |
| `NobodyOrphaned` | `[]NoOrphanWait` | deterministic, no limits |
| `QueuesStayShort` | `[]QueueStaysShort` | deterministic, adaptive, any limits |
| `PeriodLengthInvariant` | `[]PInv` | deterministic, any limits |
| `LengthsAgree` | `[]PeriodLengthsAgree` | deterministic, any limits |
| `DeterminismInvariant` | `[]DInv` | deterministic, no limits |
| `ImportsDeterministic` | `[]ImportsAreDeterministic` | deterministic, no limits |
| `MainInvariant` | `[]MInv` of `MainThread` | any number of threads |
| `PrintedModelIsRight` | `[]ModelIsFromSolver` | any number of threads |
| `NoTwoAnswers` | `[]PrintedLinesAgree` | any number of threads |
| `FoundAnswerIsPrinted` | `[]AnswerIsPrinted` | any number of threads |
| `ReaderInvariant` | `[]ReaderInv` of `MainThreadTheorems` | files of any length |
| `FormulaIsRead` | `[]ReadsFormula` | files of any length |
| `ImportInvariant` | `[]IInv` of `ImportedClauses` | all |
| `NothingLost` | `[]NoClauseLost` | all |
| `UnitsAppliedInTime` | `[]UnitsKeptOneInterval` | all |
| `LimitInvariant` | `[]LimitInv` of `ClauseExport` | all |
| `GlueClausesAlwaysExported` | `GlueClausesExported` | all |
| `BufferInvariant` | `[]BufferInv` of `ExportTheorems` | all |
| `ClausesExportedOnce` | `[]EachClauseOnce` | all |
| `ClausesLeaveInOrder` | `ShortestAndOldestFirst` | all |
| `SearchInvariantHolds` | `[]IInv` of `SearchInvariant` | any solvers and formulas |
| `SearchTypes` | `[]TypeOK` of `SearchState` | any solvers and formulas |
| `SearchImplied` | `[]ClausesAreImplied` | any solvers and formulas |
| `SearchAnswers` | `[]AnswersAreRight` | any solvers and formulas |
| `SearchPropagates` | `[]PropagationIsComplete` | any solvers and formulas |
| `SearchReasons` | `[]ReasonsStay` | any solvers and formulas |
| `SearchWatches` | `[]WatchedAreOpen` | any solvers and formulas |
| `SoundnessInvariant` | `[]SoundInv` of `SimplifierTheorems` | any solvers and formulas |
| `ImportsSound` | `[]ImportsAreSound` | any solvers and formulas |
| `EliminatedOut` | `[]EliminatedStayOut` | any solvers and formulas |
| `LastPrunes` | `[]LastClausePrunes` | any solvers and formulas |
| `ModelsReconstructed` | `[]ModelIsReconstructed` | any solvers and formulas, if no value is overwritten with the other one |
| `ModelsReconstructedWithoutGauss` | `[](solver # "MapleCOMSPS" => ModelIsReconstructed)` | any formulas |
| `ChronometerTypes` | `[]TypeOK` of `Chronometer` | all |
| `ClocksFollowCallsAlways` | `[]ClocksFollowCalls` | all |
| `TimesAreExclusiveAlways` | `[]TimesAreExclusive` | all |

*The argument for the exchange.* None of the properties is inductive. `GInv` is, in
every mode: `last` and `completed` follow from a thread's period and place
(`LastInv`, `CompletedInv`); nobody takes an incomplete set (`TakenInv`, which needs
`CopyInv`, which a broadcast keeps because it wakes exactly the waiters for the
set completed); the count of a set is the number of threads that have taken it
(`CountInv`), so that a count of `NumThreads` means all have (`CountFull`) and
the removal loop stops in time (`HeadInv`).

`BInv` adds, for deterministic mode, that the loop of `importClauses` leaves a
thread only with its sets up to the one that is due (`VisitedInv`), hence a
thread in period `p` has taken all sets up to `p - Margin - 1` (`KnownInv`).
This needs that the loop waits: in non-deterministic mode it is false. From it
follow the barrier and, since nobody takes an incomplete set, that no thread is
far ahead of another.

`RInv` adds what happens at the end. The crux is `MarginInv`: when a thread
finds the answer in period `w`, `KnownInv` bounds all others by `w + Margin`, so
the report comes before anyone could have passed the margin
(`NobodyBeyondMargin`), and everyone who is later told to stop is beyond it. So
a thread that returned either found the answer itself, not before the winner
did, or is beyond the margin (`ReturnedInv`). A thread waiting for one that has
returned would need a set beyond `winner_period + Margin`, where nobody
searches. With a limit this breaks at `ToldToStopInv`: see finding 1.

`DInv` adds what determinism is about. A set is filled only in its period, and not
by a thread that has returned (`FilledInv`); and a thread told to stop returns
beyond the margin, where nobody takes its set any more (`SetIsExpected`). So what a
set holds when it is taken depends on its owner's search alone. `NotYetInv` is the
counterpart of `KnownInv`: no thread takes more than the set that is due, and none
before its turn in the ring. Together they fix how many sets a thread has taken
(`NumImported`), hence the place of the next one in the expected sequence
(`ImportedInv`), which is a matter of quotient and remainder by `NumThreads - 1`.
`LengthInv`, for the length of the queues, rests on `BInv` only: the removal loop
stops at a set that some thread has not taken, and that thread is close.

`PInv` adds that a thread in its loop has summed up the proposals of the sets it has
taken (`SumInv`). It takes no set before it is due (`NoneEarlyInv`), so the thread
whose set comes next is not yet in the sum, and at the end of the loop all are. The sum
over a set of threads (`SumOver`) has no order in it; that is why the threads agree
although each goes round the ring from its own place. So each computes the length that
`PeriodLength` derives from what was proposed `Margin + 1` periods ago
(`PeriodLengthInv`). The proposals are rounded to integers before they are
summed, in the code as here; a sum of floating-point numbers would depend on the order.

`ExactlyOnceInOrder` follows from `GInv` and a lemma: the sets of one owner in what a
thread has taken (`TakenInOrder`) begin with period 0, go up by one, and the next is
the one at `next_period`.

*The argument for the main thread.* `MInv` says how far creating and joining have
come (`ThreadsInv`), that the winner is a thread that has reported and that no other
report is better (`WinnerInv`), and what the result may be between the two
assignments of `IFinished` (`ResultInv`). While the handler runs in a worker that
worker does not end (`HandlerInv`), so that the main thread cannot have joined it
and does not print: hence the lines agree although nothing excludes the two from
each other (`PrintInv`).

*The argument for imports and exports.* `IInv` says that the four places a clause
may be in hold all numbers and as many clauses as numbers (`PlacesInv`), that the
vectors Kissat has moved away are empty unless it is applying them (`MovedInv`),
and that unit clauses that wait came after the last interruption (`UnitsInv`).
`LimitInv` says that the limit on the LBD stays at 2 or above; in Glucose, which
takes 1 off without looking where that leads, this needs that the limit is whole.

`BufferInv` says of the buffer that each queue holds clauses of its length in the
order of their numbers, that a key exists for every queue that is not empty, and that
the exported clauses and those of the buffer are together all that were accepted, each
once. The crux is a lemma on sequences (`TakeOut`): to pop the first `num` clauses of
the concatenation of the queues is to pop from each queue as many as `NumPopped` says,
and what is popped is a prefix of that concatenation. The concatenation is a recursive
function over the lengths, reasoned about with `Induction`. `BufferAssumption` asks
only that there is a longest length.

*The argument for the searches.* The invariant is `IInv` of `SearchInvariant`: types,
right answers, and, unless the search has ended with UNSAT, eight parts.

* `TrailInv`: no variable twice; a level begins with its decision; what was assigned
  before a level began has a lower level (and in the MiniSat family nothing else has);
  literals of level 0 are true in every model of the formula; and reasons are right
  (`Justified`): the clause follows from the formula, and its other literals became
  false earlier on the trail at no higher level. All that `analyze` and its refinements
  learn is resolved from such clauses, so it follows from the formula; and as reasons
  lie earlier on the trail, going from literal to reason ends, which is what
  minimization and shrinking need.
* `WatchInv`: a clause that watches a false literal has a true one, for each level
  `k` of one lower than `k` as of what was assigned before level `k` began
  (`WatchesSee`). The usual statement, about the present level only, is not inductive:
  when the search goes back, the true literal could go while the false one stays.
  Where Kissat has reduced, only clauses with two false watched literals need a true one.
* `PropagateInv`: what is not yet propagated belongs to the last level, and the
  clauses still to be visited are watched by the literal in work; they are
  judged by the literals before it.
* `PresentInv`: a reason exists and has its literal where the code looks for it.
  In Kissat a clause that was strengthened in the analysis may have been the reason
  of a literal already resolved away: nobody looks at it any more (`LookedAt`), and
  backtracking takes it off the trail before anybody does.
* `ClauseInv`, `FormulaInv`: clauses follow from the formula; and of each clause of the
  formula something is left that is as strong, or it is true at level 0: hence SAT is
  right.
* `AnalysisInv`: the clause in work is false and follows from the formula.
* `ControlInv`: where the search is at level 0, and where propagation has ended.

Nothing bounds the number of variables, the formulas, the imports or the reductions;
`SearchAssumption` says only what the constants are. Arriving clauses need no
assumption beyond the guard of the import, that they follow from the formula.

*The argument for the simplifications.* `SoundInv` is `ImportsAreSound` with the types,
and the sets of clauses hold no tautologies (`Proper`): the code never keeps one, and
resolution, the gates and the exclusive ors are right only for such clauses. Each technique has
a lemma that what it adds is true in every model of the formula. What most of them
rest on: a literal found by propagation follows from its clauses and the literals it
starts from (`PropagatedIs` and the lemmas after it), and so does one that is reached
along binary clauses (`ReachedIs`). Both are recursive functions, taken step by step
with `Induction`. Removing a clause needs no argument for `SoundInv`: that is what
`ModelIsReconstructed` is about.

`OutInv` adds that the clauses left have no literal of an eliminated variable, for the
irredundant ones in every solver and for all in Kissat. The hard step is substitution:
it eliminates the variables that are not their own representative, and must put none of
them into a clause. That holds because the representative of a representative is itself
(`RepresentativeStays`): the literals that reach each other are the same
for all of them, which needs that reaching ends after as many steps as there are literals
(`ReachedClosed`). Nor may Kissat's propagation or its resolvents bring an
eliminated variable back (`PropagatedFrom`, `ResolventsOut`), and an equation summed
up by MapleCOMSPS has only variables of the clauses it came from (`SumOut`).

`LastInv` adds for `LastClausePrunes` that no clause has arrived before the formula is
loaded. A clause that is added is there without its false literals unless a literal of it
became true, and one that is ignored was true (`ClausePrunes`). In the model any later
change of the clauses ends the claim (`last`), so this is about the moment of import,
above all about what each solver tests before it adds the clause.

`RecInv` adds for `ModelIsReconstructed` what makes it inductive. In the MiniSat family
it is so nearly by itself (`Rebuilt`): the model is extended from an assignment of all
variables, and each elimination replaces the values of its own variable only. In Kissat
a variable that was eliminated has no value before the stack is read, and after
reading the entries of its elimination it may still have none; an older entry, whose
clause has it, may then choose it, since `kissat_extend` prefers the literal whose variable
was eliminated last. So `Rebuilds` is about the stack as an elimination to come
will leave it: for any further variables behind the eliminated ones, and any values
of the variables left, some of the further ones perhaps missing, that make the
clauses left true however they are completed (`Partial`), reading the stack ends in a
solution. Beside it, while the solver is `ok`, no clause has a fixed literal, is
empty or a unit (`TidyInv`), and while the formula is loaded its clauses so far hold in all
assignments left (`LoadInv`). TLC has checked `RecInv`, for up to two further variables,
on the formulas of `simplify`.

A technique that changes the stack is proved by reading what it pushes: from values that
make the clauses after it true come values that make those before it true, and the older
part of the stack does the rest (`StackGrows`).

* Elimination: if all resolvents hold, the clauses of one of the two literals are true
  whatever its variable is, and the pushed clauses of the other give it the value they
  need. In Kissat only resolvents of gate clauses with other clauses are added, which is
  enough because the gate defines the variable (`GateResolves`; `FoundIsGate` for
  equivalences, and-gates, if-then-else, exclusive ors and definitions).
* Autarkies: the literals of an autarky are pushed as units, and they make every clause
  true that is removed.
* Substitution: the clauses pushed for a variable give it the value of its
  representative (`EquivalencesAgree`), and with such values a clause is true if and only
  if the one with representatives is (`SubstitutedBack`).
* Subsumption, strengthening, vivification, ternary resolution, propagation and imports
  leave the stack alone; the assignments left do not become more.

Gaussian elimination in MapleCOMSPS enqueues a unit equation over the opposite value,
and then the property is false for some formulas (section 5). `ModelsReconstructed` has
the premise `[][ok' => fixed \subseteq fixed']_vars`: while the solver is `ok` no value
is overwritten. That is what `uncheckedEnqueue` asserts (`core/Solver.cc:633`); on the
formulas of `simplify` TLC finds it true. The premise is used for `FirstGaussElim` and
`SecondChance` only, to which the other solvers never come, so that
`ModelsReconstructedWithoutGauss` has none.

*The argument for the reader.* The loop cannot see whether the word it is in will be
an integer, and stores numbers of files that are not well-formed as well: a sign in
front of a comment is kept for the next number, and `1-2` is 1 and 2, the character
after a number being lost. So `ReaderInv` speaks only of words that are `Hopeful`:
all of them are integers, or the last one is the beginning of one and may go on.
Then what has been stored is `Cut` of the values of the words read, but for the word
in work, of which `num` and `neg` are the value so far (`Between`, `AfterMinus`,
`InNumber`, `Skipping`). Words that are not `Hopeful` never become so again: if they
are after a character, they were before it. For the loop a comment begins at any c
or p that it meets outside numbers, the definition says that it begins at the
beginning of a line; for `Hopeful` words these are the same, since a c elsewhere is
in a word that is no integer. `Cut`, `Magnitude` and `WordsUpTo` are recursive
functions over their argument. The lemma `Unfolded` makes them what `Induction`
speaks of, and `Agreement` compares those of a sequence with those of its beginning.
From this follow what one character more means (`CutAppend`, `ValueGrows`,
`WordsAre`).

*The argument for the chronometer.* `CInv` says that the clocks are nested as the
calls are, that none was started in the future, and that what a name has
accumulated is what was spent on it, less what the running clock has not added
yet. A start charges the interrupted clock and a stop or toggle sets the one
below anew, so only the last clock of the stack ever has time to add.

*Only model-checked.* Liveness (`Termination`, `RunEnds`, `BufferDrains`,
`ReadingEnds`, `SearchEnds`). Every invariant and every action property that a run checks is
stated by a theorem. `RemovalIsSafe`,
`StayClose` and `ChronometerTypes` are proved and not checked by a run of their own:
other properties of the same runs, or lemmas, rest on them.

## 5. Findings

1. **A run with a memory or time limit may never end** (`limit_hang`). Let B
   find SAT in period `w` while A is still in period `a < w`, `w <= a + margin`.
   A passes its own limit and returns UNKNOWN in `a`; the result stays B's. A
   completes period `a` and nothing later. A thread D below its limit goes on to
   period `w + margin`, where it waits for A's set of a later period: nobody will
   complete it. In non-deterministic mode, where nobody waits, this cannot happen.
2. **`waitAdditionCompleted` waits with `if`** (`spurious_wakeups`). A return of
   `pthread_cond_wait` without a broadcast, which POSIX permits, passes for
   completion, and the set is read while its owner appends to it.

The modules show the following too; no run is spent on them, the definitions
named say it.

* Without `--adpt-prd` no set ever leaves a queue (`CompleteExportation`,
  `RemovalStopsAt`): the removal loop waits for a count of `num_threads`, but the
  owner counts itself only in the adaptive branch of `importClauses`.
* A limit of 0 for the LBD is documented as unlimited (`Options.cpp:67`, `79`). In
  Kissat it exports nothing, until the first adjustment makes it infinite
  (`KissatExports`); in Glucose that adjustment makes it 1 (`IncExpClauseGen`).
* Imported unit clauses are not "applied immediately" (`AbstDetSeqSolver.cpp:184`)
  but wait like the others for `fapp_periods` (`ShouldApplyImportedClauses`).
* The number of threads is fitted to the memory limit only if 250 MB or more are
  in use after loading (`AdjustedThreads`), whatever `Options.cpp:39` says.
* `removeClause` of Glucose clears the reason of the literal at position 0
  (`core/Solver.cc:330`), though in a binary clause position 1 may hold the literal
  the clause has made true (`ReasonsCleared`). The stale reason belongs to a
  literal of level 0, whose reason nobody reads.
* A thread that gives up in an early period because of a limit makes `IFinished`
  discard an answer that another finds later; hence the premise of
  `AnswerIsPrinted`.
* With `--mc-simp` runs are not reproducible: `xors_found` (`simp/SimpSolver.cc:42` of
  MapleCOMSPS) is one variable of all threads, so whether a thread makes its second
  attempt at Gaussian elimination depends on how far the others are
  (`SecondChance`). The answers stay right (`ModelIsReconstructed`).
* With `--mc-simp` the answer SAT may be wrong: `performGaussElim` enqueues a unit
  equation whatever the value of its variable (`GaussElim`), although
  `uncheckedEnqueue` asserts that it has none (`core/Solver.cc:633`, an assertion that
  release builds leave out). With the twelve clauses of `Ternary({1, 2, 3}, FALSE)`
  and `Ternary({1, 2, 3, 4}, TRUE)` before the unit clause `{-4}`, the equation makes 4
  true and the unit clause is forgotten: `ModelIsReconstructed` is violated. The
  formulas of `simplify` have no such unit clause.
* A file whose last line is a comment without a line break is read for ever:
  hence the premise of `ReadingEnds` (`SkipLine`, `Instance.cpp:28`).

## 6. What is not modelled, and the plan

Not modelled, and why:

* kitten (the small solver that finds cores: `Cores` stands for it) and local
  search (`walk.c`), which only proposes phases: any phase may be chosen in the
  models;
* heuristics: scores, activities, restarts by averages, effort limits (any choice
  is allowed); memory management and garbage collection, arenas and watch vectors
  (a C data layout that TLA+ has no words for); proof output and the checker
  of proofs, which are compiled out; statistics, printing, `cxxopts`;
* diversification of the solvers by seeds and options: constants of a search;
* the quantile estimator (floating point); the verification of a model; `docs/`.

Done, with their proofs: the exchange and the end of the run, the main thread, the
export and import paths, the searches of the four solvers, the chronometer, the
preprocessing of the MiniSat family, the simplifications of Kissat and the reader. Next, in order:

1. `PeriodLength`: the arithmetic of `getNewPeriodLength` and of the mean, also in
   non-deterministic mode, where the sum covers fewer sets than it is divided by,
   so that the length may shrink to 0.
2. The worker of `MainThread` as an abstraction of `PeriodExchange`: the outcomes
   the exchange can produce are among those `MainThread` assumes.
3. A refinement of `ClauseExport`: the set of a period in `PeriodExchange` as the
   clauses exported in it.
4. The hooks in MapleCOMSPS and Glucose where they differ from MiniSat, and the
   verification of the model in `printResult`.
