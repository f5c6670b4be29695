# Legion: TLA+ models, model checking and proofs

Legion is an ensemble fuzzing scheduler. It builds a target program for several
fuzzers (AFL++, AFL, AFLFast, FairFuzz, HonggFuzz, LibFuzzer, Angora, QSYM,
Radamsa), runs them in rounds under a budget of resource units, moves units to
the fuzzer that makes progress, replays the seeds they find in an instrumented
binary, rewards them by several metrics and shares the useful seeds through a
global pool. Its own logic is about 6000 lines of C++ under
`src/src/legion` and `src/src/instrumentor`, plus the shell scripts in
`src/scripts`. This directory models that logic.

Paths below are relative to the directory that holds `src/` and `tla/`.

## 1. Inventory

| Component | State | Operations | Interacts with |
|---|---|---|---|
| **Worker pool** of one fuzzer (`legion.cc` 1548-2645) | `active_round_fuzzer_t`: process groups with units and paused flag, scheduled units, next worker index; the processes themselves | start, append, pause to n units, resume to n units, pause all, stop, compact | called by the round scheduler; processes exit on their own; signals through `kill` and `waitpid` |
| **Round scheduler** (`run_one_round`, `run`) | allocation, units held (`accounting_units`), charge per fuzzer, elapsed time, cumulative rewards | allocate, settle old pools, start, sleep, poll, judge a monitor window, reclaim, boost, finish, evaluate | worker pools, seed evaluation |
| **Batch evaluator** (`instrumentor/entry.cc`, `run_batch`) | active tasks, children, temporary reports, edge and path counts | launch, scan, merge, kill on timeout, symbolize, write report | started by legion for every evaluation; its children and the clock |
| **Seed evaluation and synchronization** (`legion.cc`, `global_record.cc`, `SEED.sh`) | global pool, input pool, queues, manifests, baselines, reports, the global record M (seen edges, paths, frequencies), monitor state | refill, baseline, collect, monitor evaluation, final evaluation, metrics, greedy selection, sync, refresh | round scheduler (rewards), batch evaluator (reports), fuzzers (queues) |
| **Deep function analysis** (`graph_analyzer.cc`) | call graph, tentative and final distances | parse, shortest paths, threshold | gives the deep functions of metric C3 |
| **Fuzzer probabilities** (`global_record.cc`, `mab.cc`) | scores, weights, UCB terms | weight, softmax, draw | feeds the allocation of the next round |
| **Crash bookkeeping** (`legion.cc`, `global_record.cc`) | crash files in run directories, staged and saved; fingerprints already counted | stage at polls and pauses, export, C2 of windows and of the round | round scheduler, seed evaluation, worker pool (wipes a run directory) |
| **Long mode** (`run_one_long_round`, `--run`) | the guard's clock, manifests, global and minimized pool, peer queues | run the scripts in threads, wake up, synchronize, minimize, share, join, archive | the scripts, through files only |
| **Trace runtime** (`instrumentor/trace.cc`, `hash_set.cc`) | edge counters, path hash, hash set | trace, insert | batch evaluator |
| **Scripts** (`src/scripts`) | worker directories, round folder, pools | run with a periodic flush, update, minimize, refill | started by legion; share folders with it |
| Command line, build phase, logging | files | | |

What is hard in this code:

* *Processes that die whenever they like.* Every loop over `state.groups` makes
  one system call per group, and a worker can exit before, between and after
  them. The bookkeeping (flags, counts, indices) is repaired by
  `compact_active_round_fuzzer_groups`, which the code calls in some places and
  not in others.
* *Partial failure.* A fork fails, QSYM's master does not come up, HonggFuzz
  cannot be appended to, a replay times out, an evaluation run fails while the
  others succeed.
* *Accounting over time.* Units and charges move from donors to the best fuzzer
  in each monitor window; the charge divides a reward later.
* *Stale data.* Manifests, reports of earlier windows, counts of the global
  record and the round's baselines are read long after they were written.
* *Races of a timeout with a late answer* in `run_batch`.
* *Folders as shared memory.* Legion copies files that workers are writing, by
  names that several workers use; in long mode the script empties a folder the
  guard thread is reading. No lock is held anywhere.
* *Restarts.* Manifests and reports stay in the directory for the next campaign,
  the pools they refer to do not; a pool of workers that has died starts again in
  an empty run directory.
* *Termination* of the monitor loop, of the append loop and of the batch.

`PROJECT.json` lists these hazards at their lines, with the property that
covers each one, or the reason why none does yet.

## 2. Modules

```
UnitPool            what the scheduler may rely on (abstract)
  ^ refined by WorkerPool        processes, signals, forks   MCWorkerPool
  |           ^ StopGroup        one group's process tree    MCStopGroup
  | promise used by
RoundScheduler      units, charges, rounds                   MCRoundScheduler
SeedSync            seeds, manifests, reports, record        MCSeedSync
  ^ OutputCollect   how files reach a fuzzer's round folder  MCOutputCollect
  ^ BatchEvaluator  run_batch: how reports come about        MCBatchEvaluator
CrashRecord         crash files, staging, C2                 MCCrashRecord
LongRound           --run: guard thread and scripts          MCLongRound
DeepFunctions       call graph distances (metric C3)
```

The theorems are in modules of their own: `WorkerPoolProofs` (with the refinement
of `UnitPool`), `StopGroupProofs`, `RoundSchedulerProofs`, `SeedSyncProofs`,
`OutputCollectProofs`, `BatchEvaluatorProofs`, `CrashRecordProofs` and
`LongRoundProofs`. The theorems about `DeepFunctions` end `SeedSyncProofs`, which
extends both modules: the edges SeedSync calls `Deep` are those in the functions
DeepFunctions finds. That is why the specification there is called `WalkSpec`.

### WorkerPool and UnitPool

`WorkerPool` is one fuzzer's `active_round_fuzzer_t` and the functions on it.
`proc` is what the operating system knows about each process group, the other
variables are the fields of the structure (`groups`, `units`, `paused`,
`scheduled`, `active`, `nextIndex`) and the locals of the running call (`pc`,
`ret`, `target`, `cursor`, `act`). Every turn of a loop is a step, so `Exit` can
fall between any two system calls. The kind of fuzzer is a variable chosen
initially: `afl` (prestarted pool), `qsym` (master and executor), `plain`
(LibFuzzer, Angora), `single` (HonggFuzz, no append) and `fresh` (Radamsa).

`UnitPool` is the promise: a call sets a cap; while it works at most one unit
more than the cap runs; when it returns at most the cap runs and the answer says
whether anything runs; a pause or stop leaves nothing running; units are lost at
any time. `ImplementsUnitPool` is the refinement, checked by TLC and proved for
every number of units, forks, exits and calls. The extra unit is real: the AFL pool starts a slave before it pauses it.

### StopGroup

`pause_process_group`, `resume_process_group` and `stop_process_group` on the
process tree of one worker. A call is a sequence of operations (`Program`) in the
order of the code: a signal to the process group, which is atomic, or a scan of
`/proc` followed by signals to what it found, which is not. Between any two steps
processes fork, exit, become orphans, leave the process group (as a fork server
does) or the runtime directory; some ignore SIGTERM; SIGTERM stays pending on a
stopped process. `Tree` is what `collect_process_tree` finds, the smallest family
of the root: a definition without recursion, which the proofs can use.
`WorkerPool` takes a group for one process; what StopGroup shows
is how far that is right: a stop leaves nothing of the label unless a process is
forked while SIGKILL is being sent, and a pause is complete for the group always
and for the rest of the tree if at most one process is forked during the call.
`births` and `late` are history variables that count these forks, and the forks
between SIGTERM and SIGKILL while nobody ignores SIGTERM: a worker that obeys SIGTERM but forks once for every
turn of the waiting loop does meet SIGKILL, and `KillOnlyTheDeaf` says that no
other obedient worker does.

### RoundScheduler

`run_one_round` and the loop of `run`. Pools appear through the UnitPool promise
(`Ensure`, `Lose`), so the scheduler is checked against every behaviour a pool
may show. Charges are doubles in the code (units times the fraction of the
round); the model keeps units times seconds, the code's value times
`round_time`, so all arithmetic is exact. The random draws of `select()` are an
arbitrary allocation that adds up to the budget (round 0 primes one unit each);
rewards of a window are arbitrary numbers up to `MaxReward`. `spent` and
`donated` are history variables. `Held` says what a fuzzer holds of the budget.
Fuzzers are numbered as in the code, so a sum over all of them is a recursive
function on these numbers (`Total`).

### SeedSync

A seed stands for its contents (the folders name files by fingerprint), with a
set of edges and a path given by the constant `FeaturesOf`. One action per
phase: `BeginRound` (refill, monitor reset, baselines, start), `Find`, `Window`,
`Finalize`, `EvaluateAll`, `Sync`, `Refresh`. Each run of the instrumented
program may lose the replay of one seed or fail as a whole (`Lossy`), bounded by
`MaxLosses`. Metrics C0, C1 (new edges and paths), C3 (more hits in deep
functions) and C4 (more hits on low-frequency edges) are computed as
`parse_report_metrics` does.

What happens around a round is part of it: under `-m` a round starts from the
minimized pool (`cmin`), any subset that keeps the edges of the whole; the
corpus of a fuzzer in `Sampled` (Radamsa) is minimized before it is replayed; a
pool that has died starts again from the pool and what was collected in the round,
with an empty output (`MaxWipes`); and legion may be stopped at any point and started again over the
manifests and reports it left (`Leave`, `Campaigns`), which are kept by round in
`left` because the files are named by round. `oldSeen` remembers what an earlier
campaign had in its manifest. A campaign without initial seeds keeps the pool it
finds (`FirstPool`): `SEED.sh copy` empties the pool only when the archive has
something to put there.

The scripts copy only files up to `LEGION_MAX_SEED_SIZE_BYTES`; legion's own
collection and synchronization copy everything. So the seeds in `TooLarge` are
replayed, rewarded and merged into the global pool, and are given to a pool that
legion starts itself, but the initial corpus, the input of a round, the baselines,
the minimized pool and the updates of running pools do not have them (`Copyable`,
`Refilled`, `MinimizedPools`, `Given`). `Missing` tells a directory or report that
does not exist from an empty one: legion asks for existence
(`current_global_input_pool_for_fuzzers`), the scripts for files to copy.

### OutputCollect

The way from a worker's queue into `accum`, which SeedSync takes for granted:
`snapshot_runtime_outputs_for_label` copies the queues of all workers by file
name into one live folder, `merge_seed_folder_into_accum` adds the live folder by
fingerprint. Each copy of a file is a step, workers create and complete files in
between, and a pause can hit a worker in the middle of a write. The contents of a
file are a number, a fragment of them its negative. A worker does not keep the
files it has written: AFL trims a case by taking the file away and writing a
shorter one under its name (`Unlink`, then `Create`), so a listed file may be gone
when its turn comes; and a pool that has died is started again with empty queues,
in the middle of a round (`StartAgain`) or at the start of the next one. `removed`
is a history variable: the files taken away in the round.

The two properties say how far SeedSync's abstraction is right. A seed of a paused
worker is collected unless another worker uses its name, or may have used it. A
fragment that was collected is followed by the whole file, with exceptions the
code really has: the file was trimmed or wiped before the next copy, the worker
could not be paused, was paused while it wrote, or shares the name. A fragment of
that kind stays in `accum` as a seed of its own.

### CrashRecord

A crash is found in three places: the run directory (from which C2 is computed),
the staging directory (filled by polls and pauses) and `saved_crashes` (filled
from the staging directory at the end of a round). Nothing but the order of the
calls keeps them in step. The model has one action per phase of `run_one_round`
that touches them, workers that crash between any two, a pool that dies as a
whole, pauses that fail and starts that die at once (`MaxFaults`). `Blind` are
the fuzzers whose crashes are not in the directory C2 looks into (LibFuzzer).
`wiped`, `lost`, `kept`, `windowed` and `credited` are history variables.

### LongRound

Three kinds of threads: the main thread, which joins the others, the guard
(`wait_and_pull`) and one script per fuzzer. A file has a name, contents and a
worker directory (the constants `Name`, `Text`, `Dir`); folders are sets of files
with distinct names and `Put` is `cp`. The script's flush is one step to clear
the folder and one per worker directory; the guard lists the folder and then
reads one file per step. `Tick` lets time pass while somebody sleeps; a process
that is due may be late. The scripts are `AFL.sh` and its copies `AFLFast.sh` and
`FairFuzz.sh`, which terminate their workers before the last flush. `AFLPP.sh`
(272-274) only sleeps before it, so a seed its workers save during or after that
flush stays in their queues; `FoundSeedsAreArchived` does not speak for it. `Restart` starts legion again in the
same directory.

### BatchEvaluator

`run_batch`: the launch loop, the scan over `active_tasks` with one system call
per step, the timeout check, the second stage in the parent, the children and
the clock. What a seed does (finish, crash, hang) is chosen when it is launched;
the edges of its report when it exits. `cached` are the reports stored per seed,
which the synchronization reads instead of replaying the seed.

### DeepFunctions

Dijkstra's loop over all call graphs of a bounded size. The choice among nodes
at the same distance is nondeterministic, as in an `unordered_map`.
`VisitedAtCallDepth` compares the result with the length of the shortest chain
of calls, defined independently (`Within`, `CallDepth`). Both the property and
that the order of the map leaves no trace in the result are proved for every
graph.

## 3. Runs

| Run | Shows | Bounds and why they are enough |
|---|---|---|
| `worker_pool` | no live worker is forgotten, no two share an output directory, calls return, a call that nothing disturbed succeeds and delivers its target, UnitPool is implemented | all five kinds, 3 units, 6 forks, 2 exits, 4 calls: start, boost, pause and restart with two deaths at any points; a pool of three has a master, a slave that stays and a slave that changes |
| `stop_group` | pause and resume reach the whole tree; a stop returns, waits for the root, leaves no process of the label, and kills only what ignores SIGTERM | a root and 2 descendants, any two calls, 2 turns of the waiting loop (10 in the code): in an obedient worker only a descendant outside the group survives the first SIGTERM, and it can fork once, less often than the loop turns |
| `round_scheduler` | budget, charges, quiescence, donors stay out, `best_index` is valid and no donor, the campaign ends | a persistent fuzzer, QSYM and Radamsa; 3 units so that one can hold several; 4 seconds with windows of 1 second give two windows after the first half; rewards up to 2, so that cumulative rewards tie and the lead changes; 2 rounds so that left-over state of a round meets the next |
| `batch_evaluator` | exact counts and stored reports, resource ownership, safe second stage, termination | 3 seeds and 2 jobs: the table is full while a seed waits; 2 edges: a seed may be all new, partly new, not new |
| `seed_sync` | rewarded and found features reach the global pool, nothing is new twice but what the pool has in too large seeds alone, windows reward only what is new | 2 fuzzers, 4 initial and 3 findable seeds (two on the same path in a deep function, of which one is too large, and one with a rare edge), 2 rounds, 2 windows, 1 loss and 1 pool that dies at any point. The fuzzers are symmetric |
| `seed_sync_campaigns` | discoveries reach the pool and edges are new once but for too large seeds, under `-m`, with Radamsa and a restart | 3 seeds with a path each and two of them on the same edge, one of these too large, so that the pool may have an edge in a seed that is never copied, and minimization drops a path (it may also keep everything, which is what happens without `-m`); 2 rounds; 2 campaigns, the first stopped between any two steps; no windows, no losses and no pools that die, which `seed_sync` has (the theorems have all of them together) |
| `output_collect` | seeds are collected, fragments are followed by the whole file unless it was taken away | 2 workers and 2 names, so that names collide or not; 2 contents, so that a file can be written anew; a window and the end of the round, so that a fragment can be copied, completed and copied again; 2 rounds, since queues live on; in each round one file is trimmed, or all are wiped (`MaxRemoved`). The workers and the names are symmetric |
| `long_round` | archived seeds are synchronized, found seeds archived, coverage is shared, only a flush aborts | 3 fuzzers for 2 units (one is never started), 2 workers each, three files of one name (two of them in one fuzzer), one with contents that crash; the guard wakes once while the scripts flush or after they are over; `-m` with minimizations that fail; 2 campaigns |
| `long_round_sync` (violation) | see finding 1 | 2 fuzzers, 2 periods, under `FairSpec` |
| `crash_record` | a crash is paid once, rewards match the saved crashes, the start of a round loses none | an AFL-like fuzzer and LibFuzzer, 2 crashes (one may be found by both), 2 rounds, 2 windows, a death and a fault at any points. The crashes are symmetric |
| `deep_functions` | distances are call depths | all graphs of 4 functions with at most 5 edges, with a driver and without |
| `deep_reachable` (violation) | see finding 2 | as above, with a driver |

`TypeOK` of a module gives the types of its variables; it is an invariant of the
run of the scheduler, where it bounds the charges, and is proved for every
detailed module (`TypeCorrect`; `WalkTypes` for `DeepFunctions`).

Properties by hazard: `EveryWorkerIsTracked` is what makes the final stop reach
every process; `OutputDirsAreDistinct` survives `next_worker_index` starting
again from 1 only because a pool restarts when all its groups are gone;
`ChargedForWhatItHeld` is what keeps the division in `evaluate_all` defined;
`NewOnlyOnce` needs the selection, the pool, the refill and the baseline to fit
together, and holds only while no replay is lost (its premise says so) and but for
features that the pool has in too large seeds alone, which are new again whenever a
fuzzer finds them again;
`WindowRewardsAreNew` holds although the report of an earlier window is read
again after a failed evaluation; `WindowsHaveNoC4` is a consequence worth
knowing: once there is a global record (always, unless the run over the initial
corpus failed), the monitor never rewards a low-frequency edge, because C4 asks
for an edge that has a count and the window for one that is not yet seen. `DiscoveriesReachThePool` is
stronger than `RewardsReachThePool`: manifests, baselines and minimized inputs
all keep seeds from being evaluated, and none of them may hide a feature the
pool does not have; its exceptions (paths of a minimized corpus, the manifest of
an earlier campaign) are the losses the code really has. `RewardsMatchSavedCrashes`
relates two directories that are filled at different times: it rests on the
pause at the end of a round coming before the export and the evaluation.
`RoundStartLosesNoCrash` rests on staging whatever the pool's state is.
`AbortNeedsFlush` bounds finding 1: after the scripts are joined the same code is
safe. `FuzzersShareThePool` rests on an order of three threads' steps: a script empties
its peer queue when it starts, the guard merges, minimizes (which may fail) and
only then updates the peers.

`CHECK_DEADLOCK FALSE` is used for the worker pool and the process tree only:
their behaviours end when the bound on calls is used up. The other models have an
action `Ended` (or the like) for a campaign that is over.

### Fairness

* `WF(Controller)` (worker pool and process tree), `WF(Main)`, `WF(Parent)`:
  legion's main thread and `run_batch` are loops without waiting conditions on others; they run whenever
  they can. Sleeping is a step.
* `WF(ChildExit(s))` for every seed, where `ChildExit` is disabled for a seed
  that hangs: a child that does not hang exits. `WF(Expire(s))`: time passes.
* `LongRound`: `WF(LegionStep)`, `WF(ScriptStep(f))` for every fuzzer and
  `WF(Tick)`: threads and scripts are scheduled by the system and never wait for
  each other except in `join`; time passes. Nothing makes a worker find a seed or
  a user start legion again.
* Nothing is assumed about workers of fuzzers, which may run for ever or die.
  `CallsReturn` needs that finitely many exits happen (`MaxExits`): with workers
  that exit as fast as they are started the append loop of the code does not
  end either.

## 4. Proofs

The theorems hold for every value of the constants that satisfies the module's
assumption, so for any number of fuzzers, workers, seeds, rounds, exits, losses
and faults. Every safety property that a run checks, invariant or action property
or refinement, has its theorem; the others state types, an inductive invariant,
or a consequence no run checks (`NothingLeftBehind`, `DeterminedTheorem`). Every
inductive invariant was an invariant of a TLC run before it was proved.

| Module | Theorem | Establishes |
|---|---|---|
| `WorkerPoolProofs` | `TrackedTheorem` | `EveryWorkerIsTracked` |
| | `DirsTheorem` | `OutputDirsAreDistinct` |
| | `PoolTheorem` | `ImplementsUnitPool`, a refinement |
| | `DeliversTheorem` | `CleanCallDelivers`, an action property |
| | `TypeCorrect` | `TypeOK`: the counts of a pool stay within one unit of the budget |
| `StopGroupProofs` | `Invariance`, `TypeCorrect` | the invariant, `TypeOK` |
| | `PauseTheorem`, `ResumeTheorem`, `StopTheorem` | `PauseIsComplete`, `ResumeIsComplete`, `StopIsComplete` |
| | `DeafTheorem` | `KillOnlyTheDeaf` |
| `RoundSchedulerProofs` | `SchedulerInvariant`, `TypeCorrect` | the invariant; `TypeOK`: no charge becomes negative |
| | `BudgetTheorem`, `GrantTheorem` | `BudgetRespected`, `RunsWithinGrant` |
| | `ChargeTheorem`, `ConservationTheorem` | `ChargedForWhatItHeld`, `ChargeIsConserved` |
| | `BestTheorem`, `QuiescenceTheorem` | `BestIsNoDonor`, `QuiescentWhenEvaluating` |
| | `DonorTheorem` | `DonorsStayOut`, an action property |
| `SeedSyncProofs` | `Invariance`, `TypeCorrect` | the invariant, `TypeOK` |
| | `RewardsTheorem`, `DiscoveriesTheorem` | `RewardsReachThePool`, `DiscoveriesReachThePool` |
| | `NewOnceTheorem` | `NewOnlyOnce` |
| | `WindowsTheorem`, `NoC4Theorem` | `WindowRewardsAreNew`, `WindowsHaveNoC4` |
| | `WalkInvariance`, `WalkTypes` | the invariant of `DeepFunctions`, `WalkTypeOK` |
| | `DepthTheorem` | `VisitedAtCallDepth` |
| | `DeterminedTheorem` | distances and deep functions are determined by the call graph |
| `OutputCollectProofs` | `TypeCorrect` | `TypeOK` |
| | `CollectedTheorem`, `FragmentsTheorem` | `SeedsAreCollected`, `FragmentsAreFollowed` |
| `BatchEvaluatorProofs` | `TypeCorrect`, `ResourcesTheorem` | `TypeOK`, `TasksOwnTheirResources` |
| | `CountsTheorem`, `NamesTheorem` | `CountsAreExact`, `CountedEdgesAreNamed` |
| | `ReplaysTheorem` | `ReplaysAreHarmless` |
| | `NothingLeftBehind` | when `run_batch` returns, no child is left to wait for and no temporary report |
| `CrashRecordProofs` | `TypeCorrect`, `PaidOnceTheorem` | `TypeOK`, `CrashesArePaidOnce` |
| | `SavedTheorem` | `RewardsMatchSavedCrashes` |
| | `RoundStartTheorem` | `RoundStartLosesNoCrash`, an action property |
| `LongRoundProofs` | `Invariance`, `TypeCorrect` | the invariant, `TypeOK` |
| | `FoundTheorem`, `SyncTheorem`, `ShareTheorem` | `FoundSeedsAreArchived`, `ArchivedSeedsAreSynced`, `FuzzersShareThePool` |
| | `AbortTheorem` | `AbortNeedsFlush`, an action property |

### Assumptions

Each component's module has one named assumption on its constants; TLC evaluates
it in every run. Beyond types it asks only for what the program has: at least one
fuzzer (`RoundScheduler`, `LongRound`) and finitely many (`SeedSync`,
`CrashRecord`), at least one resource unit, positive round, monitor and period
times, at least one round in `OutputCollect` and one campaign in `SeedSync` and
`LongRound`, a root process in `StopGroup`, and in `LongRound` an initial corpus
without two files of one name, since it is a directory. A finite set of edges in
`SeedSync` is what makes the sum of the frequencies a number. `DeepFunctions` asks
for a driver among the functions, or none.

### The arguments

**WorkerPool, the processes.** `EveryWorkerIsTracked` rests on `Births`: workers
above `forks` are unborn, and the list is empty when `start_active_round_fuzzer`
clears it. `OutputDirsAreDistinct` rests on `Indices`: `next_worker_index` is
above the index of every live worker, also when it starts again from 1, because
nobody is alive then.

**WorkerPool, the units.** `UInv` bounds the units that run at every program
counter: the target everywhere, one more while the AFL pool is being filled and
paused, at most the loop's own count `active_units` inside the loops. The count
is only an upper bound, because workers exit behind it; that is enough, since the
loop stops resuming when the count reaches the target. In the pausing loops,
whatever runs is still ahead of the cursor. Every step is then a step of
`UnitPool` or a stutter (`Simulates`), one lemma per kind of step. The sums are
the library's fold over a set, defined by a recursive function that picks
elements by `CHOOSE`. That such a function exists and what it yields is shown
from a smallest set that contradicts it (`TableExists`, `TableUnique`,
`SumRemove`): a least element of a set of numbers takes the place of induction.

**WorkerPool, what is delivered.** `Delivering` follows a call that nothing has
disturbed: its groups are all alive, the count is exact, the groups up to the
cursor run, and the AFL pool is full when it is resumed. The upper bound of
`UInv` and this lower bound meet in the target.

**WorkerPool, the counters.** `scheduled_units` is counted up by an append and
recomputed by a compact. `Counters` says that an append happens only where the
count is below what may run; `Slots` that only QSYM is asked for more than the
budget. The one unit above the budget is QSYM's executor or the AFL slave that is
not paused yet, never both, because only the AFL pool is prestarted (`Room`).

**StopGroup.** A scan finds what exists at that moment and the signals come
later, so `Pausing` speaks of two states: after a scan the tree is within `snap`
as long as nothing was forked, and after the signals it is stopped. One fork
spoils one of the two passes, not both: either the first pass was undisturbed and
the fork is outside the stopped tree, or the second one was. `Resuming` needs no
such count, because nothing stops during a resume. `Stopping` uses that a process
with the label is only forked by another one. The lemma `TreeShrinks` says that
every step but a fork makes the tree smaller or leaves it.

`KillOnlyTheDeaf` needs two more parts, about a worker in which nobody ignores
SIGTERM. `Awake`: the signals of the first phase leave no process of the label
asleep, so SIGTERM, which would stay pending on a stopped process, ends the root
at once. `Dwindling`: what a scan by label finds is dead after its signals, so a
check that does not return has found a process forked since; `late` has grown by
at least one for each turn of the loop, and SIGKILL comes after `MaxWaits` turns.

**DeepFunctions.** The reference `Within` is a sequence of levels; that such a
sequence exists, is unique, grows, and is complete after as many steps as there
are functions is shown first (`LevelsExist` to `Saturated`): a level that is not
yet complete has one member more than the one before, so the cardinality of the
set of functions bounds the number of steps. `WalkInv` then has the argument of
Dijkstra's algorithm: visited functions have their depth, an unvisited one the
depth over some visited caller, at most the depth over every visited caller but
`current`. The nearest unvisited function has its depth, because on a shorter
chain there would be an unvisited function of least depth, whose caller is visited
(`WalkVisit`). Functions the driver never reaches come last and all have `Far`,
which is more than any depth.

**RoundScheduler.** The invariant is
`IInv == Types /\ Phases /\ Ledger /\ Grants /\ BudgetRespected`:

* `Phases` ties the locals of `run_one_round` to the program counter: donors and
  the best fuzzer are disjoint and belong to the round, a donor neither runs nor
  is active, units are in transit only between `reclaim` and `boost`, and a
  fuzzer of the round that has not donated holds something.
* `Ledger` is the strengthening of `ChargedForWhatItHeld`: a charge covers what
  was held so far *and* what is held until the end of the round,
  `charge[f] >= spent[f] + Held[f] * Remaining`. A donation lowers the left side
  by exactly what it takes from the second term; a boost raises both; a refused
  boost raises only the left side, which is why this is an inequality.
* `Grants` bounds what runs by what is held, and says nothing runs between
  rounds: `QuiescentWhenEvaluating` follows.
* `BudgetRespected` is a sum over an arbitrary number of fuzzers. `TotalShift`
  says what a total becomes when one summand changes, by giving the new table of
  partial sums; a donation, a boost and a start are such changes (`BudgetShift`).

`ConservationTheorem` adds `Conserved`: the charges and the rest of the round of
the units in transit, `Total(charge) + reclaimed * Remaining`, are the allocated
units times the round time. A refused boost is charged like an accepted one;
this is why the equality holds although the units are lost.

**SeedSync.** `Monitor` and `Record` carry the two theorems about windows: all
that was rewarded is among the features the monitor knows, and an edge has a
count exactly if it is in the record. For the others, `Manifests` says that what
was synchronized had been evaluated, `Evaluated` that the selection has all the
seeds its targets come from (so the greedy selection keeps every target),
`Pool`, `Covered` and `Credit` that without losses the pool covers the input of
the round, the seeds in the manifests and all that was ever paid; `Pool` also says
that the input of a round and the minimized pool have every edge of the pool's
seeds below the size limit, which is why a feature that is new again is in larger
ones only. `FirstCampaign`
separates the first campaign, where no file of an earlier one can be found, from
later ones. The proof corrected the model once: the pool had been the initial
corpus after every restart, also when there is none.

**OutputCollect.** `Copied` describes a snapshot halfway: a file of a paused
worker is still to be copied, or there, or has a namesake. Only the queue of a
running worker changes, so this survives a trimmed file: the namesake that is
taken away is then in `removed`, and its worker runs. `Origin` remembers where a
fragment came from: a file in a queue, or one that was removed.

**BatchEvaluator.** `Children` says what a child may be in each phase of its
life, which is what keeps a task from being finished twice when the timeout and
the answer come together; `Merged` ties the counts to the finished children and
says that the few seeds kept for the second stage have every edge that was seen.
A step finishes nobody, or one child that no count has included.

**CrashRecord.** `Recorded` (what was paid is in the record that decides what is
paid next), `OnDisk` (what was staged or paid in a window is in the run directory
or went with it), `Exported`, and `Settled`: without a fault, a pool outside the
round does not run and has its crashes saved.

**LongRound.** `Control` orders the threads: the guard's first sleep outlasts the
start of the scripts, and the main thread synchronizes after `join`. `Listing`
says why a listed file can be missing: only a script that is copying has taken
it away. `Flushed`, `Synced`, `Progress` and `Sharing` follow a file through the
last flush, the archive, the manifests and the peers' queues.

### Only model-checked

* Liveness (`CampaignEnds`, `CallsReturn`, `BatchEnds`), which rests on fairness.

Induction over numbers, sets and levels takes the form of a least counterexample
in the proofs (`LeastNumber`, `SmallestSet`), since the provers cannot apply the
library's induction theorems.

## 5. Findings

1. **A flush can end the program** (`legion.cc` 2898, run `long_round_sync`). The
   comment says round-new seeds are synchronized every 10 minutes. The script
   empties the round folder while the guard reads it; a file that is gone counts
   as new, `copy_file` throws in a thread without a handler and `std::terminate`
   follows.
2. **Unreachable functions are reported as deep** (`graph_analyzer.cc` 92, run
   `deep_reachable`). A function that calls others but is never reached from the
   driver has the distance `graph.size() + 10`, which passes the threshold; the log
   says the functions are "reachable from the driver function".

Other places where the code and what it says of itself differ, seen in the models
and stated here without a run of their own:

* A long campaign fuzzes for one round only (`legion.cc` 3286): the log announces
  all rounds and the guard watches for all of them, but the scripts are given the
  time of a single round (`RoundTime` in `Copy`), and `run` leaves its loop after
  the long round.
* Merged seeds are replaced by name (`legion.cc` 3085): in long mode `pull_seeds`
  copies queue files into the global pool under the names the fuzzers gave them; a
  later file of the same name replaces a seed that the log counted as merged, and
  the manifest keeps it from being copied again. It is the exception in
  `ArchivedSeedsAreSynced`.
* A monitor window is never added to the historical counts (`global_record.cc`
  747-753), although the comment says it is, after its evaluation:
  `window_edge_counts` is computed and dropped. Together with `WindowsHaveNoC4`,
  metric C4 is always zero in the windows once there is a global record.
* The AFL master can become a paused candidate (`legion.cc` 2453-2464): when a slave
  exits between the compact and its turn in `pause_round_fuzzer_to_units`, the
  failed pause does not lower `active_units`, and the loop goes on to pause the
  master. The log speaks of "1 master + N paused slave candidates". No property
  covers it: `UnitPool` bounds what runs from above, and `CleanCallDelivers`, which
  has the lower bound, is about calls that nothing disturbs.

Met while modelling, without a statement in the repository to hold against it:

* `harvest_edge_to_func` (`entry.cc` 487) stops before the last edge, so that edge
  is counted and never has a function; `CountedEdgesAreNamed` says so.
* C2 of LibFuzzer looks into a directory its crashes are not written to: they are
  saved and never rewarded (`Blind` in `CrashRecord`).
* After a restart the reports of the old campaign are still there, named by round;
  when an evaluation fails, the old report is read as this round's
  (`RewardsReachThePool` therefore asks for no loss in a later campaign).
* A seed above `LEGION_MAX_SEED_SIZE_BYTES` (1 MiB unless set) is rewarded and
  merged like any other, but no script copies it: it is in the global pool and
  never in the input or the baseline of a round (`SEED.sh` 22). A new pool is given
  it by legion, or a worker finds it again, and its features are new again. Without
  `TooLarge` in its conclusion `NewOnlyOnce` is violated in both runs.
* Under `-m`, the paths the minimized pool dropped are new for the queues that are
  resumed in the next round and are rewarded again (`NewOnlyOnce` is about edges
  there).
* `SEED.sh create` writes the default seed below its third argument; without a
  seed archive the pool is the second one and the seed ends up outside it: without `--initial` the pool stays empty, which
  is why `LongRound` starts from an empty pool too. `README.md` line 41 of the
  repository calls `--initial` a directory; the script unzips it.

## 6. Not modelled, and why

* The weights, scores and softmax of `global_record.cc` and `mab.cc` are floating
  point; their results appear as arbitrary allocations, their divisor as a
  charge proved positive. The case without probabilities arises in round 0 only:
  every selected fuzzer is accounted for afterwards.
* Pids that are used again: `stop_process_group` keeps the pids it has seen for
  more than ten seconds and would signal a stranger.
* The error branch of `waitpid` in `run_batch`: it cannot be reached for a child
  that has not been waited for.
* The trace runtime: straight-line code. Its hash set holds one path per child
  process (`launch_seed_in_child` makes a new one), so it never grows.
* The scripts of AFL++, HonggFuzz, LibFuzzer, Angora, QSYM and Radamsa in long mode:
  variants of `AFL.sh` in `LongRound`, AFL++'s without the termination of its
  workers before the last flush, the others with other commands and directories. In rounds,
  legion starts and watches the processes itself, which is `WorkerPool`.
* The size limit in long mode: the files of `LongRound` are all below it. What it
  does to a pool is in `SeedSync`.
* The copy a long round makes of its crashes: one copy, after the scripts are over.
* Command line, build phase, tables of metrics and logging: input and output
  without state of their own.
* The third-party code under `src/docker` (AFL and its descendants, HonggFuzz,
  Angora, QSYM, Radamsa): more than 300,000 lines that the Dockerfile builds into
  the image. Legion knows them as processes, queue directories and crash
  directories, and so do the models; what AFL's `trim_case` does to a queue is an
  action of `OutputCollect`. Legion's own logic, the subject here, has
  about 6000 lines.

## 7. Plan

Done: all modules of section 2 with their runs, and theorems for every safety
property the runs check.

Next: `Composition`, several pools under one scheduler, so that the promise
`UnitPool` is used and implemented in one specification.

## 8. Running

```
cd tla
tlc -workers 2 -config MCWorkerPool.cfg MCWorkerPool
tlc -workers 2 -config MCStopGroup.cfg MCStopGroup
tlc -workers 2 -config MCRoundScheduler.cfg MCRoundScheduler
tlc -workers 2 -config MCBatchEvaluator.cfg MCBatchEvaluator
tlc -workers 2 -config MCSeedSync.cfg MCSeedSync
tlc -workers 2 -config SeedSyncCampaigns.cfg MCSeedSync
tlc -workers 2 -config MCOutputCollect.cfg MCOutputCollect
tlc -workers 2 -config MCCrashRecord.cfg MCCrashRecord
tlc -workers 2 -config MCLongRound.cfg MCLongRound
tlc -workers 2 -config LongRoundSync.cfg MCLongRound          # violated, finding 1
tlc -workers 2 -config DeepFunctions.cfg DeepFunctions
tlc -workers 2 -config DeepFunctionsReach.cfg DeepFunctions   # violated, finding 2
tlapm WorkerPoolProofs.tla
tlapm StopGroupProofs.tla
tlapm RoundSchedulerProofs.tla
tlapm SeedSyncProofs.tla
tlapm OutputCollectProofs.tla
tlapm BatchEvaluatorProofs.tla
tlapm CrashRecordProofs.tla
tlapm LongRoundProofs.tla
```

The definitions marked "Fault:" are mutants of the definition that follows them;
each one breaks the property `PROJECT.json` names for it.
