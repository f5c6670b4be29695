----------------------------- MODULE WorkerPool -----------------------------
(***************************************************************************)
(* The worker processes of ONE fuzzer and the code of legion.cc that       *)
(* starts, appends, pauses, resumes and stops them: active_round_fuzzer_t  *)
(* and ensure_/pause_/resume_/stop_/compact_active_round_fuzzer...         *)
(*                                                                         *)
(* A worker is a process group forked by start_command_process_group.  It  *)
(* may exit at any moment, between any two system calls of the controller. *)
(* The controller's loops take one group per step, so every such moment is *)
(* a state of the model.  compact_active_round_fuzzer_groups is one step:  *)
(* it asks waitpid about each group once and does nothing else, so an exit *)
(* during it is the same as an exit just before or just after it.          *)
(*                                                                         *)
(* A worker is named by the ordinal of its fork.  The code pushes new      *)
(* groups at the back of state.groups and never reorders them, so the      *)
(* order of the vector is the order of these ordinals.                     *)
(***************************************************************************)
EXTENDS Integers, FiniteSets, Functions

CONSTANTS
  Kinds,           \* which kinds of fuzzer to explore, a subset of AllKinds
  ResourceUnits,   \* resource_unit_number, the -u / --resource option
  MaxForks,        \* bound: forks in a behaviour
  MaxExits,        \* bound: worker exits in a behaviour
  MaxCalls         \* bound: calls of the round scheduler in a behaviour

(* The fuzzers fall into five groups that the control code tells apart:    *)
(*   afl     AFL++, AFL, AFLFast, FairFuzz: a prestarted pool              *)
(*   qsym    QSYM: an AFL master and the symbolic executor as a base       *)
(*   plain   LibFuzzer, Angora: one worker, more appended on demand        *)
(*   single  HonggFuzz: one worker, no runtime append                      *)
(*   fresh   Radamsa: new processes every round, never paused by the round *)
AllKinds == {"afl", "qsym", "plain", "single", "fresh"}

ASSUME WorkerPoolAssumption ==
  /\ Kinds \subseteq AllKinds /\ Kinds # {}
  /\ ResourceUnits \in Nat \ {0}
  /\ MaxForks \in Nat /\ MaxExits \in Nat /\ MaxCalls \in Nat

Workers == 1..MaxForks

VARIABLES
  kind,      \* the fuzzer's kind; chosen initially, never changed
  proc,      \* [Workers -> ProcState], what the operating system knows
  groups,    \* state.groups
  units,     \* worker_process_group_t.units of each worker
  paused,    \* worker_process_group_t.paused of each worker
  index,     \* the index in the worker's output directory name; -1 = none
  scheduled, \* state.scheduled_units
  active,    \* state.active
  nextIndex, \* state.next_worker_index
  pc,        \* where the controller is; "idle" between calls
  ret,       \* where pause_round_fuzzer_to_units returns to
  target,    \* target_units of the running (or last) ensure call
  cursor,    \* the loops' iterator, a worker
  act,       \* active_units, the local count of the loops
  inRound,   \* the last ensure call of this round succeeded
  clean,     \* history: no exit and no failed fork during this ensure call
  forks, exits, calls

state == <<groups, units, paused, index, scheduled, active, nextIndex>>
local == <<ret, target, cursor, act>>
vars  == <<kind, proc, state, pc, local, inRound, clean, forks, exits, calls>>

ProcState == {"unborn", "running", "stopped", "dead"}

Alive(w)   == proc[w] \in {"running", "stopped"}
Running    == {w \in Workers : proc[w] = "running"}
UnitsOf(S) == SumFunctionOnSet(units, S)

\* reap_finished_process_group: waitpid(pid, WNOHANG) answers for the group.
Survivors == {w \in groups : Alive(w)}
ActiveUnits == UnitsOf({w \in Survivors : ~paused[w]})

\* compact_active_round_fuzzer_groups
Compact ==
  /\ groups' = Survivors
  /\ scheduled' = ActiveUnits
  /\ active' = (ActiveUnits > 0)
  /\ UNCHANGED <<units, paused, index, nextIndex>>

Goto(l) == pc' = l

-----------------------------------------------------------------------------
(* Forking.  push_back of a worker_process_group_t for the next pid.       *)

Push(base, u, ix) ==
  LET w == forks + 1 IN
  /\ forks < MaxForks
  /\ forks' = w
  /\ proc' = [proc EXCEPT ![w] = "running"]
  /\ groups' = base \cup {w}
  /\ units' = [units EXCEPT ![w] = u]
  /\ paused' = [paused EXCEPT ![w] = FALSE]
  /\ index' = [index EXCEPT ![w] = ix]

\* start_process_group returned -1, or the runtime directory has no seeds.
NoFork == clean' = FALSE /\ UNCHANGED <<proc, groups, units, paused, index, forks>>

Return(ok) ==
  /\ Goto("idle")
  /\ inRound' = ok

-----------------------------------------------------------------------------
(* ensure_active_round_fuzzer_units                                        *)

Body == IF kind = "afl" THEN "pool" ELSE "resume"

\* Fault: restarts when nothing runs, although paused groups are there.
EnsureBeginWhenIdle ==
  /\ pc = "ensure"
  /\ Compact
  /\ Goto(IF ActiveUnits = 0 THEN "start" ELSE Body)
  /\ UNCHANGED <<kind, proc, local, inRound, clean, forks, exits, calls>>

EnsureBegin ==
  /\ pc = "ensure"
  /\ Compact
  /\ Goto(IF Survivors = {} THEN "start" ELSE Body)
  /\ UNCHANGED <<kind, proc, local, inRound, clean, forks, exits, calls>>

\* start_active_round_fuzzer up to its first fork.
StartOk ==
  /\ pc = "start"
  /\ Push({}, IF kind = "fresh" THEN target ELSE 1,
          IF kind \in {"afl", "qsym"} THEN 0 ELSE -1)
  /\ scheduled' = CASE kind = "fresh" -> target [] kind = "qsym" -> 2 [] OTHER -> 1
  /\ active' = (kind # "qsym")
  /\ nextIndex' = 1
  /\ Goto(IF kind = "qsym" THEN "qsymwait" ELSE Body)
  /\ UNCHANGED <<kind, local, inRound, clean, exits, calls>>

StartFail ==
  /\ pc = "start"
  /\ NoFork
  /\ scheduled' = 0
  /\ Return(FALSE)
  /\ UNCHANGED <<kind, active, nextIndex, local, exits, calls>>

\* The QSYM base group: wait_for_file_path(fuzzer_stats), then the executor.
QsymExecutorOk ==
  /\ pc = "qsymwait"
  /\ Push(groups, 1, -1)
  /\ scheduled' = 2
  /\ active' = TRUE
  /\ Goto("resume")
  /\ UNCHANGED <<kind, nextIndex, local, inRound, clean, exits, calls>>

\* No fuzzer_stats in time, or no fork: stop_persistent_round_fuzzer.
QsymExecutorFail ==
  /\ pc = "qsymwait"
  /\ proc' = [w \in Workers |-> IF w \in groups THEN "dead" ELSE proc[w]]
  /\ groups' = {}
  /\ scheduled' = 0
  /\ active' = FALSE
  /\ clean' = FALSE
  /\ Return(FALSE)
  /\ UNCHANGED <<kind, units, paused, index, nextIndex, local, forks, exits, calls>>

-----------------------------------------------------------------------------
(* append_active_round_fuzzer with additional_units = 1                    *)

\* Fault: numbers the new worker by the size of the pool.
AppendBySize ==
  /\ Push(groups, 1, IF kind \in {"afl", "qsym"} THEN Cardinality(groups) ELSE -1)
  /\ scheduled' = scheduled + 1
  /\ nextIndex' = nextIndex + 1
  /\ active' = TRUE

Append ==
  /\ Push(groups, 1, IF kind \in {"afl", "qsym"} THEN nextIndex ELSE -1)
  /\ scheduled' = scheduled + 1
  /\ nextIndex' = nextIndex + 1
  /\ active' = TRUE

\* The prestart loop of the AFL pool: append, pause down to the target.
PoolAppendOk ==
  /\ pc = "pool"
  /\ UnitsOf(groups) < ResourceUnits
  /\ Append
  /\ Goto("pause") /\ ret' = "pool"
  /\ UNCHANGED <<kind, target, cursor, act, inRound, clean, exits, calls>>

PoolAppendFail ==
  /\ pc = "pool"
  /\ UnitsOf(groups) < ResourceUnits
  /\ NoFork
  /\ Goto("resume")
  /\ UNCHANGED <<kind, scheduled, active, nextIndex, local, inRound, exits, calls>>

PoolFull ==
  /\ pc = "pool"
  /\ UnitsOf(groups) >= ResourceUnits
  /\ Goto("resume")
  /\ UNCHANGED <<kind, proc, state, local, inRound, clean, forks, exits, calls>>

\* The other kinds grow after resuming: while compact() < target append.
GrowDone ==
  /\ pc = "grow"
  /\ Compact
  /\ ActiveUnits >= target
  /\ Goto("pause") /\ ret' = "final"
  /\ UNCHANGED <<kind, proc, target, cursor, act, inRound, clean, forks, exits, calls>>

GrowCompact ==
  /\ pc = "grow"
  /\ Compact
  /\ ActiveUnits < target
  /\ Goto("append")
  /\ UNCHANGED <<kind, proc, local, inRound, clean, forks, exits, calls>>

GrowAppendOk ==
  /\ pc = "append"
  /\ kind # "single"
  /\ Append
  /\ Goto("grow")
  /\ UNCHANGED <<kind, local, inRound, clean, exits, calls>>

\* Fault: tries again instead of leaving the loop.
GrowAppendRetry ==
  /\ pc = "append"
  /\ UNCHANGED <<proc, groups, units, paused, index, forks>>
  /\ clean' = (clean /\ kind = "single")
  /\ Goto("grow")
  /\ UNCHANGED <<kind, scheduled, active, nextIndex, local, inRound, exits, calls>>

\* supports_runtime_append is false for HonggFuzz.
GrowAppendFail ==
  /\ pc = "append"
  /\ UNCHANGED <<proc, groups, units, paused, index, forks>>
  /\ clean' = (clean /\ kind = "single")
  /\ Goto("pause") /\ ret' = "final"
  /\ UNCHANGED <<kind, scheduled, active, nextIndex, target, cursor, act, inRound, exits, calls>>

-----------------------------------------------------------------------------
(* resume_round_fuzzer_to_units: front to back, a dead group counts as     *)
(* not resumed.                                                            *)

AfterResume == IF kind = "afl" THEN "pause" ELSE "grow"

First(S) == CHOOSE w \in S : \A v \in S : w <= v
Last(S)  == CHOOSE w \in S : \A v \in S : w >= v

\* Fault: is content with one unit less.
ResumeBeginEarly ==
  /\ pc = "resume"
  /\ Compact
  /\ act' = ActiveUnits
  /\ cursor' = 0
  /\ IF ActiveUnits + 1 >= target
     THEN Goto(AfterResume) /\ ret' = "final"
     ELSE Goto("resuming") /\ UNCHANGED ret
  /\ UNCHANGED <<kind, proc, target, inRound, clean, forks, exits, calls>>

ResumeBegin ==
  /\ pc = "resume"
  /\ Compact
  /\ act' = ActiveUnits
  /\ cursor' = 0
  /\ IF ActiveUnits >= target
     THEN Goto(AfterResume) /\ ret' = "final"
     ELSE Goto("resuming") /\ UNCHANGED ret
  /\ UNCHANGED <<kind, proc, target, inRound, clean, forks, exits, calls>>

ToResume == {w \in groups : w > cursor /\ paused[w]}

ResumeOne ==
  /\ pc = "resuming"
  /\ act < target /\ ToResume # {}
  /\ LET w == First(ToResume) IN
       /\ cursor' = w
       /\ IF Alive(w)
          THEN /\ proc' = [proc EXCEPT ![w] = "running"]
               /\ paused' = [paused EXCEPT ![w] = FALSE]
               /\ act' = act + units[w]
          ELSE UNCHANGED <<proc, paused, act>>
  /\ UNCHANGED <<kind, groups, units, index, scheduled, active, nextIndex,
                 pc, ret, target, inRound, clean, forks, exits, calls>>

ResumeEnd ==
  /\ pc = "resuming"
  /\ act >= target \/ ToResume = {}
  /\ Compact
  /\ Goto(AfterResume) /\ ret' = "final"
  /\ UNCHANGED <<kind, proc, target, cursor, act, inRound, clean, forks, exits, calls>>

-----------------------------------------------------------------------------
(* pause_round_fuzzer_to_units: back to front, so the master goes last.    *)

PauseBegin ==
  /\ pc = "pause"
  /\ Compact
  /\ act' = ActiveUnits
  /\ cursor' = forks + 1
  /\ Goto(IF ActiveUnits <= target THEN ret ELSE "pausing")
  /\ UNCHANGED <<kind, proc, ret, target, inRound, clean, forks, exits, calls>>

\* Fault: off by one in the units that may be paused.
ToPauseStrict == {w \in groups : /\ w < cursor /\ ~paused[w]
                                 /\ units[w] < act - target}

ToPause == {w \in groups : /\ w < cursor /\ ~paused[w]
                           /\ units[w] <= act - target}

\* pause_process_group: nothing happens when waitpid says it has finished.
StopSignal(w) ==
  IF Alive(w)
  THEN /\ proc' = [proc EXCEPT ![w] = "stopped"]
       /\ paused' = [paused EXCEPT ![w] = TRUE]
  ELSE UNCHANGED <<proc, paused>>

PauseOne ==
  /\ pc = "pausing"
  /\ act > target /\ ToPause # {}
  /\ LET w == Last(ToPause) IN
       /\ cursor' = w
       /\ StopSignal(w)
       /\ act' = IF Alive(w) THEN act - units[w] ELSE act
  /\ UNCHANGED <<kind, groups, units, index, scheduled, active, nextIndex,
                 pc, ret, target, inRound, clean, forks, exits, calls>>

PauseEnd ==
  /\ pc = "pausing"
  /\ act <= target \/ ToPause = {}
  /\ Compact
  /\ Goto(ret)
  /\ UNCHANGED <<kind, proc, local, inRound, clean, forks, exits, calls>>

\* return compact_active_round_fuzzer_groups(state) > 0
EnsureReturn ==
  /\ pc = "final"
  /\ Compact
  /\ Return(ActiveUnits > 0)
  /\ UNCHANGED <<kind, proc, local, clean, forks, exits, calls>>

-----------------------------------------------------------------------------
(* pause_active_round_fuzzer: every group, front to back.                  *)

PauseAllBegin ==
  /\ pc = "pauseall"
  /\ Compact
  /\ cursor' = 0
  /\ Goto("pausingall")
  /\ UNCHANGED <<kind, proc, ret, target, act, inRound, clean, forks, exits, calls>>

ToPauseAll == {w \in groups : w > cursor /\ ~paused[w]}

PauseAllOne ==
  /\ pc = "pausingall"
  /\ ToPauseAll # {}
  /\ LET w == First(ToPauseAll) IN cursor' = w /\ StopSignal(w)
  /\ UNCHANGED <<kind, groups, units, index, scheduled, active, nextIndex,
                 pc, ret, target, act, inRound, clean, forks, exits, calls>>

PauseAllEnd ==
  /\ pc = "pausingall"
  /\ ToPauseAll = {}
  /\ scheduled' = 0
  /\ active' = FALSE
  /\ Return(FALSE)
  /\ UNCHANGED <<kind, proc, groups, units, paused, index, nextIndex, local,
                 clean, forks, exits, calls>>

\* stop_persistent_round_fuzzer and stop_active_round_fuzzer(force_stop):
\* SIGCONT, SIGTERM and at last SIGKILL leave no process of the label.
StopAll ==
  /\ pc = "stopall"
  /\ proc' = [w \in Workers |-> IF w \in groups THEN "dead" ELSE proc[w]]
  /\ groups' = {}
  /\ scheduled' = 0
  /\ active' = FALSE
  /\ Return(FALSE)
  /\ UNCHANGED <<kind, units, paused, index, nextIndex, local, clean, forks, exits, calls>>

-----------------------------------------------------------------------------
(* The calls of run_one_round and run.                                     *)

Call(l) ==
  /\ pc = "idle"
  /\ calls < MaxCalls
  /\ calls' = calls + 1
  /\ Goto(l)

\* runtime_resource_units_for_fuzzer: QSYM runs one unit more than it is
\* charged for.
RuntimeUnits(n) == IF kind = "qsym" THEN n + 1 ELSE n

\* Selected for a round: Radamsa's old processes are stopped by "stopall"
\* first, so its pool is empty here.
CallRoundStart(n) ==
  /\ ~inRound
  /\ kind = "fresh" => groups = {}
  /\ Call("ensure")
  /\ target' = RuntimeUnits(n)
  /\ clean' = TRUE
  /\ UNCHANGED <<kind, proc, state, ret, cursor, act, inRound, forks, exits>>

\* The best fuzzer of a monitor window receives reclaimed units.
CallBoost(n) ==
  /\ inRound /\ active
  /\ RuntimeUnits(n) > target
  /\ Call("ensure")
  /\ target' = RuntimeUnits(n)
  /\ clean' = TRUE
  /\ UNCHANGED <<kind, proc, state, ret, cursor, act, inRound, forks, exits>>

\* stop_active_round_fuzzer(state, round, false): the monitor's poll.
CallPoll ==
  /\ inRound
  /\ Call("idle")
  /\ Compact
  /\ UNCHANGED <<kind, proc, local, inRound, clean, forks, exits>>

\* A donor, the end of the round, or a fuzzer not selected for the round.
CallPause ==
  /\ inRound \/ groups # {}
  /\ Call(IF kind = "fresh" THEN "stopall" ELSE "pauseall")
  /\ UNCHANGED <<kind, proc, state, local, inRound, clean, forks, exits>>

\* run() stops every pool when the campaign ends.
CallShutdown ==
  /\ ~inRound /\ groups # {}
  /\ Call("stopall")
  /\ UNCHANGED <<kind, proc, state, local, inRound, clean, forks, exits>>

\* A worker crashes, finishes or is killed from outside.
Exit(w) ==
  /\ Alive(w)
  /\ exits < MaxExits
  /\ exits' = exits + 1
  /\ proc' = [proc EXCEPT ![w] = "dead"]
  /\ clean' = FALSE
  /\ UNCHANGED <<kind, state, pc, local, inRound, forks, calls>>

Init ==
  /\ kind \in Kinds
  /\ proc = [w \in Workers |-> "unborn"]
  /\ groups = {}
  /\ units = [w \in Workers |-> 0]
  /\ paused = [w \in Workers |-> FALSE]
  /\ index = [w \in Workers |-> -1]
  /\ scheduled = 0
  /\ active = FALSE
  /\ nextIndex = 1
  /\ pc = "idle" /\ ret = "final" /\ target = 0 /\ cursor = 0 /\ act = 0
  /\ inRound = FALSE
  /\ clean = TRUE
  /\ forks = 0 /\ exits = 0 /\ calls = 0

Controller ==
  \/ EnsureBegin \/ StartOk \/ StartFail \/ QsymExecutorOk \/ QsymExecutorFail
  \/ PoolAppendOk \/ PoolAppendFail \/ PoolFull
  \/ GrowDone \/ GrowCompact \/ GrowAppendOk \/ GrowAppendFail
  \/ ResumeBegin \/ ResumeOne \/ ResumeEnd
  \/ PauseBegin \/ PauseOne \/ PauseEnd \/ EnsureReturn
  \/ PauseAllBegin \/ PauseAllOne \/ PauseAllEnd \/ StopAll

Scheduler ==
  \/ \E n \in 1..ResourceUnits : CallRoundStart(n) \/ CallBoost(n)
  \/ CallPoll \/ CallPause \/ CallShutdown

Next == Controller \/ Scheduler \/ \E w \in Workers : Exit(w)

\* The controller is the main thread of legion: it runs whenever it can.
Spec == Init /\ [][Next]_vars /\ WF_vars(Controller)

-----------------------------------------------------------------------------
(* Properties.                                                             *)

Labels == {"idle", "ensure", "start", "qsymwait", "pool", "grow", "append", "resume",
           "resuming", "pause", "pausing", "final", "pauseall", "pausingall", "stopall"}

\* Every variable has its type; the counters stay within one unit of the
\* resource budget (QSYM's symbolic executor, or the AFL slave just forked).
TypeOK ==
  /\ kind \in Kinds
  /\ proc \in [Workers -> ProcState]
  /\ groups \subseteq Workers
  /\ units \in [Workers -> 0..ResourceUnits]
  /\ paused \in [Workers -> BOOLEAN]
  /\ index \in [Workers -> -1..MaxForks]
  /\ scheduled \in 0..(ResourceUnits + 1)
  /\ active \in BOOLEAN /\ inRound \in BOOLEAN /\ clean \in BOOLEAN
  /\ nextIndex \in 1..(MaxForks + 1)
  /\ pc \in Labels /\ ret \in {"pool", "final"}
  /\ target \in 0..(ResourceUnits + 1)
  /\ cursor \in 0..(MaxForks + 1)
  /\ act \in 0..(ResourceUnits + 1)
  /\ forks \in 0..MaxForks /\ exits \in 0..MaxExits /\ calls \in 0..MaxCalls

\* No worker escapes the bookkeeping: a live process is always in
\* state.groups, and the paused flag of its group says whether it is stopped,
\* so that a later pause or stop reaches it (state.groups.clear() in
\* start_active_round_fuzzer forgets no process).
EveryWorkerIsTracked ==
  \A w \in Workers : Alive(w) => /\ w \in groups
                                 /\ paused[w] = (proc[w] = "stopped")

\* Two live workers never share an output directory: the index in
\* "-S fuzzer<N>" is unique although workers die, pools restart and
\* next_worker_index starts again from 1.
OutputDirsAreDistinct ==
  \A v, w \in Workers : Alive(v) /\ Alive(w) /\ v # w /\ index[v] >= 0
                           => index[v] # index[w]

\* A call of ensure_active_round_fuzzer_units during which no worker exited and
\* no fork failed answers true and delivers exactly what was asked (HonggFuzz
\* cannot append and always runs one worker).  Where the code resumes before it
\* appends, the oldest worker runs: QSYM's AFL master does not wait while a
\* slave runs.
Delivered ==
  /\ UnitsOf(Running) = IF kind = "single" THEN 1 ELSE target
  /\ kind # "afl" => First(groups) \in Running

CleanCallDelivers ==
  [][/\ pc \in {"start", "qsymwait", "final"} /\ pc' = "idle"
     /\ clean'
     => inRound' /\ Delivered']_vars

\* Every call of the round scheduler returns, although workers keep exiting
\* while the append and resume loops count them.
CallsReturn == (pc # "idle") ~> (pc = "idle")

\* What run_one_round relies on: UnitPool.
Pool == INSTANCE UnitPool
          WITH busy <- pc # "idle",
               cap <- IF pc \in {"pauseall", "pausingall", "stopall"} THEN 0
                      ELSE IF pc # "idle" \/ inRound THEN target ELSE 0,
               running <- UnitsOf(Running),
               granted <- inRound

\* The worker pool implements UnitPool: a call never lets more than one unit
\* above its target run, a finished call leaves at most the target running, a
\* finished pause or stop leaves nothing running, and the answer tells whether
\* anything runs.
ImplementsUnitPool == Pool!Spec
=============================================================================
