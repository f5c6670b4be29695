---------------------------- MODULE CrashRecord ----------------------------
(***************************************************************************)
(* The life of the crashes in a campaign of rounds: workers leave them in  *)
(* the run directory of their fuzzer, polls and pauses stage them, the end *)
(* of the round exports the staged ones to saved_crashes (legion.cc), and  *)
(* monitor windows and the final evaluation reward a fuzzer for the ones   *)
(* in its run directory that are new, C2 (global_record.cc).  A pool whose *)
(* workers have all died is started again in an empty run directory.       *)
(*                                                                         *)
(* A crash stands for its contents; files are told apart by fingerprint.   *)
(* A pool is one state: its worker groups are those of module WorkerPool.  *)
(***************************************************************************)
EXTENDS Integers, FiniteSets

CONSTANTS
  Fuzzers,
  Blind,       \* fuzzers whose crashes are not where C2 looks (LibFuzzer)
  Crashes,
  Rounds,      \* round_number
  MaxWindows,  \* bound: monitor windows of a round
  MaxDeaths,   \* bound: pools that die
  MaxFaults    \* bound: pauses that fail and starts that die at once

ASSUME CrashRecordAssumption ==
  /\ IsFiniteSet(Fuzzers) /\ Blind \subseteq Fuzzers
  /\ Rounds \in Nat /\ MaxWindows \in Nat /\ MaxDeaths \in Nat /\ MaxFaults \in Nat

VARIABLES
  pc, round, windows, deaths, faults,
  selected,   \* selected_fuzzers
  started,    \* round_active_indices
  pool,       \* the worker groups: none alive, running or paused
  tracked,    \* state.active or state.groups is not empty
  active,     \* currently_active, from a poll to the end of its window
  best,       \* {best_index} while its pool is to be expanded
  disk,       \* crashes in the run directory
  staged,     \* .round_crashes/<fuzzer>_<round>
  saved,      \* saved_crashes/<fuzzer>/round_<round>
  seen,       \* seen_crash_fingerprints_global
  monSeen,    \* monitor_seen_crash_fingerprints_global
  window,     \* C2 of the last monitor window
  paid,       \* C2 of the final evaluation
  windowed,   \* history: paid in earlier windows of the round, by fuzzer
  wiped,      \* history: removed with the run directory in this round
  lost,       \* history: removed while neither staged nor saved
  kept,       \* history: saved in an earlier round
  credited    \* history: paid in an earlier round

campaign == <<pc, round, windows, deaths, faults>>
chosen   == <<selected, started, active, best>>
pools    == <<pool, tracked>>
files    == <<disk, staged, saved>>
record   == <<seen, monSeen, window, paid>>
history  == <<windowed, wiped, lost, kept, credited>>
vars     == <<campaign, chosen, pools, files, record, history>>

None    == [f \in Fuzzers |-> {}]
Goto(l) == pc' = l
Faults(n) == faults' = faults + n /\ faults' <= MaxFaults

\* collect_crash_fingerprints_for_fuzzer
Visible(f) == IF f \in Blind THEN {} ELSE disk[f]

-----------------------------------------------------------------------------
(* Pools.                                                                  *)

\* start_active_round_fuzzer for the pools P: their run directories are wiped.
\* A start that dies at once leaves the crashes of brief, pairs of a fuzzer
\* and a crash.
Wipe(P, brief) ==
  /\ disk' = [f \in Fuzzers |->
                (IF f \in P THEN {} ELSE disk[f]) \cup {c \in Crashes : <<f, c>> \in brief}]
  /\ lost' = [f \in Fuzzers |->
                IF f \in P THEN lost[f] \cup (disk[f] \ (staged[f] \cup kept[f])) ELSE lost[f]]

Brief(P) == {{}} \cup {{b} : b \in P \X Crashes}

\* A worker finds a crash, whatever the main thread is doing.
Crash(f, c) ==
  /\ pool[f] = "running" /\ c \notin disk[f]
  /\ disk' = [disk EXCEPT ![f] = @ \cup {c}]
  /\ UNCHANGED <<campaign, chosen, pools, staged, saved, record, history>>

\* All workers of a fuzzer are gone.
Die(f) ==
  /\ pool[f] # "none" /\ deaths < MaxDeaths
  /\ deaths' = deaths + 1
  /\ pool' = [pool EXCEPT ![f] = "none"]
  /\ UNCHANGED <<pc, round, windows, faults, chosen, tracked, files, record, history>>

-----------------------------------------------------------------------------
(* A round.                                                                *)

\* The pools of unselected fuzzers are paused, where that does not fail (fail);
\* those of the selected ones are started or resumed, successfully for run.
BeginRound(sel, run, fail, brief) ==
  LET Empty == {f \in sel : pool[f] = "none"} IN
  /\ pc = "begin" /\ round < Rounds
  /\ selected' = sel /\ started' = run /\ UNCHANGED <<active, best>>
  /\ monSeen' = seen   \* reset_monitor_state
  /\ Wipe(Empty, brief)
  /\ pool' = [f \in Fuzzers |-> IF f \in run THEN "running"
                                ELSE IF f \notin sel \cup fail /\ pool[f] = "running" THEN "paused"
                                ELSE pool[f]]
  /\ tracked' = [f \in Fuzzers |-> pool'[f] # "none"]
  /\ Faults(Cardinality(fail) + Cardinality(brief))
  /\ Goto("fuzz")
  /\ UNCHANGED <<round, windows, deaths, staged, saved, seen, window, paid, windowed, wiped, kept,
                 credited>>

\* Fault: the crashes of a pool that is not running are not looked at.
StagedIfRunning(P) ==
  [f \in Fuzzers |-> IF f \in P /\ pool[f] = "running" THEN staged[f] \cup disk[f] ELSE staged[f]]

\* Fault: crashes are staged from where C2 looks for them.
StagedVisible(P) ==
  [f \in Fuzzers |-> IF f \in P THEN staged[f] \cup Visible(f) ELSE staged[f]]

\* stage_current_round_crashes for the fuzzers P.
Staged(P) == [f \in Fuzzers |-> IF f \in P THEN staged[f] \cup disk[f] ELSE staged[f]]

Active == {f \in started : pool[f] = "running"}

\* stop_active_round_fuzzer for the fuzzers of the round: a pool known to be
\* gone is not staged again.
Poll ==
  /\ pc = "fuzz" /\ windows < MaxWindows
  /\ windows' = windows + 1
  /\ staged' = Staged({f \in started : tracked[f]})
  /\ tracked' = [f \in Fuzzers |-> IF f \in started THEN pool[f] # "none" ELSE tracked[f]]
  /\ active' = Active
  /\ Goto(IF active' # {} THEN "window" ELSE "fuzz")
  /\ UNCHANGED <<round, deaths, faults, selected, started, best, pool, disk, saved, record, history>>

\* Fault: what only one of the active fuzzers has is forgotten.
RememberedCommon == monSeen \cup {c \in Crashes : \A f \in active : c \in Visible(f)}

Remembered == monSeen \cup UNION {Visible(f) : f \in active}

\* evaluate_monitor_corpus takes its time; then evaluate_monitor_window looks
\* into the run directories, where there may be more by now than was staged.
Pay ==
  /\ window' = [f \in Fuzzers |-> IF f \in active THEN Visible(f) \ monSeen ELSE {}]
  /\ monSeen' = Remembered
  /\ windowed' = [f \in Fuzzers |-> windowed[f] \cup window[f]]
  /\ active' = {}

\* No fuzzer is rewarded and the round is over, or nobody gives units away.
Window(next) ==
  /\ pc = "window"
  /\ Pay
  /\ next = "pause" => window' = None
  /\ Goto(next)
  /\ UNCHANGED <<round, windows, deaths, faults, selected, started, best, pools, files, seen, paid, wiped, lost, kept,
                 credited>>

\* Fuzzers without a reward are paused and staged, and the best one is to be
\* expanded if there is time left.
Reclaim(donors, b, fail, next) ==
  /\ pc = "window"
  /\ Pay
  /\ \A f \in donors : window'[f] = {}
  /\ pool' = [f \in Fuzzers |->
                IF f \in donors \ fail /\ pool[f] = "running" THEN "paused" ELSE pool[f]]
  /\ tracked' = [f \in Fuzzers |-> IF f \in donors THEN pool[f] # "none" ELSE tracked[f]]
  /\ staged' = Staged(donors)
  /\ Faults(Cardinality(fail))
  /\ best' = IF next = "boost" THEN {b} ELSE {}
  /\ Goto(next)
  /\ UNCHANGED <<round, windows, deaths, selected, started, disk, saved, seen, paid, wiped, lost,
                 kept, credited>>

\* ensure_active_round_fuzzer_units for the best fuzzer starts its pool again
\* if all of it has died meanwhile.
Boost(ok, brief) ==
  LET P == {f \in best : pool[f] = "none"} IN
  /\ pc = "boost"
  /\ P = {} => ok
  /\ Wipe(P, brief)
  /\ wiped' = [f \in Fuzzers |-> IF f \in P THEN wiped[f] \cup disk[f] ELSE wiped[f]]
  /\ pool' = [f \in Fuzzers |-> IF f \in best /\ ok THEN "running" ELSE pool[f]]
  /\ tracked' = [f \in Fuzzers |-> IF f \in best THEN ok ELSE tracked[f]]
  /\ Faults(Cardinality(brief))
  /\ best' = {}
  /\ Goto("fuzz")
  /\ UNCHANGED <<round, windows, deaths, selected, started, active, staged, saved, record, windowed,
                 kept, credited>>

\* The round is over: its fuzzers are paused and staged.
PauseAll(fail) ==
  /\ pc \in {"fuzz", "pause"}
  /\ pool' = [f \in Fuzzers |->
                IF f \in started \ fail /\ pool[f] = "running" THEN "paused" ELSE pool[f]]
  /\ tracked' = [f \in Fuzzers |-> IF f \in started THEN pool[f] # "none" ELSE tracked[f]]
  /\ staged' = Staged(started)
  /\ Faults(Cardinality(fail))
  /\ Goto("export")
  /\ UNCHANGED <<round, windows, deaths, chosen, disk, saved, record, history>>

\* export_staged_round_crashes for the selected fuzzers.
Export ==
  /\ pc = "export"
  /\ saved' = [f \in Fuzzers |-> IF f \in selected THEN staged[f] ELSE {}]
  /\ Goto("evaluate")
  /\ UNCHANGED <<round, windows, deaths, faults, chosen, pools, disk, staged, record, history>>

\* evaluate_all
Evaluate ==
  /\ pc = "evaluate"
  /\ paid' = [f \in Fuzzers |-> IF f \in selected THEN Visible(f) \ seen ELSE {}]
  /\ seen' = seen \cup UNION {Visible(f) : f \in selected}
  /\ Goto("end")
  /\ UNCHANGED <<round, windows, deaths, faults, chosen, pools, files, monSeen, window, history>>

\* The staging directories are removed.
EndRound ==
  /\ pc = "end"
  /\ staged' = None /\ saved' = None /\ paid' = None /\ window' = None /\ windowed' = None
  /\ wiped' = None
  /\ kept' = [f \in Fuzzers |-> kept[f] \cup saved[f]]
  /\ credited' = credited \cup UNION {paid[f] : f \in Fuzzers}
  /\ selected' = {} /\ started' = {} /\ windows' = 0 /\ round' = round + 1
  /\ Goto("begin")
  /\ UNCHANGED <<deaths, faults, active, best, pools, disk, seen, monSeen, lost>>

Ended == pc = "begin" /\ round = Rounds /\ UNCHANGED vars

Init ==
  /\ pc = "begin" /\ round = 0 /\ windows = 0 /\ deaths = 0 /\ faults = 0
  /\ selected = {} /\ started = {} /\ active = {} /\ best = {}
  /\ pool = [f \in Fuzzers |-> "none"] /\ tracked = [f \in Fuzzers |-> FALSE]
  /\ disk = None /\ staged = None /\ saved = None /\ window = None /\ paid = None
  /\ seen = {} /\ monSeen = {} /\ credited = {}
  /\ windowed = None /\ wiped = None /\ lost = None /\ kept = None

Running(S) == {f \in S : pool[f] = "running"}
Gone(S)    == {f \in S : pool[f] = "none"}

Next ==
  \/ \E sel \in (SUBSET Fuzzers) \ {{}} : \E run \in SUBSET sel :
       \E fail \in SUBSET Running(Fuzzers \ sel), brief \in Brief(Gone(sel \ run)) :
         BeginRound(sel, run, fail, brief)
  \/ \E f \in Fuzzers, c \in Crashes : Crash(f, c)
  \/ \E f \in Fuzzers : Die(f)
  \/ Poll
  \/ \E next \in {"fuzz", "pause"} : Window(next)
  \/ \E b \in active : \E donors \in (SUBSET (active \ {b})) \ {{}} :
       \E fail \in SUBSET Running(donors), next \in {"boost", "fuzz"} :
         Reclaim(donors, b, fail, next)
  \/ \E ok \in BOOLEAN : \E brief \in IF ok THEN {{}} ELSE Brief(best) : Boost(ok, brief)
  \/ \E fail \in SUBSET Running(started) : PauseAll(fail)
  \/ Export \/ Evaluate \/ EndRound
  \/ Ended

Spec == Init /\ [][Next]_vars

-----------------------------------------------------------------------------
(* Properties.                                                             *)

\* Every variable has its type.
TypeOK ==
  /\ pc \in {"begin", "fuzz", "window", "boost", "pause", "export", "evaluate", "end"}
  /\ round \in 0..Rounds /\ windows \in 0..MaxWindows
  /\ deaths \in 0..MaxDeaths /\ faults \in 0..MaxFaults
  /\ active \subseteq started /\ best \subseteq started /\ started \subseteq selected
  /\ selected \subseteq Fuzzers
  /\ pool \in [Fuzzers -> {"none", "running", "paused"}] /\ tracked \in [Fuzzers -> BOOLEAN]
  /\ \A v \in {disk, staged, saved, window, paid, windowed, wiped, lost, kept} :
       v \in [Fuzzers -> SUBSET Crashes]
  /\ seen \subseteq Crashes /\ monSeen \subseteq Crashes /\ credited \subseteq Crashes

\* A crash is rewarded in the final evaluation of one round only, and in one
\* monitor window of a round only, although its file stays in the run directory
\* and is found again by other fuzzers and by pools that were started anew.
CrashesArePaidOnce ==
  \A f \in Fuzzers :
    /\ pc = "end" => paid[f] \cap credited = {}
    /\ window[f] \cap windowed[f] = {}

\* Crashes are rewarded from the run directory and saved from the staging
\* directory.  The final evaluation rewards a fuzzer of the round only for what
\* is saved, and so do the windows unless the pool was started anew after them,
\* as long as pauses succeed and no start dies at once.
PaidCrashesAreSaved ==
  pc = "end" /\ faults = 0 =>
    \A f \in started :
      /\ paid[f] \subseteq saved[f]
      /\ windowed[f] \cup window[f] \subseteq saved[f] \cup wiped[f]

\* What is saved has been counted, by the time the round ends: a saved crash of
\* a selected fuzzer is in the record, unless the pool was started anew or C2
\* looks in the wrong directory.
SavedCrashesAreCounted ==
  pc = "end" => \A f \in selected \ Blind : saved[f] \subseteq seen \cup wiped[f]

\* The rewards and the saved crashes, which are taken from different directories
\* at different times, agree.
RewardsMatchSavedCrashes == PaidCrashesAreSaved /\ SavedCrashesAreCounted

\* A pool that has died is started again at the beginning of a round, in an
\* empty run directory, without losing a crash: it was staged and saved in the
\* round before, whenever the pool died.
RoundStartLosesNoCrash ==
  [][pc = "begin" /\ faults = 0 => lost' = lost]_vars
=============================================================================
