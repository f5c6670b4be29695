--------------------------- MODULE RoundScheduler ---------------------------
(***************************************************************************)
(* run_one_round (legion.cc) and the campaign loop of run(): the resource  *)
(* units of a round are allocated, every selected fuzzer's pool is brought *)
(* to its units, the second half of the round is watched in monitor        *)
(* windows, stagnating fuzzers give all their units to the best one, and   *)
(* the time every fuzzer held its units is charged to it.                  *)
(*                                                                         *)
(* The worker pools appear as UnitPool promises: ensure(n) leaves at most  *)
(* n units running and answers whether any runs, pause and stop leave      *)
(* none, and workers are lost at any moment.  WorkerPool implements that.  *)
(*                                                                         *)
(* Charges (accounted_selected_fuzzers) are doubles, units times the       *)
(* fraction of the round; here they are the integers units times seconds,  *)
(* i.e. the code's value times round_time.                                 *)
(***************************************************************************)
EXTENDS Integers

CONSTANTS
  NumFuzzers,     \* fuzzers.size(); fuzzer i of the model is index i - 1
  Fresh,          \* the fuzzers with uses_fresh_round_process (Radamsa)
  Qsym,           \* the fuzzers that run one unit above their charge (QSYM)
  ResourceUnits,  \* resource_unit_number
  RoundTime,      \* round_time
  MonitorTime,    \* MONITOR_TIME
  Rounds,         \* round_number
  MaxReward       \* bound: reward of a monitor window

Fuzzers == 1..NumFuzzers

ASSUME SchedulerAssumption ==
  /\ NumFuzzers \in Nat \ {0}
  /\ Fresh \subseteq Fuzzers /\ Qsym \subseteq Fuzzers
  /\ ResourceUnits \in Nat \ {0}
  /\ RoundTime \in Nat \ {0}
  /\ MonitorTime \in Nat \ {0}
  /\ Rounds \in Nat
  /\ MaxReward \in Nat

VARIABLES
  pc,
  round,
  alloc,       \* selected_fuzzers; 0 for a fuzzer that was not selected
  pending,     \* selected fuzzers whose pool the start loop has not reached
  roundActive, \* round_active_indices
  running,     \* UnitPool: units of the fuzzer whose workers run
  active,      \* the fuzzers with state.active
  accounting,  \* state.accounting_units
  charge,      \* accounted_selected_fuzzers * round_time
  elapsed,
  cum,         \* state.cumulative_monitor_reward
  donors,      \* donors of this window that are still to be paused
  reclaimed,   \* reclaimed_units
  best,        \* best_index; 0 is the code's -1
  donated,     \* history: fuzzers that gave their units away this round
  spent        \* history: unit-seconds for which a fuzzer held its units

pools  == <<running, active, accounting>>
ledger == <<charge, spent, donated, reclaimed>>
vars   == <<pc, round, alloc, pending, roundActive, pools, ledger, elapsed, cum, donors, best>>

Goto(l) == pc' = l

Zero == [f \in Fuzzers |-> 0]

\* runtime_resource_units_for_fuzzer
RuntimeUnits(f, n) == IF f \in Qsym /\ n > 0 THEN n + 1 ELSE n

\* f[1] + ... + f[NumFuzzers]
Total(f) ==
  LET sum[i \in 0..NumFuzzers] == IF i = 0 THEN 0 ELSE sum[i - 1] + f[i]
  IN  sum[NumFuzzers]

Remaining == RoundTime - elapsed

-----------------------------------------------------------------------------
(* Setting up a round.                                                     *)

\* allocate_resource_units: round 0 primes one unit each; later every one of
\* the resource_unit_number draws of select() may hit any fuzzer.
Allocation(a) ==
  IF round = 0
  THEN a = [f \in Fuzzers |-> IF f <= ResourceUnits THEN 1 ELSE 0]
  ELSE Total(a) = ResourceUnits

BeginRound(a) ==
  /\ pc = "allocate"
  /\ round < Rounds
  /\ Allocation(a)
  /\ alloc' = a
  /\ pending' = {f \in Fuzzers : a[f] > 0}
  /\ roundActive' = {}
  /\ charge' = [f \in Fuzzers |-> a[f] * RoundTime]
  /\ elapsed' = 0
  /\ spent' = Zero /\ donated' = {} /\ reclaimed' = 0
  /\ donors' = {} /\ best' = 0
  /\ Goto("settle")
  /\ UNCHANGED <<round, pools, cum>>

\* pause_active_round_fuzzer / stop_persistent_round_fuzzer on the pools left
\* from earlier rounds that are not selected now.  A pool without groups is
\* skipped, so its accounting_units may stay.
SettleUnselected ==
  /\ pc = "settle"
  /\ LET idle == {f \in Fuzzers : alloc[f] = 0} IN
     \E skipped \in SUBSET {f \in idle : running[f] = 0} :
       /\ running' = [f \in Fuzzers |-> IF f \in idle THEN 0 ELSE running[f]]
       /\ active' = active \ (idle \ skipped)
       /\ accounting' = [f \in Fuzzers |-> IF f \in idle \ skipped THEN 0 ELSE accounting[f]]
  /\ Goto("start")
  /\ UNCHANGED <<round, alloc, pending, roundActive, ledger, elapsed, cum, donors, best>>

\* ensure_active_round_fuzzer_units(state, ..., runtime units of n): by the
\* promise of UnitPool r units run afterwards and the answer is r > 0.
Ensure(f, n, r) ==
  /\ r \in 0..RuntimeUnits(f, n)
  /\ running' = [running EXCEPT ![f] = r]
  /\ active' = IF r > 0 THEN active \cup {f} ELSE active \ {f}

\* One turn of the start loop, in the order of the indices.
StartSelected(f, r) ==
  /\ pc = "start"
  /\ f \in pending /\ \A g \in pending : f <= g
  /\ pending' = pending \ {f}
  /\ cum' = [cum EXCEPT ![f] = 0]
  /\ Ensure(f, alloc[f], r)
  /\ IF r > 0
     THEN /\ accounting' = [accounting EXCEPT ![f] = alloc[f]]
          /\ roundActive' = roundActive \cup {f}
     ELSE /\ accounting' = [accounting EXCEPT ![f] = 0]
          /\ UNCHANGED roundActive
  /\ UNCHANGED <<pc, round, alloc, ledger, elapsed, donors, best>>

StartDone ==
  /\ pc = "start"
  /\ pending = {}
  /\ Goto("sleep")
  /\ UNCHANGED <<round, alloc, pending, roundActive, pools, ledger, elapsed, cum, donors, best>>

-----------------------------------------------------------------------------
(* The monitor loop.                                                       *)

MonitorStart == RoundTime \div 2

\* Fault: compares with <=, so the sleep may be empty.
SleepStepStuck ==
  IF elapsed <= MonitorStart
  THEN MonitorStart - elapsed
  ELSE IF MonitorTime < Remaining THEN MonitorTime ELSE Remaining

SleepStep ==
  IF elapsed < MonitorStart
  THEN MonitorStart - elapsed
  ELSE IF MonitorTime < Remaining THEN MonitorTime ELSE Remaining

\* What a fuzzer holds of the budget: its reserved units until it is started,
\* then its accounting_units until it donates them or the round is finished.
InRound == pc \in {"start", "sleep", "poll", "window", "reclaim", "boost", "finish"}

Held == [f \in Fuzzers |->
           IF f \in pending THEN alloc[f]
           ELSE IF InRound /\ f \in roundActive \ donated THEN accounting[f] ELSE 0]

Sleep ==
  /\ pc = "sleep"
  /\ elapsed < RoundTime
  /\ elapsed' = elapsed + SleepStep
  /\ spent' = [f \in Fuzzers |-> spent[f] + Held[f] * SleepStep]
  /\ Goto("poll")
  /\ UNCHANGED <<round, alloc, pending, roundActive, pools, charge, donated, reclaimed,
                 cum, donors, best>>

SleepOver ==
  /\ pc = "sleep"
  /\ elapsed >= RoundTime
  /\ Goto("finish")
  /\ UNCHANGED <<round, alloc, pending, roundActive, pools, ledger, elapsed, cum, donors, best>>

\* Fault: ignores that a pool was stopped.
CurrentlySelected == roundActive

\* stop_active_round_fuzzer(state, round, false) compacts the pool and
\* collects the outputs; currently_active are the fuzzers that are active.
CurrentlyActive == roundActive \cap active

\* Fault: takes the pools of the round for active without asking them.
PollWithoutCompact ==
  /\ pc = "poll"
  /\ active' = active \cup roundActive
  /\ Goto(IF \E f \in roundActive : running[f] > 0 THEN "window" ELSE "sleep")
  /\ UNCHANGED <<round, alloc, pending, roundActive, running, accounting, ledger, elapsed,
                 cum, donors, best>>

Poll ==
  /\ pc = "poll"
  /\ active' = (active \ roundActive) \cup {f \in roundActive : running[f] > 0}
  /\ Goto(IF \E f \in roundActive : running[f] > 0 THEN "window" ELSE "sleep")
  /\ UNCHANGED <<round, alloc, pending, roundActive, running, accounting, ledger, elapsed,
                 cum, donors, best>>

\* b is what the loop over currently_active leaves in best_index: the first
\* fuzzer with the largest cumulative reward, 0 (the code's -1) if all are 0.
IsBest(b, c) ==
  \/ b = 0 /\ \A g \in CurrentlyActive : c[g] = 0
  \/ /\ b \in CurrentlyActive /\ c[b] > 0
     /\ \A g \in CurrentlyActive : c[g] <= c[b] /\ (g < b => c[g] < c[b])

\* evaluate_monitor_window gave the rewards w; no reward at all ends the round.
NoProgress(w) == \A f \in CurrentlyActive : w[f] = 0

StagnatedWindow(w) ==
  /\ pc = "window"
  /\ NoProgress(w)
  /\ Goto("finish")
  /\ UNCHANGED <<round, alloc, pending, roundActive, pools, ledger, elapsed, cum, donors, best>>

\* Fault: the best fuzzer may donate to itself.
WindowBestDonates(w, b) ==
  /\ pc = "window"
  /\ ~NoProgress(w)
  /\ cum' = [f \in Fuzzers |-> IF f \in CurrentlyActive THEN cum[f] + w[f] ELSE cum[f]]
  /\ IsBest(b, cum')
  /\ best' = b
  /\ donors' = {f \in CurrentlyActive : w[f] = 0 /\ accounting[f] > 0}
  /\ reclaimed' = 0
  /\ Goto(IF donors' = {} THEN "sleep" ELSE "reclaim")
  /\ UNCHANGED <<round, alloc, pending, roundActive, pools, charge, spent, donated, elapsed>>

Window(w, b) ==
  /\ pc = "window"
  /\ ~NoProgress(w)
  /\ cum' = [f \in Fuzzers |-> IF f \in CurrentlyActive THEN cum[f] + w[f] ELSE cum[f]]
  /\ IsBest(b, cum')
  /\ best' = b
  /\ donors' = {f \in CurrentlyActive \ {b} : w[f] = 0 /\ accounting[f] > 0}
  /\ reclaimed' = 0
  /\ Goto(IF donors' = {} THEN "sleep" ELSE "reclaim")
  /\ UNCHANGED <<round, alloc, pending, roundActive, pools, charge, spent, donated, elapsed>>

\* A donation of f that lowers its charge by c and leaves n units running.
Donate(f, c, n) ==
  /\ pc = "reclaim"
  /\ f \in donors
  /\ donors' = donors \ {f}
  /\ reclaimed' = reclaimed + accounting[f]
  /\ charge' = [charge EXCEPT ![f] = @ - c]
  /\ donated' = donated \cup {f}
  /\ running' = [running EXCEPT ![f] = n]
  /\ active' = active \ {f}
  /\ accounting' = IF f \in Fresh THEN accounting ELSE [accounting EXCEPT ![f] = 0]
  /\ Goto(IF donors' = {} THEN "boost" ELSE "reclaim")
  /\ UNCHANGED <<round, alloc, pending, roundActive, spent, elapsed, cum, best>>

\* Fault: takes back the charge of the whole round.
ReclaimWholeRound(f) == Donate(f, accounting[f] * RoundTime, 0)

\* One donor: its charge loses the remaining time and its pool is paused.
\* reclaimed_units is summed here instead of in a loop of its own before.
\* Stopping a fresh process (Radamsa) leaves accounting_units as it is.
Reclaim(f) == Donate(f, accounting[f] * Remaining, 0)

\* The best fuzzer is charged for the rest of the round, and gets the units
\* unless the round is over or its pool cannot run them.
BoostOver ==
  /\ pc = "boost"
  /\ Remaining = 0
  /\ reclaimed' = 0
  /\ Goto("sleep")
  /\ UNCHANGED <<round, alloc, pending, roundActive, pools, charge, spent, donated, elapsed,
                 cum, donors, best>>

\* The best fuzzer gets the reclaimed units and is charged c for them.
Grant(c, r) ==
  /\ pc = "boost"
  /\ Remaining > 0
  /\ charge' = [charge EXCEPT ![best] = @ + c]
  /\ Ensure(best, accounting[best] + reclaimed, r)
  /\ accounting' = IF r > 0 THEN [accounting EXCEPT ![best] = @ + reclaimed] ELSE accounting
  /\ reclaimed' = 0
  /\ Goto("sleep")
  /\ UNCHANGED <<round, alloc, pending, roundActive, spent, donated, elapsed, cum, donors, best>>

\* Fault: the reclaimed units are not charged.
BoostUncharged(r) == Grant(0, r)

\* Fault: they are charged for the whole round.
BoostWholeRound(r) == Grant(reclaimed * RoundTime, r)

Boost(r) == Grant(reclaimed * Remaining, r)

-----------------------------------------------------------------------------
(* The end of a round.                                                     *)

\* Fault: only the fresh processes are stopped.
FinishRoundFreshOnly ==
  /\ pc = "finish"
  /\ running' = [f \in Fuzzers |-> IF f \in roundActive \cap Fresh THEN 0 ELSE running[f]]
  /\ active' = active \ roundActive
  /\ accounting' = [f \in Fuzzers |-> IF f \in roundActive \ Fresh THEN 0 ELSE accounting[f]]
  /\ Goto("evaluate")
  /\ UNCHANGED <<round, alloc, pending, roundActive, ledger, elapsed, cum, donors, best>>

FinishRound ==
  /\ pc = "finish"
  /\ running' = [f \in Fuzzers |-> IF f \in roundActive THEN 0 ELSE running[f]]
  /\ active' = active \ roundActive
  /\ accounting' = [f \in Fuzzers |-> IF f \in roundActive \ Fresh THEN 0 ELSE accounting[f]]
  /\ Goto("evaluate")
  /\ UNCHANGED <<round, alloc, pending, roundActive, ledger, elapsed, cum, donors, best>>

\* evaluate_all, the synchronization of the seeds, the clean-up; the locals of
\* run_one_round are gone when it returns.
Evaluate ==
  /\ pc = "evaluate"
  /\ round' = round + 1
  /\ alloc' = Zero /\ roundActive' = {} /\ elapsed' = 0 /\ best' = 0
  /\ charge' = Zero /\ spent' = Zero /\ donated' = {} /\ reclaimed' = 0
  /\ Goto(IF round + 1 < Rounds THEN "allocate" ELSE "done")
  /\ UNCHANGED <<pending, pools, cum, donors>>

\* Workers crash or finish.
Lose(f) ==
  /\ pc # "done"
  /\ \E r \in 0..(running[f] - 1) : running' = [running EXCEPT ![f] = r]
  /\ UNCHANGED <<pc, round, alloc, pending, roundActive, active, accounting, ledger, elapsed,
                 cum, donors, best>>

Init ==
  /\ pc = IF Rounds > 0 THEN "allocate" ELSE "done"
  /\ round = 0
  /\ alloc = Zero /\ pending = {} /\ roundActive = {}
  /\ running = Zero /\ active = {} /\ accounting = Zero
  /\ charge = Zero /\ spent = Zero /\ donated = {} /\ reclaimed = 0
  /\ elapsed = 0 /\ cum = Zero /\ donors = {} /\ best = 0

Rewards == [Fuzzers -> 0..MaxReward]

Main ==
  \/ \E a \in [Fuzzers -> 0..ResourceUnits] : BeginRound(a)
  \/ SettleUnselected
  \/ \E f \in Fuzzers, r \in 0..(ResourceUnits + 1) : StartSelected(f, r)
  \/ StartDone \/ Sleep \/ SleepOver \/ Poll
  \/ \E w \in Rewards : StagnatedWindow(w) \/ \E b \in 0..NumFuzzers : Window(w, b)
  \/ \E f \in Fuzzers : Reclaim(f)
  \/ BoostOver
  \/ \E r \in 0..(ResourceUnits + 1) : Boost(r)
  \/ FinishRound \/ Evaluate

\* run() returns.
Done == pc = "done" /\ UNCHANGED vars

Next == Main \/ Done \/ \E f \in Fuzzers : Lose(f)

\* The main thread of legion runs whenever it can; workers need not exit.
Spec == Init /\ [][Next]_vars /\ WF_vars(Main)

-----------------------------------------------------------------------------
(* Properties.                                                             *)

Labels == {"allocate", "settle", "start", "sleep", "poll", "window", "reclaim", "boost",
           "finish", "evaluate", "done"}

\* Every variable has its type; a charge never becomes negative.
TypeOK ==
  /\ pc \in Labels
  /\ round \in Nat
  /\ alloc \in [Fuzzers -> 0..ResourceUnits]
  /\ pending \subseteq Fuzzers /\ roundActive \subseteq Fuzzers
  /\ donors \subseteq Fuzzers /\ donated \subseteq Fuzzers
  /\ running \in [Fuzzers -> Nat]
  /\ active \subseteq Fuzzers
  /\ accounting \in [Fuzzers -> Nat]
  /\ charge \in [Fuzzers -> Nat]
  /\ spent \in [Fuzzers -> Nat]
  /\ reclaimed \in Nat
  /\ elapsed \in 0..RoundTime
  /\ cum \in [Fuzzers -> Nat]
  /\ best \in 0..NumFuzzers

\* The units the fuzzers hold, together with the units in transit between
\* donors and the best fuzzer, never exceed resource_unit_number, although
\* Radamsa's accounting_units stay behind when it donates and workers die.
BudgetRespected == reclaimed + Total(Held) <= ResourceUnits

\* What really runs is covered by what is held: a fuzzer that donated, failed
\* to start or was not selected runs nothing, QSYM runs at most one extra unit.
RunsWithinGrant == \A f \in Fuzzers : running[f] <= RuntimeUnits(f, Held[f])

\* A fuzzer is never charged less than the unit-seconds it held, whatever the
\* order of donations and boosts; so a selected fuzzer's charge is positive
\* when evaluate_all divides by it.
ChargedForWhatItHeld ==
  \A f \in Fuzzers :
    /\ charge[f] >= spent[f]
    /\ pc \in {"poll", "window", "reclaim", "boost", "finish", "evaluate"} /\ alloc[f] > 0
         => charge[f] > 0

\* Donations move charge and create none: when the round is evaluated the
\* charges add up to the allocated units times the round time, so N grows by
\* the units that were allocated.
ChargeIsConserved ==
  pc # "boost" /\ reclaimed = 0 =>
    Total(charge) = RoundTime * Total(alloc)

\* Units are only reclaimed for a fuzzer that exists, still holds its own
\* units and is not itself a donor (best_index is never -1 when it is used).
BestIsNoDonor ==
  pc \in {"reclaim", "boost"} =>
    best \in (roundActive \ donated) \ donors

\* A fuzzer that gave its units away is out for the rest of the round: it is
\* not started again and its charge is neither raised nor lowered, although
\* Radamsa keeps its accounting_units when it is stopped.
DonorsStayOut ==
  [][\A f \in donated : f \in donated' =>
       /\ f \notin active' /\ running'[f] = 0
       /\ charge'[f] = charge[f]]_vars

\* Corpora are evaluated and synchronized only while no worker runs.
QuiescentWhenEvaluating == pc = "evaluate" => \A f \in Fuzzers : running[f] = 0

\* The campaign comes to its end: every round terminates.
CampaignEnds == <>(pc = "done")
=============================================================================
