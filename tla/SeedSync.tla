------------------------------ MODULE SeedSync ------------------------------
(***************************************************************************)
(* The life of the seeds in a campaign: the input pool of a round is       *)
(* refilled from the global pool, fuzzers find seeds, monitor windows and  *)
(* the end of the round replay and reward the new ones, a metric-aware     *)
(* selection merges seeds into the global pool, and the global fuzzing     *)
(* record M is computed from it (legion.cc and global_record.cc).          *)
(*                                                                         *)
(* A seed stands for its contents.  The folders of a round and the global  *)
(* pool name files by fingerprint, so they are sets of seeds, and the      *)
(* order in which they are read is the order of the seeds.  A report is    *)
(* the set of seeds whose replay finished; edge counts and covered         *)
(* features follow from it.                                                *)
(***************************************************************************)
EXTENDS Integers, FiniteSets, Functions

CONSTANTS
  Fuzzers,
  NumSeeds,     \* the seeds are 1..NumSeeds, in the order of their fingerprints
  Edges, Paths, \* the features of an execution
  FeaturesOf,   \* the edges and the path of a seed
  Deep,         \* edges in one of the deep functions
  TooLarge,     \* seeds above LEGION_MAX_SEED_SIZE_BYTES
  InitialPool,  \* the seeds of the archive that the campaign starts from
  Sampled,      \* fuzzers of which a minimized corpus is evaluated (Radamsa)
  DoMinimize,   \* -m: rounds start from the minimized pool
  Rounds,       \* round_number
  MaxWindows,   \* bound: monitor windows of a round
  MaxLosses,    \* bound: replays that time out and runs of a tool that fail
  MaxWipes,     \* bound: pools that died and are started again
  Campaigns     \* bound: runs of legion in the same directory

Seeds == 1..NumSeeds

ASSUME SeedSyncAssumption ==
  /\ NumSeeds \in Nat
  /\ IsFiniteSet(Fuzzers) /\ IsFiniteSet(Edges) /\ Deep \subseteq Edges
  /\ FeaturesOf \in [Seeds -> SUBSET (Edges \cup Paths)]
  /\ TooLarge \subseteq Seeds /\ InitialPool \subseteq Seeds /\ Sampled \subseteq Fuzzers /\ DoMinimize \in BOOLEAN
  /\ Rounds \in Nat /\ MaxWindows \in Nat /\ MaxLosses \in Nat /\ MaxWipes \in Nat
  /\ Campaigns \in Nat \ {0}

VARIABLES
  pc, round, windows, losses, wipes, campaign,
  global,     \* GLOBAL_POOL_NAME
  cmin,       \* GLOBAL_CMIN_INPUT_POOL_NAME, or Missing
  input,      \* INITIAL_POOL_NAME, and round_initial_fingerprints
  selected,   \* selected_fuzzers
  started,    \* round_active_indices
  queue,      \* the output of a fuzzer, which outlives the round while its pool lives
  accum,      \* state.accum_seed_folder of the round
  base,       \* the baseline report of a fuzzer
  monSeen,    \* .monitor_eval_state manifest of the round
  monReport,  \* .monitor_reports, overwritten by each successful window
  evalSeen,   \* .eval_state manifest, kept for the whole campaign
  report,     \* final report of the round
  cache,      \* .eval_seed_reports: seeds replayed by the final evaluation
  syncSeen,   \* .sync_state manifest of the round
  poolReport, \* .global_synced_round report, or Missing
  left,       \* the files above that an earlier campaign left, by round
  targets,    \* fuzzer_sync_targets
  fresh,      \* the C0 and C1 part of the targets
  seen,       \* seen_edges_global and seen_paths_global
  freq,       \* global_edge_frequency_counts
  monFeat,    \* monitor_seen_edges_global and monitor_seen_paths_global
  reward,     \* what the last window rewarded each fuzzer for
  windowed,   \* history: rewarded in earlier windows of this round
  credited,   \* history: fresh in an earlier round
  oldSeen     \* history: evalSeen when the campaign began

bounds == <<losses, wipes, campaign>>
disk   == <<global, cmin, input, queue, accum, evalSeen, syncSeen, poolReport, left>>
record == <<seen, freq>>
window == <<monSeen, monReport, monFeat, reward, windowed, windows>>
final  == <<report, cache, targets, fresh>>
chosen == <<selected, started>>
past   == <<credited, oldSeen>>
vars   == <<pc, round, bounds, chosen, base, disk, record, window, final, past>>

Goto(l) == pc' = l

Cover(S)    == UNION {FeaturesOf[s] : s \in S}
Count(S, e) == Cardinality({s \in S : e \in FeaturesOf[s]})
Counts(S)   == [e \in Edges |-> Count(S, e)]
None        == [f \in Fuzzers |-> {}]
NoCounts    == << >>   \* a vector of counts before the first report is read
Missing     == {0}     \* a directory or a report that does not exist (0 is no seed)

\* The scripts copy no file that is larger than the limit; legion has no limit.
Copyable(S) == S \ TooLarge

\* A run of the instrumented program over the seeds D[f] of each fuzzer f may
\* lose the replay of a seed, <<f, s>>, or fail as a whole, <<f, 0>>.
Lossy(D) ==
  {{}} \cup {{l} : l \in IF losses < MaxLosses
                        THEN {l \in Fuzzers \X (0..NumSeeds) :
                                D[l[1]] # {} /\ l[2] \in D[l[1]] \cup {0}}
                        ELSE {}}
Lost(L, f)   == {s \in Seeds : <<f, s>> \in L}
Failed(L)    == {f \in Fuzzers : <<f, 0>> \in L}
Lose(L)      == losses' = losses + Cardinality(L) /\ UNCHANGED <<wipes, campaign>>

EdgesOf(S) == Cover(S) \cap Edges

\* Fault: one seed is kept at most.
MinimizedToOne(S) == {M \in SUBSET S : Cardinality(M) <= 1}

\* AFLPP.sh and AFL.sh minimize: afl-cmin takes a seed for every edge that the
\* ones taken before do not have; it keeps the edges, but not the paths.  Where
\* it cannot run the corpus stays as it is.  (Seeds in a queue do not crash.)
Minimized(S) ==
  {S} \cup {M \in SUBSET S : /\ M # {} /\ EdgesOf(M) = EdgesOf(S)
                            /\ Cardinality(M) <= Cardinality(EdgesOf(S))}

\* AFLPP.sh leaves out what is too large; AFL.sh, for the sampled fuzzers, does
\* not.
MinimizedPools(G) == Minimized(Copyable(G))

\* refresh_global_cmin_input_pool over the pool G; if it fails (~ok) the old
\* pool stays.
RefreshCmin(G, ok) == IF DoMinimize /\ ok THEN cmin' \in MinimizedPools(G) ELSE UNCHANGED cmin

\* What a run over the seeds D of the fuzzers may replay: all of them, or a
\* minimized set for the sampled ones.
Replayed(D) ==
  {[f \in Fuzzers |-> IF f \in Sampled THEN m[f] ELSE D[f]] :
     m \in {m \in [Sampled -> SUBSET Seeds] : \A f \in Sampled : m[f] \in Minimized(D[f])}}

-----------------------------------------------------------------------------
(* parse_report_metrics: what a report R shows beyond a baseline B.        *)

\* C0 and C1: edges without a count in the baseline, and new paths.
New(R, B) == Cover(R) \ Cover(B)

More(R, B) == {e \in Edges : Count(R, e) > Count(B, e)}

\* C4: count below half of the mean over the edges that have a count.  The
\* counts are those of the record, or of the report itself while there is none.
LowFrequency(R) ==
  LET counts == IF freq = NoCounts THEN Counts(R) ELSE freq
      hit    == {e \in Edges : counts[e] > 0}
  IN {e \in hit : 2 * counts[e] * Cardinality(hit) < SumFunctionOnSet(counts, hit)}

Metrics(R, B) == New(R, B) \cup (More(R, B) \cap (Deep \cup LowFrequency(R)))

\* Files that carry the number of the round are read again only by a later
\* campaign; they are forgotten when there is none to come.
Last == campaign = Campaigns

NothingLeft == [monSeen |-> None, monReport |-> None, report |-> None, syncSeen |-> None,
                poolReport |-> Missing]

Leave(R) ==
  left' = IF Last THEN left
          ELSE [left EXCEPT ![round] = [monSeen |-> monSeen, monReport |-> monReport,
                  report |-> report, syncSeen |-> syncSeen, poolReport |-> R]]

WindowsOver ==
  /\ monSeen' = IF Last THEN None ELSE monSeen
  /\ monReport' = IF Last THEN None ELSE monReport
  /\ reward' = None /\ windowed' = {} /\ windows' = 0

-----------------------------------------------------------------------------
(* The round starts.                                                       *)

\* for (size_t i = 0; i < round_number; i++)
MayBegin == pc = "begin" /\ round < Rounds

\* current_global_input_pool_for_fuzzers
InputPool == IF DoMinimize /\ cmin # Missing THEN cmin ELSE global

\* Fault: the input pool is filled only once.
RefilledOnce == IF input = {} THEN Copyable(InputPool) ELSE input

\* SEED.sh refill keeps the old files if there is nothing to copy.
Refilled == IF Copyable(InputPool) # {} THEN Copyable(InputPool) ELSE input

\* What the workers of a new pool begin with, of the seeds S that
\* prepare_fuzzer_initial_snapshot puts together: all of them, or what the
\* script of the fuzzer copies.
Given(f, S) == IF f \in Sampled THEN Copyable(S) ELSE S

\* Fault: the monitor goes on with what it knew.
ResetMonitorNot == UNCHANGED monFeat

\* reset_monitor_state
ResetMonitor == monFeat' = seen

\* The input is refilled, the monitor reset and evaluate_round_input_baseline
\* run for each selected fuzzer (a failed run leaves an empty report).  Of the
\* fuzzers run, which could be started, anew have a new pool, which needs a
\* seed.  The others are given by update_seed what they do not have.
BeginRound(sel, run, anew, L) ==
  /\ MayBegin
  /\ selected' = sel /\ started' = run /\ (InputPool = {} => anew \subseteq Sampled)
  /\ input' = Refilled
  /\ ResetMonitor
  /\ base' = [f \in Fuzzers |-> IF f \in sel \ Failed(L) THEN input' \ Lost(L, f) ELSE {}]
  /\ queue' = [f \in Fuzzers |-> IF f \in anew THEN Given(f, InputPool)
                                 ELSE IF f \in run THEN queue[f] \cup Copyable(InputPool)
                                 ELSE queue[f]]
  /\ losses' = losses + Cardinality(L)
  /\ wipes' = wipes + Cardinality({f \in anew \ Sampled : queue[f] # {}})
  /\ wipes' <= MaxWipes
  /\ accum' = None /\ reward' = None /\ windowed' = {} /\ windows' = 0
  /\ monSeen' = left[round].monSeen /\ monReport' = left[round].monReport
  /\ report' = left[round].report /\ syncSeen' = left[round].syncSeen
  /\ poolReport' = left[round].poolReport
  /\ Goto("fuzz")
  /\ UNCHANGED <<round, campaign, global, cmin, evalSeen, left, record, cache, targets, fresh, past>>

\* A worker of the round saves a seed in its queue.
Find(f, s) ==
  /\ pc = "fuzz" /\ f \in started /\ s \notin queue[f]
  /\ queue' = [queue EXCEPT ![f] = @ \cup {s}]
  /\ UNCHANGED <<pc, round, bounds, chosen, base, global, cmin, input, accum, evalSeen, syncSeen,
                 poolReport, left, record, window, final, past>>

\* The pool of the best fuzzer has died after a window: start_active_round_fuzzer
\* begins again with the input pool and what was collected in the round.
StartAgain(f) ==
  /\ pc = "fuzz" /\ f \in started /\ windows > 0 /\ wipes < MaxWipes
  /\ wipes' = wipes + 1
  /\ queue' = [queue EXCEPT ![f] = Given(f, InputPool \cup accum[f])]
  /\ UNCHANGED <<pc, round, losses, campaign, chosen, base, global, cmin, input, accum, evalSeen,
                 syncSeen, poolReport, left, record, window, final, past>>

\* collect_active_round_outputs: snapshot, then merge by fingerprint.
Collected == [f \in Fuzzers |-> IF f \in started THEN accum[f] \cup queue[f] ELSE {}]

-----------------------------------------------------------------------------
(* A monitor window.                                                       *)

\* prepare_monitor_eval_input: not of the round's input, not in the manifest.
MonitorDelta(f) == (Collected[f] \ input) \ monSeen[f]

\* evaluate_monitor_window: the metrics of a report, less what the monitor
\* knows already.
Rewarded(act, read) ==
  [f \in Fuzzers |-> IF f \in act THEN Metrics(read[f], base[f]) \ monFeat ELSE {}]

\* Fault: what only one of the active fuzzers covers is forgotten.
RememberCommon(act, read) ==
  monFeat' = monFeat \cup {x \in Edges \cup Paths : \A f \in act : x \in Cover(read[f])}

\* monitor_seen_..._global grow by all that the reports of the window cover.
Remember(act, read) == monFeat' = monFeat \cup UNION {Cover(read[f]) : f \in act}

\* evaluate_monitor_corpus and evaluate_monitor_window for the active fuzzers;
\* R is what is replayed.  When the evaluation of a fuzzer fails, its manifest
\* and its report stay as they were and the report of an earlier window is read
\* again.
Window(act, R, L) ==
  LET read == [f \in Fuzzers |->
                 IF f \in act \ Failed(L) THEN R[f] \ Lost(L, f) ELSE monReport[f]]
  IN
  /\ pc = "fuzz" /\ windows < MaxWindows
  /\ windows' = windows + 1
  /\ Lose(L)
  /\ accum' = Collected
  /\ monReport' = read
  /\ monSeen' = [f \in Fuzzers |->
                   IF f \in act \ Failed(L) THEN monSeen[f] \cup MonitorDelta(f) ELSE monSeen[f]]
  /\ reward' = Rewarded(act, read)
  /\ Remember(act, read)
  /\ windowed' = windowed \cup UNION {reward[f] : f \in Fuzzers}
  /\ UNCHANGED <<pc, round, chosen, base, global, cmin, input, queue, evalSeen, syncSeen, poolReport,
                 left, record, final, past>>

-----------------------------------------------------------------------------
(* The round ends: the workers are paused.                                 *)

\* Fault: what a monitor window has evaluated is left out.
FinalDeltaUnmonitored(f) == (Collected[f] \ input) \ (evalSeen[f] \cup monSeen[f])

\* prepare_incremental_eval_input
FinalDelta(f) == (Collected[f] \ input) \ evalSeen[f]

\* evaluate_fuzzer_corpus: seeds whose replay was lost, or that were minimized
\* away, are in the manifest all the same; a failed run leaves no trace in the
\* manifest, and the report as it was.
Finalize(R, L) ==
  LET ok == selected \ Failed(L) IN
  /\ pc = "fuzz"
  /\ Lose(L)
  /\ accum' = Collected
  /\ cache' = [f \in Fuzzers |-> IF f \in ok THEN R[f] \ Lost(L, f) ELSE {}]
  /\ report' = [f \in Fuzzers |-> IF f \in ok THEN cache'[f] ELSE report[f]]
  /\ evalSeen' = [f \in Fuzzers |->
                    IF f \in ok THEN evalSeen[f] \cup FinalDelta(f) ELSE evalSeen[f]]
  /\ WindowsOver
  /\ Goto("evaluate")
  /\ UNCHANGED <<round, chosen, base, global, cmin, input, queue, syncSeen, poolReport, left, record,
                 monFeat, targets, fresh, past>>

\* evaluate_all: the targets of the selected fuzzers.
EvaluateAll ==
  /\ pc = "evaluate"
  /\ targets' = [f \in Fuzzers |-> IF f \in selected THEN Metrics(report[f], base[f]) ELSE {}]
  /\ fresh' = [f \in Fuzzers |-> IF f \in selected THEN New(report[f], base[f]) ELSE {}]
  /\ Goto("sync")
  /\ UNCHANGED <<round, bounds, chosen, base, disk, record, window, report, cache, past>>

\* prepare_incremental_sync_input; the manifest of the round has entries only
\* if an earlier campaign left them.
Candidates(f) == (accum[f] \ input) \ syncSeen[f]

\* Fault: the targets of a seed are consumed before it is looked at.
ContributingLate(C, T) ==
  {s \in C : FeaturesOf[s] \cap (T \ Cover({r \in C : r <= s})) # {}}

\* select_metric_contributing_sync_seeds over candidates whose features are
\* known: a seed is taken if it has a target that no earlier one has.
Contributing(C, T) ==
  {s \in C : FeaturesOf[s] \cap (T \ Cover({r \in C : r < s})) # {}}

\* The features come from the cache of the final evaluation, otherwise from
\* a replay, which may be lost.
Uncached == [f \in Fuzzers |-> Candidates(f) \ cache[f]]
Known(f, L) == Candidates(f) \ (Uncached[f] \cap Lost(L, f))

\* sync_round_new_seeds_to_global for every fuzzer.
Sync(L) ==
  LET merged == [f \in Fuzzers |-> Contributing(Known(f, L), targets[f])] IN
  /\ pc = "sync"
  /\ Lose(L) /\ Failed(L) = {}
  /\ global' = global \cup UNION {merged[f] : f \in Fuzzers}
  /\ syncSeen' = IF Last THEN syncSeen ELSE [f \in Fuzzers |-> syncSeen[f] \cup merged[f]]
  /\ Goto("refresh")
  /\ UNCHANGED <<round, chosen, base, cmin, input, queue, accum, evalSeen, poolReport, left, record,
                 window, final, past>>

\* What is known of the round only while it lasts.
Forget ==
  /\ accum' = None /\ report' = None /\ cache' = None /\ targets' = None /\ fresh' = None
  /\ base' = None /\ selected' = {} /\ started' = {}
  /\ monSeen' = None /\ monReport' = None /\ syncSeen' = None /\ poolReport' = Missing

\* refresh_global_record_from_report
RefreshRecord(R) ==
  /\ seen' = Cover(R) /\ freq' = Counts(R)
  /\ monFeat' = Cover(R)

\* refresh_synced_global_record: a run that fails leaves the report as it was,
\* and without a report the record stays.  Then the round's folders are removed
\* and the minimized pool is refreshed.
Refresh(L, ok) ==
  LET R == IF Failed(L) = {} THEN global \ UNION {Lost(L, f) : f \in Fuzzers} ELSE poolReport IN
  /\ pc = "refresh"
  /\ losses' = losses + Cardinality(L) + (IF ok THEN 0 ELSE 1) /\ losses' <= MaxLosses
  /\ IF R # Missing THEN RefreshRecord(R) ELSE UNCHANGED <<record, monFeat>>
  /\ Leave(R)
  /\ RefreshCmin(global, ok)
  /\ credited' = credited \cup UNION {fresh[f] : f \in Fuzzers}
  /\ Forget
  /\ round' = round + 1
  /\ Goto("begin")
  /\ UNCHANGED <<wipes, campaign, global, input, queue, evalSeen, reward, windowed, windows, oldSeen>>

\* SEED.sh copy makes the initial corpus the global pool; without a seed to copy
\* in the archive, and without an archive (create), the pool stays as it was.
FirstPool == IF Copyable(InitialPool) = {} THEN global ELSE Copyable(InitialPool)

\* run(): a run over the pool G gives the first record, which stays empty if the
\* run fails.
FirstRecord(G, ok) ==
  /\ seen' = IF ok THEN Cover(G) ELSE {}
  /\ freq' = IF ok THEN Counts(G) ELSE NoCounts

\* legion is stopped, at any point, and started again in the same directory:
\* the record and the pools of workers are gone, the files are still there.
Restart(ok, okMin) ==
  /\ campaign < Campaigns /\ (pc = "begin" => round > 0)
  /\ campaign' = campaign + 1 /\ round' = 0 /\ UNCHANGED wipes
  /\ losses' = losses + (IF ok /\ okMin THEN 0 ELSE 1)
  /\ IF pc = "begin" THEN UNCHANGED left ELSE Leave(poolReport)
  /\ global' = FirstPool /\ RefreshCmin(FirstPool, okMin)
  /\ FirstRecord(FirstPool, ok) /\ monFeat' = {}
  /\ Forget
  /\ queue' = None /\ reward' = None /\ windowed' = {} /\ windows' = 0
  /\ credited' = {} /\ oldSeen' = evalSeen
  /\ Goto("begin")
  /\ UNCHANGED <<input, evalSeen>>

Init ==
  /\ pc = "begin" /\ round = 0 /\ windows = 0 /\ wipes = 0 /\ campaign = 1
  /\ global = Copyable(InitialPool) /\ input = {}
  /\ selected = {} /\ started = {} /\ base = None
  /\ queue = None /\ accum = None /\ monSeen = None /\ monReport = None /\ evalSeen = None
  /\ report = None /\ cache = None /\ targets = None /\ fresh = None
  /\ syncSeen = None /\ poolReport = Missing /\ left = [r \in 0..Rounds |-> NothingLeft]
  /\ \E ok \in BOOLEAN, okMin \in IF DoMinimize THEN BOOLEAN ELSE {TRUE} :
       /\ losses = (IF ok /\ okMin THEN 0 ELSE 1) /\ losses <= MaxLosses
       /\ cmin \in IF DoMinimize /\ okMin THEN MinimizedPools(global) ELSE {Missing}
       /\ seen = IF ok THEN Cover(global) ELSE {}
       /\ freq = IF ok THEN Counts(global) ELSE NoCounts
  /\ monFeat = {}
  /\ reward = None /\ windowed = {} /\ credited = {} /\ oldSeen = None

Ended == pc = "begin" /\ round = Rounds /\ Last /\ UNCHANGED vars

Only(S, v) == [f \in Fuzzers |-> IF f \in S THEN v ELSE {}]

MayFail == IF losses < MaxLosses THEN BOOLEAN ELSE {TRUE}

\* Fuzzers without a pool, and those with a fresh process for every round.
MustStart(run) == {f \in run : queue[f] = {} \/ f \in Sampled}

Next ==
  \/ \E sel \in (SUBSET Fuzzers) \ {{}} : \E run \in SUBSET sel, L \in Lossy(Only(sel, global)) :
       \E more \in SUBSET (run \ MustStart(run)) : BeginRound(sel, run, MustStart(run) \cup more, L)
  \/ \E f \in Fuzzers, s \in Seeds : Find(f, s)
  \/ \E f \in Fuzzers : StartAgain(f)
  \/ \E act \in (SUBSET started) \ {{}} :
       \E R \in Replayed([f \in Fuzzers |-> IF f \in act THEN MonitorDelta(f) ELSE {}]) :
         \E L \in Lossy(R) : Window(act, R, L)
  \/ \E R \in Replayed([f \in Fuzzers |-> FinalDelta(f)]) : \E L \in Lossy(R) : Finalize(R, L)
  \/ EvaluateAll
  \/ \E L \in Lossy(Uncached) : Sync(L)
  \/ \E L \in Lossy(Only(Fuzzers, global)), ok \in IF DoMinimize THEN MayFail ELSE {TRUE} :
       Refresh(L, ok)
  \/ \E ok \in MayFail, okMin \in IF DoMinimize THEN MayFail ELSE {TRUE} : Restart(ok, okMin)
  \/ Ended

Spec == Init /\ [][Next]_vars

-----------------------------------------------------------------------------
(* Properties.                                                             *)

\* Every variable has its type.
TypeOK ==
  /\ pc \in {"begin", "fuzz", "evaluate", "sync", "refresh"}
  /\ round \in 0..Rounds /\ windows \in 0..MaxWindows /\ losses \in 0..MaxLosses
  /\ wipes \in 0..MaxWipes /\ campaign \in 1..Campaigns
  /\ global \subseteq Seeds /\ input \subseteq Seeds
  /\ {cmin, poolReport} \subseteq (SUBSET Seeds) \cup {Missing}
  /\ started \subseteq selected /\ selected \subseteq Fuzzers
  /\ \A v \in {queue, accum, base, monSeen, monReport, evalSeen, report, cache, syncSeen,
             oldSeen} :
       v \in [Fuzzers -> SUBSET Seeds]
  /\ \A v \in {targets, fresh, reward} : v \in [Fuzzers -> SUBSET (Edges \cup Paths)]
  /\ \A v \in {seen, monFeat, windowed, credited} : v \subseteq Edges \cup Paths
  /\ freq = NoCounts \/ freq \in [Edges -> Nat]

\* Whatever a fuzzer is rewarded for at the end of a round is in the global
\* pool afterwards: the greedy selection drops seeds, but no target, even if
\* replays are lost while it runs, and even if legion was started again over
\* the manifests of an earlier campaign.  (Only a report that an earlier
\* campaign left is read again if an evaluation fails.)
RewardsReachThePool ==
  pc = "refresh" /\ (campaign = 1 \/ losses = 0) =>
    \A f \in Fuzzers : targets[f] \subseteq Cover(global)

\* Whatever the fuzzers of a round have found is covered by the global pool at
\* its end, whether it was rewarded in this round or another and although pools
\* die and manifests keep seeds from being evaluated twice: as long as nothing
\* is lost, only the paths of a corpus that is minimized before its evaluation
\* are missing, and what an earlier campaign has in its manifest.
DiscoveriesReachThePool ==
  pc = "refresh" /\ losses = 0 =>
    \A f \in started :
      LET found == Cover(accum[f] \ oldSeen[f])
      IN (IF f \in Sampled THEN found \cap Edges ELSE found) \subseteq Cover(global)

\* What was new at the end of one round is new again at the end of a later one
\* only if every seed of the global pool that has it, and there is one, is above
\* the size limit of SEED.sh: selection, pool, minimization, refill and baseline
\* lose nothing else as long as no replay is lost.  Under -m this is true of
\* edges only, since the minimized pool drops paths.
NewOnlyOnce ==
  pc = "sync" /\ losses = 0 =>
    \A f \in Fuzzers :
      fresh[f] \cap credited \cap (IF DoMinimize THEN Edges ELSE Edges \cup Paths)
        \subseteq Cover(global \cap TooLarge) \ Cover(Copyable(global))

\* A monitor window rewards nothing that an earlier window of the round has
\* rewarded or the global record knows, although the report of an earlier
\* window is read again when an evaluation fails.
WindowRewardsAreNew ==
  \A f \in Fuzzers : reward[f] \cap (windowed \cup seen) = {}

\* The record's edge counts and its set of seen edges agree, and the monitor
\* state knows all of them during a round; so once there is a record, a monitor
\* window never rewards a low-frequency edge (C4 asks for an edge that has a
\* count and for one that is not yet seen).
WindowsHaveNoC4 ==
  /\ {e \in DOMAIN freq : freq[e] > 0} = seen \cap Edges
  /\ freq # NoCounts =>
       \A f \in Fuzzers : reward[f] \cap LowFrequency(monReport[f]) = {}
=============================================================================
