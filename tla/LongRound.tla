----------------------------- MODULE LongRound -----------------------------
(***************************************************************************)
(* legion --run: one long round (run_one_long_round in legion.cc).  The    *)
(* script of every selected fuzzer runs in a thread of its own and copies  *)
(* its workers' queues into the round folder again and again; a guard      *)
(* thread wakes up in between, merges round-new seeds into the global      *)
(* pool and shares the pool with the running fuzzers.  Nothing but the     *)
(* files orders a script and the guard.                                    *)
(*                                                                         *)
(* A file has a name, contents and the worker directory it comes from.  A  *)
(* folder is a set of files with distinct names.  One unit of time is the  *)
(* script's sleep of 60 seconds.  Sleeps are lower bounds: a process that  *)
(* is due may be late.  The scripts are AFL.sh and its copies AFLFast.sh   *)
(* and FairFuzz.sh (AFLPP.sh leaves its workers running while it flushes   *)
(* for the last time), and no file is above their size limit.              *)
(***************************************************************************)
EXTENDS Integers, FiniteSets, FiniteSetsExt

CONSTANTS
  NumFuzzers,   \* fuzzers are 1..NumFuzzers, in the order of the vector
  Units,        \* resource_unit_number
  Workers,      \* worker directories of a fuzzer, in the order of the shell's glob
  Files,        \* the files there may be
  Owner, Dir,   \* the fuzzer (0: the initial corpus) and worker that write a file
  Name, Text,   \* its name, a number that gives the order of names, and its contents
  FeaturesOf,   \* coverage of contents
  Crashing,     \* contents filter_non_crashing_inputs leaves out
  Rounds,       \* round_number
  RoundTime,    \* round_time
  Period,       \* sleep_duration of the guard, 600 seconds
  DoMinimize,   \* -m
  Campaigns     \* bound: runs of legion in the same directory

Fuzzers  == 1..NumFuzzers
Selected == 1..(IF Units < NumFuzzers THEN Units ELSE NumFuzzers)
Total    == Rounds * RoundTime
Corpus   == {x \in Files : Owner[x] = 0}
Guard    == 0   \* the guard's timer, next to those of the scripts

ASSUME LongRoundAssumption ==
  /\ NumFuzzers \in Nat \ {0} /\ Units \in Nat /\ Workers \in Nat \ {0}
  /\ Rounds \in Nat /\ RoundTime \in Nat \ {0} /\ Period \in Nat \ {0} /\ Campaigns \in Nat \ {0}
  /\ DoMinimize \in BOOLEAN
  /\ Owner \in [Files -> 0..NumFuzzers] /\ Dir \in [Files -> 1..Workers] /\ Name \in [Files -> Nat]
  /\ \A x, y \in Corpus : Name[x] = Name[y] => x = y

VARIABLES
  pc,         \* main thread, or the guard it waits for
  timeCount,  \* time_count of the guard
  mini,       \* mini_time of the guard
  syncer,     \* who runs sync_round_new_seeds_to_global
  cur,        \* the fuzzer its loop has reached
  listed,     \* names in seed_files still to be read
  delta,      \* delta.input_dir
  global, cmin, \* GLOBAL_POOL_NAME and GLOBAL_CMIN_INPUT_POOL_NAME
  current,    \* did the last refresh of the minimized pool succeed?
  input,      \* INITIAL_POOL_NAME
  script,     \* phase of a fuzzer's script and thread
  slept,      \* its sleeps so far
  dir,        \* the worker directory it copies next
  timer,      \* what is left of a sleep
  queue,      \* run_<fuzzer>/output/fuzzer*/queue
  peer,       \* contents in run_<fuzzer>/output/legion_sync/queue
  out,        \* the round folder, label + round
  archive,    \* contents under archive/<fuzzer>/round_0
  manifest,   \* .sync_state/<fuzzer>_0.manifest
  campaign,
  old         \* history: the manifests the campaign found

guard   == <<pc, timeCount, mini, syncer, cur, listed, delta>>
pools   == <<global, cmin, current, input>>
scripts == <<script, slept, dir, timer, queue, out>>
results == <<peer, archive, manifest>>
aux     == <<campaign, old>>
vars    == <<guard, pools, scripts, results, aux>>

Texts(F) == {Text[x] : x \in F}
Names(F) == {Name[x] : x \in F}
Cover(T) == UNION {FeaturesOf[t] : t \in T}
None     == [f \in Fuzzers |-> {}]
Goto(l)  == pc' = l

\* cp --target-directory: a file replaces the one with its name.
Put(F, folder) == F \cup {x \in folder : Name[x] \notin Names(F)}

-----------------------------------------------------------------------------
(* The script of a fuzzer, and the thread that runs it (fuzz_one_fuzzer).  *)

Become(f, phase) == script' = [script EXCEPT ![f] = phase]

\* The run directory and the round folder are emptied and the workers started;
\* without initial seeds the script is over.  Every queue holds the input under
\* names of its own: the corpus stands for all of it.
Start(f) ==
  /\ script[f] = "start" /\ f \in Selected
  /\ queue' = [queue EXCEPT ![f] = input \cap Corpus]
  /\ out' = [out EXCEPT ![f] = {}]
  /\ peer' = [peer EXCEPT ![f] = {}]
  /\ slept' = [slept EXCEPT ![f] = 0]
  /\ dir' = [dir EXCEPT ![f] = 1]
  /\ \/ input = {} /\ Become(f, "archive") /\ UNCHANGED timer
     \/ input # {} /\ Become(f, "sleep") /\ timer' = [timer EXCEPT ![f] = 1]
  /\ UNCHANGED <<guard, pools, archive, manifest, aux>>

\* A worker saves a seed, until the script terminates it.
Find(f, x) ==
  /\ script[f] \in {"sleep", "clear", "copy"} /\ Owner[x] = f /\ x \notin queue[f]
  /\ queue' = [queue EXCEPT ![f] = Put({x}, {y \in @ : Dir[y] = Dir[x]})
                                     \cup {y \in @ : Dir[y] # Dir[x]}]
  /\ UNCHANGED <<guard, pools, script, slept, dir, timer, out, results, aux>>

\* After sleep 60 the counter reaches the sync interval.
Wake(f) ==
  /\ script[f] = "sleep" /\ timer[f] = 0
  /\ slept' = [slept EXCEPT ![f] = @ + 1]
  /\ Become(f, "clear")
  /\ UNCHANGED <<guard, pools, dir, timer, queue, out, results, aux>>

\* flush_output: clear_directory, ...
Clear(f) ==
  /\ script[f] \in {"clear", "clear last"}
  /\ out' = [out EXCEPT ![f] = {}]
  /\ dir' = [dir EXCEPT ![f] = 1]
  /\ Become(f, IF script[f] = "clear" THEN "copy" ELSE "copy last")
  /\ UNCHANGED <<guard, pools, slept, timer, queue, results, aux>>

\* Fault: only the first worker's directory is copied.
CopiedFirst(f) == IF dir[f] = 1 THEN Put({x \in queue[f] : Dir[x] = 1}, out[f]) ELSE out[f]

\* ... then copy_queue_files, one directory after the other.
Copied(f) == Put({x \in queue[f] : Dir[x] = dir[f]}, out[f])

\* while [ "$i" -lt "$time" ]
Copy(f) ==
  /\ script[f] \in {"copy", "copy last"}
  /\ out' = [out EXCEPT ![f] = Copied(f)]
  /\ IF dir[f] < Workers
     THEN dir' = [dir EXCEPT ![f] = @ + 1] /\ UNCHANGED <<script, timer>>
     ELSE /\ UNCHANGED dir
          /\ \/ script[f] = "copy last" /\ Become(f, "archive") /\ UNCHANGED timer
             \/ script[f] = "copy" /\ slept[f] >= RoundTime
                /\ Become(f, "clear last") /\ UNCHANGED timer   \* terminate_pids
             \/ script[f] = "copy" /\ slept[f] < RoundTime
                /\ Become(f, "sleep") /\ timer' = [timer EXCEPT ![f] = 1]
  /\ UNCHANGED <<guard, pools, slept, queue, results, aux>>

\* archive_round_new_seeds, unless the program is gone by then.
Archive(f) ==
  /\ script[f] = "archive"
  /\ archive' = IF pc = "aborted" THEN archive
                ELSE [archive EXCEPT ![f] = Texts(out[f]) \ Texts(input)]
  /\ Become(f, "done")
  /\ UNCHANGED <<guard, pools, slept, dir, timer, queue, out, peer, manifest, aux>>

-----------------------------------------------------------------------------
(* wait_and_pull, and the same synchronization at the end of the round.    *)

\* sleep_duration >= time - time_count: no need to wait for the last period.
Watching == timeCount < Total /\ Period < Total - timeCount

GuardSleep ==
  /\ pc = "guard" /\ Watching
  /\ timer' = [timer EXCEPT ![Guard] = IF Period > mini THEN Period - mini ELSE 0]
  /\ mini' = 0
  /\ Goto("nap")
  /\ UNCHANGED <<timeCount, syncer, cur, listed, delta, pools, script, slept, dir, queue, out,
                 results, aux>>

Counted == timeCount + Period

GuardWake ==
  /\ pc = "nap" /\ timer[Guard] = 0
  /\ timeCount' = Counted
  /\ syncer' = "guard" /\ cur' = 1
  /\ Goto("list")
  /\ UNCHANGED <<mini, listed, delta, pools, scripts, results, aux>>

GuardExit ==
  /\ pc = "guard" /\ ~Watching
  /\ Goto("join")
  /\ UNCHANGED <<timeCount, mini, syncer, cur, listed, delta, pools, scripts, results, aux>>

\* prepare_incremental_sync_input: the names in the round folder, ...
List ==
  /\ pc = "list"
  /\ listed' = Names(out[cur]) /\ delta' = {}
  /\ Goto("read")
  /\ UNCHANGED <<timeCount, mini, syncer, cur, pools, scripts, results, aux>>

IsNew(t) == t \notin Texts(input) \cup Texts(delta) \cup manifest[cur]

\* ... then one file after the other is fingerprinted and copied if it is new.
Read ==
  LET n == Min(listed) IN
  /\ pc = "read" /\ listed # {} /\ n \in Names(out[cur])
  /\ \E x \in out[cur] : Name[x] = n /\ delta' = IF IsNew(Text[x]) THEN delta \cup {x} ELSE delta
  /\ listed' = listed \ {n}
  /\ UNCHANGED <<pc, timeCount, mini, syncer, cur, pools, scripts, results, aux>>

\* A file that is gone is taken for a new one (its path is its fingerprint) and
\* filesystem::copy_file throws; nobody catches it and the program terminates.
Abort ==
  /\ pc = "read" /\ listed # {} /\ Min(listed) \notin Names(out[cur])
  /\ Goto("aborted") /\ listed' = {} /\ delta' = {}
  /\ UNCHANGED <<timeCount, mini, syncer, cur, pools, scripts, results, aux>>

\* There are no metric targets in a long round, so all round-new seeds are
\* selected: pull_seeds copies them into the global pool.
Pull ==
  /\ pc = "read" /\ listed = {}
  /\ global' = Put(delta, global)
  /\ manifest' = [manifest EXCEPT ![cur] = @ \cup Texts(delta)]   \* append_seen_fingerprints
  /\ delta' = {}
  /\ IF cur < NumFuzzers
     THEN cur' = cur + 1 /\ Goto("list")
     ELSE cur' = 1 /\ Goto(IF syncer = "guard" THEN "minimize" ELSE "refresh")
  /\ UNCHANGED <<timeCount, mini, syncer, listed, cmin, current, input, scripts, peer, archive, aux>>

-----------------------------------------------------------------------------
(* The pools.                                                              *)

\* Fault: one seed is kept, whatever it covers.
MinimizedToOne(G) == {{x} : x \in G}

\* AFLPP.sh minimize: files with the coverage of the seeds that do not crash,
\* or the whole pool if all of them do.
Minimized(G) ==
  LET calm == {x \in G : Text[x] \notin Crashing}
  IN IF calm = {} THEN {G} ELSE {S \in SUBSET calm : Cover(Texts(S)) = Cover(Texts(calm))}

\* refresh_global_cmin_input_pool: a failed run leaves the old pool in place.
RefreshCmin(G) ==
  \/ cmin' \in Minimized(G) /\ current' = TRUE
  \/ cmin' = cmin /\ current' = FALSE

Minimize ==
  /\ pc = "minimize"
  /\ RefreshCmin(global)
  /\ Goto("update")
  /\ UNCHANGED <<timeCount, mini, syncer, cur, listed, delta, global, input, scripts, results, aux>>

\* current_global_input_pool_for_fuzzers
Shared == IF DoMinimize THEN cmin ELSE global

\* update_fuzzers_from_current_global_input: sync_seed_dir_into_afl_peer_queue
\* adds the contents it has not seen, if there is an output directory.
Update ==
  /\ pc = "update"
  /\ peer' = IF cur \in Selected THEN [peer EXCEPT ![cur] = @ \cup Texts(Shared)] ELSE peer
  /\ IF cur < NumFuzzers THEN cur' = cur + 1 /\ UNCHANGED pc ELSE cur' = 1 /\ Goto("guard")
  /\ UNCHANGED <<timeCount, mini, syncer, listed, delta, pools, scripts, archive, manifest, aux>>

\* Fault: the final synchronization does not wait for the fuzzers.
JoinedNot == TRUE

\* t.join() for every thread in fuzz_threads
Joined == \A f \in Selected : script[f] = "done"

Join ==
  /\ pc = "join" /\ Joined
  /\ syncer' = "main" /\ cur' = 1
  /\ Goto("list")
  /\ UNCHANGED <<timeCount, mini, listed, delta, pools, scripts, results, aux>>

\* refresh_synced_global_record, cleanup_round_seed_folder, the final
\* minimization, and the end of run().
Refresh ==
  /\ pc = "refresh"
  /\ out' = None
  /\ IF DoMinimize THEN RefreshCmin(global) ELSE UNCHANGED <<cmin, current>>
  /\ Goto("end")
  /\ UNCHANGED <<timeCount, mini, syncer, cur, listed, delta, global, input, script, slept, dir,
                 timer, queue, results, aux>>

-----------------------------------------------------------------------------
(* Time and campaigns.                                                     *)

\* Time passes while somebody sleeps; the scripts take far less than a sleep
\* to start.
Tick ==
  /\ \E p \in DOMAIN timer : timer[p] > 0
  /\ \A f \in Selected : script[f] # "start"
  /\ timer' = [p \in DOMAIN timer |-> IF timer[p] > 0 THEN timer[p] - 1 ELSE 0]
  /\ mini' = IF pc = "minimize" /\ mini < Period THEN mini + 1 ELSE mini
  /\ UNCHANGED <<pc, timeCount, syncer, cur, listed, delta, pools, script, slept, dir, queue, out,
                 results, aux>>

\* run(): SEED.sh copy replaces the global pool by the seeds C of the archive,
\* if there are any; SEED.sh refill does the same with the input.
Begin(C, G, I) ==
  /\ global' = IF C # {} THEN C ELSE G
  /\ IF DoMinimize THEN RefreshCmin(global') ELSE UNCHANGED <<cmin, current>>
  /\ input' = IF global' # {} THEN global' ELSE I

\* legion is started again in the same directory, once the scripts are gone.
\* The manifests and, after an abort, the round folders are still there.
Restart(C) ==
  /\ pc \in {"end", "aborted"} /\ Joined /\ campaign < Campaigns
  /\ campaign' = campaign + 1
  /\ Begin(C, global, input)
  /\ Goto("guard")
  /\ timeCount' = 0 /\ mini' = 0 /\ syncer' = "guard" /\ cur' = 1
  /\ script' = [f \in Fuzzers |-> "start"]
  /\ old' = manifest
  /\ UNCHANGED <<listed, delta, slept, dir, timer, queue, out, results>>

Ended == pc \in {"end", "aborted"} /\ Joined /\ campaign = Campaigns /\ UNCHANGED vars

Init ==
  /\ pc = "guard" /\ timeCount = 0 /\ mini = 0 /\ syncer = "guard" /\ cur = 1
  /\ listed = {} /\ delta = {} /\ campaign = 1
  /\ global \in {Corpus, {}} /\ input = global /\ cmin = global /\ current = TRUE
  /\ script = [f \in Fuzzers |-> "start"]
  /\ slept = [f \in Fuzzers |-> 0] /\ dir = [f \in Fuzzers |-> 1]
  /\ timer = [p \in Fuzzers \cup {Guard} |-> 0]
  /\ queue = None /\ out = None /\ peer = None /\ archive = None /\ manifest = None /\ old = None

ScriptStep(f) == Start(f) \/ Wake(f) \/ Clear(f) \/ Copy(f) \/ Archive(f)

LegionStep ==
  \/ GuardSleep \/ GuardWake \/ GuardExit \/ List \/ Read \/ Abort \/ Pull
  \/ Minimize \/ Update \/ Join \/ Refresh

Next ==
  \/ \E f \in Fuzzers : ScriptStep(f)
  \/ \E f \in Fuzzers, x \in Files : Find(f, x)
  \/ LegionStep
  \/ Tick
  \/ \E C \in {Corpus, {}} : Restart(C)
  \/ Ended

Spec == Init /\ [][Next]_vars

\* The scripts and legion are scheduled by the system and time passes; no
\* worker has to find anything.
FairSpec == Spec /\ WF_vars(LegionStep) /\ WF_vars(Tick) /\ \A f \in Fuzzers : WF_vars(ScriptStep(f))

-----------------------------------------------------------------------------
(* Properties.                                                             *)

IsFolder(F) == F \subseteq Files /\ \A x, y \in F : Name[x] = Name[y] => x = y

GuardType ==
  /\ pc \in {"guard", "nap", "list", "read", "minimize", "update", "join", "refresh", "end",
             "aborted"}
  /\ timeCount \in 0..Total /\ mini \in 0..Period
  /\ syncer \in {"guard", "main"} /\ cur \in Fuzzers /\ campaign \in 1..Campaigns
  /\ current \in BOOLEAN /\ listed \subseteq Names(Files)

ScriptType ==
  /\ script \in [Fuzzers -> {"start", "sleep", "clear", "copy", "clear last", "copy last",
                             "archive", "done"}]
  /\ slept \in [Fuzzers -> 0..RoundTime] /\ dir \in [Fuzzers -> 1..Workers]
  /\ timer \in [Fuzzers \cup {Guard} -> 0..Period]

FolderType ==
  /\ IsFolder(global) /\ IsFolder(cmin) /\ IsFolder(input) /\ IsFolder(delta)
  /\ out \in [Fuzzers -> SUBSET Files] /\ \A f \in Fuzzers : IsFolder(out[f])
  /\ queue \in [Fuzzers -> SUBSET Files]
  /\ \A f \in Fuzzers, d \in 1..Workers : IsFolder({x \in queue[f] : Dir[x] = d})
  /\ peer \in [Fuzzers -> SUBSET Texts(Files)] /\ archive \in [Fuzzers -> SUBSET Texts(Files)]
  /\ manifest \in [Fuzzers -> SUBSET Texts(Files)] /\ old \in [Fuzzers -> SUBSET Texts(Files)]

\* Every variable has its type, and no folder holds two files of one name.
TypeOK == GuardType /\ ScriptType /\ FolderType

\* The program is only ever terminated by a flush: at the moment the guard
\* misses a file, the script of the fuzzer is between clearing the round folder
\* and having copied all of the queues again.  So the synchronization at the
\* end of the round, after the scripts have been joined, is safe.
AbortNeedsFlush ==
  [][Abort => syncer = "guard" /\ script[cur] \in {"copy", "copy last"}]_vars

\* Whatever the guard missed, found partly copied or synchronized from an
\* earlier flush, in the end every seed in the archive of the round is known
\* to be synchronized, and it is in the global pool unless a file of its name
\* replaced it there or an earlier campaign had synchronized it.
ArchivedSeedsAreSynced ==
  pc = "refresh" =>
    \A f \in Fuzzers : \A t \in archive[f] :
      /\ t \in manifest[f]
      /\ \/ t \in Texts(global) \/ t \in old[f]
         \/ \E x \in Files, y \in global : Text[x] = t /\ Name[y] = Name[x]

\* Every seed a worker saved before it was terminated is in the archive, unless
\* a worker of the same fuzzer saved one under the same name: the last flush
\* makes up for whatever the earlier ones missed, because AFL.sh terminates its
\* workers before it.
FoundSeedsAreArchived ==
  \A f \in Selected : script[f] = "done" /\ pc # "aborted" =>
    \A x \in queue[f] :
      \/ Text[x] \in archive[f] \cup Texts(input)
      \/ \E y \in queue[f] : Name[y] = Name[x] /\ Dir[y] > Dir[x]

\* When the guard goes to sleep again, every started fuzzer has been given seeds
\* with all the coverage of the global pool, crashing seeds under -m excepted,
\* as long as the minimized pool could be refreshed.
FuzzersShareThePool ==
  pc = "guard" /\ timeCount > 0 /\ (DoMinimize => current) =>
    LET calm == Texts(global) \ (IF DoMinimize THEN Crashing ELSE {})
    IN \A f \in Selected : Cover(calm) \subseteq Cover(peer[f])

\* "Every 10 minutes sync only round-new seeds into the global seed folder"
\* (wait_and_pull): a synchronization of the guard that begins is completed.
EverySyncCompletes == [](pc = "list" /\ syncer = "guard" => <>(pc = "minimize"))
=============================================================================
