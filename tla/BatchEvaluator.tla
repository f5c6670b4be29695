--------------------------- MODULE BatchEvaluator ---------------------------
(***************************************************************************)
(* run_batch of the instrumented binary (instrumentor/entry.cc): replays   *)
(* the seeds of a directory, each in a forked child, at most jobs at a     *)
(* time, merges the reports the children leave in temporary files, kills   *)
(* children that exceed the per-seed timeout, and then replays the seeds   *)
(* that found new edges in its own process to learn the function names.    *)
(*                                                                         *)
(* The seeds are numbered in the order of seed_files.  active_tasks is     *)
(* filled in that order and erased in place, so it is the set of its seeds *)
(* and the scan's position i is the last seed the scan has passed.         *)
(* The path of an execution is identified by the edges it takes.           *)
(***************************************************************************)
EXTENDS Integers, FiniteSets

CONSTANTS
  NumSeeds,   \* seed_files.size()
  NumEdges,   \* tracing_array_size_jue
  Jobs,       \* --jobs
  Timeouts    \* the values of (seed_timeout > 0) to explore

Seeds == 1..NumSeeds
Edges == 1..NumEdges

ASSUME BatchAssumption ==
  /\ NumSeeds \in Nat
  /\ NumEdges \in Nat
  /\ Jobs \in Nat
  /\ Timeouts \subseteq BOOLEAN

VARIABLES
  pc,
  behaviour,   \* what the target does with a launched seed
  edgesOf,     \* the edges in the report of a child that finished
  timeout,     \* seed_timeout > 0
  nextSeed,    \* next_seed_index + 1
  tasks,       \* active_tasks
  cursor,      \* position of the scan
  child,       \* the child of a seed: "none", "running", "ok" or "bad"
  reaped,      \* children that waitpid has answered for
  killed,      \* children that were sent SIGKILL
  overdue,     \* children whose elapsed time has reached seed_timeout
  temp,        \* seeds with a temporary report on disk
  edgeCounts, pathCounts,
  seen,        \* selected_edge_seen
  mapping,     \* mapping_seed_files
  cached,      \* seeds with a report in seed_report_dir
  processed, timedOut, failed,
  named,       \* edges with an entry in edge_to_func
  lostReplay   \* history: a replay of the second stage failed

input    == <<behaviour, edgesOf, timeout>>
os       == <<child, reaped, killed, overdue>>
merge    == <<edgeCounts, pathCounts, seen, mapping, cached>>
counters == <<processed, timedOut, failed>>
stage2   == <<named, lostReplay>>
vars     == <<pc, input, nextSeed, tasks, cursor, os, temp, merge, counters, stage2>>

\* options.jobs == 0 means one job.
MaxJobs == IF Jobs = 0 THEN 1 ELSE Jobs

Goto(l) == pc' = l

-----------------------------------------------------------------------------
(* The launch loop.                                                        *)

CanLaunch == pc = "launch" /\ nextSeed <= NumSeeds /\ Cardinality(tasks) < MaxJobs

Behaviours == {"ok", "crash", "hang"}

\* The target may finish the seed, crash on it or never return.
Launch(b) ==
  /\ CanLaunch
  /\ behaviour' = [behaviour EXCEPT ![nextSeed] = b]
  /\ temp' = temp \cup {nextSeed}
  /\ child' = [child EXCEPT ![nextSeed] = "running"]
  /\ tasks' = tasks \cup {nextSeed}
  /\ nextSeed' = nextSeed + 1
  /\ UNCHANGED <<pc, edgesOf, timeout, cursor, reaped, killed, overdue, merge, counters, stage2>>

\* mkstemp failed, or fork failed and the temporary report is unlinked again.
LaunchFail ==
  /\ CanLaunch
  /\ failed' = failed + 1
  /\ nextSeed' = nextSeed + 1
  /\ UNCHANGED <<pc, input, tasks, cursor, os, temp, merge, processed, timedOut, stage2>>

LaunchDone ==
  /\ pc = "launch"
  /\ nextSeed > NumSeeds \/ Cardinality(tasks) >= MaxJobs
  /\ cursor' = 0
  /\ Goto("scan")
  /\ UNCHANGED <<input, nextSeed, tasks, os, temp, merge, counters, stage2>>

-----------------------------------------------------------------------------
(* The scan over active_tasks.                                             *)

Ahead == {s \in tasks : s > cursor}
IsCurrent(s) == s \in Ahead /\ \A r \in Ahead : s <= r

\* Fault: prefers a seed only when all its edges are new.
ChosenIfAllNew(s) == edgesOf[s] \cap seen = {}

\* select_seed_for_symbolization: the seed has an edge that is not yet seen.
Chosen(s) == edgesOf[s] \ seen # {}

\* merge_seed_report and what finalize_task does with a good report.  An edge
\* counts once per seed.  The report is copied to seed_report_dir, if that works.
MergeReport(s) ==
  /\ edgeCounts' = [e \in Edges |-> edgeCounts[e] + IF e \in edgesOf[s] THEN 1 ELSE 0]
  /\ pathCounts' = [pathCounts EXCEPT ![edgesOf[s]] = @ + 1]
  /\ seen' = seen \cup edgesOf[s]
  /\ mapping' = IF Chosen(s) THEN mapping \cup {s} ELSE mapping
  /\ cached' \in {cached, cached \cup {s}}

Erase(s) == tasks' = tasks \ {s}

\* Fault: remembers a crashing seed for the second stage.
FinalizeAnyExit(s) ==
  /\ IF child[s] = "ok" THEN MergeReport(s) /\ processed' = processed + 1 /\ UNCHANGED failed
     ELSE /\ mapping' = mapping \cup {s} /\ failed' = failed + 1
          /\ UNCHANGED <<edgeCounts, pathCounts, seen, cached, processed>>
  /\ temp' = temp \ {s}
  /\ UNCHANGED timedOut

\* Fault: whatever report the child has left is stored.
FinalizeAnyReport(s) ==
  /\ IF child[s] = "ok" THEN MergeReport(s) /\ processed' = processed + 1 /\ UNCHANGED failed
     ELSE /\ cached' = cached \cup {s} /\ failed' = failed + 1
          /\ UNCHANGED <<edgeCounts, pathCounts, seen, mapping, processed>>
  /\ temp' = temp \ {s}
  /\ UNCHANGED timedOut

\* finalize_task(task, status, false)
Finalize(s) ==
  /\ IF child[s] = "ok" THEN MergeReport(s) /\ processed' = processed + 1 /\ UNCHANGED failed
     ELSE failed' = failed + 1 /\ UNCHANGED <<merge, processed>>
  /\ temp' = temp \ {s}
  /\ UNCHANGED timedOut

\* waitpid(WNOHANG) answers with the status.
ScanExited(s) ==
  /\ pc = "scan" /\ IsCurrent(s)
  /\ child[s] # "running"
  /\ reaped' = reaped \cup {s}
  /\ Finalize(s)
  /\ Erase(s)
  /\ UNCHANGED <<pc, input, nextSeed, cursor, child, killed, overdue, stage2>>

\* waitpid answers 0; the child may still exit before the clock is read.
\* waitpid cannot fail here: the child is ours and was never waited for.
ScanRunning(s) ==
  /\ pc = "scan" /\ IsCurrent(s)
  /\ child[s] = "running"
  /\ cursor' = s
  /\ Goto("check")
  /\ UNCHANGED <<input, nextSeed, tasks, os, temp, merge, counters, stage2>>

\* Fault: looks at the clock only while there are seeds left to launch.
OverdueWhileLaunching == timeout /\ cursor \in overdue /\ nextSeed <= NumSeeds

Overdue == timeout /\ cursor \in overdue

\* Fault: the killed child is left to the next scan.
KillWithoutWait ==
  /\ pc = "check" /\ Overdue
  /\ killed' = killed \cup {cursor}
  /\ child' = [child EXCEPT ![cursor] = IF @ = "running" THEN "bad" ELSE @]
  /\ timedOut' = timedOut + 1
  /\ temp' = temp \ {cursor}
  /\ Erase(cursor)
  /\ Goto("scan")
  /\ UNCHANGED <<input, nextSeed, cursor, reaped, overdue, merge, processed, failed, stage2>>

\* kill(SIGKILL), a blocking waitpid, finalize_task(task, status, true): the
\* report is dropped, even if the child exited with success just before.
Kill ==
  /\ pc = "check" /\ Overdue
  /\ killed' = killed \cup {cursor}
  /\ child' = [child EXCEPT ![cursor] = IF @ = "running" THEN "bad" ELSE @]
  /\ reaped' = reaped \cup {cursor}
  /\ timedOut' = timedOut + 1
  /\ temp' = temp \ {cursor}
  /\ Erase(cursor)
  /\ Goto("scan")
  /\ UNCHANGED <<input, nextSeed, cursor, overdue, merge, processed, failed, stage2>>

StillInTime ==
  /\ pc = "check" /\ ~Overdue
  /\ Goto("scan")
  /\ UNCHANGED <<input, nextSeed, tasks, cursor, os, temp, merge, counters, stage2>>

ScanDone ==
  /\ pc = "scan" /\ Ahead = {}
  /\ Goto(IF nextSeed <= NumSeeds \/ tasks # {} THEN "launch" ELSE "symbolize")
  /\ cursor' = 0
  /\ UNCHANGED <<input, nextSeed, tasks, os, temp, merge, counters, stage2>>

-----------------------------------------------------------------------------
(* run_symbolization_pass: the mapping seeds again, in this process.       *)

\* harvest_edge_to_func stops before tracing_array_size_jue, the last edge.
Harvested(S) == (UNION {edgesOf[s] : s \in S}) \ {NumEdges}

\* A seed file that cannot be read any more is skipped.  The symbolizer knows
\* every edge.
Symbolize ==
  /\ pc = "symbolize"
  /\ \E gone \in SUBSET mapping :
       /\ named' = Harvested(mapping \ gone)
       /\ lostReplay' = (gone # {})
  /\ Goto("report")
  /\ UNCHANGED <<input, nextSeed, tasks, cursor, os, temp, merge, counters>>

\* write_batch_report
WriteReport ==
  /\ pc = "report"
  /\ Goto("done")
  /\ UNCHANGED <<input, nextSeed, tasks, cursor, os, temp, merge, counters, stage2>>

-----------------------------------------------------------------------------
(* The children and the clock.                                             *)

\* launch_seed_in_child: a run that returns writes its sparse report.
ChildExit(s) ==
  /\ child[s] = "running"
  /\ \/ /\ behaviour[s] = "ok"
        /\ child' = [child EXCEPT ![s] = "ok"]
        /\ \E E \in SUBSET Edges : edgesOf' = [edgesOf EXCEPT ![s] = E]
     \/ /\ behaviour[s] = "crash"
        /\ child' = [child EXCEPT ![s] = "bad"]
        /\ UNCHANGED edgesOf
  /\ UNCHANGED <<pc, behaviour, timeout, nextSeed, tasks, cursor, reaped, killed, overdue,
                 temp, merge, counters, stage2>>

Expire(s) ==
  /\ timeout
  /\ child[s] = "running" /\ s \notin overdue
  /\ overdue' = overdue \cup {s}
  /\ UNCHANGED <<pc, input, nextSeed, tasks, cursor, child, reaped, killed, temp, merge,
                 counters, stage2>>

Init ==
  /\ pc = "launch"
  /\ behaviour = [s \in Seeds |-> "ok"]
  /\ edgesOf = [s \in Seeds |-> {}]
  /\ timeout \in Timeouts
  /\ nextSeed = 1 /\ tasks = {} /\ cursor = 0
  /\ child = [s \in Seeds |-> "none"]
  /\ reaped = {} /\ killed = {} /\ overdue = {} /\ temp = {}
  /\ edgeCounts = [e \in Edges |-> 0]
  /\ pathCounts = [p \in SUBSET Edges |-> 0]
  /\ seen = {} /\ mapping = {} /\ cached = {}
  /\ processed = 0 /\ timedOut = 0 /\ failed = 0
  /\ named = {} /\ lostReplay = FALSE

Parent ==
  \/ (\E b \in Behaviours : Launch(b)) \/ LaunchFail \/ LaunchDone
  \/ \E s \in Seeds : ScanExited(s) \/ ScanRunning(s)
  \/ Kill \/ StillInTime \/ ScanDone \/ Symbolize \/ WriteReport

Returned == pc = "done" /\ UNCHANGED vars

Next == Parent \/ Returned \/ \E s \in Seeds : ChildExit(s) \/ Expire(s)

\* run_batch is a loop without waiting conditions, a child that does not hang
\* exits, and time passes.
Spec ==
  /\ Init /\ [][Next]_vars
  /\ WF_vars(Parent)
  /\ \A s \in Seeds : WF_vars(ChildExit(s)) /\ WF_vars(Expire(s))

-----------------------------------------------------------------------------
(* Properties.                                                             *)

\* Every variable has its type.
TypeOK ==
  /\ pc \in {"launch", "scan", "check", "symbolize", "report", "done"}
  /\ behaviour \in [Seeds -> Behaviours]
  /\ edgesOf \in [Seeds -> SUBSET Edges] /\ timeout \in BOOLEAN
  /\ nextSeed \in 1..(NumSeeds + 1) /\ cursor \in 0..NumSeeds
  /\ child \in [Seeds -> {"none", "running", "ok", "bad"}]
  /\ tasks \subseteq Seeds /\ reaped \subseteq Seeds /\ killed \subseteq Seeds
  /\ overdue \subseteq Seeds /\ temp \subseteq Seeds
  /\ mapping \subseteq Seeds /\ cached \subseteq Seeds
  /\ edgeCounts \in [Edges -> Nat] /\ pathCounts \in [SUBSET Edges -> Nat]
  /\ seen \subseteq Edges /\ named \subseteq Edges
  /\ processed \in Nat /\ timedOut \in Nat /\ failed \in Nat
  /\ lostReplay \in BOOLEAN

\* A forked child stays in active_tasks until it is waited for, and has a
\* temporary report exactly as long: run_batch leaves no zombie, no running
\* child and no file behind, whichever way a seed ends.
TasksOwnTheirResources ==
  \A s \in Seeds :
    /\ s \in tasks <=> (child[s] # "none" /\ s \notin reaped)
    /\ s \in tasks <=> s \in temp

\* Every launched seed is counted exactly once, whichever of exit and timeout
\* comes first: the summary processed + timed_out + failed adds up.
EverySeedIsCounted ==
  processed + timedOut + failed + Cardinality(tasks) = nextSeed - 1

Finished == {s \in reaped \ killed : child[s] = "ok"}

\* The edge frequencies are "corpus-level seed hits": the number of seeds
\* whose child finished, in whatever order, with that edge; the path counts
\* add up to the same frequencies.
CountsAreSeedHits ==
  /\ processed = Cardinality(Finished)
  /\ \A e \in Edges : edgeCounts[e] = Cardinality({s \in Finished : e \in edgesOf[s]})
  /\ \A p \in SUBSET Edges : pathCounts[p] = Cardinality({s \in Finished : edgesOf[s] = p})

\* The synchronization of the round takes the features of a seed from its stored
\* report and the reward from the counts: a stored report is one that was
\* counted, also for children that fail or finish just before they are killed.
StoredReportsAreCounted ==
  \A s \in cached : s \in Finished /\ \A e \in edgesOf[s] : edgeCounts[e] > 0

\* What the batch reports is exact, at every step and whichever way seeds end.
CountsAreExact == EverySeedIsCounted /\ CountsAreSeedHits /\ StoredReportsAreCounted

\* The second stage replays seeds in the process of run_batch, without a
\* timeout and without a child to crash in: only seeds whose child finished,
\* so that a crashing or hanging seed does not take the whole report with it.
ReplaysAreHarmless == \A s \in mapping : behaviour[s] = "ok"

\* Although only seeds with new edges are replayed, the function of every
\* edge with a count is known in the end, unless a replay failed; only the
\* last edge never has one (harvest_edge_to_func stops one short of it).
CountedEdgesAreNamed ==
  pc \in {"report", "done"} /\ ~lostReplay =>
    named = {e \in Edges \ {NumEdges} : edgeCounts[e] > 0}

\* run_batch terminates if a timeout is set or no seed hangs.
BatchEnds ==
  (timeout \/ [](\A s \in Seeds : behaviour[s] # "hang")) ~> (pc = "done")
=============================================================================
