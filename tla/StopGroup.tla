----------------------------- MODULE StopGroup -----------------------------
(***************************************************************************)
(* pause_process_group, resume_process_group and stop_process_group        *)
(* (legion.cc) on the process tree of ONE worker.                          *)
(*                                                                         *)
(* The root is a session leader forked by legion.  Its descendants may     *)
(* leave its process group (setsid) and may leave the runtime directory    *)
(* of the fuzzer; they fork and exit while they are being signalled.  A    *)
(* signal to the group is one system call.  All other signals go to pids   *)
(* that were read from /proc before: each such pass is a scan and, later,  *)
(* the signals to what the scan found.                                     *)
(*                                                                         *)
(* Pids are not used again while a call runs.                              *)
(***************************************************************************)
EXTENDS Integers, Sequences

CONSTANTS
  NumProcs,   \* bound: processes of the worker; process 1 is the root
  MaxWaits,   \* turns of the loop that waits for SIGTERM to work; 10 in the code
  MaxCalls,   \* bound: calls
  Operations, \* the calls to explore, of "pause", "resume" and "stop"
  Deaf        \* whether descendants ignore SIGTERM: the values to explore

Procs == 1..NumProcs
Root  == 1

ASSUME StopGroupAssumption ==
  /\ NumProcs \in Nat \ {0} /\ MaxWaits \in Nat /\ MaxCalls \in Nat
  /\ Operations \subseteq {"pause", "resume", "stop"} /\ Deaf \subseteq BOOLEAN

VARIABLES
  status,       \* of each process
  parent,       \* 0 for the root and for orphans
  inGroup,      \* processes in the root's process group
  labelled,     \* processes whose cwd or command line belongs to the fuzzer
  stubborn,     \* processes that ignore SIGTERM
  termPending,  \* stopped processes with SIGTERM pending
  call, pos,    \* the running call and its next operation
  snap,         \* pids found by the last scan, still to be signalled
  scanned,
  known,        \* known_tree
  rootFinished, \* root_finished
  last,         \* the last call that returned with success
  births,       \* history: forks while a pause, or the end of a stop, runs
  late,         \* history: forks after SIGTERM was sent to the group, before SIGKILL is,
                \* in a worker where nobody ignores SIGTERM
  calls

procs == <<status, parent, inGroup, labelled, stubborn, termPending>>
local == <<snap, scanned, known, rootFinished>>
forks == <<births, late>>
vars  == <<procs, call, pos, local, last, forks, calls>>

Alive == {p \in Procs : status[p] \in {"running", "stopped"}}

-----------------------------------------------------------------------------
(* The operations of a call, in the order of the code.                     *)

Op(on, sig) == [on |-> on, sig |-> sig]

Repeat(n, ops) == [i \in 1..(n * Len(ops)) |-> ops[((i - 1) % Len(ops)) + 1]]

\* Fault: one pass over the tree.
PauseProgramOnce ==
  <<Op("reapOrFail", ""), Op("group", "STOP"), Op("tree", "STOP")>>

PauseProgram ==
  <<Op("reapOrFail", ""), Op("group", "STOP"), Op("tree", "STOP"), Op("tree", "STOP")>>

\* Fault: wakes the process group only.
ResumeProgramGroup == <<Op("reapOrFail", ""), Op("group", "CONT")>>

ResumeProgram ==
  <<Op("reapOrFail", ""), Op("group", "CONT"), Op("tree", "CONT"), Op("tree", "CONT")>>

\* Fault: does not wake a paused worker before SIGTERM.
WakePhaseNot == <<Op("reap", ""), Op("check", "")>>

WakePhase ==
  <<Op("reap", ""), Op("check", "")>>
  \o Repeat(2, <<Op("group", "CONT"), Op("tree", "CONT"), Op("label", "CONT"), Op("reap", "")>>)

TermPhase ==
  <<Op("group", "TERM")>>
  \o Repeat(2, <<Op("tree", "TERM"), Op("label", "TERM"), Op("known", "TERM"), Op("reap", "")>>)
  \o Repeat(MaxWaits, <<Op("reap", ""), Op("check", ""), Op("label", "TERM"), Op("known", "TERM")>>)

KillPhase ==
  <<Op("group", "KILL"), Op("tree", "KILL"), Op("label", "KILL"), Op("known", "KILL"),
    Op("wait", "")>>

Program(c) ==
  CASE c = "pause" -> PauseProgram
    [] c = "resume" -> ResumeProgram
    [] c = "stop" -> WakePhase \o TermPhase \o KillPhase
    [] OTHER -> << >>

\* SIGTERM has been sent to the group.
Terminating == call = "stop" /\ pos > Len(WakePhase) + 1

Killing == call = "stop" /\ pos > Len(WakePhase \o TermPhase)

Current(on) == call # "none" /\ pos <= Len(Program(call)) /\ Program(call)[pos].on = on
Signal == Program(call)[pos].sig

Advance == pos' = pos + 1 /\ UNCHANGED <<call, last, calls>>

Return(ok) ==
  /\ last' = IF ok THEN call ELSE "none"
  /\ call' = "none" /\ pos' = 0
  /\ UNCHANGED calls

-----------------------------------------------------------------------------
(* Signals.                                                                *)

\* The children of the dead become orphans.
Orphaned(dead) == [p \in Procs |-> IF parent[p] \in dead THEN 0 ELSE parent[p]]

\* Legion has to wait for the root, other processes are waited for elsewhere.
Dead(p) == IF p = Root THEN "zombie" ELSE "gone"

\* kill(pid, sig) for the processes S, one after the other.
Send(S, sig) ==
  LET to   == S \cap Alive
      dies == CASE sig = "KILL" -> to
                [] sig = "TERM" -> {p \in to \ stubborn : status[p] = "running"}
                [] sig = "CONT" -> to \cap termPending
                [] OTHER -> {}
  IN
  /\ status' = [p \in Procs |->
       IF p \in dies THEN Dead(p)
       ELSE IF p \in to /\ sig = "STOP" THEN "stopped"
       ELSE IF p \in to /\ sig = "CONT" THEN "running"
       ELSE status[p]]
  /\ parent' = Orphaned(dies)
  /\ termPending' =
       (termPending \ dies) \cup
       (IF sig = "TERM" THEN {p \in to \ stubborn : status[p] = "stopped"} ELSE {})
  /\ UNCHANGED <<inGroup, labelled, stubborn>>

\* The processes S include the root and the live children of their members.
IsFamily(S) == Root \in S /\ \A p \in Alive : parent[p] \in S => p \in S

\* collect_process_tree: the root and its descendants, the smallest family;
\* nothing once the root has been waited for.
Tree ==
  IF status[Root] = "gone" THEN {}
  ELSE {p \in Procs : \A S \in SUBSET Procs : IsFamily(S) => p \in S}

\* collect_label_runtime_processes
Label == labelled \cap Alive

-----------------------------------------------------------------------------
(* One step of a call.                                                     *)

\* kill(-pid, sig); a stop does not use it once the root has been reaped.
GroupSignal ==
  /\ Current("group")
  /\ IF rootFinished THEN UNCHANGED procs ELSE Send(inGroup, Signal)
  /\ Advance
  /\ UNCHANGED <<local, forks>>

\* signal_process_tree, signal_label_runtime_processes: look into /proc.
Scan ==
  /\ ~scanned
  /\ \/ Current("tree") /\ snap' = Tree
     \/ Current("label") /\ snap' = Label
  /\ scanned' = TRUE
  /\ UNCHANGED <<procs, call, pos, known, rootFinished, last, forks, calls>>

SignalScanned ==
  /\ scanned
  /\ Send(snap, Signal)
  /\ known' = IF call = "stop" THEN known \cup snap ELSE known
  /\ snap' = {} /\ scanned' = FALSE
  /\ Advance
  /\ UNCHANGED <<rootFinished, forks>>

SignalKnown ==
  /\ Current("known")
  /\ Send(known, Signal)
  /\ Advance
  /\ UNCHANGED <<local, forks>>

\* reap_finished_process_group: waitpid(pid, WNOHANG).
Reaped == status' = [status EXCEPT ![Root] = IF @ = "zombie" THEN "gone" ELSE @]

\* Fault: waitpid without WNOHANG.
ReapBlocking ==
  /\ Current("reap") /\ Root \notin Alive
  /\ Reaped
  /\ rootFinished' = TRUE
  /\ Advance
  /\ UNCHANGED <<parent, inGroup, labelled, stubborn, termPending, snap, scanned, known, forks>>

Reap ==
  /\ Current("reap")
  /\ Reaped
  /\ rootFinished' = (Root \notin Alive)
  /\ Advance
  /\ UNCHANGED <<parent, inGroup, labelled, stubborn, termPending, snap, scanned, known, forks>>

\* pause and resume answer false for a worker that has finished.
ReapOrFail ==
  /\ Current("reapOrFail")
  /\ Reaped
  /\ IF Root \in Alive THEN Advance ELSE Return(FALSE)
  /\ UNCHANGED <<parent, inGroup, labelled, stubborn, termPending, local, forks>>

\* Fault: the root is all that counts.
MayReturnWithRoot == rootFinished

MayReturn == rootFinished /\ Label = {}

\* has_label_runtime_processes: a stop returns when nothing is left.
Check ==
  /\ Current("check")
  /\ IF MayReturn THEN Send(known, "TERM") /\ Return(TRUE)
                  ELSE UNCHANGED procs /\ Advance
  /\ UNCHANGED <<local, forks>>

\* waitpid(pid, &status, 0)
Wait ==
  /\ Current("wait")
  /\ rootFinished \/ Root \notin Alive
  /\ Reaped
  /\ Advance
  /\ UNCHANGED <<parent, inGroup, labelled, stubborn, termPending, local, forks>>

Finish ==
  /\ call # "none" /\ pos > Len(Program(call))
  /\ Return(TRUE)
  /\ UNCHANGED <<procs, local, forks>>

-----------------------------------------------------------------------------
(* The calls of WorkerPool and the life of the processes.                  *)

Call(c) ==
  /\ call = "none" /\ last # "stop"
  /\ calls < MaxCalls
  /\ calls' = calls + 1
  /\ call' = c /\ pos' = 1 /\ last' = "none"
  /\ snap' = {} /\ scanned' = FALSE /\ known' = {} /\ rootFinished' = FALSE
  /\ births' = 0 /\ late' = 0
  /\ UNCHANGED procs

\* A descendant is forked; it may leave the process group or the directory.
Fork(p, c, group, label, deaf) ==
  /\ status[p] = "running" /\ status[c] = "unborn"
  /\ \A q \in Procs : q < c => status[q] # "unborn"
  /\ status' = [status EXCEPT ![c] = "running"]
  /\ parent' = [parent EXCEPT ![c] = p]
  /\ inGroup' = IF group /\ p \in inGroup THEN inGroup \cup {c} ELSE inGroup
  /\ labelled' = IF label /\ p \in labelled THEN labelled \cup {c} ELSE labelled
  /\ stubborn' = IF deaf THEN stubborn \cup {c} ELSE stubborn
  /\ births' = IF call = "pause" \/ Killing THEN births + 1 ELSE births
  /\ late' = IF Terminating /\ ~Killing /\ stubborn' = {} THEN late + 1 ELSE late
  /\ UNCHANGED <<termPending, call, pos, local, last, calls>>

Exit(p) ==
  /\ status[p] = "running"
  /\ status' = [status EXCEPT ![p] = Dead(p)]
  /\ parent' = Orphaned({p})
  /\ UNCHANGED <<termPending, inGroup, labelled, stubborn, call, pos, local, last, forks, calls>>

Init ==
  /\ status = [p \in Procs |-> IF p = Root THEN "running" ELSE "unborn"]
  /\ parent = [p \in Procs |-> 0]
  /\ inGroup = {Root} /\ labelled = {Root}
  /\ \E deaf \in Deaf : stubborn = IF deaf THEN {Root} ELSE {}
  /\ termPending = {}
  /\ call = "none" /\ pos = 0 /\ last = "none"
  /\ snap = {} /\ scanned = FALSE /\ known = {} /\ rootFinished = FALSE
  /\ births = 0 /\ late = 0 /\ calls = 0

Controller ==
  \/ GroupSignal \/ Scan \/ SignalScanned \/ SignalKnown
  \/ Reap \/ ReapOrFail \/ Check \/ Wait \/ Finish

Worker ==
  \/ \E p, c \in Procs, group, label \in BOOLEAN, deaf \in Deaf : Fork(p, c, group, label, deaf)
  \/ \E p \in Procs : Exit(p)

Next ==
  \/ Controller
  \/ \E c \in Operations : Call(c)
  \/ Worker

\* The thread that signals runs whenever it can; processes do as they like.
Spec == Init /\ [][Next]_vars /\ WF_vars(Controller)

-----------------------------------------------------------------------------
(* Properties.                                                             *)

\* Every variable has its type; a process that has SIGTERM pending is stopped,
\* and root_finished means that the root has been waited for.
TypeOK ==
  /\ status \in [Procs -> {"unborn", "running", "stopped", "zombie", "gone"}]
  /\ parent \in [Procs -> 0..NumProcs]
  /\ inGroup \subseteq Procs /\ labelled \subseteq Procs /\ stubborn \subseteq Procs
  /\ \A p \in termPending : status[p] = "stopped"
  /\ call \in {"none", "pause", "resume", "stop"} /\ last \in {"none", "pause", "resume", "stop"}
  /\ pos \in 0..(Len(Program(call)) + 1)
  /\ snap \subseteq Procs /\ known \subseteq Procs
  /\ scanned \in BOOLEAN
  /\ rootFinished \in {FALSE, status[Root] = "gone"}
  /\ births \in Nat /\ late \in Nat /\ calls \in 0..MaxCalls

\* When a pause has answered true, the process group is stopped as a whole,
\* and the rest of the tree as well if at most one process was forked during
\* the call: the second pass finds what the first one missed.  (A process
\* outside the group whose parent has exited is in neither.)
PauseIsComplete ==
  last = "pause" /\ status[Root] = "stopped" =>
    /\ \A p \in inGroup \cap Alive : status[p] = "stopped"
    /\ births <= 1 => \A p \in Tree : status[p] = "stopped"

\* When a resume has answered true, nothing that pause_process_group stopped
\* stays behind in the group or in the tree, whoever left the group.
ResumeIsComplete ==
  last = "resume" =>
    \A p \in (inGroup \cup Tree) \cap Alive : status[p] = "running"

\* When a stop has returned, no process of the fuzzer lives, be it an orphan,
\* in a session of its own or deaf to SIGTERM, unless one was forked while
\* SIGKILL was being sent; and the root has been waited for.
StopIsComplete ==
  last = "stop" => status[Root] = "gone" /\ (births = 0 => Label = {})

\* A worker that obeys SIGTERM is never killed, not even one that was paused:
\* SIGKILL is for processes that ignore SIGTERM.  (A worker may outrun SIGTERM
\* with one more process forked for every turn of the loop that waits.)
KillOnlyTheDeaf == Killing /\ late < MaxWaits => stubborn # {}

\* Every call returns, although a stop waits for the root at its end.
CallsReturn == (call # "none") ~> (call = "none")
=============================================================================
