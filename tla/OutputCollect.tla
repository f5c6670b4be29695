--------------------------- MODULE OutputCollect ---------------------------
(***************************************************************************)
(* How the seeds of one fuzzer's workers reach the folder of a round       *)
(* (collect_active_round_outputs in legion.cc): the queue directories of   *)
(* the workers are copied by file name into one live folder, and the live  *)
(* folder is merged by fingerprint into the accumulated one.  This happens *)
(* in every monitor window while the workers write, and once more when     *)
(* they have been paused at the end of the round.                          *)
(*                                                                         *)
(* The contents of a file are a number, and its negative stands for what   *)
(* there is of them while the file is being written.  A worker may take a  *)
(* file away to write it anew, shorter, and a pool that has died is        *)
(* started again with empty queues.                                        *)
(***************************************************************************)
EXTENDS Integers, FiniteSets

CONSTANTS
  Workers,     \* worker directories of the fuzzer
  Names,       \* file names
  Contents,    \* contents of seeds
  Rounds,      \* round_number
  MaxWindows,  \* bound: monitor windows of a round
  MaxRemoved   \* bound: files removed in a round, before the last removal

ASSUME OutputCollectAssumption ==
  /\ Contents \subseteq Nat \ {0}
  /\ Rounds \in Nat \ {0} /\ MaxWindows \in Nat /\ MaxRemoved \in Nat

VARIABLES
  pc, round, windows,
  running,  \* workers that are not paused
  queue,    \* output/<worker>/queue
  live,     \* state.live_seed_folder
  accum,    \* state.accum_seed_folder: files are named by fingerprint
  dirs,     \* output directories the snapshot has not opened yet
  dir,      \* the one it copies, ...
  listed,   \* ... and the names it has not yet copied from it
  ending,   \* is this the collection at the end of the round?
  removed   \* history: files of the round that were removed, with their whole contents

files    == <<queue, live, accum>>
snapshot == <<dirs, dir, listed, ending>>
vars     == <<pc, round, windows, running, files, snapshot, removed>>

File(n, t)   == [name |-> n, text |-> t]
NamesOf(F)   == {x.name : x \in F}
TextsOf(F)   == {x.text : x \in F}
Fragments    == {-c : c \in Contents}
Whole(x)     == File(x.name, IF x.text \in Fragments THEN -x.text ELSE x.text)
Empty        == [w \in Workers |-> {}]
NoDir        == 0
Goto(l)      == pc' = l

-----------------------------------------------------------------------------
(* The workers.                                                            *)

\* A worker creates a file in its queue ...
Create(w, n, c) ==
  /\ w \in running /\ n \notin NamesOf(queue[w])
  /\ queue' = [queue EXCEPT ![w] = @ \cup {File(n, -c)}]
  /\ UNCHANGED <<pc, round, windows, running, live, accum, snapshot, removed>>

\* ... and completes it.
Complete(w) ==
  /\ w \in running
  /\ \E x \in queue[w] :
       /\ x.text \in Fragments
       /\ queue' = [queue EXCEPT ![w] = (@ \ {x}) \cup {File(x.name, -x.text)}]
  /\ UNCHANGED <<pc, round, windows, running, live, accum, snapshot, removed>>

\* trim_case: a worker unlinks a file of its queue, to write what is left of it
\* under the same name.
Unlink(w) ==
  /\ w \in running /\ Cardinality(removed) < MaxRemoved
  /\ \E x \in queue[w] :
       /\ x.text \notin Fragments
       /\ queue' = [queue EXCEPT ![w] = @ \ {x}]
       /\ removed' = removed \cup {x}
  /\ UNCHANGED <<pc, round, windows, running, live, accum, snapshot>>

\* After a window the pool has died: start_active_round_fuzzer removes the live
\* folder and the queues and starts new workers.
StartAgain ==
  /\ pc = "fuzz" /\ windows > 0 /\ Cardinality(removed) < MaxRemoved
  /\ running' = Workers
  /\ queue' = Empty /\ live' = {}
  /\ removed' = removed \cup {Whole(x) : x \in UNION {queue[w] : w \in Workers}}
  /\ UNCHANGED <<pc, round, windows, accum, snapshot>>

-----------------------------------------------------------------------------
(* collect_active_round_outputs                                            *)

\* Fault: one directory only.
CollectOne(last) ==
  /\ dirs' = {CHOOSE w \in Workers : TRUE} /\ dir' = NoDir /\ listed' = {} /\ ending' = last
  /\ Goto("snapshot")

Collect(last) ==
  /\ dirs' = Workers /\ dir' = NoDir /\ listed' = {} /\ ending' = last
  /\ Goto("snapshot")

\* stop_active_round_fuzzer without force_stop, before a monitor window.
Window ==
  /\ pc = "fuzz" /\ windows < MaxWindows
  /\ windows' = windows + 1
  /\ Collect(FALSE)
  /\ UNCHANGED <<round, running, files, removed>>

\* pause_active_round_fuzzer at the end of the round; the pause of some
\* workers, deaf, may fail.
Pause(deaf) ==
  /\ pc = "fuzz"
  /\ running' = deaf
  /\ Collect(TRUE)
  /\ UNCHANGED <<round, windows, files, removed>>

\* snapshot_runtime_outputs_for_label: the directories, in any order ...
OpenDir(w) ==
  /\ pc = "snapshot" /\ listed = {} /\ w \in dirs
  /\ dir' = w /\ dirs' = dirs \ {w}
  /\ listed' = NamesOf(queue[w])
  /\ UNCHANGED <<pc, round, windows, running, files, ending, removed>>

\* Fault: a file that is there already is not copied.
PutIfMissing(x, F) == IF x.name \in NamesOf(F) THEN F ELSE F \cup {x}

\* copy_options::overwrite_existing
Put(x, F) == {y \in F : y.name # x.name} \cup {x}

\* ... and their files, in any order.  A file that is no longer there is passed
\* over.
CopyFile(n) ==
  /\ pc = "snapshot" /\ n \in listed
  /\ \/ n \notin NamesOf(queue[dir]) /\ UNCHANGED live
     \/ \E x \in queue[dir] : x.name = n /\ live' = Put(x, live)
  /\ listed' = listed \ {n}
  /\ UNCHANGED <<pc, round, windows, running, queue, accum, dirs, dir, ending, removed>>

\* merge_seed_folder_into_accum
Merged == accum \cup TextsOf(live)

\* The monitor evaluates and the fuzzers go on, or the round is evaluated.
Merge ==
  /\ pc = "snapshot" /\ listed = {} /\ dirs = {}
  /\ accum' = Merged
  /\ dir' = NoDir
  /\ Goto(IF ending THEN "evaluate" ELSE "fuzz")
  /\ UNCHANGED <<round, windows, running, queue, live, dirs, listed, ending, removed>>

\* The next round resumes the workers with new folders; a pool that has died
\* (again) is started with empty queues.
NextRound(again) ==
  /\ pc = "evaluate" /\ round < Rounds
  /\ round' = round + 1
  /\ windows' = 0 /\ running' = Workers /\ ending' = FALSE
  /\ live' = {} /\ accum' = {}   \* ensure_clean_directory
  /\ removed' = {}
  /\ queue' = IF again THEN Empty ELSE queue
  /\ Goto("fuzz")
  /\ UNCHANGED <<dirs, dir, listed>>

Ended == pc = "evaluate" /\ round = Rounds /\ UNCHANGED vars

Init ==
  /\ pc = "fuzz" /\ round = 1 /\ windows = 0 /\ running = Workers
  /\ queue = Empty /\ live = {} /\ accum = {} /\ removed = {}
  /\ dirs = {} /\ dir = NoDir /\ listed = {} /\ ending = FALSE

Next ==
  \/ \E w \in Workers, n \in Names, c \in Contents : Create(w, n, c)
  \/ \E w \in Workers : Complete(w)
  \/ \E w \in Workers : Unlink(w)
  \/ StartAgain
  \/ Window
  \/ \E deaf \in SUBSET running : Pause(deaf)
  \/ \E w \in Workers : OpenDir(w)
  \/ \E n \in Names : CopyFile(n)
  \/ Merge
  \/ \E again \in BOOLEAN : NextRound(again)
  \/ Ended

Spec == Init /\ [][Next]_vars

-----------------------------------------------------------------------------
(* Properties.                                                             *)

Files == [name : Names, text : Contents \cup Fragments]
IsFolder(F) == F \subseteq Files /\ \A x, y \in F : x.name = y.name => x = y

\* Every variable has its type, and no folder has two files of one name.
TypeOK ==
  /\ pc \in {"fuzz", "snapshot", "evaluate"}
  /\ round \in 1..Rounds /\ windows \in 0..MaxWindows
  /\ running \subseteq Workers /\ dirs \subseteq Workers /\ dir \in Workers \cup {NoDir}
  /\ listed \subseteq Names /\ ending \in BOOLEAN
  /\ accum \subseteq Contents \cup Fragments
  /\ queue \in [Workers -> SUBSET Files] /\ \A w \in Workers : IsFolder(queue[w])
  /\ IsFolder(live)
  /\ removed \subseteq [name : Names, text : Contents]

\* Another worker has a file of this name with other contents, or had when it
\* was copied.  (One that could not be paused may have removed it since.)
Shadowed(w, x) ==
  \/ \E v \in Workers \ {w} : \E y \in queue[v] : y.name = x.name /\ (y.text # x.text \/ v \in running)
  \/ running # {} /\ x.name \in NamesOf(removed)

\* A seed in the queue of a paused worker is collected by the end of the round,
\* unless another worker has a file of its name, or may have had one: it may have
\* been written at any time, also while a window copied the queue, or in a round
\* before, and it may be what is left of a longer file of its name.
SeedsAreCollected ==
  pc = "evaluate" =>
    \A w \in Workers \ running : \A x \in queue[w] : x.text \in accum \/ Shadowed(w, x)

\* A fragment that a monitor window copied while the file was being written is
\* followed by the whole file before the round is evaluated, unless the file was
\* trimmed or wiped in the round, the worker has not been paused or was paused
\* while it wrote, or another has the name.
FragmentsAreFollowed ==
  pc = "evaluate" =>
    \A t \in accum \cap Fragments :
      \/ -t \in accum \cup TextsOf(removed)
      \/ \E w \in Workers : \E x \in queue[w] :
           x.text \in {t, -t} /\ (w \in running \/ x.text = t \/ Shadowed(w, x))
=============================================================================
