-------------------------- MODULE LongRoundProofs --------------------------
(***************************************************************************)
(* Safety of the long round for every number of fuzzers, workers, files    *)
(* and campaigns and every round time and period of the guard: the flushes *)
(* of the scripts against the synchronization that reads the same folders. *)
(***************************************************************************)
EXTENDS LongRound, WellFoundedInduction, TLAPS

(***************************************************************************)
(* Control.  A fuzzer that was not selected never runs.  The guard's first *)
(* sleep outlasts the start of the scripts, so that no synchronization     *)
(* meets a folder that a script is about to empty; the main thread         *)
(* synchronizes only when the scripts have been joined.                    *)
(***************************************************************************)

Starting == \E f \in Selected : script[f] = "start"

Control ==
  /\ \A f \in Fuzzers \ Selected : script[f] = "start" /\ archive[f] = {}
  /\ Starting => /\ timeCount = 0 /\ pc \in {"guard", "nap", "join"}
                 /\ pc = "guard" => mini = 0
                 /\ pc = "nap" => timer[Guard] > 0
  /\ pc = "nap" => Watching
  /\ pc \in {"minimize", "update"} => syncer = "guard"
  /\ pc = "minimize" => cur = 1
  /\ pc \in {"refresh", "end"} => syncer = "main"
  /\ syncer = "main" => Joined
  /\ \A f \in Fuzzers : script[f] = "sleep" => slept[f] < RoundTime
  /\ pc = "read" => Names(delta) \cap listed = {}

CInv == TypeOK /\ Control

(***************************************************************************)
(* The folder of a fuzzer and the names the synchronization has listed.    *)
(***************************************************************************)

Copying(f) == script[f] \in {"copy", "copy last"}

\* A listed name is in the folder, or in a queue that is still to be copied.
Listing ==
  /\ \A f \in Selected : script[f] # "start" => Names(out[f]) \subseteq Names(queue[f])
  /\ pc = "read" =>
       \A n \in listed :
         \/ n \in Names(out[cur])
         \/ /\ Copying(cur)
            /\ \E x \in queue[cur] : Name[x] = n /\ Dir[x] >= dir[cur]

(***************************************************************************)
(* The last flush and the archive.                                         *)
(***************************************************************************)

\* A file of a later directory has the name of x.
Shadowed(f, x) == \E y \in queue[f] : Name[y] = Name[x] /\ Dir[y] > Dir[x]

Flushed ==
  \A f \in Selected :
    /\ script[f] = "copy last" =>
         \A x \in queue[f] : Dir[x] < dir[f] => x \in out[f] \/ Shadowed(f, x)
    /\ script[f] = "archive" => \A x \in queue[f] : x \in out[f] \/ Shadowed(f, x)
    /\ script[f] = "done" /\ pc \notin {"aborted", "end"} =>
         archive[f] \subseteq Texts(out[f]) \ Texts(input)

(***************************************************************************)
(* The manifests, the global pool and the final synchronization.           *)
(***************************************************************************)

\* Contents t are in the pool, or a file of a name they had is, or an earlier
\* campaign has synchronized them.
Pooled(f, t) ==
  \/ t \in Texts(global) \/ t \in old[f]
  \/ \E x \in Files, y \in global : Text[x] = t /\ Name[y] = Name[x]

Synced == \A f \in Fuzzers : \A t \in manifest[f] : Pooled(f, t)

\* The main thread's loop: what is archived is in the manifests of the fuzzers
\* it has done, and known or still listed for the one it has reached.
Progress ==
  syncer = "main" =>
    /\ pc \in {"list", "read"} => \A f \in Fuzzers : f < cur => archive[f] \subseteq manifest[f]
    /\ pc = "read" =>
         \A t \in archive[cur] :
           \/ t \in manifest[cur] \cup Texts(delta)
           \/ \E x \in out[cur] : Text[x] = t /\ Name[x] \in listed
    /\ pc = "refresh" => \A f \in Fuzzers : archive[f] \subseteq manifest[f]

(***************************************************************************)
(* The pool that the guard shares.                                         *)
(***************************************************************************)

Given(f) == Texts(Shared) \subseteq peer[f]

Sharing ==
  /\ pc = "update" \/ (pc = "guard" /\ timeCount > 0) =>
       (DoMinimize /\ current => cmin \in Minimized(global))
  /\ pc = "update" => \A f \in Selected : f < cur => Given(f)
  /\ pc = "guard" /\ timeCount > 0 => \A f \in Selected : Given(f)

IInv == CInv /\ Listing /\ Flushed /\ FoundSeedsAreArchived /\ Synced /\ Progress /\ Sharing

(***************************************************************************)
(* Numbers, names and folders.                                             *)
(***************************************************************************)

LEMMA Basics ==
  /\ NumFuzzers \in Nat /\ Workers \in Nat /\ Workers >= 1 /\ Campaigns \in Nat /\ Campaigns >= 1
  /\ RoundTime \in Nat /\ RoundTime >= 1 /\ Period \in Nat /\ Period >= 1 /\ Total \in Nat
  /\ 1 \in Fuzzers /\ Selected \subseteq Fuzzers /\ 0 \notin Fuzzers /\ Guard = 0
  /\ \A f \in Fuzzers : f \in Int /\ 1 <= f /\ f <= NumFuzzers
  /\ \A f \in Int : 1 <= f /\ f <= NumFuzzers => f \in Fuzzers
<1>1. Rounds * RoundTime \in Nat
  BY LongRoundAssumption
<1> QED
  BY <1>1, LongRoundAssumption DEF Total, Fuzzers, Selected, Guard

LEMMA DirRange == \A x \in Files : Dir[x] \in 1..Workers /\ Dir[x] >= 1
BY LongRoundAssumption

LEMMA NoDirBeforeFirst == \A x \in Files : ~(Dir[x] < 1)
<1> SUFFICES ASSUME NEW x \in Files PROVE ~(Dir[x] < 1)
  OBVIOUS
<1>1. Dir[x] \in 1..Workers /\ Workers \in Nat
  BY LongRoundAssumption
<1> QED
  BY <1>1

\* A nonempty set of natural numbers has its minimum.
LEMMA LeastName ==
  ASSUME NEW T \in SUBSET Nat, T # {}
  PROVE  Min(T) \in T
<1> DEFINE R == OpToRel(<, Nat)
<1>1. IsWellFoundedOn(R, Nat)
  BY NatLessThanWellFounded
<1>2. \A x, y \in Nat : <<y, x>> \in R <=> y < x
  BY DEF OpToRel
<1> HIDE DEF R
<1>3. PICK x \in T : \A y \in T : ~(<<y, x>> \in R)
  BY <1>1, WFMin
<1>4. \A y \in T : y \in Nat /\ x \in Nat /\ ~(y < x)
  BY <1>2, <1>3, Zenon
<1>5. \A y \in T : x <= y
  <2> SUFFICES ASSUME NEW y \in T PROVE x <= y
    OBVIOUS
  <2>1. y \in Nat /\ x \in Nat /\ ~(y < x)
    BY <1>4, Zenon
  <2> QED
    BY <2>1
<1> QED
  BY <1>3, <1>5 DEF Min

LEMMA NamesAreNumbers ==
  /\ Names(Files) \subseteq Nat
  /\ \A F : F \subseteq Files => Names(F) \subseteq Names(Files) /\ Texts(F) \subseteq Texts(Files)
BY LongRoundAssumption DEF Names, Texts

\* A part of a folder is a folder.
LEMMA PartOfFolder ==
  ASSUME NEW G, IsFolder(G), NEW F \in SUBSET G
  PROVE  IsFolder(F)
BY DEF IsFolder

\* cp: the new files are there, a file that is not there any more has left its
\* name to a new one, and names stay distinct.
LEMMA PutEffect ==
  ASSUME NEW F, IsFolder(F), NEW G, IsFolder(G)
  PROVE  /\ IsFolder(Put(F, G)) /\ F \subseteq Put(F, G)
         /\ Put(F, G) \subseteq F \cup G
         /\ Names(Put(F, G)) = Names(F) \cup Names(G)
         /\ \A x \in G : x \in Put(F, G) \/ \E y \in F : Name[y] = Name[x]
<1>1. \A x \in G : x \in Put(F, G) \/ \E y \in F : Name[y] = Name[x]
  BY DEF Put, Names
<1>2. F \subseteq Put(F, G) /\ Put(F, G) \subseteq F \cup G
  BY DEF Put
<1>3. IsFolder(Put(F, G))
  BY DEF Put, Names, IsFolder
<1>4. Names(Put(F, G)) = Names(F) \cup Names(G)
  BY <1>1, <1>2 DEF Names
<1> QED
  BY <1>1, <1>2, <1>3, <1>4

LEMMA CorpusIsFolder == IsFolder(Corpus) /\ IsFolder({}) /\ Corpus \subseteq Files
BY LongRoundAssumption DEF Corpus, IsFolder

LEMMA NoneType ==
  /\ \A S : None \in [Fuzzers -> SUBSET S]
  /\ \A f \in Fuzzers : None[f] = {}
BY DEF None

LEMMA ControlInit == Init => CInv
<1> SUFFICES ASSUME Init PROVE CInv
  OBVIOUS
<1>1. 0 \in 0..Total /\ 0 \in 0..Period /\ 0 \in 0..RoundTime /\ 1 \in 1..Workers /\ 1 \in 1..Campaigns
  BY Basics
<1>2. IsFolder(global) /\ IsFolder(cmin) /\ IsFolder(input) /\ IsFolder(delta)
  BY CorpusIsFolder DEF Init
<1>3. /\ out \in [Fuzzers -> SUBSET Files] /\ queue \in [Fuzzers -> SUBSET Files]
      /\ peer \in [Fuzzers -> SUBSET Texts(Files)] /\ archive \in [Fuzzers -> SUBSET Texts(Files)]
      /\ manifest \in [Fuzzers -> SUBSET Texts(Files)] /\ old \in [Fuzzers -> SUBSET Texts(Files)]
      /\ \A f \in Fuzzers : out[f] = {} /\ archive[f] = {} /\ queue[f] = {}
  BY NoneType DEF Init
<1>4. /\ listed \subseteq Names(Files) /\ \A f \in Fuzzers : IsFolder(out[f])
      /\ \A f \in Fuzzers, d \in 1..Workers : IsFolder({x \in queue[f] : Dir[x] = d})
  BY <1>3, CorpusIsFolder DEF Init, IsFolder
<1>5. TypeOK
  BY <1>1, <1>2, <1>3, <1>4, Basics DEF Init, TypeOK, GuardType, ScriptType, FolderType
<1>6. Control
  BY <1>3, Basics DEF Init, Control, Starting
<1> QED
  BY <1>5, <1>6 DEF CInv

(***************************************************************************)
(* The scripts.                                                            *)
(***************************************************************************)

\* What a script's step changes, in terms of the fuzzer's own state.
Own(f, phase, sl, d, t, q, o) ==
  /\ script' = [script EXCEPT ![f] = phase] /\ slept' = [slept EXCEPT ![f] = sl]
  /\ dir' = [dir EXCEPT ![f] = d] /\ timer' = [timer EXCEPT ![f] = t]
  /\ queue' = [queue EXCEPT ![f] = q] /\ out' = [out EXCEPT ![f] = o]

Phases == {"sleep", "clear", "copy", "clear last", "copy last", "archive", "done"}

\* The files a script's step leaves in the queues and in the round folder.
OwnFiles(f, q, o) ==
  /\ q \subseteq Files /\ IsFolder(o)
  /\ \A d \in 1..Workers : IsFolder({x \in q : Dir[x] = d})

\* Such a step keeps the control: it starts nobody and leaves the guard alone.
LEMMA OwnControl ==
  ASSUME CInv, NEW f \in Selected, NEW phase \in Phases, NEW sl \in 0..RoundTime,
         NEW d \in 1..Workers, NEW t \in 0..Period, NEW q, NEW o,
         Own(f, phase, sl, d, t, q, o), OwnFiles(f, q, o),
         syncer = "main" => phase = "done", phase = "sleep" => sl < RoundTime,
         UNCHANGED <<guard, pools, manifest, aux>>,
         peer' \in [Fuzzers -> SUBSET Texts(Files)], archive' \in [Fuzzers -> SUBSET Texts(Files)],
         \A g \in Fuzzers \ Selected : archive'[g] = archive[g]
  PROVE  CInv'
<1>t. GuardType /\ ScriptType /\ FolderType /\ Control
  BY DEF CInv, TypeOK
<1>f. f \in Fuzzers /\ f # Guard /\ Selected \subseteq Fuzzers
  BY Basics
<1>u. UNCHANGED <<pc, timeCount, mini, syncer, cur, listed, delta, global, cmin, current, input,
                  manifest, campaign, old>>
  BY DEF guard, pools, aux
<1>1. /\ \A g \in Fuzzers : g # f => script'[g] = script[g] /\ slept'[g] = slept[g]
      /\ script'[f] = phase /\ slept'[f] = sl /\ timer'[Guard] = timer[Guard]
  BY <1>t, <1>f DEF Own, ScriptType
<1>2. ScriptType'
  BY <1>t, <1>f DEF Own, ScriptType, Phases
<1>3. GuardType'
  BY <1>t, <1>u DEF GuardType
<1>4. FolderType'
  <2>1. /\ queue' \in [Fuzzers -> SUBSET Files] /\ out' \in [Fuzzers -> SUBSET Files]
        /\ \A g \in Fuzzers : g # f => queue'[g] = queue[g] /\ out'[g] = out[g]
        /\ queue'[f] = q /\ out'[f] = o
    BY <1>t, <1>f DEF Own, OwnFiles, FolderType, IsFolder
  <2>2. /\ \A g \in Fuzzers : IsFolder(out'[g])
        /\ \A g \in Fuzzers, e \in 1..Workers : IsFolder({x \in queue'[g] : Dir[x] = e})
    <3> SUFFICES ASSUME NEW g \in Fuzzers
                 PROVE  /\ IsFolder(out'[g])
                        /\ \A e \in 1..Workers : IsFolder({x \in queue'[g] : Dir[x] = e})
      OBVIOUS
    <3>1. CASE g = f
      BY <2>1, <3>1 DEF OwnFiles
    <3>2. CASE g # f
      BY <1>t, <2>1, <3>2 DEF FolderType
    <3> QED
      BY <3>1, <3>2
  <2> QED
    BY <1>t, <1>u, <2>1, <2>2 DEF FolderType
<1>5. Starting' => Starting
  BY <1>1, <1>f DEF Starting, Phases
<1>6. syncer = "main" => Joined'
  BY <1>t, <1>1, <1>f DEF Control, Joined
<1>7. (\A g \in Fuzzers \ Selected : script[g] = "start" /\ archive[g] = {})'
  BY <1>t, <1>1 DEF Control
<1>8. (\A g \in Fuzzers : script[g] = "sleep" => slept[g] < RoundTime)'
  BY <1>t, <1>1 DEF Control
<1>9. Watching' = Watching
  BY <1>u DEF Watching
<1>10. Control'
  BY <1>t, <1>u, <1>1, <1>5, <1>6, <1>7, <1>8, <1>9 DEF Control, Names
<1> QED
  BY <1>2, <1>3, <1>4, <1>10 DEF CInv, TypeOK

\* The fuzzer whose script has left its start is one of the selected.
LEMMA RunningIsSelected ==
  ASSUME CInv, NEW f \in Fuzzers, script[f] # "start"
  PROVE  f \in Selected
BY DEF CInv, Control

LEMMA OwnTypes ==
  ASSUME CInv, NEW f \in Fuzzers
  PROVE  /\ script[f] \in Phases \cup {"start"} /\ slept[f] \in 0..RoundTime /\ dir[f] \in 1..Workers
         /\ timer[f] \in 0..Period
         /\ queue[f] \subseteq Files /\ out[f] \subseteq Files /\ IsFolder(out[f])
         /\ OwnFiles(f, queue[f], out[f]) /\ OwnFiles(f, queue[f], {})
         /\ syncer = "main" /\ f \in Selected => script[f] = "done"
         /\ script[f] = "sleep" => slept[f] < RoundTime
         /\ input \cap Corpus \subseteq Files /\ OwnFiles(f, input \cap Corpus, {})
<1>t. ScriptType /\ FolderType /\ Control
  BY DEF CInv, TypeOK
<1>1. /\ script[f] \in Phases \cup {"start"} /\ slept[f] \in 0..RoundTime /\ dir[f] \in 1..Workers
      /\ timer[f] \in 0..Period
  BY <1>t DEF ScriptType, Phases
<1>2. /\ queue[f] \subseteq Files /\ out[f] \subseteq Files /\ IsFolder(out[f]) /\ IsFolder({})
      /\ \A d \in 1..Workers : IsFolder({x \in queue[f] : Dir[x] = d})
  BY <1>t, CorpusIsFolder DEF FolderType
<1>3. OwnFiles(f, queue[f], out[f]) /\ OwnFiles(f, queue[f], {})
  BY <1>2 DEF OwnFiles
<1>4. input \cap Corpus \subseteq Files /\ \A d \in 1..Workers : IsFolder({x \in input \cap Corpus : Dir[x] = d})
  BY CorpusIsFolder DEF IsFolder
<1>5. OwnFiles(f, input \cap Corpus, {})
  BY <1>2, <1>4 DEF OwnFiles
<1>6. syncer = "main" /\ f \in Selected => script[f] = "done"
  BY <1>t DEF Control, Joined
<1> QED
  BY <1>t, <1>1, <1>2, <1>3, <1>4, <1>5, <1>6 DEF Control

\* A fuzzer's entry that stays as it is.
LEMMA SameEntry ==
  ASSUME CInv, NEW f \in Fuzzers
  PROVE  /\ script' = script => script' = [script EXCEPT ![f] = script[f]]
         /\ slept' = slept => slept' = [slept EXCEPT ![f] = slept[f]]
         /\ dir' = dir => dir' = [dir EXCEPT ![f] = dir[f]]
         /\ timer' = timer => timer' = [timer EXCEPT ![f] = timer[f]]
         /\ queue' = queue => queue' = [queue EXCEPT ![f] = queue[f]]
         /\ out' = out => out' = [out EXCEPT ![f] = out[f]]
BY DEF CInv, TypeOK, ScriptType, FolderType

LEMMA StartOwn ==
  ASSUME CInv, NEW f \in Fuzzers, Start(f)
  PROVE  /\ f \in Selected /\ script[f] = "start"
         /\ \E phase \in {"archive", "sleep"}, t \in 0..Period :
              /\ phase = "archive" => input = {}
              /\ Own(f, phase, 0, 1, t, input \cap Corpus, {})
<1>1. 1 \in 0..Period /\ timer[f] \in 0..Period
  BY OwnTypes, Basics
<1>2. CASE input = {}
  <2>1. Own(f, "archive", 0, 1, timer[f], input \cap Corpus, {})
    BY <1>2, SameEntry DEF Start, Become, Own
  <2> QED
    BY <1>1, <1>2, <2>1 DEF Start
<1>3. CASE input # {}
  <2>1. Own(f, "sleep", 0, 1, 1, input \cap Corpus, {})
    BY <1>3 DEF Start, Become, Own
  <2> QED
    BY <1>1, <2>1 DEF Start
<1> QED
  BY <1>2, <1>3

LEMMA WakeOwn ==
  ASSUME CInv, NEW f \in Fuzzers, Wake(f)
  PROVE  /\ script[f] = "sleep" /\ f \in Selected /\ slept[f] + 1 \in 0..RoundTime
         /\ Own(f, "clear", slept[f] + 1, dir[f], timer[f], queue[f], out[f])
<1>1. script[f] = "sleep"
  BY DEF Wake
<1>2. slept[f] + 1 \in 0..RoundTime
  BY <1>1, OwnTypes, Basics
<1>3. Own(f, "clear", slept[f] + 1, dir[f], timer[f], queue[f], out[f])
  BY SameEntry DEF Wake, Become, Own
<1> QED
  BY <1>1, <1>2, <1>3, RunningIsSelected

LEMMA ClearOwn ==
  ASSUME CInv, NEW f \in Fuzzers, Clear(f)
  PROVE  /\ script[f] \in {"clear", "clear last"} /\ f \in Selected
         /\ \E phase \in {"copy", "copy last"} : Own(f, phase, slept[f], 1, timer[f], queue[f], {})
<1>1. script[f] \in {"clear", "clear last"}
  BY DEF Clear
<1>2. Own(f, IF script[f] = "clear" THEN "copy" ELSE "copy last", slept[f], 1, timer[f], queue[f], {})
  BY SameEntry DEF Clear, Become, Own
<1> QED
  BY <1>1, <1>2, RunningIsSelected

\* One directory more, or the end of this flush.
CopyTurn(f, phase, d) ==
  \/ dir[f] < Workers /\ phase = script[f] /\ d = dir[f] + 1
  \/ /\ dir[f] = Workers /\ d = dir[f]
     /\ \/ script[f] = "copy last" /\ phase = "archive"
        \/ script[f] = "copy" /\ phase = "clear last"
        \/ script[f] = "copy" /\ phase = "sleep" /\ slept[f] < RoundTime

LEMMA CopyOwn ==
  ASSUME CInv, NEW f \in Fuzzers, Copy(f)
  PROVE  /\ Copying(f) /\ f \in Selected
         /\ OwnFiles(f, queue[f], Copied(f))
         /\ \E phase \in Phases, d \in 1..Workers, t \in 0..Period :
              CopyTurn(f, phase, d) /\ Own(f, phase, slept[f], d, t, queue[f], Copied(f))
<1>1. Copying(f)
  BY DEF Copy, Copying
<1>2. f \in Selected
  BY <1>1, RunningIsSelected DEF Copying
<1>3. dir[f] \in 1..Workers /\ timer[f] \in 0..Period /\ 1 \in 0..Period
  BY OwnTypes, Basics
<1>4. OwnFiles(f, queue[f], Copied(f))
  <2>1. OwnFiles(f, queue[f], out[f]) /\ IsFolder(out[f])
    BY OwnTypes
  <2>2. IsFolder({x \in queue[f] : Dir[x] = dir[f]})
    BY <1>3, <2>1 DEF OwnFiles
  <2>3. IsFolder(Copied(f))
    BY <2>1, <2>2, PutEffect DEF Copied
  <2> QED
    BY <2>1, <2>3 DEF OwnFiles
<1>5. CASE dir[f] < Workers
  <2>1. dir[f] + 1 \in 1..Workers
    BY <1>3, <1>5, Basics
  <2>2. Own(f, script[f], slept[f], dir[f] + 1, timer[f], queue[f], Copied(f))
    <3>1. /\ dir' = [dir EXCEPT ![f] = dir[f] + 1] /\ UNCHANGED <<script, timer, slept, queue>>
          /\ out' = [out EXCEPT ![f] = Copied(f)]
      BY <1>5 DEF Copy
    <3> QED
      BY <3>1, SameEntry DEF Own
  <2>3. CopyTurn(f, script[f], dir[f] + 1) /\ script[f] \in Phases
    BY <1>1, <1>5 DEF CopyTurn, Copying, Phases
  <2> QED
    BY <1>1, <1>2, <1>3, <1>4, <2>1, <2>2, <2>3
<1>6. CASE ~(dir[f] < Workers)
  <2>0. dir' = dir
    BY <1>6 DEF Copy
  <2>1. dir[f] = Workers /\ dir' = dir
    BY <1>3, <1>6, <2>0, Basics
  <2>2. CASE script[f] = "copy last" /\ Become(f, "archive") /\ UNCHANGED timer
    <3>1. Own(f, "archive", slept[f], dir[f], timer[f], queue[f], Copied(f))
      BY <2>1, <2>2, SameEntry DEF Copy, Own, Become
    <3>2. CopyTurn(f, "archive", dir[f]) /\ "archive" \in Phases
      BY <2>1, <2>2 DEF CopyTurn, Phases
    <3> QED
      BY <1>1, <1>2, <1>3, <1>4, <3>1, <3>2
  <2>3. CASE script[f] = "copy" /\ Become(f, "clear last") /\ UNCHANGED timer
    <3>1. Own(f, "clear last", slept[f], dir[f], timer[f], queue[f], Copied(f))
      BY <2>1, <2>3, SameEntry DEF Copy, Own, Become
    <3>2. CopyTurn(f, "clear last", dir[f]) /\ "clear last" \in Phases
      BY <2>1, <2>3 DEF CopyTurn, Phases
    <3> QED
      BY <1>1, <1>2, <1>3, <1>4, <3>1, <3>2
  <2>4. CASE /\ script[f] = "copy" /\ slept[f] < RoundTime
             /\ Become(f, "sleep") /\ timer' = [timer EXCEPT ![f] = 1]
    <3>1. Own(f, "sleep", slept[f], dir[f], 1, queue[f], Copied(f))
      BY <2>1, <2>4, SameEntry DEF Copy, Own, Become
    <3>2. CopyTurn(f, "sleep", dir[f]) /\ "sleep" \in Phases
      BY <2>1, <2>4 DEF CopyTurn, Phases
    <3> QED
      BY <1>1, <1>2, <1>3, <1>4, <3>1, <3>2
  <2> QED
    BY <1>6, <2>2, <2>3, <2>4 DEF Copy
<1> QED
  BY <1>5, <1>6

LEMMA ArchiveOwn ==
  ASSUME CInv, NEW f \in Fuzzers, Archive(f)
  PROVE  /\ script[f] = "archive" /\ f \in Selected
         /\ Own(f, "done", slept[f], dir[f], timer[f], queue[f], out[f])
         /\ archive' \in [Fuzzers -> SUBSET Texts(Files)]
         /\ \A g \in Fuzzers : g # f => archive'[g] = archive[g]
         /\ pc # "aborted" => archive'[f] = Texts(out[f]) \ Texts(input)
<1>1. script[f] = "archive"
  BY DEF Archive
<1>2. Own(f, "done", slept[f], dir[f], timer[f], queue[f], out[f])
  BY SameEntry DEF Archive, Become, Own
<1>3. Texts(out[f]) \ Texts(input) \subseteq Texts(Files)
  BY OwnTypes, NamesAreNumbers
<1>4. archive \in [Fuzzers -> SUBSET Texts(Files)]
  BY DEF CInv, TypeOK, FolderType
<1> QED
  BY <1>1, <1>2, <1>3, <1>4, RunningIsSelected DEF Archive

\* A worker's new file replaces the one of its name in its directory only.
LEMMA FindOwn ==
  ASSUME CInv, NEW f \in Fuzzers, NEW x \in Files, Find(f, x)
  PROVE  /\ script[f] \in {"sleep", "clear", "copy"} /\ f \in Selected
         /\ \E q \in SUBSET Files :
              /\ Own(f, script[f], slept[f], dir[f], timer[f], q, out[f])
              /\ OwnFiles(f, q, out[f])
              /\ \A y \in queue[f] : \E z \in q : Name[z] = Name[y] /\ Dir[z] = Dir[y]
<1> DEFINE A == {y \in queue[f] : Dir[y] = Dir[x]}
           B == {y \in queue[f] : Dir[y] # Dir[x]}
           q == Put({x}, A) \cup B
<1>1. script[f] \in {"sleep", "clear", "copy"}
  BY DEF Find
<1>2. queue' = [queue EXCEPT ![f] = q]
  BY DEF Find
<1>3. Dir[x] \in 1..Workers
  BY LongRoundAssumption
<1>4. OwnFiles(f, queue[f], out[f]) /\ queue[f] \subseteq Files
  BY OwnTypes
<1>5. IsFolder(A) /\ IsFolder({x})
  BY <1>3, <1>4 DEF OwnFiles, IsFolder
<1>6. /\ IsFolder(Put({x}, A)) /\ x \in Put({x}, A) /\ Put({x}, A) \subseteq A \cup {x}
      /\ \A y \in A : y \in Put({x}, A) \/ Name[x] = Name[y]
  BY <1>5, PutEffect
<1> HIDE DEF q
<1>7. \A y \in queue[f] : \E z \in q : Name[z] = Name[y] /\ Dir[z] = Dir[y]
  BY <1>6 DEF q
<1>8. q \in SUBSET Files
  BY <1>4, <1>6 DEF q
<1>9. \A d \in 1..Workers : IsFolder({y \in q : Dir[y] = d})
  <2> SUFFICES ASSUME NEW d \in 1..Workers PROVE IsFolder({y \in q : Dir[y] = d})
    OBVIOUS
  <2>1. CASE d = Dir[x]
    <3>1. {y \in q : Dir[y] = d} \subseteq Put({x}, A)
      BY <2>1 DEF q
    <3> QED
      BY <1>6, <3>1, PartOfFolder
  <2>2. CASE d # Dir[x]
    <3>1. {y \in q : Dir[y] = d} \subseteq {y \in queue[f] : Dir[y] = d}
      BY <1>6, <2>2 DEF q
    <3>2. IsFolder({y \in queue[f] : Dir[y] = d})
      BY <1>4 DEF OwnFiles
    <3> QED
      BY <3>1, <3>2, PartOfFolder
  <2> QED
    BY <2>1, <2>2
<1>10. OwnFiles(f, q, out[f])
  BY <1>4, <1>8, <1>9 DEF OwnFiles
<1>11. Own(f, script[f], slept[f], dir[f], timer[f], q, out[f])
  BY <1>2, SameEntry DEF Find, Own
<1> QED
  BY <1>1, <1>7, <1>8, <1>10, <1>11, RunningIsSelected

LEMMA ScriptControl ==
  ASSUME CInv, NEW f \in Fuzzers, ScriptStep(f) \/ \E x \in Files : Find(f, x)
  PROVE  CInv'
<1>o. /\ OwnFiles(f, queue[f], out[f]) /\ OwnFiles(f, queue[f], {}) /\ OwnFiles(f, input \cap Corpus, {})
      /\ slept[f] \in 0..RoundTime /\ dir[f] \in 1..Workers /\ timer[f] \in 0..Period
      /\ script[f] \in Phases \cup {"start"}
      /\ script[f] = "sleep" => slept[f] < RoundTime
      /\ syncer = "main" /\ f \in Selected => script[f] = "done"
  BY OwnTypes
<1>n. 0 \in 0..RoundTime /\ 0 < RoundTime /\ 1 \in 1..Workers
  BY Basics
<1>p. peer \in [Fuzzers -> SUBSET Texts(Files)] /\ archive \in [Fuzzers -> SUBSET Texts(Files)]
  BY DEF CInv, TypeOK, FolderType
<1>q. {"sleep", "clear", "copy", "copy last", "archive", "done"} \subseteq Phases
  BY DEF Phases
<1>1. CASE Start(f)
  <2>1. PICK phase \in {"archive", "sleep"}, t \in 0..Period :
          Own(f, phase, 0, 1, t, input \cap Corpus, {})
    BY <1>1, StartOwn
  <2>2. f \in Selected /\ syncer # "main" /\ phase \in Phases
    BY <1>1, <1>o, <1>q, StartOwn
  <2>3. /\ peer' \in [Fuzzers -> SUBSET Texts(Files)] /\ archive' = archive
        /\ UNCHANGED <<guard, pools, manifest, aux>>
    BY <1>1, <1>p DEF Start
  <2> QED
    BY <1>o, <1>n, <1>p, <2>1, <2>2, <2>3, OwnControl
<1>2. CASE Wake(f)
  <2>1. /\ script[f] = "sleep" /\ f \in Selected /\ slept[f] + 1 \in 0..RoundTime
        /\ Own(f, "clear", slept[f] + 1, dir[f], timer[f], queue[f], out[f])
    BY <1>2, WakeOwn
  <2>2. UNCHANGED <<guard, pools, manifest, aux, peer, archive>>
    BY <1>2 DEF Wake, results
  <2>3. syncer # "main"
    BY <1>o, <2>1
  <2> QED
    BY <1>o, <1>p, <1>q, <2>1, <2>2, <2>3, OwnControl
<1>3. CASE Clear(f)
  <2>1. /\ script[f] \in {"clear", "clear last"} /\ f \in Selected
        /\ \E phase \in {"copy", "copy last"} : Own(f, phase, slept[f], 1, timer[f], queue[f], {})
    BY <1>3, ClearOwn
  <2>2. UNCHANGED <<guard, pools, manifest, aux, peer, archive>>
    BY <1>3 DEF Clear, results
  <2>3. syncer # "main"
    BY <1>o, <2>1
  <2> QED
    BY <1>o, <1>n, <1>p, <1>q, <2>1, <2>2, <2>3, OwnControl
<1>4. CASE Copy(f)
  <2>1. PICK phase \in Phases, d \in 1..Workers, t \in 0..Period :
          CopyTurn(f, phase, d) /\ Own(f, phase, slept[f], d, t, queue[f], Copied(f))
    BY <1>4, CopyOwn
  <2>2. Copying(f) /\ f \in Selected /\ OwnFiles(f, queue[f], Copied(f))
    BY <1>4, CopyOwn
  <2>3. UNCHANGED <<guard, pools, manifest, aux, peer, archive>>
    BY <1>4 DEF Copy, results
  <2>4. syncer # "main" /\ (phase = "sleep" => slept[f] < RoundTime)
    BY <1>o, <2>1, <2>2 DEF Copying, CopyTurn
  <2> QED
    BY <1>o, <1>p, <2>1, <2>2, <2>3, <2>4, OwnControl
<1>5. CASE Archive(f)
  <2>1. /\ f \in Selected
        /\ Own(f, "done", slept[f], dir[f], timer[f], queue[f], out[f])
        /\ archive' \in [Fuzzers -> SUBSET Texts(Files)]
        /\ \A g \in Fuzzers : g # f => archive'[g] = archive[g]
    BY <1>5, ArchiveOwn
  <2>2. UNCHANGED <<guard, pools, manifest, aux, peer>>
    BY <1>5 DEF Archive
  <2> QED
    BY <1>o, <1>p, <1>q, <2>1, <2>2, OwnControl
<1>6. ASSUME NEW x \in Files, Find(f, x) PROVE CInv'
  <2>1. PICK q \in SUBSET Files :
          /\ Own(f, script[f], slept[f], dir[f], timer[f], q, out[f])
          /\ OwnFiles(f, q, out[f])
    BY <1>6, FindOwn
  <2>2. script[f] \in {"sleep", "clear", "copy"} /\ f \in Selected
    BY <1>6, FindOwn
  <2>3. UNCHANGED <<guard, pools, manifest, aux, peer, archive>>
    BY <1>6 DEF Find, results
  <2>4. syncer # "main" /\ script[f] \in Phases
    BY <1>o, <1>q, <2>2
  <2> QED
    BY <1>o, <1>p, <2>1, <2>2, <2>3, <2>4, OwnControl
<1> QED
  BY <1>1, <1>2, <1>3, <1>4, <1>5, <1>6 DEF ScriptStep

(***************************************************************************)
(* The guard, the main thread and time.                                    *)
(***************************************************************************)

\* No script is starting when a folder is read or the pools change.
LEMMA NobodyStarts ==
  ASSUME CInv, pc \notin {"guard", "nap", "join"} \/ Joined
  PROVE  ~Starting
BY DEF CInv, Control, Starting, Joined

\* The minimized pool is a part of the pool.
LEMMA MinimizedPart ==
  ASSUME NEW G, IsFolder(G), NEW S \in Minimized(G)
  PROVE  IsFolder(S)
<1>1. S \subseteq G
  BY DEF Minimized
<1> QED
  BY <1>1, PartOfFolder

LEMMA LegionControl ==
  ASSUME CInv, LegionStep
  PROVE  CInv'
<1>t. GuardType /\ ScriptType /\ FolderType /\ Control
  BY DEF CInv, TypeOK
<1>c. 1 \in Fuzzers
  BY Basics
<1> USE DEF guard, pools, scripts, results, aux, Goto
<1>1. CASE GuardSleep
  <2>1. (IF Period > mini THEN Period - mini ELSE 0) \in 0..Period
    BY <1>t, Basics DEF GuardType
  <2>2. ScriptType'
    BY <1>1, <1>t, <2>1 DEF GuardSleep, ScriptType
  <2>3. GuardType' /\ FolderType'
    BY <1>1, <1>t, Basics DEF GuardSleep, GuardType, FolderType
  <2>4. Starting => timer'[Guard] > 0
    <3>1. Starting => mini = 0
      BY <1>1, <1>t DEF GuardSleep, Control
    <3>2. timer'[Guard] = IF Period > mini THEN Period - mini ELSE 0
      BY <1>1, <1>t DEF GuardSleep, ScriptType
    <3> QED
      BY <3>1, <3>2, Basics
  <2>5. Control'
    BY <1>1, <1>t, <2>4 DEF GuardSleep, Control, Starting, Watching, Joined
  <2> QED
    BY <2>2, <2>3, <2>5 DEF CInv, TypeOK
<1>2. CASE GuardWake
  <2>1. timeCount' \in 0..Total
    BY <1>2, <1>t, Basics DEF GuardWake, Counted, Control, GuardType, Watching
  <2>2. TypeOK'
    BY <1>2, <1>t, <1>c, <2>1 DEF GuardWake, TypeOK, GuardType, ScriptType, FolderType
  <2>3. ~Starting
    BY <1>2, <1>t DEF GuardWake, Control
  <2>4. Control'
    BY <1>2, <1>t, <2>3 DEF GuardWake, Control, Starting, Joined
  <2> QED
    BY <2>2, <2>4 DEF CInv
<1>3. CASE GuardExit
  BY <1>3, <1>t DEF GuardExit, CInv, TypeOK, GuardType, ScriptType, FolderType, Control, Starting, Joined
<1>4. CASE List
  <2>1. listed' \subseteq Names(Files) /\ delta' = {} /\ pc' = "read" /\ IsFolder({}) /\ Names({}) = {}
    BY <1>4, <1>t, NamesAreNumbers, CorpusIsFolder DEF List, GuardType, FolderType, Names
  <2>2. TypeOK'
    BY <1>4, <1>t, <2>1 DEF List, TypeOK, GuardType, ScriptType, FolderType
  <2>3. ~Starting
    BY <1>4, NobodyStarts DEF List
  <2>4. Names(delta') \cap listed' = {}
    BY <2>1
  <2>5. Control'
    BY <1>4, <1>t, <2>1, <2>3, <2>4 DEF List, Control, Starting, Joined, Names
  <2> QED
    BY <2>2, <2>5 DEF CInv
<1>5. CASE Read
  <2> DEFINE n == Min(listed)
  <2>1. n \in listed /\ listed' = listed \ {n}
    BY <1>5, <1>t, LeastName, NamesAreNumbers DEF Read, GuardType
  <2>2. PICK x \in out[cur] : Name[x] = n /\ delta' = IF IsNew(Text[x]) THEN delta \cup {x} ELSE delta
    BY <1>5 DEF Read
  <2>3. pc = "read" /\ Names(delta) \cap listed = {}
    BY <1>5, <1>t DEF Read, Control
  <2> HIDE DEF n
  <2>4. Names(delta') \cap listed' = {}
    BY <2>1, <2>2, <2>3 DEF Names
  <2>5. IsFolder(delta')
    <3>1. x \in Files
      BY <1>t, <2>2 DEF FolderType, GuardType
    <3>2. \A y \in delta : Name[y] # Name[x]
      BY <2>1, <2>2, <2>3 DEF Names
    <3> QED
      BY <1>t, <2>2, <3>1, <3>2 DEF FolderType, IsFolder
  <2>6. TypeOK'
    BY <1>5, <1>t, <2>1, <2>5 DEF Read, TypeOK, GuardType, ScriptType, FolderType
  <2>7. ~Starting
    BY <2>3, NobodyStarts
  <2>8. Control'
    BY <1>5, <1>t, <2>3, <2>4, <2>7 DEF Read, Control, Starting, Joined
  <2> QED
    BY <2>6, <2>8 DEF CInv
<1>6. CASE Abort
  <2>1. TypeOK'
    BY <1>6, <1>t, CorpusIsFolder DEF Abort, TypeOK, GuardType, ScriptType, FolderType
  <2>2. ~Starting
    BY <1>6, NobodyStarts DEF Abort
  <2>3. Control'
    BY <1>6, <1>t, <2>2 DEF Abort, Control, Starting, Joined
  <2> QED
    BY <2>1, <2>3 DEF CInv
<1>7. CASE Pull
  <2>1. IsFolder(global') /\ IsFolder(delta')
    BY <1>7, <1>t, PutEffect, CorpusIsFolder DEF Pull, FolderType
  <2>2. Texts(delta) \subseteq Texts(Files)
    BY <1>t, NamesAreNumbers DEF FolderType, IsFolder
  <2>3. manifest' \in [Fuzzers -> SUBSET Texts(Files)]
    BY <1>7, <1>t, <2>2 DEF Pull, FolderType
  <2>4. cur' \in Fuzzers /\ pc' \in {"list", "minimize", "refresh"}
    BY <1>7, <1>t, Basics DEF Pull, GuardType
  <2>5. TypeOK'
    BY <1>7, <1>t, <2>1, <2>3, <2>4 DEF Pull, TypeOK, GuardType, ScriptType, FolderType
  <2>6. ~Starting
    BY <1>7, NobodyStarts DEF Pull
  <2>7. /\ pc' = "minimize" => syncer = "guard" /\ cur' = 1
        /\ pc' = "refresh" => syncer = "main"
    BY <1>7, <1>t DEF Pull, GuardType
  <2>8. Control'
    BY <1>7, <1>t, <2>4, <2>6, <2>7 DEF Pull, Control, Starting, Joined
  <2> QED
    BY <2>5, <2>8 DEF CInv
<1>8. CASE Minimize
  <2>1. IsFolder(cmin') /\ current' \in BOOLEAN
    BY <1>8, <1>t, MinimizedPart DEF Minimize, RefreshCmin, FolderType
  <2>2. TypeOK'
    BY <1>8, <1>t, <2>1 DEF Minimize, TypeOK, GuardType, ScriptType, FolderType
  <2>3. ~Starting
    BY <1>8, NobodyStarts DEF Minimize
  <2>4. Control'
    BY <1>8, <1>t, <2>3 DEF Minimize, Control, Starting, Joined
  <2> QED
    BY <2>2, <2>4 DEF CInv
<1>9. CASE Update
  <2>1. Texts(Shared) \subseteq Texts(Files)
    BY <1>t, NamesAreNumbers DEF FolderType, IsFolder, Shared
  <2>2. peer' \in [Fuzzers -> SUBSET Texts(Files)]
    BY <1>9, <1>t, <2>1 DEF Update, FolderType
  <2>3. cur' \in Fuzzers /\ pc' \in {"update", "guard"}
    BY <1>9, <1>t, Basics DEF Update, GuardType
  <2>4. TypeOK'
    BY <1>9, <1>t, <2>2, <2>3 DEF Update, TypeOK, GuardType, ScriptType, FolderType
  <2>5. ~Starting
    BY <1>9, NobodyStarts DEF Update
  <2>6. Control'
    BY <1>9, <1>t, <2>3, <2>5 DEF Update, Control, Starting, Joined
  <2> QED
    BY <2>4, <2>6 DEF CInv
<1>10. CASE Join
  <2>1. TypeOK'
    BY <1>10, <1>t, <1>c DEF Join, TypeOK, GuardType, ScriptType, FolderType
  <2>2. ~Starting
    BY <1>10, NobodyStarts DEF Join
  <2>3. Control'
    BY <1>10, <1>t, <2>2 DEF Join, Control, Starting, Joined
  <2> QED
    BY <2>1, <2>3 DEF CInv
<1>11. CASE Refresh
  <2>1. IsFolder(cmin') /\ current' \in BOOLEAN
    BY <1>11, <1>t, MinimizedPart DEF Refresh, RefreshCmin, FolderType, GuardType
  <2>2. out' \in [Fuzzers -> SUBSET Files] /\ \A f \in Fuzzers : IsFolder(out'[f])
    BY <1>11, NoneType, CorpusIsFolder DEF Refresh
  <2>3. TypeOK'
    BY <1>11, <1>t, <2>1, <2>2 DEF Refresh, TypeOK, GuardType, ScriptType, FolderType
  <2>4. ~Starting
    BY <1>11, NobodyStarts DEF Refresh
  <2>5. Control'
    BY <1>11, <1>t, <2>4 DEF Refresh, Control, Starting, Joined
  <2> QED
    BY <2>3, <2>5 DEF CInv
<1> QED
  BY <1>1, <1>2, <1>3, <1>4, <1>5, <1>6, <1>7, <1>8, <1>9, <1>10, <1>11 DEF LegionStep

LEMMA TickControl == ASSUME CInv, Tick PROVE CInv'
<1>t. GuardType /\ ScriptType /\ FolderType /\ Control
  BY DEF CInv, TypeOK
<1>1. DOMAIN timer = Fuzzers \cup {Guard} /\ \A p \in Fuzzers \cup {Guard} : timer[p] \in 0..Period
  BY <1>t DEF ScriptType
<1>2. timer' \in [Fuzzers \cup {Guard} -> 0..Period]
  BY <1>1, Basics DEF Tick
<1>3. mini' \in 0..Period
  BY <1>t, Basics DEF Tick, GuardType
<1>4. ~Starting
  BY DEF Tick, Starting
<1>u. UNCHANGED <<pc, timeCount, syncer, cur, listed, delta, global, cmin, current, input, script, slept,
                  dir, queue, out, peer, archive, manifest, campaign, old>>
  BY DEF Tick, pools, results, aux
<1>5. TypeOK'
  BY <1>t, <1>u, <1>2, <1>3 DEF TypeOK, GuardType, ScriptType, FolderType
<1>6. Control'
  BY <1>t, <1>u, <1>4 DEF Control, Starting, Joined, Watching
<1> QED
  BY <1>5, <1>6 DEF CInv

LEMMA RestartControl ==
  ASSUME CInv, NEW C \in {Corpus, {}}, Restart(C)
  PROVE  CInv'
<1>t. GuardType /\ ScriptType /\ FolderType /\ Control
  BY DEF CInv, TypeOK
<1>u. UNCHANGED <<listed, delta, slept, dir, timer, queue, out, peer, archive, manifest>>
  BY DEF Restart, results
<1>0. /\ Begin(C, global, input) /\ pc' = "guard" /\ timeCount' = 0 /\ mini' = 0 /\ syncer' = "guard"
      /\ cur' = 1 /\ script' = [f \in Fuzzers |-> "start"] /\ old' = manifest
      /\ campaign < Campaigns /\ campaign' = campaign + 1
  BY DEF Restart, Goto
<1>1. IsFolder(global') /\ IsFolder(input')
  BY <1>0, <1>t, CorpusIsFolder DEF Begin, FolderType
<1>2. IsFolder(cmin') /\ current' \in BOOLEAN
  BY <1>0, <1>1, <1>t, MinimizedPart DEF Begin, RefreshCmin, FolderType, GuardType
<1>3. campaign' \in 1..Campaigns /\ timeCount' \in 0..Total /\ mini' \in 0..Period /\ cur' \in Fuzzers
  BY <1>0, <1>t, Basics DEF GuardType
<1>4. TypeOK'
  BY <1>t, <1>u, <1>0, <1>1, <1>2, <1>3 DEF TypeOK, GuardType, ScriptType, FolderType
<1>5. Control'
  BY <1>t, <1>u, <1>0 DEF Control
<1> QED
  BY <1>4, <1>5 DEF CInv

LEMMA ControlStep == CInv /\ [Next]_vars => CInv'
<1> SUFFICES ASSUME CInv, [Next]_vars PROVE CInv'
  OBVIOUS
<1>1. CASE Ended \/ UNCHANGED vars
  <2>1. UNCHANGED <<guard, pools, scripts, results, aux>>
    BY <1>1 DEF Ended, vars
  <2>2. TypeOK'
    BY <2>1 DEF CInv, TypeOK, GuardType, ScriptType, FolderType, guard, pools, scripts, results, aux
  <2>3. Control'
    BY <2>1 DEF CInv, Control, Starting, Joined, Watching, guard, pools, scripts, results, aux
  <2> QED
    BY <2>2, <2>3 DEF CInv
<1> QED
  BY <1>1, ScriptControl, LegionControl, TickControl, RestartControl DEF Next

(***************************************************************************)
(* The flush and the synchronization.                                      *)
(***************************************************************************)

LEMMA OwnFrame ==
  ASSUME CInv, NEW f \in Fuzzers, NEW phase, NEW sl, NEW d, NEW t, NEW q, NEW o,
         Own(f, phase, sl, d, t, q, o)
  PROVE  /\ script'[f] = phase /\ dir'[f] = d /\ queue'[f] = q /\ out'[f] = o
         /\ \A g \in Fuzzers : g # f => /\ script'[g] = script[g] /\ dir'[g] = dir[g]
                                        /\ queue'[g] = queue[g] /\ out'[g] = out[g]
BY DEF CInv, TypeOK, ScriptType, FolderType, Own

\* It is enough to look at the fuzzer whose script or worker takes the step.
LEMMA ListingFrame ==
  ASSUME CInv, Listing, NEW f \in Fuzzers, UNCHANGED guard,
         \A g \in Fuzzers : g # f => /\ script'[g] = script[g] /\ dir'[g] = dir[g]
                                     /\ queue'[g] = queue[g] /\ out'[g] = out[g],
         script'[f] # "start" => Names(out'[f]) \subseteq Names(queue'[f]),
         pc = "read" /\ cur = f =>
           \A n \in listed :
             \/ n \in Names(out'[f])
             \/ /\ script'[f] \in {"copy", "copy last"}
                /\ \E x \in queue'[f] : Name[x] = n /\ Dir[x] >= dir'[f]
  PROVE  Listing'
<1>1. UNCHANGED <<pc, cur, listed>>
  BY DEF guard
<1>2. cur \in Fuzzers /\ Selected \subseteq Fuzzers
  BY Basics DEF CInv, TypeOK, GuardType
<1>3. \A g \in Selected : script'[g] # "start" => Names(out'[g]) \subseteq Names(queue'[g])
  BY <1>2 DEF Listing
<1>4. CASE cur = f
  BY <1>1, <1>3, <1>4 DEF Listing, Copying, Names
<1>5. CASE cur # f
  BY <1>1, <1>2, <1>3, <1>5 DEF Listing, Copying, Names
<1> QED
  BY <1>4, <1>5

LEMMA ScriptListing ==
  ASSUME CInv, Listing, NEW f \in Fuzzers, ScriptStep(f) \/ \E x \in Files : Find(f, x)
  PROVE  Listing'
<1>g. UNCHANGED guard
  BY DEF ScriptStep, Start, Wake, Clear, Copy, Archive, Find
<1>l. /\ f \in Selected /\ script[f] # "start" => Names(out[f]) \subseteq Names(queue[f])
      /\ pc = "read" /\ cur = f =>
           \A n \in listed :
             \/ n \in Names(out[f])
             \/ /\ Copying(f)
                /\ \E x \in queue[f] : Name[x] = n /\ Dir[x] >= dir[f]
  BY DEF Listing
<1>d. \A x \in queue[f] : Dir[x] \in 1..Workers /\ Dir[x] >= 1
  <2>1. queue[f] \subseteq Files
    BY OwnTypes
  <2> QED
    BY <2>1, DirRange
<1>1. CASE Start(f)
  <2>1. PICK phase \in {"archive", "sleep"}, t \in 0..Period :
          Own(f, phase, 0, 1, t, input \cap Corpus, {})
    BY <1>1, StartOwn
  <2>2. Starting
    BY <1>1, StartOwn DEF Starting
  <2>3. pc # "read"
    BY <2>2 DEF CInv, Control
  <2>4. Names({}) = {}
    BY DEF Names
  <2> QED
    BY <1>g, <2>1, <2>3, <2>4, OwnFrame, ListingFrame
<1>2. CASE Wake(f)
  <2>1. /\ script[f] = "sleep" /\ f \in Selected
        /\ Own(f, "clear", slept[f] + 1, dir[f], timer[f], queue[f], out[f])
    BY <1>2, WakeOwn
  <2>2. ~Copying(f)
    BY <2>1 DEF Copying
  <2>f. /\ script'[f] = "clear" /\ dir'[f] = dir[f] /\ queue'[f] = queue[f] /\ out'[f] = out[f]
        /\ \A g \in Fuzzers : g # f => /\ script'[g] = script[g] /\ dir'[g] = dir[g]
                                       /\ queue'[g] = queue[g] /\ out'[g] = out[g]
    BY <2>1, OwnFrame
  <2> QED
    BY <1>g, <1>l, <2>1, <2>2, <2>f, ListingFrame
<1>3. CASE Clear(f)
  <2>1. PICK phase \in {"copy", "copy last"} : Own(f, phase, slept[f], 1, timer[f], queue[f], {})
    BY <1>3, ClearOwn
  <2>2. script[f] \in {"clear", "clear last"} /\ f \in Selected /\ ~Copying(f)
    BY <1>3, ClearOwn DEF Copying
  <2>3. Names({}) = {}
    BY DEF Names
  <2>f. /\ script'[f] = phase /\ dir'[f] = 1 /\ queue'[f] = queue[f] /\ out'[f] = {}
        /\ \A g \in Fuzzers : g # f => /\ script'[g] = script[g] /\ dir'[g] = dir[g]
                                       /\ queue'[g] = queue[g] /\ out'[g] = out[g]
    BY <2>1, OwnFrame
  <2>4. ASSUME NEW n \in listed, pc = "read", cur = f
        PROVE  \E x \in queue[f] : Name[x] = n /\ Dir[x] >= 1
    <3>1. n \in Names(queue[f])
      BY <1>l, <2>2, <2>4
    <3>2. PICK x \in queue[f] : Name[x] = n
      BY <3>1 DEF Names
    <3>3. Dir[x] >= 1
      BY <1>d, <3>2
    <3> QED
      BY <3>2, <3>3
  <2> QED
    BY <1>g, <2>1, <2>3, <2>4, <2>f, ListingFrame
<1>4. CASE Copy(f)
  <2>1. PICK phase \in Phases, d \in 1..Workers, t \in 0..Period :
          CopyTurn(f, phase, d) /\ Own(f, phase, slept[f], d, t, queue[f], Copied(f))
    BY <1>4, CopyOwn
  <2>2. Copying(f) /\ f \in Selected
    BY <1>4, CopyOwn
  <2>f. /\ script'[f] = phase /\ dir'[f] = d /\ queue'[f] = queue[f] /\ out'[f] = Copied(f)
        /\ \A g \in Fuzzers : g # f => /\ script'[g] = script[g] /\ dir'[g] = dir[g]
                                       /\ queue'[g] = queue[g] /\ out'[g] = out[g]
    BY <2>1, OwnFrame
  <2> DEFINE F == {x \in queue[f] : Dir[x] = dir[f]}
  <2>3. dir[f] \in 1..Workers /\ IsFolder(F) /\ IsFolder(out[f])
    BY OwnTypes DEF OwnFiles
  <2>4. Names(Copied(f)) = Names(F) \cup Names(out[f])
    BY <2>3, PutEffect DEF Copied
  <2>5. Names(Copied(f)) \subseteq Names(queue[f])
    BY <1>l, <2>2, <2>4 DEF Copying, Names
  <2>6. ASSUME NEW n \in listed, pc = "read", cur = f
        PROVE  \/ n \in Names(Copied(f))
               \/ /\ phase \in {"copy", "copy last"}
                  /\ \E x \in queue[f] : Name[x] = n /\ Dir[x] >= d
    <3>1. CASE n \in Names(out[f])
      BY <2>4, <3>1
    <3>2. ASSUME NEW x \in queue[f], Name[x] = n, Dir[x] >= dir[f]
          PROVE  \/ n \in Names(Copied(f))
                 \/ /\ phase \in {"copy", "copy last"}
                    /\ \E y \in queue[f] : Name[y] = n /\ Dir[y] >= d
      <4>1. CASE Dir[x] = dir[f]
        <5>1. n \in Names(F)
          BY <3>2, <4>1 DEF Names
        <5> QED
          BY <2>4, <5>1
      <4>2. CASE Dir[x] # dir[f]
        <5>1. dir[f] < Workers /\ Dir[x] >= dir[f] + 1
          <6>1. Dir[x] \in 1..Workers /\ dir[f] \in 1..Workers /\ Workers \in Nat
            BY <1>d, <2>3, Basics
          <6> QED
            BY <3>2, <4>2, <6>1
        <5>2. phase = script[f] /\ d = dir[f] + 1
          <6>1. dir[f] # Workers
            BY <2>3, <5>1, Basics
          <6> QED
            BY <2>1, <6>1 DEF CopyTurn
        <5> QED
          BY <2>2, <3>2, <5>1, <5>2 DEF Copying
      <4> QED
        BY <4>1, <4>2
    <3> QED
      BY <1>l, <2>6, <3>1, <3>2
  <2> QED
    BY <1>g, <2>5, <2>6, <2>f, ListingFrame
<1>5. CASE Archive(f)
  <2>1. /\ script[f] = "archive" /\ f \in Selected
        /\ Own(f, "done", slept[f], dir[f], timer[f], queue[f], out[f])
    BY <1>5, ArchiveOwn
  <2>2. ~Copying(f)
    BY <2>1 DEF Copying
  <2>f. /\ script'[f] = "done" /\ dir'[f] = dir[f] /\ queue'[f] = queue[f] /\ out'[f] = out[f]
        /\ \A g \in Fuzzers : g # f => /\ script'[g] = script[g] /\ dir'[g] = dir[g]
                                       /\ queue'[g] = queue[g] /\ out'[g] = out[g]
    BY <2>1, OwnFrame
  <2> QED
    BY <1>g, <1>l, <2>1, <2>2, <2>f, ListingFrame
<1>6. ASSUME NEW x \in Files, Find(f, x) PROVE Listing'
  <2>1. PICK q \in SUBSET Files :
          /\ Own(f, script[f], slept[f], dir[f], timer[f], q, out[f])
          /\ \A y \in queue[f] : \E z \in q : Name[z] = Name[y] /\ Dir[z] = Dir[y]
    BY <1>6, FindOwn
  <2>2. f \in Selected
    BY <1>6, FindOwn
  <2>3. Names(queue[f]) \subseteq Names(q)
    BY <2>1 DEF Names
  <2>4. \A n : (\E y \in queue[f] : Name[y] = n /\ Dir[y] >= dir[f])
                 => \E z \in q : Name[z] = n /\ Dir[z] >= dir[f]
    BY <2>1
  <2>f. /\ script'[f] = script[f] /\ dir'[f] = dir[f] /\ queue'[f] = q /\ out'[f] = out[f]
        /\ \A g \in Fuzzers : g # f => /\ script'[g] = script[g] /\ dir'[g] = dir[g]
                                       /\ queue'[g] = queue[g] /\ out'[g] = out[g]
    BY <2>1, OwnFrame
  <2>5. script[f] # "start"
    BY <1>6, FindOwn
  <2>6. pc = "read" /\ cur = f =>
          \A n \in listed :
            \/ n \in Names(out'[f])
            \/ /\ script'[f] \in {"copy", "copy last"}
               /\ \E z \in queue'[f] : Name[z] = n /\ Dir[z] >= dir'[f]
    BY <1>l, <2>4, <2>f DEF Copying
  <2>7. Names(out'[f]) \subseteq Names(queue'[f])
    BY <1>l, <2>2, <2>3, <2>5, <2>f
  <2> QED
    BY <1>g, <2>6, <2>7, <2>f, ListingFrame
<1> QED
  BY <1>1, <1>2, <1>3, <1>4, <1>5, <1>6 DEF ScriptStep

LEMMA ListingInit == Init => Listing
BY DEF Init, Listing

LEMMA ListingStep == CInv /\ Listing /\ [Next]_vars => Listing'
<1> SUFFICES ASSUME CInv, Listing, [Next]_vars PROVE Listing'
  OBVIOUS
<1> USE DEF guard, pools, scripts, results, aux, Goto
<1>1. CASE List
  BY <1>1 DEF List, Listing
<1>2. CASE Read
  BY <1>2 DEF Read, Listing, Copying
<1>3. CASE Refresh
  <2>1. pc' = "end" /\ \A f \in Fuzzers : out'[f] = {}
    BY <1>3, NoneType DEF Refresh
  <2>2. \A f \in Selected : Names(out'[f]) = {}
    BY <2>1, Basics DEF Names
  <2> QED
    BY <2>1, <2>2 DEF Listing
<1>4. ASSUME NEW C \in {Corpus, {}}, Restart(C) PROVE Listing'
  BY <1>4, Basics DEF Restart, Listing
<1>5. ASSUME pc' # "read", UNCHANGED <<script, queue, out>> PROVE Listing'
  BY <1>5 DEF Listing
<1>6. CASE GuardSleep \/ GuardWake \/ GuardExit \/ Abort \/ Minimize \/ Join
  BY <1>5, <1>6 DEF GuardSleep, GuardWake, GuardExit, Abort, Minimize, Join
<1>7. CASE Pull \/ Update
  BY <1>5, <1>7 DEF Pull, Update
<1>8. CASE Tick
  BY <1>8 DEF Tick, Listing, Copying
<1>9. CASE Ended \/ UNCHANGED vars
  BY <1>9 DEF Ended, vars, Listing, Copying
<1> QED
  BY <1>1, <1>2, <1>3, <1>4, <1>6, <1>7, <1>8, <1>9, ScriptListing DEF Next, LegionStep

\* The guard's reading of a folder fails only while its script copies.
LEMMA AbortStep ==
  ASSUME CInv, Listing, Abort
  PROVE  syncer = "guard" /\ script[cur] \in {"copy", "copy last"}
<1>1. pc = "read" /\ listed # {} /\ Min(listed) \notin Names(out[cur])
  BY DEF Abort
<1>2. listed \in SUBSET Nat /\ cur \in Fuzzers /\ syncer \in {"guard", "main"}
  BY NamesAreNumbers DEF CInv, TypeOK, GuardType
<1>3. Min(listed) \in listed
  BY <1>1, <1>2, LeastName
<1>4. Copying(cur)
  BY <1>1, <1>3 DEF Listing
<1>5. cur \in Selected
  BY <1>2, <1>4, RunningIsSelected DEF Copying
<1>6. syncer # "main"
  BY <1>2, <1>4, <1>5, OwnTypes DEF Copying
<1> QED
  BY <1>2, <1>4, <1>6 DEF Copying

\* Every variable keeps its type, and no folder ever holds two files of one name.
THEOREM TypeCorrect == Spec => []TypeOK
<1>1. CInv => TypeOK
  BY DEF CInv
<1> QED
  BY <1>1, ControlInit, ControlStep, PTL DEF Spec

\* legion terminates at a missing file only when the guard meets a flush:
\* never in the synchronization of the main thread, and never while the script
\* sleeps, archives or is done.
THEOREM AbortTheorem == Spec => AbortNeedsFlush
<1>1. CInv /\ Listing =>
        [Abort => syncer = "guard" /\ script[cur] \in {"copy", "copy last"}]_vars
  BY AbortStep
<1> QED
  BY <1>1, ControlInit, ControlStep, ListingInit, ListingStep, PTL DEF Spec, AbortNeedsFlush

(***************************************************************************)
(* What is archived.                                                       *)
(***************************************************************************)

\* The two claims about one fuzzer.
FlushedOf(f) ==
  /\ script[f] = "copy last" =>
       \A x \in queue[f] : Dir[x] < dir[f] => x \in out[f] \/ Shadowed(f, x)
  /\ script[f] = "archive" => \A x \in queue[f] : x \in out[f] \/ Shadowed(f, x)
  /\ script[f] = "done" /\ pc \notin {"aborted", "end"} =>
       archive[f] \subseteq Texts(out[f]) \ Texts(input)

FoundOf(f) ==
  script[f] = "done" /\ pc # "aborted" =>
    \A x \in queue[f] : Text[x] \in archive[f] \cup Texts(input) \/ Shadowed(f, x)

Kept == \A f \in Selected : FlushedOf(f) /\ FoundOf(f)

LEMMA KeptIsBoth == Kept <=> Flushed /\ FoundSeedsAreArchived
BY DEF Kept, FlushedOf, FoundOf, Flushed, FoundSeedsAreArchived, Shadowed

LEMMA KeptFrame ==
  ASSUME CInv, Kept, NEW f \in Fuzzers, UNCHANGED <<guard, pools>>,
         \A g \in Fuzzers : g # f => /\ script'[g] = script[g] /\ dir'[g] = dir[g]
                                     /\ queue'[g] = queue[g] /\ out'[g] = out[g]
                                     /\ archive'[g] = archive[g],
         FlushedOf(f)', FoundOf(f)'
  PROVE  Kept'
<1>1. UNCHANGED <<pc, input>>
  BY DEF guard, pools
<1> SUFFICES ASSUME NEW g \in Selected, g # f PROVE FlushedOf(g)' /\ FoundOf(g)'
  BY DEF Kept
<1>2. g \in Fuzzers /\ FlushedOf(g) /\ FoundOf(g)
  BY Basics DEF Kept
<1> QED
  BY <1>1, <1>2 DEF FlushedOf, FoundOf, Shadowed

\* After a directory has been copied, its files are in the folder and those of
\* the directories before it still are, or have left their name to one of it.
LEMMA CopyCovers ==
  ASSUME CInv, NEW f \in Fuzzers,
         \A x \in queue[f] : Dir[x] < dir[f] => x \in out[f] \/ Shadowed(f, x)
  PROVE  \A x \in queue[f] : Dir[x] <= dir[f] => x \in Copied(f) \/ Shadowed(f, x)
<1> DEFINE F == {x \in queue[f] : Dir[x] = dir[f]}
<1>1. dir[f] \in 1..Workers /\ IsFolder(F) /\ IsFolder(out[f]) /\ queue[f] \subseteq Files
  BY OwnTypes DEF OwnFiles
<1>2. /\ F \subseteq Copied(f)
      /\ \A x \in out[f] : x \in Copied(f) \/ \E y \in F : Name[y] = Name[x]
  BY <1>1, PutEffect DEF Copied
<1> SUFFICES ASSUME NEW x \in queue[f], Dir[x] <= dir[f] PROVE x \in Copied(f) \/ Shadowed(f, x)
  OBVIOUS
<1>3. CASE Dir[x] = dir[f]
  BY <1>2, <1>3
<1>4. CASE Dir[x] # dir[f]
  <2>1. Dir[x] < dir[f]
    BY <1>1, <1>4, DirRange
  <2>2. CASE x \in out[f]
    BY <1>2, <2>1, <2>2 DEF Shadowed
  <2> QED
    BY <2>1, <2>2
<1> QED
  BY <1>3, <1>4

LEMMA ScriptKept ==
  ASSUME CInv, Kept, NEW f \in Fuzzers, ScriptStep(f) \/ \E x \in Files : Find(f, x)
  PROVE  Kept'
<1>g. UNCHANGED <<guard, pools>>
  BY DEF ScriptStep, Start, Wake, Clear, Copy, Archive, Find
<1>p. UNCHANGED <<pc, input>>
  BY <1>g DEF guard, pools
<1>a. ASSUME ~Archive(f) PROVE archive' = archive
  BY <1>a DEF ScriptStep, Start, Wake, Clear, Copy, Find, results
<1>d. dir[f] \in 1..Workers /\ Workers \in Nat /\ \A x \in queue[f] : Dir[x] \in 1..Workers /\ Dir[x] >= 1
  BY OwnTypes, DirRange, Basics
<1>e. ASSUME script'[f] \notin {"copy last", "archive", "done"} PROVE FlushedOf(f)' /\ FoundOf(f)'
  BY <1>e DEF FlushedOf, FoundOf
<1>1. CASE Start(f)
  <2>1. PICK phase \in {"archive", "sleep"}, t \in 0..Period :
          /\ phase = "archive" => input = {}
          /\ Own(f, phase, 0, 1, t, input \cap Corpus, {})
    BY <1>1, StartOwn
  <2>f. /\ script'[f] = phase /\ queue'[f] = input \cap Corpus
        /\ \A g \in Fuzzers : g # f => /\ script'[g] = script[g] /\ dir'[g] = dir[g]
                                       /\ queue'[g] = queue[g] /\ out'[g] = out[g]
    BY <2>1, OwnFrame
  <2>2. FlushedOf(f)' /\ FoundOf(f)'
    BY <2>1, <2>f DEF FlushedOf, FoundOf
  <2>3. archive' = archive
    BY <1>1 DEF Start
  <2> QED
    BY <1>g, <2>2, <2>3, <2>f, KeptFrame
<1>2. CASE Wake(f)
  <2>1. Own(f, "clear", slept[f] + 1, dir[f], timer[f], queue[f], out[f])
    BY <1>2, WakeOwn
  <2>f. /\ script'[f] = "clear"
        /\ \A g \in Fuzzers : g # f => /\ script'[g] = script[g] /\ dir'[g] = dir[g]
                                       /\ queue'[g] = queue[g] /\ out'[g] = out[g]
    BY <2>1, OwnFrame
  <2>3. archive' = archive
    BY <1>2 DEF Wake, results
  <2> QED
    BY <1>g, <1>e, <2>3, <2>f, KeptFrame
<1>3. CASE Clear(f)
  <2>1. PICK phase \in {"copy", "copy last"} : Own(f, phase, slept[f], 1, timer[f], queue[f], {})
    BY <1>3, ClearOwn
  <2>f. /\ script'[f] = phase /\ dir'[f] = 1 /\ queue'[f] = queue[f]
        /\ \A g \in Fuzzers : g # f => /\ script'[g] = script[g] /\ dir'[g] = dir[g]
                                       /\ queue'[g] = queue[g] /\ out'[g] = out[g]
    BY <2>1, OwnFrame
  <2>2. \A x \in queue'[f] : ~(Dir[x] < dir'[f])
    <3>1. queue'[f] \subseteq Files /\ dir'[f] = 1
      BY <2>f, OwnTypes
    <3> QED
      BY <3>1, NoDirBeforeFirst
  <2>3. FlushedOf(f)' /\ FoundOf(f)'
    BY <2>1, <2>2, <2>f DEF FlushedOf, FoundOf
  <2>4. archive' = archive
    BY <1>3 DEF Clear, results
  <2> QED
    BY <1>g, <2>3, <2>4, <2>f, KeptFrame
<1>4. CASE Copy(f)
  <2>1. PICK phase \in Phases, d \in 1..Workers, t \in 0..Period :
          CopyTurn(f, phase, d) /\ Own(f, phase, slept[f], d, t, queue[f], Copied(f))
    BY <1>4, CopyOwn
  <2>f. /\ script'[f] = phase /\ dir'[f] = d /\ queue'[f] = queue[f] /\ out'[f] = Copied(f)
        /\ \A g \in Fuzzers : g # f => /\ script'[g] = script[g] /\ dir'[g] = dir[g]
                                       /\ queue'[g] = queue[g] /\ out'[g] = out[g]
    BY <2>1, OwnFrame
  <2>2. Copying(f) /\ f \in Selected
    BY <1>4, CopyOwn
  <2>3. archive' = archive
    BY <1>4 DEF Copy, results
  <2>4. CASE script[f] = "copy"
    <3>1. phase \notin {"copy last", "archive", "done"}
      BY <2>1, <2>4 DEF CopyTurn
    <3> QED
      BY <1>g, <1>e, <2>3, <2>f, <3>1, KeptFrame
  <2>5. CASE script[f] = "copy last"
    <3>1. \A x \in queue[f] : Dir[x] <= dir[f] => x \in Copied(f) \/ Shadowed(f, x)
      BY <2>2, <2>5, CopyCovers DEF Kept, FlushedOf
    <3>2. \A x \in queue[f] : Shadowed(f, x)' <=> Shadowed(f, x)
      BY <2>f DEF Shadowed
    <3>3. CASE phase = "copy last" /\ d = dir[f] + 1
      <4>1. \A x \in queue[f] : Dir[x] < d => Dir[x] <= dir[f]
        <5> SUFFICES ASSUME NEW x \in queue[f], Dir[x] < dir[f] + 1 PROVE Dir[x] <= dir[f]
          BY <3>3
        <5>1. Dir[x] \in 1..Workers /\ dir[f] \in 1..Workers
          BY <1>d
        <5> QED
          BY <5>1
      <4>2. FlushedOf(f)' /\ FoundOf(f)'
        BY <2>f, <3>1, <3>2, <3>3, <4>1 DEF FlushedOf, FoundOf
      <4> QED
        BY <1>g, <2>3, <2>f, <4>2, KeptFrame
    <3>4. CASE phase = "archive" /\ dir[f] = Workers
      <4>1. \A x \in queue[f] : Dir[x] <= dir[f]
        BY <1>d, <3>4
      <4>2. FlushedOf(f)' /\ FoundOf(f)'
        BY <2>f, <3>1, <3>2, <3>4, <4>1 DEF FlushedOf, FoundOf
      <4> QED
        BY <1>g, <2>3, <2>f, <4>2, KeptFrame
    <3> QED
      BY <2>1, <2>5, <3>3, <3>4 DEF CopyTurn
  <2> QED
    BY <2>2, <2>4, <2>5 DEF Copying
<1>5. CASE Archive(f)
  <2>1. /\ script[f] = "archive" /\ f \in Selected
        /\ Own(f, "done", slept[f], dir[f], timer[f], queue[f], out[f])
        /\ \A g \in Fuzzers : g # f => archive'[g] = archive[g]
        /\ pc # "aborted" => archive'[f] = Texts(out[f]) \ Texts(input)
    BY <1>5, ArchiveOwn
  <2>f. /\ script'[f] = "done" /\ queue'[f] = queue[f] /\ out'[f] = out[f]
        /\ \A g \in Fuzzers : g # f => /\ script'[g] = script[g] /\ dir'[g] = dir[g]
                                       /\ queue'[g] = queue[g] /\ out'[g] = out[g]
    BY <2>1, OwnFrame
  <2>2. \A x \in queue[f] : x \in out[f] \/ Shadowed(f, x)
    BY <2>1 DEF Kept, FlushedOf
  <2>3. \A x \in out[f] : Text[x] \in Texts(out[f])
    BY DEF Texts
  <2>4. \A x \in queue[f] : Shadowed(f, x)' <=> Shadowed(f, x)
    BY <2>f DEF Shadowed
  <2>5. Texts(out[f])' = Texts(out[f]) /\ Texts(input)' = Texts(input)
    BY <1>p, <2>f
  <2>6. FlushedOf(f)' /\ FoundOf(f)'
    BY <1>p, <2>1, <2>2, <2>3, <2>4, <2>5, <2>f DEF FlushedOf, FoundOf
  <2> QED
    BY <1>g, <2>1, <2>6, <2>f, KeptFrame
<1>6. ASSUME NEW x \in Files, Find(f, x) PROVE Kept'
  <2>1. PICK q \in SUBSET Files : Own(f, script[f], slept[f], dir[f], timer[f], q, out[f])
    BY <1>6, FindOwn
  <2>2. script[f] \in {"sleep", "clear", "copy"}
    BY <1>6, FindOwn
  <2>f. /\ script'[f] = script[f]
        /\ \A g \in Fuzzers : g # f => /\ script'[g] = script[g] /\ dir'[g] = dir[g]
                                       /\ queue'[g] = queue[g] /\ out'[g] = out[g]
    BY <2>1, OwnFrame
  <2>3. archive' = archive
    BY <1>6 DEF Find, results
  <2> QED
    BY <1>g, <1>e, <2>2, <2>3, <2>f, KeptFrame
<1> QED
  BY <1>1, <1>2, <1>3, <1>4, <1>5, <1>6 DEF ScriptStep

LEMMA KeptInit == Init => Kept
<1> SUFFICES ASSUME Init, NEW f \in Selected PROVE FlushedOf(f) /\ FoundOf(f)
  BY DEF Kept
<1>1. script[f] = "start"
  BY Basics DEF Init
<1> QED
  BY <1>1 DEF FlushedOf, FoundOf

LEMMA KeptStep == CInv /\ Kept /\ [Next]_vars => Kept'
<1> SUFFICES ASSUME CInv, Kept, [Next]_vars PROVE Kept'
  OBVIOUS
<1> USE DEF guard, pools, scripts, results, aux, Goto
<1>1. ASSUME UNCHANGED <<script, dir, queue, out, archive, input>>,
             pc \in {"aborted", "end"} => pc' = pc
      PROVE  Kept'
  BY <1>1 DEF Kept, FlushedOf, FoundOf, Shadowed
<1>2. CASE LegionStep /\ ~Refresh
  BY <1>1, <1>2 DEF LegionStep, GuardSleep, GuardWake, GuardExit, List, Read, Abort, Pull, Minimize,
                    Update, Join
<1>3. CASE Refresh
  <2>1. \A f \in Selected : script[f] = "done"
    BY <1>3 DEF Refresh, CInv, Control, Joined
  <2> QED
    BY <1>3, <2>1 DEF Refresh, Kept, FlushedOf, FoundOf, Shadowed
<1>4. CASE Tick
  BY <1>1, <1>4 DEF Tick
<1>5. ASSUME NEW C \in {Corpus, {}}, Restart(C) PROVE Kept'
  <2>1. \A f \in Selected : script'[f] = "start"
    BY <1>5, Basics DEF Restart
  <2> QED
    BY <2>1 DEF Kept, FlushedOf, FoundOf
<1>6. CASE Ended \/ UNCHANGED vars
  BY <1>1, <1>6 DEF Ended, vars
<1> QED
  BY <1>2, <1>3, <1>4, <1>5, <1>6, ScriptKept DEF Next, LegionStep

\* The last flush makes up for all the earlier ones: what a worker has saved
\* is in the archive of the round, or gave way to a file of its name.
THEOREM FoundTheorem == Spec => []FoundSeedsAreArchived
<1>1. Kept => FoundSeedsAreArchived
  BY KeptIsBoth
<1> QED
  BY <1>1, ControlInit, ControlStep, KeptInit, KeptStep, PTL DEF Spec

(***************************************************************************)
(* What is synchronized.                                                   *)
(***************************************************************************)

\* While the main thread synchronizes, no script runs.
LEMMA ScriptsAreJoined ==
  ASSUME CInv, syncer = "main", NEW f \in Fuzzers
  PROVE  ~ScriptStep(f) /\ \A x \in Files : ~Find(f, x)
<1>1. f \in Selected => script[f] = "done"
  BY OwnTypes
<1>2. f \notin Selected => script[f] = "start"
  BY DEF CInv, Control
<1> QED
  BY <1>1, <1>2 DEF ScriptStep, Start, Wake, Clear, Copy, Archive, Find

\* What was pooled stays pooled when files are copied into the pool.
LEMMA PooledGrows ==
  ASSUME CInv, NEW f \in Fuzzers, NEW t, Pooled(f, t), IsFolder(delta),
         global' = Put(delta, global), old' = old
  PROVE  Pooled(f, t)'
<1>1. IsFolder(global)
  BY DEF CInv, TypeOK, FolderType
<1>2. /\ \A x \in global : x \in global' \/ \E y \in global' : Name[y] = Name[x]
      /\ global \subseteq Files
  <2>1. IsFolder(delta) /\ IsFolder(global)
    BY <1>1
  <2>2. /\ delta \subseteq Put(delta, global)
        /\ \A x \in global : x \in Put(delta, global) \/ \E y \in delta : Name[y] = Name[x]
    BY <2>1, PutEffect
  <2> QED
    BY <2>1, <2>2 DEF IsFolder
<1>3. CASE t \in Texts(global)
  <2>1. PICK x \in global : Text[x] = t
    BY <1>3 DEF Texts
  <2>2. CASE x \in global'
    BY <2>1, <2>2 DEF Pooled, Texts
  <2>3. CASE \E y \in global' : Name[y] = Name[x]
    BY <1>2, <2>1, <2>3 DEF Pooled
  <2> QED
    BY <1>2, <2>2, <2>3
<1>4. CASE t \in old[f]
  BY <1>4 DEF Pooled
<1>5. CASE \E x \in Files, y \in global : Text[x] = t /\ Name[y] = Name[x]
  <2>1. PICK x \in Files, y \in global : Text[x] = t /\ Name[y] = Name[x]
    BY <1>5
  <2>2. PICK z \in global' : Name[z] = Name[x]
    BY <1>2, <2>1
  <2> QED
    BY <2>1, <2>2 DEF Pooled
<1> QED
  BY <1>3, <1>4, <1>5 DEF Pooled

LEMMA SyncedInit == Init => Synced /\ Progress
<1> SUFFICES ASSUME Init PROVE Synced /\ Progress
  OBVIOUS
<1>1. \A f \in Fuzzers : manifest[f] = {}
  BY NoneType DEF Init
<1>2. syncer = "guard"
  BY DEF Init
<1> QED
  BY <1>1, <1>2 DEF Synced, Progress

LEMMA SyncedStep == CInv /\ Synced /\ [Next]_vars => Synced'
<1> SUFFICES ASSUME CInv, Synced, [Next]_vars PROVE Synced'
  OBVIOUS
<1> USE DEF guard, pools, scripts, results, aux
<1>1. ASSUME UNCHANGED <<manifest, global, old>> PROVE Synced'
  BY <1>1 DEF Synced, Pooled
<1>2. CASE Pull
  <2>1. /\ global' = Put(delta, global) /\ old' = old
        /\ manifest' = [manifest EXCEPT ![cur] = @ \cup Texts(delta)]
    BY <1>2 DEF Pull
  <2>2. IsFolder(delta) /\ IsFolder(global) /\ manifest \in [Fuzzers -> SUBSET Texts(Files)]
    BY DEF CInv, TypeOK, FolderType
  <2> SUFFICES ASSUME NEW f \in Fuzzers, NEW t \in manifest'[f] PROVE Pooled(f, t)'
    BY DEF Synced
  <2>3. t \in manifest[f] \/ t \in Texts(delta)
    BY <2>1, <2>2
  <2>4. CASE t \in manifest[f]
    <3>1. Pooled(f, t)
      BY <2>4 DEF Synced
    <3> QED
      BY <2>1, <2>2, <3>1, PooledGrows
  <2>5. CASE t \in Texts(delta)
    <3>1. delta \subseteq global'
      BY <2>1, <2>2, PutEffect
    <3> QED
      BY <2>5, <3>1 DEF Texts, Pooled
  <2> QED
    BY <2>3, <2>4, <2>5
<1>3. ASSUME NEW C \in {Corpus, {}}, Restart(C) PROVE Synced'
  <2>1. old' = manifest /\ manifest' = manifest
    BY <1>3 DEF Restart
  <2> QED
    BY <2>1 DEF Synced, Pooled
<1>4. CASE LegionStep /\ ~Pull
  BY <1>1, <1>4 DEF LegionStep, GuardSleep, GuardWake, GuardExit, List, Read, Abort, Minimize, Update,
                    Join, Refresh
<1>5. ASSUME NEW f \in Fuzzers, ScriptStep(f) \/ \E x \in Files : Find(f, x) PROVE Synced'
  BY <1>1, <1>5 DEF ScriptStep, Start, Wake, Clear, Copy, Archive, Find
<1>6. CASE Tick \/ Ended \/ UNCHANGED vars
  BY <1>1, <1>6 DEF Tick, Ended, vars
<1> QED
  BY <1>2, <1>3, <1>4, <1>5, <1>6 DEF Next

\* What the main thread may find in an archive: contents of the round folder
\* that are not among the input.
LEMMA ArchivedIsInFolder ==
  ASSUME CInv, Kept, syncer = "main", pc \in {"list", "read"}
  PROVE  archive[cur] \subseteq Texts(out[cur]) \ Texts(input)
<1>1. cur \in Fuzzers
  BY DEF CInv, TypeOK, GuardType
<1>2. CASE cur \in Selected
  <2>1. script[cur] = "done"
    BY <1>1, <1>2, OwnTypes
  <2> QED
    BY <1>2, <2>1 DEF Kept, FlushedOf
<1>3. CASE cur \notin Selected
  BY <1>1, <1>3 DEF CInv, Control
<1> QED
  BY <1>2, <1>3

\* One file less to read: its contents are known now.
LEMMA ReadProgress ==
  ASSUME CInv, Kept, Progress, Read, syncer = "main"
  PROVE  \A t \in archive[cur] :
           \/ t \in manifest[cur] \cup Texts(delta')
           \/ \E x \in out[cur] : Text[x] = t /\ Name[x] \in listed'
<1> DEFINE n == Min(listed)
<1>1. PICK x \in out[cur] :
        Name[x] = n /\ delta' = IF IsNew(Text[x]) THEN delta \cup {x} ELSE delta
  BY DEF Read
<1>2. pc = "read" /\ listed' = listed \ {n}
  BY DEF Read
<1>3. cur \in Fuzzers /\ IsFolder(out[cur])
  BY OwnTypes DEF CInv, TypeOK, GuardType
<1>4. Texts(delta) \subseteq Texts(delta')
  BY <1>1 DEF Texts
<1> HIDE DEF n
<1> SUFFICES ASSUME NEW t \in archive[cur],
                    \A y \in out[cur] : ~(Text[y] = t /\ Name[y] \in listed')
             PROVE  t \in manifest[cur] \cup Texts(delta')
  OBVIOUS
<1>5. CASE t \in manifest[cur] \cup Texts(delta)
  BY <1>4, <1>5
<1>6. CASE \E y \in out[cur] : Text[y] = t /\ Name[y] \in listed
  <2>1. PICK y \in out[cur] : Text[y] = t /\ Name[y] \in listed
    BY <1>6
  <2>2. y = x
    BY <1>1, <1>2, <1>3, <2>1 DEF IsFolder
  <2>3. t \notin Texts(input)
    BY <1>2, ArchivedIsInFolder
  <2>4. CASE IsNew(t)
    <3>1. x \in delta' /\ Text[x] = t
      BY <1>1, <2>1, <2>2, <2>4
    <3> QED
      BY <3>1 DEF Texts
  <2>5. CASE ~IsNew(t)
    BY <1>4, <2>3, <2>5 DEF IsNew
  <2> QED
    BY <2>4, <2>5
<1> QED
  BY <1>2, <1>5, <1>6 DEF Progress

LEMMA PullProgress ==
  ASSUME CInv, Progress, Pull, syncer = "main"
  PROVE  Progress'
<1>1. /\ pc = "read" /\ listed = {} /\ archive' = archive
      /\ manifest' = [manifest EXCEPT ![cur] = @ \cup Texts(delta)]
      /\ \/ cur < NumFuzzers /\ cur' = cur + 1 /\ pc' = "list"
         \/ ~(cur < NumFuzzers) /\ cur' = 1 /\ pc' = "refresh"
  BY DEF Pull, Goto
<1>2. manifest \in [Fuzzers -> SUBSET Texts(Files)] /\ cur \in Fuzzers
  BY DEF CInv, TypeOK, GuardType, FolderType
<1>3. NumFuzzers \in Nat /\ \A f \in Fuzzers : f \in Int /\ 1 <= f /\ f <= NumFuzzers
  BY Basics
<1>4. archive[cur] \subseteq manifest[cur] \cup Texts(delta)
  BY <1>1 DEF Progress
<1>5. \A f \in Fuzzers : f < cur => archive[f] \subseteq manifest[f]
  BY <1>1 DEF Progress
<1>6. manifest'[cur] = manifest[cur] \cup Texts(delta) /\ \A f \in Fuzzers : manifest[f] \subseteq manifest'[f]
  BY <1>1, <1>2
<1>7. \A f \in Fuzzers : f < cur \/ f = cur => archive[f] \subseteq manifest'[f]
  BY <1>4, <1>5, <1>6
<1>8. CASE cur < NumFuzzers /\ cur' = cur + 1 /\ pc' = "list"
  <2>1. \A f \in Fuzzers : f < cur + 1 => f < cur \/ f = cur
    BY <1>2, <1>3
  <2> QED
    BY <1>1, <1>7, <1>8, <2>1 DEF Progress
<1>9. CASE ~(cur < NumFuzzers) /\ cur' = 1 /\ pc' = "refresh"
  <2>1. \A f \in Fuzzers : f < cur \/ f = cur
    <3> SUFFICES ASSUME NEW f \in Fuzzers PROVE f < cur \/ f = cur
      OBVIOUS
    <3>1. f \in Int /\ f <= NumFuzzers /\ cur \in Int /\ cur <= NumFuzzers
      BY <1>2, <1>3
    <3> QED
      BY <1>3, <1>9, <3>1
  <2> QED
    BY <1>1, <1>7, <1>9, <2>1 DEF Progress
<1> QED
  BY <1>1, <1>8, <1>9

LEMMA ProgressStep == CInv /\ Kept /\ Progress /\ [Next]_vars => Progress'
<1> SUFFICES ASSUME CInv, Kept, Progress, [Next]_vars PROVE Progress'
  OBVIOUS
<1> USE DEF guard, pools, scripts, results, aux, Goto
<1>s. syncer \in {"guard", "main"} /\ cur \in Fuzzers
  BY DEF CInv, TypeOK, GuardType
<1>0. ASSUME syncer' = "guard" PROVE Progress'
  BY <1>0 DEF Progress
<1>1. CASE UNCHANGED <<pc, syncer, cur, listed, delta, archive, manifest, out>>
  BY <1>1 DEF Progress
<1>2. CASE GuardSleep \/ GuardWake \/ GuardExit
  <2>1. pc \in {"guard", "nap"} /\ syncer' \in {syncer, "guard"} /\ pc' \in {"nap", "list", "join"}
    BY <1>2 DEF GuardSleep, GuardWake, GuardExit
  <2>2. CASE GuardWake
    BY <1>0, <2>2 DEF GuardWake
  <2>3. CASE GuardSleep \/ GuardExit
    BY <2>3 DEF Progress, GuardSleep, GuardExit
  <2> QED
    BY <1>2, <2>2, <2>3
<1>3. CASE List /\ syncer = "main"
  <2>1. archive[cur] \subseteq Texts(out[cur])
    BY <1>3, ArchivedIsInFolder DEF List
  <2>2. \A t \in Texts(out[cur]) : \E x \in out[cur] : Text[x] = t /\ Name[x] \in Names(out[cur])
    BY DEF Texts, Names
  <2> QED
    BY <1>3, <2>1, <2>2 DEF List, Progress
<1>4. CASE Read /\ syncer = "main"
  <2>1. /\ pc = "read" /\ UNCHANGED <<pc, syncer, cur, archive, manifest, out>>
    BY <1>4 DEF Read
  <2>2. \A t \in archive[cur] :
           \/ t \in manifest[cur] \cup Texts(delta')
           \/ \E x \in out[cur] : Text[x] = t /\ Name[x] \in listed'
    BY <1>4, ReadProgress
  <2> QED
    BY <2>1, <2>2 DEF Progress, Texts
<1>5. CASE Pull /\ syncer = "main"
  BY <1>5, PullProgress
<1>6. CASE (List \/ Read \/ Pull) /\ syncer # "main"
  BY <1>0, <1>6, <1>s DEF List, Read, Pull
<1>7. CASE Abort \/ Minimize \/ Update \/ Refresh
  <2>1. pc' \in {"aborted", "update", "guard", "end"}
    BY <1>7 DEF Abort, Minimize, Update, Refresh
  <2> QED
    BY <2>1 DEF Progress
<1>8. CASE Join
  <2>1. pc' = "list" /\ cur' = 1 /\ \A f \in Fuzzers : ~(f < 1)
    BY <1>8, Basics DEF Join
  <2> QED
    BY <2>1 DEF Progress
<1>9. ASSUME NEW f \in Fuzzers, ScriptStep(f) \/ \E x \in Files : Find(f, x) PROVE Progress'
  <2>1. syncer = "guard"
    BY <1>9, <1>s, ScriptsAreJoined
  <2>2. syncer' = syncer
    BY <1>9 DEF ScriptStep, Start, Wake, Clear, Copy, Archive, Find
  <2> QED
    BY <1>0, <2>1, <2>2
<1>10. ASSUME NEW C \in {Corpus, {}}, Restart(C) PROVE Progress'
  BY <1>0, <1>10 DEF Restart
<1>11. CASE Tick \/ Ended \/ UNCHANGED vars
  BY <1>1, <1>11 DEF Tick, Ended, vars
<1> QED
  BY <1>2, <1>3, <1>4, <1>5, <1>6, <1>7, <1>8, <1>9, <1>10, <1>11 DEF Next, LegionStep

\* Whatever the guard had met, every archived seed of the round is in the
\* manifest of its fuzzer when the main thread has synchronized, and in the
\* pool, replaced there by a file of its name, or known to an earlier campaign.
THEOREM SyncTheorem == Spec => []ArchivedSeedsAreSynced
<1>1. CInv /\ Synced /\ Progress => ArchivedSeedsAreSynced
  BY DEF CInv, Control, Synced, Progress, Pooled, ArchivedSeedsAreSynced
<1> QED
  BY <1>1, ControlInit, ControlStep, KeptInit, KeptStep, SyncedInit, SyncedStep, ProgressStep, PTL
  DEF Spec

(***************************************************************************)
(* What the fuzzers share.                                                 *)
(***************************************************************************)

LEMMA CoverGrows == ASSUME NEW S, NEW T, S \subseteq T PROVE Cover(S) \subseteq Cover(T)
BY DEF Cover

\* A minimized pool covers what the seeds of the pool that do not crash cover.
LEMMA MinimizedCovers ==
  ASSUME NEW G, NEW S \in Minimized(G)
  PROVE  Cover(Texts(G) \ Crashing) \subseteq Cover(Texts(S))
<1> DEFINE calm == {x \in G : Text[x] \notin Crashing}
<1>1. Texts(G) \ Crashing = Texts(calm)
  BY DEF Texts
<1>2. CASE calm = {}
  <2>1. Texts(calm) = {}
    BY <1>2 DEF Texts
  <2> QED
    BY <1>1, <2>1 DEF Cover
<1>3. CASE calm # {}
  BY <1>1, <1>3 DEF Minimized
<1> QED
  BY <1>2, <1>3

LEMMA UpdateSharing ==
  ASSUME CInv, Sharing, Update
  PROVE  Sharing'
<1>1. /\ pc = "update" /\ UNCHANGED <<timeCount, global, cmin, current>>
      /\ peer' = IF cur \in Selected THEN [peer EXCEPT ![cur] = @ \cup Texts(Shared)] ELSE peer
      /\ \/ cur < NumFuzzers /\ cur' = cur + 1 /\ pc' = "update"
         \/ ~(cur < NumFuzzers) /\ cur' = 1 /\ pc' = "guard"
  BY DEF Update, Goto, pools
<1>2. cur \in Fuzzers /\ Selected \subseteq Fuzzers /\ peer \in [Fuzzers -> SUBSET Texts(Files)]
  BY Basics DEF CInv, TypeOK, GuardType, FolderType
<1>3. NumFuzzers \in Nat /\ \A f \in Fuzzers : f \in Int /\ 1 <= f /\ f <= NumFuzzers
  BY Basics
<1>4. Texts(Shared)' = Texts(Shared)
  BY <1>1 DEF Shared, Texts
<1>5. \A f \in Fuzzers : peer[f] \subseteq peer'[f]
  BY <1>1, <1>2
<1>6. cur \in Selected => Texts(Shared) \subseteq peer'[cur]
  BY <1>1, <1>2
<1>7. \A f \in Selected : f < cur => Texts(Shared) \subseteq peer[f]
  BY <1>1 DEF Sharing, Given
<1>8. \A f \in Selected : f < cur \/ f = cur => Given(f)'
  BY <1>2, <1>4, <1>5, <1>6, <1>7 DEF Given
<1>9. DoMinimize /\ current' => cmin' \in Minimized(global')
  BY <1>1 DEF Sharing
<1>10. CASE cur < NumFuzzers /\ cur' = cur + 1 /\ pc' = "update"
  <2>1. \A f \in Selected : f < cur + 1 => f < cur \/ f = cur
    BY <1>2, <1>3
  <2> QED
    BY <1>8, <1>9, <1>10, <2>1 DEF Sharing, Minimized
<1>11. CASE ~(cur < NumFuzzers) /\ cur' = 1 /\ pc' = "guard"
  <2>1. \A f \in Selected : f < cur \/ f = cur
    <3> SUFFICES ASSUME NEW f \in Selected PROVE f < cur \/ f = cur
      OBVIOUS
    <3>1. f \in Int /\ f <= NumFuzzers /\ cur \in Int /\ cur <= NumFuzzers
      BY <1>2, <1>3
    <3> QED
      BY <1>3, <1>11, <3>1
  <2> QED
    BY <1>8, <1>9, <1>11, <2>1 DEF Sharing, Minimized
<1> QED
  BY <1>1, <1>10, <1>11

LEMMA SharingInit == Init => Sharing
BY DEF Init, Sharing

LEMMA SharingStep == CInv /\ Sharing /\ [Next]_vars => Sharing'
<1> SUFFICES ASSUME CInv, Sharing, [Next]_vars PROVE Sharing'
  OBVIOUS
<1> USE DEF guard, pools, scripts, results, aux, Goto
<1>0. ASSUME pc' # "update", ~(pc' = "guard" /\ timeCount' > 0) PROVE Sharing'
  BY <1>0 DEF Sharing
<1>1. CASE UNCHANGED <<pc, timeCount, cur, global, cmin, current, peer>>
  BY <1>1 DEF Sharing, Given, Shared
<1>2. ASSUME NEW f \in Fuzzers, Start(f) PROVE Sharing'
  <2>1. Starting
    BY <1>2 DEF Start, Starting
  <2>2. timeCount = 0 /\ pc # "update"
    BY <2>1 DEF CInv, Control
  <2>3. UNCHANGED <<pc, timeCount>>
    BY <1>2 DEF Start
  <2> QED
    BY <1>0, <2>2, <2>3
<1>3. ASSUME NEW f \in Fuzzers, (ScriptStep(f) /\ ~Start(f)) \/ \E x \in Files : Find(f, x)
      PROVE  Sharing'
  BY <1>1, <1>3 DEF ScriptStep, Wake, Clear, Copy, Archive, Find
<1>4. CASE GuardSleep \/ GuardWake \/ GuardExit \/ List \/ Read \/ Abort \/ Pull \/ Join \/ Refresh
  <2>1. pc' \notin {"update", "guard"}
    BY <1>4 DEF GuardSleep, GuardWake, GuardExit, List, Read, Abort, Pull, Join, Refresh
  <2> QED
    BY <1>0, <2>1
<1>5. CASE Minimize
  <2>1. pc' = "update" /\ cur' = 1
    BY <1>5 DEF Minimize, CInv, Control
  <2>2. \A f \in Selected : ~(f < 1)
    BY Basics
  <2>3. current' => cmin' \in Minimized(global')
    BY <1>5 DEF Minimize, RefreshCmin
  <2> QED
    BY <2>1, <2>2, <2>3 DEF Sharing, Minimized
<1>6. CASE Update
  BY <1>6, UpdateSharing
<1>7. ASSUME NEW C \in {Corpus, {}}, Restart(C) PROVE Sharing'
  BY <1>0, <1>7 DEF Restart
<1>8. CASE Tick \/ Ended \/ UNCHANGED vars
  BY <1>1, <1>8 DEF Tick, Ended, vars
<1> QED
  BY <1>2, <1>3, <1>4, <1>5, <1>6, <1>7, <1>8 DEF Next, LegionStep

\* Whenever the guard goes back to sleep, every selected fuzzer has been given
\* all the coverage of the pool, up to the crashing seeds that -m leaves out.
THEOREM ShareTheorem == Spec => []FuzzersShareThePool
<1>1. Sharing => FuzzersShareThePool
  <2> SUFFICES ASSUME Sharing, pc = "guard", timeCount > 0, DoMinimize => current,
                      NEW f \in Selected
               PROVE  Cover(Texts(global) \ (IF DoMinimize THEN Crashing ELSE {}))
                        \subseteq Cover(peer[f])
    BY DEF FuzzersShareThePool
  <2>1. Texts(Shared) \subseteq peer[f]
    BY DEF Sharing, Given
  <2>2. Cover(Texts(Shared)) \subseteq Cover(peer[f])
    BY <2>1, CoverGrows
  <2>3. CASE DoMinimize
    <3>1. cmin \in Minimized(global)
      BY <2>3 DEF Sharing
    <3> QED
      BY <2>2, <2>3, <3>1, MinimizedCovers DEF Shared
  <2>4. CASE ~DoMinimize
    <3>1. Texts(global) \ {} = Texts(global)
      OBVIOUS
    <3> QED
      BY <2>2, <2>4, <3>1 DEF Shared
  <2> QED
    BY <2>3, <2>4
<1> QED
  BY <1>1, ControlInit, ControlStep, SharingInit, SharingStep, PTL DEF Spec

\* All of it together: the inductive invariant holds in every reachable state.
THEOREM Invariance == Spec => []IInv
<1>1. CInv /\ Listing /\ Kept /\ Synced /\ Progress /\ Sharing => IInv
  BY KeptIsBoth DEF IInv
<1> QED
  BY <1>1, ControlInit, ControlStep, ListingInit, ListingStep, KeptInit, KeptStep, SyncedInit,
     SyncedStep, ProgressStep, SharingInit, SharingStep, PTL DEF Spec
=============================================================================
