------------------------ MODULE OutputCollectProofs ------------------------
(***************************************************************************)
(* Collection of seeds for every set of workers, names and contents and    *)
(* every number of windows and rounds.                                     *)
(***************************************************************************)
EXTENDS OutputCollect, TLAPS

\* A snapshot lists the names of a worker's directory.
Snapshot == listed # {} => dir \in Workers

\* During the last snapshot of a round, a file of a paused worker is still to
\* be copied, or it is there, or it has a namesake.
Copied ==
  pc = "snapshot" /\ ending =>
    \A w \in Workers \ running : \A x \in queue[w] :
      \/ w \in dirs
      \/ w = dir /\ x.name \in listed
      \/ x \in live
      \/ Shadowed(w, x)

\* A fragment that was copied is the beginning of a file in some queue, or of
\* one that was removed.
Origin ==
  \A t \in (accum \cup TextsOf(live)) \cap Fragments :
    \/ -t \in TextsOf(removed)
    \/ \E w \in Workers : \E x \in queue[w] : x.text \in {t, -t}

IInv == TypeOK /\ Snapshot /\ Copied /\ SeedsAreCollected /\ Origin

(***************************************************************************)
(* Contents and folders.                                                   *)
(***************************************************************************)

\* A fragment is not the contents of a whole file, and completing one gives
\* the contents it is the beginning of.
LEMMA FragmentFacts ==
  /\ \A t \in Fragments : t \in Int /\ -t \in Contents /\ -(-t) = t /\ -t \notin Fragments
  /\ \A c \in Contents : -c \in Fragments
  /\ Fragments \cap Contents = {}
<1>1. \A c \in Contents : c \in Nat /\ c > 0
  BY OutputCollectAssumption
<1>2. \A t \in Fragments : \E c \in Contents : t = -c
  BY DEF Fragments
<1>3. \A c \in Contents : -c \in Fragments
  BY DEF Fragments
<1>4. \A t \in Fragments : t \in Int /\ t < 0 /\ -t \in Contents /\ -(-t) = t
  <2> SUFFICES ASSUME NEW t \in Fragments PROVE t \in Int /\ t < 0 /\ -t \in Contents /\ -(-t) = t
    OBVIOUS
  <2>1. PICK c \in Contents : t = -c
    BY <1>2
  <2>2. c \in Nat /\ c > 0
    BY <1>1
  <2>3. -(-c) = c
    BY <2>2
  <2> QED
    BY <2>1, <2>2, <2>3
<1>5. \A c \in Contents : c \notin Fragments
  <2> SUFFICES ASSUME NEW c \in Contents, c \in Fragments PROVE FALSE
    OBVIOUS
  <2>1. c \in Nat /\ c > 0 /\ c < 0
    BY <1>1, <1>4
  <2> QED
    BY <2>1
<1> QED
  BY <1>3, <1>4, <1>5

LEMMA FileFacts ==
  /\ \A n \in Names, t \in Contents \cup Fragments : File(n, t) \in Files
  /\ \A n, t : File(n, t).name = n /\ File(n, t).text = t
  /\ \A x \in Files : x.name \in Names /\ x.text \in Contents \cup Fragments
  /\ \A x, y \in Files : x.name = y.name /\ x.text = y.text => x = y
BY DEF File, Files

LEMMA PutFolder ==
  ASSUME NEW F, IsFolder(F), NEW x \in Files
  PROVE  /\ IsFolder(Put(x, F)) /\ x \in Put(x, F)
         /\ \A y \in F : y \in Put(x, F) \/ y.name = x.name
         /\ TextsOf(Put(x, F)) \subseteq TextsOf(F) \cup {x.text}
BY DEF IsFolder, Put, TextsOf

LEMMA QueueFacts ==
  ASSUME TypeOK, NEW w \in Workers
  PROVE  IsFolder(queue[w]) /\ queue[w] \subseteq Files
BY DEF TypeOK

(***************************************************************************)
(* A worker writes.                                                        *)
(***************************************************************************)

\* One queue changes, of a running worker: every file is still there, but for
\* one that may have been completed.
Writes(w, Q) ==
  /\ w \in running
  /\ queue' = [queue EXCEPT ![w] = Q] /\ IsFolder(Q)
  /\ \A x \in queue[w] : \E y \in Q :
       /\ y.name = x.name
       /\ x.text \in Fragments => y.text \in {x.text, -x.text}
       /\ x.text \notin Fragments => y.text = x.text
  /\ UNCHANGED <<pc, round, windows, running, live, accum, snapshot, removed>>

LEMMA CreateWrites ==
  ASSUME TypeOK, NEW w \in Workers, NEW n \in Names, NEW c \in Contents, Create(w, n, c)
  PROVE  Writes(w, queue[w] \cup {File(n, -c)})
<1>1. File(n, -c) \in Files /\ File(n, -c).name = n
  BY FragmentFacts, FileFacts
<1>2. IsFolder(queue[w]) /\ n \notin NamesOf(queue[w])
  BY QueueFacts DEF Create
<1>3. IsFolder(queue[w] \cup {File(n, -c)})
  BY <1>1, <1>2 DEF IsFolder, NamesOf
<1> QED
  BY <1>3 DEF Create, Writes

LEMMA CompleteWrites ==
  ASSUME TypeOK, NEW w \in Workers, Complete(w)
  PROVE  \E Q : Writes(w, Q)
<1>1. PICK x \in queue[w] :
        /\ x.text \in Fragments
        /\ queue' = [queue EXCEPT ![w] = (queue[w] \ {x}) \cup {File(x.name, -x.text)}]
  BY DEF Complete
<1> DEFINE z == File(x.name, -x.text)
           Q == (queue[w] \ {x}) \cup {z}
<1>2. IsFolder(queue[w]) /\ x \in Files
  BY QueueFacts
<1>3. z \in Files /\ z.name = x.name /\ z.text = -x.text
  BY <1>1, <1>2, FragmentFacts, FileFacts
<1> HIDE DEF z
<1>4. IsFolder(Q)
  BY <1>2, <1>3 DEF IsFolder
<1>5. \A y \in queue[w] : \E u \in Q :
        /\ u.name = y.name
        /\ y.text \in Fragments => u.text \in {y.text, -y.text}
        /\ y.text \notin Fragments => u.text = y.text
  <2> SUFFICES ASSUME NEW y \in queue[w]
               PROVE  \E u \in Q : /\ u.name = y.name
                                   /\ y.text \in Fragments => u.text \in {y.text, -y.text}
                                   /\ y.text \notin Fragments => u.text = y.text
    OBVIOUS
  <2>1. CASE y = x
    BY <1>1, <1>3, <2>1
  <2>2. CASE y # x
    BY <2>2
  <2> QED
    BY <2>1, <2>2
<1>6. queue' = [queue EXCEPT ![w] = Q]
  BY <1>1 DEF z
<1> HIDE DEF Q
<1>7. Writes(w, Q)
  BY <1>4, <1>5, <1>6 DEF Complete, Writes
<1> QED
  BY <1>7

\* What a write changes, seen from any queue.
LEMMA WriteFacts ==
  ASSUME TypeOK, NEW w \in Workers, NEW Q, Writes(w, Q)
  PROVE  /\ \A v \in Workers : v # w => queue'[v] = queue[v]
         /\ \A v \in Workers \ running : queue'[v] = queue[v]
         /\ \A v \in Workers : IsFolder(queue'[v])
         /\ \A v \in Workers : \A x : Shadowed(v, x) => Shadowed(v, x)'
<1>1. queue \in [Workers -> SUBSET Files] /\ queue'[w] = Q
  BY DEF TypeOK, Writes
<1>2. \A v \in Workers : v # w => queue'[v] = queue[v]
  BY <1>1 DEF Writes
<1>3. w \in running /\ running' = running /\ removed' = removed
  BY DEF Writes
<1>4. \A v \in Workers : IsFolder(queue'[v])
  BY <1>1, <1>2, QueueFacts DEF Writes
<1>5. ASSUME NEW v \in Workers, NEW x, Shadowed(v, x) PROVE Shadowed(v, x)'
  <2>0. CASE running # {} /\ x.name \in NamesOf(removed)
    BY <1>3, <2>0 DEF Shadowed
  <2> SUFFICES ASSUME NEW u \in Workers \ {v},
                      \E y \in queue[u] : y.name = x.name /\ (y.text # x.text \/ u \in running)
               PROVE  Shadowed(v, x)'
    BY <1>5, <2>0 DEF Shadowed
  <2>1. PICK y \in queue[u] : y.name = x.name /\ (y.text # x.text \/ u \in running)
    OBVIOUS
  <2>2. CASE u = w
    <3>1. \E z \in Q : z.name = x.name
      BY <2>1, <2>2 DEF Writes
    <3> QED
      BY <1>1, <1>3, <2>1, <2>2, <3>1 DEF Shadowed
  <2>3. CASE u # w
    BY <1>2, <1>3, <2>1, <2>3 DEF Shadowed
  <2> QED
    BY <2>2, <2>3
<1> QED
  BY <1>2, <1>3, <1>4, <1>5

LEMMA WriteStep ==
  ASSUME IInv, NEW w \in Workers, NEW Q, Writes(w, Q)
  PROVE  IInv'
<1>1. TypeOK /\ Snapshot /\ Copied /\ SeedsAreCollected /\ Origin
  BY DEF IInv
<1>u. UNCHANGED <<pc, round, windows, running, live, accum, dirs, dir, listed, ending, removed>>
  BY DEF Writes, snapshot
<1>2. /\ \A v \in Workers : v # w => queue'[v] = queue[v]
      /\ \A v \in Workers \ running : queue'[v] = queue[v]
      /\ \A v \in Workers : IsFolder(queue'[v])
      /\ \A v \in Workers : \A x : Shadowed(v, x) => Shadowed(v, x)'
  BY <1>1, WriteFacts
<1>3. queue' \in [Workers -> SUBSET Files]
  BY <1>1 DEF TypeOK, Writes, IsFolder
<1>4. TypeOK'
  BY <1>1, <1>2, <1>3, <1>u DEF TypeOK
<1>5. Snapshot'
  BY <1>1, <1>u DEF Snapshot
<1>6. Copied' /\ SeedsAreCollected'
  BY <1>1, <1>2, <1>u DEF Copied, SeedsAreCollected
<1>7. Origin'
  <2> SUFFICES ASSUME NEW t \in (accum \cup TextsOf(live)) \cap Fragments, -t \notin TextsOf(removed)
               PROVE  \E v \in Workers : \E x \in queue'[v] : x.text \in {t, -t}
    BY <1>u DEF Origin
  <2>1. PICK v \in Workers : \E x \in queue[v] : x.text \in {t, -t}
    BY <1>1 DEF Origin
  <2>x. PICK x \in queue[v] : x.text \in {t, -t}
    BY <2>1
  <2>2. CASE v = w
    <3>1. PICK y \in Q : /\ x.text \in Fragments => y.text \in {x.text, -x.text}
                         /\ x.text \notin Fragments => y.text = x.text
      BY <2>x, <2>2 DEF Writes
    <3>2. -t \notin Fragments
      BY FragmentFacts
    <3>3. y.text \in {t, -t}
      BY <2>x, <3>1, <3>2
    <3>4. queue'[w] = Q
      BY <1>1 DEF TypeOK, Writes
    <3> QED
      BY <3>3, <3>4
  <2>3. CASE v # w
    BY <1>2, <2>x, <2>3
  <2> QED
    BY <2>2, <2>3
<1> QED
  BY <1>4, <1>5, <1>6, <1>7 DEF IInv

(***************************************************************************)
(* Files are removed.                                                      *)
(***************************************************************************)

LEMMA WholeFacts ==
  ASSUME NEW x \in Files
  PROVE  /\ Whole(x) \in [name : Names, text : Contents] /\ Whole(x).name = x.name
         /\ \A t \in Fragments : x.text \in {t, -t} => Whole(x).text = -t
<1>1. x.name \in Names /\ x.text \in Contents \cup Fragments
  BY FileFacts
<1>2. CASE x.text \in Fragments
  <2>1. Whole(x) = [name |-> x.name, text |-> -x.text]
    BY <1>2 DEF Whole, File
  <2>2. -x.text \in Contents /\ \A t \in Fragments : -t \notin Fragments
    BY <1>2, FragmentFacts
  <2> QED
    BY <1>1, <1>2, <2>1, <2>2
<1>3. CASE x.text \notin Fragments
  <2>1. Whole(x) = [name |-> x.name, text |-> x.text]
    BY <1>3 DEF Whole, File
  <2> QED
    BY <1>1, <1>3, <2>1
<1> QED
  BY <1>2, <1>3

LEMMA UnlinkStep ==
  ASSUME IInv, NEW w \in Workers, Unlink(w)
  PROVE  IInv'
<1>1. TypeOK /\ Snapshot /\ Copied /\ SeedsAreCollected /\ Origin
  BY DEF IInv
<1>u. UNCHANGED <<pc, round, windows, running, live, accum, dirs, dir, listed, ending>>
  BY DEF Unlink, snapshot
<1>x. PICK x \in queue[w] : /\ x.text \notin Fragments
                            /\ queue' = [queue EXCEPT ![w] = queue[w] \ {x}]
                            /\ removed' = removed \cup {x}
  BY DEF Unlink
<1>2. w \in running /\ x \in Files /\ queue \in [Workers -> SUBSET Files]
  BY <1>1, QueueFacts DEF Unlink, TypeOK
<1>3. x \in [name : Names, text : Contents]
  BY <1>2, <1>x DEF Files
<1>4. \A v \in Workers : queue'[v] = IF v = w THEN queue[w] \ {x} ELSE queue[v]
  BY <1>2, <1>x
<1>5. queue' \in [Workers -> SUBSET Files] /\ \A v \in Workers : IsFolder(queue'[v])
  <2>1. queue' \in [Workers -> SUBSET Files]
    BY <1>2, <1>x
  <2>2. \A v \in Workers : IsFolder(queue'[v])
    BY <1>1, <1>4, QueueFacts DEF IsFolder
  <2> QED
    BY <2>1, <2>2
<1>6. TypeOK'
  BY <1>1, <1>3, <1>5, <1>u, <1>x DEF TypeOK
<1>7. ASSUME NEW v \in Workers, NEW y, Shadowed(v, y) PROVE Shadowed(v, y)'
  <2>1. running' # {} /\ NamesOf(removed') = NamesOf(removed) \cup {x.name}
    BY <1>2, <1>u, <1>x DEF NamesOf
  <2>2. CASE y.name \in NamesOf(removed) \cup {x.name}
    BY <2>1, <2>2 DEF Shadowed
  <2>3. CASE y.name \notin NamesOf(removed) \cup {x.name}
    <3>1. PICK u \in Workers \ {v} : \E z \in queue[u] : z.name = y.name /\ (z.text # y.text \/ u \in running)
      BY <1>7, <2>3 DEF Shadowed
    <3>2. PICK z \in queue[u] : z.name = y.name /\ (z.text # y.text \/ u \in running)
      BY <3>1
    <3>3. z \in queue'[u]
      BY <1>4, <2>3, <3>2
    <3> QED
      BY <1>u, <3>2, <3>3 DEF Shadowed
  <2> QED
    BY <2>2, <2>3
<1>8. \A v \in Workers \ running : queue'[v] = queue[v]
  BY <1>2, <1>4
<1>9. Snapshot' /\ Copied' /\ SeedsAreCollected'
  BY <1>1, <1>7, <1>8, <1>u DEF Snapshot, Copied, SeedsAreCollected
<1>10. Origin'
  <2> SUFFICES ASSUME NEW t \in (accum \cup TextsOf(live)) \cap Fragments, -t \notin TextsOf(removed')
               PROVE  \E v \in Workers : \E y \in queue'[v] : y.text \in {t, -t}
    BY <1>u DEF Origin
  <2>1. -t \notin TextsOf(removed) /\ x.text # -t
    BY <1>x DEF TextsOf
  <2>2. PICK v \in Workers : \E y \in queue[v] : y.text \in {t, -t}
    BY <1>1, <2>1 DEF Origin
  <2>3. PICK y \in queue[v] : y.text \in {t, -t}
    BY <2>2
  <2>4. y # x
    BY <1>x, <2>1, <2>3
  <2> QED
    BY <1>4, <2>3, <2>4
<1> QED
  BY <1>6, <1>9, <1>10 DEF IInv

LEMMA EmptyFacts ==
  /\ Empty \in [Workers -> SUBSET Files]
  /\ \A w \in Workers : Empty[w] = {}
  /\ IsFolder({})
BY DEF Empty, IsFolder

LEMMA StartAgainStep ==
  ASSUME IInv, StartAgain
  PROVE  IInv'
<1> DEFINE R == {Whole(x) : x \in UNION {queue[w] : w \in Workers}}
<1>1. TypeOK /\ Snapshot /\ Origin
  BY DEF IInv
<1>u. UNCHANGED <<pc, round, windows, accum, dirs, dir, listed, ending>>
  BY DEF StartAgain, snapshot
<1>c. /\ pc = "fuzz" /\ running' = Workers /\ queue' = Empty /\ live' = {}
      /\ removed' = removed \cup R
  BY DEF StartAgain
<1>2. R \subseteq [name : Names, text : Contents]
  <2> SUFFICES ASSUME NEW w \in Workers, NEW x \in queue[w]
               PROVE  Whole(x) \in [name : Names, text : Contents]
    OBVIOUS
  <2>1. x \in Files
    BY <1>1, QueueFacts
  <2> QED
    BY <2>1, WholeFacts
<1>3. ASSUME NEW w \in Workers, NEW x \in queue[w] PROVE Whole(x) \in R
  OBVIOUS
<1> HIDE DEF R
<1>4. TypeOK'
  BY <1>1, <1>2, <1>c, <1>u, EmptyFacts DEF TypeOK
<1>5. Snapshot' /\ Copied' /\ SeedsAreCollected'
  BY <1>1, <1>c, <1>u DEF Snapshot, Copied, SeedsAreCollected
<1>6. Origin'
  <2> SUFFICES ASSUME NEW t \in accum \cap Fragments, -t \notin TextsOf(removed)
               PROVE  -t \in TextsOf(R)
    BY <1>c, <1>u DEF Origin, TextsOf
  <2>1. PICK w \in Workers : \E x \in queue[w] : x.text \in {t, -t}
    BY <1>1 DEF Origin
  <2>2. PICK x \in queue[w] : x.text \in {t, -t}
    BY <2>1
  <2>3. Whole(x).text = -t
    BY <1>1, <2>2, QueueFacts, WholeFacts
  <2> QED
    BY <1>3, <2>3 DEF TextsOf
<1> QED
  BY <1>4, <1>5, <1>6 DEF IInv

(***************************************************************************)
(* The collection.                                                         *)
(***************************************************************************)

LEMMA InitIInv == Init => IInv
<1> SUFFICES ASSUME Init PROVE IInv
  OBVIOUS
<1>1. 1 \in 1..Rounds /\ 0 \in 0..MaxWindows
  BY OutputCollectAssumption
<1>2. queue \in [Workers -> SUBSET Files] /\ \A w \in Workers : IsFolder(queue[w])
  BY EmptyFacts DEF Init
<1>4. TypeOK
  BY <1>1, <1>2 DEF Init, TypeOK, IsFolder
<1> QED
  BY <1>4 DEF Init, IInv, Snapshot, Copied, SeedsAreCollected, Origin, TextsOf

LEMMA CollectStep ==
  ASSUME IInv, NEW last \in BOOLEAN, Collect(last), UNCHANGED <<round, files, removed>>,
         windows' \in 0..MaxWindows, running' \subseteq Workers
  PROVE  IInv'
<1>1. TypeOK /\ Origin
  BY DEF IInv
<1>u. UNCHANGED <<round, queue, live, accum, removed>>
  BY DEF files
<1>c. pc' = "snapshot" /\ dirs' = Workers /\ dir' = NoDir /\ listed' = {} /\ ending' = last
  BY DEF Collect, Goto
<1>2. TypeOK'
  BY <1>1, <1>c, <1>u DEF TypeOK
<1>3. Snapshot' /\ Copied' /\ SeedsAreCollected'
  BY <1>c DEF Snapshot, Copied, SeedsAreCollected
<1>4. Origin'
  BY <1>1, <1>u DEF Origin
<1> QED
  BY <1>2, <1>3, <1>4 DEF IInv

LEMMA OpenDirStep ==
  ASSUME IInv, NEW w \in Workers, OpenDir(w)
  PROVE  IInv'
<1>1. TypeOK /\ Copied /\ Origin
  BY DEF IInv
<1>u. UNCHANGED <<pc, round, windows, running, queue, live, accum, ending, removed>>
  BY DEF OpenDir, files
<1>c. pc = "snapshot" /\ listed = {} /\ dir' = w /\ dirs' = dirs \ {w} /\ listed' = NamesOf(queue[w])
  BY DEF OpenDir
<1>2. NamesOf(queue[w]) \subseteq Names
  BY <1>1, QueueFacts, FileFacts DEF NamesOf
<1>3. TypeOK'
  BY <1>1, <1>2, <1>c, <1>u DEF TypeOK
<1>4. Snapshot'
  BY <1>c, <1>u DEF Snapshot
<1>5. Copied'
  <2> SUFFICES ASSUME pc = "snapshot", ending, NEW v \in Workers \ running, NEW x \in queue[v]
               PROVE  v \in dirs' \/ (v = dir' /\ x.name \in listed') \/ x \in live \/ Shadowed(v, x)
    BY <1>u DEF Copied, Shadowed
  <2>1. v \in dirs \/ x \in live \/ Shadowed(v, x)
    BY <1>1, <1>c DEF Copied
  <2>2. CASE v \in dirs
    BY <1>c, <2>2 DEF NamesOf
  <2> QED
    BY <2>1, <2>2
<1>6. SeedsAreCollected' /\ Origin'
  BY <1>1, <1>c, <1>u DEF SeedsAreCollected, Origin
<1> QED
  BY <1>3, <1>4, <1>5, <1>6 DEF IInv

LEMMA CopyFileStep ==
  ASSUME IInv, NEW n \in Names, CopyFile(n)
  PROVE  IInv'
<1>1. TypeOK /\ Snapshot /\ Copied /\ Origin
  BY DEF IInv
<1>u. UNCHANGED <<pc, round, windows, running, queue, accum, dirs, dir, ending, removed>>
  BY DEF CopyFile
<1>c. pc = "snapshot" /\ n \in listed /\ listed' = listed \ {n}
  BY DEF CopyFile
<1>s. Snapshot'
  BY <1>1, <1>c, <1>u DEF Snapshot
<1>e. SeedsAreCollected'
  BY <1>c, <1>u DEF SeedsAreCollected
<1>2. CASE n \notin NamesOf(queue[dir]) /\ live' = live
  <2>1. TypeOK' /\ Origin'
    BY <1>1, <1>2, <1>c, <1>u DEF TypeOK, Origin
  <2>2. Copied'
    <3> SUFFICES ASSUME ending, NEW v \in Workers \ running, NEW y \in queue[v],
                        v \notin dirs, ~Shadowed(v, y), ~(v = dir /\ y.name \in listed')
                 PROVE  y \in live
      BY <1>2, <1>u DEF Copied, Shadowed
    <3>1. (v = dir /\ y.name \in listed) \/ y \in live
      BY <1>1, <1>c DEF Copied
    <3>2. ~(v = dir /\ y.name \in listed)
      BY <1>2, <1>c DEF NamesOf
    <3> QED
      BY <3>1, <3>2
  <2> QED
    BY <1>s, <1>e, <2>1, <2>2 DEF IInv
<1>3. ASSUME NEW x \in queue[dir], x.name = n, live' = Put(x, live) PROVE IInv'
  <2>1. dir \in Workers /\ IsFolder(queue[dir]) /\ x \in Files /\ IsFolder(live)
    BY <1>1, <1>c, QueueFacts DEF Snapshot, TypeOK
  <2>2. /\ IsFolder(live') /\ x \in live'
        /\ \A y \in live : y \in live' \/ y.name = x.name
        /\ TextsOf(live') \subseteq TextsOf(live) \cup {x.text}
    BY <1>3, <2>1, PutFolder
  <2>3. TypeOK'
    BY <1>1, <2>2, <1>c, <1>u DEF TypeOK
  <2>4. Copied'
    <3> SUFFICES ASSUME ending, NEW v \in Workers \ running, NEW y \in queue[v],
                        v \notin dirs, ~Shadowed(v, y), ~(v = dir /\ y.name \in listed')
                 PROVE  y \in live'
      BY <1>u DEF Copied, Shadowed
    <3>1. (v = dir /\ y.name \in listed) \/ y \in live
      BY <1>1, <1>c DEF Copied
    <3>2. CASE v = dir /\ y.name \in listed
      <4>1. y.name = n
        BY <1>c, <3>2
      <4> QED
        BY <1>3, <2>1, <2>2, <3>2, <4>1 DEF IsFolder
    <3>3. CASE y \in live /\ y.name = x.name
      <4>1. CASE v = dir
        BY <2>1, <2>2, <3>3, <4>1 DEF IsFolder
      <4>2. CASE v # dir
        <5>1. x.text = y.text
          BY <2>1, <3>3, <4>2 DEF Shadowed
        <5>2. y \in Files
          BY <1>1, QueueFacts
        <5> QED
          BY <2>1, <2>2, <3>3, <5>1, <5>2, FileFacts
      <4> QED
        BY <4>1, <4>2
    <3> QED
      BY <2>2, <3>1, <3>2, <3>3
  <2>5. Origin'
    BY <1>1, <2>1, <2>2, <1>u DEF Origin
  <2> QED
    BY <1>s, <1>e, <2>3, <2>4, <2>5 DEF IInv
<1> QED
  BY <1>2, <1>3 DEF CopyFile

LEMMA MergeStep ==
  ASSUME IInv, Merge
  PROVE  IInv'
<1>1. TypeOK /\ Snapshot /\ Copied /\ Origin
  BY DEF IInv
<1>u. UNCHANGED <<round, windows, running, queue, live, dirs, listed, ending, removed>>
  BY DEF Merge
<1>c. /\ pc = "snapshot" /\ listed = {} /\ dirs = {} /\ dir' = NoDir
      /\ accum' = accum \cup TextsOf(live) /\ pc' = IF ending THEN "evaluate" ELSE "fuzz"
  BY DEF Merge, Merged, Goto
<1>2. TextsOf(live) \subseteq Contents \cup Fragments
  BY <1>1, FileFacts DEF TypeOK, IsFolder, TextsOf
<1>3. TypeOK'
  BY <1>1, <1>2, <1>c, <1>u DEF TypeOK
<1>4. Snapshot' /\ Copied'
  BY <1>c, <1>u DEF Snapshot, Copied
<1>5. SeedsAreCollected'
  <2> SUFFICES ASSUME pc' = "evaluate", NEW w \in Workers \ running, NEW x \in queue[w], ~Shadowed(w, x)
               PROVE  x.text \in accum'
    BY <1>u DEF SeedsAreCollected, Shadowed
  <2>1. ending
    BY <1>c
  <2>2. x \in live
    BY <1>1, <1>c, <2>1 DEF Copied
  <2> QED
    BY <1>c, <2>2 DEF TextsOf
<1>6. Origin'
  BY <1>1, <1>c, <1>u DEF Origin
<1> QED
  BY <1>3, <1>4, <1>5, <1>6 DEF IInv

LEMMA NextRoundStep ==
  ASSUME IInv, NEW again \in BOOLEAN, NextRound(again)
  PROVE  IInv'
<1>1. TypeOK /\ Snapshot
  BY DEF IInv
<1>u. UNCHANGED <<dirs, dir, listed>>
  BY DEF NextRound
<1>c. /\ round < Rounds /\ round' = round + 1 /\ windows' = 0 /\ running' = Workers /\ ending' = FALSE
      /\ live' = {} /\ accum' = {} /\ removed' = {} /\ pc' = "fuzz"
      /\ queue' = Empty \/ queue' = queue
  BY DEF NextRound, Goto
<1>2. round' \in 1..Rounds /\ windows' \in 0..MaxWindows
  <2>1. round \in 1..Rounds /\ Rounds \in Nat /\ MaxWindows \in Nat
    BY <1>1, OutputCollectAssumption DEF TypeOK
  <2> QED
    BY <1>c, <2>1
<1>3. queue' \in [Workers -> SUBSET Files] /\ \A w \in Workers : IsFolder(queue'[w])
  <2>1. CASE queue' = Empty
    BY <2>1, EmptyFacts
  <2>2. CASE queue' = queue
    BY <1>1, <2>2 DEF TypeOK
  <2> QED
    BY <1>c, <2>1, <2>2
<1>4. TypeOK'
  BY <1>1, <1>2, <1>3, <1>c, <1>u, EmptyFacts DEF TypeOK
<1>5. Snapshot' /\ Copied' /\ SeedsAreCollected' /\ Origin'
  BY <1>1, <1>c, <1>u DEF Snapshot, Copied, SeedsAreCollected, Origin, TextsOf
<1> QED
  BY <1>4, <1>5 DEF IInv

LEMMA NextIInv == IInv /\ [Next]_vars => IInv'
<1> SUFFICES ASSUME IInv, [Next]_vars PROVE IInv'
  OBVIOUS
<1>t. TypeOK
  BY DEF IInv
<1>1. ASSUME NEW w \in Workers, NEW n \in Names, NEW c \in Contents, Create(w, n, c) PROVE IInv'
  BY <1>1, <1>t, CreateWrites, WriteStep
<1>2. ASSUME NEW w \in Workers, Complete(w) PROVE IInv'
  BY <1>2, <1>t, CompleteWrites, WriteStep
<1>3. CASE Window
  <2>1. windows \in 0..MaxWindows /\ windows < MaxWindows /\ MaxWindows \in Nat /\ windows' = windows + 1
    BY <1>3, <1>t, OutputCollectAssumption DEF Window, TypeOK
  <2>2. windows' \in 0..MaxWindows
    BY <2>1
  <2> QED
    BY <1>3, <1>t, <2>2, CollectStep DEF Window, TypeOK
<1>4. ASSUME NEW deaf \in SUBSET running, Pause(deaf) PROVE IInv'
  BY <1>4, <1>t, CollectStep DEF Pause, TypeOK
<1>5. ASSUME NEW w \in Workers, OpenDir(w) PROVE IInv'
  BY <1>5, OpenDirStep
<1>6. ASSUME NEW n \in Names, CopyFile(n) PROVE IInv'
  BY <1>6, CopyFileStep
<1>7. CASE Merge
  BY <1>7, MergeStep
<1>8. ASSUME NEW again \in BOOLEAN, NextRound(again) PROVE IInv'
  BY <1>8, NextRoundStep
<1>9. ASSUME NEW w \in Workers, Unlink(w) PROVE IInv'
  BY <1>9, UnlinkStep
<1>10. CASE StartAgain
  BY <1>10, StartAgainStep
<1>11. CASE Ended \/ UNCHANGED vars
  BY <1>11 DEF Ended, vars, files, snapshot, IInv, TypeOK, Snapshot, Copied, SeedsAreCollected, Origin,
              Shadowed
<1> QED
  BY <1>1, <1>2, <1>3, <1>4, <1>5, <1>6, <1>7, <1>8, <1>9, <1>10, <1>11 DEF Next

(***************************************************************************)
(* Theorems.                                                               *)
(***************************************************************************)

\* Every variable keeps its type, and neither a queue nor the live folder ever
\* holds two files of one name.
THEOREM TypeCorrect == Spec => []TypeOK
<1>1. IInv => TypeOK
  BY DEF IInv
<1> QED
  BY <1>1, InitIInv, NextIInv, PTL DEF Spec

\* When a round is evaluated, every seed of a paused worker has been collected,
\* whenever it was written, unless another worker has a file of its name, or had
\* one that was removed while some worker could not be paused.
THEOREM CollectedTheorem == Spec => []SeedsAreCollected
<1>1. IInv => SeedsAreCollected
  BY DEF IInv
<1> QED
  BY <1>1, InitIInv, NextIInv, PTL DEF Spec

\* The whole file follows every fragment that a window has collected, unless
\* it was trimmed or wiped in the round, or its worker could not be paused, was
\* paused while writing, or shares the name.
THEOREM FragmentsTheorem == Spec => []FragmentsAreFollowed
<1>1. IInv => FragmentsAreFollowed
  <2> SUFFICES ASSUME IInv, pc = "evaluate", NEW t \in accum \cap Fragments,
                      -t \notin accum \cup TextsOf(removed)
               PROVE  \E w \in Workers : \E x \in queue[w] :
                        x.text \in {t, -t} /\ (w \in running \/ x.text = t \/ Shadowed(w, x))
    BY DEF FragmentsAreFollowed
  <2>1. PICK w \in Workers : \E x \in queue[w] : x.text \in {t, -t}
    BY DEF IInv, Origin
  <2>2. PICK x \in queue[w] : x.text \in {t, -t}
    BY <2>1
  <2>3. w \in running \/ x.text \in accum \/ Shadowed(w, x)
    BY DEF IInv, SeedsAreCollected
  <2> QED
    BY <2>2, <2>3
<1> QED
  BY <1>1, InitIInv, NextIInv, PTL DEF Spec
=============================================================================
