------------------------ MODULE BatchEvaluatorProofs ------------------------
(***************************************************************************)
(* Safety of run_batch for every number of seeds, edges and jobs, with and *)
(* without a timeout: the resources of a child, the exact counts, and the  *)
(* second stage that replays only the seeds with new edges.                *)
(***************************************************************************)
EXTENDS BatchEvaluator, FiniteSetTheorems, TLAPS

\* The seeds and the edges are numbers, finitely many.
LEMMA SeedsAreNumbers ==
  /\ NumSeeds \in Nat /\ NumEdges \in Nat
  /\ IsFiniteSet(Seeds) /\ Seeds \subseteq Int
  /\ \A s : s \in Seeds <=> (s \in Int /\ 1 <= s /\ s <= NumSeeds)
<1>1. NumSeeds \in Nat /\ NumEdges \in Nat
  BY BatchAssumption
<1>2. IsFiniteSet(1..NumSeeds)
  BY <1>1, FS_Interval
<1> QED
  BY <1>1, <1>2 DEF Seeds

(***************************************************************************)
(* Types.                                                                  *)
(***************************************************************************)

LEMMA TypeInit == Init => TypeOK
<1> SUFFICES ASSUME Init PROVE TypeOK
  OBVIOUS
<1>1. timeout \in BOOLEAN /\ lostReplay \in BOOLEAN
  BY BatchAssumption, Zenon DEF Init
<1>2. nextSeed \in 1..(NumSeeds + 1) /\ cursor \in 0..NumSeeds
  BY SeedsAreNumbers DEF Init
<1>3. /\ behaviour \in [Seeds -> Behaviours] /\ edgesOf \in [Seeds -> SUBSET Edges]
      /\ child \in [Seeds -> {"none", "running", "ok", "bad"}]
      /\ edgeCounts \in [Edges -> Nat] /\ pathCounts \in [SUBSET Edges -> Nat]
  BY DEF Init, Behaviours
<1> QED
  BY <1>1, <1>2, <1>3 DEF Init, TypeOK

\* A merged report leaves counts, sets of edges and sets of seeds.
LEMMA MergeType ==
  ASSUME TypeOK, NEW s \in Seeds, MergeReport(s)
  PROVE  /\ edgeCounts' \in [Edges -> Nat] /\ pathCounts' \in [SUBSET Edges -> Nat]
         /\ seen' \subseteq Edges /\ mapping' \subseteq Seeds /\ cached' \subseteq Seeds
<1>1. edgesOf[s] \in SUBSET Edges
  BY DEF TypeOK
<1>2. edgeCounts' \in [Edges -> Nat]
  BY DEF TypeOK, MergeReport
<1>3. pathCounts' \in [SUBSET Edges -> Nat]
  BY <1>1 DEF TypeOK, MergeReport
<1> QED
  BY <1>1, <1>2, <1>3 DEF TypeOK, MergeReport

\* finalize_task keeps the types, whichever way the child has ended.
LEMMA FinalizeType ==
  ASSUME TypeOK, NEW s \in Seeds, Finalize(s)
  PROVE  /\ edgeCounts' \in [Edges -> Nat] /\ pathCounts' \in [SUBSET Edges -> Nat]
         /\ seen' \subseteq Edges /\ mapping' \subseteq Seeds /\ cached' \subseteq Seeds
         /\ processed' \in Nat /\ timedOut' \in Nat /\ failed' \in Nat
         /\ temp' \subseteq Seeds
<1>1. temp' \subseteq Seeds /\ timedOut' \in Nat
  BY DEF Finalize, TypeOK
<1>2. CASE child[s] = "ok"
  BY <1>1, <1>2, MergeType DEF Finalize, TypeOK
<1>3. CASE child[s] # "ok"
  BY <1>1, <1>3 DEF Finalize, TypeOK, merge
<1> QED
  BY <1>2, <1>3

LEMMA TypeStep == TypeOK /\ [Next]_vars => TypeOK'
<1> SUFFICES ASSUME TypeOK, [Next]_vars PROVE TypeOK'
  OBVIOUS
<1> USE DEF input, os, merge, counters, stage2, Goto, Erase
<1>1. ASSUME NEW b \in Behaviours, Launch(b) PROVE TypeOK'
  <2>1. nextSeed \in Seeds /\ nextSeed + 1 \in 1..(NumSeeds + 1)
    BY <1>1, SeedsAreNumbers DEF Launch, CanLaunch, TypeOK
  <2> QED
    BY <1>1, <2>1 DEF Launch, TypeOK
<1>2. CASE LaunchFail
  <2>1. nextSeed + 1 \in 1..(NumSeeds + 1)
    BY <1>2, SeedsAreNumbers DEF LaunchFail, CanLaunch, TypeOK
  <2> QED
    BY <1>2, <2>1 DEF LaunchFail, TypeOK
<1>3. CASE LaunchDone
  BY <1>3, SeedsAreNumbers DEF LaunchDone, TypeOK
<1>4. ASSUME NEW s \in Seeds, ScanExited(s) PROVE TypeOK'
  <2>1. Finalize(s)
    BY <1>4 DEF ScanExited
  <2> QED
    BY <1>4, <2>1, FinalizeType DEF ScanExited, TypeOK
<1>5. ASSUME NEW s \in Seeds, ScanRunning(s) PROVE TypeOK'
  <2>1. s \in 0..NumSeeds
    BY SeedsAreNumbers
  <2> QED
    BY <1>5, <2>1 DEF ScanRunning, TypeOK
<1>6. CASE Kill
  <2>1. cursor \in Seeds => child[cursor] \in {"none", "running", "ok", "bad"}
    BY DEF TypeOK
  <2>2. child' \in [Seeds -> {"none", "running", "ok", "bad"}]
    BY <1>6, <2>1 DEF Kill, TypeOK
  <2>3. overdue \subseteq Seeds /\ cursor \in overdue
    BY <1>6 DEF Kill, Overdue, TypeOK
  <2> QED
    BY <1>6, <2>2, <2>3 DEF Kill, TypeOK
<1>7. CASE StillInTime
  BY <1>7 DEF StillInTime, TypeOK
<1>8. CASE ScanDone
  BY <1>8, SeedsAreNumbers DEF ScanDone, TypeOK
<1>9. CASE Symbolize
  <2>1. PICK gone \in SUBSET mapping : named' = Harvested(mapping \ gone) /\ lostReplay' = (gone # {})
    BY <1>9 DEF Symbolize
  <2>2. \A s \in mapping : edgesOf[s] \subseteq Edges
    BY DEF TypeOK
  <2>3. named' \subseteq Edges /\ lostReplay' \in BOOLEAN
    BY <2>1, <2>2 DEF Harvested
  <2> QED
    BY <1>9, <2>3 DEF Symbolize, TypeOK
<1>10. CASE WriteReport
  BY <1>10 DEF WriteReport, TypeOK
<1>11. CASE Returned
  BY <1>11 DEF Returned, vars, TypeOK
<1>12. ASSUME NEW s \in Seeds, ChildExit(s) PROVE TypeOK'
  BY <1>12 DEF ChildExit, TypeOK
<1>13. ASSUME NEW s \in Seeds, Expire(s) PROVE TypeOK'
  BY <1>13 DEF Expire, TypeOK
<1>14. CASE UNCHANGED vars
  BY <1>14 DEF vars, TypeOK
<1> QED
  BY <1>1, <1>2, <1>3, <1>4, <1>5, <1>6, <1>7, <1>8, <1>9, <1>10, <1>11, <1>12, <1>13, <1>14
     DEF Next, Parent

\* The steps of run_batch, its children and the clock keep every variable in its type.
THEOREM TypeCorrect == Spec => []TypeOK
BY TypeInit, TypeStep, PTL DEF Spec

(***************************************************************************)
(* The children.  TasksOwnTheirResources is not inductive alone: that the  *)
(* child killed at the cursor is one of the tasks, that a seed not yet     *)
(* launched has no child, and that a child is reaped only when it has      *)
(* ended are what keeps a task from being finished twice.                  *)
(***************************************************************************)

\* What is known of a child at every step.
Children ==
  /\ \A s \in Seeds : s >= nextSeed => child[s] = "none"
  /\ \A s \in Seeds : child[s] = "ok" => behaviour[s] = "ok"
  /\ \A s \in reaped : child[s] \in {"ok", "bad"}
  /\ killed \subseteq reaped

\* The scan holds a task, and leaves only when there is none.
Scan ==
  /\ pc = "check" => cursor \in tasks
  /\ pc \in {"symbolize", "report", "done"} => tasks = {}

\* The merged state describes exactly the finished children, and the mapping
\* seeds between them have every edge that was seen.
Merged ==
  /\ mapping \subseteq Finished /\ cached \subseteq Finished
  /\ \A e \in seen : \E s \in mapping : e \in edgesOf[s]
  /\ \A s \in Finished : edgesOf[s] \subseteq seen

\* The names that the second stage has found.
Names ==
  pc \in {"report", "done"} /\ ~lostReplay => named = Harvested(mapping)

Resources == TypeOK /\ TasksOwnTheirResources /\ Children /\ Scan

IInv ==
  /\ Resources
  /\ EverySeedIsCounted /\ CountsAreSeedHits
  /\ Merged /\ Names

LEMMA ResourcesInit == Init => Resources
<1> SUFFICES ASSUME Init PROVE Resources
  OBVIOUS
<1>1. TypeOK
  BY TypeInit
<1> QED
  BY <1>1 DEF Init, Resources, TasksOwnTheirResources, Children, Scan

\* The task under the scan is a child that nobody has waited for.
LEMMA TaskIsUnreaped ==
  ASSUME Resources, NEW s \in Seeds, s \in tasks
  PROVE  child[s] # "none" /\ s \notin reaped /\ s \notin killed
BY DEF Resources, TasksOwnTheirResources, Children

LEMMA ResourcesStep == Resources /\ [Next]_vars => Resources'
<1> SUFFICES ASSUME Resources, [Next]_vars PROVE Resources'
  OBVIOUS
<1>t. TypeOK /\ TypeOK'
  BY TypeStep DEF Resources
<1> USE DEF input, os, merge, counters, stage2, Goto, Erase
<1>1. ASSUME NEW b \in Behaviours, Launch(b) PROVE Resources'
  <2>1. nextSeed \in Seeds /\ nextSeed \in Int
    BY <1>1, <1>t, SeedsAreNumbers DEF Launch, CanLaunch, TypeOK
  <2>2. child[nextSeed] = "none" /\ nextSeed \notin reaped /\ nextSeed \notin tasks
    BY <2>1 DEF Resources, Children, TasksOwnTheirResources
  <2>3. TasksOwnTheirResources'
    BY <1>1, <1>t, <2>1, <2>2 DEF Launch, Resources, TasksOwnTheirResources, TypeOK
  <2>4. (\A s \in Seeds : s >= nextSeed => child[s] = "none")'
    <3> SUFFICES ASSUME NEW s \in Seeds, s >= nextSeed + 1 PROVE child'[s] = "none"
      BY <1>1 DEF Launch
    <3>1. s # nextSeed /\ s >= nextSeed
      BY <2>1, SeedsAreNumbers
    <3> QED
      BY <1>1, <1>t, <3>1 DEF Launch, Resources, Children, TypeOK
  <2>5. Children'
    BY <1>1, <1>t, <2>1, <2>2, <2>4 DEF Launch, Resources, Children, TypeOK
  <2> QED
    BY <1>1, <1>t, <2>3, <2>5 DEF Launch, CanLaunch, Resources, Scan
<1>2. CASE LaunchFail
  <2>1. \A s \in Seeds : s >= nextSeed + 1 => s >= nextSeed
    BY <1>t, SeedsAreNumbers DEF TypeOK
  <2> QED
    BY <1>2, <1>t, <2>1
       DEF LaunchFail, CanLaunch, Resources, TasksOwnTheirResources, Children, Scan
<1>3. CASE LaunchDone
  BY <1>3, <1>t DEF LaunchDone, Resources, TasksOwnTheirResources, Children, Scan
<1>4. ASSUME NEW s \in Seeds, ScanExited(s) PROVE Resources'
  <2>1. s \in tasks
    BY <1>4 DEF ScanExited, IsCurrent, Ahead
  <2>2. child[s] \in {"ok", "bad"} /\ temp' = temp \ {s}
    BY <1>4, <1>t, <2>1, TaskIsUnreaped DEF ScanExited, Finalize, TypeOK
  <2>3. TasksOwnTheirResources'
    BY <1>4, <2>2 DEF ScanExited, Resources, TasksOwnTheirResources
  <2>4. Children' /\ Scan'
    BY <1>4, <2>2 DEF ScanExited, Resources, Children, Scan
  <2> QED
    BY <1>t, <2>3, <2>4 DEF Resources
<1>5. ASSUME NEW s \in Seeds, ScanRunning(s) PROVE Resources'
  BY <1>5, <1>t DEF ScanRunning, IsCurrent, Ahead, Resources, TasksOwnTheirResources,
                    Children, Scan
<1>6. CASE Kill
  <2>1. cursor \in Seeds /\ cursor \in tasks
    BY <1>6, <1>t DEF Kill, Resources, Scan, TypeOK
  <2>2. child[cursor] # "none" /\ cursor \notin reaped
    BY <2>1, TaskIsUnreaped
  <2>4. \A s \in Seeds : s # cursor => child'[s] = child[s]
    BY <1>6, <1>t DEF Kill, TypeOK
  <2>5. child'[cursor] \in {"ok", "bad"} /\ (child'[cursor] = "ok" => child[cursor] = "ok")
    BY <1>6, <1>t, <2>1, <2>2 DEF Kill, TypeOK
  <2>6. TasksOwnTheirResources'
    BY <1>6, <2>4, <2>5 DEF Kill, Resources, TasksOwnTheirResources
  <2>7. Children'
    BY <1>6, <1>t, <2>2, <2>4, <2>5 DEF Kill, Resources, Children, TypeOK
  <2> QED
    BY <1>6, <1>t, <2>6, <2>7 DEF Kill, Resources, Scan
<1>7. CASE StillInTime
  BY <1>7, <1>t DEF StillInTime, Resources, TasksOwnTheirResources, Children, Scan
<1>8. CASE ScanDone
  BY <1>8, <1>t DEF ScanDone, Resources, TasksOwnTheirResources, Children, Scan
<1>9. CASE Symbolize
  BY <1>9, <1>t DEF Symbolize, Resources, TasksOwnTheirResources, Children, Scan
<1>10. CASE WriteReport
  BY <1>10, <1>t DEF WriteReport, Resources, TasksOwnTheirResources, Children, Scan
<1>11. CASE Returned
  BY <1>11, <1>t DEF Returned, vars, Resources, TasksOwnTheirResources, Children, Scan
<1>12. ASSUME NEW s \in Seeds, ChildExit(s) PROVE Resources'
  <2>1. child[s] = "running" /\ child'[s] \in {"ok", "bad"}
        /\ (child'[s] = "ok" => behaviour[s] = "ok")
    BY <1>12, <1>t DEF ChildExit, TypeOK
  <2>2. \A r \in Seeds : r # s => child'[r] = child[r]
    BY <1>12, <1>t DEF ChildExit, TypeOK
  <2>3. /\ UNCHANGED <<pc, behaviour, nextSeed, tasks, cursor, reaped, killed, temp>>
    BY <1>12 DEF ChildExit
  <2>4. TasksOwnTheirResources'
    BY <2>1, <2>2, <2>3 DEF Resources, TasksOwnTheirResources
  <2>5. Children'
    BY <1>t, <2>1, <2>2, <2>3 DEF Resources, Children, TypeOK
  <2> QED
    BY <1>t, <2>3, <2>4, <2>5 DEF Resources, Scan
<1>13. ASSUME NEW s \in Seeds, Expire(s) PROVE Resources'
  BY <1>13, <1>t DEF Expire, Resources, TasksOwnTheirResources, Children, Scan
<1>14. CASE UNCHANGED vars
  BY <1>14, <1>t DEF vars, Resources, TasksOwnTheirResources, Children, Scan
<1> QED
  BY <1>1, <1>2, <1>3, <1>4, <1>5, <1>6, <1>7, <1>8, <1>9, <1>10, <1>11, <1>12, <1>13, <1>14
     DEF Next, Parent

LEMMA ResourcesInvariant == Spec => []Resources
BY ResourcesInit, ResourcesStep, PTL DEF Spec

\* active_tasks holds exactly the children that are not waited for and the
\* temporary reports: no zombie, no orphan, no file left behind.
THEOREM ResourcesTheorem == Spec => []TasksOwnTheirResources
<1>1. Resources => TasksOwnTheirResources
  BY DEF Resources
<1> QED
  BY <1>1, ResourcesInvariant, PTL

(***************************************************************************)
(* The counts.  A step either finishes nobody and leaves every count, or   *)
(* it merges the report of one more child, which no count has included.    *)
(***************************************************************************)

\* The finished children and their reports stay as they are.
SameFinished ==
  /\ Finished' = Finished
  /\ \A s \in Finished : edgesOf'[s] = edgesOf[s]

\* Only the scan of an exited child touches what is merged.
LEMMA FinishedChange ==
  ASSUME Resources, [Next]_vars,
         \A s \in Seeds : ~(ScanExited(s) /\ child[s] = "ok")
  PROVE  /\ SameFinished
         /\ UNCHANGED <<edgeCounts, pathCounts, seen, mapping, cached, processed>>
<1>t. TypeOK
  BY DEF Resources
<1> USE DEF input, os, merge, counters, stage2, Goto, Erase
<1>a. ASSUME UNCHANGED <<reaped, killed, child, edgesOf>> PROVE SameFinished
  BY <1>a DEF SameFinished, Finished
<1>1. ASSUME NEW b \in Behaviours, Launch(b)
      PROVE  SameFinished /\ UNCHANGED <<edgeCounts, pathCounts, seen, mapping, cached, processed>>
  <2>1. nextSeed \in Seeds
    BY <1>1, <1>t, SeedsAreNumbers DEF Launch, CanLaunch, TypeOK
  <2>2. child[nextSeed] = "none" /\ nextSeed \notin reaped
    BY <2>1, <1>t, SeedsAreNumbers DEF Resources, Children, TypeOK
  <2>3. Finished' = Finished
    BY <1>1, <1>t, <2>2 DEF Launch, Finished, TypeOK
  <2> QED
    BY <1>1, <2>3 DEF Launch, SameFinished
<1>4. ASSUME NEW s \in Seeds, ScanExited(s)
      PROVE  SameFinished /\ UNCHANGED <<edgeCounts, pathCounts, seen, mapping, cached, processed>>
  <2>1. child[s] # "ok"
    BY <1>4
  <2>2. UNCHANGED <<edgeCounts, pathCounts, seen, mapping, cached, processed>>
    BY <1>4, <2>1 DEF ScanExited, Finalize
  <2>3. Finished' = Finished
    BY <1>4, <2>1 DEF ScanExited, Finished
  <2> QED
    BY <1>4, <2>2, <2>3 DEF ScanExited, SameFinished
<1>6. CASE Kill
  <2>1. cursor \in Seeds /\ cursor \notin reaped
    BY <1>6, <1>t, TaskIsUnreaped DEF Kill, Resources, Scan, TypeOK
  <2>2. Finished' = Finished
    BY <1>6, <1>t, <2>1 DEF Kill, Finished, TypeOK
  <2> QED
    BY <1>6, <2>2 DEF Kill, SameFinished
<1>12. ASSUME NEW s \in Seeds, ChildExit(s)
       PROVE  SameFinished /\ UNCHANGED <<edgeCounts, pathCounts, seen, mapping, cached, processed>>
  <2>1. s \notin reaped
    BY <1>12 DEF ChildExit, Resources, Children
  <2>2. \A r \in Seeds : r # s => child'[r] = child[r] /\ edgesOf'[r] = edgesOf[r]
    BY <1>12, <1>t DEF ChildExit, TypeOK
  <2>3. reaped' = reaped /\ killed' = killed /\ reaped \subseteq Seeds
    BY <1>12, <1>t DEF ChildExit, TypeOK
  <2>4. Finished' = Finished
    BY <2>1, <2>2, <2>3 DEF Finished
  <2>5. SameFinished
    BY <2>1, <2>2, <2>3, <2>4 DEF Finished, SameFinished
  <2> QED
    BY <1>12, <2>5 DEF ChildExit
<1>15. CASE LaunchFail \/ LaunchDone \/ StillInTime \/ ScanDone \/ Symbolize \/ WriteReport
  BY <1>15, <1>a DEF LaunchFail, LaunchDone, StillInTime, ScanDone, Symbolize, WriteReport
<1>16. ASSUME NEW s \in Seeds, ScanRunning(s) \/ Expire(s)
       PROVE  SameFinished /\ UNCHANGED <<edgeCounts, pathCounts, seen, mapping, cached, processed>>
  BY <1>16, <1>a DEF ScanRunning, Expire
<1>17. CASE Returned \/ UNCHANGED vars
  BY <1>17, <1>a DEF Returned, vars
<1> QED
  BY <1>1, <1>4, <1>6, <1>12, <1>15, <1>16, <1>17 DEF Next, Parent

\* The scan of a child that ended well adds exactly this child.
LEMMA OneMoreFinished ==
  ASSUME Resources, NEW s \in Seeds, ScanExited(s), child[s] = "ok"
  PROVE  /\ s \notin Finished /\ Finished' = Finished \cup {s}
         /\ edgesOf' = edgesOf /\ MergeReport(s) /\ processed' = processed + 1
<1>1. s \in tasks
  BY DEF ScanExited, IsCurrent, Ahead
<1>2. s \notin reaped /\ s \notin killed
  BY <1>1, TaskIsUnreaped
<1> QED
  BY <1>2 DEF ScanExited, Finalize, Finished, input

\* The number of the members of S that have property P, one member more.
LEMMA CountMore ==
  ASSUME NEW S, IsFiniteSet(S), NEW x, x \notin S
  PROVE  IsFiniteSet(S \cup {x}) /\ Cardinality(S \cup {x}) = Cardinality(S) + 1
         /\ Cardinality(S) \in Nat
BY FS_AddElement, FS_CardinalityType

LEMMA FinishedIsFinite ==
  ASSUME TypeOK
  PROVE  /\ IsFiniteSet(Finished) /\ Finished \subseteq Seeds
         /\ \A T : T \subseteq Finished => IsFiniteSet(T)
<1>1. Finished \subseteq Seeds
  BY DEF Finished, TypeOK
<1> QED
  BY <1>1, FS_Subset, SeedsAreNumbers

LEMMA HitsStep ==
  ASSUME Resources, CountsAreSeedHits, [Next]_vars
  PROVE  CountsAreSeedHits'
<1>t. TypeOK
  BY DEF Resources
<1>1. CASE \A s \in Seeds : ~(ScanExited(s) /\ child[s] = "ok")
  <2>1. SameFinished /\ UNCHANGED <<edgeCounts, pathCounts, processed>>
    BY <1>1, FinishedChange
  <2>2. \A e \in Edges : {s \in Finished' : e \in edgesOf'[s]} = {s \in Finished : e \in edgesOf[s]}
    BY <2>1 DEF SameFinished
  <2>3. \A p \in SUBSET Edges :
          {s \in Finished' : edgesOf'[s] = p} = {s \in Finished : edgesOf[s] = p}
    BY <2>1 DEF SameFinished
  <2>4. Finished' = Finished
    BY <2>1 DEF SameFinished
  <2> QED
    BY <2>1, <2>2, <2>3, <2>4 DEF CountsAreSeedHits
<1>2. ASSUME NEW s \in Seeds, ScanExited(s), child[s] = "ok" PROVE CountsAreSeedHits'
  <2>1. /\ s \notin Finished /\ Finished' = Finished \cup {s}
        /\ edgesOf' = edgesOf /\ MergeReport(s) /\ processed' = processed + 1
    BY <1>2, OneMoreFinished
  <2>2. processed' = Cardinality(Finished')
    BY <1>t, <2>1, CountMore, FinishedIsFinite DEF CountsAreSeedHits
  <2>3. ASSUME NEW e \in Edges
        PROVE  edgeCounts'[e] = Cardinality({r \in Finished' : e \in edgesOf'[r]})
    <3> DEFINE H == {r \in Finished : e \in edgesOf[r]}
    <3>1. IsFiniteSet(H) /\ s \notin H /\ edgeCounts[e] = Cardinality(H)
      BY <1>t, <2>1, FinishedIsFinite DEF CountsAreSeedHits
    <3>2. edgeCounts'[e] = edgeCounts[e] + IF e \in edgesOf[s] THEN 1 ELSE 0
      BY <2>1 DEF MergeReport
    <3>3. CASE e \in edgesOf[s]
      <4>1. {r \in Finished' : e \in edgesOf'[r]} = H \cup {s}
        BY <2>1, <3>3
      <4> HIDE DEF H
      <4> QED
        BY <3>1, <3>2, <3>3, <4>1, CountMore
    <3>4. CASE e \notin edgesOf[s]
      <4>1. {r \in Finished' : e \in edgesOf'[r]} = H
        BY <2>1, <3>4
      <4>2. edgeCounts[e] \in Nat
        BY <1>t DEF TypeOK
      <4> HIDE DEF H
      <4>3. edgeCounts'[e] = edgeCounts[e]
        BY <3>2, <3>4, <4>2
      <4> QED
        BY <3>1, <4>1, <4>3
    <3> QED
      BY <3>3, <3>4
  <2>4. ASSUME NEW p \in SUBSET Edges
        PROVE  pathCounts'[p] = Cardinality({r \in Finished' : edgesOf'[r] = p})
    <3> DEFINE H == {r \in Finished : edgesOf[r] = p}
    <3>1. IsFiniteSet(H) /\ s \notin H /\ pathCounts[p] = Cardinality(H)
      BY <1>t, <2>1, FinishedIsFinite DEF CountsAreSeedHits
    <3>2. pathCounts' = [pathCounts EXCEPT ![edgesOf[s]] = @ + 1]
      BY <2>1 DEF MergeReport
    <3>3. CASE edgesOf[s] = p
      <4>1. {r \in Finished' : edgesOf'[r] = p} = H \cup {s}
        BY <2>1, <3>3
      <4>2. pathCounts'[p] = pathCounts[p] + 1
        BY <1>t, <3>2, <3>3 DEF TypeOK
      <4> HIDE DEF H
      <4> QED
        BY <3>1, <4>1, <4>2, CountMore
    <3>4. CASE edgesOf[s] # p
      <4>1. {r \in Finished' : edgesOf'[r] = p} = H
        BY <2>1, <3>4
      <4>2. pathCounts'[p] = pathCounts[p]
        BY <1>t, <3>2, <3>4 DEF TypeOK
      <4> HIDE DEF H
      <4> QED
        BY <3>1, <4>1, <4>2
    <3> QED
      BY <3>3, <3>4
  <2> QED
    BY <2>2, <2>3, <2>4 DEF CountsAreSeedHits
<1> QED
  BY <1>1, <1>2

\* The sum of the counters and the tasks moves with the index.
LEMMA Balance ==
  ASSUME processed \in Int, timedOut \in Int, failed \in Int, Cardinality(tasks) \in Int,
         nextSeed \in Int, EverySeedIsCounted,
         NEW p \in {0, 1}, NEW t \in {0, 1}, NEW f \in {0, 1}, NEW c \in {-1, 0, 1}, NEW n \in {0, 1},
         processed' = processed + p, timedOut' = timedOut + t, failed' = failed + f,
         Cardinality(tasks') = Cardinality(tasks) + c, nextSeed' = nextSeed + n,
         p + t + f + c = n
  PROVE  EverySeedIsCounted'
<1>1. /\ processed' + timedOut' = processed + timedOut + (p + t)
      /\ processed + timedOut \in Int /\ processed' + timedOut' \in Int /\ p + t \in Int
  OBVIOUS
<1>2. failed' + Cardinality(tasks') = failed + Cardinality(tasks) + (f + c)
  OBVIOUS
<1> QED
  BY <1>1, <1>2 DEF EverySeedIsCounted

\* EverySeedIsCounted: a launched seed is a task, and a task ends in one counter.
LEMMA TotalStep ==
  ASSUME Resources, EverySeedIsCounted, [Next]_vars
  PROVE  EverySeedIsCounted'
<1>t. TypeOK
  BY DEF Resources
<1>n. /\ processed \in Nat /\ timedOut \in Nat /\ failed \in Nat /\ nextSeed \in Int
      /\ tasks \subseteq Seeds
  BY <1>t, SeedsAreNumbers DEF TypeOK
<1>c. IsFiniteSet(tasks) /\ Cardinality(tasks) \in Nat
  BY <1>n, SeedsAreNumbers, FS_Subset, FS_CardinalityType
<1> USE DEF input, os, merge, counters, stage2, Goto, Erase
<1>1. ASSUME NEW b \in Behaviours, Launch(b) PROVE EverySeedIsCounted'
  <2>1. nextSeed \in Seeds
    BY <1>1, <1>t, SeedsAreNumbers DEF Launch, CanLaunch, TypeOK
  <2>2. nextSeed \notin tasks
    BY <1>n, <2>1 DEF Resources, Children, TasksOwnTheirResources
  <2>3. Cardinality(tasks') = Cardinality(tasks) + 1
    BY <1>1, <1>c, <2>2, CountMore DEF Launch
  <2>4. UNCHANGED <<processed, timedOut, failed>> /\ nextSeed' = nextSeed + 1
    BY <1>1 DEF Launch
  <2> QED
    BY <1>n, <1>c, <2>3, <2>4 DEF EverySeedIsCounted
<1>2. CASE LaunchFail
  <2>1. /\ UNCHANGED <<processed, timedOut, tasks>> /\ failed' = failed + 1
        /\ nextSeed' = nextSeed + 1
    BY <1>2 DEF LaunchFail
  <2>2. /\ processed' = processed + 0 /\ timedOut' = timedOut + 0
        /\ Cardinality(tasks') = Cardinality(tasks) + 0
    BY <1>n, <1>c, <2>1
  <2>3. 0 + 0 + 1 + 0 = 1
    OBVIOUS
  <2> QED
    BY <1>n, <1>c, <2>1, <2>2, <2>3, Balance
<1>a. ASSUME NEW s \in Seeds, s \in tasks, tasks' = tasks \ {s}
      PROVE  Cardinality(tasks') = Cardinality(tasks) - 1
  BY <1>a, <1>c, FS_RemoveElement
<1>4. ASSUME NEW s \in Seeds, ScanExited(s) PROVE EverySeedIsCounted'
  <2>1. s \in tasks
    BY <1>4 DEF ScanExited, IsCurrent, Ahead
  <2>2. Cardinality(tasks') = Cardinality(tasks) - 1
    BY <1>4, <1>a, <2>1 DEF ScanExited
  <2>3. /\ timedOut' = timedOut + 0 /\ nextSeed' = nextSeed + 0
        /\ Cardinality(tasks') = Cardinality(tasks) + (-1)
    BY <1>4, <1>n, <1>c, <2>2 DEF ScanExited, Finalize
  <2>4. 1 + 0 + 0 + (-1) = 0 /\ 0 + 0 + 1 + (-1) = 0
    OBVIOUS
  <2>5. CASE child[s] = "ok"
    <3>1. processed' = processed + 1 /\ failed' = failed + 0
      BY <1>4, <1>n, <2>5 DEF ScanExited, Finalize
    <3> QED
      BY <1>n, <1>c, <2>3, <2>4, <3>1, Balance
  <2>6. CASE child[s] # "ok"
    <3>1. processed' = processed + 0 /\ failed' = failed + 1
      BY <1>4, <1>n, <2>6 DEF ScanExited, Finalize
    <3> QED
      BY <1>n, <1>c, <2>3, <2>4, <3>1, Balance
  <2> QED
    BY <2>5, <2>6
<1>6. CASE Kill
  <2>1. cursor \in Seeds /\ cursor \in tasks
    BY <1>6, <1>t DEF Kill, Resources, Scan, TypeOK
  <2>2. Cardinality(tasks') = Cardinality(tasks) - 1
    BY <1>6, <1>a, <2>1 DEF Kill
  <2>3. timedOut' = timedOut + 1 /\ UNCHANGED <<processed, failed, nextSeed>>
    BY <1>6 DEF Kill
  <2> QED
    BY <1>n, <1>c, <2>2, <2>3 DEF EverySeedIsCounted
<1>15. CASE \/ LaunchDone \/ StillInTime \/ ScanDone \/ Symbolize \/ WriteReport
  BY <1>15 DEF LaunchDone, StillInTime, ScanDone, Symbolize, WriteReport, EverySeedIsCounted
<1>16. ASSUME NEW s \in Seeds, ScanRunning(s) \/ ChildExit(s) \/ Expire(s)
       PROVE  EverySeedIsCounted'
  BY <1>16 DEF ScanRunning, ChildExit, Expire, EverySeedIsCounted
<1>17. CASE Returned \/ UNCHANGED vars
  BY <1>17 DEF Returned, vars, EverySeedIsCounted
<1> QED
  BY <1>1, <1>2, <1>4, <1>6, <1>15, <1>16, <1>17 DEF Next, Parent

\* The mapping seeds keep covering what was seen.
LEMMA MergedStep ==
  ASSUME Resources, Merged, [Next]_vars
  PROVE  Merged'
<1>1. CASE \A s \in Seeds : ~(ScanExited(s) /\ child[s] = "ok")
  <2>1. SameFinished /\ UNCHANGED <<seen, mapping, cached>>
    BY <1>1, FinishedChange
  <2> QED
    BY <2>1 DEF Merged, SameFinished
<1>2. ASSUME NEW s \in Seeds, ScanExited(s), child[s] = "ok" PROVE Merged'
  <2>1. /\ s \notin Finished /\ Finished' = Finished \cup {s}
        /\ edgesOf' = edgesOf /\ MergeReport(s)
    BY <1>2, OneMoreFinished
  <2>2. mapping' \subseteq Finished' /\ cached' \subseteq Finished' /\ mapping \subseteq mapping'
    BY <2>1 DEF Merged, MergeReport
  <2>3. ASSUME NEW e \in seen' PROVE \E r \in mapping' : e \in edgesOf[r]
    <3>1. CASE e \in seen
      BY <2>2, <3>1 DEF Merged
    <3>2. CASE e \notin seen
      <4>1. e \in edgesOf[s] \ seen
        BY <2>1, <3>2 DEF MergeReport
      <4>2. s \in mapping'
        BY <2>1, <4>1 DEF MergeReport, Chosen
      <4> QED
        BY <4>1, <4>2
    <3> QED
      BY <3>1, <3>2
  <2>4. \A r \in Finished' : edgesOf[r] \subseteq seen'
    BY <2>1 DEF Merged, MergeReport
  <2> QED
    BY <2>1, <2>2, <2>3, <2>4 DEF Merged
<1> QED
  BY <1>1, <1>2

\* The names are written once, after the last merge.
LEMMA NamesStep ==
  ASSUME Resources, Names, [Next]_vars
  PROVE  Names'
<1> USE DEF input, os, merge, counters, stage2, Goto
<1>1. CASE Symbolize
  <2>1. PICK gone \in SUBSET mapping : named' = Harvested(mapping \ gone) /\ lostReplay' = (gone # {})
    BY <1>1 DEF Symbolize
  <2>2. ~lostReplay' => named' = Harvested(mapping)
    <3>1. CASE gone = {}
      <4>1. mapping \ gone = mapping
        BY <3>1
      <4> QED
        BY <2>1, <4>1
    <3> QED
      BY <2>1, <3>1
  <2>3. UNCHANGED <<mapping, edgesOf>>
    BY <1>1 DEF Symbolize
  <2> QED
    BY <2>2, <2>3 DEF Names, Harvested
<1>2. CASE pc \in {"report", "done"} /\ ~Symbolize
  <2>1. UNCHANGED <<lostReplay, named, mapping>>
    BY <1>2 DEF Next, Parent, Launch, LaunchFail, CanLaunch, LaunchDone, ScanExited, ScanRunning,
                Kill, StillInTime, ScanDone, WriteReport, Returned, ChildExit, Expire, vars
  <2>2. pc' \in {"report", "done"}
    BY <1>2 DEF Next, Parent, Launch, LaunchFail, CanLaunch, LaunchDone, ScanExited, ScanRunning,
                Kill, StillInTime, ScanDone, WriteReport, Returned, ChildExit, Expire, vars
  <2>3. edgesOf' = edgesOf
    <3>1. \A s \in Seeds : child[s] = "running" => s \in tasks
      BY DEF Resources, TasksOwnTheirResources, Children
    <3>2. tasks = {}
      BY <1>2 DEF Resources, Scan
    <3>3. \A s \in Seeds : ~ChildExit(s)
      BY <3>1, <3>2 DEF ChildExit
    <3> QED
      BY <1>2, <3>3
         DEF Next, Parent, Launch, LaunchFail, CanLaunch, LaunchDone, ScanExited, ScanRunning,
             Kill, StillInTime, ScanDone, WriteReport, Returned, Expire, vars
  <2> QED
    BY <1>2, <2>1, <2>2, <2>3 DEF Names, Harvested
<1>3. CASE pc \notin {"report", "done"} /\ ~Symbolize
  <2>1. pc' \notin {"report", "done"}
    BY <1>3 DEF Next, Parent, Launch, LaunchFail, CanLaunch, LaunchDone, ScanExited, ScanRunning,
                Kill, StillInTime, ScanDone, WriteReport, Returned, ChildExit, Expire, vars
  <2> QED
    BY <2>1 DEF Names
<1> QED
  BY <1>1, <1>2, <1>3

LEMMA IInvInit == Init => IInv
<1> SUFFICES ASSUME Init PROVE IInv
  OBVIOUS
<1>1. Resources
  BY ResourcesInit
<1>2. Finished = {}
  BY DEF Init, Finished
<1>3. Cardinality({}) = 0
  BY FS_EmptySet
<1>4. EverySeedIsCounted
  BY <1>3 DEF Init, EverySeedIsCounted
<1>5. CountsAreSeedHits
  <2>1. /\ \A e \in Edges : {s \in Finished : e \in edgesOf[s]} = {}
        /\ \A p \in SUBSET Edges : {s \in Finished : edgesOf[s] = p} = {}
    BY <1>2
  <2> QED
    BY <1>2, <1>3, <2>1 DEF Init, CountsAreSeedHits
<1>6. Merged /\ Names
  BY <1>2 DEF Init, Merged, Names
<1> QED
  BY <1>1, <1>4, <1>5, <1>6 DEF IInv

LEMMA IInvStep == IInv /\ [Next]_vars => IInv'
BY ResourcesStep, TotalStep, HitsStep, MergedStep, NamesStep DEF IInv

LEMMA BatchInvariant == Spec => []IInv
BY IInvInit, IInvStep, PTL DEF Spec

\* An edge has a count exactly when it was seen.
LEMMA CountedIsSeen ==
  ASSUME IInv
  PROVE  \A e \in Edges : edgeCounts[e] > 0 <=> e \in seen
<1>t. TypeOK
  BY DEF IInv, Resources
<1> SUFFICES ASSUME NEW e \in Edges PROVE edgeCounts[e] > 0 <=> e \in seen
  OBVIOUS
<1> DEFINE H == {s \in Finished : e \in edgesOf[s]}
<1>1. edgeCounts[e] = Cardinality(H) /\ IsFiniteSet(H)
  BY <1>t, FinishedIsFinite DEF IInv, CountsAreSeedHits
<1>2. Cardinality(H) \in Nat /\ (Cardinality(H) = 0 <=> H = {})
  BY <1>1, FS_CardinalityType, FS_EmptySet
<1>3. H # {} <=> e \in seen
  BY DEF IInv, Merged
<1> HIDE DEF H
<1> QED
  BY <1>1, <1>2, <1>3

\* Everything the batch report says is exact, at every step: the three totals
\* of the summary, the frequency of every edge and path, and the stored reports.
THEOREM CountsTheorem == Spec => []CountsAreExact
<1>1. IInv => StoredReportsAreCounted
  <2> SUFFICES ASSUME IInv PROVE StoredReportsAreCounted
    OBVIOUS
  <2>1. TypeOK /\ cached \subseteq Finished /\ \A s \in Finished : edgesOf[s] \subseteq seen
    BY DEF IInv, Merged, Resources
  <2>2. \A s \in cached : s \in Finished /\ \A e \in edgesOf[s] : e \in Edges /\ e \in seen
    BY <2>1 DEF TypeOK
  <2> QED
    BY <2>2, CountedIsSeen DEF StoredReportsAreCounted
<1>2. IInv => CountsAreExact
  BY <1>1 DEF IInv, CountsAreExact
<1> QED
  BY <1>2, BatchInvariant, PTL

\* No seed that crashed, hung or was killed is ever replayed in this process.
THEOREM ReplaysTheorem == Spec => []ReplaysAreHarmless
<1>1. IInv => ReplaysAreHarmless
  BY DEF IInv, Resources, TypeOK, Children, Merged, Finished, ReplaysAreHarmless
<1> QED
  BY <1>1, BatchInvariant, PTL

\* The few seeds kept for the second stage name every edge with a count, but
\* the last one of the table.
THEOREM NamesTheorem == Spec => []CountedEdgesAreNamed
<1>1. IInv => CountedEdgesAreNamed
  <2> SUFFICES ASSUME IInv, pc \in {"report", "done"}, ~lostReplay
               PROVE  named = {e \in Edges \ {NumEdges} : edgeCounts[e] > 0}
    BY DEF CountedEdgesAreNamed
  <2>1. named = Harvested(mapping)
    BY DEF IInv, Names
  <2> DEFINE U == UNION {edgesOf[s] : s \in mapping}
  <2>2. U = seen
    BY DEF IInv, Merged
  <2>6. Harvested(mapping) = U \ {NumEdges}
    BY DEF Harvested
  <2> HIDE DEF U
  <2>3. seen \subseteq Edges
    BY DEF IInv, Resources, TypeOK
  <2>4. named = seen \ {NumEdges}
    BY <2>1, <2>2, <2>6
  <2>5. \A e \in Edges : edgeCounts[e] > 0 <=> e \in seen
    BY CountedIsSeen
  <2> QED
    BY <2>3, <2>4, <2>5
<1> QED
  BY <1>1, BatchInvariant, PTL

\* When run_batch returns, every child has been waited for and every temporary
\* report is gone.
THEOREM NothingLeftBehind ==
  Spec => [](pc = "done" => /\ temp = {}
                            /\ \A s \in Seeds : child[s] # "none" => s \in reaped)
<1>1. Resources /\ pc = "done" =>
        temp = {} /\ \A s \in Seeds : child[s] # "none" => s \in reaped
  BY DEF Resources, TypeOK, TasksOwnTheirResources, Scan
<1> QED
  BY <1>1, ResourcesInvariant, PTL
=============================================================================
