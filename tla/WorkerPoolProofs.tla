-------------------------- MODULE WorkerPoolProofs --------------------------
(***************************************************************************)
(* The worker pool for every kind of fuzzer, every number of resource      *)
(* units and every number of forks, exits and calls: the bookkeeping of    *)
(* its processes, the units that run (the pool implements UnitPool), what  *)
(* a call that nothing disturbs delivers, and the types.                   *)
(***************************************************************************)
EXTENDS WorkerPool, FiniteSetTheorems, NaturalsInduction, WellFoundedInduction, TLAPS

\* The part of the type that the bookkeeping needs.
PoolType ==
  /\ proc \in [Workers -> ProcState] /\ paused \in [Workers -> BOOLEAN]
  /\ index \in [Workers -> Int] /\ groups \subseteq Workers
  /\ forks \in 0..MaxForks /\ nextIndex \in Nat /\ nextIndex >= 1

\* Processes are forked in the order of their ordinals, and there is none when
\* start_active_round_fuzzer clears state.groups.
Births ==
  /\ \A w \in Workers : w > forks => proc[w] = "unborn"
  /\ \A w \in groups : proc[w] # "unborn"
  /\ pc = "start" => groups = {}

\* next_worker_index is above the index of every live worker.
Indices == \A w \in Workers : Alive(w) => index[w] < nextIndex

IInv == PoolType /\ Births /\ EveryWorkerIsTracked /\ Indices /\ OutputDirsAreDistinct

LEMMA NewWorker ==
  ASSUME PoolType, forks < MaxForks
  PROVE  /\ forks + 1 \in Workers /\ forks + 1 \in 0..MaxForks /\ forks + 1 > forks
         /\ \A w \in Workers : w > forks + 1 => w > forks
<1>1. forks \in 0..MaxForks /\ MaxForks \in Nat
  BY WorkerPoolAssumption DEF PoolType
<1> QED
  BY <1>1 DEF Workers

(***************************************************************************)
(* The ways in which the pool changes.                                     *)
(***************************************************************************)

\* Processes end, groups without a live process are dropped.
LEMMA LosePreserves ==
  ASSUME IInv, UNCHANGED <<paused, index, forks, nextIndex>>,
         proc' \in [Workers -> ProcState], groups' \subseteq groups,
         \A w \in Workers : proc'[w] = proc[w] \/ (proc[w] # "unborn" /\ proc'[w] = "dead"),
         \A w \in groups : proc'[w] \in {"running", "stopped"} => w \in groups',
         pc' = "start" => groups' = {}
  PROVE  IInv'
<1>1. PoolType /\ Births /\ EveryWorkerIsTracked /\ Indices /\ OutputDirsAreDistinct
  BY DEF IInv
<1>2. \A w \in Workers : Alive(w)' => Alive(w) /\ proc'[w] = proc[w]
  BY DEF Alive
<1>3. PoolType'
  BY <1>1 DEF PoolType
<1>4. Births'
  <2>1. \A w \in Workers : w > forks => proc'[w] = "unborn"
    BY <1>1 DEF Births
  <2>2. \A w \in groups' : proc'[w] # "unborn"
    BY <1>1 DEF Births, PoolType
  <2> QED
    BY <2>1, <2>2 DEF Births
<1>5. EveryWorkerIsTracked'
  <2> SUFFICES ASSUME NEW w \in Workers, Alive(w)'
               PROVE  w \in groups' /\ paused'[w] = (proc'[w] = "stopped")
    BY DEF EveryWorkerIsTracked
  <2>1. Alive(w) /\ proc'[w] = proc[w] /\ proc'[w] \in {"running", "stopped"}
    BY <1>2 DEF Alive
  <2>2. w \in groups /\ paused[w] = (proc[w] = "stopped")
    BY <1>1, <2>1 DEF EveryWorkerIsTracked
  <2> QED
    BY <2>1, <2>2
<1>6. Indices' /\ OutputDirsAreDistinct'
  BY <1>1, <1>2 DEF Indices, OutputDirsAreDistinct
<1> QED
  BY <1>3, <1>4, <1>5, <1>6 DEF IInv

\* The system call of a pause or a resume changes a live process, and its flag.
LEMMA SignalPreserves ==
  ASSUME IInv, UNCHANGED <<groups, index, forks, nextIndex>>, pc' # "start",
         NEW w, NEW stop \in BOOLEAN,
         \/ /\ Alive(w)
            /\ proc' = [proc EXCEPT ![w] = IF stop THEN "stopped" ELSE "running"]
            /\ paused' = [paused EXCEPT ![w] = stop]
         \/ UNCHANGED <<proc, paused>>
  PROVE  IInv'
<1>1. PoolType /\ Births /\ EveryWorkerIsTracked /\ Indices /\ OutputDirsAreDistinct
  BY DEF IInv
<1>2. CASE UNCHANGED <<proc, paused>>
  BY <1>1, <1>2 DEF IInv, PoolType, Births, EveryWorkerIsTracked, Indices, OutputDirsAreDistinct, Alive
<1>3. CASE /\ Alive(w)
           /\ proc' = [proc EXCEPT ![w] = IF stop THEN "stopped" ELSE "running"]
           /\ paused' = [paused EXCEPT ![w] = stop]
  <2>1. \A v \in Workers : v # w => proc'[v] = proc[v] /\ paused'[v] = paused[v]
    BY <1>1, <1>3 DEF PoolType
  <2>2. w \in Workers => /\ proc'[w] = (IF stop THEN "stopped" ELSE "running")
                         /\ paused'[w] = stop
    BY <1>1, <1>3 DEF PoolType
  <2>3. proc' \in [Workers -> ProcState] /\ paused' \in [Workers -> BOOLEAN]
    BY <1>1, <1>3 DEF PoolType, ProcState
  <2>4. \A v \in Workers : Alive(v)' <=> Alive(v)
    BY <1>3, <2>1, <2>2 DEF Alive
  <2>5. PoolType'
    BY <1>1, <2>3 DEF PoolType
  <2>6. Births'
    <3>1. \A v \in Workers : proc[v] = "unborn" <=> proc'[v] = "unborn"
      BY <1>3, <2>1, <2>2 DEF Alive
    <3> QED
      BY <1>1, <3>1 DEF Births, PoolType
  <2>7. EveryWorkerIsTracked'
    BY <1>1, <2>1, <2>2, <2>4 DEF EveryWorkerIsTracked
  <2>8. Indices' /\ OutputDirsAreDistinct'
    BY <1>1, <2>4 DEF Indices, OutputDirsAreDistinct
  <2> QED
    BY <2>5, <2>6, <2>7, <2>8 DEF IInv
<1> QED
  BY <1>2, <1>3

\* A fork: the new worker has an index above all others, or none.
LEMMA PushPreserves ==
  ASSUME IInv, NEW base \in SUBSET groups, NEW u, NEW ix \in Int, Push(base, u, ix),
         \A w \in Workers : Alive(w) => w \in base /\ (ix >= 0 => index[w] < ix),
         nextIndex' \in Nat, ix < nextIndex', nextIndex <= nextIndex' \/ base = {}, nextIndex' >= 1,
         pc' # "start"
  PROVE  IInv'
<1>1. PoolType /\ Births /\ EveryWorkerIsTracked /\ Indices /\ OutputDirsAreDistinct
  BY DEF IInv
<1> DEFINE n == forks + 1
<1>p. /\ forks < MaxForks /\ forks' = n /\ proc' = [proc EXCEPT ![n] = "running"]
      /\ groups' = base \cup {n} /\ paused' = [paused EXCEPT ![n] = FALSE]
      /\ index' = [index EXCEPT ![n] = ix]
  BY DEF Push
<1>2. n \in Workers /\ n \in 0..MaxForks /\ n > forks /\ \A w \in Workers : w > n => w > forks
  BY <1>1, <1>p, NewWorker
<1> HIDE DEF n
<1>3. \A w \in Workers : w # n => proc'[w] = proc[w] /\ paused'[w] = paused[w] /\ index'[w] = index[w]
  BY <1>1, <1>p DEF PoolType
<1>4. proc'[n] = "running" /\ paused'[n] = FALSE /\ index'[n] = ix
  BY <1>1, <1>2, <1>p DEF PoolType
<1>5. \A w \in Workers : w # n => (Alive(w)' <=> Alive(w))
  BY <1>3 DEF Alive
<1>6. PoolType'
  <2>1. proc' \in [Workers -> ProcState] /\ paused' \in [Workers -> BOOLEAN] /\ index' \in [Workers -> Int]
    BY <1>1, <1>p DEF PoolType, ProcState
  <2> QED
    BY <1>1, <1>2, <1>p, <2>1 DEF PoolType
<1>7. Births'
  <2>1. ASSUME NEW w \in Workers, w > n PROVE proc'[w] = "unborn"
    <3>1. w # n /\ w > forks
      BY <1>2, <2>1 DEF Workers
    <3> QED
      BY <1>1, <1>3, <3>1 DEF Births
  <2>2. \A w \in groups' : proc'[w] # "unborn"
    BY <1>1, <1>3, <1>4, <1>p DEF Births, PoolType
  <2> QED
    BY <1>p, <2>1, <2>2 DEF Births
<1>8. EveryWorkerIsTracked'
  <2> SUFFICES ASSUME NEW w \in Workers, Alive(w)'
               PROVE  w \in groups' /\ paused'[w] = (proc'[w] = "stopped")
    BY DEF EveryWorkerIsTracked
  <2>1. CASE w = n
    BY <1>4, <1>p, <2>1
  <2>2. CASE w # n
    BY <1>1, <1>3, <1>5, <1>p, <2>2 DEF EveryWorkerIsTracked
  <2> QED
    BY <2>1, <2>2
<1>9. Indices'
  <2> SUFFICES ASSUME NEW w \in Workers, Alive(w)' PROVE index'[w] < nextIndex'
    BY DEF Indices
  <2>1. CASE w = n
    BY <1>4, <2>1
  <2>2. CASE w # n
    <3>1. Alive(w) /\ w \in base /\ index'[w] = index[w] /\ index[w] < nextIndex
      BY <1>1, <1>3, <1>5, <2>2 DEF Indices
    <3>2. index[w] \in Int /\ nextIndex \in Int /\ nextIndex' \in Int /\ nextIndex <= nextIndex'
      BY <1>1, <3>1 DEF PoolType
    <3> QED
      BY <3>1, <3>2
  <2> QED
    BY <2>1, <2>2
<1>10. OutputDirsAreDistinct'
  <2> SUFFICES ASSUME NEW v \in Workers, NEW w \in Workers, Alive(v)', Alive(w)', v # w, index'[v] >= 0
               PROVE  index'[v] # index'[w]
    BY DEF OutputDirsAreDistinct
  <2>0. \A x \in Workers : index[x] \in Int
    BY <1>1 DEF PoolType
  <2>1. CASE v = n
    <3>1. Alive(w) /\ index'[w] = index[w] /\ index'[v] = ix /\ ix >= 0 /\ index[w] < ix
      BY <1>3, <1>4, <1>5, <2>1
    <3> QED
      BY <2>0, <3>1
  <2>2. CASE w = n
    <3>1. Alive(v) /\ index'[v] = index[v] /\ index'[w] = ix /\ index[v] >= 0 /\ (ix >= 0 => index[v] < ix)
      BY <1>3, <1>4, <1>5, <2>2
    <3> QED
      BY <2>0, <3>1
  <2>3. CASE v # n /\ w # n
    BY <1>1, <1>3, <1>5, <2>3 DEF OutputDirsAreDistinct
  <2> QED
    BY <2>1, <2>2, <2>3
<1> QED
  BY <1>6, <1>7, <1>8, <1>9, <1>10 DEF IInv

(***************************************************************************)
(* The steps.                                                              *)
(***************************************************************************)

LEMMA InitIInv == Init => IInv
<1> SUFFICES ASSUME Init PROVE IInv
  OBVIOUS
<1>1. MaxForks \in Nat /\ 0 \in 0..MaxForks
  BY WorkerPoolAssumption
<1>2. PoolType
  BY <1>1 DEF Init, PoolType, ProcState
<1>3. \A w \in Workers : ~Alive(w)
  BY DEF Init, Alive
<1> QED
  BY <1>2, <1>3 DEF Init, IInv, Births, EveryWorkerIsTracked, Indices, OutputDirsAreDistinct

\* compact_active_round_fuzzer_groups drops finished groups only.
LEMMA CompactPreserves ==
  ASSUME IInv, Compact, UNCHANGED <<proc, forks>>, pc' = "start" => Survivors = {}
  PROVE  IInv'
<1>1. PoolType
  BY DEF IInv
<1>2. groups' = Survivors /\ UNCHANGED <<paused, index, nextIndex>>
  BY DEF Compact
<1>3. groups' \subseteq groups /\ \A w \in groups : proc'[w] \in {"running", "stopped"} => w \in groups'
  BY <1>1, <1>2 DEF PoolType, Survivors, Alive
<1> QED
  BY <1>1, <1>2, <1>3, LosePreserves DEF PoolType

LEMMA SamePool ==
  ASSUME IInv, UNCHANGED <<proc, groups, paused, index, forks, nextIndex>>,
         pc' = "start" => pc = "start"
  PROVE  IInv'
BY DEF IInv, PoolType, Births, EveryWorkerIsTracked, Indices, OutputDirsAreDistinct, Alive

\* Every process of the pool is killed.
LEMMA StopPreserves ==
  ASSUME IInv, proc' = [w \in Workers |-> IF w \in groups THEN "dead" ELSE proc[w]], groups' = {},
         UNCHANGED <<paused, index, forks, nextIndex>>
  PROVE  IInv'
<1>1. PoolType /\ Births
  BY DEF IInv
<1>2. proc' \in [Workers -> ProcState]
  BY <1>1 DEF PoolType, ProcState
<1>3. \A w \in groups : proc'[w] = "dead"
  BY <1>1 DEF PoolType
<1>4. \A w \in Workers : proc'[w] = proc[w] \/ (proc[w] # "unborn" /\ proc'[w] = "dead")
  BY <1>1 DEF PoolType, Births
<1> QED
  BY <1>2, <1>3, <1>4, LosePreserves

\* append_active_round_fuzzer: the new index is next_worker_index, or none.
LEMMA AppendPreserves ==
  ASSUME IInv, Append, pc' # "start"
  PROVE  IInv'
<1>1. PoolType /\ EveryWorkerIsTracked /\ Indices
  BY DEF IInv
<1> DEFINE ix == IF kind \in {"afl", "qsym"} THEN nextIndex ELSE -1
<1>2. Push(groups, 1, ix) /\ nextIndex' = nextIndex + 1
  BY DEF Append
<1>3. nextIndex \in Nat /\ nextIndex >= 1
  BY <1>1 DEF PoolType
<1>4. ix \in Int /\ ix < nextIndex' /\ (ix >= 0 => ix = nextIndex)
  BY <1>2, <1>3
<1>5. nextIndex' \in Nat /\ nextIndex <= nextIndex' /\ nextIndex' >= 1
  BY <1>2, <1>3
<1> HIDE DEF ix
<1>6. \A w \in Workers : Alive(w) => w \in groups /\ (ix >= 0 => index[w] < ix)
  BY <1>1, <1>4 DEF EveryWorkerIsTracked, Indices
<1> QED
  BY <1>2, <1>4, <1>5, <1>6, PushPreserves

\* pause_round_fuzzer_to_units returns to the prestart loop or to the end.
ReturnPoint == ret \in {"pool", "final"}

LEMMA InitReturn == Init => ReturnPoint
BY DEF Init, ReturnPoint

LEMMA ReturnStep == ReturnPoint /\ [Next]_vars => ReturnPoint'
BY DEF ReturnPoint, Next, vars, local, Controller, Scheduler, EnsureBegin, StartOk, StartFail,
       QsymExecutorOk, QsymExecutorFail, PoolAppendOk, PoolAppendFail, PoolFull, GrowDone, GrowCompact,
       GrowAppendOk, GrowAppendFail, ResumeBegin, ResumeOne, ResumeEnd, PauseBegin, PauseOne, PauseEnd,
       EnsureReturn, PauseAllBegin, PauseAllOne, PauseAllEnd, StopAll, CallRoundStart, CallBoost,
       CallPoll, CallPause, CallShutdown, Exit

LEMMA ControllerStep ==
  ASSUME IInv, ReturnPoint, Controller
  PROVE  IInv'
<1> USE DEF Goto, Return
<1>1. CASE EnsureBegin
  <2>1. pc' = "start" => Survivors = {}
    BY <1>1 DEF EnsureBegin, Body
  <2> QED
    BY <1>1, <2>1, CompactPreserves DEF EnsureBegin
<1>2. CASE StartOk
  <2>1. PoolType /\ EveryWorkerIsTracked /\ Births
    BY DEF IInv
  <2>2. \A w \in Workers : ~Alive(w)
    BY <1>2, <2>1 DEF StartOk, Births, EveryWorkerIsTracked
  <2> DEFINE u == IF kind = "fresh" THEN target ELSE 1
             ix == IF kind \in {"afl", "qsym"} THEN 0 ELSE -1
  <2>3. Push({}, u, ix)
    BY <1>2 DEF StartOk
  <2>4. nextIndex' = 1 /\ pc' # "start"
    BY <1>2 DEF StartOk, Body
  <2>5. ix \in Int /\ ix < nextIndex' /\ nextIndex' \in Nat /\ nextIndex' >= 1
    BY <2>4
  <2> HIDE DEF u, ix
  <2> QED
    BY <2>2, <2>3, <2>4, <2>5, PushPreserves
<1>3. CASE StartFail \/ PoolAppendFail \/ GrowAppendFail \/ PoolFull
  <2>1. UNCHANGED <<proc, groups, paused, index, forks, nextIndex>> /\ pc' # "start"
    BY <1>3 DEF StartFail, PoolAppendFail, GrowAppendFail, PoolFull, NoFork, state
  <2> QED
    BY <2>1, SamePool
<1>4. CASE QsymExecutorOk
  <2>1. PoolType /\ EveryWorkerIsTracked
    BY DEF IInv
  <2>2. Push(groups, 1, -1) /\ nextIndex' = nextIndex /\ pc' # "start"
    BY <1>4 DEF QsymExecutorOk
  <2>3. nextIndex \in Nat /\ nextIndex >= 1
    BY <2>1 DEF PoolType
  <2>4. -1 \in Int /\ -1 < nextIndex' /\ nextIndex' \in Nat /\ nextIndex' >= 1 /\ nextIndex <= nextIndex'
        /\ ~(-1 >= 0)
    BY <2>2, <2>3
  <2>5. \A w \in Workers : Alive(w) => w \in groups
    BY <2>1 DEF EveryWorkerIsTracked
  <2> QED
    BY <2>2, <2>4, <2>5, PushPreserves
<1>5. CASE QsymExecutorFail \/ StopAll
  BY <1>5, StopPreserves DEF QsymExecutorFail, StopAll
<1>6. CASE PoolAppendOk \/ GrowAppendOk
  BY <1>6, AppendPreserves DEF PoolAppendOk, GrowAppendOk
<1>7. CASE GrowDone \/ GrowCompact \/ ResumeBegin \/ ResumeEnd \/ PauseBegin \/ PauseEnd \/ EnsureReturn
           \/ PauseAllBegin
  <2>1. Compact /\ UNCHANGED <<proc, forks>>
    BY <1>7 DEF GrowDone, GrowCompact, ResumeBegin, ResumeEnd, PauseBegin, PauseEnd, EnsureReturn,
                PauseAllBegin, local
  <2>2. CASE pc' # "start"
    BY <2>1, <2>2, CompactPreserves
  <2>3. CASE pc' = "start"
    BY <1>7, <2>3 DEF GrowDone, GrowCompact, ResumeBegin, ResumeEnd, PauseBegin, PauseEnd, EnsureReturn,
                      PauseAllBegin, AfterResume, ReturnPoint
  <2> QED
    BY <2>2, <2>3
<1>8. CASE ResumeOne
  <2>1. PICK w : \/ /\ Alive(w)
                    /\ proc' = [proc EXCEPT ![w] = "running"]
                    /\ paused' = [paused EXCEPT ![w] = FALSE]
                 \/ UNCHANGED <<proc, paused>>
    BY <1>8 DEF ResumeOne
  <2>2. UNCHANGED <<groups, index, forks, nextIndex>> /\ pc' # "start"
    BY <1>8 DEF ResumeOne
  <2> QED
    BY <2>1, <2>2, SignalPreserves
<1>9. CASE PauseOne \/ PauseAllOne
  <2>1. PICK w : StopSignal(w)
    BY <1>9 DEF PauseOne, PauseAllOne
  <2>2. UNCHANGED <<groups, index, forks, nextIndex>> /\ pc' # "start"
    BY <1>9 DEF PauseOne, PauseAllOne
  <2>3. \/ /\ Alive(w)
           /\ proc' = [proc EXCEPT ![w] = "stopped"]
           /\ paused' = [paused EXCEPT ![w] = TRUE]
        \/ UNCHANGED <<proc, paused>>
    BY <2>1 DEF StopSignal
  <2> QED
    BY <2>2, <2>3, SignalPreserves
<1>10. CASE PauseAllEnd
  <2>1. UNCHANGED <<proc, groups, paused, index, forks, nextIndex>> /\ pc' # "start"
    BY <1>10 DEF PauseAllEnd
  <2> QED
    BY <2>1, SamePool
<1> QED
  BY <1>1, <1>2, <1>3, <1>4, <1>5, <1>6, <1>7, <1>8, <1>9, <1>10 DEF Controller

LEMMA NextIInv == IInv /\ ReturnPoint /\ [Next]_vars => IInv'
<1> SUFFICES ASSUME IInv, ReturnPoint, [Next]_vars PROVE IInv'
  OBVIOUS
<1>1. CASE Controller
  BY <1>1, ControllerStep
<1>2. CASE CallPoll
  BY <1>2, CompactPreserves DEF CallPoll, Call, Goto
<1>3. CASE (\E n \in 1..ResourceUnits : CallRoundStart(n) \/ CallBoost(n)) \/ CallPause \/ CallShutdown
  <2>1. UNCHANGED <<proc, groups, paused, index, forks, nextIndex>> /\ pc' # "start"
    BY <1>3 DEF CallRoundStart, CallBoost, CallPause, CallShutdown, Call, Goto, state
  <2> QED
    BY <2>1, SamePool
<1>4. ASSUME NEW w \in Workers, Exit(w) PROVE IInv'
  <2>1. PoolType
    BY DEF IInv
  <2>2. Alive(w) /\ proc' = [proc EXCEPT ![w] = "dead"]
        /\ UNCHANGED <<pc, groups, paused, index, forks, nextIndex>>
    BY <1>4 DEF Exit, state
  <2>3. proc' \in [Workers -> ProcState]
    BY <2>1, <2>2 DEF PoolType, ProcState
  <2>4. \A v \in Workers : proc'[v] = proc[v] \/ (proc[v] # "unborn" /\ proc'[v] = "dead")
    BY <2>1, <2>2 DEF PoolType, Alive
  <2>5. pc' = "start" => groups' = {}
    BY <2>2 DEF IInv, Births
  <2> QED
    BY <2>2, <2>3, <2>4, <2>5, LosePreserves
<1>5. CASE UNCHANGED vars
  BY <1>5, SamePool DEF vars, state
<1> QED
  BY <1>1, <1>2, <1>3, <1>4, <1>5 DEF Next, Scheduler

(***************************************************************************)
(* The bookkeeping of the processes is right.                              *)
(***************************************************************************)

\* Whatever exits, fails to fork or is started again: a live worker process is
\* in state.groups and its paused flag is right.
THEOREM TrackedTheorem == Spec => []EveryWorkerIsTracked
<1>1. IInv => EveryWorkerIsTracked
  BY DEF IInv
<1> QED
  BY <1>1, InitIInv, InitReturn, NextIInv, ReturnStep, PTL DEF Spec

\* Two live workers never write into one output directory.
THEOREM DirsTheorem == Spec => []OutputDirsAreDistinct
<1>1. IInv => OutputDirsAreDistinct
  BY DEF IInv
<1> QED
  BY <1>1, InitIInv, InitReturn, NextIInv, ReturnStep, PTL DEF Spec

(***************************************************************************)
(* Sums over finite sets, as the library's fold computes them.  The facts  *)
(* about the fold are proved from the smallest set that contradicts them.  *)
(***************************************************************************)

\* The element that the library's fold takes next, and the table of its results.
Pick(s) == CHOOSE x \in s : TRUE

IsTable(f, S, g) ==
  g = [s \in SUBSET S |-> IF s = {} THEN 0 ELSE f[Pick(s)] + g[s \ {Pick(s)}]]

LEMMA SumIsTable ==
  ASSUME NEW f, NEW S
  PROVE  SumFunctionOnSet(f, S) = (CHOOSE g : IsTable(f, S, g))[S]
  BY DEF SumFunctionOnSet, FoldFunctionOnSet, MapThenFoldSet, IsTable, Pick

LEMMA LeastNumber ==
  ASSUME NEW N \in SUBSET Nat, N # {}
  PROVE  \E n \in N : \A m \in N : n <= m
<1> DEFINE W == OpToRel(<, Nat)
<1>1. IsWellFoundedOn(W, Nat)
  BY NatLessThanWellFounded
<1>2. \A x, y \in Nat : <<y, x>> \in W <=> y < x
  BY DEF OpToRel
<1> HIDE DEF W
<1>3. PICK n \in N : \A m \in N : ~(<<m, n>> \in W)
  BY <1>1, WFMin
<1>4. \A m \in N : ~(m < n)
  BY <1>2, <1>3
<1> QED
  BY <1>3, <1>4

\* Among finite sets one has the least number of elements.
LEMMA SmallestSet ==
  ASSUME NEW C, C # {}, \A s \in C : IsFiniteSet(s)
  PROVE  \E s \in C : \A t \in C : Cardinality(s) <= Cardinality(t)
<1> DEFINE N == {Cardinality(s) : s \in C}
<1>1. N \in SUBSET Nat /\ N # {}
  BY FS_CardinalityType
<1> HIDE DEF N
<1>2. PICK n \in N : \A m \in N : n <= m
  BY <1>1, LeastNumber
<1> QED
  BY <1>2 DEF N

LEMMA Picked ==
  ASSUME NEW s, s # {}, IsFiniteSet(s)
  PROVE  /\ Pick(s) \in s /\ IsFiniteSet(s \ {Pick(s)})
         /\ Cardinality(s \ {Pick(s)}) = Cardinality(s) - 1
         /\ Cardinality(s) \in Nat
<1>1. Pick(s) \in s
  BY DEF Pick
<1> QED
  BY <1>1, FS_RemoveElement, FS_CardinalityType

\* Tables of the sets with at most n elements exist for every n.
LEMMA TableExists ==
  ASSUME NEW S, IsFiniteSet(S), NEW f, \A x \in S : f[x] \in Nat
  PROVE  \E g \in [SUBSET S -> Nat] : IsTable(f, S, g)
<1> DEFINE Upto(n) == {s \in SUBSET S : Cardinality(s) <= n}
           Step(g, s) == IF s = {} THEN 0 ELSE f[Pick(s)] + g[s \ {Pick(s)}]
           Good(n) == \E g \in [Upto(n) -> Nat] : \A s \in Upto(n) : g[s] = Step(g, s)
           Bad == {n \in Nat : ~Good(n)}
<1>1. \A s \in SUBSET S : IsFiniteSet(s) /\ Cardinality(s) \in Nat
  BY FS_Subset, FS_CardinalityType
<1>2. ASSUME NEW s \in SUBSET S, s # {}
      PROVE  /\ Pick(s) \in S /\ s \ {Pick(s)} \in SUBSET S
             /\ Cardinality(s \ {Pick(s)}) = Cardinality(s) - 1 /\ Cardinality(s) > 0
  <2>1. IsFiniteSet(s) /\ Cardinality(s) # 0 /\ Cardinality(s) \in Nat
    BY <1>1, <1>2, FS_EmptySet
  <2>2. Pick(s) \in s /\ Cardinality(s \ {Pick(s)}) = Cardinality(s) - 1
    BY <1>2, <2>1, Picked
  <2> QED
    BY <2>1, <2>2
<1>3. Bad = {}
  <2> SUFFICES ASSUME Bad # {} PROVE FALSE
    OBVIOUS
  <2>1. PICK n \in Bad : \A m \in Bad : n <= m
    <3>1. Bad \in SUBSET Nat
      OBVIOUS
    <3> QED
      BY <3>1, LeastNumber
  <2>2. CASE n = 0
    <3> DEFINE g == [s \in Upto(0) |-> 0]
    <3>1. Upto(0) = {{}}
      BY <1>1, FS_EmptySet
    <3>2. g \in [Upto(0) -> Nat] /\ \A s \in Upto(0) : g[s] = Step(g, s)
      BY <3>1
    <3>3. Good(0)
      BY <3>2
    <3>4. ~Good(n)
      BY <2>1
    <3> HIDE DEF Good
    <3> QED
      BY <2>2, <3>3, <3>4
  <2>3. CASE n # 0
    <3>1. n - 1 \in Nat /\ Good(n - 1) /\ n \in Nat
      <4>1. \A m : m \in Bad <=> m \in Nat /\ ~Good(m)
        OBVIOUS
      <4> HIDE DEF Bad, Good
      <4>2. n \in Nat /\ n - 1 \in Nat
        BY <4>1, <2>3
      <4>3. n - 1 \notin Bad
        BY <2>1, <4>2
      <4> QED
        BY <4>1, <4>2, <4>3
    <3>2. PICK g \in [Upto(n - 1) -> Nat] : \A s \in Upto(n - 1) : g[s] = Step(g, s)
      BY <3>1
    <3> DEFINE h == [s \in Upto(n) |-> Step(g, s)]
    <3>3. \A s \in Upto(n) : s # {} => s \ {Pick(s)} \in Upto(n - 1) /\ s \ {Pick(s)} \in Upto(n)
      BY <1>1, <1>2, <3>1
    <3>4. \A s \in Upto(n - 1) : s \in Upto(n) /\ h[s] = g[s]
      BY <1>1, <3>1, <3>2
    <3>5. h \in [Upto(n) -> Nat]
      <4> SUFFICES ASSUME NEW s \in Upto(n) PROVE Step(g, s) \in Nat
        OBVIOUS
      <4>1. CASE s = {}
        BY <4>1
      <4>2. CASE s # {}
        <5>1. f[Pick(s)] \in Nat /\ g[s \ {Pick(s)}] \in Nat
          BY <1>2, <3>2, <3>3, <4>2
        <5> QED
          BY <5>1, <4>2
      <4> QED
        BY <4>1, <4>2
    <3>6. ASSUME NEW s \in Upto(n) PROVE h[s] = Step(h, s)
      <4>1. CASE s = {}
        BY <4>1
      <4>2. CASE s # {}
        <5>1. h[s \ {Pick(s)}] = g[s \ {Pick(s)}]
          BY <3>3, <3>4, <4>2
        <5> QED
          BY <5>1
      <4> QED
        BY <4>1, <4>2
    <3>7. Good(n)
      BY <3>5, <3>6
    <3> QED
      BY <2>1, <3>7
  <2> QED
    BY <2>2, <2>3
<1>4. Cardinality(S) \in Nat /\ Upto(Cardinality(S)) = SUBSET S
  BY <1>1, FS_Subset, FS_CardinalityType
<1>5. PICK g \in [Upto(Cardinality(S)) -> Nat] : \A s \in Upto(Cardinality(S)) : g[s] = Step(g, s)
  BY <1>3, <1>4
<1> HIDE DEF Upto
<1>6. g \in [SUBSET S -> Nat] /\ \A s \in SUBSET S : g[s] = Step(g, s)
  BY <1>4, <1>5
<1>7. g = [s \in SUBSET S |-> Step(g, s)]
  BY <1>6
<1> QED
  BY <1>6, <1>7 DEF IsTable

LEMMA TableUnique ==
  ASSUME NEW S, IsFiniteSet(S), NEW f, NEW g, NEW h, IsTable(f, S, g), IsTable(f, S, h)
  PROVE  \A s \in SUBSET S : g[s] = h[s]
<1> DEFINE Differ == {s \in SUBSET S : g[s] # h[s]}
<1> SUFFICES ASSUME Differ # {} PROVE FALSE
  OBVIOUS
<1>1. \A s \in Differ : IsFiniteSet(s)
  BY FS_Subset
<1>2. PICK s \in Differ : \A t \in Differ : Cardinality(s) <= Cardinality(t)
  <2> HIDE DEF Differ
  <2> QED
    BY <1>1, SmallestSet
<1>3. s \in SUBSET S /\ g[s] # h[s]
  OBVIOUS
<1>4. s # {}
  BY <1>3 DEF IsTable
<1> DEFINE t == s \ {Pick(s)}
<1>5. t \in SUBSET S /\ Cardinality(t) = Cardinality(s) - 1 /\ Cardinality(s) \in Nat
  BY <1>1, <1>3, <1>4, Picked
<1>6. t \notin Differ
  <2> HIDE DEF Differ, t
  <2> QED
    BY <1>2, <1>5
<1>7. g[t] = h[t]
  BY <1>5, <1>6
<1>8. g[s] = f[Pick(s)] + g[t] /\ h[s] = f[Pick(s)] + h[t]
  BY <1>3, <1>4 DEF IsTable
<1> QED
  BY <1>3, <1>7, <1>8

\* The table of the sums over the subsets of S.
HoldsSums(f, S, g) ==
  /\ g \in [SUBSET S -> Nat] /\ IsTable(f, S, g)
  /\ \A T \in SUBSET S : SumFunctionOnSet(f, T) = g[T]

LEMMA SumTable ==
  ASSUME NEW S, IsFiniteSet(S), NEW f, \A x \in S : f[x] \in Nat
  PROVE  \E g : HoldsSums(f, S, g)
<1>1. PICK g \in [SUBSET S -> Nat] : IsTable(f, S, g)
  BY TableExists
<1>2. ASSUME NEW T \in SUBSET S PROVE SumFunctionOnSet(f, T) = g[T]
  <2> DEFINE r == [s \in SUBSET T |-> g[s]]
             c == CHOOSE k : IsTable(f, T, k)
  <2>1. IsTable(f, T, r)
    <3> SUFFICES ASSUME NEW s \in SUBSET T
                 PROVE  g[s] = IF s = {} THEN 0 ELSE f[Pick(s)] + r[s \ {Pick(s)}]
      BY DEF IsTable
    <3>1. g[s] = IF s = {} THEN 0 ELSE f[Pick(s)] + g[s \ {Pick(s)}]
      BY <1>1 DEF IsTable
    <3>2. s # {} => r[s \ {Pick(s)}] = g[s \ {Pick(s)}]
      OBVIOUS
    <3> QED
      BY <3>1, <3>2
  <2> HIDE DEF r
  <2>2. IsTable(f, T, c)
    BY <2>1
  <2> HIDE DEF c
  <2>3. IsFiniteSet(T)
    BY FS_Subset
  <2>4. c[T] = r[T]
    BY <2>1, <2>2, <2>3, TableUnique
  <2> QED
    BY <2>4, SumIsTable DEF r, c
<1> QED
  BY <1>1, <1>2 DEF HoldsSums

\* The sum of natural numbers over a finite set is a natural number.
LEMMA SumNat ==
  ASSUME NEW S, IsFiniteSet(S), NEW f, \A x \in S : f[x] \in Nat
  PROVE  SumFunctionOnSet(f, S) \in Nat
<1>1. PICK g : HoldsSums(f, S, g)
  BY SumTable
<1> QED
  BY <1>1 DEF HoldsSums

LEMMA SumEmpty ==
  ASSUME NEW f
  PROVE  SumFunctionOnSet(f, {}) = 0
<1>1. IsFiniteSet({})
  BY FS_EmptySet
<1>2. PICK g : HoldsSums(f, {}, g)
  BY <1>1, SumTable
<1> QED
  BY <1>2 DEF HoldsSums, IsTable

\* Any element of the set can be taken out of the sum.
LEMMA SumRemove ==
  ASSUME NEW S, IsFiniteSet(S), NEW f, \A x \in S : f[x] \in Nat, NEW x \in S
  PROVE  SumFunctionOnSet(f, S) = f[x] + SumFunctionOnSet(f, S \ {x})
<1> DEFINE Sum(T) == SumFunctionOnSet(f, T)
           Bad == {T \in SUBSET S : \E y \in T : Sum(T) # f[y] + Sum(T \ {y})}
<1>1. \A T \in SUBSET S : IsFiniteSet(T) /\ Sum(T) \in Nat
  BY FS_Subset, SumNat
<1>2. ASSUME NEW T \in SUBSET S, T # {} PROVE Pick(T) \in T /\ Sum(T) = f[Pick(T)] + Sum(T \ {Pick(T)})
  <2>1. PICK g : HoldsSums(f, S, g)
    BY SumTable
  <2>2. Pick(T) \in T
    BY <1>2 DEF Pick
  <2>3. g[T] = f[Pick(T)] + g[T \ {Pick(T)}]
    BY <1>2, <2>1 DEF IsTable, HoldsSums
  <2> QED
    BY <2>1, <2>2, <2>3 DEF HoldsSums
<1> HIDE DEF Sum
<1>3. Bad = {}
  <2> SUFFICES ASSUME Bad # {} PROVE FALSE
    OBVIOUS
  <2>1. PICK T \in Bad : \A U \in Bad : Cardinality(T) <= Cardinality(U)
    <3>1. \A U \in Bad : IsFiniteSet(U)
      BY <1>1
    <3> HIDE DEF Bad
    <3> QED
      BY <3>1, SmallestSet
  <2>2. PICK y \in T : Sum(T) # f[y] + Sum(T \ {y})
    BY <2>1
  <2> DEFINE p == Pick(T)
  <2>3. T \in SUBSET S /\ p \in T /\ Sum(T) = f[p] + Sum(T \ {p})
    BY <1>2, <2>1
  <2> HIDE DEF p
  <2>4. y # p
    BY <2>2, <2>3
  <2>5. ASSUME NEW z \in T PROVE \A u \in T \ {z} : Sum(T \ {z}) = f[u] + Sum((T \ {z}) \ {u})
    <3>1. Cardinality(T \ {z}) = Cardinality(T) - 1 /\ Cardinality(T) \in Nat
      BY <1>1, <2>3, FS_RemoveElement, FS_CardinalityType
    <3>2. T \ {z} \notin Bad
      <4> HIDE DEF Bad
      <4> QED
        BY <2>1, <3>1
    <3> QED
      BY <2>3, <3>2
  <2>6. Sum(T \ {p}) = f[y] + Sum((T \ {p}) \ {y}) /\ Sum(T \ {y}) = f[p] + Sum((T \ {y}) \ {p})
    BY <2>3, <2>4, <2>5
  <2>7. (T \ {p}) \ {y} = (T \ {y}) \ {p}
    OBVIOUS
  <2>8. f[p] \in Nat /\ f[y] \in Nat /\ Sum((T \ {p}) \ {y}) \in Nat
    BY <1>1, <2>3
  <2>9. Sum(T) = f[p] + (f[y] + Sum((T \ {p}) \ {y})) /\ Sum(T \ {y}) = f[p] + Sum((T \ {p}) \ {y})
    BY <2>3, <2>6, <2>7
  <2> QED
    BY <2>2, <2>8, <2>9
<1> QED
  BY <1>3 DEF Sum

LEMMA SumAdd ==
  ASSUME NEW S, IsFiniteSet(S), NEW f, NEW x, x \notin S, \A y \in S \cup {x} : f[y] \in Nat
  PROVE  SumFunctionOnSet(f, S \cup {x}) = f[x] + SumFunctionOnSet(f, S)
<1>1. IsFiniteSet(S \cup {x}) /\ (S \cup {x}) \ {x} = S
  BY FS_AddElement
<1>2. SumFunctionOnSet(f, S \cup {x}) = f[x] + SumFunctionOnSet(f, (S \cup {x}) \ {x})
  BY <1>1, SumRemove
<1> QED
  BY <1>1, <1>2

\* The sum depends on the elements of the set only.
LEMMA SumCongruence ==
  ASSUME NEW S, IsFiniteSet(S), NEW f, NEW h, \A x \in S : f[x] \in Nat /\ f[x] = h[x]
  PROVE  SumFunctionOnSet(f, S) = SumFunctionOnSet(h, S)
<1>1. PICK g : HoldsSums(f, S, g)
  BY SumTable
<1>2. PICK k : HoldsSums(h, S, k)
  BY SumTable
<1>3. IsTable(f, S, k)
  <2>1. \A s \in SUBSET S : s # {} => Pick(s) \in S
    BY DEF Pick
  <2>2. \A s \in SUBSET S : k[s] = IF s = {} THEN 0 ELSE f[Pick(s)] + k[s \ {Pick(s)}]
    BY <1>2, <2>1 DEF HoldsSums, IsTable
  <2> QED
    BY <1>2, <2>2 DEF HoldsSums, IsTable
<1>4. g[S] = k[S]
  BY <1>1, <1>3, TableUnique DEF HoldsSums
<1> QED
  BY <1>1, <1>2, <1>4 DEF HoldsSums

(***************************************************************************)
(* The units that run.                                                     *)
(***************************************************************************)

R == UnitsOf(Running)

Ensuring == {"ensure", "start", "qsymwait", "pool", "grow", "append", "resume", "resuming",
             "pause", "pausing", "final"}

UnitsType ==
  /\ kind \in AllKinds /\ units \in [Workers -> Nat] /\ target \in 0..(ResourceUnits + 1)
  /\ act \in Int /\ cursor \in Int /\ ReturnPoint
  /\ pc \in Labels

\* Only Radamsa's first group has more than one unit, and it is never paused.
UnitsOfGroups ==
  /\ kind # "fresh" => \A w \in groups : units[w] = 1
  /\ kind = "fresh" => pc \notin {"pauseall", "pausingall"} /\ \A w \in Workers : ~paused[w]
  /\ pc = "pool" \/ ret = "pool" => kind = "afl"

\* What may run: the target, and one more while the AFL pool is filled.
Bounded ==
  /\ pc \in Ensuring => target >= 1 /\ (kind = "qsym" => target >= 2)
  /\ pc = "idle" => R <= IF inRound THEN target ELSE 0
  /\ pc \in Ensuring \ {"pause", "pausing"} => R <= target
  /\ pc = "qsymwait" => kind = "qsym" /\ R <= 1
  /\ pc = "append" => R < target
  /\ pc = "resuming" => R <= act
  /\ pc = "pause" => R <= IF ret = "pool" THEN target + 1 ELSE target
  /\ pc = "pausing" => /\ ret = "pool" /\ R <= target + 1 /\ R <= act
                       /\ \A w \in Running : w < cursor
  /\ pc = "pausingall" => \A w \in Running : w > cursor

UInv == UnitsType /\ UnitsOfGroups /\ Bounded

LEMMA UnitsFacts ==
  ASSUME IInv, UnitsType
  PROVE  /\ R \in Nat /\ ActiveUnits = R /\ IsFiniteSet(Running)
         /\ Running \subseteq groups /\ Running \subseteq Workers
         /\ \A w \in Running : ~paused[w] /\ Alive(w) /\ units[w] \in Nat
<1>1. PoolType /\ EveryWorkerIsTracked
  BY DEF IInv
<1>2. Running \subseteq Workers /\ IsFiniteSet(Workers)
  <2>1. MaxForks \in Nat
    BY WorkerPoolAssumption
  <2> QED
    BY <2>1, FS_Interval DEF Workers, Running
<1>3. IsFiniteSet(Running)
  BY <1>2, FS_Subset
<1>4. \A w \in Running : ~paused[w] /\ Alive(w) /\ w \in groups
  BY <1>1 DEF EveryWorkerIsTracked, Alive, Running
<1>5. \A w \in Running : units[w] \in Nat
  BY <1>2 DEF UnitsType
<1>6. {w \in Survivors : ~paused[w]} = Running
  <2>1. \A w \in groups : Alive(w) /\ ~paused[w] => w \in Running
    BY <1>1 DEF PoolType, EveryWorkerIsTracked, Alive, Running
  <2> QED
    BY <1>1, <1>4, <2>1 DEF Survivors
<1>7. R \in Nat
  BY <1>3, <1>5, SumNat DEF R, UnitsOf
<1> QED
  BY <1>2, <1>3, <1>4, <1>5, <1>6, <1>7 DEF R, ActiveUnits

LEMMA SameUnits ==
  ASSUME UNCHANGED <<proc, units>>
  PROVE  R' = R /\ Running' = Running
BY DEF R, UnitsOf, Running

\* A worker that ran is stopped or has ended.
LEMMA LessRuns ==
  ASSUME IInv, UnitsType, UNCHANGED units, NEW w \in Workers, NEW s \in ProcState \ {"running"},
         proc' = [proc EXCEPT ![w] = s]
  PROVE  /\ Running' = Running \ {w}
         /\ R' = IF w \in Running THEN R - units[w] ELSE R
         /\ R' \in 0..R
<1>1. Running' = Running \ {w}
  BY DEF IInv, PoolType, Running
<1>2. R \in Nat /\ IsFiniteSet(Running) /\ \A v \in Running : units[v] \in Nat
  BY UnitsFacts
<1>3. CASE w \in Running
  <2>1. R = units[w] + R'
    BY <1>1, <1>2, <1>3, SumRemove DEF R, UnitsOf
  <2>2. R' \in Nat
    <3>1. IsFiniteSet(Running \ {w}) /\ \A v \in Running \ {w} : units[v] \in Nat
      BY <1>2, FS_RemoveElement
    <3>2. SumFunctionOnSet(units, Running \ {w}) \in Nat
      BY <3>1, SumNat
    <3> QED
      BY <1>1, <3>2 DEF R, UnitsOf
  <2> QED
    BY <1>1, <1>2, <1>3, <2>1, <2>2
<1>4. CASE w \notin Running
  <2>1. Running' = Running
    BY <1>1, <1>4
  <2>2. R' = R
    BY <2>1 DEF R, UnitsOf
  <2> QED
    BY <1>1, <1>2, <1>4, <2>2
<1> QED
  BY <1>3, <1>4

\* A stopped worker is continued.
LEMMA MoreRuns ==
  ASSUME IInv, UnitsType, UNCHANGED units, NEW w \in Workers, w \notin Running,
         proc' = [proc EXCEPT ![w] = "running"]
  PROVE  Running' = Running \cup {w} /\ R' = R + units[w]
<1>1. Running' = Running \cup {w}
  BY DEF IInv, PoolType, Running
<1>2. R \in Nat /\ IsFiniteSet(Running) /\ \A v \in Running \cup {w} : units[v] \in Nat
  BY UnitsFacts DEF UnitsType
<1>3. R' = units[w] + R
  BY <1>1, <1>2, SumAdd DEF R, UnitsOf
<1> QED
  BY <1>1, <1>2, <1>3

\* A worker is forked.
LEMMA ForkRuns ==
  ASSUME IInv, UnitsType, NEW base, NEW u \in Nat, NEW ix, Push(base, u, ix)
  PROVE  /\ Running' = Running \cup {forks + 1} /\ R' = R + u
         /\ units' \in [Workers -> Nat] /\ forks + 1 \in Workers
<1> DEFINE n == forks + 1
<1>1. PoolType /\ Births
  BY DEF IInv
<1>p. forks < MaxForks /\ proc' = [proc EXCEPT ![n] = "running"] /\ units' = [units EXCEPT ![n] = u]
  BY DEF Push
<1>2. n \in Workers /\ n > forks
  BY <1>1, <1>p, NewWorker
<1> HIDE DEF n
<1>3. n \notin Running
  BY <1>1, <1>2 DEF Births, Running
<1>4. Running' = Running \cup {n}
  BY <1>1, <1>2, <1>p DEF PoolType, Running
<1>5. R \in Nat /\ IsFiniteSet(Running) /\ Running \subseteq Workers /\ \A v \in Running : units[v] \in Nat
  BY UnitsFacts
<1>6. units' \in [Workers -> Nat] /\ units'[n] = u /\ \A v \in Running : units'[v] = units[v]
  BY <1>2, <1>3, <1>5, <1>p DEF UnitsType
<1>7. SumFunctionOnSet(units', Running) = R
  BY <1>5, <1>6, SumCongruence DEF R, UnitsOf
<1>8. SumFunctionOnSet(units', Running \cup {n}) = u + SumFunctionOnSet(units', Running)
  <2>1. \A v \in Running \cup {n} : units'[v] \in Nat
    BY <1>2, <1>5, <1>6
  <2> QED
    BY <1>3, <1>5, <1>6, <2>1, SumAdd
<1>9. R' = R + u
  BY <1>4, <1>5, <1>7, <1>8 DEF R, UnitsOf
<1> QED
  BY <1>2, <1>4, <1>6, <1>9 DEF n

\* Every group is killed.
LEMMA NothingRuns ==
  ASSUME IInv, UnitsType, proc' = [w \in Workers |-> IF w \in groups THEN "dead" ELSE proc[w]]
  PROVE  Running' = {} /\ R' = 0
<1>1. Running \subseteq groups
  BY UnitsFacts
<1>2. Running' = {}
  BY <1>1 DEF Running
<1> QED
  BY <1>2, SumEmpty DEF R, UnitsOf

(***************************************************************************)
(* A step of the pool is a step of UnitPool, or none.                      *)
(***************************************************************************)

Pausing == {"pauseall", "pausingall", "stopall"}
Cap == IF pc \in Pausing THEN 0 ELSE IF pc # "idle" \/ inRound THEN target ELSE 0

Simulates == Pool!Next \/ UNCHANGED Pool!vars

LEMMA Stutters ==
  ASSUME (pc = "idle") <=> (pc' = "idle"), Cap' = Cap, R' = R, inRound' = inRound
  PROVE  Simulates
<1>1. (pc # "idle") = (pc # "idle")'
  BY Zenon
<1> QED
  BY <1>1 DEF Simulates, Pool!vars, Cap, Pausing, R

LEMMA Works ==
  ASSUME pc # "idle", pc' # "idle", Cap' = Cap, inRound' = inRound,
         R' \in 0..(IF Cap = 0 THEN R ELSE Cap + 1)
  PROVE  Simulates
BY DEF Simulates, Pool!Next, Pool!Work, Cap, Pausing, R

LEMMA Finishes ==
  ASSUME pc # "idle", pc' = "idle", R' \in 0..Cap, inRound' = (R' > 0), Cap' \in {0, Cap},
         Cap' = 0 => R' = 0
  PROVE  Simulates
<1>1. Pool!Finish
  BY DEF Pool!Finish, Cap, Pausing, R
<1> QED
  BY <1>1 DEF Simulates, Pool!Next

LEMMA Loses ==
  ASSUME pc' = pc, Cap' = Cap, inRound' = inRound, R' \in 0..(R - 1)
  PROVE  Simulates
<1>1. Pool!Lose
  BY DEF Pool!Lose, Cap, Pausing, R
<1> QED
  BY <1>1 DEF Simulates, Pool!Next

LEMMA Begins ==
  ASSUME pc = "idle", pc' # "idle", Cap' \in 0..(ResourceUnits + 1), inRound' = inRound, R' = R
  PROVE  Simulates
<1>1. Pool!Begin(Cap')
  BY DEF Pool!Begin, Cap, Pausing, R
<1> QED
  BY <1>1 DEF Simulates, Pool!Next

\* The steps that compact the pool: nothing starts or stops.
LEMMA CompactSteps ==
  ASSUME IInv, UInv,
         EnsureBegin \/ GrowDone \/ GrowCompact \/ ResumeBegin \/ ResumeEnd \/ PauseBegin \/ PauseEnd
         \/ PauseAllBegin
  PROVE  UInv' /\ Simulates
<1> USE DEF Goto
<1>1. UnitsType /\ UnitsOfGroups /\ Bounded /\ PoolType /\ Births
  BY DEF UInv, IInv
<1>2. /\ groups' \subseteq groups /\ UNCHANGED <<kind, proc, units, paused, target, inRound, forks>>
      /\ pc # "idle" /\ pc' # "idle" /\ pc' \in Labels /\ ret' \in {"pool", "final"}
      /\ pc' \in Pausing <=> pc \in Pausing
  BY <1>1 DEF EnsureBegin, GrowDone, GrowCompact, ResumeBegin, ResumeEnd, PauseBegin, PauseEnd,
              PauseAllBegin, Compact, Survivors, local, UnitsType, ReturnPoint, Labels, Body,
              AfterResume, Pausing
<1>3. R' = R /\ Running' = Running
  BY <1>2, SameUnits
<1>4. /\ R \in Nat /\ ActiveUnits = R /\ Running \subseteq groups /\ Running \subseteq Workers
      /\ \A w \in Running : ~paused[w] /\ Alive(w)
  BY <1>1, UnitsFacts
<1>5. Simulates
  <2>1. Cap' = Cap
    BY <1>2 DEF Cap
  <2> QED
    BY <1>2, <1>3, <2>1, Stutters
<1>6. UnitsType'
  <2>1. act' \in Int /\ cursor' \in Int
    BY <1>1, <1>4 DEF EnsureBegin, GrowDone, GrowCompact, ResumeBegin, ResumeEnd, PauseBegin, PauseEnd,
              PauseAllBegin, local, UnitsType, PoolType
  <2> QED
    BY <1>1, <1>2, <2>1 DEF UnitsType, ReturnPoint
<1>7. UnitsOfGroups'
  <2>1. pc' = "pool" \/ ret' = "pool" => kind = "afl"
    BY <1>1 DEF EnsureBegin, GrowDone, GrowCompact, ResumeBegin, ResumeEnd, PauseBegin, PauseEnd,
              PauseAllBegin, Body, AfterResume, UnitsOfGroups, local
  <2>2. pc' \in {"pauseall", "pausingall"} => pc \in {"pauseall", "pausingall"}
    BY <1>1 DEF EnsureBegin, GrowDone, GrowCompact, ResumeBegin, ResumeEnd, PauseBegin, PauseEnd,
              PauseAllBegin, Body, AfterResume, UnitsType, ReturnPoint
  <2> QED
    BY <1>1, <1>2, <2>1, <2>2 DEF UnitsOfGroups
<1>t. pc \in Ensuring => target >= 1 /\ (kind = "qsym" => target >= 2)
  BY <1>1 DEF Bounded
<1>8. CASE EnsureBegin
  <2>1. pc = "ensure" /\ pc' \in {"start", "pool", "resume"}
    BY <1>8 DEF EnsureBegin, Body
  <2>2. Bounded'
    BY <1>1, <1>2, <1>3, <2>1 DEF Bounded, Ensuring
  <2> QED
    BY <1>5, <1>6, <1>7, <2>2 DEF UInv
<1>9. CASE GrowDone \/ GrowCompact
  <2>1. /\ pc = "grow" /\ R <= target
        /\ (pc' = "pause" /\ ret' = "final") \/ (pc' = "append" /\ R < target)
    BY <1>1, <1>4, <1>9 DEF GrowDone, GrowCompact, Bounded, Ensuring
  <2>2. Bounded'
    BY <1>t, <1>2, <1>3, <2>1 DEF Bounded, Ensuring
  <2> QED
    BY <1>5, <1>6, <1>7, <2>2 DEF UInv
<1>10. CASE ResumeBegin \/ ResumeEnd
  <2>1. /\ pc \in {"resume", "resuming"} /\ R <= target
        /\ (pc' \in {"pause", "grow"} /\ ret' = "final") \/ (pc' = "resuming" /\ act' = R)
    BY <1>1, <1>4, <1>10 DEF ResumeBegin, ResumeEnd, Bounded, Ensuring, AfterResume
  <2>2. Bounded'
    BY <1>t, <1>2, <1>3, <1>4, <2>1 DEF Bounded, Ensuring
  <2> QED
    BY <1>5, <1>6, <1>7, <2>2 DEF UInv
<1>11. CASE PauseBegin
  <2>1. /\ pc = "pause" /\ act' = R /\ cursor' = forks + 1 /\ ret' = ret
        /\ R <= IF ret = "pool" THEN target + 1 ELSE target
        /\ (R <= target /\ pc' = ret) \/ (~(R <= target) /\ pc' = "pausing")
    BY <1>1, <1>4, <1>11 DEF PauseBegin, Bounded
  <2>2. ret \in {"pool", "final"}
    BY <1>1 DEF UnitsType, ReturnPoint
  <2>3. \A w \in Running : w < forks + 1
    <3>1. \A w \in Workers : w \in Int /\ forks \in Int
      BY <1>1 DEF Workers, PoolType
    <3>2. \A w \in Running : ~(w > forks)
      BY <1>1, <1>4 DEF Births, Alive
    <3> QED
      BY <1>4, <3>1, <3>2
  <2>4. Bounded'
    <3>1. CASE R <= target /\ pc' = ret
      BY <1>t, <1>2, <1>3, <2>1, <2>2, <3>1 DEF Bounded, Ensuring
    <3>2. CASE ~(R <= target) /\ pc' = "pausing"
      BY <1>t, <1>2, <1>3, <1>4, <2>1, <2>2, <2>3, <3>2 DEF Bounded, Ensuring
    <3> QED
      BY <2>1, <3>1, <3>2
  <2> QED
    BY <1>5, <1>6, <1>7, <2>4 DEF UInv
<1>12. CASE PauseEnd
  <2>1. pc = "pausing" /\ ret = "pool" /\ pc' = "pool" /\ ret' = ret /\ R <= act
        /\ \A w \in Running : w < cursor
    BY <1>1, <1>12 DEF PauseEnd, Bounded, local
  <2>2. act <= target \/ ToPause = {}
    BY <1>12 DEF PauseEnd
  <2>3. R <= target
    <3>0. act \in Int /\ target \in Nat
      BY <1>1 DEF UnitsType
    <3>1. CASE act <= target
      BY <1>4, <2>1, <3>0, <3>1
    <3>2. CASE ToPause = {} /\ ~(act <= target)
      <4>1. \A w \in groups : units[w] = 1
        BY <1>1, <2>1 DEF UnitsOfGroups
      <4>2. 1 <= act - target
        BY <3>0, <3>2
      <4>3. Running = {}
        BY <1>4, <2>1, <3>2, <4>1, <4>2 DEF ToPause
      <4>4. R = 0
        BY <4>3, SumEmpty DEF R, UnitsOf
      <4> QED
        BY <3>0, <4>4
    <3> QED
      BY <2>2, <3>1, <3>2
  <2>4. Bounded'
    BY <1>t, <1>2, <1>3, <2>1, <2>3 DEF Bounded, Ensuring
  <2> QED
    BY <1>5, <1>6, <1>7, <2>4 DEF UInv
<1>13. CASE PauseAllBegin
  <2>1. pc' = "pausingall" /\ cursor' = 0
    BY <1>13 DEF PauseAllBegin
  <2>2. \A w \in Running : w > 0
    BY <1>4 DEF Workers
  <2>3. Bounded'
    BY <1>3, <2>1, <2>2 DEF Bounded, Ensuring
  <2> QED
    BY <1>5, <1>6, <1>7, <2>3 DEF UInv
<1> QED
  BY <1>8, <1>9, <1>10, <1>11, <1>12, <1>13

\* The steps that fork a worker.
LEMMA ForkSteps ==
  ASSUME IInv, UInv, StartOk \/ QsymExecutorOk \/ PoolAppendOk \/ GrowAppendOk
  PROVE  UInv' /\ Simulates
<1> USE DEF Goto
<1>1. UnitsType /\ UnitsOfGroups /\ Bounded /\ PoolType /\ Births /\ EveryWorkerIsTracked
  BY DEF UInv, IInv
<1>2. /\ pc \in Ensuring /\ pc' \in Ensuring /\ ret' \in {"pool", "final"}
      /\ UNCHANGED <<kind, target, inRound, act, cursor>>
  BY <1>1 DEF StartOk, QsymExecutorOk, PoolAppendOk, GrowAppendOk, local, UnitsType, ReturnPoint, Body,
              Ensuring
<1>3. R \in Nat /\ target \in Nat /\ target >= 1 /\ (kind = "qsym" => target >= 2)
  BY <1>1, <1>2, UnitsFacts DEF UnitsType, Bounded
<1>4. PICK base \in SUBSET groups, u \in Nat, ix \in Int : Push(base, u, ix) /\ (kind # "fresh" => u = 1)
        /\ (u = 1 \/ (pc = "start" /\ u = target))
  <2>1. CASE StartOk
    BY <1>3, <2>1 DEF StartOk
  <2>2. CASE QsymExecutorOk \/ PoolAppendOk \/ GrowAppendOk
    BY <1>1, <2>2 DEF PoolType, QsymExecutorOk, PoolAppendOk, GrowAppendOk, Append
  <2> QED
    BY <2>1, <2>2
<1>5. R' = R + u /\ units' \in [Workers -> Nat] /\ forks + 1 \in Workers
  BY <1>1, <1>4, ForkRuns
<1>6. /\ groups' = base \cup {forks + 1} /\ units' = [units EXCEPT ![forks + 1] = u]
      /\ paused' = [paused EXCEPT ![forks + 1] = FALSE]
  BY <1>4 DEF Push
<1>7. pc = "start" => R = 0
  <2>1. pc = "start" => Running = {}
    BY <1>1, UnitsFacts DEF Births
  <2> QED
    BY <2>1, SumEmpty DEF R, UnitsOf
<1>8. UnitsType'
  BY <1>1, <1>2, <1>5 DEF UnitsType, ReturnPoint, Ensuring, Labels
<1>9. UnitsOfGroups'
  <2>1. kind # "fresh" => \A w \in groups' : units'[w] = 1
    <3>1. \A w \in groups' : w # forks + 1 => w \in groups /\ units'[w] = units[w]
      BY <1>1, <1>4, <1>6 DEF PoolType, UnitsType
    <3>2. units'[forks + 1] = u
      BY <1>1, <1>5, <1>6 DEF UnitsType
    <3> QED
      BY <1>1, <1>4, <3>1, <3>2 DEF UnitsOfGroups
  <2>2. kind = "fresh" => \A w \in Workers : ~paused'[w]
    BY <1>1, <1>6 DEF UnitsOfGroups, PoolType
  <2>3. pc' = "pool" \/ ret' = "pool" => kind = "afl"
    BY <1>1 DEF UnitsOfGroups, StartOk, QsymExecutorOk, PoolAppendOk, GrowAppendOk, Body, local
  <2> QED
    BY <1>2, <2>1, <2>2, <2>3 DEF UnitsOfGroups, Ensuring
<1>10. Bounded' /\ R' <= target + 1
  <2>1. CASE StartOk
    <3>1. pc = "start" /\ pc' \in {"qsymwait", "pool", "resume"} /\ (pc' = "qsymwait" => kind = "qsym")
      BY <2>1 DEF StartOk, Body
    <3>2. R' <= target /\ (pc' = "qsymwait" => R' <= 1)
      BY <1>3, <1>4, <1>5, <1>7, <3>1
    <3> QED
      BY <1>2, <1>3, <1>5, <3>1, <3>2 DEF Bounded, Ensuring
  <2>2. CASE QsymExecutorOk
    <3>1. pc = "qsymwait" /\ pc' = "resume" /\ u = 1 /\ R <= 1 /\ kind = "qsym"
      BY <1>1, <1>4, <2>2 DEF QsymExecutorOk, Bounded
    <3> QED
      BY <1>2, <1>3, <1>5, <3>1 DEF Bounded, Ensuring
  <2>3. CASE PoolAppendOk
    <3>1. pc = "pool" /\ pc' = "pause" /\ ret' = "pool" /\ u = 1 /\ R <= target
      BY <1>1, <1>4, <2>3 DEF PoolAppendOk, Bounded, Ensuring
    <3> QED
      BY <1>2, <1>3, <1>5, <3>1 DEF Bounded, Ensuring
  <2>4. CASE GrowAppendOk
    <3>1. pc = "append" /\ pc' = "grow" /\ u = 1 /\ R < target
      BY <1>1, <1>4, <2>4 DEF GrowAppendOk, Bounded
    <3> QED
      BY <1>2, <1>3, <1>5, <3>1 DEF Bounded, Ensuring
  <2> QED
    BY <2>1, <2>2, <2>3, <2>4
<1>11. Simulates
  <2>1. Cap' = Cap /\ Cap = target /\ pc # "idle" /\ pc' # "idle"
    BY <1>2 DEF Cap, Ensuring, Pausing
  <2>2. R' \in 0..(Cap + 1) /\ Cap # 0
    BY <1>3, <1>4, <1>5, <1>10, <2>1
  <2> QED
    BY <1>2, <2>1, <2>2, Works
<1> QED
  BY <1>8, <1>9, <1>10, <1>11 DEF UInv

\* The steps that fork nothing and go on.
LEMMA FailSteps ==
  ASSUME IInv, UInv, PoolAppendFail \/ PoolFull \/ GrowAppendFail
  PROVE  UInv' /\ Simulates
<1> USE DEF Goto
<1>1. UnitsType /\ UnitsOfGroups /\ Bounded
  BY DEF UInv
<1>2. /\ UNCHANGED <<kind, proc, groups, units, paused, target, inRound, act, cursor>>
      /\ pc \in {"pool", "append"} /\ pc' \in {"resume", "pause"} /\ (pc' = "pause" => ret' = "final")
      /\ ret' \in {ret, "final"}
  BY DEF PoolAppendFail, PoolFull, GrowAppendFail, NoFork, state, local
<1>3. R' = R /\ Running' = Running /\ R \in Nat /\ target \in Nat
  BY <1>1, <1>2, SameUnits, UnitsFacts DEF UnitsType
<1>4. R <= target /\ target >= 1 /\ (kind = "qsym" => target >= 2)
  BY <1>1, <1>2, <1>3 DEF Bounded, Ensuring
<1>5. Bounded'
  BY <1>2, <1>3, <1>4 DEF Bounded, Ensuring
<1>6. UnitsType' /\ UnitsOfGroups'
  BY <1>1, <1>2 DEF UnitsType, UnitsOfGroups, ReturnPoint, Labels
<1>7. Simulates
  <2>1. Cap' = Cap /\ pc # "idle" /\ pc' # "idle"
    BY <1>2 DEF Cap, Pausing
  <2> QED
    BY <1>2, <1>3, <2>1, Stutters
<1> QED
  BY <1>5, <1>6, <1>7 DEF UInv

\* The steps that return.
LEMMA ReturnSteps ==
  ASSUME IInv, UInv, StartFail \/ QsymExecutorFail \/ EnsureReturn \/ PauseAllEnd \/ StopAll
  PROVE  UInv' /\ Simulates
<1> USE DEF Goto, Return
<1>1. UnitsType /\ UnitsOfGroups /\ Bounded /\ PoolType /\ Births
  BY DEF UInv, IInv
<1>2. /\ UNCHANGED <<kind, units, paused, target, act, cursor, ret>> /\ groups' \subseteq groups
      /\ pc # "idle" /\ pc' = "idle"
      /\ pc \in {"start", "qsymwait", "final", "pausingall", "stopall"}
  BY <1>1 DEF StartFail, QsymExecutorFail, EnsureReturn, PauseAllEnd, StopAll, NoFork, local, Compact,
              Survivors
<1>3. /\ R \in Nat /\ target \in Nat /\ Running \subseteq groups /\ ActiveUnits = R
      /\ \A w \in Running : ~paused[w]
  BY <1>1, UnitsFacts DEF UnitsType
<1>4. /\ R' \in Nat /\ R' <= target /\ (pc \in Pausing => R' = 0)
      /\ inRound' = (R' > 0)
  <2>1. CASE StartFail \/ PauseAllEnd
    <3>1. UNCHANGED <<proc, units>> /\ inRound' \in BOOLEAN /\ ~inRound'
      BY <2>1 DEF StartFail, PauseAllEnd, NoFork
    <3>2. Running = {}
      <4>1. CASE pc = "start"
        BY <1>1, <1>3, <4>1 DEF Births
      <4>2. CASE pc # "start"
        <5>1. pc = "pausingall" /\ ToPauseAll = {}
          BY <2>1, <4>2 DEF StartFail, PauseAllEnd
        <5>2. \A w \in Running : w > cursor
          BY <1>1, <5>1 DEF Bounded
        <5> QED
          BY <1>3, <5>1, <5>2 DEF ToPauseAll
      <4> QED
        BY <4>1, <4>2
    <3>3. R' = 0
      BY <3>1, <3>2, SameUnits, SumEmpty DEF R, UnitsOf
    <3>4. inRound' = (R' > 0)
      BY <3>1, <3>3
    <3> QED
      BY <1>3, <3>3, <3>4
  <2>2. CASE QsymExecutorFail \/ StopAll
    <3>1. R' = 0
      BY <1>1, <2>2, NothingRuns DEF QsymExecutorFail, StopAll
    <3>2. inRound' \in BOOLEAN /\ ~inRound'
      BY <2>2 DEF QsymExecutorFail, StopAll
    <3>3. inRound' = (R' > 0)
      BY <3>1, <3>2
    <3> QED
      BY <1>3, <3>1, <3>3
  <2>3. CASE EnsureReturn
    <3>1. UNCHANGED <<proc, units>> /\ pc = "final" /\ inRound' = (ActiveUnits > 0)
      BY <2>3 DEF EnsureReturn, Compact
    <3>2. R' = R /\ R <= target
      BY <1>1, <3>1, SameUnits DEF Bounded, Ensuring
    <3> QED
      BY <1>3, <3>1, <3>2 DEF Pausing
  <2> QED
    BY <2>1, <2>2, <2>3
<1>5. UnitsType' /\ UnitsOfGroups'
  BY <1>1, <1>2 DEF UnitsType, UnitsOfGroups, ReturnPoint, Labels
<1>b. inRound' <=> R' > 0
  BY <1>4
<1>6. Bounded'
  BY <1>2, <1>3, <1>4, <1>b DEF Bounded, Ensuring
<1>7. Simulates
  <2>1. Cap = (IF pc \in Pausing THEN 0 ELSE target) /\ Cap' = (IF inRound' THEN target ELSE 0)
    BY <1>2 DEF Cap, Pausing
  <2>2. R' \in 0..Cap /\ Cap' \in {0, Cap}
    BY <1>2, <1>3, <1>4, <1>b, <2>1
  <2>3. Cap' = 0 => R' = 0
    BY <1>3, <1>4, <1>b, <2>1
  <2> QED
    BY <1>2, <1>4, <2>2, <2>3, Finishes
<1> QED
  BY <1>5, <1>6, <1>7 DEF UInv

LEMMA FirstIsFirst ==
  ASSUME NEW S \in SUBSET Workers, S # {}
  PROVE  First(S) \in S /\ \A v \in S : First(S) <= v
<1>1. S \in SUBSET Nat
  BY DEF Workers
<1>2. \E w \in S : \A v \in S : w <= v
  BY <1>1, LeastNumber
<1> QED
  BY <1>2 DEF First

LEMMA LastIsLast ==
  ASSUME NEW S \in SUBSET Workers, S # {}
  PROVE  Last(S) \in S /\ \A v \in S : v <= Last(S)
<1> DEFINE N == {MaxForks - w : w \in S}
<1>0. MaxForks \in Nat /\ \A w \in S : w \in Nat /\ w <= MaxForks
  BY WorkerPoolAssumption DEF Workers
<1>1. N \in SUBSET Nat /\ N # {}
  BY <1>0
<1> HIDE DEF N
<1>2. PICK n \in N : \A m \in N : n <= m
  BY <1>1, LeastNumber
<1>3. PICK w \in S : n = MaxForks - w
  BY <1>2 DEF N
<1>4. \A v \in S : w >= v
  <2> SUFFICES ASSUME NEW v \in S PROVE w >= v
    OBVIOUS
  <2>1. MaxForks - v \in N
    BY DEF N
  <2>2. MaxForks - w <= MaxForks - v
    BY <1>2, <1>3, <2>1
  <2> QED
    BY <1>0, <2>2
<1>5. Last(S) \in S /\ \A v \in S : Last(S) >= v
  BY <1>4 DEF Last
<1> QED
  BY <1>0, <1>5

\* One turn of a loop that pauses or resumes.
LEMMA SignalSteps ==
  ASSUME IInv, UInv, ResumeOne \/ PauseOne \/ PauseAllOne
  PROVE  UInv' /\ Simulates
<1>1. UnitsType /\ UnitsOfGroups /\ Bounded /\ PoolType
  BY DEF UInv, IInv
<1>2. UNCHANGED <<kind, groups, units, pc, ret, target, inRound, forks>>
  BY DEF ResumeOne, PauseOne, PauseAllOne
<1>3. /\ R \in Nat /\ target \in Nat /\ Running \subseteq groups /\ Running \subseteq Workers
      /\ \A w \in Running : ~paused[w] /\ Alive(w) /\ units[w] \in Nat
  BY <1>1, UnitsFacts DEF UnitsType
<1>i. \A v \in Workers : v \in Int
  BY DEF Workers
<1>4. Cap' = Cap
  BY <1>2 DEF Cap
<1>5. CASE ResumeOne
  <2> DEFINE w == First(ToResume)
  <2>1. pc = "resuming" /\ act < target /\ ToResume # {} /\ ToResume \subseteq Workers
    BY <1>1, <1>5 DEF ResumeOne, ToResume, PoolType
  <2>2. w \in groups /\ paused[w] /\ w \in Workers
    <3>1. w \in ToResume
      BY <2>1, FirstIsFirst
    <3> QED
      BY <1>1, <3>1 DEF ToResume, PoolType
  <2>3. cursor' = w /\ (IF Alive(w)
          THEN /\ proc' = [proc EXCEPT ![w] = "running"]
               /\ paused' = [paused EXCEPT ![w] = FALSE]
               /\ act' = act + units[w]
          ELSE UNCHANGED <<proc, paused, act>>)
    BY <1>5 DEF ResumeOne
  <2> HIDE DEF w
  <2>4. kind # "fresh" /\ units[w] = 1 /\ w \notin Running
    BY <1>1, <1>3, <2>2 DEF UnitsOfGroups
  <2>5. act \in Int /\ R <= act /\ R <= target
    BY <1>1, <2>1 DEF Bounded, Ensuring, UnitsType
  <2>6. R' \in Nat /\ R' <= act' /\ R' <= target /\ act' \in Int
    <3>1. CASE Alive(w)
      <4>1. R' = R + 1 /\ act' = act + 1
        BY <1>1, <1>2, <2>2, <2>3, <2>4, <3>1, MoreRuns
      <4> QED
        BY <1>3, <2>1, <2>5, <4>1
    <3>2. CASE ~Alive(w)
      BY <1>2, <1>3, <2>3, <2>5, <3>2, SameUnits
    <3> QED
      BY <3>1, <3>2
  <2>7. UnitsType' /\ UnitsOfGroups'
    BY <1>1, <1>2, <1>i, <2>2, <2>3, <2>4, <2>6 DEF UnitsType, UnitsOfGroups, ReturnPoint
  <2>8. Bounded'
    BY <1>1, <1>2, <2>1, <2>6 DEF Bounded, Ensuring
  <2>9. Cap = target /\ R' \in 0..(IF Cap = 0 THEN R ELSE Cap + 1) /\ pc # "idle"
    <3>1. Cap = target /\ pc # "idle" /\ target # 0
      BY <1>1, <1>3, <2>1 DEF Cap, Pausing, Bounded, Ensuring
    <3> QED
      BY <1>3, <2>6, <3>1
  <2> QED
    BY <1>2, <1>4, <2>7, <2>8, <2>9, Works DEF UInv
<1>6. CASE PauseOne
  <2> DEFINE w == Last(ToPause)
  <2>1. pc = "pausing" /\ act > target /\ ToPause # {} /\ ToPause \subseteq Workers
    BY <1>1, <1>6 DEF PauseOne, ToPause, PoolType
  <2>2. w \in groups /\ w \in Workers /\ ~paused[w] /\ \A v \in ToPause : v <= w
    <3>1. w \in ToPause /\ \A v \in ToPause : v <= w
      BY <2>1, LastIsLast
    <3> QED
      BY <1>1, <3>1 DEF ToPause, PoolType
  <2>3. cursor' = w /\ StopSignal(w) /\ act' = IF Alive(w) THEN act - units[w] ELSE act
    BY <1>6 DEF PauseOne
  <2> HIDE DEF w
  <2>4. /\ ret = "pool" /\ kind = "afl" /\ \A v \in groups : units[v] = 1
        /\ R <= target + 1 /\ R <= act /\ act \in Int /\ \A v \in Running : v < cursor
    BY <1>1, <2>1 DEF Bounded, UnitsOfGroups, UnitsType
  <2>5. \A v \in Running : v \in ToPause
    <3>1. 1 <= act - target
      BY <1>3, <2>1, <2>4
    <3> QED
      BY <1>3, <2>4, <3>1 DEF ToPause
  <2>6. /\ Running' = Running \ {w} /\ R' \in Nat /\ R' <= R /\ R' <= act' /\ act' \in Int
        /\ \A v \in Workers : paused'[v] => paused[v] \/ v = w
    <3>1. CASE Alive(w)
      <4>1. proc' = [proc EXCEPT ![w] = "stopped"] /\ paused' = [paused EXCEPT ![w] = TRUE]
        BY <2>3, <3>1 DEF StopSignal
      <4>2. w \in Running
        BY <2>2, <3>1 DEF IInv, EveryWorkerIsTracked, Alive, Running
      <4>3. Running' = Running \ {w} /\ R' = R - 1 /\ R' \in 0..R
        BY <1>1, <1>2, <2>2, <2>4, <4>1, <4>2, LessRuns DEF ProcState
      <4>5. act' = act - 1
        BY <2>2, <2>3, <2>4, <3>1
      <4> QED
        BY <1>1, <1>3, <2>4, <4>1, <4>3, <4>5 DEF PoolType
    <3>2. CASE ~Alive(w)
      <4>1. UNCHANGED <<proc, paused>> /\ act' = act
        BY <2>3, <3>2 DEF StopSignal
      <4>2. R' = R /\ Running' = Running /\ w \notin Running
        BY <1>2, <1>3, <3>2, <4>1, SameUnits
      <4> QED
        BY <1>3, <2>4, <4>1, <4>2
    <3> QED
      BY <3>1, <3>2
  <2>7. \A v \in Running' : v < w
    BY <1>3, <1>i, <2>2, <2>5, <2>6
  <2>8. UnitsType' /\ UnitsOfGroups'
    BY <1>1, <1>2, <1>i, <2>1, <2>2, <2>3, <2>4, <2>6 DEF UnitsType, UnitsOfGroups, ReturnPoint
  <2>9. R' <= target + 1
    BY <1>3, <2>4, <2>6
  <2>10. Bounded'
    BY <1>1, <1>2, <2>1, <2>3, <2>4, <2>6, <2>7, <2>9 DEF Bounded, Ensuring
  <2>11. R' \in 0..(IF Cap = 0 THEN R ELSE Cap + 1) /\ pc # "idle"
    <3>1. Cap = target
      BY <2>1 DEF Cap, Pausing
    <3> QED
      BY <1>3, <2>1, <2>6, <2>9, <3>1
  <2> QED
    BY <1>2, <1>4, <2>8, <2>10, <2>11, Works DEF UInv
<1>7. CASE PauseAllOne
  <2> DEFINE w == First(ToPauseAll)
  <2>1. pc = "pausingall" /\ ToPauseAll # {} /\ ToPauseAll \subseteq Workers
    BY <1>1, <1>7 DEF PauseAllOne, ToPauseAll, PoolType
  <2>2. w \in Workers /\ \A v \in ToPauseAll : w <= v
    BY <2>1, FirstIsFirst
  <2>3. cursor' = w /\ StopSignal(w) /\ act' = act
    BY <1>7 DEF PauseAllOne
  <2> HIDE DEF w
  <2>4. kind # "fresh" /\ \A v \in Running : v > cursor
    BY <1>1, <2>1 DEF UnitsOfGroups, Bounded
  <2>5. \A v \in Running : v \in ToPauseAll
    BY <1>3, <2>4 DEF ToPauseAll
  <2>6. Running' = Running \ {w} /\ R' \in 0..R
    <3>1. CASE Alive(w)
      <4>1. proc' = [proc EXCEPT ![w] = "stopped"]
        BY <2>3, <3>1 DEF StopSignal
      <4> QED
        BY <1>1, <1>2, <2>2, <4>1, LessRuns DEF ProcState
    <3>2. CASE ~Alive(w)
      BY <1>2, <1>3, <2>3, <3>2, SameUnits DEF StopSignal
    <3> QED
      BY <3>1, <3>2
  <2>7. \A v \in Running' : v > w
    BY <1>3, <1>i, <2>2, <2>5, <2>6
  <2>8. UnitsType' /\ UnitsOfGroups'
    BY <1>1, <1>2, <1>i, <2>2, <2>3, <2>4 DEF UnitsType, UnitsOfGroups, ReturnPoint
  <2>9. Bounded'
    BY <1>2, <2>1, <2>3, <2>7 DEF Bounded, Ensuring
  <2>10. Cap = 0 /\ pc # "idle"
    BY <2>1 DEF Cap, Pausing
  <2> QED
    BY <1>2, <1>4, <2>6, <2>8, <2>9, <2>10, Works DEF UInv
<1> QED
  BY <1>5, <1>6, <1>7

\* The calls of the round scheduler.
LEMMA CallSteps ==
  ASSUME IInv, UInv, Scheduler
  PROVE  UInv' /\ Simulates
<1> USE DEF Goto
<1>1. UnitsType /\ UnitsOfGroups /\ Bounded
  BY DEF UInv
<1>2. /\ pc = "idle" /\ groups' \subseteq groups
      /\ UNCHANGED <<kind, proc, units, paused, ret, cursor, act, inRound>>
  BY DEF Scheduler, CallRoundStart, CallBoost, CallPoll, CallPause, CallShutdown, Call, Compact,
         Survivors, state, local
<1>3. R' = R /\ Running' = Running /\ R \in Nat /\ target \in Nat
  BY <1>1, <1>2, SameUnits, UnitsFacts DEF UnitsType
<1>4. R <= IF inRound THEN target ELSE 0
  BY <1>1, <1>2 DEF Bounded
<1>5. CASE \E n \in 1..ResourceUnits : CallRoundStart(n) \/ CallBoost(n)
  <2>1. PICK n \in 1..ResourceUnits : CallRoundStart(n) \/ CallBoost(n)
    BY <1>5
  <2>2. /\ pc' = "ensure" /\ target' = RuntimeUnits(n)
        /\ ~inRound \/ RuntimeUnits(n) > target
    BY <2>1 DEF CallRoundStart, CallBoost, Call
  <2>3. target' \in 1..(ResourceUnits + 1) /\ (kind = "qsym" => target' >= 2)
    BY <2>2, WorkerPoolAssumption DEF RuntimeUnits
  <2>4. R <= target'
    BY <1>3, <1>4, <2>2, <2>3
  <2>5. UnitsType' /\ UnitsOfGroups'
    BY <1>1, <1>2, <2>2, <2>3, WorkerPoolAssumption
    DEF UnitsType, UnitsOfGroups, ReturnPoint, Labels
  <2>6. Bounded'
    BY <1>2, <1>3, <2>2, <2>3, <2>4 DEF Bounded, Ensuring
  <2>7. Simulates
    <3>1. Cap' = target'
      BY <2>2 DEF Cap, Pausing
    <3>2. Cap' \in 0..(ResourceUnits + 1)
      BY <2>3, <3>1, WorkerPoolAssumption
    <3> QED
      BY <1>2, <1>3, <2>2, <3>2, Begins
  <2> QED
    BY <2>5, <2>6, <2>7 DEF UInv
<1>6. CASE CallPoll
  <2>1. pc' = "idle" /\ target' = target
    BY <1>6 DEF CallPoll, Call, local
  <2>2. UnitsType' /\ UnitsOfGroups' /\ Bounded'
    BY <1>1, <1>2, <1>3, <1>4, <2>1 DEF UnitsType, UnitsOfGroups, ReturnPoint, Bounded, Ensuring
  <2>3. Cap' = Cap
    BY <1>2, <2>1 DEF Cap
  <2> QED
    BY <1>2, <1>3, <2>1, <2>2, <2>3, Stutters DEF UInv
<1>7. CASE CallPause \/ CallShutdown
  <2>1. pc' \in {"pauseall", "stopall"} /\ target' = target /\ (kind = "fresh" => pc' = "stopall")
    BY <1>7 DEF CallPause, CallShutdown, Call, local
  <2>2. UnitsType' /\ UnitsOfGroups' /\ Bounded'
    BY <1>1, <1>2, <1>3, <2>1 DEF UnitsType, UnitsOfGroups, ReturnPoint, Bounded, Ensuring, Labels
  <2>3. Cap' = 0 /\ 0 \in 0..(ResourceUnits + 1)
    BY <2>1, WorkerPoolAssumption DEF Cap, Pausing
  <2> QED
    BY <1>2, <1>3, <2>1, <2>2, <2>3, Begins DEF UInv
<1> QED
  BY <1>5, <1>6, <1>7 DEF Scheduler

LEMMA ExitStep ==
  ASSUME IInv, UInv, NEW w \in Workers, Exit(w)
  PROVE  UInv' /\ Simulates
<1>1. UnitsType /\ UnitsOfGroups /\ Bounded
  BY DEF UInv
<1>2. /\ proc' = [proc EXCEPT ![w] = "dead"]
      /\ UNCHANGED <<kind, groups, units, paused, pc, ret, target, cursor, act, inRound>>
  BY DEF Exit, state, local
<1>3. Running' = Running \ {w} /\ R' \in 0..R
  BY <1>1, <1>2, LessRuns DEF ProcState
<1>4. R \in Nat /\ target \in Nat /\ act \in Int
  BY <1>1, UnitsFacts DEF UnitsType
<1>5. UnitsType' /\ UnitsOfGroups'
  BY <1>1, <1>2 DEF UnitsType, UnitsOfGroups, ReturnPoint
<1>6. \A b \in Int : R <= b => R' <= b
  BY <1>3, <1>4
<1>7. Bounded'
  <2>1. R' <= target + 1 \/ ~(R <= target + 1)
    BY <1>4, <1>6
  <2>2. pc = "append" => R' < target
    BY <1>1, <1>3, <1>4 DEF Bounded
  <2>3. pc = "qsymwait" => R' <= 1
    BY <1>1, <1>6 DEF Bounded
  <2>4. \A b \in {target, 0, act} : R <= b => R' <= b
    BY <1>4, <1>6
  <2> QED
    BY <1>1, <1>2, <1>3, <2>1, <2>2, <2>3, <2>4 DEF Bounded
<1>8. Simulates
  <2>1. Cap' = Cap
    BY <1>2 DEF Cap
  <2>2. CASE R' = R
    BY <1>2, <2>1, <2>2, Stutters
  <2>3. CASE R' # R
    <3>1. R' \in 0..(R - 1)
      BY <1>3, <1>4, <2>3
    <3> QED
      BY <1>2, <2>1, <3>1, Loses
  <2> QED
    BY <2>2, <2>3
<1> QED
  BY <1>5, <1>7, <1>8 DEF UInv

LEMMA InitUnits == Init => UInv /\ Pool!Init
<1> SUFFICES ASSUME Init PROVE UInv /\ Pool!Init
  OBVIOUS
<1>1. Running = {}
  BY DEF Init, Running
<1>2. R = 0
  BY <1>1, SumEmpty DEF R, UnitsOf
<1>3. UnitsType
  BY WorkerPoolAssumption DEF Init, UnitsType, ReturnPoint, Labels
<1>4. UnitsOfGroups /\ Bounded
  BY <1>2 DEF Init, UnitsOfGroups, Bounded, Ensuring
<1>5. Pool!Init
  BY <1>2 DEF Init, Pool!Init, R
<1> QED
  BY <1>3, <1>4, <1>5 DEF UInv

LEMMA NextUnits == IInv /\ UInv /\ [Next]_vars => UInv' /\ Simulates
<1> SUFFICES ASSUME IInv, UInv, [Next]_vars PROVE UInv' /\ Simulates
  OBVIOUS
<1>1. CASE Controller
  BY <1>1, CompactSteps, ForkSteps, FailSteps, ReturnSteps, SignalSteps DEF Controller
<1>2. CASE Scheduler
  BY <1>2, CallSteps
<1>3. ASSUME NEW w \in Workers, Exit(w) PROVE UInv' /\ Simulates
  BY <1>3, ExitStep
<1>4. CASE UNCHANGED vars
  <2>1. UNCHANGED <<kind, proc, groups, units, paused, pc, ret, target, cursor, act, inRound>>
    BY <1>4 DEF vars, state, local
  <2>2. R' = R /\ Running' = Running
    BY <2>1, SameUnits
  <2>3. UInv'
    BY <2>1, <2>2 DEF UInv, UnitsType, UnitsOfGroups, Bounded, ReturnPoint
  <2>4. Cap' = Cap
    BY <2>1 DEF Cap
  <2> QED
    BY <2>1, <2>2, <2>3, <2>4, Stutters
<1> QED
  BY <1>1, <1>2, <1>3, <1>4 DEF Next

\* What run_one_round relies on: every step of the pool, between any two of
\* which workers exit, is a step of UnitPool or changes nothing it sees.
THEOREM PoolTheorem == Spec => ImplementsUnitPool
<1>1. Init => IInv /\ ReturnPoint /\ UInv /\ Pool!Init
  BY InitIInv, InitReturn, InitUnits
<1>2. IInv /\ ReturnPoint /\ UInv /\ [Next]_vars => IInv' /\ ReturnPoint' /\ UInv' /\ Simulates
  BY NextIInv, ReturnStep, NextUnits
<1>3. Simulates => [Pool!Next]_Pool!vars
  BY DEF Simulates
<1> QED
  BY <1>1, <1>2, <1>3, PTL DEF Spec, ImplementsUnitPool, Pool!Spec

(***************************************************************************)
(* A call that nothing disturbs.  All its groups are alive; resuming goes  *)
(* from the oldest group on; the AFL pool is full when it is resumed, and  *)
(* the other pools append what is missing.                                 *)
(***************************************************************************)

Resumed == pc \in {"grow", "append", "final"} \/ (pc = "pause" /\ ret = "final")

Delivering ==
  /\ kind = "single" => \A v, w \in groups : v = w
  /\ pc \in Ensuring /\ kind = "afl" => target <= ResourceUnits
  /\ pc = "ensure" => R < target
  /\ pc = "qsymwait" => \A w \in groups : ~paused[w]
  /\ pc = "resume" /\ kind # "afl" => R < target \/ \A w \in groups : ~paused[w]
  /\ clean =>
       /\ pc \in Ensuring \ {"ensure", "start"} => groups # {} /\ \A w \in groups : Alive(w)
       /\ pc \in {"resume", "resuming"} /\ kind = "afl" => UnitsOf(groups) >= ResourceUnits
       /\ pc = "resuming" => /\ act = R /\ (cursor = 0 => act < target)
                             /\ cursor = 0 \/ cursor \in groups
                             /\ \A w \in groups : w <= cursor => ~paused[w]
       /\ Resumed /\ kind # "afl" => First(groups) \in Running
       /\ Resumed /\ kind = "afl" => R = target
       /\ pc = "final" \/ (pc = "pause" /\ ret = "final") => kind = "single" \/ R = target

\* Compacting a pool without dead groups leaves it as it is.
LEMMA AllSurvive ==
  ASSUME \A w \in groups : Alive(w), Compact
  PROVE  groups' = groups
BY DEF Survivors, Compact

LEMMA AllRun ==
  ASSUME IInv, UnitsType, \A w \in groups : Alive(w) /\ ~paused[w]
  PROVE  Running = groups
<1>1. PoolType /\ EveryWorkerIsTracked
  BY DEF IInv
<1>2. Running \subseteq groups
  BY UnitsFacts
<1> QED
  BY <1>1, <1>2 DEF PoolType, EveryWorkerIsTracked, Alive, Running

\* The steps that compact the pool.
LEMMA CompactDelivers ==
  ASSUME IInv, UInv, UInv', Delivering,
         EnsureBegin \/ GrowDone \/ GrowCompact \/ ResumeBegin \/ ResumeEnd \/ PauseBegin \/ PauseEnd
         \/ PauseAllBegin
  PROVE  Delivering'
<1> USE DEF Goto
<1>1. UnitsType /\ UnitsOfGroups /\ Bounded /\ PoolType /\ Bounded' /\ UnitsType'
  BY DEF UInv, IInv
<1>2. /\ groups' = Survivors /\ UNCHANGED <<kind, proc, units, paused, target, forks, clean>>
      /\ Compact
  BY DEF EnsureBegin, GrowDone, GrowCompact, ResumeBegin, ResumeEnd, PauseBegin, PauseEnd,
         PauseAllBegin, Compact, local
<1>3. R' = R /\ Running' = Running
  BY <1>2, SameUnits
<1>4. /\ R \in Nat /\ ActiveUnits = R /\ Running \subseteq groups /\ target \in Nat
      /\ \A w \in Running : ~paused[w] /\ Alive(w)
  BY <1>1, UnitsFacts DEF UnitsType
<1>5. \A w \in Workers : Alive(w)' <=> Alive(w)
  BY <1>2 DEF Alive
<1>6. groups' \subseteq groups /\ groups' \subseteq Workers /\ \A w \in groups' : Alive(w)'
  BY <1>1, <1>2, <1>5 DEF Survivors, PoolType
<1>7. kind' = "single" => \A v, w \in groups' : v = w
  BY <1>2, <1>6 DEF Delivering
<1>8. CASE EnsureBegin
  <2>1. /\ pc = "ensure" /\ pc' \in {"start", "pool", "resume"} /\ (pc' = "resume" => kind # "afl")
        /\ (pc' # "start" => groups' # {})
    BY <1>2, <1>8 DEF EnsureBegin, Body
  <2>2. R < target /\ (kind = "afl" => target <= ResourceUnits)
    BY <2>1 DEF Delivering, Ensuring
  <2> QED
    BY <1>2, <1>3, <1>6, <1>7, <2>1, <2>2 DEF Delivering, Ensuring, Resumed
<1>9. CASE PauseAllBegin
  <2>1. pc' = "pausingall"
    BY <1>9 DEF PauseAllBegin
  <2> QED
    BY <1>7, <2>1 DEF Delivering, Ensuring, Resumed
<1>10. CASE ~EnsureBegin /\ ~PauseAllBegin
  <2>1. pc \in Ensuring \ {"ensure", "start"} /\ pc' \notin {"ensure", "start", "resume"}
    BY <1>1, <1>10 DEF GrowDone, GrowCompact, ResumeBegin, ResumeEnd, PauseBegin, PauseEnd, Ensuring,
                       AfterResume, UnitsType, ReturnPoint
  <2>2. kind = "afl" => target <= ResourceUnits
    BY <2>1 DEF Delivering
  <2>3. CASE ~clean
    <3>1. pc' # "qsymwait"
      BY <1>1, <1>10 DEF GrowDone, GrowCompact, ResumeBegin, ResumeEnd, PauseBegin, PauseEnd,
                         AfterResume, UnitsType, ReturnPoint
    <3> QED
      BY <1>2, <1>7, <2>1, <2>2, <2>3, <3>1 DEF Delivering
  <2>4. CASE clean
    <3>1. groups # {} /\ \A w \in groups : Alive(w)
      BY <2>1, <2>4 DEF Delivering
    <3>2. groups' = groups
      BY <1>2, <3>1, AllSurvive
    <3>3. CASE GrowDone \/ GrowCompact
      <4>1. /\ pc = "grow" /\ R <= target
            /\ \/ pc' = "pause" /\ ret' = "final" /\ R >= target
               \/ pc' = "append"
        BY <1>1, <1>4, <3>3 DEF GrowDone, GrowCompact, Bounded, Ensuring
      <4>2. (kind # "afl" => First(groups) \in Running) /\ (kind = "afl" => R = target)
        BY <2>4, <4>1 DEF Delivering, Resumed
      <4>3. pc' = "pause" => R = target
        BY <1>4, <4>1
      <4> QED
        BY <1>2, <1>3, <1>6, <1>7, <2>1, <2>2, <3>1, <3>2, <4>1, <4>2, <4>3
        DEF Delivering, Resumed
    <3>4. CASE ResumeBegin
      <4>1. /\ pc = "resume" /\ R <= target /\ cursor' = 0
            /\ \/ /\ ret' = "final" /\ R >= target /\ pc' = IF kind = "afl" THEN "pause" ELSE "grow"
               \/ pc' = "resuming" /\ act' = R /\ R < target
        BY <1>1, <1>4, <3>4 DEF ResumeBegin, Bounded, Ensuring, AfterResume
      <4>2. CASE pc' = "resuming"
        <5>1. kind = "afl" => UnitsOf(groups) >= ResourceUnits
          BY <2>4, <4>1 DEF Delivering
        <5>2. UnitsOf(groups)' = UnitsOf(groups)
          BY <1>2, <3>2 DEF UnitsOf
        <5>3. \A w \in groups : ~(w <= 0)
          BY <1>1 DEF PoolType, Workers
        <5> QED
          BY <1>2, <1>3, <1>4, <1>6, <1>7, <2>2, <3>1, <3>2, <4>1, <4>2, <5>1, <5>2, <5>3
          DEF Delivering, Resumed
      <4>3. CASE pc' # "resuming"
        <5>1. R = target
          BY <1>4, <4>1, <4>3
        <5>2. kind # "afl" => First(groups) \in Running
          <6>1. kind # "afl" => \A w \in groups : ~paused[w]
            BY <1>4, <4>1, <5>1 DEF Delivering
          <6>2. kind # "afl" => Running = groups
            BY <1>1, <3>1, <6>1, AllRun
          <6> QED
            BY <1>1, <3>1, <6>2, FirstIsFirst DEF PoolType
        <5> QED
          BY <1>2, <1>3, <1>6, <1>7, <2>1, <2>2, <3>1, <3>2, <4>1, <4>3, <5>1, <5>2
          DEF Delivering, Resumed
      <4> QED
        BY <4>2, <4>3
    <3>5. CASE ResumeEnd
      <4>1. /\ pc = "resuming" /\ R <= target /\ ret' = "final"
            /\ pc' = IF kind = "afl" THEN "pause" ELSE "grow"
            /\ act >= target \/ ToResume = {}
        BY <1>1, <3>5 DEF ResumeEnd, Bounded, Ensuring, AfterResume
      <4>2. /\ act = R /\ (cursor = 0 => act < target) /\ (cursor = 0 \/ cursor \in groups)
            /\ \A w \in groups : w <= cursor => ~paused[w]
            /\ kind = "afl" => UnitsOf(groups) >= ResourceUnits
        BY <2>4, <4>1 DEF Delivering
      <4>i. cursor \in Int /\ \A w \in groups : w \in Int /\ w > 0
        BY <1>1 DEF UnitsType, PoolType, Workers
      <4>3. ToResume = {} => Running = groups
        <5>1. ToResume = {} => \A w \in groups : ~paused[w]
          BY <4>2, <4>i DEF ToResume
        <5> QED
          BY <1>1, <3>1, <5>1, AllRun
      <4>4. First(groups) \in groups /\ \A v \in groups : First(groups) <= v
        BY <1>1, <3>1, FirstIsFirst DEF PoolType
      <4>5. First(groups) \in Running
        <5>1. CASE ToResume = {}
          BY <4>3, <4>4, <5>1
        <5>2. CASE ToResume # {}
          <6>1. cursor \in groups
            BY <1>4, <4>1, <4>2, <5>2
          <6>2. ~paused[First(groups)]
            BY <4>2, <4>4, <6>1
          <6> QED
            BY <1>1, <3>1, <4>4, <6>2 DEF IInv, PoolType, EveryWorkerIsTracked, Alive, Running
        <5> QED
          BY <5>1, <5>2
      <4>6. kind = "afl" => R = target
        <5>1. CASE act >= target
          BY <1>4, <4>1, <4>2, <5>1
        <5>2. CASE ToResume = {}
          <6>1. kind = "afl" => R >= ResourceUnits
            BY <4>2, <4>3, <5>2 DEF R
          <6> QED
            BY <1>4, <2>2, <4>1, <6>1, WorkerPoolAssumption
        <5> QED
          BY <4>1, <5>1, <5>2
      <4> QED
        BY <1>2, <1>3, <1>6, <1>7, <2>1, <2>2, <3>1, <3>2, <4>1, <4>5, <4>6 DEF Delivering, Resumed
    <3>6. CASE PauseBegin
      <4>1. pc = "pause" /\ ret' = ret /\ pc' \in {ret, "pausing"} /\ ret \in {"pool", "final"}
        BY <1>1, <3>6 DEF PauseBegin, UnitsType, ReturnPoint
      <4>2. ret = "final" => /\ kind # "afl" => First(groups) \in Running
                             /\ kind = "single" \/ R = target
                             /\ kind = "afl" => R = target
        BY <2>4, <4>1 DEF Delivering, Resumed
      <4> QED
        BY <1>2, <1>3, <1>6, <1>7, <2>1, <2>2, <3>1, <3>2, <4>1, <4>2 DEF Delivering, Resumed
    <3>7. CASE PauseEnd
      <4>1. pc' = "pool"
        BY <1>1, <3>7 DEF PauseEnd, Bounded
      <4> QED
        BY <1>2, <1>6, <1>7, <2>1, <2>2, <3>1, <3>2, <4>1 DEF Delivering, Resumed
    <3> QED
      BY <1>10, <3>3, <3>4, <3>5, <3>6, <3>7
  <2> QED
    BY <2>3, <2>4
<1> QED
  BY <1>8, <1>9, <1>10

\* The steps that fork a worker: it is the youngest of the pool and runs.
LEMMA ForkDelivers ==
  ASSUME IInv, UInv, Delivering, StartOk \/ QsymExecutorOk \/ PoolAppendOk \/ GrowAppendOk
  PROVE  Delivering'
<1> USE DEF Goto
<1>1. UnitsType /\ Bounded /\ PoolType /\ Births /\ UnitsOfGroups
  BY DEF UInv, IInv
<1> DEFINE n == forks + 1
<1>2. PICK base \in SUBSET groups, u \in Nat, ix \in Int :
        /\ Push(base, u, ix)
        /\ pc = "start" => base = {}
        /\ pc # "start" => base = groups
  <2>1. CASE StartOk
    BY <1>1, <2>1 DEF StartOk, UnitsType
  <2>2. CASE QsymExecutorOk \/ PoolAppendOk \/ GrowAppendOk
    BY <1>1, <2>2 DEF PoolType, QsymExecutorOk, PoolAppendOk, GrowAppendOk, Append
  <2> QED
    BY <2>1, <2>2
<1>3. /\ groups' = base \cup {n} /\ paused' = [paused EXCEPT ![n] = FALSE]
      /\ proc' = [proc EXCEPT ![n] = "running"] /\ forks < MaxForks
  BY <1>2 DEF Push
<1>4. n \in Workers /\ n > forks /\ Running' = Running \cup {n}
  BY <1>1, <1>2, <1>3, NewWorker, ForkRuns
<1> HIDE DEF n
<1>5. forks \in Int /\ n \in Int /\ \A w \in groups : w \in Workers /\ w \in Int /\ w <= forks
  <2>1. forks \in Int /\ n \in Int /\ \A w \in groups : w \in Workers /\ w \in Int
    BY <1>1, <1>4 DEF PoolType, Workers
  <2>2. \A w \in groups : ~(w > forks)
    BY <1>1, <2>1 DEF Births
  <2> QED
    BY <2>1, <2>2
<1>6. \A w \in groups : w # n /\ paused'[w] = paused[w] /\ (Alive(w)' <=> Alive(w))
  <2>1. \A w \in groups : w # n
    BY <1>4, <1>5
  <2>2. \A w \in groups : paused'[w] = paused[w] /\ proc'[w] = proc[w]
    BY <1>1, <1>3, <1>5, <2>1 DEF PoolType
  <2> QED
    BY <2>1, <2>2 DEF Alive
<1>7. paused'[n] = FALSE /\ proc'[n] = "running"
  BY <1>1, <1>3, <1>4 DEF PoolType, Alive
<1>8. UNCHANGED <<kind, target, clean>> /\ groups' # {} /\ pc \in Ensuring \ {"ensure"}
  BY <1>3 DEF StartOk, QsymExecutorOk, PoolAppendOk, GrowAppendOk, local, Ensuring
<1>9. kind = "afl" => target <= ResourceUnits
  BY <1>8 DEF Delivering
<1>10. clean => \A w \in groups' : Alive(w)'
  <2>1. clean /\ pc # "start" => \A w \in groups : Alive(w)
    BY <1>8 DEF Delivering
  <2>2. clean => \A w \in base : Alive(w)
    BY <1>2, <2>1
  <2> QED
    BY <1>3, <1>6, <1>7, <2>2 DEF Alive
<1>11. CASE StartOk
  <2>1. pc = "start" /\ pc' \in {"qsymwait", "pool", "resume"} /\ (pc' = "resume" => kind # "afl")
    BY <1>11 DEF StartOk, Body
  <2>2. groups' = {n}
    BY <1>2, <1>3, <2>1
  <2>3. \A w \in groups' : ~paused'[w]
    BY <1>7, <2>2
  <2> QED
    BY <1>8, <1>9, <1>10, <2>1, <2>2, <2>3 DEF Delivering, Resumed
<1>12. CASE QsymExecutorOk
  <2>1. pc = "qsymwait" /\ pc' = "resume" /\ kind = "qsym" /\ groups' = groups \cup {n}
    BY <1>1, <1>2, <1>3, <1>12 DEF QsymExecutorOk, Bounded
  <2>2. \A w \in groups : ~paused[w]
    BY <2>1 DEF Delivering
  <2>3. \A w \in groups' : ~paused'[w]
    BY <1>6, <1>7, <2>1, <2>2
  <2> QED
    BY <1>8, <1>10, <2>1, <2>3 DEF Delivering, Resumed
<1>13. CASE PoolAppendOk
  <2>1. pc' = "pause" /\ ret' = "pool" /\ kind = "afl"
    BY <1>1, <1>13 DEF PoolAppendOk, UnitsOfGroups
  <2> QED
    BY <1>8, <1>9, <1>10, <2>1 DEF Delivering, Resumed
<1>14. CASE GrowAppendOk
  <2>1. pc = "append" /\ pc' = "grow" /\ kind # "single" /\ groups' = groups \cup {n}
    BY <1>2, <1>3, <1>14 DEF GrowAppendOk
  <2>2. clean /\ kind # "afl" => First(groups') \in Running'
    <3> SUFFICES ASSUME clean, kind # "afl" PROVE First(groups') \in Running'
      OBVIOUS
    <3>1. groups # {} /\ First(groups) \in Running
      BY <1>8, <2>1 DEF Delivering, Resumed
    <3>2. First(groups) \in groups /\ \A v \in groups : First(groups) <= v
      BY <1>1, <3>1, FirstIsFirst DEF PoolType
    <3>3. groups' \in SUBSET Workers /\ n \in Int /\ forks \in Int
      BY <1>1, <1>4, <2>1 DEF PoolType, Workers
    <3>4. First(groups') \in groups' /\ \A v \in groups' : First(groups') <= v
      BY <1>8, <3>3, FirstIsFirst
    <3>5. First(groups') = First(groups)
      <4>1. \A v \in groups : v < n
        BY <1>4, <1>5, <3>3
      <4>2. First(groups') <= First(groups)
        BY <2>1, <3>2, <3>4
      <4>3. First(groups') # n
        BY <1>5, <3>2, <3>3, <4>1, <4>2
      <4>4. First(groups) <= First(groups')
        BY <2>1, <3>2, <3>4, <4>3
      <4>5. First(groups) \in Int /\ First(groups') \in Int
        BY <1>5, <2>1, <3>2, <3>4, <4>3
      <4> QED
        BY <4>2, <4>4, <4>5
    <3> QED
      BY <1>4, <3>1, <3>5
  <2>3. clean => kind # "afl"
    <3>1. clean /\ kind = "afl" => R = target
      BY <2>1 DEF Delivering, Resumed
    <3>2. R < target /\ R \in Nat /\ target \in Nat
      BY <1>1, <2>1, UnitsFacts DEF Bounded, UnitsType
    <3> QED
      BY <3>1, <3>2
  <2> QED
    BY <1>8, <1>9, <1>10, <2>1, <2>2, <2>3 DEF Delivering, Resumed
<1> QED
  BY <1>11, <1>12, <1>13, <1>14

\* The steps that fork nothing and go on: a clean call leaves the loop that
\* fills the AFL pool only when the pool is full.
LEMMA FailDelivers ==
  ASSUME IInv, UInv, Delivering, PoolAppendFail \/ PoolFull \/ GrowAppendFail
  PROVE  Delivering'
<1> USE DEF Goto
<1>1. UnitsType /\ UnitsOfGroups /\ Bounded
  BY DEF UInv
<1>2. /\ UNCHANGED <<kind, proc, groups, units, paused, target>>
      /\ pc \in {"pool", "append"} /\ pc' \in {"resume", "pause"}
      /\ pc = "pool" => pc' = "resume" /\ kind = "afl"
      /\ pc = "append" => pc' = "pause" /\ ret' = "final"
  BY <1>1 DEF PoolAppendFail, PoolFull, GrowAppendFail, NoFork, state, local, UnitsOfGroups
<1>3. R' = R /\ Running' = Running /\ UnitsOf(groups)' = UnitsOf(groups)
  BY <1>2, SameUnits DEF UnitsOf
<1>4. \A w \in groups : Alive(w)' <=> Alive(w)
  BY <1>2 DEF Alive
<1>5. kind = "afl" => target <= ResourceUnits
  BY <1>2 DEF Delivering, Ensuring
<1>6. clean' => /\ clean
                /\ pc = "pool" => UnitsOf(groups) >= ResourceUnits
                /\ pc = "append" => kind = "single"
  BY DEF PoolAppendFail, PoolFull, GrowAppendFail, NoFork
<1>7. clean => groups # {} /\ \A w \in groups : Alive(w)
  BY <1>2 DEF Delivering, Ensuring
<1>8. clean /\ pc = "append" /\ kind # "afl" => First(groups) \in Running
  BY DEF Delivering, Resumed
<1>9. kind = "single" => \A v, w \in groups : v = w
  BY DEF Delivering
<1>10. CASE pc = "pool"
  BY <1>2, <1>3, <1>4, <1>5, <1>6, <1>7, <1>9, <1>10 DEF Delivering, Resumed
<1>11. CASE pc = "append"
  BY <1>2, <1>3, <1>4, <1>5, <1>6, <1>7, <1>8, <1>9, <1>11 DEF Delivering, Resumed
<1> QED
  BY <1>2, <1>10, <1>11

LEMMA ReturnDelivers ==
  ASSUME IInv, Delivering, StartFail \/ QsymExecutorFail \/ EnsureReturn \/ PauseAllEnd \/ StopAll
  PROVE  Delivering'
<1>1. pc' = "idle" /\ groups' \subseteq groups /\ kind' = kind
  BY DEF StartFail, QsymExecutorFail, EnsureReturn, PauseAllEnd, StopAll, Return, Goto, NoFork, Compact,
         Survivors
<1> QED
  BY <1>1 DEF Delivering, Ensuring, Resumed

\* One turn of a loop: the oldest paused group is resumed, and counted.
LEMMA SignalDelivers ==
  ASSUME IInv, UInv, Delivering, ResumeOne \/ PauseOne \/ PauseAllOne
  PROVE  Delivering'
<1>1. UnitsType /\ UnitsOfGroups /\ Bounded /\ PoolType
  BY DEF UInv, IInv
<1>2. UNCHANGED <<kind, groups, units, pc, ret, target, clean>>
  BY DEF ResumeOne, PauseOne, PauseAllOne
<1>3. kind = "single" => \A v, w \in groups : v = w
  BY DEF Delivering
<1>4. CASE ResumeOne
  <2> DEFINE w == First(ToResume)
  <2>1. pc = "resuming" /\ act < target /\ ToResume # {} /\ ToResume \subseteq Workers
    BY <1>1, <1>4 DEF ResumeOne, ToResume, PoolType
  <2>2. w \in groups /\ w > cursor /\ paused[w] /\ w \in Workers /\ \A v \in ToResume : w <= v
    <3>1. w \in ToResume /\ \A v \in ToResume : w <= v
      BY <2>1, FirstIsFirst
    <3> QED
      BY <1>1, <3>1 DEF ToResume, PoolType
  <2>3. cursor' = w /\ (IF Alive(w)
          THEN /\ proc' = [proc EXCEPT ![w] = "running"]
               /\ paused' = [paused EXCEPT ![w] = FALSE]
               /\ act' = act + units[w]
          ELSE UNCHANGED <<proc, paused, act>>)
    BY <1>4 DEF ResumeOne
  <2>i. cursor \in Int /\ \A v \in groups : v \in Int /\ v \in Workers /\ v > 0
    BY <1>1 DEF UnitsType, PoolType, Workers
  <2> HIDE DEF w
  <2>4. kind = "afl" => target <= ResourceUnits
    BY <2>1 DEF Delivering, Ensuring
  <2>5. UnitsOf(groups)' = UnitsOf(groups)
    BY <1>2 DEF UnitsOf
  <2>6. CASE ~clean
    BY <1>2, <1>3, <2>1, <2>4, <2>6 DEF Delivering
  <2>7. CASE clean
    <3>1. /\ groups # {} /\ \A v \in groups : Alive(v)
          /\ kind = "afl" => UnitsOf(groups) >= ResourceUnits
          /\ act = R /\ \A v \in groups : v <= cursor => ~paused[v]
      BY <2>1, <2>7 DEF Delivering, Ensuring
    <3>2. /\ proc' = [proc EXCEPT ![w] = "running"] /\ paused' = [paused EXCEPT ![w] = FALSE]
          /\ act' = act + units[w]
      BY <2>2, <2>3, <3>1
    <3>3. w \notin Running
      BY <1>1, <2>2, UnitsFacts
    <3>4. act' = R'
      BY <1>1, <1>2, <2>2, <3>1, <3>2, <3>3, MoreRuns
    <3>5. \A v \in groups : Alive(v)'
      BY <1>1, <2>i, <3>1, <3>2 DEF PoolType, Alive
    <3>6. \A v \in groups : v <= w => ~paused'[v]
      <4> SUFFICES ASSUME NEW v \in groups, v <= w PROVE ~paused'[v]
        OBVIOUS
      <4>1. CASE v = w
        BY <1>1, <2>2, <3>2, <4>1 DEF PoolType
      <4>2. CASE v # w
        <5>1. v < w /\ v \notin ToResume
          BY <2>2, <2>i, <4>2
        <5>2. ~paused[v]
          BY <2>i, <3>1, <5>1 DEF ToResume
        <5> QED
          BY <1>1, <2>i, <3>2, <4>2, <5>2 DEF PoolType
      <4> QED
        BY <4>1, <4>2
    <3>7. w # 0
      BY <2>2, <2>i
    <3> QED
      BY <1>2, <1>3, <2>1, <2>2, <2>3, <2>4, <2>5, <3>1, <3>4, <3>5, <3>6, <3>7
      DEF Delivering, Resumed
  <2> QED
    BY <2>6, <2>7
<1>5. CASE PauseOne \/ PauseAllOne
  <2>1. pc \in {"pausing", "pausingall"}
    BY <1>5 DEF PauseOne, PauseAllOne
  <2>2. \A v \in groups : Alive(v) => Alive(v)'
    <3>1. PICK w : StopSignal(w)
      BY <1>5 DEF PauseOne, PauseAllOne
    <3> QED
      BY <1>1, <3>1 DEF PoolType, StopSignal, Alive
  <2>3. pc = "pausing" /\ kind = "afl" => target <= ResourceUnits
    BY DEF Delivering, Ensuring
  <2>4. pc = "pausing" /\ clean => groups # {} /\ \A w \in groups : Alive(w)
    BY DEF Delivering, Ensuring
  <2> QED
    BY <1>2, <1>3, <2>1, <2>2, <2>3, <2>4 DEF Delivering, Ensuring, Resumed
<1> QED
  BY <1>4, <1>5

\* A call asks for more than runs.
LEMMA CallDelivers ==
  ASSUME IInv, UInv, Delivering, Scheduler
  PROVE  Delivering'
<1> USE DEF Goto
<1>1. UnitsType /\ Bounded
  BY DEF UInv
<1>2. pc = "idle" /\ groups' \subseteq groups /\ UNCHANGED <<kind, proc, units>>
  BY DEF Scheduler, CallRoundStart, CallBoost, CallPoll, CallPause, CallShutdown, Call, Compact,
         Survivors, state, local
<1>3. R' = R /\ R \in Nat /\ target \in Nat
  BY <1>1, <1>2, SameUnits, UnitsFacts DEF UnitsType
<1>4. R <= IF inRound THEN target ELSE 0
  BY <1>1, <1>2 DEF Bounded
<1>5. kind' = "single" => \A v, w \in groups' : v = w
  BY <1>2 DEF Delivering
<1>6. CASE \E n \in 1..ResourceUnits : CallRoundStart(n) \/ CallBoost(n)
  <2>1. PICK n \in 1..ResourceUnits : CallRoundStart(n) \/ CallBoost(n)
    BY <1>6
  <2>2. /\ pc' = "ensure" /\ target' = RuntimeUnits(n)
        /\ ~inRound \/ RuntimeUnits(n) > target
    BY <2>1 DEF CallRoundStart, CallBoost, Call
  <2>3. target' \in 1..(ResourceUnits + 1) /\ (kind = "afl" => target' <= ResourceUnits)
    BY <2>2, WorkerPoolAssumption DEF RuntimeUnits
  <2>4. R' < target'
    BY <1>3, <1>4, <2>2, <2>3
  <2> QED
    BY <1>2, <1>5, <2>2, <2>3, <2>4 DEF Delivering, Resumed
<1>7. CASE CallPoll \/ CallPause \/ CallShutdown
  <2>1. pc' \in {"idle", "pauseall", "stopall"}
    BY <1>7 DEF CallPoll, CallPause, CallShutdown, Call
  <2> QED
    BY <1>5, <2>1 DEF Delivering, Ensuring, Resumed
<1> QED
  BY <1>6, <1>7 DEF Scheduler

LEMMA ExitDelivers ==
  ASSUME IInv, UInv, Delivering, NEW w \in Workers, Exit(w)
  PROVE  Delivering'
<1>1. UnitsType
  BY DEF UInv
<1>2. /\ proc' = [proc EXCEPT ![w] = "dead"] /\ ~clean'
      /\ UNCHANGED <<kind, groups, units, paused, pc, target>>
  BY DEF Exit, state, local
<1>3. R' \in 0..R /\ R \in Nat /\ target \in Nat
  <2>1. R' \in 0..R
    BY <1>1, <1>2, LessRuns DEF ProcState
  <2> QED
    BY <1>1, <2>1, UnitsFacts DEF UnitsType
<1>4. R < target => R' < target
  BY <1>3
<1> QED
  BY <1>2, <1>4 DEF Delivering

LEMMA NextDelivers == IInv /\ UInv /\ UInv' /\ Delivering /\ [Next]_vars => Delivering'
<1> SUFFICES ASSUME IInv, UInv, UInv', Delivering, [Next]_vars PROVE Delivering'
  OBVIOUS
<1>1. CASE Controller
  BY <1>1, CompactDelivers, ForkDelivers, FailDelivers, ReturnDelivers, SignalDelivers DEF Controller
<1>2. CASE Scheduler
  BY <1>2, CallDelivers
<1>3. ASSUME NEW w \in Workers, Exit(w) PROVE Delivering'
  BY <1>3, ExitDelivers
<1>4. CASE UNCHANGED vars
  <2>1. UNCHANGED <<kind, proc, groups, units, paused, pc, ret, target, cursor, act, clean>>
    BY <1>4 DEF vars, state, local
  <2>2. R' = R /\ Running' = Running /\ UnitsOf(groups)' = UnitsOf(groups)
    BY <2>1, SameUnits DEF UnitsOf
  <2>3. \A w \in groups : Alive(w)' <=> Alive(w)
    BY <2>1 DEF Alive
  <2> QED
    BY <2>1, <2>2, <2>3 DEF Delivering, Resumed
<1> QED
  BY <1>1, <1>2, <1>3, <1>4 DEF Next

\* The answer of a call that nothing disturbed.
LEMMA CleanReturn ==
  ASSUME IInv, UInv, Delivering, EnsureReturn, clean
  PROVE  inRound' /\ Delivered'
<1>1. UnitsType /\ UnitsOfGroups /\ Bounded
  BY DEF UInv
<1>2. /\ pc = "final" /\ Compact /\ inRound' = (ActiveUnits > 0)
      /\ UNCHANGED <<kind, proc, units, target>>
  BY DEF EnsureReturn, Return, Compact, local
<1>3. groups # {} /\ \A w \in groups : Alive(w)
  BY <1>2 DEF Delivering, Ensuring
<1>4. groups' = groups /\ R' = R /\ Running' = Running
  BY <1>2, <1>3, AllSurvive, SameUnits
<1>5. /\ R \in Nat /\ ActiveUnits = R /\ IsFiniteSet(Running) /\ Running \subseteq groups
      /\ \A w \in Running : units[w] \in Nat
  BY <1>1, UnitsFacts
<1>6. /\ kind # "afl" => First(groups) \in Running
      /\ kind = "single" \/ R = target
      /\ kind = "single" => \A v, w \in groups : v = w
  BY <1>2 DEF Delivering, Resumed
<1>7. R = IF kind = "single" THEN 1 ELSE target
  <2>1. CASE kind = "single"
    <3>1. PICK w \in Running : Running = {w}
      BY <1>5, <1>6, <2>1
    <3>2. units[w] = 1
      BY <1>1, <1>5, <2>1, <3>1 DEF UnitsOfGroups
    <3>3. R = units[w] + SumFunctionOnSet(units, Running \ {w})
      BY <1>5, <3>1, SumRemove DEF R, UnitsOf
    <3>4. Running \ {w} = {}
      BY <3>1
    <3> QED
      BY <2>1, <3>2, <3>3, <3>4, SumEmpty
  <2> QED
    BY <1>6, <2>1
<1>8. R > 0 /\ target >= 1
  BY <1>1, <1>2, <1>5, <1>7 DEF Bounded, Ensuring
<1>9. inRound'
  BY <1>2, <1>5, <1>8
<1> QED
  BY <1>2, <1>4, <1>6, <1>7, <1>9 DEF Delivered, R

\* A call of ensure_active_round_fuzzer_units during which no worker exited
\* and no fork failed answers true and delivers exactly what was asked.
THEOREM DeliversTheorem == Spec => CleanCallDelivers
<1> DEFINE Ended == pc \in {"start", "qsymwait", "final"} /\ pc' = "idle" /\ clean'
           Delivers == [Ended => inRound' /\ Delivered']_vars
<1>1. Init => IInv /\ ReturnPoint /\ UInv /\ Delivering
  BY InitIInv, InitReturn, InitUnits DEF Init, Delivering, Ensuring, Resumed
<1>2. IInv /\ ReturnPoint /\ UInv /\ Delivering /\ [Next]_vars
        => IInv' /\ ReturnPoint' /\ UInv' /\ Delivering' /\ Delivers
  <2> SUFFICES ASSUME IInv, ReturnPoint, UInv, Delivering, [Next]_vars
               PROVE  IInv' /\ ReturnPoint' /\ UInv' /\ Delivering' /\ Delivers
    OBVIOUS
  <2>1. IInv' /\ ReturnPoint' /\ UInv' /\ Delivering'
    BY NextIInv, ReturnStep, NextUnits, NextDelivers
  <2>2. ASSUME Ended, Next PROVE EnsureReturn /\ clean
    <3>1. ~Scheduler
      BY <2>2 DEF Scheduler, CallRoundStart, CallBoost, CallPoll, CallPause, CallShutdown, Call
    <3>2. \A w \in Workers : ~Exit(w)
      BY <2>2 DEF Exit
    <3>3. Controller
      BY <2>2, <3>1, <3>2 DEF Next
    <3>4. StartFail \/ QsymExecutorFail \/ EnsureReturn
      BY <2>2, <3>3
      DEF Controller, EnsureBegin, StartOk, QsymExecutorOk, PoolAppendOk, PoolAppendFail, PoolFull,
          GrowDone, GrowCompact, GrowAppendOk, GrowAppendFail, ResumeBegin, ResumeOne, ResumeEnd,
          PauseBegin, PauseOne, PauseEnd, PauseAllBegin, PauseAllOne, PauseAllEnd, StopAll, Goto, Body
    <3> QED
      BY <2>2, <3>4 DEF StartFail, QsymExecutorFail, EnsureReturn, NoFork
  <2>3. Delivers
    BY <2>2, CleanReturn
  <2> QED
    BY <2>1, <2>3
<1> QED
  BY <1>1, <1>2, PTL DEF Spec, CleanCallDelivers
(***************************************************************************)
(* The types: the counters of the pool stay within one unit of the budget. *)
(***************************************************************************)

\* The groups and their numbers; only QSYM is asked for more than the budget.
Slots ==
  /\ kind \in Kinds /\ units \in [Workers -> 0..ResourceUnits]
  /\ index \in [Workers -> -1..MaxForks] /\ nextIndex <= forks + 1
  /\ kind # "qsym" => target <= ResourceUnits

\* scheduled_units and active_units; a unit is appended only where there is room.
Counters ==
  /\ scheduled \in 0..(ResourceUnits + 1) /\ act \in 0..(ResourceUnits + 1)
  /\ cursor \in 0..(MaxForks + 1)
  /\ pc = "pool" => scheduled <= target
  /\ pc = "append" => scheduled < target
  /\ pc = "pauseall" => R <= target

Flags ==
  /\ active \in BOOLEAN /\ inRound \in BOOLEAN /\ clean \in BOOLEAN
  /\ exits \in 0..MaxExits /\ calls \in 0..MaxCalls

LEMMA InitTypes == Init => Slots /\ Counters /\ Flags
<1> SUFFICES ASSUME Init PROVE Slots /\ Counters /\ Flags
  OBVIOUS
<1>1. ResourceUnits \in Nat /\ MaxForks \in Nat /\ MaxExits \in Nat /\ MaxCalls \in Nat
  BY WorkerPoolAssumption
<1>2. Slots
  BY <1>1 DEF Init, Slots
<1>3. Counters
  BY <1>1 DEF Init, Counters
<1>4. active \in BOOLEAN /\ inRound \in BOOLEAN /\ clean \in BOOLEAN
  BY Zenon DEF Init
<1>5. exits \in 0..MaxExits /\ calls \in 0..MaxCalls
  BY <1>1 DEF Init
<1> QED
  BY <1>2, <1>3, <1>4, <1>5 DEF Flags

LEMMA FlagsStep ==
  ASSUME Flags, [Next]_vars
  PROVE  Flags'
<1>1. MaxExits \in Nat /\ MaxCalls \in Nat
  BY WorkerPoolAssumption
<1>2. exits' \in 0..MaxExits /\ calls' \in 0..MaxCalls
  <2>1. CASE Controller \/ UNCHANGED vars
    BY <2>1 DEF Flags, vars, Controller, EnsureBegin, StartOk, StartFail,
       QsymExecutorOk, QsymExecutorFail, PoolAppendOk, PoolAppendFail, PoolFull, GrowDone, GrowCompact,
       GrowAppendOk, GrowAppendFail, ResumeBegin, ResumeOne, ResumeEnd, PauseBegin, PauseOne, PauseEnd,
       EnsureReturn, PauseAllBegin, PauseAllOne, PauseAllEnd, StopAll
  <2>2. CASE Scheduler
    BY <1>1, <2>2 DEF Flags, Scheduler, CallRoundStart, CallBoost, CallPoll, CallPause, CallShutdown, Call
  <2>3. CASE \E w \in Workers : Exit(w)
    BY <1>1, <2>3 DEF Flags, Exit
  <2> QED
    BY <2>1, <2>2, <2>3 DEF Next
<1>3. active' \in BOOLEAN
  <2>1. CASE Compact
    BY <2>1 DEF Compact
  <2>2. CASE StartOk
    BY <2>2 DEF StartOk
  <2>3. CASE Append \/ active' \in {TRUE, FALSE} \/ active' = active
    BY <2>3 DEF Append, Flags
  <2>4. Compact \/ StartOk \/ Append \/ active' \in {TRUE, FALSE} \/ active' = active
    BY DEF Next, vars, state, Controller, Scheduler, EnsureBegin, StartFail, QsymExecutorOk,
       QsymExecutorFail, PoolAppendOk, PoolAppendFail, PoolFull, GrowDone,
       GrowCompact, GrowAppendOk, GrowAppendFail, ResumeBegin, ResumeOne, ResumeEnd, PauseBegin,
       PauseOne, PauseEnd, EnsureReturn, PauseAllBegin, PauseAllOne, PauseAllEnd, StopAll,
       CallRoundStart, CallBoost, CallPoll, CallPause, CallShutdown, Exit
  <2> QED
    BY <2>1, <2>2, <2>3, <2>4
<1>4. inRound' \in BOOLEAN
  <2>1. CASE EnsureReturn
    BY <2>1 DEF EnsureReturn, Return
  <2>2. CASE Return(FALSE) \/ inRound' = inRound
    BY <2>2 DEF Return, Flags
  <2>3. EnsureReturn \/ Return(FALSE) \/ inRound' = inRound
    BY DEF Next, vars, Controller, Scheduler, EnsureBegin, StartOk,
       StartFail, QsymExecutorOk, QsymExecutorFail, PoolAppendOk, PoolAppendFail, PoolFull, GrowDone,
       GrowCompact, GrowAppendOk, GrowAppendFail, ResumeBegin, ResumeOne, ResumeEnd, PauseBegin,
       PauseOne, PauseEnd, PauseAllBegin, PauseAllOne, PauseAllEnd, StopAll,
       CallRoundStart, CallBoost, CallPoll, CallPause, CallShutdown, Exit
  <2> QED
    BY <2>1, <2>2, <2>3
<1>5. clean' \in BOOLEAN
  BY DEF Flags, Next, vars, NoFork, Controller, Scheduler, EnsureBegin, StartOk,
       StartFail, QsymExecutorOk, QsymExecutorFail, PoolAppendOk, PoolAppendFail, PoolFull, GrowDone,
       GrowCompact, GrowAppendOk, GrowAppendFail, ResumeBegin, ResumeOne, ResumeEnd, PauseBegin,
       PauseOne, PauseEnd, EnsureReturn, PauseAllBegin, PauseAllOne, PauseAllEnd, StopAll,
       CallRoundStart, CallBoost, CallPoll, CallPause, CallShutdown, Exit
<1> QED
  BY <1>2, <1>3, <1>4, <1>5 DEF Flags

\* A fork fills a slot.
LEMMA PushSlots ==
  ASSUME IInv, Slots, NEW base, NEW u \in 0..ResourceUnits, NEW ix \in -1..nextIndex,
         Push(base, u, ix), nextIndex' \in {1, nextIndex, nextIndex + 1}, UNCHANGED <<kind, target>>
  PROVE  Slots'
<1>1. /\ forks \in 0..MaxForks /\ MaxForks \in Nat /\ nextIndex \in Nat /\ nextIndex >= 1
      /\ nextIndex <= forks + 1
  BY WorkerPoolAssumption DEF IInv, PoolType, Slots
<1>2. /\ forks < MaxForks /\ forks' = forks + 1 /\ units' = [units EXCEPT ![forks + 1] = u]
      /\ index' = [index EXCEPT ![forks + 1] = ix]
  BY DEF Push
<1>3. ix \in -1..MaxForks
  BY <1>1, <1>2
<1>4. nextIndex' <= forks' + 1
  BY <1>1, <1>2
<1>5. units' \in [Workers -> 0..ResourceUnits] /\ index' \in [Workers -> -1..MaxForks]
  BY <1>2, <1>3 DEF Slots
<1> QED
  BY <1>4, <1>5 DEF Slots

LEMMA SlotsStep ==
  ASSUME IInv, UInv, Slots, [Next]_vars
  PROVE  Slots'
<1>1. /\ ResourceUnits \in Nat /\ 1 \in 0..ResourceUnits /\ target \in 0..(ResourceUnits + 1)
      /\ kind \in AllKinds /\ nextIndex \in Nat /\ nextIndex >= 1
  BY WorkerPoolAssumption DEF UInv, UnitsType, IInv, PoolType
<1>2. -1 \in -1..nextIndex /\ 0 \in -1..nextIndex /\ nextIndex \in -1..nextIndex
  BY <1>1
<1>3. CASE StartOk
  <2> DEFINE u == IF kind = "fresh" THEN target ELSE 1
             ix == IF kind \in {"afl", "qsym"} THEN 0 ELSE -1
  <2>1. Push({}, u, ix) /\ nextIndex' = 1 /\ UNCHANGED <<kind, target>>
    BY <1>3 DEF StartOk, local
  <2>2. u \in 0..ResourceUnits /\ ix \in -1..nextIndex
    BY <1>1, <1>2 DEF Slots
  <2> HIDE DEF u, ix
  <2> QED
    BY <2>1, <2>2, PushSlots
<1>4. CASE QsymExecutorOk
  BY <1>1, <1>2, <1>4, PushSlots DEF QsymExecutorOk, local
<1>5. CASE PoolAppendOk \/ GrowAppendOk
  <2> DEFINE ix == IF kind \in {"afl", "qsym"} THEN nextIndex ELSE -1
  <2>1. Push(groups, 1, ix) /\ nextIndex' = nextIndex + 1 /\ UNCHANGED <<kind, target>>
    BY <1>5 DEF PoolAppendOk, GrowAppendOk, Append, local
  <2>2. ix \in -1..nextIndex
    BY <1>2
  <2> HIDE DEF ix
  <2> QED
    BY <1>1, <2>1, <2>2, PushSlots
<1>6. CASE UNCHANGED <<kind, units, index, nextIndex, forks, target>>
  BY <1>6 DEF Slots
<1>7. ASSUME NEW n \in 1..ResourceUnits, CallRoundStart(n) \/ CallBoost(n) PROVE Slots'
  <2>1. UNCHANGED <<kind, units, index, nextIndex, forks>> /\ target' = RuntimeUnits(n)
    BY <1>7 DEF CallRoundStart, CallBoost, state
  <2>2. kind # "qsym" => target' <= ResourceUnits
    BY <1>1, <2>1 DEF RuntimeUnits
  <2> QED
    BY <2>1, <2>2 DEF Slots
<1>8. \/ StartOk \/ QsymExecutorOk \/ PoolAppendOk \/ GrowAppendOk
      \/ \E n \in 1..ResourceUnits : CallRoundStart(n) \/ CallBoost(n)
      \/ UNCHANGED <<kind, units, index, nextIndex, forks, target>>
  BY DEF Next, vars, state, local, Compact, NoFork, Controller, Scheduler, EnsureBegin,
       StartFail, QsymExecutorFail, PoolAppendFail, PoolFull, GrowDone,
       GrowCompact, GrowAppendFail, ResumeBegin, ResumeOne, ResumeEnd, PauseBegin,
       PauseOne, PauseEnd, EnsureReturn, PauseAllBegin, PauseAllOne, PauseAllEnd, StopAll,
       CallPoll, CallPause, CallShutdown, Exit
<1> QED
  BY <1>3, <1>4, <1>5, <1>6, <1>7, <1>8

\* Where compact_active_round_fuzzer_groups is called, what runs is within one
\* unit of the budget: the AFL pool is asked for no more than the budget and
\* QSYM's pool is not prestarted.
LEMMA Room ==
  ASSUME IInv, UInv, Slots, Counters, pc \in Ensuring \cup {"idle", "pauseall"}
  PROVE  R \in 0..(ResourceUnits + 1)
<1>1. /\ ResourceUnits \in Nat /\ target \in 0..(ResourceUnits + 1) /\ R \in Nat
      /\ UnitsOfGroups /\ Bounded
  BY UnitsFacts, WorkerPoolAssumption DEF UInv, UnitsType
<1>2. CASE pc \in {"pause", "pausing"}
  <2>1. R <= target \/ (ret = "pool" /\ R <= target + 1)
    BY <1>1, <1>2 DEF Bounded
  <2>2. ret = "pool" => target <= ResourceUnits
    BY <1>1 DEF UnitsOfGroups, Slots
  <2> QED
    BY <1>1, <2>1, <2>2
<1>3. CASE pc \in Ensuring \ {"pause", "pausing"}
  BY <1>1, <1>3 DEF Bounded
<1>4. CASE pc = "idle"
  BY <1>1, <1>4 DEF Bounded
<1>5. CASE pc = "pauseall"
  BY <1>1, <1>5 DEF Counters
<1> QED
  BY <1>2, <1>3, <1>4, <1>5

LEMMA CountersCompact ==
  ASSUME IInv, UInv, UInv', Slots, Counters, Compact, UNCHANGED <<proc, target>>,
         pc \in Ensuring \cup {"idle", "pauseall"}, pc' # "pauseall",
         act' \in {act, ActiveUnits}, cursor' \in {cursor, 0, forks + 1}
  PROVE  Counters'
<1>1. /\ R \in 0..(ResourceUnits + 1) /\ ActiveUnits = R /\ scheduled' = ActiveUnits /\ UNCHANGED units
      /\ MaxForks \in Nat /\ forks \in 0..MaxForks
  BY Room, UnitsFacts, WorkerPoolAssumption DEF Compact, UInv, IInv, PoolType
<1>2. R' = R
  BY <1>1, SameUnits
<1>3. pc' = "pool" => R' <= target'
  BY DEF UInv, Bounded, Ensuring
<1>4. pc' = "append" => R' < target'
  BY DEF UInv, Bounded
<1>5. cursor' \in 0..(MaxForks + 1)
  BY <1>1 DEF Counters
<1> QED
  BY <1>1, <1>2, <1>3, <1>4, <1>5 DEF Counters

LEMMA CountersSignal ==
  ASSUME IInv, UInv, Slots, Counters, ResumeOne \/ PauseOne \/ PauseAllOne
  PROVE  Counters'
<1>1. /\ ResourceUnits \in Nat /\ MaxForks \in Nat /\ target \in 0..(ResourceUnits + 1)
      /\ act \in 0..(ResourceUnits + 1) /\ groups \subseteq Workers
      /\ \A w \in Workers : units[w] \in Nat /\ w \in 0..(MaxForks + 1)
  BY WorkerPoolAssumption DEF UInv, UnitsType, IInv, PoolType, Counters, Workers
<1>2. UNCHANGED <<pc, target, scheduled>> /\ pc \in {"resuming", "pausing", "pausingall"}
  BY DEF ResumeOne, PauseOne, PauseAllOne
<1>3. cursor' \in 0..(MaxForks + 1) /\ act' \in 0..(ResourceUnits + 1)
  <2>1. CASE ResumeOne
    <3> DEFINE w == First(ToResume)
    <3>1. ToResume # {} /\ ToResume \in SUBSET Workers /\ act < target
      BY <1>1, <2>1 DEF ResumeOne, ToResume
    <3>2. w \in ToResume
      BY <3>1, FirstIsFirst
    <3>3. w \in groups /\ w \in Workers /\ paused[w]
      BY <1>1, <3>2 DEF ToResume
    <3>4. cursor' = w /\ act' \in {act, act + units[w]}
      BY <2>1 DEF ResumeOne
    <3> HIDE DEF w
    <3>5. units[w] = 1
      BY <3>3 DEF UInv, UnitsOfGroups
    <3> QED
      BY <1>1, <3>1, <3>3, <3>4, <3>5
  <2>2. CASE PauseOne
    <3> DEFINE w == Last(ToPause)
    <3>1. ToPause # {} /\ ToPause \in SUBSET Workers
      BY <1>1, <2>2 DEF PauseOne, ToPause
    <3>2. w \in ToPause
      BY <3>1, LastIsLast
    <3>3. w \in Workers /\ units[w] <= act - target
      BY <1>1, <3>2 DEF ToPause
    <3>4. cursor' = w /\ act' \in {act, act - units[w]}
      BY <2>2 DEF PauseOne
    <3> HIDE DEF w
    <3> QED
      BY <1>1, <3>3, <3>4
  <2>3. CASE PauseAllOne
    <3> DEFINE w == First(ToPauseAll)
    <3>1. ToPauseAll # {} /\ ToPauseAll \in SUBSET Workers
      BY <1>1, <2>3 DEF PauseAllOne, ToPauseAll
    <3>2. w \in Workers
      BY <3>1, FirstIsFirst
    <3>3. cursor' = w /\ act' = act
      BY <2>3 DEF PauseAllOne
    <3> HIDE DEF w
    <3> QED
      BY <1>1, <3>2, <3>3
  <2> QED
    BY <2>1, <2>2, <2>3
<1> QED
  BY <1>2, <1>3 DEF Counters

LEMMA CountersStep ==
  ASSUME IInv, UInv, UInv', Slots, Counters, [Next]_vars
  PROVE  Counters'
<1>1. /\ ResourceUnits \in Nat \ {0} /\ MaxForks \in Nat /\ target \in 0..(ResourceUnits + 1)
      /\ kind \in AllKinds /\ R \in Nat /\ Bounded /\ UnitsOfGroups /\ ret \in {"pool", "final"}
  BY UnitsFacts, WorkerPoolAssumption DEF UInv, UnitsType, ReturnPoint
<1> USE DEF Goto
<1>2. CASE EnsureBegin \/ GrowDone \/ GrowCompact \/ ResumeBegin \/ ResumeEnd \/ PauseBegin \/ PauseEnd
           \/ EnsureReturn \/ PauseAllBegin \/ CallPoll
  <2>1. Compact /\ UNCHANGED <<proc, target>>
    BY <1>2 DEF EnsureBegin, GrowDone, GrowCompact, ResumeBegin, ResumeEnd, PauseBegin, PauseEnd,
                EnsureReturn, PauseAllBegin, CallPoll, local
  <2>2. pc \in Ensuring \cup {"idle", "pauseall"}
    BY <1>2 DEF EnsureBegin, GrowDone, GrowCompact, ResumeBegin, ResumeEnd, PauseBegin, PauseEnd,
                EnsureReturn, PauseAllBegin, CallPoll, Call, Ensuring
  <2>3. pc' # "pauseall"
    BY <1>1, <1>2 DEF EnsureBegin, GrowDone, GrowCompact, ResumeBegin, ResumeEnd, PauseBegin, PauseEnd,
                EnsureReturn, PauseAllBegin, CallPoll, Call, Return, Body, AfterResume
  <2>4. act' \in {act, ActiveUnits} /\ cursor' \in {cursor, 0, forks + 1}
    BY <1>2 DEF EnsureBegin, GrowDone, GrowCompact, ResumeBegin, ResumeEnd, PauseBegin, PauseEnd,
                EnsureReturn, PauseAllBegin, CallPoll, local
  <2> QED
    BY <2>1, <2>2, <2>3, <2>4, CountersCompact
<1>3. CASE ResumeOne \/ PauseOne \/ PauseAllOne
  BY <1>3, CountersSignal
<1>4. CASE StartOk
  <2>1. /\ scheduled' = CASE kind = "fresh" -> target [] kind = "qsym" -> 2 [] OTHER -> 1
        /\ UNCHANGED <<target, act, cursor>> /\ pc = "start"
        /\ pc' \in {"qsymwait", "pool", "resume"} /\ (pc' = "pool" => kind = "afl")
    BY <1>4 DEF StartOk, local, Body
  <2>2. target >= 1
    BY <1>1, <2>1 DEF Bounded, Ensuring
  <2>3. scheduled' \in 0..(ResourceUnits + 1) /\ (pc' = "pool" => scheduled' <= target)
    BY <1>1, <2>1, <2>2
  <2> QED
    BY <2>1, <2>3 DEF Counters
<1>5. CASE QsymExecutorOk
  <2>1. scheduled' = 2 /\ UNCHANGED <<act, cursor>> /\ pc' = "resume"
    BY <1>5 DEF QsymExecutorOk, local
  <2> QED
    BY <1>1, <2>1 DEF Counters
<1>6. CASE StartFail \/ QsymExecutorFail \/ PauseAllEnd \/ StopAll
  <2>1. scheduled' = 0 /\ UNCHANGED <<act, cursor>> /\ pc' = "idle"
    BY <1>6 DEF StartFail, QsymExecutorFail, PauseAllEnd, StopAll, local, Return
  <2> QED
    BY <1>1, <2>1 DEF Counters
<1>7. CASE PoolAppendOk \/ GrowAppendOk
  <2>1. scheduled' = scheduled + 1 /\ UNCHANGED <<act, cursor>> /\ pc' \in {"pause", "grow"}
    BY <1>7 DEF PoolAppendOk, GrowAppendOk, Append, local
  <2>2. \/ pc = "append" /\ scheduled < target
        \/ pc = "pool" /\ scheduled <= target /\ target <= ResourceUnits
    BY <1>1, <1>7 DEF PoolAppendOk, GrowAppendOk, Counters, UnitsOfGroups, Slots
  <2>3. scheduled' \in 0..(ResourceUnits + 1)
    BY <1>1, <2>1, <2>2 DEF Counters
  <2> QED
    BY <2>1, <2>3 DEF Counters
<1>8. CASE PoolAppendFail \/ PoolFull \/ GrowAppendFail
  <2>1. UNCHANGED <<scheduled, act, cursor>> /\ pc' \in {"resume", "pause"}
    BY <1>8 DEF PoolAppendFail, PoolFull, GrowAppendFail, state, local
  <2> QED
    BY <2>1 DEF Counters
<1>9. CASE (\E n \in 1..ResourceUnits : CallRoundStart(n) \/ CallBoost(n)) \/ CallPause \/ CallShutdown
  <2>1. UNCHANGED <<proc, units, scheduled, act, cursor>> /\ pc = "idle"
        /\ pc' \in {"ensure", "stopall", "pauseall"} /\ (pc' = "pauseall" => target' = target)
    BY <1>9 DEF CallRoundStart, CallBoost, CallPause, CallShutdown, Call, state, local
  <2>2. R' = R /\ R <= target
    <3>1. R' = R
      BY <2>1, SameUnits
    <3> QED
      BY <1>1, <2>1, <3>1 DEF Bounded
  <2> QED
    BY <2>1, <2>2 DEF Counters
<1>10. ASSUME NEW w \in Workers, Exit(w) PROVE Counters'
  <2>1. proc' = [proc EXCEPT ![w] = "dead"] /\ UNCHANGED <<units, scheduled, act, cursor, pc, target>>
    BY <1>10 DEF Exit, state, local
  <2>2. "dead" \in ProcState \ {"running"}
    BY DEF ProcState
  <2>3. R' \in 0..R
    BY <2>1, <2>2, LessRuns DEF UInv
  <2> QED
    BY <1>1, <2>1, <2>3 DEF Counters
<1>11. CASE UNCHANGED vars
  <2>1. UNCHANGED <<proc, units, scheduled, act, cursor, pc, target>>
    BY <1>11 DEF vars, state, local
  <2> QED
    BY <2>1, SameUnits DEF Counters
<1> QED
  BY <1>2, <1>3, <1>4, <1>5, <1>6, <1>7, <1>8, <1>9, <1>10, <1>11 DEF Next, Controller, Scheduler

\* Every variable of a pool keeps its type; scheduled_units and the counts of the
\* resuming and pausing loops stay within one unit of resource_unit_number, and
\* next_worker_index within the number of forks.
THEOREM TypeCorrect == Spec => []TypeOK
<1> DEFINE TInv == IInv /\ UInv /\ Slots /\ Counters /\ Flags
<1>1. Init => TInv
  BY InitIInv, InitUnits, InitTypes
<1>2. TInv /\ [Next]_vars => TInv'
  <2> SUFFICES ASSUME TInv, [Next]_vars PROVE TInv'
    OBVIOUS
  <2>1. ReturnPoint
    BY DEF UInv, UnitsType
  <2>2. IInv' /\ UInv'
    BY <2>1, NextIInv, NextUnits
  <2>3. Slots' /\ Counters' /\ Flags'
    BY <2>2, SlotsStep, CountersStep, FlagsStep
  <2> QED
    BY <2>2, <2>3
<1>3. TInv => TypeOK
  <2> SUFFICES ASSUME TInv PROVE TypeOK
    OBVIOUS
  <2>1. nextIndex \in 1..(MaxForks + 1)
    BY WorkerPoolAssumption DEF IInv, PoolType, Slots
  <2> QED
    BY <2>1 DEF IInv, PoolType, UInv, UnitsType, ReturnPoint, Slots, Counters, Flags, TypeOK
<1> QED
  BY <1>1, <1>2, <1>3, PTL DEF Spec
=============================================================================
