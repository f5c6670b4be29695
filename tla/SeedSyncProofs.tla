--------------------------- MODULE SeedSyncProofs ---------------------------
(***************************************************************************)
(* The life of the seeds for any number of fuzzers, seeds, features,       *)
(* rounds, losses and campaigns: what is rewarded and what is found        *)
(* reaches the global pool, and nothing is rewarded as new twice.  And the *)
(* analysis that says which edges are deep: DeepFunctions gives every      *)
(* function its call depth, for any call graph.                            *)
(***************************************************************************)
EXTENDS SeedSync, DeepFunctions, FiniteSetTheorems, NaturalsInduction, WellFoundedInduction, TLAPS

Features == Edges \cup Paths
SeedMap  == [Fuzzers -> SUBSET Seeds]
LeftType == [monSeen : SeedMap, monReport : SeedMap, report : SeedMap, syncSeen : SeedMap,
             poolReport : (SUBSET Seeds) \cup {Missing}]

Types ==
  /\ pc \in {"begin", "fuzz", "evaluate", "sync", "refresh"}
  /\ round \in 0..Rounds /\ (pc # "begin" => round < Rounds)
  /\ windows \in 0..MaxWindows /\ losses \in 0..MaxLosses /\ wipes \in 0..MaxWipes
  /\ campaign \in 1..Campaigns
  /\ global \subseteq Seeds /\ input \subseteq Seeds
  /\ cmin \in (SUBSET Seeds) \cup {Missing} /\ poolReport \in (SUBSET Seeds) \cup {Missing}
  /\ started \subseteq selected /\ selected \subseteq Fuzzers
  /\ queue \in SeedMap /\ accum \in SeedMap /\ base \in SeedMap /\ monSeen \in SeedMap
  /\ monReport \in SeedMap /\ evalSeen \in SeedMap /\ report \in SeedMap /\ cache \in SeedMap
  /\ syncSeen \in SeedMap /\ oldSeen \in SeedMap
  /\ left \in [0..Rounds -> LeftType]
  /\ targets \in [Fuzzers -> SUBSET Features] /\ fresh \in [Fuzzers -> SUBSET Features]
  /\ reward \in [Fuzzers -> SUBSET Features]
  /\ seen \subseteq Features /\ monFeat \subseteq Features /\ windowed \subseteq Features
  /\ credited \subseteq Features
  /\ freq = NoCounts \/ freq \in [Edges -> Nat]

(***************************************************************************)
(* The monitor: it knows the record and all that was rewarded, and outside *)
(* the rounds nothing is rewarded.                                         *)
(***************************************************************************)

Monitor ==
  /\ pc # "fuzz" => reward = None
  /\ pc = "fuzz" => seen \subseteq monFeat /\ windowed \subseteq monFeat
                    /\ \A f \in Fuzzers : reward[f] \subseteq monFeat
  /\ WindowRewardsAreNew

Record == {e \in DOMAIN freq : freq[e] > 0} = seen \cap Edges

(***************************************************************************)
(* The files of a round.  In the first campaign there is nothing to find;  *)
(* later, and without losses, what was synchronized has been evaluated.    *)
(***************************************************************************)

Clean == campaign = 1 \/ losses = 0

FirstCampaign ==
  campaign = 1 =>
    /\ \A r \in 0..Rounds : r >= round => left[r] = NothingLeft
    /\ pc = "fuzz" => report = None
    /\ pc \in {"fuzz", "evaluate", "sync"} => syncSeen = None

Manifests ==
  losses = 0 =>
    /\ \A r \in 0..Rounds, f \in Fuzzers : left[r].syncSeen[f] \subseteq evalSeen[f]
    /\ \A f \in Fuzzers : syncSeen[f] \subseteq evalSeen[f]
    /\ pc \in {"evaluate", "sync", "refresh"} =>
         \A f \in Fuzzers : accum[f] \ input \subseteq evalSeen[f]

\* What the targets are computed from are candidates of the selection, and
\* their features are known to it.
Evaluated ==
  Clean =>
    /\ pc \in {"evaluate", "sync"} => \A f \in Fuzzers : cache[f] \subseteq Candidates(f)
    /\ pc = "evaluate" => \A f \in selected : report[f] \subseteq cache[f]
    /\ pc = "sync" => \A f \in Fuzzers : targets[f] \subseteq Cover(cache[f])

(***************************************************************************)
(* Without losses: the pool covers the input of the round, all that has    *)
(* been evaluated in the campaign and all that was new in its rounds, and  *)
(* the input covers what the seeds in the pool that can be copied have.    *)
(***************************************************************************)

\* The features that the input of a round takes over from the pool.
Stable == IF DoMinimize THEN Edges ELSE Features

\* A minimized pool is made from what can be copied of G.
IsMinimized(M, G) ==
  /\ M \subseteq Copyable(G) /\ EdgesOf(M) = EdgesOf(Copyable(G))
  /\ M = {} => Copyable(G) = {}

Pool ==
  losses = 0 =>
    /\ DoMinimize => cmin \subseteq Copyable(global) /\ (pc = "begin" => IsMinimized(cmin, global))
    /\ Copyable(global) = {} => input = {}
    /\ pc # "begin" => input \subseteq global /\ \A f \in selected : base[f] = input
    /\ pc \in {"fuzz", "evaluate", "sync"} => Cover(Copyable(global)) \cap Stable \subseteq Cover(input)

\* The features that evaluating a seed of f keeps.
Kept(f, X) == IF f \in Sampled THEN X \cap Edges ELSE X

\* What covers the seeds in the manifest of f.
Coverage(f) ==
  Cover(global) \cup (IF pc = "evaluate" /\ f \in selected THEN Cover(report[f])
                      ELSE IF pc = "sync" THEN targets[f] ELSE {})

Covered ==
  losses = 0 =>
    \A f \in Fuzzers : \A s \in evalSeen[f] \ oldSeen[f] : Kept(f, FeaturesOf[s]) \subseteq Coverage(f)

Credit ==
  losses = 0 =>
    /\ credited \subseteq Cover(global)
    /\ pc \in {"sync", "refresh"} => \A f \in Fuzzers : fresh[f] \subseteq targets[f]

IInv ==
  /\ Types /\ Monitor /\ Record
  /\ FirstCampaign /\ Manifests /\ Evaluated /\ RewardsReachThePool
  /\ Pool /\ Covered /\ Credit /\ NewOnlyOnce

(***************************************************************************)
(* Features and counts.                                                    *)
(***************************************************************************)

LEMMA SeedFacts == /\ 0 \notin Seeds /\ Seeds \subseteq Nat
                   /\ \A S \in SUBSET Seeds : IsFiniteSet(S)
<1>1. 0 \notin Seeds /\ Seeds \subseteq Nat
  BY SeedSyncAssumption DEF Seeds
<1>2. IsFiniteSet(Seeds)
  BY FS_Interval, SeedSyncAssumption DEF Seeds
<1>3. \A S \in SUBSET Seeds : IsFiniteSet(S)
  BY <1>2, FS_Subset
<1> QED
  BY <1>1, <1>3

LEMMA CoverFacts ==
  ASSUME NEW S \in SUBSET Seeds
  PROVE  /\ Cover(S) \subseteq Features
         /\ \A x : x \in Cover(S) <=> \E s \in S : x \in FeaturesOf[s]
<1>1. \A s \in Seeds : FeaturesOf[s] \subseteq Features
  BY SeedSyncAssumption DEF Features
<1> QED
  BY <1>1 DEF Cover

\* More seeds cover more.
LEMMA CoverGrows ==
  ASSUME NEW S, NEW T, S \subseteq T
  PROVE  Cover(S) \subseteq Cover(T)
BY DEF Cover

LEMMA CoverNothing == Cover({}) = {}
BY DEF Cover

LEMMA CountFacts ==
  ASSUME NEW S \in SUBSET Seeds, NEW e
  PROVE  Count(S, e) \in Nat /\ (Count(S, e) > 0 <=> e \in Cover(S))
<1> DEFINE H == {s \in S : e \in FeaturesOf[s]}
<1>1. IsFiniteSet(H)
  BY SeedFacts
<1>2. Count(S, e) = Cardinality(H)
  BY DEF Count
<1>3. e \in Cover(S) <=> H # {}
  BY DEF Cover
<1> HIDE DEF H
<1>4. Cardinality(H) \in Nat /\ (Cardinality(H) = 0 <=> H = {})
  BY <1>1, FS_CardinalityType, FS_EmptySet
<1> QED
  BY <1>2, <1>3, <1>4

LEMMA CountsFacts ==
  ASSUME NEW S \in SUBSET Seeds
  PROVE  /\ Counts(S) \in [Edges -> Nat]
         /\ {e \in DOMAIN Counts(S) : Counts(S)[e] > 0} = Cover(S) \cap Edges
<1>1. \A e \in Edges : Count(S, e) \in Nat /\ (Count(S, e) > 0 <=> e \in Cover(S))
  BY CountFacts
<1> QED
  BY <1>1 DEF Counts

\* What the metrics reward is in the report, and what is in the report is new
\* or in the baseline.
LEMMA MetricsFacts ==
  ASSUME NEW R \in SUBSET Seeds, NEW B \in SUBSET Seeds
  PROVE  /\ New(R, B) \subseteq Metrics(R, B) /\ Metrics(R, B) \subseteq Cover(R)
         /\ Cover(R) \subseteq New(R, B) \cup Cover(B)
         /\ New(R, B) \cap Cover(B) = {}
<1>1. More(R, B) \subseteq Cover(R)
  <2> SUFFICES ASSUME NEW e \in Edges, Count(R, e) > Count(B, e) PROVE e \in Cover(R)
    BY DEF More
  <2>1. Count(R, e) \in Nat /\ Count(B, e) \in Nat
    BY CountFacts
  <2>2. Count(R, e) > 0
    BY <2>1
  <2> QED
    BY <2>2, CountFacts
<1> QED
  BY <1>1 DEF New, Metrics

\* A low-frequency edge has a count in the record.
LEMMA LowFacts ==
  ASSUME freq # NoCounts, freq \in [Edges -> Nat], NEW R
  PROVE  LowFrequency(R) \subseteq {e \in DOMAIN freq : freq[e] > 0}
BY DEF LowFrequency

(***************************************************************************)
(* Losses and minimization.                                                *)
(***************************************************************************)

LEMMA MinimizedFacts ==
  ASSUME NEW S, NEW M \in Minimized(S)
  PROVE  M \subseteq S /\ EdgesOf(M) = EdgesOf(S) /\ (M = {} => S = {})
BY DEF Minimized

LEMMA ReplayedFacts ==
  ASSUME NEW D \in SeedMap, NEW R \in Replayed(D)
  PROVE  /\ R \in SeedMap
         /\ \A f \in Fuzzers : /\ R[f] \subseteq D[f] /\ EdgesOf(R[f]) = EdgesOf(D[f])
                               /\ f \notin Sampled => R[f] = D[f]
<1>1. PICK m \in [Sampled -> SUBSET Seeds] :
        /\ \A f \in Sampled : m[f] \in Minimized(D[f])
        /\ R = [f \in Fuzzers |-> IF f \in Sampled THEN m[f] ELSE D[f]]
  BY DEF Replayed
<1>2. \A f \in Sampled : m[f] \subseteq D[f] /\ EdgesOf(m[f]) = EdgesOf(D[f])
  BY <1>1, MinimizedFacts
<1>3. \A f \in Fuzzers : R[f] = IF f \in Sampled THEN m[f] ELSE D[f]
  BY <1>1
<1>4. R \in SeedMap
  BY <1>1 DEF SeedMap
<1>5. ASSUME NEW f \in Fuzzers
      PROVE  R[f] \subseteq D[f] /\ EdgesOf(R[f]) = EdgesOf(D[f]) /\ (f \notin Sampled => R[f] = D[f])
  <2>1. CASE f \in Sampled
    <3>1. R[f] = m[f]
      BY <1>3, <2>1
    <3> QED
      BY <1>2, <2>1, <3>1
  <2>2. CASE f \notin Sampled
    <3>1. R[f] = D[f]
      BY <1>3, <2>2
    <3> QED
      BY <2>2, <3>1
  <2> QED
    BY <2>1, <2>2
<1> QED
  BY <1>4, <1>5

LEMMA LossyFacts ==
  ASSUME losses \in 0..MaxLosses, NEW D, NEW L \in Lossy(D)
  PROVE  /\ Cardinality(L) \in Nat /\ losses + Cardinality(L) \in 0..MaxLosses
         /\ losses + Cardinality(L) = 0 => losses = 0 /\ L = {}
<1>1. L = {} \/ (losses < MaxLosses /\ \E l : L = {l})
  BY DEF Lossy
<1>2. CASE L = {}
  <2>1. Cardinality(L) = 0
    BY <1>2, FS_EmptySet
  <2> QED
    BY <1>2, <2>1, SeedSyncAssumption
<1>3. CASE losses < MaxLosses /\ \E l : L = {l}
  <2>1. Cardinality(L) = 1
    BY <1>3, FS_Singleton
  <2> QED
    BY <1>3, <2>1, SeedSyncAssumption
<1> QED
  BY <1>1, <1>2, <1>3

LEMMA NothingLost == Failed({}) = {} /\ \A f : Lost({}, f) = {}
BY DEF Failed, Lost

(***************************************************************************)
(* The greedy selection keeps every target that a candidate has.           *)
(***************************************************************************)

\* A set of numbers that is not empty has a least one: what the inductions of
\* this module rest on.
LEMMA LeastNumber ==
  ASSUME NEW S \in SUBSET Nat, S # {}
  PROVE  \E n \in S : \A m \in S : n <= m
<1> DEFINE Less == OpToRel(<, Nat)
<1>1. IsWellFoundedOn(Less, Nat)
  BY NatLessThanWellFounded
<1>2. \A x, y \in Nat : <<y, x>> \in Less <=> y < x
  BY DEF OpToRel
<1> HIDE DEF Less
<1>3. PICK n \in S : \A m \in S : ~(<<m, n>> \in Less)
  BY <1>1, WFMin
<1>4. \A m \in S : ~(m < n)
  BY <1>2, <1>3
<1> QED
  BY <1>3, <1>4

LEMMA LeastSeed ==
  ASSUME NEW S \in SUBSET Seeds, S # {}
  PROVE  \E s \in S : \A r \in S : ~(r < s)
<1>1. S \in SUBSET Nat
  BY SeedFacts
<1>2. PICK s \in S : \A r \in S : s <= r
  BY <1>1, LeastNumber
<1>3. \A r \in S : r \in Nat /\ s \in Nat
  BY <1>1
<1> QED
  BY <1>2, <1>3

LEMMA SelectionFacts ==
  ASSUME NEW C \in SUBSET Seeds, NEW T
  PROVE  Contributing(C, T) \subseteq C /\ T \cap Cover(C) \subseteq Cover(Contributing(C, T))
<1>1. Contributing(C, T) \subseteq C
  BY DEF Contributing
<1>2. ASSUME NEW x \in T \cap Cover(C) PROVE x \in Cover(Contributing(C, T))
  <2> DEFINE S == {s \in C : x \in FeaturesOf[s]}
  <2>1. S \in SUBSET Seeds /\ S # {}
    BY <1>2 DEF Cover
  <2> HIDE DEF S
  <2>2. PICK s \in S : \A r \in S : ~(r < s)
    BY <2>1, LeastSeed
  <2>3. s \in C /\ x \in FeaturesOf[s] /\ x \in T
    BY <1>2, <2>2 DEF S
  <2>4. x \notin Cover({r \in C : r < s})
    BY <2>2 DEF Cover, S
  <2>5. s \in Contributing(C, T)
    BY <2>3, <2>4 DEF Contributing
  <2> QED
    BY <2>3, <2>5 DEF Cover
<1> QED
  BY <1>1, <1>2

(***************************************************************************)
(* Types.                                                                  *)
(***************************************************************************)

LEMMA NoneFacts ==
  /\ None \in SeedMap /\ None \in [Fuzzers -> SUBSET Features] /\ NothingLeft \in LeftType
  /\ \A f \in Fuzzers : None[f] = {} /\ NothingLeft.syncSeen[f] = {} /\ NothingLeft.report[f] = {}
  /\ NothingLeft.syncSeen = None /\ NothingLeft.report = None
BY DEF None, SeedMap, NothingLeft, LeftType

LEMMA DeltaFacts ==
  ASSUME Types
  PROVE  /\ Collected \in SeedMap
         /\ \A f \in Fuzzers : /\ f \notin started => Collected[f] = {}
                               /\ MonitorDelta(f) \subseteq Seeds /\ FinalDelta(f) \subseteq Seeds
                               /\ Candidates(f) \subseteq Seeds
<1>1. /\ queue \in SeedMap /\ accum \in SeedMap /\ monSeen \in SeedMap /\ evalSeen \in SeedMap
      /\ syncSeen \in SeedMap
  BY DEF Types
<1>2. Collected \in SeedMap /\ \A f \in Fuzzers : f \notin started => Collected[f] = {}
  BY <1>1 DEF Collected, SeedMap
<1> QED
  BY <1>1, <1>2 DEF MonitorDelta, FinalDelta, Candidates, SeedMap

LEMMA LeaveFacts ==
  ASSUME Types, NEW R \in (SUBSET Seeds) \cup {Missing}, Leave(R)
  PROVE  /\ left' \in [0..Rounds -> LeftType]
         /\ \A r \in 0..Rounds : r # round => left'[r] = left[r]
         /\ \A f \in Fuzzers : left'[round].syncSeen[f] \in {syncSeen[f], left[round].syncSeen[f]}
<1>1. /\ left \in [0..Rounds -> LeftType] /\ round \in 0..Rounds
      /\ monSeen \in SeedMap /\ monReport \in SeedMap /\ report \in SeedMap /\ syncSeen \in SeedMap
  BY DEF Types
<1> DEFINE e == [monSeen |-> monSeen, monReport |-> monReport, report |-> report,
                 syncSeen |-> syncSeen, poolReport |-> R]
<1>2. e \in LeftType /\ e.syncSeen = syncSeen
  BY <1>1 DEF LeftType
<1>3. left' = left \/ left' = [left EXCEPT ![round] = e]
  BY DEF Leave
<1> HIDE DEF e
<1>4. CASE left' = left
  BY <1>1, <1>4
<1>5. CASE left' = [left EXCEPT ![round] = e]
  <2>1. left'[round] = e /\ left' \in [0..Rounds -> LeftType]
        /\ \A r \in 0..Rounds : r # round => left'[r] = left[r]
    BY <1>1, <1>2, <1>5
  <2> QED
    BY <1>2, <2>1
<1> QED
  BY <1>3, <1>4, <1>5

LEMMA PoolType ==
  ASSUME Types
  PROVE  InputPool \subseteq Seeds
BY DEF InputPool, Types

LEMMA BeginTypes ==
  ASSUME Types, NEW sel \in SUBSET Fuzzers, NEW run \in SUBSET sel, NEW anew \in SUBSET run,
         NEW L \in Lossy(Only(sel, global)), BeginRound(sel, run, anew, L)
  PROVE  Types' /\ (losses' = 0 => losses = 0 /\ L = {})
<1>1. /\ pc = "begin" /\ round < Rounds /\ pc' = "fuzz"
      /\ selected' = sel /\ started' = run /\ input' = Refilled /\ monFeat' = seen
      /\ base' = [f \in Fuzzers |-> IF f \in sel \ Failed(L) THEN input' \ Lost(L, f) ELSE {}]
      /\ queue' = [f \in Fuzzers |-> IF f \in anew THEN Given(f, InputPool)
                                     ELSE IF f \in run THEN queue[f] \cup Copyable(InputPool)
                                     ELSE queue[f]]
      /\ losses' = losses + Cardinality(L)
      /\ wipes' = wipes + Cardinality({f \in anew \ Sampled : queue[f] # {}}) /\ wipes' <= MaxWipes
      /\ accum' = None /\ reward' = None /\ windowed' = {} /\ windows' = 0
      /\ monSeen' = left[round].monSeen /\ monReport' = left[round].monReport
      /\ report' = left[round].report /\ syncSeen' = left[round].syncSeen
      /\ poolReport' = left[round].poolReport
      /\ UNCHANGED <<round, campaign, global, cmin, evalSeen, left, seen, freq, cache, targets, fresh,
                     credited, oldSeen>>
  BY DEF BeginRound, MayBegin, ResetMonitor, Goto, record, past
<1>2. InputPool \subseteq Seeds /\ \A f : Given(f, InputPool) \subseteq Seeds
  BY PoolType DEF Given, Copyable
<1>3. input' \subseteq Seeds
  BY <1>1, <1>2 DEF Refilled, Copyable, Types
<1>4. base' \in SeedMap /\ queue' \in SeedMap
  <2>1. queue \in SeedMap
    BY DEF Types
  <2> QED
    BY <1>1, <1>2, <1>3, <2>1 DEF SeedMap, Copyable
<1>5. left[round] \in LeftType
  BY DEF Types
<1>6. monSeen' \in SeedMap /\ monReport' \in SeedMap /\ report' \in SeedMap /\ syncSeen' \in SeedMap
      /\ poolReport' \in (SUBSET Seeds) \cup {Missing}
  BY <1>1, <1>5 DEF LeftType
<1>7. losses' \in 0..MaxLosses /\ (losses' = 0 => losses = 0 /\ L = {})
  <2>1. losses \in 0..MaxLosses
    BY DEF Types
  <2> QED
    BY <1>1, <2>1, LossyFacts
<1>8. wipes' \in 0..MaxWipes
  <2>1. IsFiniteSet({f \in anew \ Sampled : queue[f] # {}})
    BY FS_Subset, SeedSyncAssumption
  <2>2. Cardinality({f \in anew \ Sampled : queue[f] # {}}) \in Nat
    BY <2>1, FS_CardinalityType
  <2>3. wipes \in 0..MaxWipes
    BY DEF Types
  <2> QED
    BY <1>1, <2>2, <2>3, SeedSyncAssumption
<1>9. accum' \in SeedMap /\ reward' \in [Fuzzers -> SUBSET Features]
  BY <1>1, NoneFacts
<1>10. windows' \in 0..MaxWindows
  BY <1>1, SeedSyncAssumption
<1> QED
  BY <1>1, <1>3, <1>4, <1>6, <1>7, <1>8, <1>9, <1>10 DEF Types

LEMMA FindTypes ==
  ASSUME Types, NEW f \in Fuzzers, NEW s \in Seeds, Find(f, s)
  PROVE  Types'
<1>1. queue \in SeedMap /\ queue' = [queue EXCEPT ![f] = queue[f] \cup {s}]
  BY DEF Types, Find
<1>2. queue' \in SeedMap
  BY <1>1 DEF SeedMap
<1> QED
  BY <1>2 DEF Types, Find, bounds, chosen, record, window, final, past

LEMMA AgainTypes ==
  ASSUME Types, NEW f \in Fuzzers, StartAgain(f)
  PROVE  Types'
<1>1. queue \in SeedMap /\ accum \in SeedMap /\ InputPool \subseteq Seeds
      /\ queue' = [queue EXCEPT ![f] = Given(f, InputPool \cup accum[f])]
      /\ wipes \in 0..MaxWipes /\ wipes < MaxWipes /\ wipes' = wipes + 1
  BY PoolType DEF Types, StartAgain
<1>2. queue' \in SeedMap
  BY <1>1 DEF SeedMap, Given, Copyable
<1>3. wipes' \in 0..MaxWipes
  BY <1>1, SeedSyncAssumption
<1> QED
  BY <1>2, <1>3 DEF Types, StartAgain, bounds, chosen, record, window, final, past

LEMMA CoverType ==
  ASSUME NEW D \in SeedMap
  PROVE  \A f \in Fuzzers : D[f] \in SUBSET Seeds /\ Cover(D[f]) \subseteq Features
<1> SUFFICES ASSUME NEW f \in Fuzzers PROVE D[f] \in SUBSET Seeds /\ Cover(D[f]) \subseteq Features
  OBVIOUS
<1>1. D[f] \in SUBSET Seeds
  BY DEF SeedMap
<1> QED
  BY <1>1, CoverFacts

\* The report that a window reads.
Read(act, R, L) ==
  [f \in Fuzzers |-> IF f \in act \ Failed(L) THEN R[f] \ Lost(L, f) ELSE monReport[f]]

LEMMA WindowTypes ==
  ASSUME Types, NEW act \in SUBSET started, NEW R \in SeedMap, NEW L \in Lossy(R), Window(act, R, L)
  PROVE  /\ Types' /\ Read(act, R, L) \in SeedMap
         /\ losses' = 0 => losses = 0
         /\ reward' = Rewarded(act, Read(act, R, L)) /\ Remember(act, Read(act, R, L))
<1> DEFINE read == Read(act, R, L)
<1>1. /\ windows < MaxWindows /\ windows' = windows + 1 /\ losses' = losses + Cardinality(L)
      /\ accum' = Collected /\ monReport' = read
      /\ monSeen' = [f \in Fuzzers |->
                       IF f \in act \ Failed(L) THEN monSeen[f] \cup MonitorDelta(f) ELSE monSeen[f]]
      /\ reward' = Rewarded(act, read) /\ Remember(act, read)
      /\ windowed' = windowed \cup UNION {reward[f] : f \in Fuzzers}
      /\ UNCHANGED <<wipes, campaign, pc, round, selected, started, base, global, cmin, input, queue,
                     evalSeen, syncSeen, poolReport, left, seen, freq, report, cache, targets, fresh,
                     credited, oldSeen>>
  BY DEF Window, Lose, Read, chosen, record, final, past
<1>2. act \subseteq Fuzzers /\ monReport \in SeedMap /\ monSeen \in SeedMap /\ base \in SeedMap
      /\ reward \in [Fuzzers -> SUBSET Features] /\ windowed \subseteq Features
      /\ monFeat \subseteq Features
  BY DEF Types
<1>3. read \in SeedMap
  BY <1>2 DEF SeedMap, Read
<1>4. monSeen' \in SeedMap
  BY <1>1, <1>2, DeltaFacts DEF SeedMap
<1> HIDE DEF read
<1>5. \A f \in Fuzzers : Cover(read[f]) \subseteq Features /\ Metrics(read[f], base[f]) \subseteq Features
  <2> SUFFICES ASSUME NEW f \in Fuzzers
               PROVE  Cover(read[f]) \subseteq Features /\ Metrics(read[f], base[f]) \subseteq Features
    OBVIOUS
  <2>1. read[f] \in SUBSET Seeds /\ base[f] \in SUBSET Seeds /\ Cover(read[f]) \subseteq Features
    BY <1>2, <1>3, CoverType
  <2> QED
    BY <2>1, MetricsFacts
<1>6. reward' \in [Fuzzers -> SUBSET Features]
  BY <1>1, <1>5 DEF Rewarded
<1>7. monFeat' \subseteq Features /\ windowed' \subseteq Features
  BY <1>1, <1>2, <1>5 DEF Remember
<1>8. losses' \in 0..MaxLosses /\ (losses' = 0 => losses = 0)
  <2>1. losses \in 0..MaxLosses
    BY DEF Types
  <2> QED
    BY <1>1, <2>1, LossyFacts
<1>9. windows' \in 0..MaxWindows
  BY <1>1, SeedSyncAssumption DEF Types
<1>10. accum' \in SeedMap
  BY <1>1, DeltaFacts
<1>11. Types'
  BY <1>1, <1>3, <1>4, <1>6, <1>7, <1>8, <1>9, <1>10 DEF Types
<1> QED
  BY <1>1, <1>3, <1>8, <1>11 DEF read

LEMMA FinalTypes ==
  ASSUME Types, NEW R \in SeedMap, NEW L \in Lossy(R), Finalize(R, L)
  PROVE  /\ Types' /\ (losses' = 0 => losses = 0 /\ L = {})
<1>1. /\ pc = "fuzz" /\ pc' = "evaluate" /\ losses' = losses + Cardinality(L)
      /\ accum' = Collected
      /\ cache' = [f \in Fuzzers |-> IF f \in selected \ Failed(L) THEN R[f] \ Lost(L, f) ELSE {}]
      /\ report' = [f \in Fuzzers |-> IF f \in selected \ Failed(L) THEN cache'[f] ELSE report[f]]
      /\ evalSeen' = [f \in Fuzzers |->
                        IF f \in selected \ Failed(L) THEN evalSeen[f] \cup FinalDelta(f) ELSE evalSeen[f]]
      /\ monSeen' \in {None, monSeen} /\ monReport' \in {None, monReport}
      /\ reward' = None /\ windowed' = {} /\ windows' = 0
      /\ UNCHANGED <<wipes, campaign, round, selected, started, base, global, cmin, input, queue,
                     syncSeen, poolReport, left, seen, freq, monFeat, targets, fresh, credited, oldSeen>>
  BY DEF Finalize, Lose, Goto, WindowsOver, chosen, record, past
<1>2. report \in SeedMap /\ evalSeen \in SeedMap
  BY DEF Types
<1>3. cache' \in SeedMap
  BY <1>1 DEF SeedMap
<1>4. report' \in SeedMap
  BY <1>1, <1>2, <1>3 DEF SeedMap
<1>5. evalSeen' \in SeedMap
  BY <1>1, <1>2, DeltaFacts DEF SeedMap
<1>6. monSeen' \in SeedMap /\ monReport' \in SeedMap /\ reward' \in [Fuzzers -> SUBSET Features]
  BY <1>1, NoneFacts DEF Types
<1>7. losses' \in 0..MaxLosses /\ (losses' = 0 => losses = 0 /\ L = {})
  <2>1. losses \in 0..MaxLosses
    BY DEF Types
  <2> QED
    BY <1>1, <2>1, LossyFacts
<1>8. windows' \in 0..MaxWindows /\ accum' \in SeedMap
  BY <1>1, DeltaFacts, SeedSyncAssumption
<1>9. Types'
  BY <1>1, <1>3, <1>4, <1>5, <1>6, <1>7, <1>8 DEF Types
<1> QED
  BY <1>7, <1>9

LEMMA EvaluateTypes ==
  ASSUME Types, EvaluateAll
  PROVE  Types'
<1>1. /\ pc = "evaluate" /\ pc' = "sync"
      /\ targets' = [f \in Fuzzers |-> IF f \in selected THEN Metrics(report[f], base[f]) ELSE {}]
      /\ fresh' = [f \in Fuzzers |-> IF f \in selected THEN New(report[f], base[f]) ELSE {}]
      /\ UNCHANGED <<round, bounds, chosen, base, disk, record, window, report, cache, past>>
  BY DEF EvaluateAll, Goto
<1>2. \A f \in Fuzzers : Metrics(report[f], base[f]) \subseteq Features /\ New(report[f], base[f]) \subseteq Features
  <2> SUFFICES ASSUME NEW f \in Fuzzers
               PROVE  Metrics(report[f], base[f]) \subseteq Features /\ New(report[f], base[f]) \subseteq Features
    OBVIOUS
  <2>1. report[f] \in SUBSET Seeds /\ base[f] \in SUBSET Seeds /\ Cover(report[f]) \subseteq Features
    BY CoverType DEF Types
  <2> QED
    BY <2>1, MetricsFacts
<1>3. targets' \in [Fuzzers -> SUBSET Features] /\ fresh' \in [Fuzzers -> SUBSET Features]
  BY <1>1, <1>2
<1> QED
  BY <1>1, <1>3 DEF Types, bounds, chosen, disk, record, window, past

\* The selection of a fuzzer.
Merged(f, L) == Contributing(Known(f, L), targets[f])

LEMMA SyncTypes ==
  ASSUME Types, NEW L \in Lossy(Uncached), Sync(L)
  PROVE  /\ Types' /\ (losses' = 0 => losses = 0)
         /\ global' = global \cup UNION {Merged(f, L) : f \in Fuzzers}
         /\ \A f \in Fuzzers : Known(f, L) \subseteq Candidates(f) /\ Merged(f, L) \subseteq Known(f, L)
                               /\ syncSeen'[f] \subseteq syncSeen[f] \cup Merged(f, L)
<1>1. /\ pc = "sync" /\ pc' = "refresh" /\ losses' = losses + Cardinality(L)
      /\ UNCHANGED <<wipes, campaign, round, selected, started, base, cmin, input, queue, accum, evalSeen,
                     poolReport, left, seen, freq, window, report, cache, targets, fresh, credited, oldSeen>>
  BY DEF Sync, Lose, Goto, chosen, record, final, past
<1>2. /\ global' = global \cup UNION {Merged(f, L) : f \in Fuzzers}
      /\ syncSeen' = syncSeen \/ syncSeen' = [f \in Fuzzers |-> syncSeen[f] \cup Merged(f, L)]
  BY DEF Sync, Merged
<1>3. \A f \in Fuzzers : Known(f, L) \subseteq Candidates(f) /\ Merged(f, L) \subseteq Known(f, L)
  BY DEF Known, Merged, Contributing
<1>4. \A f \in Fuzzers : Merged(f, L) \subseteq Seeds
  BY <1>3, DeltaFacts
<1>5. syncSeen \in SeedMap /\ global \subseteq Seeds
  BY DEF Types
<1>6. syncSeen' \in SeedMap /\ \A f \in Fuzzers : syncSeen'[f] \subseteq syncSeen[f] \cup Merged(f, L)
  BY <1>2, <1>4, <1>5 DEF SeedMap
<1>7. global' \subseteq Seeds
  BY <1>2, <1>4, <1>5
<1>8. losses' \in 0..MaxLosses /\ (losses' = 0 => losses = 0)
  <2>1. losses \in 0..MaxLosses
    BY DEF Types
  <2> QED
    BY <1>1, <2>1, LossyFacts
<1>9. Types'
  BY <1>1, <1>6, <1>7, <1>8 DEF Types, window
<1> QED
  BY <1>2, <1>3, <1>6, <1>8, <1>9

LEMMA ForgetFacts ==
  ASSUME Forget
  PROVE  /\ accum' \in SeedMap /\ report' \in SeedMap /\ cache' \in SeedMap /\ base' \in SeedMap
         /\ monSeen' \in SeedMap /\ monReport' \in SeedMap /\ syncSeen' \in SeedMap
         /\ targets' \in [Fuzzers -> SUBSET Features] /\ fresh' \in [Fuzzers -> SUBSET Features]
         /\ selected' = {} /\ started' = {} /\ poolReport' = Missing
         /\ \A f \in Fuzzers : syncSeen'[f] = {}
BY NoneFacts DEF Forget

\* A record that is computed from a pool.
LEMMA RecordFacts ==
  ASSUME NEW R \in SUBSET Seeds, seen' = Cover(R), freq' = Counts(R)
  PROVE  seen' \subseteq Features /\ freq' \in [Edges -> Nat] /\ Record'
BY CoverFacts, CountsFacts DEF Record

LEMMA PoolFacts ==
  ASSUME NEW G, NEW M \in MinimizedPools(G)
  PROVE  IsMinimized(M, G)
BY MinimizedFacts DEF MinimizedPools, IsMinimized

LEMMA CminFacts ==
  ASSUME cmin \in (SUBSET Seeds) \cup {Missing}, NEW G \in SUBSET Seeds, NEW ok, RefreshCmin(G, ok)
  PROVE  /\ cmin' \in (SUBSET Seeds) \cup {Missing}
         /\ DoMinimize /\ ok => IsMinimized(cmin', G)
<1>1. CASE DoMinimize /\ ok
  <2>1. cmin' \in MinimizedPools(G)
    BY <1>1 DEF RefreshCmin
  <2>2. IsMinimized(cmin', G)
    BY <2>1, PoolFacts
  <2> QED
    BY <2>2 DEF IsMinimized, Copyable
<1>2. CASE ~(DoMinimize /\ ok)
  BY <1>2 DEF RefreshCmin
<1> QED
  BY <1>1, <1>2

LEMMA RefreshTypes ==
  ASSUME Types, Record, NEW L \in Lossy(Only(Fuzzers, global)), NEW ok \in BOOLEAN, Refresh(L, ok)
  PROVE  /\ Types' /\ Record' /\ (losses' = 0 => losses = 0 /\ ok = TRUE)
         /\ \A r \in 0..Rounds : r # round => left'[r] = left[r]
         /\ \A f \in Fuzzers : left'[round].syncSeen[f] \in {syncSeen[f], left[round].syncSeen[f]}
         /\ DoMinimize /\ ok => IsMinimized(cmin', global)
         /\ \A f \in Fuzzers : syncSeen'[f] = {}
<1> DEFINE R == IF Failed(L) = {} THEN global \ UNION {Lost(L, f) : f \in Fuzzers} ELSE poolReport
<1>1. /\ pc = "refresh" /\ pc' = "begin" /\ round' = round + 1
      /\ losses' = losses + Cardinality(L) + (IF ok THEN 0 ELSE 1) /\ losses' <= MaxLosses
      /\ IF R # Missing THEN RefreshRecord(R) ELSE UNCHANGED <<record, monFeat>>
      /\ Leave(R) /\ RefreshCmin(global, ok) /\ Forget
      /\ credited' = credited \cup UNION {fresh[f] : f \in Fuzzers}
      /\ UNCHANGED <<wipes, campaign, global, input, queue, evalSeen, reward, windowed, windows, oldSeen>>
  BY DEF Refresh, Goto
<1>2. R \in (SUBSET Seeds) \cup {Missing}
  BY DEF Types
<1> HIDE DEF R
<1>3. /\ left' \in [0..Rounds -> LeftType]
      /\ \A r \in 0..Rounds : r # round => left'[r] = left[r]
      /\ \A f \in Fuzzers : left'[round].syncSeen[f] \in {syncSeen[f], left[round].syncSeen[f]}
  BY <1>1, <1>2, LeaveFacts
<1>4. /\ seen' \subseteq Features /\ monFeat' \subseteq Features /\ Record'
      /\ freq' = NoCounts \/ freq' \in [Edges -> Nat]
  <2>1. CASE R # Missing
    <3>1. seen' = Cover(R) /\ freq' = Counts(R) /\ monFeat' = Cover(R)
      BY <1>1, <2>1 DEF RefreshRecord
    <3> QED
      BY <1>2, <2>1, <3>1, RecordFacts
  <2>2. CASE R = Missing
    <3>1. seen' = seen /\ freq' = freq /\ monFeat' = monFeat
      BY <1>1, <2>2 DEF record
    <3> QED
      BY <3>1 DEF Types, Record
  <2> QED
    BY <2>1, <2>2
<1>5. cmin' \in (SUBSET Seeds) \cup {Missing} /\ (DoMinimize /\ ok => IsMinimized(cmin', global))
  BY <1>1, CminFacts DEF Types
<1>6. credited' \subseteq Features
  BY <1>1 DEF Types
<1>7. losses' \in 0..MaxLosses /\ (losses' = 0 => losses = 0 /\ ok = TRUE)
  <2>1. losses \in 0..MaxLosses
    BY DEF Types
  <2>2. Cardinality(L) \in Nat
    BY <2>1, LossyFacts
  <2>3. losses \in Nat
    BY <2>1, SeedSyncAssumption
  <2>4. CASE ok = TRUE
    <3>1. losses' = losses + Cardinality(L)
      BY <1>1, <2>2, <2>3, <2>4
    <3> QED
      BY <1>1, <2>2, <2>3, <2>4, <3>1, SeedSyncAssumption
  <2>5. CASE ok = FALSE
    <3>1. losses' = losses + Cardinality(L) + 1
      BY <1>1, <2>5
    <3> QED
      BY <1>1, <2>2, <2>3, <3>1, SeedSyncAssumption
  <2> QED
    BY <2>4, <2>5
<1>8. round' \in 0..Rounds
  <2>1. round \in 0..Rounds /\ round < Rounds
    BY <1>1 DEF Types
  <2> QED
    BY <1>1, <2>1, SeedSyncAssumption
<1>9. Types'
  BY <1>1, <1>3, <1>4, <1>5, <1>6, <1>7, <1>8, ForgetFacts DEF Types
<1> QED
  BY <1>1, <1>3, <1>4, <1>5, <1>7, <1>9, ForgetFacts

LEMMA RestartTypes ==
  ASSUME Types, Record, NEW ok \in MayFail, NEW okMin \in IF DoMinimize THEN MayFail ELSE {TRUE},
         Restart(ok, okMin)
  PROVE  /\ Types' /\ Record' /\ campaign' # 1
         /\ losses' = 0 => losses = 0 /\ ok = TRUE /\ okMin = TRUE
         /\ \A r \in 0..Rounds, f \in Fuzzers :
              left'[r].syncSeen[f] \in {syncSeen[f], left[r].syncSeen[f]}
         /\ DoMinimize /\ okMin => IsMinimized(cmin', global')
         /\ \A f \in Fuzzers : syncSeen'[f] = {}
<1>1. /\ campaign < Campaigns /\ campaign' = campaign + 1 /\ round' = 0 /\ pc' = "begin"
      /\ losses' = losses + (IF ok /\ okMin THEN 0 ELSE 1)
      /\ left' = left \/ Leave(poolReport)
      /\ global' = FirstPool /\ RefreshCmin(FirstPool, okMin) /\ FirstRecord(FirstPool, ok) /\ Forget
      /\ monFeat' = {} /\ queue' = None /\ reward' = None /\ windowed' = {} /\ windows' = 0
      /\ credited' = {} /\ oldSeen' = evalSeen /\ UNCHANGED <<wipes, input, evalSeen>>
  BY DEF Restart, Goto
<1>2. FirstPool \in SUBSET Seeds
  BY SeedSyncAssumption DEF FirstPool, Copyable, Types
<1>3. ok \in BOOLEAN /\ okMin \in BOOLEAN /\ (losses = MaxLosses => ok = TRUE /\ okMin = TRUE)
  <2>1. losses = MaxLosses => MayFail = {TRUE}
    <3>1. ~(MaxLosses < MaxLosses)
      BY SeedSyncAssumption
    <3> QED
      BY <3>1 DEF MayFail
  <2>2. MayFail \subseteq BOOLEAN
    BY DEF MayFail
  <2>3. okMin \in MayFail \cup {TRUE}
    OBVIOUS
  <2> QED
    BY <2>1, <2>2, <2>3
<1>4. losses' \in 0..MaxLosses /\ (losses' = 0 => losses = 0 /\ ok = TRUE /\ okMin = TRUE)
  <2>1. losses \in 0..MaxLosses /\ MaxLosses \in Nat
    BY SeedSyncAssumption DEF Types
  <2>2. CASE ok = TRUE /\ okMin = TRUE
    <3>1. losses' = losses
      BY <1>1, <2>1, <2>2
    <3> QED
      BY <2>1, <2>2, <3>1
  <2>3. CASE ~(ok = TRUE /\ okMin = TRUE)
    <3>1. losses' = losses + 1 /\ losses # MaxLosses
      BY <1>1, <1>3, <2>3
    <3> QED
      BY <2>1, <3>1
  <2> QED
    BY <2>2, <2>3
<1>5. /\ left' \in [0..Rounds -> LeftType]
      /\ \A r \in 0..Rounds, f \in Fuzzers : left'[r].syncSeen[f] \in {syncSeen[f], left[r].syncSeen[f]}
  <2>1. CASE left' = left
    BY <2>1 DEF Types
  <2>2. CASE Leave(poolReport)
    <3>1. poolReport \in (SUBSET Seeds) \cup {Missing}
      BY DEF Types
    <3>2. /\ left' \in [0..Rounds -> LeftType]
          /\ \A r \in 0..Rounds : r # round => left'[r] = left[r]
          /\ \A f \in Fuzzers : left'[round].syncSeen[f] \in {syncSeen[f], left[round].syncSeen[f]}
      BY <2>2, <3>1, LeaveFacts
    <3> QED
      BY <3>2
  <2> QED
    BY <1>1, <2>1, <2>2
<1>6. seen' \subseteq Features /\ Record' /\ (freq' = NoCounts \/ freq' \in [Edges -> Nat])
  <2>1. CASE ok
    <3>1. seen' = Cover(FirstPool) /\ freq' = Counts(FirstPool)
      BY <1>1, <2>1 DEF FirstRecord
    <3> QED
      BY <1>2, <3>1, RecordFacts
  <2>2. CASE ~ok
    <3>1. seen' = {} /\ freq' = NoCounts
      BY <1>1, <2>2 DEF FirstRecord
    <3>2. DOMAIN NoCounts = {}
      BY DEF NoCounts
    <3> QED
      BY <3>1, <3>2 DEF Record
  <2> QED
    BY <2>1, <2>2
<1>7. cmin' \in (SUBSET Seeds) \cup {Missing} /\ (DoMinimize /\ okMin => IsMinimized(cmin', FirstPool))
  BY <1>1, <1>2, CminFacts DEF Types
<1>8. campaign' \in 1..Campaigns /\ campaign' # 1
  BY <1>1, SeedSyncAssumption DEF Types
<1>9. round' \in 0..Rounds /\ windows' \in 0..MaxWindows
  BY <1>1, SeedSyncAssumption
<1>10. queue' \in SeedMap /\ reward' \in [Fuzzers -> SUBSET Features]
  BY <1>1, NoneFacts
<1>11. Types'
  BY <1>1, <1>2, <1>4, <1>5, <1>6, <1>7, <1>8, <1>9, <1>10, ForgetFacts DEF Types
<1> QED
  BY <1>1, <1>4, <1>5, <1>6, <1>7, <1>8, <1>11, ForgetFacts

(***************************************************************************)
(* The steps.                                                              *)
(***************************************************************************)

\* Steps that only the queues and the bounds notice.
LEMMA QuietStep ==
  ASSUME IInv, Types',
         UNCHANGED <<pc, round, losses, campaign, selected, started, base, global, cmin, input, accum,
                     evalSeen, syncSeen, left, seen, freq, monFeat, reward, windowed, report, cache,
                     targets, fresh, credited, oldSeen>>
  PROVE  IInv'
<1>1. Monitor' /\ Record'
  BY DEF IInv, Monitor, WindowRewardsAreNew, Record
<1>2. FirstCampaign' /\ Manifests'
  BY DEF IInv, FirstCampaign, Manifests
<1>3. Evaluated' /\ RewardsReachThePool'
  BY DEF IInv, Evaluated, Clean, Candidates, Cover, RewardsReachThePool
<1>4. Pool' /\ Covered'
  BY DEF IInv, Pool, IsMinimized, Copyable, Stable, EdgesOf, Cover, Covered, Coverage, Kept
<1>5. Credit' /\ NewOnlyOnce'
  BY DEF IInv, Credit, Cover, NewOnlyOnce, Copyable
<1> QED
  BY <1>1, <1>2, <1>3, <1>4, <1>5 DEF IInv

LEMMA BeginStep ==
  ASSUME IInv, NEW sel \in SUBSET Fuzzers, NEW run \in SUBSET sel, NEW anew \in SUBSET run,
         NEW L \in Lossy(Only(sel, global)), BeginRound(sel, run, anew, L)
  PROVE  IInv'
<1>1. /\ pc = "begin" /\ pc' = "fuzz" /\ selected' = sel /\ input' = Refilled /\ monFeat' = seen
      /\ base' = [f \in Fuzzers |-> IF f \in sel \ Failed(L) THEN input' \ Lost(L, f) ELSE {}]
      /\ reward' = None /\ windowed' = {}
      /\ report' = left[round].report /\ syncSeen' = left[round].syncSeen
      /\ UNCHANGED <<round, campaign, global, cmin, evalSeen, left, seen, freq, credited, oldSeen>>
  BY DEF BeginRound, MayBegin, ResetMonitor, Goto, record, past
<1>2. /\ Types /\ Types' /\ (losses' = 0 => losses = 0 /\ L = {})
  BY BeginTypes DEF IInv
<1>3. Monitor'
  BY <1>1, NoneFacts DEF Monitor, WindowRewardsAreNew
<1>4. Record'
  BY <1>1 DEF IInv, Record
<1>5. FirstCampaign'
  <2>1. round \in 0..Rounds /\ round >= round
    BY <1>2, SeedSyncAssumption DEF Types
  <2>2. campaign = 1 => left[round] = NothingLeft /\ \A r \in 0..Rounds : r >= round => left[r] = NothingLeft
    BY <2>1 DEF IInv, FirstCampaign
  <2> QED
    BY <1>1, <2>2, NoneFacts DEF FirstCampaign
<1>6. Manifests'
  <2>1. round \in 0..Rounds
    BY <1>2 DEF Types
  <2> QED
    BY <1>1, <1>2, <2>1 DEF IInv, Manifests
<1>7. Evaluated' /\ RewardsReachThePool' /\ NewOnlyOnce'
  BY <1>1 DEF Evaluated, RewardsReachThePool, NewOnlyOnce
<1>8. ASSUME losses = 0
      PROVE  /\ input' \subseteq global /\ (Copyable(global) = {} => input' = {})
             /\ Cover(Copyable(global)) \cap Stable \subseteq Cover(input')
  <2>1. Copyable(global) = {} => input = {}
    BY <1>8 DEF IInv, Pool
  <2>2. input' = IF Copyable(InputPool) # {} THEN Copyable(InputPool) ELSE input
    BY <1>1 DEF Refilled
  <2>3. CASE DoMinimize
    <3>1. IsMinimized(cmin, global)
      BY <1>1, <1>8, <2>3 DEF IInv, Pool
    <3>2. cmin # Missing
      BY <1>2, <3>1, SeedFacts DEF IsMinimized, Missing, Copyable, Types
    <3>3. Copyable(InputPool) = cmin /\ cmin \subseteq global
      BY <2>3, <3>1, <3>2 DEF InputPool, IsMinimized, Copyable
    <3>4. Cover(Copyable(global)) \cap Edges \subseteq Cover(cmin)
      BY <3>1 DEF IsMinimized, EdgesOf
    <3>5. CASE cmin # {}
      BY <2>2, <2>3, <3>1, <3>3, <3>4, <3>5 DEF IsMinimized, Stable
    <3>6. CASE cmin = {}
      <4>1. Copyable(global) = {} /\ input' = {}
        BY <2>1, <2>2, <3>1, <3>3, <3>6 DEF IsMinimized
      <4> QED
        BY <4>1, CoverNothing
    <3> QED
      BY <3>5, <3>6
  <2>4. CASE ~DoMinimize
    <3>1. InputPool = global /\ Copyable(global) \subseteq global
      BY <2>4 DEF InputPool, Copyable
    <3>2. CASE Copyable(global) # {}
      BY <2>2, <3>1, <3>2
    <3>3. CASE Copyable(global) = {}
      BY <2>1, <2>2, <3>1, <3>3, CoverNothing
    <3> QED
      BY <3>2, <3>3
  <2> QED
    BY <2>3, <2>4
<1>9. Pool'
  <2>1. losses' = 0 => \A f \in sel : base'[f] = input'
    BY <1>1, <1>2, NothingLost
  <2>2. /\ Copyable(global)' = Copyable(global) /\ Stable' = Stable
        /\ Cover(Copyable(global))' = Cover(Copyable(global)) /\ Cover(input)' = Cover(input')
    BY <1>1 DEF Copyable, Cover, Stable
  <2>3. losses' = 0 /\ DoMinimize => cmin' \subseteq Copyable(global)
    BY <1>1, <1>2 DEF IInv, Pool
  <2> QED
    BY <1>1, <1>2, <1>8, <2>1, <2>2, <2>3 DEF Pool
<1>10. Covered'
  BY <1>1, <1>2 DEF IInv, Covered, Coverage, Kept, Cover
<1>11. Credit'
  <2>1. Cover(global)' = Cover(global)
    BY <1>1 DEF Cover
  <2>2. losses' = 0 => credited' \subseteq Cover(global)
    BY <1>1, <1>2 DEF IInv, Credit
  <2> QED
    BY <1>1, <2>1, <2>2 DEF Credit
<1> QED
  BY <1>2, <1>3, <1>4, <1>5, <1>6, <1>7, <1>9, <1>10, <1>11 DEF IInv

LEMMA FindStep ==
  ASSUME IInv, NEW f \in Fuzzers, NEW s \in Seeds, Find(f, s)
  PROVE  IInv'
<1>1. Types'
  BY FindTypes DEF IInv
<1> QED
  BY <1>1, QuietStep DEF Find, bounds, chosen, record, window, final, past

LEMMA AgainStep ==
  ASSUME IInv, NEW f \in Fuzzers, StartAgain(f)
  PROVE  IInv'
<1>1. Types'
  BY AgainTypes DEF IInv
<1> QED
  BY <1>1, QuietStep DEF StartAgain, chosen, record, window, final, past

LEMMA WindowStep ==
  ASSUME IInv, NEW act \in SUBSET started, NEW R \in SeedMap, NEW L \in Lossy(R), Window(act, R, L)
  PROVE  IInv'
<1> DEFINE read == Read(act, R, L)
<1>1. /\ Types /\ Types' /\ read \in SeedMap /\ (losses' = 0 => losses = 0)
      /\ reward' = Rewarded(act, read) /\ Remember(act, read)
  BY WindowTypes DEF IInv
<1> HIDE DEF read
<1>2. /\ pc = "fuzz" /\ windowed' = windowed \cup UNION {reward[f] : f \in Fuzzers}
      /\ UNCHANGED <<campaign, pc, round, selected, started, base, global, cmin, input,
                     evalSeen, syncSeen, left, seen, freq, report, cache, targets, fresh, credited, oldSeen>>
  BY DEF Window, Lose, chosen, record, final, past
<1>3. /\ monFeat' = monFeat \cup UNION {Cover(read[f]) : f \in act}
      /\ \A f \in Fuzzers : reward'[f] = IF f \in act THEN Metrics(read[f], base[f]) \ monFeat ELSE {}
  BY <1>1 DEF Remember, Rewarded
<1>4. seen \subseteq monFeat /\ windowed \subseteq monFeat /\ \A f \in Fuzzers : reward[f] \subseteq monFeat
  BY <1>2 DEF IInv, Monitor
<1>5. \A f \in Fuzzers : Metrics(read[f], base[f]) \subseteq Cover(read[f])
  <2> SUFFICES ASSUME NEW f \in Fuzzers PROVE Metrics(read[f], base[f]) \subseteq Cover(read[f])
    OBVIOUS
  <2>1. read[f] \in SUBSET Seeds /\ base[f] \in SUBSET Seeds
    BY <1>1, CoverType DEF Types
  <2> QED
    BY <2>1, MetricsFacts
<1>6. windowed' \subseteq monFeat
  BY <1>2, <1>4
<1>7. \A f \in Fuzzers : reward'[f] \cap monFeat = {} /\ reward'[f] \subseteq monFeat'
  BY <1>3, <1>5
<1>8. WindowRewardsAreNew'
  BY <1>2, <1>4, <1>6, <1>7 DEF WindowRewardsAreNew
<1>9. Monitor'
  BY <1>2, <1>3, <1>4, <1>6, <1>7, <1>8 DEF Monitor
<1>10. Record' /\ FirstCampaign' /\ Manifests'
  BY <1>1, <1>2 DEF IInv, Record, FirstCampaign, Manifests
<1>11. Evaluated' /\ RewardsReachThePool' /\ NewOnlyOnce'
  BY <1>2 DEF Evaluated, RewardsReachThePool, NewOnlyOnce
<1>12. Pool' /\ Covered'
  BY <1>1, <1>2 DEF IInv, Pool, Copyable, Stable, Cover, Covered, Coverage, Kept
<1>13. Credit'
  BY <1>1, <1>2 DEF IInv, Credit, Cover
<1> QED
  BY <1>1, <1>9, <1>10, <1>11, <1>12, <1>13 DEF IInv

LEMMA FinalStep ==
  ASSUME IInv, NEW R \in Replayed([f \in Fuzzers |-> FinalDelta(f)]), NEW L \in Lossy(R), Finalize(R, L)
  PROVE  IInv'
<1>0. Types
  BY DEF IInv
<1>1. /\ R \in SeedMap
      /\ \A f \in Fuzzers : /\ R[f] \subseteq FinalDelta(f) /\ EdgesOf(R[f]) = EdgesOf(FinalDelta(f))
                            /\ f \notin Sampled => R[f] = FinalDelta(f)
  <2> DEFINE D == [f \in Fuzzers |-> FinalDelta(f)]
  <2>1. D \in SeedMap /\ \A f \in Fuzzers : D[f] = FinalDelta(f)
    BY <1>0, DeltaFacts DEF SeedMap
  <2>2. R \in Replayed(D)
    OBVIOUS
  <2> HIDE DEF D
  <2> QED
    BY <2>1, <2>2, ReplayedFacts
<1>2. Types' /\ (losses' = 0 => losses = 0 /\ L = {})
  BY <1>0, <1>1, FinalTypes
<1>3. /\ pc = "fuzz" /\ pc' = "evaluate" /\ accum' = Collected /\ reward' = None
      /\ cache' = [f \in Fuzzers |-> IF f \in selected \ Failed(L) THEN R[f] \ Lost(L, f) ELSE {}]
      /\ report' = [f \in Fuzzers |-> IF f \in selected \ Failed(L) THEN cache'[f] ELSE report[f]]
      /\ evalSeen' = [f \in Fuzzers |->
                        IF f \in selected \ Failed(L) THEN evalSeen[f] \cup FinalDelta(f) ELSE evalSeen[f]]
      /\ UNCHANGED <<campaign, round, selected, started, base, global, cmin, input, syncSeen, left,
                     seen, freq, credited, oldSeen>>
  BY DEF Finalize, Lose, Goto, WindowsOver, chosen, record, past
<1>4. Monitor'
  BY <1>3, NoneFacts DEF Monitor, WindowRewardsAreNew
<1>5. Record' /\ FirstCampaign'
  BY <1>3 DEF IInv, Record, FirstCampaign
<1>6. \A f \in Fuzzers : evalSeen[f] \subseteq evalSeen'[f]
  BY <1>3
<1>7. losses' = 0 => \A f \in Fuzzers : Collected[f] \ input \subseteq evalSeen'[f]
  <2> SUFFICES ASSUME losses' = 0, NEW f \in Fuzzers PROVE Collected[f] \ input \subseteq evalSeen'[f]
    OBVIOUS
  <2>1. Failed(L) = {}
    BY <1>2, NothingLost
  <2>2. CASE f \in selected
    <3>1. evalSeen'[f] = evalSeen[f] \cup FinalDelta(f)
      BY <1>3, <2>1, <2>2
    <3> QED
      BY <3>1 DEF FinalDelta
  <2>3. CASE f \notin selected
    <3>1. f \notin started
      BY <1>0, <2>3 DEF Types
    <3> QED
      BY <1>0, <3>1, DeltaFacts
  <2> QED
    BY <2>2, <2>3
<1>8. Manifests'
  BY <1>2, <1>3, <1>6, <1>7 DEF IInv, Manifests
<1>9. Clean' => Clean
  BY <1>2, <1>3 DEF Clean
<1>10. ASSUME Clean, NEW f \in Fuzzers PROVE cache'[f] \subseteq (Collected[f] \ input) \ syncSeen[f]
  <2>1. cache'[f] \subseteq (Collected[f] \ input) \ evalSeen[f]
    BY <1>1, <1>3 DEF FinalDelta
  <2>2. CASE campaign = 1
    <3>1. syncSeen[f] = {}
      BY <1>3, <2>2, NoneFacts DEF IInv, FirstCampaign
    <3> QED
      BY <2>1, <3>1
  <2>3. CASE losses = 0
    <3>1. syncSeen[f] \subseteq evalSeen[f]
      BY <2>3 DEF IInv, Manifests
    <3> QED
      BY <2>1, <3>1
  <2> QED
    BY <1>10, <2>2, <2>3 DEF Clean
<1>11. ASSUME Clean', NEW f \in selected PROVE report'[f] \subseteq cache'[f]
  <2>0. f \in Fuzzers
    BY <1>0 DEF Types
  <2>1. CASE f \notin Failed(L)
    BY <1>3, <2>0, <2>1
  <2>2. CASE f \in Failed(L)
    <3>1. campaign = 1
      BY <1>2, <1>3, <1>11, <2>2, NothingLost DEF Clean
    <3>2. report[f] = {}
      BY <1>3, <2>0, <3>1, NoneFacts DEF IInv, FirstCampaign
    <3>3. report'[f] = report[f]
      BY <1>3, <2>0, <2>2
    <3> QED
      BY <3>2, <3>3
  <2> QED
    BY <2>1, <2>2
<1>12. Evaluated'
  BY <1>3, <1>9, <1>10, <1>11 DEF Evaluated, Candidates
<1>13. RewardsReachThePool' /\ NewOnlyOnce'
  BY <1>3 DEF RewardsReachThePool, NewOnlyOnce
<1>14. Pool'
  BY <1>2, <1>3 DEF IInv, Pool, Copyable, Stable, Cover
<1>15. Covered'
  <2> SUFFICES ASSUME losses' = 0, NEW f \in Fuzzers, NEW s \in evalSeen'[f] \ oldSeen[f],
                      NEW x \in Kept(f, FeaturesOf[s])
               PROVE  x \in Coverage(f)'
    BY <1>3 DEF Covered, Kept
  <2>1. losses = 0 /\ Failed(L) = {} /\ Lost(L, f) = {}
    BY <1>2, NothingLost
  <2>2. Cover(global) \subseteq Coverage(f)' /\ (f \in selected => Cover(report'[f]) \subseteq Coverage(f)')
    BY <1>3 DEF Coverage, Cover
  <2>3. CASE s \in evalSeen[f]
    <3>1. Kept(f, FeaturesOf[s]) \subseteq Coverage(f)
      BY <2>1, <2>3 DEF IInv, Covered
    <3>2. Coverage(f) = Cover(global)
      BY <1>3 DEF Coverage
    <3> QED
      BY <2>2, <3>1, <3>2
  <2>4. CASE s \notin evalSeen[f]
    <3>1. f \in selected /\ s \in FinalDelta(f)
      BY <1>3, <2>4
    <3>2. report'[f] = R[f]
      BY <1>3, <2>1, <3>1
    <3>3. x \in Cover(FinalDelta(f)) /\ (f \in Sampled => x \in Edges)
      BY <3>1 DEF Kept, Cover
    <3>4. x \in Cover(R[f])
      <4>1. CASE f \in Sampled
        BY <1>1, <3>3, <4>1 DEF EdgesOf
      <4>2. CASE f \notin Sampled
        BY <1>1, <3>3, <4>2
      <4> QED
        BY <4>1, <4>2
    <3> QED
      BY <2>2, <3>1, <3>2, <3>4
  <2> QED
    BY <2>3, <2>4
<1>16. Credit'
  BY <1>2, <1>3 DEF IInv, Credit, Cover
<1> QED
  BY <1>2, <1>4, <1>5, <1>8, <1>12, <1>13, <1>14, <1>15, <1>16 DEF IInv

LEMMA EvaluateStep ==
  ASSUME IInv, EvaluateAll
  PROVE  IInv'
<1>0. Types /\ Types'
  BY EvaluateTypes DEF IInv
<1>1. /\ pc = "evaluate" /\ pc' = "sync"
      /\ targets' = [f \in Fuzzers |-> IF f \in selected THEN Metrics(report[f], base[f]) ELSE {}]
      /\ fresh' = [f \in Fuzzers |-> IF f \in selected THEN New(report[f], base[f]) ELSE {}]
      /\ UNCHANGED <<round, losses, campaign, selected, started, base, global, cmin, input, accum, evalSeen,
                     syncSeen, left, seen, freq, monFeat, reward, windowed, report, cache, credited, oldSeen>>
  BY DEF EvaluateAll, Goto, bounds, chosen, disk, record, window, past
<1>2. \A f \in selected : f \in Fuzzers
  BY <1>0 DEF Types
<1>3. \A f \in selected :
        /\ New(report[f], base[f]) \subseteq Metrics(report[f], base[f])
        /\ Metrics(report[f], base[f]) \subseteq Cover(report[f])
        /\ Cover(report[f]) \subseteq New(report[f], base[f]) \cup Cover(base[f])
        /\ New(report[f], base[f]) \cap Cover(base[f]) = {}
  <2> TAKE f \in selected
  <2>1. report[f] \in SUBSET Seeds /\ base[f] \in SUBSET Seeds
    BY <1>0, <1>2, CoverType DEF Types
  <2> QED
    BY <2>1, MetricsFacts
<1>4. \A f \in Fuzzers :
        /\ f \in selected => targets'[f] = Metrics(report[f], base[f]) /\ fresh'[f] = New(report[f], base[f])
        /\ f \notin selected => targets'[f] = {} /\ fresh'[f] = {}
  BY <1>1
<1>5. Monitor' /\ Record'
  BY <1>1 DEF IInv, Monitor, WindowRewardsAreNew, Record
<1>6. FirstCampaign' /\ Manifests'
  BY <1>1 DEF IInv, FirstCampaign, Manifests
<1>7. Evaluated'
  <2> SUFFICES ASSUME Clean', NEW f \in Fuzzers
               PROVE  cache'[f] \subseteq Candidates(f)' /\ targets'[f] \subseteq Cover(cache[f])'
    BY <1>1 DEF Evaluated
  <2>1. Clean
    BY <1>1 DEF Clean
  <2>2. cache'[f] \subseteq Candidates(f)'
    BY <1>1, <2>1 DEF IInv, Evaluated, Candidates
  <2>3. targets'[f] \subseteq Cover(cache[f])
    <3>1. CASE f \in selected
      <4>1. report[f] \subseteq cache[f]
        BY <1>1, <2>1, <3>1 DEF IInv, Evaluated
      <4>2. Cover(report[f]) \subseteq Cover(cache[f])
        BY <4>1, CoverGrows
      <4> QED
        BY <1>3, <1>4, <3>1, <4>2
    <3>2. CASE f \notin selected
      BY <1>4, <3>2
    <3> QED
      BY <3>1, <3>2
  <2>4. Cover(cache[f])' = Cover(cache[f])
    BY <1>1 DEF Cover
  <2> QED
    BY <2>2, <2>3, <2>4
<1>8. RewardsReachThePool'
  BY <1>1 DEF RewardsReachThePool
<1>9. Pool'
  BY <1>1 DEF IInv, Pool, Copyable, Stable, Cover
<1>10. Covered'
  <2> SUFFICES ASSUME losses = 0, NEW f \in Fuzzers, NEW s \in evalSeen[f] \ oldSeen[f]
               PROVE  Kept(f, FeaturesOf[s]) \subseteq Coverage(f)'
    BY <1>1 DEF Covered, Kept
  <2>1. Kept(f, FeaturesOf[s]) \subseteq Coverage(f)
    BY DEF IInv, Covered
  <2>2. Coverage(f)' = Cover(global) \cup targets'[f]
    BY <1>1 DEF Coverage, Cover
  <2>3. Coverage(f) = Cover(global) \cup (IF f \in selected THEN Cover(report[f]) ELSE {})
    BY <1>1 DEF Coverage
  <2>4. f \in selected => Cover(report[f]) \subseteq targets'[f] \cup Cover(global)
    <3> SUFFICES ASSUME f \in selected PROVE Cover(report[f]) \subseteq targets'[f] \cup Cover(global)
      OBVIOUS
    <3>1. base[f] \subseteq global
      BY <1>1 DEF IInv, Pool
    <3>2. Cover(base[f]) \subseteq Cover(global)
      BY <3>1, CoverGrows
    <3> QED
      BY <1>3, <1>4, <3>2
  <2> QED
    BY <2>1, <2>2, <2>3, <2>4
<1>11. \A f \in Fuzzers : fresh'[f] \subseteq targets'[f]
  BY <1>3, <1>4
<1>12. Credit'
  BY <1>1, <1>11 DEF IInv, Credit, Cover
<1>13. NewOnlyOnce'
  <2> SUFFICES ASSUME losses = 0, NEW f \in Fuzzers, NEW x \in fresh'[f] \cap credited \cap Stable
               PROVE  x \in Cover(global \cap TooLarge) \ Cover(Copyable(global))
    BY <1>1 DEF NewOnlyOnce, Stable, Features, Copyable, Cover
  <2>1. x \in Cover(global)
    BY DEF IInv, Credit
  <2>2. f \in selected => base[f] = input
    BY <1>1 DEF IInv, Pool
  <2>3. x \notin Cover(input)
    BY <1>3, <1>4, <2>2
  <2>4. x \notin Cover(Copyable(global))
    BY <1>1, <2>3 DEF IInv, Pool
  <2> QED
    BY <2>1, <2>4 DEF Cover, Copyable
<1> QED
  BY <1>0, <1>5, <1>6, <1>7, <1>8, <1>9, <1>10, <1>12, <1>13 DEF IInv

LEMMA SyncStep ==
  ASSUME IInv, NEW L \in Lossy(Uncached), Sync(L)
  PROVE  IInv'
<1>0. /\ Types /\ Types' /\ (losses' = 0 => losses = 0)
      /\ global' = global \cup UNION {Merged(f, L) : f \in Fuzzers}
      /\ \A f \in Fuzzers : Known(f, L) \subseteq Candidates(f) /\ Merged(f, L) \subseteq Known(f, L)
                            /\ syncSeen'[f] \subseteq syncSeen[f] \cup Merged(f, L)
  BY SyncTypes DEF IInv
<1>1. /\ pc = "sync" /\ pc' = "refresh"
      /\ UNCHANGED <<campaign, round, selected, started, base, cmin, input, accum, evalSeen, left, seen, freq,
                     monFeat, reward, windowed, report, cache, targets, fresh, credited, oldSeen>>
  BY DEF Sync, Lose, Goto, chosen, record, window, final, past
<1>2. Monitor' /\ Record'
  BY <1>1 DEF IInv, Monitor, WindowRewardsAreNew, Record
<1>3. FirstCampaign'
  BY <1>1 DEF IInv, FirstCampaign
<1>4. Manifests'
  <2>1. losses = 0 => \A f \in Fuzzers : Merged(f, L) \subseteq evalSeen[f]
    BY <1>0, <1>1 DEF IInv, Manifests, Candidates
  <2> QED
    BY <1>0, <1>1, <2>1 DEF IInv, Manifests
<1>5. Evaluated' /\ NewOnlyOnce'
  BY <1>1 DEF Evaluated, NewOnlyOnce
<1>6. Clean' => Clean
  BY <1>0, <1>1 DEF Clean
<1>7. ASSUME Clean, NEW f \in Fuzzers PROVE targets[f] \subseteq Cover(global')
  <2>1. cache[f] \subseteq Candidates(f) /\ targets[f] \subseteq Cover(cache[f])
    BY <1>1, <1>7 DEF IInv, Evaluated
  <2>2. cache[f] \subseteq Known(f, L)
    BY <2>1 DEF Known, Uncached
  <2>3. Known(f, L) \in SUBSET Seeds
    BY <1>0, DeltaFacts
  <2>4. targets[f] \subseteq Cover(Known(f, L))
    <3>1. Cover(cache[f]) \subseteq Cover(Known(f, L))
      BY <2>2, CoverGrows
    <3> QED
      BY <2>1, <3>1
  <2>5. targets[f] \subseteq Cover(Merged(f, L))
    BY <2>3, <2>4, SelectionFacts DEF Merged
  <2>6. Merged(f, L) \subseteq global'
    BY <1>0
  <2>7. Cover(Merged(f, L)) \subseteq Cover(global')
    BY <2>6, CoverGrows
  <2> QED
    BY <2>5, <2>7
<1>8. Cover(global)' = Cover(global') /\ Cover(global) \subseteq Cover(global')
  BY <1>0 DEF Cover
<1>9. RewardsReachThePool'
  BY <1>1, <1>6, <1>7, <1>8 DEF RewardsReachThePool, Clean
<1>10. Pool'
  BY <1>0, <1>1 DEF IInv, Pool, Copyable
<1>11. Covered'
  <2> SUFFICES ASSUME losses = 0, NEW f \in Fuzzers, NEW s \in evalSeen[f] \ oldSeen[f]
               PROVE  Kept(f, FeaturesOf[s]) \subseteq Coverage(f)'
    BY <1>0, <1>1 DEF Covered, Kept
  <2>1. Kept(f, FeaturesOf[s]) \subseteq Coverage(f)
    BY DEF IInv, Covered
  <2>2. Coverage(f)' = Cover(global') /\ Coverage(f) = Cover(global) \cup targets[f]
    BY <1>1 DEF Coverage, Cover
  <2>3. targets[f] \subseteq Cover(global')
    BY <1>7 DEF Clean
  <2> QED
    BY <1>8, <2>1, <2>2, <2>3
<1>12. Credit'
  BY <1>0, <1>1, <1>8 DEF IInv, Credit
<1> QED
  BY <1>0, <1>2, <1>3, <1>4, <1>5, <1>9, <1>10, <1>11, <1>12 DEF IInv

LEMMA RefreshStep ==
  ASSUME IInv, NEW L \in Lossy(Only(Fuzzers, global)), NEW ok \in BOOLEAN, Refresh(L, ok)
  PROVE  IInv'
<1>0. Types /\ Record
  BY DEF IInv
<1>1. /\ Types' /\ Record' /\ (losses' = 0 => losses = 0 /\ ok = TRUE)
      /\ \A r \in 0..Rounds : r # round => left'[r] = left[r]
      /\ \A f \in Fuzzers : left'[round].syncSeen[f] \in {syncSeen[f], left[round].syncSeen[f]}
      /\ DoMinimize /\ ok => IsMinimized(cmin', global)
      /\ \A f \in Fuzzers : syncSeen'[f] = {}
  BY <1>0, RefreshTypes
<1>2. /\ pc = "refresh" /\ pc' = "begin" /\ round' = round + 1
      /\ credited' = credited \cup UNION {fresh[f] : f \in Fuzzers}
      /\ UNCHANGED <<campaign, global, input, evalSeen, reward, windowed, oldSeen>>
  BY DEF Refresh, Goto
<1>3. reward = None
  BY <1>2 DEF IInv, Monitor
<1>4. Monitor'
  BY <1>2, <1>3, NoneFacts DEF Monitor, WindowRewardsAreNew
<1>5. FirstCampaign'
  <2>1. round \in Nat /\ \A r \in 0..Rounds : r \in Nat
    BY <1>0, SeedSyncAssumption DEF Types
  <2>2. \A r \in 0..Rounds : r >= round + 1 => r # round /\ r >= round
    BY <2>1
  <2> QED
    BY <1>1, <1>2, <2>2 DEF IInv, FirstCampaign
<1>6. Manifests'
  BY <1>1, <1>2 DEF IInv, Manifests
<1>7. Evaluated' /\ RewardsReachThePool' /\ NewOnlyOnce'
  BY <1>2 DEF Evaluated, RewardsReachThePool, NewOnlyOnce
<1>8. Pool'
  <2>1. IsMinimized(cmin, global)' <=> IsMinimized(cmin', global)
    BY <1>2 DEF IsMinimized, Copyable, EdgesOf, Cover
  <2>2. Copyable(global)' = Copyable(global)
    BY <1>2 DEF Copyable
  <2>3. IsMinimized(cmin', global) => cmin' \subseteq Copyable(global)
    BY DEF IsMinimized
  <2> QED
    BY <1>1, <1>2, <2>1, <2>2, <2>3 DEF IInv, Pool
<1>9. Covered'
  BY <1>1, <1>2 DEF IInv, Covered, Coverage, Kept, Cover
<1>10. Credit'
  <2> SUFFICES ASSUME losses' = 0 PROVE credited' \subseteq Cover(global)'
    BY <1>2 DEF Credit
  <2>1. losses = 0 /\ Cover(global)' = Cover(global)
    BY <1>1, <1>2 DEF Cover
  <2>2. \A f \in Fuzzers : fresh[f] \subseteq Cover(global)
    BY <1>2, <2>1 DEF IInv, Credit, RewardsReachThePool
  <2>3. credited \subseteq Cover(global)
    BY <2>1 DEF IInv, Credit
  <2> QED
    BY <1>2, <2>1, <2>2, <2>3
<1> QED
  BY <1>1, <1>4, <1>5, <1>6, <1>7, <1>8, <1>9, <1>10 DEF IInv

LEMMA RestartStep ==
  ASSUME IInv, NEW ok \in MayFail, NEW okMin \in IF DoMinimize THEN MayFail ELSE {TRUE}, Restart(ok, okMin)
  PROVE  IInv'
<1>0. Types /\ Record
  BY DEF IInv
<1>1. /\ Types' /\ Record' /\ campaign' # 1
      /\ losses' = 0 => losses = 0 /\ ok = TRUE /\ okMin = TRUE
      /\ \A r \in 0..Rounds, f \in Fuzzers : left'[r].syncSeen[f] \in {syncSeen[f], left[r].syncSeen[f]}
      /\ DoMinimize /\ okMin => IsMinimized(cmin', global')
      /\ \A f \in Fuzzers : syncSeen'[f] = {}
  BY <1>0, RestartTypes
<1>2. /\ pc' = "begin" /\ global' = FirstPool /\ reward' = None /\ credited' = {} /\ oldSeen' = evalSeen
      /\ UNCHANGED <<input, evalSeen>>
  BY DEF Restart, Goto
<1>3. Monitor'
  BY <1>2, NoneFacts DEF Monitor, WindowRewardsAreNew
<1>4. FirstCampaign'
  BY <1>1 DEF FirstCampaign
<1>5. Manifests'
  BY <1>1, <1>2 DEF IInv, Manifests
<1>6. Evaluated' /\ RewardsReachThePool' /\ NewOnlyOnce'
  BY <1>2 DEF Evaluated, RewardsReachThePool, NewOnlyOnce
<1>7. Pool'
  <2>1. IsMinimized(cmin, global)' <=> IsMinimized(cmin', global')
    BY DEF IsMinimized, Copyable, EdgesOf, Cover
  <2>2. losses = 0 /\ Copyable(global') = {} => input = {}
    BY <1>2 DEF FirstPool, Copyable, IInv, Pool
  <2>3. Copyable(global)' = Copyable(global')
    BY DEF Copyable
  <2>4. IsMinimized(cmin', global') => cmin' \subseteq Copyable(global')
    BY DEF IsMinimized
  <2> QED
    BY <1>1, <1>2, <2>1, <2>2, <2>3, <2>4 DEF Pool
<1>8. Covered' /\ Credit'
  BY <1>2 DEF Covered, Credit
<1> QED
  BY <1>1, <1>3, <1>4, <1>5, <1>6, <1>7, <1>8 DEF IInv

LEMMA InitInv == Init => IInv
<1> SUFFICES ASSUME Init PROVE IInv
  OBVIOUS
<1>1. /\ pc = "begin" /\ round = 0 /\ windows = 0 /\ wipes = 0 /\ campaign = 1
      /\ global = Copyable(InitialPool) /\ input = {} /\ selected = {} /\ started = {} /\ base = None
      /\ queue = None /\ accum = None /\ monSeen = None /\ monReport = None /\ evalSeen = None
      /\ report = None /\ cache = None /\ targets = None /\ fresh = None /\ syncSeen = None
      /\ poolReport = Missing /\ left = [r \in 0..Rounds |-> NothingLeft]
      /\ monFeat = {} /\ reward = None /\ windowed = {} /\ credited = {} /\ oldSeen = None
  BY DEF Init
<1>2. global \in SUBSET Seeds
  BY <1>1, SeedSyncAssumption DEF Copyable
<1>3. PICK ok \in BOOLEAN, okMin \in IF DoMinimize THEN BOOLEAN ELSE {TRUE} :
        /\ losses = (IF ok /\ okMin THEN 0 ELSE 1) /\ losses <= MaxLosses
        /\ cmin \in IF DoMinimize /\ okMin THEN MinimizedPools(global) ELSE {Missing}
        /\ seen = IF ok THEN Cover(global) ELSE {}
        /\ freq = IF ok THEN Counts(global) ELSE NoCounts
  BY DEF Init
<1>4. /\ losses \in 0..MaxLosses
      /\ cmin \in (SUBSET Seeds) \cup {Missing} /\ (losses = 0 /\ DoMinimize => IsMinimized(cmin, global))
  <2>1. losses \in 0..MaxLosses
    BY <1>3, SeedSyncAssumption
  <2>2. CASE DoMinimize /\ okMin
    <3>1. IsMinimized(cmin, global)
      BY <1>3, <2>2, PoolFacts
    <3> QED
      BY <1>2, <2>1, <3>1 DEF IsMinimized, Copyable
  <2>3. CASE ~(DoMinimize /\ okMin)
    BY <1>3, <2>1, <2>3
  <2> QED
    BY <2>2, <2>3
<1>5. seen \subseteq Features /\ Record /\ (freq = NoCounts \/ freq \in [Edges -> Nat])
  <2>1. CASE ok
    BY <1>2, <1>3, <2>1, CoverFacts, CountsFacts DEF Record
  <2>2. CASE ~ok
    <3>1. DOMAIN NoCounts = {}
      BY DEF NoCounts
    <3> QED
      BY <1>3, <2>2, <3>1 DEF Record
  <2> QED
    BY <2>1, <2>2
<1>6. round \in 0..Rounds /\ windows \in 0..MaxWindows /\ wipes \in 0..MaxWipes /\ campaign \in 1..Campaigns
  BY <1>1, SeedSyncAssumption
<1>7. Types
  BY <1>1, <1>2, <1>4, <1>5, <1>6, NoneFacts DEF Types
<1>8. Monitor
  BY <1>1, NoneFacts DEF Monitor, WindowRewardsAreNew
<1>9. FirstCampaign /\ Manifests
  BY <1>1, NoneFacts DEF FirstCampaign, Manifests
<1>10. Evaluated /\ RewardsReachThePool /\ NewOnlyOnce
  BY <1>1 DEF Evaluated, RewardsReachThePool, NewOnlyOnce
<1>11. Pool
  BY <1>1, <1>4 DEF Pool, IsMinimized
<1>12. Covered /\ Credit
  BY <1>1, NoneFacts DEF Covered, Credit
<1> QED
  BY <1>5, <1>7, <1>8, <1>9, <1>10, <1>11, <1>12 DEF IInv

\* The invariant of every campaign, round and window.
THEOREM Invariance == Spec => []IInv
<1>1. IInv /\ [Next]_vars => IInv'
  <2> SUFFICES ASSUME IInv, [Next]_vars PROVE IInv'
    OBVIOUS
  <2>t. Types
    BY DEF IInv
  <2>1. ASSUME NEW sel \in SUBSET Fuzzers, NEW run \in SUBSET sel, NEW L \in Lossy(Only(sel, global)),
               NEW more \in SUBSET (run \ MustStart(run)), BeginRound(sel, run, MustStart(run) \cup more, L)
        PROVE  IInv'
    <3>1. MustStart(run) \cup more \in SUBSET run
      BY DEF MustStart
    <3> QED
      BY <2>1, <3>1, BeginStep
  <2>2. ASSUME NEW act \in SUBSET started,
               NEW R \in Replayed([f \in Fuzzers |-> IF f \in act THEN MonitorDelta(f) ELSE {}]),
               NEW L \in Lossy(R), Window(act, R, L)
        PROVE  IInv'
    <3> DEFINE D == [f \in Fuzzers |-> IF f \in act THEN MonitorDelta(f) ELSE {}]
    <3>1. D \in SeedMap
      BY <2>t, DeltaFacts DEF SeedMap
    <3>2. R \in Replayed(D)
      OBVIOUS
    <3> HIDE DEF D
    <3>3. R \in SeedMap
      BY <3>1, <3>2, ReplayedFacts
    <3> QED
      BY <2>2, <3>3, WindowStep
  <2>3. ASSUME NEW L \in Lossy(Only(Fuzzers, global)), NEW ok \in IF DoMinimize THEN MayFail ELSE {TRUE},
               Refresh(L, ok)
        PROVE  IInv'
    <3>1. ok \in BOOLEAN
      BY DEF MayFail
    <3> QED
      BY <2>3, <3>1, RefreshStep
  <2>4. ASSUME Ended \/ UNCHANGED vars PROVE IInv'
    <3>1. UNCHANGED <<pc, round, windows, losses, wipes, campaign, global, cmin, input, selected, started,
                      queue, accum, base, monSeen, monReport, evalSeen, report, cache, syncSeen, poolReport,
                      left, targets, fresh, seen, freq, monFeat, reward, windowed, credited, oldSeen>>
      BY <2>4 DEF Ended, vars, bounds, chosen, disk, record, window, final, past
    <3>2. Types'
      BY <2>t, <3>1 DEF Types
    <3> QED
      BY <3>1, <3>2, QuietStep
  <2> QED
    BY <2>1, <2>2, <2>3, <2>4, FindStep, AgainStep, FinalStep, EvaluateStep, SyncStep, RestartStep DEF Next
<1> QED
  BY <1>1, InitInv, PTL DEF Spec

\* Every variable keeps its type.
THEOREM TypeCorrect == Spec => []TypeOK
<1>1. IInv => TypeOK
  BY DEF IInv, Types, TypeOK, SeedMap, Features
<1> QED
  BY <1>1, Invariance, PTL

\* What a fuzzer is rewarded for at the end of a round is covered by the global
\* pool when the selection is over, although it drops seeds and replays are lost.
THEOREM RewardsTheorem == Spec => []RewardsReachThePool
<1>1. IInv => RewardsReachThePool
  BY DEF IInv
<1> QED
  BY <1>1, Invariance, PTL

\* Without losses the pool covers, at the end of a round, what its fuzzers have
\* found, in this round or before, rewarded or not.
THEOREM DiscoveriesTheorem == Spec => []DiscoveriesReachThePool
<1>1. IInv => DiscoveriesReachThePool
  <2> SUFFICES ASSUME IInv, pc = "refresh", losses = 0, NEW f \in started,
                      NEW x \in Cover(accum[f] \ oldSeen[f]), f \in Sampled => x \in Edges
               PROVE  x \in Cover(global)
    BY DEF DiscoveriesReachThePool
  <2>1. f \in Fuzzers
    BY DEF IInv, Types
  <2>2. PICK s \in accum[f] \ oldSeen[f] : x \in FeaturesOf[s]
    BY DEF Cover
  <2>3. CASE s \in input
    <3>1. s \in global
      BY <2>3 DEF IInv, Pool
    <3> QED
      BY <2>2, <3>1 DEF Cover
  <2>4. CASE s \notin input
    <3>1. s \in evalSeen[f] \ oldSeen[f]
      BY <2>1, <2>2, <2>4 DEF IInv, Manifests
    <3>2. Kept(f, FeaturesOf[s]) \subseteq Coverage(f)
      BY <2>1, <3>1 DEF IInv, Covered
    <3>3. x \in Kept(f, FeaturesOf[s]) /\ Coverage(f) = Cover(global)
      BY <2>2 DEF Kept, Coverage
    <3> QED
      BY <3>2, <3>3
  <2> QED
    BY <2>3, <2>4
<1> QED
  BY <1>1, Invariance, PTL

\* Without losses, what was new at the end of a round is new at the end of a
\* later one only if a seed in the pool has it, but none that SEED.sh copies into
\* the input: selection, pool, minimization, refill and baseline lose nothing else.
THEOREM NewOnceTheorem == Spec => []NewOnlyOnce
<1>1. IInv => NewOnlyOnce
  BY DEF IInv
<1> QED
  BY <1>1, Invariance, PTL

\* A monitor window rewards nothing that an earlier window of the round has
\* rewarded or that the record knows.
THEOREM WindowsTheorem == Spec => []WindowRewardsAreNew
<1>1. IInv => WindowRewardsAreNew
  BY DEF IInv, Monitor
<1> QED
  BY <1>1, Invariance, PTL

\* The counts and the seen edges of the record agree, and a monitor window
\* never rewards a low-frequency edge once there is a record.
THEOREM NoC4Theorem == Spec => []WindowsHaveNoC4
<1>1. IInv => WindowsHaveNoC4
  <2> SUFFICES ASSUME IInv PROVE WindowsHaveNoC4
    OBVIOUS
  <2>1. {e \in DOMAIN freq : freq[e] > 0} = seen \cap Edges
    BY DEF IInv, Record
  <2>2. ASSUME freq # NoCounts, NEW f \in Fuzzers PROVE reward[f] \cap LowFrequency(monReport[f]) = {}
    <3>1. freq \in [Edges -> Nat]
      BY <2>2 DEF IInv, Types
    <3>2. LowFrequency(monReport[f]) \subseteq seen
      BY <2>1, <2>2, <3>1, LowFacts
    <3>3. reward[f] \cap seen = {}
      BY DEF IInv, Monitor, WindowRewardsAreNew
    <3> QED
      BY <3>2, <3>3
  <2> QED
    BY <2>1, <2>2 DEF WindowsHaveNoC4
<1> QED
  BY <1>1, Invariance, PTL

-----------------------------------------------------------------------------
(***************************************************************************)
(* Deep, the edges that earn C3, are those in the functions which          *)
(* DeepFunctions finds.  Its walk finds the call depth of every function,  *)
(* for any call graph.  First the graph: the functions within k calls of   *)
(* the driver form levels, each level that is not the last is larger than  *)
(* the one before, so N levels reach everything, and a function that is    *)
(* not the driver has a caller that is one call nearer.  What holds of     *)
(* every level is shown by looking at the least level where it fails.      *)
(***************************************************************************)

\* The functions that those in S call.
CalledBy(N, S, E) == {m \in 1..N : \E n \in S : <<n, m>> \in E}

\* W[k] is the set of functions within k calls E of the driver r.
IsLevels(W, N, r, E) ==
  /\ W = [k \in 0..N |-> W[k]] /\ W[0] = {r}
  /\ \A k \in 1..N : W[k] = W[k - 1] \cup CalledBy(N, W[k - 1], E)

\* There is no first level that cannot be computed.
LEMMA LevelsExist ==
  ASSUME NEW N \in Nat, NEW r, NEW E
  PROVE  \E W : IsLevels(W, N, r, E)
<1> DEFINE Step(S) == S \cup CalledBy(N, S, E)
           Upto(j, W) == /\ W = [k \in 0..N |-> W[k]]
                         /\ W[0] = {r}
                         /\ \A k \in 1..j : W[k] = Step(W[k - 1])
           Bad == {j \in 0..N : ~\E W : Upto(j, W)}
<1>0. N \in Nat
  OBVIOUS
<1> HIDE DEF Step
<1>1. Bad = {}
  <2> SUFFICES ASSUME Bad # {} PROVE FALSE
    OBVIOUS
  <2>1. Bad \in SUBSET Nat
    BY <1>0
  <2> HIDE DEF Upto
  <2>2. PICK j \in Bad : \A i \in Bad : j <= i
    BY <2>1, LeastNumber
  <2>3. j \in 0..N /\ ~\E W : Upto(j, W)
    BY <2>2
  <2>4. j # 0
    <3> DEFINE z == [k \in 0..N |-> {r}]
    <3>1. Upto(0, z)
      BY <1>0 DEF Upto
    <3> QED
      BY <2>3, <3>1
  <2>5. j - 1 \in 0..N /\ j - 1 \notin Bad
    BY <1>0, <2>2, <2>3, <2>4
  <2>6. PICK W : Upto(j - 1, W)
    BY <2>5
  <2> DEFINE X == [k \in 0..N |-> IF k = j THEN Step(W[j - 1]) ELSE W[k]]
  <2>7. Upto(j, X)
    <3>1. X = [k \in 0..N |-> X[k]]
      OBVIOUS
    <3>2. X[0] = {r}
      BY <1>0, <2>3, <2>4, <2>6 DEF Upto
    <3>3. ASSUME NEW k \in 1..j PROVE X[k] = Step(X[k - 1])
      <4>1. k \in 0..N /\ k - 1 \in 0..N /\ k - 1 # j
        BY <1>0, <2>3
      <4>2. X[k - 1] = W[k - 1]
        BY <4>1
      <4>3. CASE k = j
        BY <4>1, <4>2, <4>3
      <4>4. CASE k # j
        <5>1. k \in 1..(j - 1)
          BY <2>3, <4>4
        <5>2. W[k] = Step(W[k - 1])
          BY <2>6, <5>1 DEF Upto
        <5> QED
          BY <4>1, <4>2, <4>4, <5>2
      <4> QED
        BY <4>3, <4>4
    <3> QED
      BY <3>1, <3>2, <3>3 DEF Upto
  <2> QED
    BY <2>3, <2>7
<1>2. PICK W : Upto(N, W)
  BY <1>0, <1>1
<1>3. IsLevels(W, N, r, E)
  BY <1>2 DEF IsLevels, Step
<1> QED
  BY <1>3

\* The levels one by one.
LEMMA Levels ==
  ASSUME NEW N \in Nat, NEW r, NEW E, NEW W, IsLevels(W, N, r, E)
  PROVE  /\ N \in Nat /\ W[0] = {r}
         /\ \A k \in 0..N : k # 0 =>
              k - 1 \in 0..N /\ W[k] = W[k - 1] \cup CalledBy(N, W[k - 1], E)
<1>1. N \in Nat
  OBVIOUS
<1>2. \A k \in 0..N : k # 0 => k - 1 \in 0..N /\ k \in 1..N
  BY <1>1
<1>3. W[0] = {r} /\ \A k \in 1..N : W[k] = W[k - 1] \cup CalledBy(N, W[k - 1], E)
  BY Zenon DEF IsLevels
<1> QED
  BY <1>1, <1>2, <1>3

\* What is within j calls is within k calls.
LEMMA LevelsGrow ==
  ASSUME NEW N \in Nat, NEW r, NEW E, NEW W, IsLevels(W, N, r, E),
         NEW j \in 0..N, NEW k \in 0..N, j <= k
  PROVE  W[j] \subseteq W[k]
<1> DEFINE Bad == {i \in 0..N : j <= i /\ ~(W[j] \subseteq W[i])}
<1> SUFFICES ASSUME Bad # {} PROVE FALSE
  OBVIOUS
<1>1. Bad \in SUBSET Nat
  BY Levels
<1>2. PICK i \in Bad : \A h \in Bad : i <= h
  BY <1>1, LeastNumber
<1>3. i \in 0..N /\ i # j /\ j <= i /\ i # 0
  BY <1>2, Levels
<1>4. i - 1 \in 0..N /\ j <= i - 1 /\ i - 1 \notin Bad /\ W[i - 1] \subseteq W[i]
  BY <1>2, <1>3, Levels
<1> QED
  BY <1>2, <1>4

LEMMA NodesAreFinite ==
  ASSUME NEW N \in Nat
  PROVE  IsFiniteSet(1..N) /\ Cardinality(1..N) = N
<1>1. N \in Int /\ 1 \in Int /\ (1 > N => N = 0) /\ N - 1 + 1 = N
  OBVIOUS
<1>2. IsFiniteSet(1..N) /\ Cardinality(1..N) = IF 1 > N THEN 0 ELSE N - 1 + 1
  BY <1>1, FS_Interval, Zenon
<1> QED
  BY <1>1, <1>2

\* Nothing but functions and the driver is reached.
LEMMA LevelsAreFinite ==
  ASSUME NEW N \in Nat, NEW r \in 0..N, NEW E, NEW W, IsLevels(W, N, r, E), NEW k \in 0..N
  PROVE  W[k] \subseteq 1..N \cup {r} /\ IsFiniteSet(W[k]) /\ Cardinality(W[k]) \in Nat
<1> DEFINE Bad == {i \in 0..N : ~(W[i] \subseteq 1..N \cup {r})}
<1>1. Bad = {}
  <2> SUFFICES ASSUME Bad # {} PROVE FALSE
    OBVIOUS
  <2>1. Bad \in SUBSET Nat
    BY Levels
  <2>2. PICK i \in Bad : \A h \in Bad : i <= h
    BY <2>1, LeastNumber
  <2>3. i \in 0..N /\ i # 0
    BY <2>2, Levels
  <2>4. i - 1 \in 0..N /\ i - 1 \notin Bad /\ W[i] = W[i - 1] \cup CalledBy(N, W[i - 1], E)
    BY <2>2, <2>3, Levels
  <2>5. CalledBy(N, W[i - 1], E) \subseteq 1..N
    BY DEF CalledBy
  <2> QED
    BY <2>2, <2>4, <2>5
<1>2. IsFiniteSet(1..N \cup {r})
  <2>1. IsFiniteSet(1..N)
    BY NodesAreFinite
  <2> QED
    BY <2>1, FS_AddElement
<1>3. IsFiniteSet(W[k])
  BY <1>1, <1>2, FS_Subset
<1> QED
  BY <1>1, <1>3, FS_CardinalityType

\* Once a level adds nothing, no later one does.
LEMMA StableLevels ==
  ASSUME NEW N \in Nat, NEW r, NEW E, NEW W, IsLevels(W, N, r, E),
         NEW j \in 0..N, CalledBy(N, W[j], E) \subseteq W[j]
  PROVE  W[N] = W[j]
<1> DEFINE Bad == {i \in 0..N : j <= i /\ W[i] # W[j]}
<1>1. Bad = {}
  <2> SUFFICES ASSUME Bad # {} PROVE FALSE
    OBVIOUS
  <2>1. Bad \in SUBSET Nat
    BY Levels
  <2>2. PICK i \in Bad : \A h \in Bad : i <= h
    BY <2>1, LeastNumber
  <2>3. i \in 0..N /\ j <= i /\ i # j /\ i # 0
    BY <2>2, Levels
  <2>4. i - 1 \in 0..N /\ i - 1 \notin Bad /\ W[i] = W[i - 1] \cup CalledBy(N, W[i - 1], E)
    BY <2>2, <2>3, Levels
  <2>5. W[i - 1] = W[j]
    BY <2>3, <2>4
  <2> QED
    BY <2>2, <2>4, <2>5
<1> QED
  BY <1>1, Levels

\* A level that adds something has more functions than its number.
LEMMA GrowingLevels ==
  ASSUME NEW N \in Nat, NEW r \in 0..N, NEW E, NEW W, IsLevels(W, N, r, E),
         \A j \in 0..N : ~(CalledBy(N, W[j], E) \subseteq W[j])
  PROVE  Cardinality(W[N]) > N
<1> DEFINE Bad == {i \in 0..N : ~(Cardinality(W[i]) > i)}
<1>1. Bad = {}
  <2> SUFFICES ASSUME Bad # {} PROVE FALSE
    OBVIOUS
  <2>1. Bad \in SUBSET Nat
    BY Levels
  <2>2. PICK i \in Bad : \A h \in Bad : i <= h
    BY <2>1, LeastNumber
  <2>3. i \in 0..N /\ i # 0
    <3>1. W[0] = {r} /\ N \in Nat
      BY Levels
    <3>2. Cardinality({r}) = 1
      BY FS_Singleton
    <3> QED
      BY <2>2, <3>1, <3>2
  <2>4. i - 1 \in 0..N /\ i - 1 \notin Bad /\ W[i] = W[i - 1] \cup CalledBy(N, W[i - 1], E)
    BY <2>2, <2>3, Levels
  <2>5. W[i - 1] \in SUBSET W[i] /\ W[i - 1] # W[i]
    BY <2>4
  <2>6. IsFiniteSet(W[i]) /\ Cardinality(W[i]) \in Nat /\ Cardinality(W[i - 1]) \in Nat
    <3>1. \A k \in 0..N : IsFiniteSet(W[k]) /\ Cardinality(W[k]) \in Nat
      BY LevelsAreFinite
    <3> QED
      BY <2>3, <2>4, <3>1
  <2>7. Cardinality(W[i - 1]) <= Cardinality(W[i]) /\ Cardinality(W[i - 1]) # Cardinality(W[i])
    BY <2>5, <2>6, FS_Subset
  <2>8. Cardinality(W[i - 1]) > i - 1
    BY <2>4
  <2> QED
    BY <2>2, <2>3, <2>6, <2>7, <2>8
<1> QED
  BY <1>1, Levels

\* Everything that is reachable is reached within N calls.
LEMMA Saturated ==
  ASSUME NEW N \in Nat, NEW r \in 0..N, NEW E \in SUBSET ((1..N) \X (1..N)), NEW W, IsLevels(W, N, r, E)
  PROVE  CalledBy(N, W[N], E) \subseteq W[N]
<1> SUFFICES ASSUME ~(CalledBy(N, W[N], E) \subseteq W[N]) PROVE FALSE
  OBVIOUS
<1>0. N \in Nat
  BY Levels
<1>1. \A j \in 0..N : ~(CalledBy(N, W[j], E) \subseteq W[j])
  <2> SUFFICES ASSUME NEW j \in 0..N, CalledBy(N, W[j], E) \subseteq W[j] PROVE FALSE
    OBVIOUS
  <2>1. W[N] = W[j]
    BY StableLevels
  <2> QED
    BY <2>1
<1>2. r \in 1..N
  <2> SUFFICES ASSUME r \notin 1..N PROVE FALSE
    OBVIOUS
  <2>1. CalledBy(N, {r}, E) = {}
    BY DEF CalledBy
  <2>2. W[0] = {r} /\ 0 \in 0..N
    BY <1>0, Levels
  <2>3. CalledBy(N, W[0], E) \subseteq W[0]
    BY <2>1, <2>2
  <2> QED
    BY <1>1, <2>2, <2>3
<1>3. W[N] \in SUBSET 1..N
  BY <1>0, <1>2, LevelsAreFinite
<1>4. IsFiniteSet(1..N) /\ Cardinality(1..N) = N
  BY NodesAreFinite
<1>5. Cardinality(W[N]) <= N
  BY <1>3, <1>4, FS_Subset
<1>6. Cardinality(W[N]) > N /\ Cardinality(W[N]) \in Nat
  BY <1>0, <1>1, GrowingLevels, LevelsAreFinite
<1> QED
  BY <1>0, <1>5, <1>6

\* The least number of calls, as CallDepth has it.
Depth(W, N, n) ==
  LET K == {k \in 0..N : n \in W[k]} IN CHOOSE d \in K : \A k \in K : d =< k

LEMMA DepthIsLeast ==
  ASSUME NEW N \in Nat, NEW r, NEW E, NEW W, IsLevels(W, N, r, E), NEW n \in W[N]
  PROVE  /\ Depth(W, N, n) \in 0..N /\ Depth(W, N, n) \in Nat /\ n \in W[Depth(W, N, n)]
         /\ \A k \in 0..N : n \in W[k] => Depth(W, N, n) <= k
<1> DEFINE K == {k \in 0..N : n \in W[k]}
<1>1. K \in SUBSET Nat /\ N \in K
  BY Levels
<1>2. \E d \in K : \A k \in K : d <= k
  BY <1>1, LeastNumber
<1>3. Depth(W, N, n) \in K /\ \A k \in K : Depth(W, N, n) <= k
  BY <1>2 DEF Depth
<1> QED
  BY <1>1, <1>3

\* A call adds one to the depth at most.
LEMMA DepthOfCallee ==
  ASSUME NEW N \in Nat, NEW r \in 0..N, NEW E \in SUBSET ((1..N) \X (1..N)), NEW W, IsLevels(W, N, r, E),
         NEW n \in W[N], NEW m, <<n, m>> \in E
  PROVE  m \in W[N] /\ Depth(W, N, m) <= Depth(W, N, n) + 1
<1> DEFINE d == Depth(W, N, n)
<1>1. d \in 0..N /\ n \in W[d] /\ N \in Nat
  BY DepthIsLeast, Levels
<1>2. m \in 1..N
  OBVIOUS
<1>3. m \in CalledBy(N, W[N], E) /\ m \in CalledBy(N, W[d], E)
  BY <1>1, <1>2 DEF CalledBy
<1>4. m \in W[N]
  BY <1>3, Saturated
<1>5. Depth(W, N, m) \in 0..N /\ \A k \in 0..N : m \in W[k] => Depth(W, N, m) <= k
  BY <1>4, DepthIsLeast
<1> HIDE DEF d
<1>6. CASE d = N
  BY <1>1, <1>4, <1>5, <1>6 DEF d
<1>7. CASE d # N
  <2>1. d + 1 \in 0..N /\ d + 1 # 0 /\ (d + 1) - 1 = d
    BY <1>1, <1>7
  <2>2. W[d + 1] = W[d] \cup CalledBy(N, W[d], E)
    BY <2>1, Levels
  <2> QED
    BY <1>3, <1>4, <1>5, <2>1, <2>2 DEF d
<1> QED
  BY <1>6, <1>7

\* A function one call nearer to the driver calls n.
HasCaller(W, N, E, n) ==
  \E p \in W[N] : <<p, n>> \in E /\ Depth(W, N, n) = Depth(W, N, p) + 1

LEMMA DepthOfCaller ==
  ASSUME NEW N \in Nat, NEW r \in 0..N, NEW E \in SUBSET ((1..N) \X (1..N)), NEW W, IsLevels(W, N, r, E),
         NEW n \in W[N], n # r
  PROVE  HasCaller(W, N, E, n)
<1> DEFINE d == Depth(W, N, n)
<1>1. /\ d \in 0..N /\ n \in W[d] /\ N \in Nat
      /\ \A k \in 0..N : n \in W[k] => d <= k
  BY DepthIsLeast, Levels
<1> HIDE DEF d
<1>2. d # 0
  <2>1. W[0] = {r}
    BY Levels
  <2> QED
    BY <1>1, <2>1
<1>3. d - 1 \in 0..N /\ W[d] = W[d - 1] \cup CalledBy(N, W[d - 1], E) /\ n \notin W[d - 1]
  BY <1>1, <1>2, Levels
<1>4. PICK p \in W[d - 1] : <<p, n>> \in E
  BY <1>1, <1>3 DEF CalledBy
<1>5. p \in W[N]
  BY <1>1, <1>3, LevelsGrow
<1>6. Depth(W, N, p) <= d - 1 /\ Depth(W, N, p) \in Nat
  BY <1>3, <1>5, DepthIsLeast
<1>7. d <= Depth(W, N, p) + 1
  BY <1>4, <1>5, DepthOfCallee DEF d
<1>8. d = Depth(W, N, p) + 1
  BY <1>1, <1>6, <1>7
<1> QED
  BY <1>4, <1>5, <1>8 DEF d, HasCaller

LEMMA DepthOfDriver ==
  ASSUME NEW N \in Nat, NEW r, NEW E, NEW W, IsLevels(W, N, r, E)
  PROVE  r \in W[N] /\ Depth(W, N, r) = 0
<1>1. N \in Nat /\ r \in W[0] /\ 0 \in 0..N /\ N \in 0..N
  BY Levels
<1>2. r \in W[N]
  BY <1>1, LevelsGrow
<1> QED
  BY <1>1, <1>2, DepthIsLeast

\* There is a caller at every depth below that of a function.
LEMMA DepthBound ==
  ASSUME NEW N \in Nat, NEW r \in 0..N, NEW E \in SUBSET ((1..N) \X (1..N)), NEW W, IsLevels(W, N, r, E),
         NEW n \in W[N]
  PROVE  Cardinality({c[1] : c \in E}) \in Nat /\ Depth(W, N, n) <= Cardinality({c[1] : c \in E})
<1> DEFINE C == {c[1] : c \in E}
           Below(d) == {c \in C : c \in W[N] /\ Depth(W, N, c) < d}
           Bad == {d \in 0..N : /\ \E m \in W[N] : Depth(W, N, m) = d
                                           /\ ~(d <= Cardinality(Below(d)))}
<1>1. C \in SUBSET 1..N /\ \A p, m : <<p, m>> \in E => p \in C
  OBVIOUS
<1>2. IsFiniteSet(C) /\ Cardinality(C) \in Nat
  <2>1. IsFiniteSet(1..N)
    BY NodesAreFinite
  <2> HIDE DEF C
  <2> QED
    BY <1>1, <2>1, FS_Subset, FS_CardinalityType
<1> HIDE DEF C
<1>3. \A d : Below(d) \in SUBSET C /\ IsFiniteSet(Below(d)) /\ Cardinality(Below(d)) \in Nat
             /\ Cardinality(Below(d)) <= Cardinality(C)
  <2> SUFFICES ASSUME NEW d PROVE Below(d) \in SUBSET C /\ IsFiniteSet(Below(d))
                 /\ Cardinality(Below(d)) \in Nat /\ Cardinality(Below(d)) <= Cardinality(C)
    OBVIOUS
  <2>1. Below(d) \in SUBSET C
    OBVIOUS
  <2> HIDE DEF Below
  <2> QED
    BY <1>2, <2>1, FS_Subset, FS_CardinalityType
<1>4. Bad = {}
  <2> SUFFICES ASSUME Bad # {} PROVE FALSE
    OBVIOUS
  <2>1. Bad \in SUBSET Nat
    BY Levels
  <2> HIDE DEF Below
  <2>2. PICK d \in Bad : \A h \in Bad : d <= h
    BY <2>1, LeastNumber
  <2>3. PICK m \in W[N] : Depth(W, N, m) = d
    BY <2>2
  <2>4. d \in 0..N /\ ~(d <= Cardinality(Below(d)))
    BY <2>2
  <2>5. d # 0
    BY <1>3, <2>4
  <2>6. PICK p \in W[N] : <<p, m>> \in E /\ d = Depth(W, N, p) + 1
    <3>1. m # r
      BY <2>3, <2>5, DepthOfDriver
    <3>2. HasCaller(W, N, E, m)
      BY <3>1, DepthOfCaller
    <3> QED
      BY <2>3, <3>2 DEF HasCaller
  <2>7. Depth(W, N, p) = d - 1 /\ d - 1 \in 0..N /\ d - 1 \notin Bad
    BY <2>2, <2>4, <2>6, DepthIsLeast
  <2>8. d - 1 <= Cardinality(Below(d - 1))
    BY <2>6, <2>7
  <2>9. p \in C /\ p \notin Below(d - 1) /\ Below(d - 1) \cup {p} \in SUBSET Below(d)
    <3>1. p \in C
      BY <1>1, <2>6
    <3>2. \A c \in W[N] : Depth(W, N, c) \in Nat
      BY DepthIsLeast
    <3> QED
      BY <2>4, <2>7, <3>1, <3>2 DEF Below
  <2>10. Cardinality(Below(d - 1) \cup {p}) = Cardinality(Below(d - 1)) + 1
    BY <1>3, <2>9, FS_AddElement
  <2>11. Cardinality(Below(d - 1) \cup {p}) <= Cardinality(Below(d))
    BY <1>3, <2>9, FS_Subset
  <2> QED
    BY <1>3, <2>4, <2>8, <2>10, <2>11
<1>5. Depth(W, N, n) \in 0..N /\ Depth(W, N, n) \in Nat
  BY DepthIsLeast
<1>6. Depth(W, N, n) <= Cardinality(Below(Depth(W, N, n)))
  BY <1>4, <1>5
<1> HIDE DEF Below
<1>7. Depth(W, N, n) <= Cardinality(C)
  BY <1>2, <1>3, <1>5, <1>6
<1> QED
  BY <1>2, <1>7 DEF C

(***************************************************************************)
(* The walk.  Its invariant: visited functions have their distance, and    *)
(* the others the smallest distance over a visited caller.                 *)
(***************************************************************************)

\* The distance the walk should find.
ExpectedDistance(n) == IF n \in Reachable THEN CallDepth(n) ELSE Far

WalkShape ==
  /\ NumFunctions \in Nat /\ root \in 0..NumFunctions
  /\ calls \in SUBSET ((1..NumFunctions) \X (1..NumFunctions))
  /\ DOMAIN distances \cup DOMAIN unvisited = Callers \cup {root}
  /\ DOMAIN distances \cap DOMAIN unvisited = {}
  /\ root \in DOMAIN distances /\ current \in DOMAIN distances

\* Visited functions have their distance.
WalkVisited == distances = [n \in DOMAIN distances |-> ExpectedDistance(n)]

\* The others have the distance over one of the visited functions that call
\* them, the smallest but for current, which has not been looked at.
WalkTentative ==
  /\ \A u \in DOMAIN unvisited :
       \/ unvisited[u] = Far
       \/ \E v \in DOMAIN distances \cap Reachable :
            <<v, u>> \in calls /\ unvisited[u] = CallDepth(v) + 1
  /\ \A u \in DOMAIN unvisited, v \in (DOMAIN distances \cap Reachable) \ {current} :
       <<v, u>> \in calls => unvisited[u] <= CallDepth(v) + 1

\* The result is what find_deep_functions makes of all the distances.
WalkResult ==
  /\ walkPc \in {"visit", "done"} /\ deep \subseteq DOMAIN distances
  /\ walkPc = "done" => /\ DOMAIN unvisited = {}
                     /\ deep = {n \in DOMAIN distances : distances[n] > Threshold}

WalkInv == WalkShape /\ WalkVisited /\ WalkTentative /\ WalkResult

\* The reference definition has the levels it asks for.
LEMMA WithinLevels ==
  ASSUME NumFunctions \in Nat
  PROVE  IsLevels(Within, NumFunctions, root, calls)
<1> DEFINE Def(w) == [k \in 0..NumFunctions |->
             IF k = 0 THEN {root}
             ELSE w[k - 1] \cup CalledBy(NumFunctions, w[k - 1], calls)]
           Eq(w) == w = Def(w)
           w0 == CHOOSE w : Eq(w)
<1>1. PICK W : IsLevels(W, NumFunctions, root, calls)
  BY LevelsExist
<1>2. Eq(W)
  <2>1. \A k \in 0..NumFunctions : k # 0 => k \in 1..NumFunctions
    OBVIOUS
  <2>2. \A k \in 0..NumFunctions : W[k] = Def(W)[k]
    BY <1>1, <2>1 DEF IsLevels
  <2>3. W = [k \in 0..NumFunctions |-> W[k]]
    BY <1>1 DEF IsLevels
  <2>4. Def(W) = [k \in 0..NumFunctions |-> Def(W)[k]]
    OBVIOUS
  <2> HIDE DEF Def
  <2> QED
    BY <2>2, <2>3, <2>4, Zenon
<1>3. Eq(w0)
  BY <1>2
<1>4. Within = w0
  BY DEF Within, Nodes, CalledBy
<1> HIDE DEF w0
<1>5. /\ DOMAIN w0 = 0..NumFunctions
      /\ \A k \in 0..NumFunctions : w0[k] = Def(w0)[k]
  BY <1>3
<1>6. \A k \in 1..NumFunctions : k \in 0..NumFunctions /\ k # 0
  OBVIOUS
<1>7. w0 = [k \in 0..NumFunctions |-> w0[k]]
  BY <1>3
<1>8. w0[0] = {root}
  BY <1>5
<1>9. \A k \in 1..NumFunctions : w0[k] = w0[k - 1] \cup CalledBy(NumFunctions, w0[k - 1], calls)
  BY <1>5, <1>6
<1> HIDE DEF Eq, Def
<1> QED
  BY <1>4, <1>7, <1>8, <1>9, Zenon DEF IsLevels

\* The instance counts as this module does.
LEMMA SameCardinality ==
  ASSUME NEW S
  PROVE  Cardinality(S) = Cardinality(S)
BY Zenon DEF Cardinality, Cardinality

\* What the walk has to know of the call graph.
LEMMA GraphFacts ==
  ASSUME WalkShape
  PROVE  /\ root \in Reachable /\ CallDepth(root) = 0 /\ Far \in Nat
         /\ \A n \in Reachable : CallDepth(n) \in 0..NumFunctions /\ CallDepth(n) + 1 < Far
         /\ \A n \in Reachable : \A m : <<n, m>> \in calls =>
              m \in Reachable /\ CallDepth(m) <= CallDepth(n) + 1
         /\ \A n \in Reachable : n # root =>
              \E p \in Reachable : <<p, n>> \in calls /\ CallDepth(n) = CallDepth(p) + 1
         /\ \A p, m : <<p, m>> \in calls => p \in Callers
<1> DEFINE W == Within
           N == NumFunctions
<1>1. N \in Nat /\ root \in 0..N /\ calls \in SUBSET ((1..N) \X (1..N))
  BY DEF WalkShape
<1>2. IsLevels(W, N, root, calls)
  BY <1>1, WithinLevels
<1>3. Reachable = W[N] /\ \A n : CallDepth(n) = Depth(W, N, n)
  BY DEF Reachable, CallDepth, Min, Depth
<1>4. Callers = {c[1] : c \in calls} /\ Far = Cardinality({c[1] : c \in calls}) + 10
  BY SameCardinality DEF Callers, Far
<1> HIDE DEF W, N
<1>5. root \in W[N] /\ Depth(W, N, root) = 0
  BY <1>1, <1>2, DepthOfDriver
<1>6. \A n \in W[N] : Depth(W, N, n) \in 0..N /\ Depth(W, N, n) \in Nat
  BY <1>1, <1>2, DepthIsLeast
<1>7. \A n \in W[N] : /\ Cardinality({c[1] : c \in calls}) \in Nat
                      /\ Depth(W, N, n) <= Cardinality({c[1] : c \in calls})
  BY <1>1, <1>2, DepthBound
<1>8. Far \in Nat /\ \A n \in W[N] : Depth(W, N, n) + 1 < Far
  BY <1>4, <1>5, <1>6, <1>7
<1>9. \A n \in W[N] : \A m : <<n, m>> \in calls => m \in W[N] /\ Depth(W, N, m) <= Depth(W, N, n) + 1
  BY <1>1, <1>2, DepthOfCallee
<1>10. \A n \in W[N] : n # root =>
         \E p \in W[N] : <<p, n>> \in calls /\ Depth(W, N, n) = Depth(W, N, p) + 1
  <2>1. \A n \in W[N] : n # root => HasCaller(W, N, calls, n)
    BY <1>1, <1>2, DepthOfCaller
  <2> QED
    BY <2>1 DEF HasCaller
<1>11. \A p, m : <<p, m>> \in calls => p \in Callers
  BY <1>4
<1> QED
  BY <1>3, <1>5, <1>6, <1>8, <1>9, <1>10, <1>11 DEF N

\* When the walk starts only the driver has been visited, at distance 0.
LEMMA WalkBegins ==
  ASSUME WalkInit
  PROVE  WalkInv
<1>1. NumFunctions \in Nat /\ root \in 0..NumFunctions
  BY DeepFunctionsAssumption DEF WalkInit
<1>2. calls \in SUBSET ((1..NumFunctions) \X (1..NumFunctions))
  BY DEF WalkInit, kSubset, Nodes
<1>3. /\ unvisited = [n \in Callers \ {root} |-> Far] /\ distances = [n \in {root} |-> 0]
      /\ current = root /\ deep = {} /\ walkPc = "visit"
  BY DEF WalkInit, Tentative
<1>4. DOMAIN unvisited = Callers \ {root} /\ DOMAIN distances = {root}
  BY <1>3
<1>5. WalkShape
  BY <1>1, <1>2, <1>3, <1>4 DEF WalkShape
<1>6. WalkVisited
  BY <1>3, <1>4, <1>5, GraphFacts DEF WalkVisited, ExpectedDistance
<1>7. WalkTentative
  BY <1>3, <1>4 DEF WalkTentative
<1>8. WalkResult
  BY <1>3 DEF WalkResult
<1> QED
  BY <1>5, <1>6, <1>7, <1>8 DEF WalkInv

\* The graph stays.
LEMMA GraphStays ==
  ASSUME UNCHANGED <<root, calls>>
  PROVE  /\ Callers' = Callers /\ Far' = Far /\ Reachable' = Reachable
         /\ \A n : CallDepth(n)' = CallDepth(n)
         /\ \A n : ExpectedDistance(n)' = ExpectedDistance(n)
<1>1. Within' = Within
  BY DEF Within, Nodes
<1>2. Callers' = Callers
  BY DEF Callers
<1>3. Far' = Far
  BY <1>2 DEF Far
<1>4. Reachable' = Reachable /\ \A n : CallDepth(n)' = CallDepth(n)
  BY <1>1 DEF Reachable, CallDepth
<1> QED
  BY <1>2, <1>3, <1>4 DEF ExpectedDistance

\* One turn of the loop finds the distance of next: an unvisited function of
\* the least depth has a visited caller, so none can look nearer than it is.
LEMMA WalkVisit ==
  ASSUME WalkInv, NEW next, Visit(next)
  PROVE  WalkInv'
<1> DEFINE V == DOMAIN distances
           U == DOMAIN unvisited
           T == Relaxed
           R == Reachable
           D(n) == CallDepth(n)
<1>1. /\ walkPc = "visit" /\ next \in Nearest(T)
      /\ distances' = [n \in V \cup {next} |-> IF n = next THEN T[next] ELSE distances[n]]
      /\ unvisited' = Erased(T, next) /\ current' = next
      /\ UNCHANGED <<walkPc, root, calls, deep>>
  BY DEF Visit
<1>2. WalkShape /\ WalkVisited /\ WalkTentative /\ WalkResult
  BY DEF WalkInv
<1>3. DOMAIN T = U
  BY DEF Relaxed
<1>4. next \in U /\ \A u \in U : T[next] <= T[u]
  BY <1>1, <1>3 DEF Nearest
<1>5. /\ V \cup U = Callers \cup {root} /\ V \cap U = {} /\ root \in V /\ current \in V
  BY <1>2 DEF WalkShape
<1>6. \A n \in V : distances[n] = IF n \in R THEN D(n) ELSE Far
  BY <1>2 DEF WalkVisited, ExpectedDistance
<1>7. Far \in Nat /\ \A n \in R : D(n) \in Nat /\ D(n) + 1 < Far
  BY <1>2, GraphFacts
<1>8. \A u \in U : unvisited[u] \in Nat /\ unvisited[u] <= Far
  <2> SUFFICES ASSUME NEW u \in U PROVE unvisited[u] \in Nat /\ unvisited[u] <= Far
    OBVIOUS
  <2>1. unvisited[u] = Far \/ \E v \in R : unvisited[u] = D(v) + 1
    BY <1>2 DEF WalkTentative
  <2> HIDE DEF U, R, D
  <2> QED
    BY <1>7, <2>1
<1>9. \A u \in U : T[u] = IF u \in Callees(current) /\ unvisited[u] > distances[current] + 1
                          THEN distances[current] + 1 ELSE unvisited[u]
  BY DEF Relaxed
<1>10. \A u : u \in Callees(current) <=> <<current, u>> \in calls
  BY <1>2 DEF Callees, Nodes, WalkShape
<1> HIDE DEF T
<1>11. \A u \in U : \/ T[u] = Far
                    \/ \E v \in V \cap R : <<v, u>> \in calls /\ T[u] = D(v) + 1
  <2> SUFFICES ASSUME NEW u \in U
               PROVE  T[u] = Far \/ \E v \in V \cap R : <<v, u>> \in calls /\ T[u] = D(v) + 1
    OBVIOUS
  <2>1. CASE T[u] = unvisited[u]
    BY <1>2, <2>1 DEF WalkTentative
  <2>2. CASE T[u] # unvisited[u]
    <3>1. <<current, u>> \in calls /\ unvisited[u] > distances[current] + 1
          /\ T[u] = distances[current] + 1
      BY <1>9, <1>10, <2>2
    <3>2. current \in R
      BY <1>5, <1>6, <1>7, <1>8, <3>1
    <3> QED
      BY <1>5, <1>6, <3>1, <3>2
  <2> QED
    BY <2>1, <2>2
<1>12. \A u \in U, v \in V \cap R : <<v, u>> \in calls => T[u] <= D(v) + 1
  <2> SUFFICES ASSUME NEW u \in U, NEW v \in V \cap R, <<v, u>> \in calls
               PROVE  T[u] <= D(v) + 1
    OBVIOUS
  <2>1. CASE v = current
    <3>1. distances[current] = D(v) /\ D(v) \in Nat /\ unvisited[u] \in Nat
      BY <1>6, <1>7, <1>8, <2>1
    <3> QED
      BY <1>9, <1>10, <2>1, <3>1
  <2>2. CASE v # current
    <3>1. unvisited[u] <= D(v) + 1
      BY <1>2, <2>2 DEF WalkTentative
    <3>2. D(v) \in Nat /\ unvisited[u] \in Nat /\ distances[current] \in Nat
      BY <1>5, <1>6, <1>7, <1>8
    <3> QED
      BY <1>9, <3>1, <3>2
  <2> QED
    BY <2>1, <2>2
<1>13. /\ \A n \in R : \A m : <<n, m>> \in calls => m \in R /\ D(m) <= D(n) + 1
       /\ \A n \in R : n # root => \E p \in R : <<p, n>> \in calls /\ D(n) = D(p) + 1
       /\ \A p, m : <<p, m>> \in calls => p \in Callers
  BY <1>2, GraphFacts
<1> HIDE DEF V, U, R, D
<1>14. T[next] = IF next \in R THEN D(next) ELSE Far
  <2>1. CASE U \cap R # {}
    <3> DEFINE K == {D(u) : u \in U \cap R}
    <3>1. K \in SUBSET Nat /\ K # {}
      BY <1>7, <2>1
    <3>2. PICK k \in K : \A j \in K : k <= j
      BY <3>1, LeastNumber
    <3>3. PICK w \in U \cap R : k = D(w)
      BY <3>2
    <3>4. \A u \in U \cap R : D(w) <= D(u)
      BY <3>2, <3>3
    <3>5. w # root
      BY <1>5
    <3>6. PICK p \in R : <<p, w>> \in calls /\ D(w) = D(p) + 1
      BY <1>13, <3>5
    <3>7. p \in V
      <4>1. p \in V \cup U
        BY <1>5, <1>13, <3>6
      <4>2. ~(D(w) <= D(p))
        BY <1>7, <3>6
      <4> QED
        BY <3>4, <4>1, <4>2
    <3>8. T[w] <= D(w)
      BY <1>12, <3>6, <3>7
    <3>9. T[next] <= D(w) /\ D(w) \in Nat /\ D(w) + 1 < Far
      <4>1. T[next] <= T[w] /\ next \in U
        BY <1>4
      <4>2. \A u \in U : T[u] \in Nat
        <5> SUFFICES ASSUME NEW u \in U PROVE T[u] \in Nat
          OBVIOUS
        <5>1. T[u] = Far \/ \E v \in R : T[u] = D(v) + 1
          BY <1>11
        <5> QED
          BY <1>7, <5>1
      <4>3. D(w) \in Nat /\ D(w) + 1 < Far
        BY <1>7
      <4> QED
        BY <3>8, <4>1, <4>2, <4>3
    <3>10. PICK v \in V \cap R : <<v, next>> \in calls /\ T[next] = D(v) + 1
      BY <1>4, <1>7, <1>11, <3>9
    <3>11. next \in R /\ D(next) <= T[next] /\ D(next) \in Nat /\ T[next] \in Nat
      BY <1>7, <1>13, <3>10
    <3>12. D(w) <= D(next)
      BY <1>4, <3>4, <3>11
    <3> QED
      BY <3>9, <3>11, <3>12
  <2>2. CASE U \cap R = {}
    BY <1>4, <1>11, <1>13, <2>2
  <2> QED
    BY <2>1, <2>2
<1>15. DOMAIN distances' = V \cup {next} /\ DOMAIN unvisited' = U \ {next}
       /\ \A u \in U \ {next} : unvisited'[u] = T[u]
  BY <1>1, <1>3 DEF Erased, Restrict, V
<1>16. WalkShape'
  <2>1. Callers' = Callers
    BY <1>1, GraphStays
  <2> QED
    BY <1>1, <1>2, <1>4, <1>5, <1>15, <2>1 DEF WalkShape, V, U
<1>17. WalkVisited'
  <2>1. \A n \in V \cup {next} : distances'[n] = ExpectedDistance(n)
    BY <1>1, <1>6, <1>14 DEF ExpectedDistance, R, D
  <2>2. \A n : ExpectedDistance(n)' = ExpectedDistance(n)
    BY <1>1, GraphStays
  <2>3. distances' = [n \in V \cup {next} |-> ExpectedDistance(n)]
    BY <1>1, <2>1
  <2> QED
    BY <1>15, <2>2, <2>3 DEF WalkVisited
<1>18. WalkTentative'
  <2>1. \A u \in U \ {next} : \/ unvisited'[u] = Far
                              \/ \E v \in (V \cup {next}) \cap R :
                                   <<v, u>> \in calls /\ unvisited'[u] = D(v) + 1
    BY <1>11, <1>15
  <2>2. \A u \in U \ {next}, v \in ((V \cup {next}) \cap R) \ {next} :
           <<v, u>> \in calls => unvisited'[u] <= D(v) + 1
    BY <1>12, <1>15
  <2>3. Far = Far' /\ R = Reachable' /\ calls' = calls /\ current' = next /\ \A n : D(n) = CallDepth(n)'
    BY <1>1, GraphStays DEF R, D
  <2> QED
    BY <1>15, <2>1, <2>2, <2>3 DEF WalkTentative
<1>19. WalkResult'
  BY <1>1, <1>2, <1>15 DEF WalkResult, V
<1> QED
  BY <1>16, <1>17, <1>18, <1>19 DEF WalkInv

\* find_deep_functions runs once, when nothing is left to visit.
LEMMA WalkFindDeep ==
  ASSUME WalkInv, FindDeep
  PROVE  WalkInv'
<1>1. /\ unvisited = << >> /\ deep' = {n \in DOMAIN distances : distances[n] > Threshold}
      /\ walkPc' = "done" /\ UNCHANGED <<root, calls, unvisited, distances, current>>
  BY DEF FindDeep
<1>2. DOMAIN unvisited = {}
  BY <1>1
<1>3. Threshold' = Threshold
  BY <1>1 DEF Threshold
<1>4. /\ Callers' = Callers /\ Far' = Far /\ Reachable' = Reachable
      /\ \A n : CallDepth(n)' = CallDepth(n)
      /\ \A n : ExpectedDistance(n)' = ExpectedDistance(n)
  BY <1>1, GraphStays
<1>5. WalkShape' /\ WalkVisited' /\ WalkTentative'
  BY <1>1, <1>4 DEF WalkInv, WalkShape, WalkVisited, WalkTentative
<1>6. WalkResult'
  BY <1>1, <1>2, <1>3 DEF WalkResult
<1> QED
  BY <1>5, <1>6 DEF WalkInv

LEMMA WalkStutter ==
  ASSUME WalkInv, UNCHANGED walkVars
  PROVE  WalkInv'
<1>1. UNCHANGED <<walkPc, root, calls, unvisited, distances, current, deep>>
  BY DEF walkVars
<1>2. Threshold' = Threshold
  BY <1>1 DEF Threshold
<1>3. /\ Callers' = Callers /\ Far' = Far /\ Reachable' = Reachable
      /\ \A n : CallDepth(n)' = CallDepth(n)
      /\ \A n : ExpectedDistance(n)' = ExpectedDistance(n)
  BY <1>1, GraphStays
<1>4. WalkShape' /\ WalkVisited' /\ WalkTentative'
  BY <1>1, <1>3 DEF WalkInv, WalkShape, WalkVisited, WalkTentative
<1>5. WalkResult'
  BY <1>1, <1>2 DEF WalkInv, WalkResult
<1> QED
  BY <1>4, <1>5 DEF WalkInv

\* shortest_paths keeps its invariant, for every call graph, every driver (also
\* the one that was not found) and every order of the unordered_map.
THEOREM WalkInvariance == WalkSpec => []WalkInv
<1>1. WalkInit => WalkInv
  BY WalkBegins
<1>2. WalkInv /\ [WalkNext]_walkVars => WalkInv'
  <2> SUFFICES ASSUME WalkInv, [WalkNext]_walkVars PROVE WalkInv'
    OBVIOUS
  <2>1. CASE \E n \in Nodes : Visit(n)
    BY <2>1, WalkVisit
  <2>2. CASE FindDeep
    BY <2>2, WalkFindDeep
  <2>3. CASE Done \/ UNCHANGED walkVars
    BY <2>3, WalkStutter DEF Done
  <2> QED
    BY <2>1, <2>2, <2>3 DEF WalkNext
<1> QED
  BY <1>1, <1>2, PTL DEF WalkSpec

\* shortest_paths gives every function it visits its call depth, and Far to one
\* that the driver never reaches, for every call graph.
THEOREM DepthTheorem == WalkSpec => []VisitedAtCallDepth
<1>1. WalkInv => VisitedAtCallDepth
  BY DEF WalkInv, WalkVisited, ExpectedDistance, VisitedAtCallDepth
<1> QED
  BY <1>1, WalkInvariance, PTL

\* At the end the distances and the deep functions are those the call graph
\* determines: the order in which the map delivered equally near functions has
\* left no trace.
ResultIsDetermined ==
  walkPc = "done" =>
    /\ distances = [n \in Callers \cup {root} |-> ExpectedDistance(n)]
    /\ deep = {n \in Callers \cup {root} : distances[n] > Threshold}

\* What find_deep_functions reports is a function of the call graph alone.
THEOREM DeterminedTheorem == WalkSpec => []ResultIsDetermined
<1>1. WalkInv => ResultIsDetermined
  <2> SUFFICES ASSUME WalkInv, walkPc = "done" PROVE ResultIsDetermined
    BY DEF ResultIsDetermined
  <2>1. DOMAIN distances = Callers \cup {root}
    BY DEF WalkInv, WalkShape, WalkResult
  <2> QED
    BY <2>1 DEF WalkInv, WalkVisited, WalkResult, ResultIsDetermined
<1> QED
  BY <1>1, WalkInvariance, PTL

\* Callers and the driver are visited or unvisited throughout shortest_paths, a
\* distance is a number of calls or Far, and only visited functions are deep.
THEOREM WalkTypes == WalkSpec => []WalkTypeOK
<1>1. WalkInv => WalkTypeOK
  <2> SUFFICES ASSUME WalkInv PROVE WalkTypeOK
    OBVIOUS
  <2>1. \A n \in Reachable : CallDepth(n) \in 0..NumFunctions
    BY GraphFacts DEF WalkInv
  <2>2. \A n \in DOMAIN distances : distances[n] \in 0..NumFunctions \cup {Far}
    BY <2>1 DEF WalkInv, WalkVisited, ExpectedDistance
  <2> QED
    BY <2>2 DEF WalkInv, WalkShape, WalkResult, WalkTypeOK
<1> QED
  BY <1>1, WalkInvariance, PTL
=============================================================================
