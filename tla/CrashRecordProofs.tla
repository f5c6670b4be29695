------------------------- MODULE CrashRecordProofs -------------------------
(***************************************************************************)
(* The life of the crashes, for every set of fuzzers and of crashes and    *)
(* every number of rounds, windows, dead pools and faults: what is paid,   *)
(* what is saved and what a new start of a pool removes.                   *)
(***************************************************************************)
EXTENDS CrashRecord, FiniteSetTheorems, TLAPS

\* The scan of a round: who is active, who is expanded, and when.
Phase ==
  /\ pc # "window" => active = {}
  /\ pc # "boost" => best = {}
  /\ pc # "begin" => round < Rounds
  /\ pc = "begin" => /\ started = {}
                     /\ staged = None /\ window = None /\ windowed = None

\* What has been paid is in the record that decides what is paid next.
Recorded ==
  /\ credited \subseteq seen
  /\ \A f \in Fuzzers : paid[f] \subseteq seen
  /\ \A f \in Fuzzers : window[f] \subseteq monSeen /\ windowed[f] \subseteq monSeen

\* What was staged or paid in a window is in the run directory, or went with it.
OnDisk ==
  \A f \in Fuzzers :
    /\ staged[f] \subseteq disk[f] \cup wiped[f]
    /\ window[f] \cup windowed[f] \subseteq disk[f] \cup wiped[f]

\* The export has copied what was staged.
Exported ==
  pc \in {"evaluate", "end"} => \A f \in selected : saved[f] = staged[f]

\* Without a fault, a pool outside the round does not run and its crashes are
\* saved; a pool of the round, once paused, has all of them staged.
Settled ==
  faults = 0 =>
    /\ \A f \in Fuzzers \ started : pool[f] # "running" /\ disk[f] \subseteq kept[f]
    /\ pc \in {"export", "evaluate", "end"} =>
         \A f \in started : pool[f] # "running" /\ disk[f] \subseteq staged[f]
    /\ pc = "end" => \A f \in started : paid[f] \subseteq disk[f]

IInv ==
  /\ TypeOK /\ Phase
  /\ Recorded /\ CrashesArePaidOnce
  /\ OnDisk /\ Exported /\ SavedCrashesAreCounted
  /\ Settled

LEMMA InitInv == Init => IInv
<1> SUFFICES ASSUME Init PROVE IInv
  OBVIOUS
<1>1. None \in [Fuzzers -> SUBSET Crashes] /\ \A f \in Fuzzers : None[f] = {}
  BY DEF None
<1>2. TypeOK
  BY <1>1, CrashRecordAssumption DEF Init, TypeOK
<1>3. Phase /\ Recorded /\ OnDisk
  BY <1>1 DEF Init, Phase, Recorded, OnDisk
<1>4. CrashesArePaidOnce /\ Exported /\ SavedCrashesAreCounted /\ Settled
  BY <1>1 DEF Init, CrashesArePaidOnce, Exported, SavedCrashesAreCounted, Settled
<1> QED
  BY <1>2, <1>3, <1>4 DEF IInv

(***************************************************************************)
(* What the helpers of the actions do.                                     *)
(***************************************************************************)

\* The types of what is in a directory or a record, one by one.
LEMMA FileTypes ==
  ASSUME TypeOK
  PROVE  /\ disk \in [Fuzzers -> SUBSET Crashes] /\ staged \in [Fuzzers -> SUBSET Crashes]
         /\ saved \in [Fuzzers -> SUBSET Crashes] /\ window \in [Fuzzers -> SUBSET Crashes]
         /\ paid \in [Fuzzers -> SUBSET Crashes] /\ windowed \in [Fuzzers -> SUBSET Crashes]
         /\ wiped \in [Fuzzers -> SUBSET Crashes] /\ lost \in [Fuzzers -> SUBSET Crashes]
         /\ kept \in [Fuzzers -> SUBSET Crashes]
BY DEF TypeOK

\* C2 looks at no more than the run directory, and there unless it is blind.
LEMMA VisibleOnDisk ==
  ASSUME TypeOK, NEW f \in Fuzzers
  PROVE  /\ Visible(f) \subseteq disk[f] /\ Visible(f) \subseteq Crashes
         /\ f \notin Blind => Visible(f) = disk[f]
BY FileTypes DEF Visible

\* A set of failed pauses is finite and costs a fault for each.
LEMMA FaultCost ==
  ASSUME TypeOK, NEW S \in SUBSET Fuzzers, Faults(Cardinality(S))
  PROVE  /\ faults' \in 0..MaxFaults
         /\ faults' = 0 => faults = 0 /\ S = {}
<1>1. IsFiniteSet(S)
  BY FS_Subset, CrashRecordAssumption
<1>2. Cardinality(S) \in Nat /\ (Cardinality(S) = 0 <=> S = {})
  BY <1>1, FS_CardinalityType, FS_EmptySet
<1> QED
  BY <1>2, CrashRecordAssumption DEF TypeOK, Faults

\* A start that dies at once leaves at most one crash and costs a fault if so.
LEMMA BriefCost ==
  ASSUME NEW P, NEW brief \in Brief(P)
  PROVE  /\ Cardinality(brief) \in Nat
         /\ Cardinality(brief) = 0 => brief = {}
         /\ brief \subseteq P \X Crashes
<1>1. CASE brief = {}
  BY <1>1, FS_EmptySet
<1>2. ASSUME NEW b \in P \X Crashes, brief = {b}
      PROVE  Cardinality(brief) = 1 /\ brief \subseteq P \X Crashes
  BY <1>2, FS_Singleton
<1> QED
  BY <1>1, <1>2 DEF Brief

\* What Wipe leaves in the run directory of a fuzzer.
LEMMA WipeEffect ==
  ASSUME TypeOK, NEW P \in SUBSET Fuzzers, NEW brief, Wipe(P, brief)
  PROVE  /\ disk' \in [Fuzzers -> SUBSET Crashes] /\ lost' \in [Fuzzers -> SUBSET Crashes]
         /\ \A f \in Fuzzers \ P : disk[f] \subseteq disk'[f] /\ lost'[f] = lost[f]
         /\ brief = {} => \A f \in Fuzzers : disk'[f] \subseteq disk[f]
         /\ \A f \in P : lost'[f] = lost[f] \cup (disk[f] \ (staged[f] \cup kept[f]))
<1>1. /\ disk \in [Fuzzers -> SUBSET Crashes] /\ lost \in [Fuzzers -> SUBSET Crashes]
  BY FileTypes
<1> QED
  BY <1>1 DEF Wipe

\* Staging adds what is in the run directory, for the fuzzers P.
LEMMA StagedEffect ==
  ASSUME TypeOK, NEW P \in SUBSET Fuzzers
  PROVE  /\ Staged(P) \in [Fuzzers -> SUBSET Crashes]
         /\ \A f \in Fuzzers : Staged(P)[f] = IF f \in P THEN staged[f] \cup disk[f] ELSE staged[f]
BY FileTypes DEF Staged

\* What a monitor window pays is new and is remembered.
LEMMA PayEffect ==
  ASSUME TypeOK, Pay
  PROVE  /\ window' \in [Fuzzers -> SUBSET Crashes] /\ windowed' \in [Fuzzers -> SUBSET Crashes]
         /\ monSeen' \subseteq Crashes /\ active' = {}
         /\ monSeen \subseteq monSeen'
         /\ \A f \in Fuzzers : /\ window'[f] \subseteq disk[f] /\ window'[f] \subseteq monSeen'
                               /\ window'[f] \cap monSeen = {}
                               /\ windowed'[f] = windowed[f] \cup window[f]
<1>1. \A f \in Fuzzers : Visible(f) \subseteq disk[f] /\ Visible(f) \subseteq Crashes
  BY VisibleOnDisk
<1>2. window \in [Fuzzers -> SUBSET Crashes] /\ windowed \in [Fuzzers -> SUBSET Crashes]
  BY FileTypes
<1>3. active \subseteq Fuzzers /\ monSeen \subseteq Crashes
  BY DEF TypeOK
<1>4. \A f \in active : Visible(f) \subseteq monSeen'
  BY DEF Pay, Remembered
<1>5. monSeen \subseteq monSeen' /\ monSeen' \subseteq Crashes
  BY <1>1, <1>3 DEF Pay, Remembered
<1>6. /\ window' = [f \in Fuzzers |-> IF f \in active THEN Visible(f) \ monSeen ELSE {}]
      /\ windowed' = [f \in Fuzzers |-> windowed[f] \cup window[f]] /\ active' = {}
  BY DEF Pay
<1>7. window' \in [Fuzzers -> SUBSET Crashes] /\ windowed' \in [Fuzzers -> SUBSET Crashes]
  BY <1>1, <1>2, <1>6
<1> QED
  BY <1>1, <1>4, <1>5, <1>6, <1>7

(***************************************************************************)
(* One lemma per action: it keeps the invariant.                           *)
(***************************************************************************)

LEMMA BeginRoundStep ==
  ASSUME IInv, NEW sel \in SUBSET Fuzzers, NEW run \in SUBSET sel,
         NEW fail \in SUBSET Running(Fuzzers \ sel), NEW brief \in Brief(Gone(sel \ run)),
         BeginRound(sel, run, fail, brief)
  PROVE  IInv'
<1> DEFINE Empty == {f \in sel : pool[f] = "none"}
<1>t. TypeOK /\ Phase
  BY DEF IInv
<1>0. /\ pc = "begin" /\ pc' = "fuzz" /\ round < Rounds /\ round' = round
      /\ selected' = sel /\ started' = run /\ monSeen' = seen
      /\ Wipe(Empty, brief) /\ Empty \in SUBSET Fuzzers
      /\ pool' = [f \in Fuzzers |-> IF f \in run THEN "running"
                                    ELSE IF f \notin sel \cup fail /\ pool[f] = "running" THEN "paused"
                                    ELSE pool[f]]
      /\ tracked' = [f \in Fuzzers |-> pool'[f] # "none"]
      /\ Faults(Cardinality(fail) + Cardinality(brief))
  BY DEF BeginRound, Goto
<1>u. UNCHANGED <<windows, deaths, active, best, staged, saved, seen, window, paid, windowed, wiped,
                  kept, credited>>
  BY DEF BeginRound
<1>1. /\ disk' \in [Fuzzers -> SUBSET Crashes] /\ lost' \in [Fuzzers -> SUBSET Crashes]
      /\ brief = {} => \A f \in Fuzzers : disk'[f] \subseteq disk[f]
  <2> HIDE DEF Empty
  <2> QED
    BY <1>0, <1>t, WipeEffect
<1>2. /\ faults' \in 0..MaxFaults
      /\ faults' = 0 => faults = 0 /\ fail = {} /\ brief = {}
  <2>1. fail \in SUBSET Fuzzers
    BY DEF Running
  <2>2. Cardinality(fail) \in Nat /\ (Cardinality(fail) = 0 <=> fail = {})
    BY <2>1, FS_Subset, FS_CardinalityType, FS_EmptySet, CrashRecordAssumption
  <2>3. Cardinality(brief) \in Nat /\ (Cardinality(brief) = 0 => brief = {})
    BY BriefCost
  <2>4. Faults(Cardinality(fail) + Cardinality(brief)) /\ faults \in Nat /\ MaxFaults \in Nat
    BY <1>t, <1>0, CrashRecordAssumption DEF TypeOK
  <2>5. /\ faults' \in 0..MaxFaults
        /\ faults' = 0 => faults = 0 /\ Cardinality(fail) = 0 /\ Cardinality(brief) = 0
    BY <2>2, <2>3, <2>4 DEF Faults
  <2> QED
    BY <2>2, <2>3, <2>5
<1>3. None \in [Fuzzers -> SUBSET Crashes] /\ \A f \in Fuzzers : None[f] = {}
  BY DEF None
<1>4. active = {} /\ best = {} /\ staged = None /\ window = None /\ windowed = None /\ started = {}
  BY <1>t, <1>0 DEF Phase
<1> HIDE DEF Empty
<1>5. TypeOK'
  BY <1>t, <1>0, <1>u, <1>1, <1>2, <1>4 DEF TypeOK
<1>6. Phase'
  BY <1>0, <1>u, <1>4 DEF Phase
<1>7. Recorded' /\ CrashesArePaidOnce'
  BY <1>0, <1>u, <1>3, <1>4 DEF IInv, Recorded, CrashesArePaidOnce
<1>8. OnDisk'
  BY <1>u, <1>3, <1>4 DEF OnDisk
<1>9. Exported' /\ SavedCrashesAreCounted'
  BY <1>0 DEF Exported, SavedCrashesAreCounted
<1>10. Settled'
  <2> SUFFICES ASSUME faults' = 0
               PROVE  \A f \in Fuzzers \ run : pool'[f] # "running" /\ disk'[f] \subseteq kept[f]
    BY <1>0, <1>u DEF Settled
  <2>1. faults = 0 /\ fail = {} /\ brief = {}
    BY <1>2
  <2>2. \A f \in Fuzzers : pool[f] # "running" /\ disk[f] \subseteq kept[f]
    BY <1>4, <2>1 DEF IInv, Settled
  <2>3. \A f \in Fuzzers : disk'[f] \subseteq disk[f]
    BY <1>1, <2>1
  <2> QED
    BY <1>0, <2>2, <2>3
<1> QED
  BY <1>5, <1>6, <1>7, <1>8, <1>9, <1>10 DEF IInv

LEMMA CrashStep ==
  ASSUME IInv, NEW f \in Fuzzers, NEW c \in Crashes, Crash(f, c)
  PROVE  IInv'
<1>t. TypeOK
  BY DEF IInv
<1>u. UNCHANGED <<pc, round, windows, deaths, faults, selected, started, active, best, pool, tracked,
                  staged, saved, seen, monSeen, window, paid, windowed, wiped, lost, kept, credited>>
  BY DEF Crash, campaign, chosen, pools, record, history
<1>0. pool[f] = "running" /\ disk' = [disk EXCEPT ![f] = @ \cup {c}]
  BY DEF Crash
<1>1. /\ disk' \in [Fuzzers -> SUBSET Crashes]
      /\ \A g \in Fuzzers : disk[g] \subseteq disk'[g] /\ (g # f => disk'[g] = disk[g])
  BY <1>0, <1>t, FileTypes
<1>2. TypeOK'
  BY <1>t, <1>u, <1>1 DEF TypeOK
<1>3. Phase' /\ Recorded' /\ CrashesArePaidOnce' /\ Exported' /\ SavedCrashesAreCounted'
  BY <1>u DEF IInv, Phase, Recorded, CrashesArePaidOnce, Exported, SavedCrashesAreCounted
<1>4. OnDisk'
  BY <1>u, <1>1 DEF IInv, OnDisk
<1>5. Settled'
  <2> SUFFICES ASSUME faults = 0 PROVE Settled'
    BY <1>u DEF Settled
  <2>1. f \in started /\ pc \notin {"export", "evaluate", "end"}
    BY <1>0 DEF IInv, Settled
  <2> QED
    BY <1>u, <1>1, <2>1 DEF IInv, Settled
<1> QED
  BY <1>2, <1>3, <1>4, <1>5 DEF IInv

LEMMA DieStep ==
  ASSUME IInv, NEW f \in Fuzzers, Die(f)
  PROVE  IInv'
<1>t. TypeOK
  BY DEF IInv
<1>u. UNCHANGED <<pc, round, windows, faults, selected, started, active, best, tracked, disk,
                  staged, saved, seen, monSeen, window, paid, windowed, wiped, lost, kept, credited>>
  BY DEF Die, chosen, files, record, history
<1>0. deaths' \in 0..MaxDeaths /\ pool' = [pool EXCEPT ![f] = "none"]
  BY <1>t, CrashRecordAssumption DEF Die, TypeOK
<1>1. TypeOK'
  BY <1>t, <1>u, <1>0 DEF TypeOK
<1>2. Phase' /\ Recorded' /\ CrashesArePaidOnce' /\ Exported' /\ SavedCrashesAreCounted'
  BY <1>u DEF IInv, Phase, Recorded, CrashesArePaidOnce, Exported, SavedCrashesAreCounted
<1>3. OnDisk'
  BY <1>u DEF IInv, OnDisk
<1>4. \A g \in Fuzzers : pool'[g] = "running" => pool[g] = "running"
  BY <1>t, <1>0 DEF TypeOK
<1>5. Settled'
  BY <1>t, <1>u, <1>4 DEF IInv, Settled, TypeOK
<1> QED
  BY <1>1, <1>2, <1>3, <1>5 DEF IInv

LEMMA PollStep == ASSUME IInv, Poll PROVE IInv'
<1>t. TypeOK /\ Phase
  BY DEF IInv
<1>u. UNCHANGED <<round, deaths, faults, selected, started, best, pool, disk, saved, seen, monSeen,
                  window, paid, windowed, wiped, lost, kept, credited>>
  BY DEF Poll, record, history
<1> DEFINE P == {f \in started : tracked[f]}
<1>0. /\ pc = "fuzz" /\ windows < MaxWindows /\ windows' = windows + 1
      /\ staged' = Staged(P) /\ active' = Active /\ P \in SUBSET Fuzzers
      /\ tracked' = [f \in Fuzzers |-> IF f \in started THEN pool[f] # "none" ELSE tracked[f]]
      /\ pc' = IF active' # {} THEN "window" ELSE "fuzz"
  BY <1>t DEF Poll, Goto, TypeOK
<1> HIDE DEF P
<1>1. /\ staged' \in [Fuzzers -> SUBSET Crashes]
      /\ \A f \in Fuzzers : staged'[f] \subseteq staged[f] \cup disk[f]
  BY <1>t, <1>0, StagedEffect
<1>2. active' \subseteq started
  BY <1>0 DEF Active
<1>3. windows' \in 0..MaxWindows /\ tracked' \in [Fuzzers -> BOOLEAN]
  <2>1. windows' \in 0..MaxWindows
    BY <1>t, <1>0, CrashRecordAssumption DEF TypeOK
  <2>2. tracked' \in [Fuzzers -> BOOLEAN]
    BY <1>t, <1>0 DEF TypeOK
  <2> QED
    BY <2>1, <2>2
<1>4. TypeOK'
  BY <1>t, <1>u, <1>0, <1>1, <1>2, <1>3 DEF TypeOK
<1>5. Phase'
  BY <1>t, <1>u, <1>0 DEF Phase
<1>6. Recorded' /\ CrashesArePaidOnce' /\ Exported' /\ SavedCrashesAreCounted'
  BY <1>u, <1>0 DEF IInv, Recorded, CrashesArePaidOnce, Exported, SavedCrashesAreCounted
<1>7. OnDisk'
  BY <1>u, <1>1 DEF IInv, OnDisk
<1>8. Settled'
  BY <1>u, <1>0 DEF IInv, Settled
<1> QED
  BY <1>4, <1>5, <1>6, <1>7, <1>8 DEF IInv

LEMMA WindowStep ==
  ASSUME IInv, NEW next \in {"fuzz", "pause"}, Window(next)
  PROVE  IInv'
<1>t. TypeOK /\ Phase
  BY DEF IInv
<1>u. UNCHANGED <<round, windows, deaths, faults, selected, started, best, pool, tracked, disk, staged,
                  saved, seen, paid, wiped, lost, kept, credited>>
  BY DEF Window, pools, files
<1>0. pc = "window" /\ pc' = next /\ Pay
  BY DEF Window, Goto
<1>1. /\ window' \in [Fuzzers -> SUBSET Crashes] /\ windowed' \in [Fuzzers -> SUBSET Crashes]
      /\ monSeen' \subseteq Crashes /\ active' = {} /\ monSeen \subseteq monSeen'
      /\ \A f \in Fuzzers : /\ window'[f] \subseteq disk[f] /\ window'[f] \subseteq monSeen'
                            /\ window'[f] \cap monSeen = {}
                            /\ windowed'[f] = windowed[f] \cup window[f]
  BY <1>t, <1>0, PayEffect
<1>2. TypeOK' /\ Phase'
  BY <1>t, <1>u, <1>0, <1>1 DEF TypeOK, Phase
<1>3. Recorded' /\ CrashesArePaidOnce'
  BY <1>u, <1>0, <1>1 DEF IInv, Recorded, CrashesArePaidOnce
<1>4. OnDisk'
  BY <1>u, <1>1 DEF IInv, OnDisk
<1>5. Exported' /\ SavedCrashesAreCounted' /\ Settled'
  BY <1>u, <1>0 DEF IInv, Exported, SavedCrashesAreCounted, Settled
<1> QED
  BY <1>2, <1>3, <1>4, <1>5 DEF IInv

LEMMA ReclaimStep ==
  ASSUME IInv, NEW b \in active, NEW donors \in SUBSET (active \ {b}),
         NEW fail \in SUBSET Running(donors), NEW next \in {"boost", "fuzz"},
         Reclaim(donors, b, fail, next)
  PROVE  IInv'
<1>t. TypeOK /\ Phase
  BY DEF IInv
<1>u. UNCHANGED <<round, windows, deaths, selected, started, disk, saved, seen, paid, wiped, lost,
                  kept, credited>>
  BY DEF Reclaim
<1>s. active \subseteq started /\ started \subseteq Fuzzers /\ donors \in SUBSET Fuzzers
      /\ fail \in SUBSET Fuzzers
  BY <1>t DEF TypeOK, Running
<1>0. /\ pc = "window" /\ pc' = next /\ Pay
      /\ pool' = [f \in Fuzzers |->
                    IF f \in donors \ fail /\ pool[f] = "running" THEN "paused" ELSE pool[f]]
      /\ tracked' = [f \in Fuzzers |-> IF f \in donors THEN pool[f] # "none" ELSE tracked[f]]
      /\ staged' = Staged(donors)
      /\ Faults(Cardinality(fail))
      /\ best' = IF next = "boost" THEN {b} ELSE {}
  BY DEF Reclaim, Goto
<1>1. /\ window' \in [Fuzzers -> SUBSET Crashes] /\ windowed' \in [Fuzzers -> SUBSET Crashes]
      /\ monSeen' \subseteq Crashes /\ active' = {} /\ monSeen \subseteq monSeen'
      /\ \A f \in Fuzzers : /\ window'[f] \subseteq disk[f] /\ window'[f] \subseteq monSeen'
                            /\ window'[f] \cap monSeen = {}
                            /\ windowed'[f] = windowed[f] \cup window[f]
  BY <1>t, <1>0, PayEffect
<1>2. /\ staged' \in [Fuzzers -> SUBSET Crashes]
      /\ \A f \in Fuzzers : staged'[f] \subseteq staged[f] \cup disk[f]
  BY <1>t, <1>s, <1>0, StagedEffect
<1>3. faults' \in 0..MaxFaults /\ (faults' = 0 => faults = 0)
  BY <1>t, <1>s, <1>0, FaultCost
<1>4. /\ pool' \in [Fuzzers -> {"none", "running", "paused"}]
      /\ \A f \in Fuzzers : pool'[f] = "running" => pool[f] = "running"
  BY <1>t, <1>0 DEF TypeOK
<1>5. tracked' \in [Fuzzers -> BOOLEAN]
  BY <1>t, <1>0 DEF TypeOK
<1>6. TypeOK'
  BY <1>t, <1>s, <1>u, <1>0, <1>1, <1>2, <1>3, <1>4, <1>5 DEF TypeOK
<1>7. Phase'
  BY <1>t, <1>u, <1>0, <1>1 DEF Phase
<1>8. Recorded' /\ CrashesArePaidOnce'
  BY <1>u, <1>0, <1>1 DEF IInv, Recorded, CrashesArePaidOnce
<1>9. OnDisk'
  BY <1>u, <1>1, <1>2 DEF IInv, OnDisk
<1>10. Exported' /\ SavedCrashesAreCounted'
  BY <1>0 DEF Exported, SavedCrashesAreCounted
<1>11. Settled'
  BY <1>u, <1>0, <1>3, <1>4 DEF IInv, Settled
<1> QED
  BY <1>6, <1>7, <1>8, <1>9, <1>10, <1>11 DEF IInv

LEMMA BoostStep ==
  ASSUME IInv, NEW ok \in BOOLEAN, NEW brief \in Brief(best), Boost(ok, brief)
  PROVE  IInv'
<1> DEFINE P == {f \in best : pool[f] = "none"}
<1>t. TypeOK /\ Phase
  BY DEF IInv
<1>u. UNCHANGED <<round, windows, deaths, selected, started, active, staged, saved, seen, monSeen,
                  window, paid, windowed, kept, credited>>
  BY DEF Boost, record
<1>0. /\ pc = "boost" /\ pc' = "fuzz" /\ best' = {}
      /\ Wipe(P, brief) /\ P \in SUBSET Fuzzers
      /\ wiped' = [f \in Fuzzers |-> IF f \in P THEN wiped[f] \cup disk[f] ELSE wiped[f]]
      /\ pool' = [f \in Fuzzers |-> IF f \in best /\ ok THEN "running" ELSE pool[f]]
      /\ tracked' = [f \in Fuzzers |-> IF f \in best THEN ok ELSE tracked[f]]
      /\ Faults(Cardinality(brief))
  BY <1>t DEF Boost, Goto, TypeOK
<1> HIDE DEF P
<1>1. /\ disk' \in [Fuzzers -> SUBSET Crashes] /\ lost' \in [Fuzzers -> SUBSET Crashes]
      /\ \A f \in Fuzzers \ P : disk[f] \subseteq disk'[f]
      /\ brief = {} => \A f \in Fuzzers : disk'[f] \subseteq disk[f]
  BY <1>0, <1>t, WipeEffect
<1>2. wiped \in [Fuzzers -> SUBSET Crashes] /\ disk \in [Fuzzers -> SUBSET Crashes]
  BY <1>t, FileTypes
<1>3. /\ wiped' \in [Fuzzers -> SUBSET Crashes]
      /\ \A f \in Fuzzers : disk[f] \cup wiped[f] \subseteq disk'[f] \cup wiped'[f]
  BY <1>0, <1>1, <1>2
<1>4. faults' \in 0..MaxFaults /\ (faults' = 0 => faults = 0 /\ brief = {})
  <2>1. Cardinality(brief) \in Nat /\ (Cardinality(brief) = 0 => brief = {})
    BY BriefCost
  <2>2. faults \in Nat /\ MaxFaults \in Nat
    BY <1>t, CrashRecordAssumption DEF TypeOK
  <2>3. faults' \in 0..MaxFaults /\ (faults' = 0 => faults = 0 /\ Cardinality(brief) = 0)
    BY <1>0, <2>1, <2>2 DEF Faults
  <2> QED
    BY <2>1, <2>3
<1>5. /\ pool' \in [Fuzzers -> {"none", "running", "paused"}]
      /\ \A f \in Fuzzers \ started : pool'[f] = pool[f]
  BY <1>t, <1>0 DEF TypeOK
<1>6. tracked' \in [Fuzzers -> BOOLEAN]
  BY <1>t, <1>0 DEF TypeOK
<1>7. TypeOK'
  BY <1>t, <1>u, <1>0, <1>1, <1>3, <1>4, <1>5, <1>6 DEF TypeOK
<1>8. Phase'
  BY <1>t, <1>u, <1>0 DEF Phase
<1>9. Recorded' /\ CrashesArePaidOnce'
  BY <1>u, <1>0 DEF IInv, Recorded, CrashesArePaidOnce
<1>10. OnDisk'
  BY <1>u, <1>3 DEF IInv, OnDisk
<1>11. Exported' /\ SavedCrashesAreCounted'
  BY <1>0 DEF Exported, SavedCrashesAreCounted
<1>12. Settled'
  <2> SUFFICES ASSUME faults' = 0
               PROVE  \A f \in Fuzzers \ started : pool'[f] # "running" /\ disk'[f] \subseteq kept[f]
    BY <1>0, <1>u DEF Settled
  <2> QED
    BY <1>1, <1>4, <1>5 DEF IInv, Settled
<1> QED
  BY <1>7, <1>8, <1>9, <1>10, <1>11, <1>12 DEF IInv

LEMMA PauseAllStep ==
  ASSUME IInv, NEW fail \in SUBSET Running(started), PauseAll(fail)
  PROVE  IInv'
<1>t. TypeOK /\ Phase
  BY DEF IInv
<1>u. UNCHANGED <<round, windows, deaths, selected, started, active, best, disk, saved, seen, monSeen,
                  window, paid, windowed, wiped, lost, kept, credited>>
  BY DEF PauseAll, chosen, record, history
<1>s. started \in SUBSET Fuzzers /\ fail \in SUBSET Fuzzers
  BY <1>t DEF TypeOK, Running
<1>0. /\ pc \in {"fuzz", "pause"} /\ pc' = "export"
      /\ pool' = [f \in Fuzzers |->
                    IF f \in started \ fail /\ pool[f] = "running" THEN "paused" ELSE pool[f]]
      /\ tracked' = [f \in Fuzzers |-> IF f \in started THEN pool[f] # "none" ELSE tracked[f]]
      /\ staged' = Staged(started)
      /\ Faults(Cardinality(fail))
  BY DEF PauseAll, Goto
<1>1. /\ staged' \in [Fuzzers -> SUBSET Crashes]
      /\ \A f \in Fuzzers : staged'[f] \subseteq staged[f] \cup disk[f]
      /\ \A f \in started : disk[f] \subseteq staged'[f]
  <2>1. /\ staged' \in [Fuzzers -> SUBSET Crashes]
        /\ \A f \in Fuzzers : staged'[f] = IF f \in started THEN staged[f] \cup disk[f] ELSE staged[f]
    BY <1>t, <1>s, <1>0, StagedEffect
  <2> QED
    BY <1>s, <2>1
<1>2. faults' \in 0..MaxFaults /\ (faults' = 0 => faults = 0 /\ fail = {})
  BY <1>t, <1>s, <1>0, FaultCost
<1>3. /\ pool' \in [Fuzzers -> {"none", "running", "paused"}]
      /\ \A f \in Fuzzers : pool'[f] = "running" => pool[f] = "running" /\ f \notin started \ fail
  BY <1>t, <1>0 DEF TypeOK
<1>4. tracked' \in [Fuzzers -> BOOLEAN]
  BY <1>t, <1>0 DEF TypeOK
<1>5. TypeOK'
  BY <1>t, <1>u, <1>0, <1>1, <1>2, <1>3, <1>4 DEF TypeOK
<1>6. Phase'
  BY <1>t, <1>u, <1>0 DEF Phase
<1>7. Recorded' /\ CrashesArePaidOnce'
  BY <1>u, <1>0 DEF IInv, Recorded, CrashesArePaidOnce
<1>8. OnDisk'
  BY <1>u, <1>1 DEF IInv, OnDisk
<1>9. Exported' /\ SavedCrashesAreCounted'
  BY <1>0 DEF Exported, SavedCrashesAreCounted
<1>10. Settled'
  <2> SUFFICES ASSUME faults' = 0
               PROVE  /\ \A f \in Fuzzers \ started : pool'[f] # "running" /\ disk[f] \subseteq kept[f]
                      /\ \A f \in started : pool'[f] # "running" /\ disk[f] \subseteq staged'[f]
    BY <1>0, <1>u DEF Settled
  <2> QED
    BY <1>s, <1>1, <1>2, <1>3 DEF IInv, Settled
<1> QED
  BY <1>5, <1>6, <1>7, <1>8, <1>9, <1>10 DEF IInv

LEMMA ExportStep == ASSUME IInv, Export PROVE IInv'
<1>t. TypeOK /\ Phase
  BY DEF IInv
<1>u. UNCHANGED <<round, windows, deaths, faults, selected, started, active, best, pool, tracked, disk,
                  staged, seen, monSeen, window, paid, windowed, wiped, lost, kept, credited>>
  BY DEF Export, chosen, pools, record, history
<1>0. /\ pc = "export" /\ pc' = "evaluate"
      /\ saved' = [f \in Fuzzers |-> IF f \in selected THEN staged[f] ELSE {}]
  BY DEF Export, Goto
<1>1. saved' \in [Fuzzers -> SUBSET Crashes] /\ \A f \in selected : saved'[f] = staged[f]
  BY <1>t, <1>0, FileTypes DEF TypeOK
<1>2. TypeOK'
  BY <1>t, <1>u, <1>0, <1>1 DEF TypeOK
<1>3. Phase' /\ Recorded' /\ CrashesArePaidOnce' /\ OnDisk'
  BY <1>u, <1>0 DEF IInv, Phase, Recorded, CrashesArePaidOnce, OnDisk
<1>4. Exported' /\ SavedCrashesAreCounted' /\ Settled'
  BY <1>u, <1>0, <1>1 DEF IInv, Exported, SavedCrashesAreCounted, Settled
<1> QED
  BY <1>2, <1>3, <1>4 DEF IInv

LEMMA EvaluateStep == ASSUME IInv, Evaluate PROVE IInv'
<1>t. TypeOK /\ Phase
  BY DEF IInv
<1>u. UNCHANGED <<round, windows, deaths, faults, selected, started, active, best, pool, tracked, disk,
                  staged, saved, monSeen, window, windowed, wiped, lost, kept, credited>>
  BY DEF Evaluate, chosen, pools, files, history
<1>0. /\ pc = "evaluate" /\ pc' = "end"
      /\ paid' = [f \in Fuzzers |-> IF f \in selected THEN Visible(f) \ seen ELSE {}]
      /\ seen' = seen \cup UNION {Visible(f) : f \in selected}
  BY DEF Evaluate, Goto
<1>s. selected \subseteq Fuzzers /\ started \subseteq selected /\ seen \subseteq Crashes
  BY <1>t DEF TypeOK
<1>v. \A f \in Fuzzers : /\ Visible(f) \subseteq disk[f] /\ Visible(f) \subseteq Crashes
                         /\ f \notin Blind => Visible(f) = disk[f]
  BY <1>t, VisibleOnDisk
<1>1. /\ seen \subseteq seen' /\ seen' \subseteq Crashes
      /\ \A f \in selected : Visible(f) \subseteq seen'
  <2>1. seen \subseteq seen' /\ \A f \in selected : Visible(f) \subseteq seen'
    BY <1>0
  <2>2. ASSUME NEW c \in seen' PROVE c \in Crashes
    <3>1. c \in seen \/ \E f \in selected : c \in Visible(f)
      BY <1>0
    <3> QED
      BY <1>s, <1>v, <3>1
  <2> QED
    BY <2>1, <2>2
<1>2. /\ paid' \in [Fuzzers -> SUBSET Crashes]
      /\ \A f \in Fuzzers : /\ paid'[f] \cap seen = {} /\ paid'[f] \subseteq seen'
                            /\ paid'[f] \subseteq disk[f]
  <2>1. \A f \in Fuzzers : paid'[f] = IF f \in selected THEN Visible(f) \ seen ELSE {}
    BY <1>0
  <2>2. \A f \in Fuzzers : paid'[f] \cap seen = {} /\ paid'[f] \subseteq Visible(f)
    BY <2>1
  <2>3. \A f \in Fuzzers : paid'[f] \subseteq seen'
    BY <1>1, <2>1
  <2>4. \A f \in Fuzzers : paid'[f] \subseteq disk[f] /\ paid'[f] \subseteq Crashes
    BY <1>v, <2>2
  <2>5. paid' \in [Fuzzers -> SUBSET Crashes]
    BY <1>0, <2>4
  <2> QED
    BY <2>2, <2>3, <2>4, <2>5
<1>3. TypeOK'
  BY <1>t, <1>u, <1>0, <1>1, <1>2 DEF TypeOK
<1>4. Phase' /\ OnDisk' /\ Exported'
  BY <1>u, <1>0 DEF IInv, Phase, OnDisk, Exported
<1>5. Recorded' /\ CrashesArePaidOnce'
  BY <1>u, <1>0, <1>1, <1>2 DEF IInv, Recorded, CrashesArePaidOnce
<1>6. SavedCrashesAreCounted'
  <2> SUFFICES ASSUME NEW f \in selected \ Blind PROVE saved[f] \subseteq seen' \cup wiped[f]
    BY <1>u DEF SavedCrashesAreCounted
  <2>1. f \in Fuzzers /\ saved[f] = staged[f] /\ staged[f] \subseteq disk[f] \cup wiped[f]
    BY <1>0, <1>s DEF IInv, OnDisk, Exported
  <2>2. Visible(f) = disk[f] /\ Visible(f) \subseteq seen'
    BY <1>v, <1>1, <2>1
  <2> QED
    BY <2>1, <2>2
<1>7. Settled'
  BY <1>u, <1>0, <1>s, <1>2 DEF IInv, Settled
<1> QED
  BY <1>3, <1>4, <1>5, <1>6, <1>7 DEF IInv

LEMMA EndRoundStep == ASSUME IInv, EndRound PROVE IInv'
<1>t. TypeOK /\ Phase
  BY DEF IInv
<1>u. UNCHANGED <<deaths, faults, active, best, pool, tracked, disk, seen, monSeen, lost>>
  BY DEF EndRound, pools
<1>0. /\ pc = "end" /\ pc' = "begin"
      /\ staged' = None /\ saved' = None /\ paid' = None /\ window' = None /\ windowed' = None
      /\ wiped' = None
      /\ kept' = [f \in Fuzzers |-> kept[f] \cup saved[f]]
      /\ credited' = credited \cup UNION {paid[f] : f \in Fuzzers}
      /\ selected' = {} /\ started' = {} /\ windows' = 0 /\ round' = round + 1
  BY DEF EndRound, Goto
<1>1. None \in [Fuzzers -> SUBSET Crashes] /\ \A f \in Fuzzers : None[f] = {}
  BY DEF None
<1>2. kept' \in [Fuzzers -> SUBSET Crashes] /\ \A f \in Fuzzers : kept'[f] = kept[f] \cup saved[f]
  BY <1>t, <1>0, FileTypes
<1>3. credited' \subseteq seen /\ seen \subseteq Crashes
  BY <1>t, <1>0 DEF IInv, Recorded, TypeOK
<1>4. active = {} /\ best = {} /\ round' \in 0..Rounds /\ windows' \in 0..MaxWindows
  BY <1>t, <1>0, CrashRecordAssumption DEF TypeOK, Phase
<1>5. TypeOK'
  BY <1>t, <1>u, <1>0, <1>1, <1>2, <1>3, <1>4 DEF TypeOK
<1>6. Phase'
  BY <1>u, <1>0, <1>4 DEF Phase
<1>7. Recorded' /\ CrashesArePaidOnce' /\ OnDisk'
  BY <1>u, <1>0, <1>1, <1>3 DEF Recorded, CrashesArePaidOnce, OnDisk
<1>8. Exported' /\ SavedCrashesAreCounted'
  BY <1>0 DEF Exported, SavedCrashesAreCounted
<1>9. Settled'
  <2> SUFFICES ASSUME faults = 0, NEW f \in Fuzzers
               PROVE  pool[f] # "running" /\ disk[f] \subseteq kept'[f]
    BY <1>u, <1>0 DEF Settled
  <2>1. CASE f \in started
    <3>1. f \in selected /\ pool[f] # "running" /\ disk[f] \subseteq staged[f] /\ saved[f] = staged[f]
      BY <1>t, <1>0, <2>1 DEF IInv, TypeOK, Settled, Exported
    <3> QED
      BY <1>2, <3>1
  <2>2. CASE f \notin started
    BY <1>2, <2>2 DEF IInv, Settled
  <2> QED
    BY <2>1, <2>2
<1> QED
  BY <1>5, <1>6, <1>7, <1>8, <1>9 DEF IInv

LEMMA StepInv == IInv /\ [Next]_vars => IInv'
<1> SUFFICES ASSUME IInv, [Next]_vars PROVE IInv'
  OBVIOUS
<1>1. ASSUME NEW sel \in (SUBSET Fuzzers) \ {{}}, NEW run \in SUBSET sel,
             NEW fail \in SUBSET Running(Fuzzers \ sel), NEW brief \in Brief(Gone(sel \ run)),
             BeginRound(sel, run, fail, brief)
      PROVE  IInv'
  BY <1>1, BeginRoundStep
<1>2. ASSUME NEW f \in Fuzzers, NEW c \in Crashes, Crash(f, c) PROVE IInv'
  BY <1>2, CrashStep
<1>3. ASSUME NEW f \in Fuzzers, Die(f) PROVE IInv'
  BY <1>3, DieStep
<1>4. ASSUME NEW next \in {"fuzz", "pause"}, Window(next) PROVE IInv'
  BY <1>4, WindowStep
<1>5. ASSUME NEW b \in active, NEW donors \in (SUBSET (active \ {b})) \ {{}},
             NEW fail \in SUBSET Running(donors), NEW next \in {"boost", "fuzz"},
             Reclaim(donors, b, fail, next)
      PROVE  IInv'
  BY <1>5, ReclaimStep
<1>6. ASSUME NEW ok \in BOOLEAN, NEW brief \in (IF ok THEN {{}} ELSE Brief(best)), Boost(ok, brief)
      PROVE  IInv'
  <2>1. brief \in Brief(best)
    <3>1. {} \in Brief(best)
      BY DEF Brief
    <3>2. CASE ok
      BY <3>1, <3>2
    <3>3. CASE ~ok
      BY <3>3
    <3> QED
      BY <3>2, <3>3
  <2> QED
    BY <1>6, <2>1, BoostStep
<1>7. ASSUME NEW fail \in SUBSET Running(started), PauseAll(fail) PROVE IInv'
  BY <1>7, PauseAllStep
<1>8. CASE Poll \/ Export \/ Evaluate \/ EndRound
  BY <1>8, PollStep, ExportStep, EvaluateStep, EndRoundStep
<1>9. CASE Ended \/ UNCHANGED vars
  <2>1. UNCHANGED vars
    BY <1>9 DEF Ended
  <2>2. UNCHANGED <<pc, round, windows, deaths, faults, selected, started, active, best, pool, tracked,
                    disk, staged, saved, seen, monSeen, window, paid, windowed, wiped, lost, kept,
                    credited>>
    BY <2>1 DEF vars, campaign, chosen, pools, files, record, history
  <2>3. TypeOK' /\ Phase' /\ Recorded' /\ CrashesArePaidOnce'
    BY <2>2 DEF IInv, TypeOK, Phase, Recorded, CrashesArePaidOnce
  <2>4. OnDisk' /\ Exported' /\ SavedCrashesAreCounted' /\ Settled'
    BY <2>2 DEF IInv, OnDisk, Exported, SavedCrashesAreCounted, Settled
  <2> QED
    BY <2>3, <2>4 DEF IInv
<1> QED
  BY <1>1, <1>2, <1>3, <1>4, <1>5, <1>6, <1>7, <1>8, <1>9 DEF Next

LEMMA CrashInvariant == Spec => []IInv
BY InitInv, StepInv, PTL DEF Spec

\* The rounds, the workers and the faults keep every variable in its type.
THEOREM TypeCorrect == Spec => []TypeOK
<1>1. IInv => TypeOK
  BY DEF IInv
<1> QED
  BY <1>1, CrashInvariant, PTL

\* evaluate_all pays a crash in one round only and evaluate_monitor_window in
\* one window of a round only.
THEOREM PaidOnceTheorem == Spec => []CrashesArePaidOnce
<1>1. IInv => CrashesArePaidOnce
  BY DEF IInv
<1> QED
  BY <1>1, CrashInvariant, PTL

\* What is paid from the run directories agrees, when the round ends, with what
\* is exported from the staging directories.
THEOREM SavedTheorem == Spec => []RewardsMatchSavedCrashes
<1>1. IInv => PaidCrashesAreSaved
  <2> SUFFICES ASSUME IInv, pc = "end", faults = 0, NEW f \in started
               PROVE  /\ paid[f] \subseteq saved[f]
                      /\ windowed[f] \cup window[f] \subseteq saved[f] \cup wiped[f]
    BY DEF PaidCrashesAreSaved
  <2>1. f \in selected /\ f \in Fuzzers
    BY DEF IInv, TypeOK
  <2>2. disk[f] \subseteq saved[f] /\ paid[f] \subseteq disk[f]
    BY <2>1 DEF IInv, Settled, Exported
  <2>3. window[f] \cup windowed[f] \subseteq disk[f] \cup wiped[f]
    BY <2>1 DEF IInv, OnDisk
  <2> QED
    BY <2>2, <2>3
<1>2. IInv => RewardsMatchSavedCrashes
  BY <1>1 DEF IInv, RewardsMatchSavedCrashes
<1> QED
  BY <1>2, CrashInvariant, PTL

\* A wiped pool outside a boost holds only crashes of rounds that have saved
\* them: start_active_round_fuzzer at the start of a round loses none.
LEMMA NothingLostAtBegin ==
  ASSUME IInv, [Next]_vars, pc = "begin", faults = 0
  PROVE  lost' = lost
<1>t. TypeOK
  BY DEF IInv
<1>1. ASSUME NEW sel \in SUBSET Fuzzers, NEW run, NEW fail, NEW brief,
             BeginRound(sel, run, fail, brief)
      PROVE  lost' = lost
  <2> DEFINE P == {f \in sel : pool[f] = "none"}
  <2>1. Wipe(P, brief) /\ P \in SUBSET Fuzzers
    BY <1>1 DEF BeginRound
  <2> HIDE DEF P
  <2>2. /\ lost' \in [Fuzzers -> SUBSET Crashes]
        /\ \A f \in Fuzzers \ P : lost'[f] = lost[f]
        /\ \A f \in P : lost'[f] = lost[f] \cup (disk[f] \ (staged[f] \cup kept[f]))
    BY <1>t, <2>1, WipeEffect
  <2>3. \A f \in Fuzzers : disk[f] \subseteq kept[f]
    BY DEF IInv, Phase, Settled
  <2>4. lost \in [Fuzzers -> SUBSET Crashes]
    BY <1>t, FileTypes
  <2>5. \A f \in Fuzzers : lost'[f] = lost[f]
    BY <2>1, <2>2, <2>3
  <2> QED
    BY <2>2, <2>4, <2>5
<1>2. CASE ~ \E sel \in (SUBSET Fuzzers) \ {{}} : \E run \in SUBSET sel :
              \E fail \in SUBSET Running(Fuzzers \ sel), brief \in Brief(Gone(sel \ run)) :
                BeginRound(sel, run, fail, brief)
  BY <1>2 DEF Next, Crash, Die, Poll, Window, Reclaim, Boost, PauseAll, Export, Evaluate, EndRound,
              Ended, vars, history
<1> QED
  BY <1>1, <1>2

\* As long as no pause has failed and no start died at once, the pools that are
\* started anew at the beginning of a round take no crash with them.
THEOREM RoundStartTheorem == Spec => RoundStartLosesNoCrash
<1>1. IInv /\ [Next]_vars => [pc = "begin" /\ faults = 0 => lost' = lost]_vars
  BY NothingLostAtBegin
<1> QED
  BY <1>1, CrashInvariant, PTL DEF Spec, RoundStartLosesNoCrash
=============================================================================
