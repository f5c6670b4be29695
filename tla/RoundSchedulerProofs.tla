------------------------ MODULE RoundSchedulerProofs ------------------------
(***************************************************************************)
(* Safety of the round scheduler for every number of fuzzers, every budget *)
(* of resource units, every round time and monitor time, every number of   *)
(* rounds and every pattern of lost workers.                               *)
(***************************************************************************)
EXTENDS RoundScheduler, NaturalsInduction, WellFoundedInduction, TLAPS

(***************************************************************************)
(* Totals, by their tables of partial sums: each lemma gives the table.    *)
(***************************************************************************)

\* The indices of the tables and of the summands.
LEMMA Indices ==
  /\ NumFuzzers \in Nat /\ 0 \in 0..NumFuzzers
  /\ \A i \in Fuzzers : /\ i \in Int /\ i > 0
                        /\ i \in 0..NumFuzzers /\ i - 1 \in 0..NumFuzzers
BY SchedulerAssumption DEF Fuzzers

\* t[i] = f[1] + ... + f[i]
IsTable(f, t) ==
  /\ t \in [0..NumFuzzers -> Int] /\ t[0] = 0
  /\ \A i \in Fuzzers : t[i] = t[i - 1] + f[i]

LEMMA LeastNumber ==
  ASSUME NEW N \in SUBSET Nat, N # {}
  PROVE  \E n \in N : \A m \in N : n <= m
<1> DEFINE Less == OpToRel(<, Nat)
<1>1. IsWellFoundedOn(Less, Nat)
  BY NatLessThanWellFounded
<1>2. \A x, y \in Nat : <<y, x>> \in Less <=> y < x
  BY DEF OpToRel
<1> HIDE DEF Less
<1>3. PICK n \in N : \A m \in N : ~(<<m, n>> \in Less)
  BY <1>1, WFMin
<1>4. \A m \in N : ~(m < n)
  BY <1>2, <1>3
<1> QED
  BY <1>3, <1>4

\* Every table ends with the same number, the total.
LEMMA TotalOfTable ==
  ASSUME NEW f \in [Fuzzers -> Int], NEW t, IsTable(f, t)
  PROVE  Total(f) = t[NumFuzzers]
<1> DEFINE Eq(s) == s = [i \in 0..NumFuzzers |-> IF i = 0 THEN 0 ELSE s[i - 1] + f[i]]
           u == CHOOSE s : Eq(s)
<1>1. \A i \in 0..NumFuzzers : i # 0 => i \in Fuzzers /\ i - 1 \in 0..NumFuzzers
  BY Indices DEF Fuzzers
<1>2. Eq(t)
  BY <1>1 DEF IsTable
<1>3. Eq(u)
  BY <1>2
<1>4. Total(f) = u[NumFuzzers]
  BY DEF Total
<1> HIDE DEF u
<1>5. \A i \in 0..NumFuzzers : u[i] = IF i = 0 THEN 0 ELSE u[i - 1] + f[i]
  BY <1>3
<1>6. \A i \in 0..NumFuzzers : t[i] = IF i = 0 THEN 0 ELSE t[i - 1] + f[i]
  BY <1>1 DEF IsTable
<1> DEFINE Bad == {i \in 0..NumFuzzers : u[i] # t[i]}
<1> HIDE DEF Eq
<1>7. Bad = {}
  <2> SUFFICES ASSUME Bad # {} PROVE FALSE
    OBVIOUS
  <2>1. Bad \in SUBSET Nat
    BY Indices
  <2>2. PICK n \in Bad : \A m \in Bad : n <= m
    BY <2>1, LeastNumber
  <2>3. n \in 0..NumFuzzers /\ u[n] # t[n] /\ n \in Int
    BY <2>1, <2>2
  <2>4. n # 0
    BY <1>5, <1>6, <2>3
  <2>5. n - 1 \in 0..NumFuzzers /\ n - 1 \notin Bad
    BY <1>1, <2>2, <2>3, <2>4
  <2> QED
    BY <1>5, <1>6, <2>3, <2>4, <2>5
<1>8. NumFuzzers \in 0..NumFuzzers
  BY Indices
<1> QED
  BY <1>4, <1>7, <1>8

\* Every function has a table: there is no first index that a table cannot reach.
LEMMA TableExists ==
  ASSUME NEW f \in [Fuzzers -> Int]
  PROVE  \E t : IsTable(f, t)
<1> DEFINE Upto(n, t) == /\ t \in [0..NumFuzzers -> Int] /\ t[0] = 0
                         /\ \A i \in Fuzzers : i <= n => t[i] = t[i - 1] + f[i]
           Bad == {n \in 0..NumFuzzers : ~\E t : Upto(n, t)}
<1>1. Bad = {}
  <2> SUFFICES ASSUME Bad # {} PROVE FALSE
    OBVIOUS
  <2>1. Bad \in SUBSET Nat
    BY Indices
  <2> HIDE DEF Upto
  <2>2. PICK n \in Bad : \A m \in Bad : n <= m
    BY <2>1, LeastNumber
  <2>3. n \in 0..NumFuzzers /\ n \in Int /\ ~\E t : Upto(n, t)
    BY <2>1, <2>2
  <2>4. n # 0
    <3> DEFINE z == [i \in 0..NumFuzzers |-> 0]
    <3>1. Upto(0, z)
      BY Indices DEF Upto
    <3> QED
      BY <2>3, <3>1
  <2>5. n \in Fuzzers /\ n - 1 \in 0..NumFuzzers /\ n - 1 \notin Bad /\ f[n] \in Int
    BY <2>2, <2>3, <2>4, Indices DEF Fuzzers
  <2>6. PICK t : Upto(n - 1, t)
    BY <2>5
  <2> DEFINE u == [t EXCEPT ![n] = t[n - 1] + f[n]]
  <2>7. t \in [0..NumFuzzers -> Int] /\ t[0] = 0 /\ t[n - 1] \in Int
    BY <2>5, <2>6 DEF Upto
  <2>8. u \in [0..NumFuzzers -> Int] /\ u[0] = 0 /\ u[n] = t[n - 1] + f[n] /\ u[n - 1] = t[n - 1]
    BY <2>3, <2>4, <2>5, <2>7
  <2>9. ASSUME NEW i \in Fuzzers, i <= n PROVE u[i] = u[i - 1] + f[i]
    <3>1. CASE i = n
      BY <2>8, <3>1
    <3>2. CASE i # n
      <4>1. i \in Int /\ i \in 0..NumFuzzers /\ i - 1 \in 0..NumFuzzers /\ i <= n - 1 /\ i - 1 # n
        BY <2>3, <2>9, <3>2, Indices
      <4>2. t[i] = t[i - 1] + f[i]
        BY <2>6, <4>1 DEF Upto
      <4>3. u[i] = t[i] /\ u[i - 1] = t[i - 1]
        BY <2>7, <3>2, <4>1
      <4> QED
        BY <4>2, <4>3
    <3> QED
      BY <3>1, <3>2
  <2>10. Upto(n, u)
    BY <2>8, <2>9 DEF Upto
  <2> QED
    BY <2>3, <2>10
<1>2. NumFuzzers \in 0..NumFuzzers /\ \A i \in Fuzzers : i <= NumFuzzers
  BY Indices DEF Fuzzers
<1>3. PICK t : Upto(NumFuzzers, t)
  BY <1>1, <1>2
<1>4. IsTable(f, t)
  BY <1>2, <1>3 DEF IsTable
<1> QED
  BY <1>4

LEMMA TotalInt ==
  ASSUME NEW f \in [Fuzzers -> Int]
  PROVE  Total(f) \in Int
<1>1. PICK t : IsTable(f, t)
  BY TableExists
<1>2. Total(f) = t[NumFuzzers] /\ NumFuzzers \in 0..NumFuzzers
  BY <1>1, TotalOfTable, Indices
<1> QED
  BY <1>1, <1>2 DEF IsTable

\* Zeros add up to nothing.
LEMMA ZeroTotal == Total([f \in Fuzzers |-> 0]) = 0
<1> DEFINE z == [f \in Fuzzers |-> 0]
           t == [i \in 0..NumFuzzers |-> 0]
<1>1. z \in [Fuzzers -> Int] /\ IsTable(z, t) /\ t[NumFuzzers] = 0
  BY Indices DEF IsTable
<1> HIDE DEF z, t
<1>2. Total(z) = 0
  BY <1>1, TotalOfTable
<1> QED
  BY <1>2 DEF z

\* One summand changes.
LEMMA TotalShift ==
  ASSUME NEW f \in [Fuzzers -> Int], NEW g \in [Fuzzers -> Int], NEW k \in Fuzzers,
         \A i \in Fuzzers : i # k => g[i] = f[i]
  PROVE  Total(g) = Total(f) + (g[k] - f[k])
<1>1. PICK t : IsTable(f, t)
  BY TableExists
<1> DEFINE d == g[k] - f[k]
           u == [i \in 0..NumFuzzers |-> IF i < k THEN t[i] ELSE t[i] + d]
<1>2. /\ t \in [0..NumFuzzers -> Int] /\ t[0] = 0
      /\ \A i \in Fuzzers : t[i] = t[i - 1] + f[i]
  BY <1>1 DEF IsTable
<1>3. d \in Int /\ f[k] \in Int /\ g[k] = f[k] + d /\ k \in Int /\ k > 0
  BY Indices
<1> HIDE DEF d
<1>4. u \in [0..NumFuzzers -> Int] /\ u[0] = 0
  BY <1>2, <1>3, Indices
<1>5. ASSUME NEW i \in Fuzzers PROVE u[i] = u[i - 1] + g[i]
  <2>1. i \in Int /\ i \in 0..NumFuzzers /\ i - 1 \in 0..NumFuzzers /\ f[i] \in Int
    BY Indices
  <2>2. t[i] = t[i - 1] + f[i] /\ t[i - 1] \in Int
    BY <1>2, <2>1
  <2>3. CASE i < k
    BY <1>3, <2>1, <2>2, <2>3
  <2>4. CASE i = k
    BY <1>3, <2>1, <2>2, <2>4
  <2>5. CASE i > k
    <3>1. u[i] = t[i] + d /\ u[i - 1] = t[i - 1] + d /\ g[i] = f[i]
      BY <1>3, <2>1, <2>5
    <3> QED
      BY <1>3, <2>1, <2>2, <3>1
  <2> QED
    BY <1>3, <2>1, <2>3, <2>4, <2>5
<1>6. IsTable(g, u)
  BY <1>4, <1>5 DEF IsTable
<1>7. u[NumFuzzers] = t[NumFuzzers] + d
  BY <1>3, Indices DEF Fuzzers
<1> HIDE DEF u
<1>8. Total(f) = t[NumFuzzers] /\ Total(g) = u[NumFuzzers]
  BY <1>1, <1>6, TotalOfTable
<1> QED
  BY <1>7, <1>8 DEF d

LEMMA Distributes == \A x, y, c \in Int : (x + y) * c = x * c + y * c /\ x * c \in Int
OBVIOUS

LEMMA TimesZero == \A x \in Int : 0 * x = 0 /\ x * 0 = 0
OBVIOUS

\* Every summand is multiplied by one number.
LEMMA TotalScale ==
  ASSUME NEW f \in [Fuzzers -> Int], NEW c \in Int
  PROVE  Total([i \in Fuzzers |-> f[i] * c]) = Total(f) * c
<1>1. PICK t : IsTable(f, t)
  BY TableExists
<1> DEFINE g == [i \in Fuzzers |-> f[i] * c]
           u == [i \in 0..NumFuzzers |-> t[i] * c]
<1>2. /\ t \in [0..NumFuzzers -> Int] /\ t[0] = 0
      /\ \A i \in Fuzzers : t[i] = t[i - 1] + f[i]
  BY <1>1 DEF IsTable
<1>3. u \in [0..NumFuzzers -> Int] /\ g \in [Fuzzers -> Int]
  BY <1>2, Distributes
<1>4. u[0] = 0
  BY <1>2, Indices
<1>5. ASSUME NEW i \in Fuzzers PROVE u[i] = u[i - 1] + g[i]
  <2>1. i \in 0..NumFuzzers /\ i - 1 \in 0..NumFuzzers /\ f[i] \in Int
    BY Indices
  <2>2. t[i] = t[i - 1] + f[i] /\ t[i - 1] \in Int
    BY <1>2, <2>1
  <2>3. (t[i - 1] + f[i]) * c = t[i - 1] * c + f[i] * c
    BY <2>1, <2>2, Distributes
  <2>4. u[i] = t[i] * c /\ u[i - 1] = t[i - 1] * c /\ g[i] = f[i] * c
    BY <2>1
  <2> QED
    BY <2>2, <2>3, <2>4
<1>6. u[NumFuzzers] = t[NumFuzzers] * c
  BY Indices
<1> HIDE DEF g, u
<1>7. IsTable(g, u)
  BY <1>3, <1>4, <1>5 DEF IsTable
<1>8. Total(f) = t[NumFuzzers] /\ Total(g) = u[NumFuzzers]
  BY <1>1, <1>3, <1>7, TotalOfTable
<1> QED
  BY <1>6, <1>8 DEF g

USE SchedulerAssumption

(***************************************************************************)
(* The inductive invariant.                                                *)
(***************************************************************************)

\* Types, with charges that are only known to be integers.
Types ==
  /\ pc \in Labels
  /\ round \in Nat
  /\ alloc \in [Fuzzers -> 0..ResourceUnits]
  /\ pending \subseteq Fuzzers /\ roundActive \subseteq Fuzzers
  /\ donors \subseteq Fuzzers /\ donated \subseteq Fuzzers
  /\ running \in [Fuzzers -> Nat]
  /\ active \subseteq Fuzzers
  /\ accounting \in [Fuzzers -> Nat]
  /\ charge \in [Fuzzers -> Int]
  /\ spent \in [Fuzzers -> Nat]
  /\ reclaimed \in Nat
  /\ elapsed \in 0..RoundTime
  /\ cum \in [Fuzzers -> Nat]
  /\ best \in 0..NumFuzzers

\* Which sets are empty and which are disjoint in which phase of the round.
Phases ==
  /\ pc \notin {"settle", "start"} => pending = {}
  /\ pc = "settle" => roundActive = {}
  /\ pc \in {"settle", "start"} => elapsed = 0
  /\ pc \in {"poll", "window", "reclaim", "boost"} => elapsed > 0
  /\ elapsed = 0 => donated = {}
  /\ pending \cap roundActive = {}
  /\ \A f \in pending \cup roundActive : alloc[f] > 0
  /\ donated \subseteq roundActive
  /\ \A f \in donated : f \notin active /\ running[f] = 0
  /\ pc \notin {"reclaim", "boost"} => reclaimed = 0
  /\ pc # "reclaim" => donors = {}
  /\ donors \subseteq (roundActive \ donated) \ {best}
  /\ pc \in {"reclaim", "boost"} => best \in roundActive \ donated
  /\ InRound => \A f \in roundActive \ donated : accounting[f] > 0

\* A charge covers what was held so far and what is held until the end of the
\* round; a fuzzer that was started has held something once time has passed.
Ledger ==
  \A f \in Fuzzers :
    /\ charge[f] >= spent[f] + Held[f] * Remaining
    /\ alloc[f] > 0 => charge[f] > 0
    /\ elapsed > 0 /\ f \in roundActive => spent[f] > 0

\* Only fuzzers that hold units run, and none runs between rounds.
Grants ==
  /\ \A f \in Fuzzers :
       IF f \in roundActive \ donated /\ InRound
       THEN running[f] <= RuntimeUnits(f, accounting[f])
       ELSE running[f] = 0

IInv == Types /\ Phases /\ Ledger /\ Grants /\ BudgetRespected

\* Every step keeps the types.
LEMMA TypesStep == IInv /\ [Next]_vars => Types'
<1> SUFFICES ASSUME IInv, [Next]_vars PROVE Types'
  OBVIOUS
<1> USE DEF IInv, Types, Labels, Goto
<1>1. ASSUME NEW a \in [Fuzzers -> 0..ResourceUnits], BeginRound(a) PROVE Types'
  BY <1>1 DEF BeginRound, Allocation, Zero, pools, ledger
<1>2. CASE SettleUnselected
  BY <1>2 DEF SettleUnselected, pools, ledger
<1>3. ASSUME NEW f \in Fuzzers, NEW r \in 0..(ResourceUnits + 1), StartSelected(f, r) PROVE Types'
  BY <1>3 DEF StartSelected, Ensure, pools, ledger
<1>4. CASE StartDone
  BY <1>4 DEF StartDone, pools, ledger
<1>5. CASE Sleep
  BY <1>5 DEF Sleep, Held, SleepStep, Remaining, MonitorStart, pools, ledger
<1>6. CASE SleepOver
  BY <1>6 DEF SleepOver, pools, ledger
<1>7. CASE Poll
  BY <1>7 DEF Poll, pools, ledger
<1>8. ASSUME NEW w \in Rewards, StagnatedWindow(w) PROVE Types'
  BY <1>8 DEF StagnatedWindow, pools, ledger
<1>9. ASSUME NEW w \in Rewards, NEW b \in 0..NumFuzzers, Window(w, b) PROVE Types'
  BY <1>9 DEF Window, Rewards, CurrentlyActive, pools, ledger
<1>10. ASSUME NEW f \in Fuzzers, Reclaim(f) PROVE Types'
  BY <1>10 DEF Reclaim, Donate, Remaining, pools, ledger
<1>11. CASE BoostOver
  BY <1>11 DEF BoostOver, pools, ledger
<1>12. ASSUME NEW r \in 0..(ResourceUnits + 1), Boost(r) PROVE Types'
  <2>1. best \in Fuzzers
    BY <1>12 DEF Phases, Boost, Grant
  <2> QED
    BY <1>12, <2>1 DEF Boost, Grant, Ensure, Remaining, pools, ledger
<1>13. CASE FinishRound
  BY <1>13 DEF FinishRound, pools, ledger
<1>14. CASE Evaluate
  BY <1>14 DEF Evaluate, Zero, pools, ledger
<1>15. ASSUME NEW f \in Fuzzers, Lose(f) PROVE Types'
  BY <1>15 DEF Lose, pools, ledger
<1>16. CASE UNCHANGED vars
  BY <1>16 DEF vars, pools, ledger
<1> QED
  BY <1>1, <1>2, <1>3, <1>4, <1>5, <1>6, <1>7, <1>8, <1>9, <1>10, <1>11, <1>12, <1>13, <1>14, <1>15, <1>16 DEF Next, Main, Done

\* Every step keeps the phases of the round apart.
LEMMA PhasesStep == IInv /\ [Next]_vars => Phases'
<1> SUFFICES ASSUME IInv, [Next]_vars PROVE Phases'
  OBVIOUS
<1> USE DEF IInv, Types, Phases, InRound, Labels, Goto
<1>1. ASSUME NEW a \in [Fuzzers -> 0..ResourceUnits], BeginRound(a) PROVE Phases'
  BY <1>1 DEF BeginRound, Zero, pools, ledger
<1>2. CASE SettleUnselected
  BY <1>2 DEF SettleUnselected, pools, ledger
<1>3. ASSUME NEW g \in Fuzzers, NEW r \in 0..(ResourceUnits + 1), StartSelected(g, r) PROVE Phases'
  BY <1>3 DEF StartSelected, Ensure, pools, ledger
<1>4. CASE StartDone
  BY <1>4 DEF StartDone, pools, ledger
<1>5. CASE Sleep
  BY <1>5 DEF Sleep, SleepStep, Remaining, MonitorStart, pools, ledger
<1>6. CASE SleepOver
  BY <1>6 DEF SleepOver, pools, ledger
<1>7. CASE Poll
  BY <1>7 DEF Poll, pools, ledger
<1>8. ASSUME NEW w \in Rewards, StagnatedWindow(w) PROVE Phases'
  BY <1>8 DEF StagnatedWindow, pools, ledger
<1>9. ASSUME NEW w \in Rewards, NEW b \in 0..NumFuzzers, Window(w, b) PROVE Phases'
  <2>1. CurrentlyActive \subseteq roundActive \ donated
    BY DEF CurrentlyActive
  <2>2. PICK f \in CurrentlyActive : w[f] > 0
    BY <1>9, <2>1 DEF Window, NoProgress, Rewards
  <2>3. cum'[f] > 0
    BY <1>9, <2>1, <2>2 DEF Window, Rewards
  <2>4. b \in CurrentlyActive
    <3>1. IsBest(b, cum')
      BY <1>9 DEF Window
    <3>2. ~(\A g \in CurrentlyActive : cum'[g] = 0)
      BY <2>2, <2>3
    <3> QED
      BY <3>1, <3>2 DEF IsBest
  <2>5. donors' \subseteq (roundActive \ donated) \ {b}
    BY <1>9, <2>1 DEF Window
  <2>6. pc' \in {"sleep", "reclaim"} /\ (pc' # "reclaim" => donors' = {})
    BY <1>9 DEF Window
  <2>7. /\ best' = b /\ reclaimed' = 0
        /\ UNCHANGED <<alloc, pending, roundActive, running, active, accounting, donated, elapsed>>
    BY <1>9 DEF Window, pools
  <2> QED
    BY <1>9, <2>1, <2>4, <2>5, <2>6, <2>7 DEF Window
<1>10. ASSUME NEW g \in Fuzzers, Reclaim(g) PROVE Phases'
  BY <1>10 DEF Reclaim, Donate, pools, ledger
<1>11. CASE BoostOver
  BY <1>11 DEF BoostOver, pools, ledger
<1>12. ASSUME NEW r \in 0..(ResourceUnits + 1), Boost(r) PROVE Phases'
  BY <1>12 DEF Boost, Grant, Ensure, pools, ledger
<1>13. CASE FinishRound
  BY <1>13 DEF FinishRound, pools, ledger
<1>14. CASE Evaluate
  BY <1>14 DEF Evaluate, Zero, pools, ledger
<1>15. ASSUME NEW g \in Fuzzers, Lose(g) PROVE Phases'
  BY <1>15 DEF Lose, pools, ledger
<1>16. CASE UNCHANGED vars
  BY <1>16 DEF vars, pools, ledger
<1> QED
  BY <1>1, <1>2, <1>3, <1>4, <1>5, <1>6, <1>7, <1>8, <1>9, <1>10, <1>11, <1>12, <1>13, <1>14, <1>15, <1>16 DEF Next, Main, Done

\* Facts of arithmetic about products of units and seconds.
LEMMA Products ==
  /\ \A h \in Nat, r, s \in Int : h * (r - s) = h * r - h * s
  /\ \A h, k \in Nat, r \in Int : (h + k) * r = h * r + k * r
  /\ \A h, r \in Nat : h * r \in Nat /\ (h > 0 /\ r > 0 => h * r > 0)
  /\ \A r \in Int : 0 * r = 0
BY SMT

\* What is held is a number of units.
LEMMA HeldType == Types => Held \in [Fuzzers -> Nat]
BY DEF Types, Held

\* A sleep moves the clock forward, and not beyond the end of the round.
LEMMA SleepStepPositive ==
  Types /\ elapsed < RoundTime => SleepStep \in Nat /\ SleepStep > 0 /\ SleepStep <= Remaining
BY DEF Types, SleepStep, Remaining, MonitorStart

\* Every step keeps the ledger: charges cover what is held.
LEMMA LedgerStep == IInv /\ [Next]_vars => Ledger'
<1> SUFFICES ASSUME IInv, [Next]_vars PROVE Ledger'
  OBVIOUS
<1> USE DEF IInv, Types, Phases, InRound, Ledger, Labels, Goto
<1>1. ASSUME NEW a \in [Fuzzers -> 0..ResourceUnits], BeginRound(a) PROVE Ledger'
  <2> SUFFICES ASSUME NEW f \in Fuzzers
               PROVE  /\ charge'[f] >= spent'[f] + Held'[f] * Remaining'
                      /\ alloc'[f] > 0 => charge'[f] > 0
    BY <1>1 DEF BeginRound
  <2>1. Held'[f] = a[f] /\ Remaining' = RoundTime
    BY <1>1 DEF BeginRound, Held, Remaining
  <2>2. charge'[f] = a[f] * RoundTime /\ spent'[f] = 0 /\ alloc'[f] = a[f]
    BY <1>1 DEF BeginRound, Zero
  <2> QED
    BY <2>1, <2>2, Products
<1>2. CASE SettleUnselected
  <2>1. Held' = Held /\ Remaining' = Remaining
    BY <1>2 DEF SettleUnselected, Held, Remaining, ledger
  <2> QED
    BY <1>2, <2>1 DEF SettleUnselected, ledger
<1>3. ASSUME NEW g \in Fuzzers, NEW r \in 0..(ResourceUnits + 1), StartSelected(g, r) PROVE Ledger'
  <2> SUFFICES ASSUME NEW f \in Fuzzers
               PROVE  charge'[f] >= spent'[f] + Held'[f] * Remaining'
    BY <1>3 DEF StartSelected, ledger
  <2>1. Held'[f] \in {Held[f], 0} /\ Remaining' = Remaining
    BY <1>3 DEF StartSelected, Held, Remaining, ledger
  <2>2. charge'[f] = charge[f] /\ spent'[f] = spent[f]
    BY <1>3 DEF StartSelected, ledger
  <2>3. Remaining \in Nat /\ Held[f] \in Nat
    BY HeldType DEF Remaining
  <2> QED
    BY <2>1, <2>2, <2>3, Products
<1>4. CASE StartDone
  <2>1. Held' = Held /\ Remaining' = Remaining
    BY <1>4 DEF StartDone, Held, Remaining, pools, ledger
  <2> QED
    BY <1>4, <2>1 DEF StartDone, pools, ledger
<1>5. CASE Sleep
  <2> SUFFICES ASSUME NEW f \in Fuzzers
               PROVE  /\ charge'[f] >= spent'[f] + Held'[f] * Remaining'
                      /\ f \in roundActive' => spent'[f] > 0
    BY <1>5 DEF Sleep
  <2>1. SleepStep \in Nat /\ SleepStep > 0
    BY <1>5, SleepStepPositive DEF Sleep
  <2>2. Held[f] \in Nat /\ Held'[f] = Held[f]
    BY <1>5, HeldType DEF Sleep, Held, pools
  <2>3. Remaining \in Int /\ Remaining' = Remaining - SleepStep
    BY <1>5, <2>1 DEF Sleep, Remaining
  <2>4. spent'[f] = spent[f] + Held[f] * SleepStep /\ charge'[f] = charge[f]
    BY <1>5 DEF Sleep
  <2>5. charge'[f] >= spent'[f] + Held'[f] * Remaining'
    BY <2>1, <2>2, <2>3, <2>4, Products
  <2>6. ASSUME f \in roundActive \ donated PROVE spent'[f] > 0
    <3>1. Held[f] > 0
      BY <1>5, <2>6 DEF Sleep, Held
    <3> QED
      BY <2>1, <2>2, <2>4, <3>1, Products
  <2>7. ASSUME f \in donated PROVE spent'[f] > 0
    <3>1. spent[f] > 0
      BY <2>7
    <3> QED
      BY <2>1, <2>2, <2>4, <3>1, Products
  <2> QED
    BY <1>5, <2>5, <2>6, <2>7 DEF Sleep
<1>6. CASE SleepOver
  <2>1. Held' = Held /\ Remaining' = Remaining
    BY <1>6 DEF SleepOver, Held, Remaining, pools, ledger
  <2> QED
    BY <1>6, <2>1 DEF SleepOver, pools, ledger
<1>7. CASE Poll
  <2>1. Held' = Held /\ Remaining' = Remaining
    BY <1>7 DEF Poll, Held, Remaining, pools, ledger
  <2> QED
    BY <1>7, <2>1 DEF Poll, pools, ledger
<1>8. ASSUME NEW w \in Rewards, StagnatedWindow(w) PROVE Ledger'
  <2>1. Held' = Held /\ Remaining' = Remaining
    BY <1>8 DEF StagnatedWindow, Held, Remaining, pools, ledger
  <2> QED
    BY <1>8, <2>1 DEF StagnatedWindow, pools, ledger
<1>9. ASSUME NEW w \in Rewards, NEW b \in 0..NumFuzzers, Window(w, b) PROVE Ledger'
  <2>1. Held' = Held /\ Remaining' = Remaining
    BY <1>9 DEF Window, Held, Remaining, pools, ledger
  <2> QED
    BY <1>9, <2>1 DEF Window, pools, ledger
<1>10. ASSUME NEW g \in Fuzzers, Reclaim(g) PROVE Ledger'
  <2> SUFFICES ASSUME NEW f \in Fuzzers
               PROVE  /\ charge'[f] >= spent'[f] + Held'[f] * Remaining'
                      /\ alloc'[f] > 0 => charge'[f] > 0
    BY <1>10 DEF Reclaim, Donate
  <2>1. Remaining \in Nat /\ Remaining' = Remaining
    BY <1>10 DEF Reclaim, Donate, Remaining
  <2>2. CASE f = g
    <3>1. Held[f] = accounting[f] /\ Held'[f] = 0
      BY <1>10, <2>2 DEF Reclaim, Donate, Held
    <3>2. charge'[f] = charge[f] - accounting[f] * Remaining /\ spent'[f] = spent[f]
      BY <1>10, <2>2 DEF Reclaim, Donate
    <3>3. spent[f] > 0
      BY <1>10, <2>2 DEF Reclaim, Donate
    <3> QED
      BY <2>1, <3>1, <3>2, <3>3, Products
  <2>3. CASE f # g
    BY <1>10, <2>1, <2>3 DEF Reclaim, Donate, Held
  <2> QED
    BY <2>2, <2>3
<1>11. CASE BoostOver
  <2>1. Held' = Held /\ Remaining' = Remaining
    BY <1>11 DEF BoostOver, Held, Remaining, pools, ledger
  <2> QED
    BY <1>11, <2>1 DEF BoostOver, pools, ledger
<1>12. ASSUME NEW r \in 0..(ResourceUnits + 1), Boost(r) PROVE Ledger'
  <2> SUFFICES ASSUME NEW f \in Fuzzers
               PROVE  /\ charge'[f] >= spent'[f] + Held'[f] * Remaining'
                      /\ alloc'[f] > 0 => charge'[f] > 0
    BY <1>12 DEF Boost, Grant
  <2>1. Remaining \in Nat /\ Remaining' = Remaining
    BY <1>12 DEF Boost, Grant, Remaining
  <2>2. CASE f = best
    <3>1. Held[f] = accounting[f] /\ Held'[f] \in {accounting[f], accounting[f] + reclaimed}
      BY <1>12, <2>2 DEF Boost, Grant, Held
    <3>2. charge'[f] = charge[f] + reclaimed * Remaining /\ spent'[f] = spent[f]
      BY <1>12, <2>2 DEF Boost, Grant
    <3>3. alloc'[f] = alloc[f]
      BY <1>12 DEF Boost, Grant
    <3> QED
      BY <2>1, <3>1, <3>2, <3>3, Products
  <2>3. CASE f # best
    BY <1>12, <2>1, <2>3 DEF Boost, Grant, Held
  <2> QED
    BY <2>2, <2>3
<1>13. CASE FinishRound
  <2> SUFFICES ASSUME NEW f \in Fuzzers
               PROVE  charge'[f] >= spent'[f] + Held'[f] * Remaining'
    BY <1>13 DEF FinishRound, ledger
  <2>1. Held'[f] \in {Held[f], 0} /\ Remaining' = Remaining
    BY <1>13 DEF FinishRound, Held, Remaining, ledger
  <2>2. charge'[f] = charge[f] /\ spent'[f] = spent[f]
    BY <1>13 DEF FinishRound, ledger
  <2>3. Remaining \in Nat /\ Held[f] \in Nat
    BY HeldType DEF Remaining
  <2> QED
    BY <2>1, <2>2, <2>3, Products
<1>14. CASE Evaluate
  <2>1. Held' = [f \in Fuzzers |-> 0] /\ Remaining' \in Int
    BY <1>14 DEF Evaluate, Held, Remaining, pools, ledger
  <2>2. \A f \in Fuzzers : Held'[f] * Remaining' = 0
    BY <2>1, Products
  <2> QED
    BY <1>14, <2>2 DEF Evaluate, Zero, pools, ledger
<1>15. ASSUME NEW g \in Fuzzers, Lose(g) PROVE Ledger'
  <2>1. Held' = Held /\ Remaining' = Remaining
    BY <1>15 DEF Lose, Held, Remaining, pools, ledger
  <2> QED
    BY <1>15, <2>1 DEF Lose, pools, ledger
<1>16. CASE UNCHANGED vars
  <2>1. Held' = Held /\ Remaining' = Remaining
    BY <1>16 DEF vars, Held, Remaining, pools, ledger
  <2> QED
    BY <1>16, <2>1 DEF vars, pools, ledger
<1> QED
  BY <1>1, <1>2, <1>3, <1>4, <1>5, <1>6, <1>7, <1>8, <1>9, <1>10, <1>11, <1>12, <1>13, <1>14, <1>15, <1>16 DEF Next, Main, Done

\* Round 0: the first resource_unit_number fuzzers get one unit each.
LEMMA PrimingTotal ==
  Total([f \in Fuzzers |-> IF f <= ResourceUnits THEN 1 ELSE 0]) <= ResourceUnits
<1> DEFINE t == [i \in 0..NumFuzzers |-> IF i <= ResourceUnits THEN i ELSE ResourceUnits]
           a == [f \in Fuzzers |-> IF f <= ResourceUnits THEN 1 ELSE 0]
<1>1. t \in [0..NumFuzzers -> Int] /\ t[0] = 0 /\ t[NumFuzzers] <= ResourceUnits
  BY Indices
<1>2. ASSUME NEW i \in Fuzzers PROVE t[i] = t[i - 1] + a[i]
  <2>1. /\ i \in Int /\ i > 0 /\ i \in 0..NumFuzzers /\ i - 1 \in 0..NumFuzzers
    BY Indices
  <2>2. CASE i <= ResourceUnits
    <3>1. t[i] = i /\ t[i - 1] = i - 1 /\ a[i] = 1
      BY <2>1, <2>2
    <3> QED
      BY <2>1, <3>1
  <2>3. CASE i > ResourceUnits
    <3>1. t[i] = ResourceUnits /\ t[i - 1] = ResourceUnits /\ a[i] = 0
      BY <2>1, <2>3
    <3> QED
      BY <3>1
  <2> QED
    BY <2>1, <2>2, <2>3
<1>3. a \in [Fuzzers -> Int]
  OBVIOUS
<1> HIDE DEF t, a
<1>4. IsTable(a, t)
  BY <1>1, <1>2 DEF IsTable
<1>5. Total(a) <= ResourceUnits
  BY <1>1, <1>3, <1>4, TotalOfTable
<1> QED
  BY <1>5 DEF a

\* A step that moves units between transit and one fuzzer keeps the budget.
LEMMA BudgetShift ==
  ASSUME NEW k \in Fuzzers,
         Held \in [Fuzzers -> Nat], Held' \in [Fuzzers -> Nat],
         reclaimed \in Nat, reclaimed' \in Nat,
         \A f \in Fuzzers : f # k => Held'[f] = Held[f],
         reclaimed' + Held'[k] <= reclaimed + Held[k],
         BudgetRespected
  PROVE  BudgetRespected'
<1>1. Held \in [Fuzzers -> Int] /\ Held' \in [Fuzzers -> Int] /\ Held[k] \in Int /\ Held'[k] \in Int
  OBVIOUS
<1>2. Total(Held') = Total(Held) + (Held'[k] - Held[k])
  BY <1>1, TotalShift
<1>3. Total(Held) \in Int /\ ResourceUnits \in Int
  BY <1>1, TotalInt
<1>4. reclaimed' + Total(Held') <= ResourceUnits
  BY <1>1, <1>2, <1>3 DEF BudgetRespected
<1> QED
  BY <1>4 DEF BudgetRespected

\* Every step keeps the units within the budget.
LEMMA BudgetStep == IInv /\ [Next]_vars => BudgetRespected'
<1> SUFFICES ASSUME IInv, [Next]_vars PROVE BudgetRespected'
  OBVIOUS
<1> USE DEF IInv, Types, Phases, InRound, Labels, Goto, BudgetRespected
<1>0. /\ Held \in [Fuzzers -> Nat] /\ Held' \in [Fuzzers -> Nat]
      /\ reclaimed \in Nat /\ reclaimed' \in Nat
  BY TypesStep DEF Held
<1>1. ASSUME NEW a \in [Fuzzers -> 0..ResourceUnits], BeginRound(a) PROVE BudgetRespected'
  <2>1. Held' = a /\ reclaimed' = 0
    BY <1>1 DEF BeginRound, Held, pools, ledger
  <2>2. CASE round = 0
    <3>1. a = [f \in Fuzzers |-> IF f <= ResourceUnits THEN 1 ELSE 0]
      BY <1>1, <2>2 DEF BeginRound, Allocation
    <3>2. Total(a) <= ResourceUnits
      BY <3>1, PrimingTotal
    <3>3. a \in [Fuzzers -> Int]
      OBVIOUS
    <3>4. Total(a) \in Int
      BY <3>3, TotalInt
    <3> QED
      BY <2>1, <3>2, <3>4
  <2>3. CASE round # 0
    <3>1. Total(a) = ResourceUnits
      BY <1>1, <2>3 DEF BeginRound, Allocation
    <3> QED
      BY <2>1, <3>1
  <2> QED
    BY <2>2, <2>3
<1>2. CASE SettleUnselected
  <2>1. Held' = Held /\ reclaimed' = reclaimed
    BY <1>2 DEF SettleUnselected, Held, pools, ledger
  <2> QED
    BY <2>1
<1>3. ASSUME NEW g \in Fuzzers, NEW r \in 0..(ResourceUnits + 1), StartSelected(g, r) PROVE BudgetRespected'
  <2>1. g \in Fuzzers
    BY <1>3
  <2>2. \A f \in Fuzzers : f # g => Held'[f] = Held[f]
    BY <1>3, <2>1 DEF StartSelected, Ensure, Held, pools, ledger
  <2>3. reclaimed' + Held'[g] <= reclaimed + Held[g]
    BY <1>3, <2>1 DEF StartSelected, Ensure, Held, pools, ledger
  <2> QED
    BY <1>0, <2>1, <2>2, <2>3, BudgetShift, Zenon
<1>4. CASE StartDone
  <2>1. Held' = Held /\ reclaimed' = reclaimed
    BY <1>4 DEF StartDone, Held, pools, ledger
  <2> QED
    BY <2>1
<1>5. CASE Sleep
  <2>1. Held' = Held /\ reclaimed' = reclaimed
    BY <1>5 DEF Sleep, Held, pools, ledger
  <2> QED
    BY <2>1
<1>6. CASE SleepOver
  <2>1. Held' = Held /\ reclaimed' = reclaimed
    BY <1>6 DEF SleepOver, Held, pools, ledger
  <2> QED
    BY <2>1
<1>7. CASE Poll
  <2>1. Held' = Held /\ reclaimed' = reclaimed
    BY <1>7 DEF Poll, Held, pools, ledger
  <2> QED
    BY <2>1
<1>8. ASSUME NEW w \in Rewards, StagnatedWindow(w) PROVE BudgetRespected'
  <2>1. Held' = Held /\ reclaimed' = reclaimed
    BY <1>8 DEF StagnatedWindow, Held, pools, ledger
  <2> QED
    BY <2>1
<1>9. ASSUME NEW w \in Rewards, NEW b \in 0..NumFuzzers, Window(w, b) PROVE BudgetRespected'
  <2>1. Held' = Held /\ reclaimed' = reclaimed
    BY <1>9 DEF Window, Held, pools, ledger
  <2> QED
    BY <2>1
<1>10. ASSUME NEW g \in Fuzzers, Reclaim(g) PROVE BudgetRespected'
  <2>1. g \in Fuzzers
    BY <1>10
  <2>2. \A f \in Fuzzers : f # g => Held'[f] = Held[f]
    BY <1>10, <2>1 DEF Reclaim, Donate, Held, pools, ledger
  <2>3. reclaimed' + Held'[g] <= reclaimed + Held[g]
    BY <1>10, <2>1 DEF Reclaim, Donate, Held, pools, ledger
  <2> QED
    BY <1>0, <2>1, <2>2, <2>3, BudgetShift, Zenon
<1>11. CASE BoostOver
  <2>1. best \in Fuzzers
    BY <1>11 DEF BoostOver
  <2>2. \A f \in Fuzzers : f # best => Held'[f] = Held[f]
    BY <1>11, <2>1 DEF BoostOver, Held, pools, ledger
  <2>3. reclaimed' + Held'[best] <= reclaimed + Held[best]
    BY <1>11, <2>1 DEF BoostOver, Held, pools, ledger
  <2> QED
    BY <1>0, <2>1, <2>2, <2>3, BudgetShift, Zenon
<1>12. ASSUME NEW r \in 0..(ResourceUnits + 1), Boost(r) PROVE BudgetRespected'
  <2>1. best \in Fuzzers
    BY <1>12 DEF Boost, Grant
  <2>2. \A f \in Fuzzers : f # best => Held'[f] = Held[f]
    BY <1>12, <2>1 DEF Boost, Grant, Ensure, Held, pools, ledger
  <2>3. reclaimed' + Held'[best] <= reclaimed + Held[best]
    BY <1>12, <2>1 DEF Boost, Grant, Ensure, Held, pools, ledger
  <2> QED
    BY <1>0, <2>1, <2>2, <2>3, BudgetShift, Zenon
<1>13. CASE FinishRound
  <2>1. Held' = [f \in Fuzzers |-> 0] /\ reclaimed' = 0
    BY <1>13 DEF FinishRound, Held, pools, ledger
  <2> QED
    BY <2>1, ZeroTotal
<1>14. CASE Evaluate
  <2>1. Held' = Held /\ reclaimed' = reclaimed
    BY <1>14 DEF Evaluate, Held, pools, ledger
  <2> QED
    BY <2>1
<1>15. ASSUME NEW g \in Fuzzers, Lose(g) PROVE BudgetRespected'
  <2>1. Held' = Held /\ reclaimed' = reclaimed
    BY <1>15 DEF Lose, Held, pools, ledger
  <2> QED
    BY <2>1
<1>16. CASE UNCHANGED vars
  <2>1. Held' = Held /\ reclaimed' = reclaimed
    BY <1>16 DEF vars, Held, pools, ledger
  <2> QED
    BY <2>1
<1> QED
  BY <1>1, <1>2, <1>3, <1>4, <1>5, <1>6, <1>7, <1>8, <1>9, <1>10, <1>11, <1>12, <1>13, <1>14, <1>15, <1>16 DEF Next, Main, Done

\* Every step keeps what runs within what is granted.
LEMMA GrantsStep == IInv /\ [Next]_vars => Grants'
<1> SUFFICES ASSUME IInv, [Next]_vars PROVE Grants'
  OBVIOUS
<1> USE DEF IInv, Types, Phases, InRound, Labels, Goto, Grants, RuntimeUnits
<1>1. ASSUME NEW a \in [Fuzzers -> 0..ResourceUnits], BeginRound(a) PROVE Grants'
  BY <1>1 DEF BeginRound, Zero, pools, ledger
<1>2. CASE SettleUnselected
  BY <1>2 DEF SettleUnselected, pools, ledger
<1>3. ASSUME NEW g \in Fuzzers, NEW r \in 0..(ResourceUnits + 1), StartSelected(g, r) PROVE Grants'
  BY <1>3 DEF StartSelected, Ensure, pools, ledger
<1>4. CASE StartDone
  BY <1>4 DEF StartDone, pools, ledger
<1>5. CASE Sleep
  BY <1>5 DEF Sleep, pools, ledger
<1>6. CASE SleepOver
  BY <1>6 DEF SleepOver, pools, ledger
<1>7. CASE Poll
  BY <1>7 DEF Poll, pools, ledger
<1>8. ASSUME NEW w \in Rewards, StagnatedWindow(w) PROVE Grants'
  BY <1>8 DEF StagnatedWindow, pools, ledger
<1>9. ASSUME NEW w \in Rewards, NEW b \in 0..NumFuzzers, Window(w, b) PROVE Grants'
  BY <1>9 DEF Window, pools, ledger
<1>10. ASSUME NEW g \in Fuzzers, Reclaim(g) PROVE Grants'
  BY <1>10 DEF Reclaim, Donate, pools, ledger
<1>11. CASE BoostOver
  BY <1>11 DEF BoostOver, pools, ledger
<1>12. ASSUME NEW r \in 0..(ResourceUnits + 1), Boost(r) PROVE Grants'
  BY <1>12 DEF Boost, Grant, Ensure, pools, ledger
<1>13. CASE FinishRound
  BY <1>13 DEF FinishRound, pools, ledger
<1>14. CASE Evaluate
  BY <1>14 DEF Evaluate, Zero, pools, ledger
<1>15. ASSUME NEW g \in Fuzzers, Lose(g) PROVE Grants'
  BY <1>15 DEF Lose, pools, ledger
<1>16. CASE UNCHANGED vars
  BY <1>16 DEF vars, pools, ledger
<1> QED
  BY <1>1, <1>2, <1>3, <1>4, <1>5, <1>6, <1>7, <1>8, <1>9, <1>10, <1>11, <1>12, <1>13, <1>14, <1>15, <1>16 DEF Next, Main, Done

\* The invariant holds initially.
LEMMA InitInvariant == Init => IInv
<1> SUFFICES ASSUME Init PROVE IInv
  OBVIOUS
<1> USE DEF Init
<1>1. Types
  BY DEF Types, Labels, Zero
<1>2. Phases
  BY DEF Phases, InRound, Zero
<1>3. Held = [f \in Fuzzers |-> 0]
  BY DEF Held
<1>4. Ledger
  BY <1>3 DEF Ledger, Remaining, Zero
<1>5. Grants
  BY DEF Grants, InRound, Zero
<1>6. BudgetRespected
  BY <1>3, ZeroTotal DEF BudgetRespected
<1> QED
  BY <1>1, <1>2, <1>4, <1>5, <1>6 DEF IInv

\* The invariant is inductive.
LEMMA StepInvariant == IInv /\ [Next]_vars => IInv'
BY TypesStep, PhasesStep, LedgerStep, GrantsStep, BudgetStep DEF IInv

(***************************************************************************)
(* The theorems.                                                           *)
(***************************************************************************)

\* run_one_round, in every campaign, stays within the inductive invariant.
THEOREM SchedulerInvariant == Spec => []IInv
BY InitInvariant, StepInvariant, PTL DEF Spec

\* A charge is at least what was spent, and spent is a number of unit-seconds.
LEMMA CoveredCharge == IInv => ChargedForWhatItHeld
<1> SUFFICES ASSUME IInv, NEW f \in Fuzzers
             PROVE  charge[f] >= spent[f] /\ (alloc[f] > 0 => charge[f] > 0)
  BY DEF ChargedForWhatItHeld
<1>1. Held[f] \in Nat /\ Remaining \in Nat /\ charge[f] \in Int /\ spent[f] \in Nat
  BY HeldType DEF IInv, Types, Remaining
<1>2. charge[f] >= spent[f] + Held[f] * Remaining /\ (alloc[f] > 0 => charge[f] > 0)
  BY DEF IInv, Ledger
<1>3. Held[f] * Remaining \in Nat
  BY <1>1, Products
<1> QED
  BY <1>1, <1>2, <1>3

\* Types are kept; in particular the subtractions that a donation makes from
\* accounted_selected_fuzzers never leave a negative charge.
THEOREM TypeCorrect == Spec => []TypeOK
<1>1. IInv => TypeOK
  BY CoveredCharge DEF IInv, Types, TypeOK, ChargedForWhatItHeld
<1> QED
  BY <1>1, SchedulerInvariant, PTL

\* Donations and boosts never hand out more than resource_unit_number units.
THEOREM BudgetTheorem == Spec => []BudgetRespected
<1>1. IInv => BudgetRespected
  BY DEF IInv
<1> QED
  BY <1>1, SchedulerInvariant, PTL

\* No fuzzer runs more than run_one_round granted it, at any moment.
THEOREM GrantTheorem == Spec => []RunsWithinGrant
<1>1. ASSUME IInv, NEW f \in Fuzzers PROVE running[f] <= RuntimeUnits(f, Held[f])
  <2>1. CASE f \in roundActive \ donated /\ InRound
    <3>1. f \notin pending
      BY <1>1, <2>1 DEF IInv, Phases
    <3>2. Held[f] = accounting[f]
      BY <2>1, <3>1 DEF Held
    <3> QED
      BY <1>1, <2>1, <3>2 DEF IInv, Grants
  <2>2. CASE ~(f \in roundActive \ donated /\ InRound)
    <3>1. running[f] = 0 /\ Held[f] \in Nat
      BY <1>1, <2>2, HeldType DEF IInv, Grants
    <3> QED
      BY <3>1 DEF RuntimeUnits
  <2> QED
    BY <2>1, <2>2
<1>2. IInv => RunsWithinGrant
  BY <1>1 DEF RunsWithinGrant
<1> QED
  BY <1>2, SchedulerInvariant, PTL

\* accounted_selected_fuzzers covers the unit-seconds a fuzzer held.
THEOREM ChargeTheorem == Spec => []ChargedForWhatItHeld
BY CoveredCharge, SchedulerInvariant, PTL

\* best_index, when units are reclaimed for it, is a fuzzer that keeps its own.
THEOREM BestTheorem == Spec => []BestIsNoDonor
<1>1. IInv => BestIsNoDonor
  BY DEF IInv, Phases, BestIsNoDonor
<1> QED
  BY <1>1, SchedulerInvariant, PTL

\* evaluate_all and the synchronization run while no worker does.
THEOREM QuiescenceTheorem == Spec => []QuiescentWhenEvaluating
<1>1. IInv => QuiescentWhenEvaluating
  BY DEF IInv, Grants, InRound, QuiescentWhenEvaluating
<1> QED
  BY <1>1, SchedulerInvariant, PTL

\* A step charges a donor nothing and gives it nothing back in its round.
LEMMA DonorStep ==
  ASSUME IInv, IInv', [Next]_vars
  PROVE  \A f \in donated : f \in donated' =>
           /\ f \notin active' /\ running'[f] = 0
           /\ charge'[f] = charge[f]
<1> SUFFICES ASSUME NEW f \in donated, f \in donated'
             PROVE  f \notin active' /\ running'[f] = 0 /\ charge'[f] = charge[f]
  OBVIOUS
<1>0. f \in Fuzzers /\ f \notin active' /\ running'[f] = 0
  BY DEF IInv, Types, Phases
<1>1. CASE charge' = charge
  BY <1>0, <1>1
<1>2. ASSUME NEW a \in [Fuzzers -> 0..ResourceUnits], BeginRound(a) PROVE charge'[f] = charge[f]
  BY <1>2 DEF BeginRound
<1>3. ASSUME NEW g \in Fuzzers, Reclaim(g) PROVE charge'[f] = charge[f]
  <2>1. f # g
    BY <1>3 DEF Reclaim, Donate, IInv, Phases
  <2> QED
    BY <1>0, <1>3, <2>1 DEF Reclaim, Donate, IInv, Types
<1>4. ASSUME NEW r \in 0..(ResourceUnits + 1), Boost(r) PROVE charge'[f] = charge[f]
  <2>1. f # best
    BY <1>4 DEF Boost, Grant, IInv, Phases
  <2> QED
    BY <1>0, <1>4, <2>1 DEF Boost, Grant, IInv, Types
<1>5. \/ charge' = charge
      \/ \E a \in [Fuzzers -> 0..ResourceUnits] : BeginRound(a)
      \/ \E g \in Fuzzers : Reclaim(g)
      \/ \E r \in 0..(ResourceUnits + 1) : Boost(r)
  BY DEF Next, Main, Done, SettleUnselected, StartSelected, StartDone, Sleep, SleepOver, Poll,
         StagnatedWindow, Window, BoostOver, FinishRound, Evaluate, Lose, vars, ledger
<1> QED
  BY <1>0, <1>1, <1>2, <1>3, <1>4, <1>5

\* A donor stays out for the rest of the round, whatever the later windows do.
THEOREM DonorTheorem == Spec => DonorsStayOut
<1>1. IInv /\ IInv' /\ [Next]_vars =>
        [\A f \in donated : f \in donated' =>
           /\ f \notin active' /\ running'[f] = 0
           /\ charge'[f] = charge[f]]_vars
  BY DonorStep
<1> QED
  BY <1>1, SchedulerInvariant, PTL DEF Spec, DonorsStayOut

(***************************************************************************)
(* Charge moves and is neither created nor lost.  Between the first        *)
(* donation and the boost the rest of the round that was taken from the    *)
(* donors is in transit with their units.                                  *)
(***************************************************************************)

Conserved == Total(charge) + reclaimed * Remaining = RoundTime * Total(alloc)

LEMMA ConservedTypes ==
  ASSUME Types
  PROVE  /\ Total(charge) \in Int /\ Total(alloc) \in Int
         /\ reclaimed \in Int /\ Remaining \in Int /\ RoundTime \in Int
<1>1. charge \in [Fuzzers -> Int] /\ alloc \in [Fuzzers -> Int]
  BY DEF Types
<1> QED
  BY <1>1, TotalInt DEF Types, Remaining

\* Nothing is in transit, before and after a step that leaves the charges alone.
LEMMA KeepsConserved ==
  ASSUME IInv, Types', Conserved, UNCHANGED <<charge, alloc>>,
         \/ UNCHANGED <<reclaimed, elapsed>>
         \/ (reclaimed = 0 \/ Remaining = 0) /\ reclaimed' = 0
  PROVE  Conserved'
<1>1. /\ Total(charge) \in Int /\ reclaimed \in Int /\ Remaining \in Int
      /\ reclaimed' \in Int /\ Remaining' \in Int
  <2>1. Types
    BY DEF IInv
  <2>2. reclaimed' \in Int /\ Remaining' \in Int
    BY DEF Types, Remaining
  <2> QED
    BY <2>1, <2>2, ConservedTypes
<1>2. Total(charge)' = Total(charge) /\ Total(alloc)' = Total(alloc)
  OBVIOUS
<1>3. CASE UNCHANGED <<reclaimed, elapsed>>
  <2>1. Remaining' = Remaining
    BY <1>3 DEF Remaining
  <2> QED
    BY <1>2, <1>3, <2>1 DEF Conserved
<1>4. CASE (reclaimed = 0 \/ Remaining = 0) /\ reclaimed' = 0
  <2>1. reclaimed * Remaining = 0 /\ reclaimed' * Remaining' = 0
    BY <1>1, <1>4, TimesZero
  <2> QED
    BY <1>1, <1>2, <2>1 DEF Conserved
<1> QED
  BY <1>3, <1>4

LEMMA ConservedStep == IInv /\ IInv' /\ Conserved /\ [Next]_vars => Conserved'
<1> SUFFICES ASSUME IInv, IInv', Conserved, [Next]_vars PROVE Conserved'
  OBVIOUS
<1> USE DEF Goto
<1>t. Types /\ Types'
  BY DEF IInv
<1>i. /\ Total(charge) \in Int /\ Total(alloc) \in Int /\ reclaimed \in Int /\ Remaining \in Int
      /\ RoundTime \in Int /\ charge \in [Fuzzers -> Int] /\ charge' \in [Fuzzers -> Int]
      /\ accounting \in [Fuzzers -> Nat]
  BY <1>t, ConservedTypes DEF Types
<1>p. pc \notin {"reclaim", "boost"} => reclaimed = 0
  BY DEF IInv, Phases
<1>1. ASSUME NEW a \in [Fuzzers -> 0..ResourceUnits], BeginRound(a) PROVE Conserved'
  <2>1. charge' = [f \in Fuzzers |-> a[f] * RoundTime] /\ alloc' = a /\ reclaimed' = 0
    BY <1>1 DEF BeginRound
  <2>2. a \in [Fuzzers -> Int]
    OBVIOUS
  <2>3. Total(charge') = Total(a) * RoundTime
    BY <1>i, <2>1, <2>2, TotalScale
  <2>4. Total(a) \in Int /\ Remaining' \in Int
    <3>1. Remaining' \in Int
      BY <1>t DEF Types, Remaining
    <3> QED
      BY <2>2, <3>1, TotalInt
  <2>5. Total(a) * RoundTime + 0 * Remaining' = RoundTime * Total(a)
    BY <1>i, <2>4
  <2> QED
    BY <2>1, <2>3, <2>5 DEF Conserved
<1>2. ASSUME NEW g \in Fuzzers, Reclaim(g) PROVE Conserved'
  <2> DEFINE c == accounting[g] * Remaining
  <2>1. /\ charge' = [charge EXCEPT ![g] = @ - c] /\ reclaimed' = reclaimed + accounting[g]
        /\ UNCHANGED <<alloc, elapsed>>
    BY <1>2 DEF Reclaim, Donate
  <2>2. Remaining' = Remaining /\ accounting[g] \in Int /\ c \in Int /\ charge[g] \in Int
    BY <1>i, <2>1, Distributes DEF Remaining
  <2>3. (reclaimed + accounting[g]) * Remaining = reclaimed * Remaining + c
    BY <1>i, <2>2, Distributes
  <2>m. reclaimed * Remaining \in Int
    BY <1>i, Distributes
  <2> HIDE DEF c
  <2>4. (\A f \in Fuzzers : f # g => charge'[f] = charge[f]) /\ charge'[g] = charge[g] - c
    BY <1>i, <2>1
  <2>5. Total(charge') = Total(charge) + (charge'[g] - charge[g])
    BY <1>i, <2>4, TotalShift
  <2>6. Total(charge') = Total(charge) - c
    BY <1>i, <2>2, <2>4, <2>5
  <2>7. Total(charge') + (reclaimed * Remaining + c) = Total(charge) + reclaimed * Remaining
    BY <1>i, <2>2, <2>m, <2>6
  <2> QED
    BY <2>1, <2>2, <2>3, <2>7 DEF Conserved
<1>3. ASSUME NEW r \in 0..(ResourceUnits + 1), Boost(r) PROVE Conserved'
  <2> DEFINE c == reclaimed * Remaining
  <2>1. /\ charge' = [charge EXCEPT ![best] = @ + c] /\ reclaimed' = 0
        /\ UNCHANGED <<alloc, elapsed>> /\ pc = "boost"
    BY <1>3 DEF Boost, Grant
  <2>2. best \in Fuzzers
    BY <2>1 DEF IInv, Types, Phases
  <2>3. Remaining' = Remaining /\ c \in Int /\ charge[best] \in Int
    BY <1>i, <2>1, <2>2, Distributes DEF Remaining
  <2>c. Total(charge) + c = RoundTime * Total(alloc)
    BY DEF Conserved
  <2> HIDE DEF c
  <2>4. (\A f \in Fuzzers : f # best => charge'[f] = charge[f]) /\ charge'[best] = charge[best] + c
    BY <1>i, <2>1, <2>2
  <2>5. Total(charge') = Total(charge) + (charge'[best] - charge[best])
    BY <1>i, <2>2, <2>4, TotalShift
  <2>6. Total(charge') + 0 * Remaining = Total(charge) + c
    BY <1>i, <2>3, <2>4, <2>5
  <2> QED
    BY <2>1, <2>3, <2>c, <2>6 DEF Conserved
<1>4. CASE Evaluate
  <2>1. charge' = Zero /\ alloc' = Zero /\ reclaimed' = 0
    BY <1>4 DEF Evaluate
  <2>2. Total(charge') = 0 /\ Total(alloc') = 0
    BY <2>1, ZeroTotal DEF Zero
  <2>3. Remaining' \in Int
    BY <1>t DEF Types, Remaining
  <2>4. 0 * Remaining' = 0 /\ RoundTime * 0 = 0
    BY <1>i, <2>3, TimesZero
  <2>5. Total(charge') + reclaimed' * Remaining' = RoundTime * Total(alloc')
    BY <2>1, <2>2, <2>4
  <2> QED
    BY <2>5 DEF Conserved
<1>5. CASE \/ SettleUnselected \/ StartDone \/ Sleep \/ SleepOver \/ Poll \/ BoostOver \/ FinishRound
           \/ \E f \in Fuzzers, r \in 0..(ResourceUnits + 1) : StartSelected(f, r)
           \/ \E w \in Rewards : StagnatedWindow(w) \/ \E b \in 0..NumFuzzers : Window(w, b)
           \/ \E f \in Fuzzers : Lose(f)
           \/ UNCHANGED vars
  <2>1. /\ UNCHANGED <<charge, alloc>>
        /\ \/ UNCHANGED <<reclaimed, elapsed>>
           \/ (reclaimed = 0 \/ Remaining = 0) /\ reclaimed' = 0
    BY <1>5, <1>p DEF SettleUnselected, StartDone, Sleep, SleepOver, Poll, BoostOver, FinishRound,
                      StartSelected, StagnatedWindow, Window, Lose, vars, ledger
  <2> QED
    BY <1>t, <2>1, KeepsConserved
<1> QED
  BY <1>1, <1>2, <1>3, <1>4, <1>5 DEF Next, Main, Done

\* Whatever is donated and boosted, by whom and when: outside a transfer the
\* charges of a round add up to its units times the round time.
THEOREM ConservationTheorem == Spec => []ChargeIsConserved
<1>1. Init => Conserved
  <2> SUFFICES ASSUME Init PROVE Conserved
    OBVIOUS
  <2>1. Total(charge) = 0 /\ Total(alloc) = 0 /\ reclaimed = 0 /\ elapsed = 0
    BY ZeroTotal DEF Init, Zero
  <2> QED
    BY <2>1 DEF Conserved, Remaining
<1>2. IInv /\ Conserved => ChargeIsConserved
  <2> SUFFICES ASSUME IInv, Conserved, reclaimed = 0
               PROVE  Total(charge) = RoundTime * Total(alloc)
    BY DEF ChargeIsConserved
  <2>1. Total(charge) \in Int /\ reclaimed * Remaining = 0
    BY ConservedTypes DEF IInv
  <2> QED
    BY <2>1 DEF Conserved
<1> QED
  BY <1>1, <1>2, InitInvariant, StepInvariant, ConservedStep, PTL DEF Spec
=============================================================================
