-------------------------- MODULE StopGroupProofs --------------------------
(***************************************************************************)
(* What a pause, a resume and a stop have reached when they return, for    *)
(* process trees of any size, any number of calls and any number of turns  *)
(* of the loop that waits for SIGTERM to work.                             *)
(***************************************************************************)
EXTENDS StopGroup, SequenceTheorems, TLAPS

Status == {"unborn", "running", "stopped", "zombie", "gone"}

\* The processes: what is in the group, under the label or a parent was forked.
ProcsOK ==
  /\ status \in [Procs -> Status] /\ parent \in [Procs -> 0..NumProcs]
  /\ inGroup \subseteq Procs /\ labelled \subseteq Procs /\ stubborn \subseteq Procs
  /\ termPending \subseteq Procs /\ \A p \in termPending : status[p] = "stopped"
  /\ Root \in inGroup /\ \A p \in inGroup \cup labelled : status[p] # "unborn"
  /\ \A p \in Procs : parent[p] \in Procs => status[parent[p]] # "unborn"

\* The call: pids that were scanned are signalled by the operation that scanned.
CallOK ==
  /\ call \in {"none", "pause", "resume", "stop"} /\ last \in {"none", "pause", "resume", "stop"}
  /\ pos \in Nat /\ pos <= Len(Program(call)) + 1
  /\ snap \subseteq Procs /\ known \subseteq Procs /\ scanned \in BOOLEAN
  /\ births \in Nat /\ late \in Nat /\ calls \in 0..MaxCalls
  /\ rootFinished \in BOOLEAN /\ (rootFinished => status[Root] = "gone")
  /\ call \in {"pause", "resume"} => ~rootFinished
  /\ call # "none" => last = "none" /\ pos >= 1
  /\ scanned => Current("tree") \/ Current("label")

(***************************************************************************)
(* A pause.  The group is stopped by one system call.  If nothing is       *)
(* forked until the first pass over the tree is over, the tree is stopped; *)
(* if one process is, nothing is forked during the second pass, or what is *)
(* does not belong to the tree.                                            *)
(***************************************************************************)

GroupStopped == \A p \in inGroup \cap Alive : status[p] = "stopped"
TreeStopped  == status[Root] = "stopped" => \A p \in Tree : status[p] = "stopped"

Pausing ==
  /\ (call = "pause" /\ pos >= 3) \/ last = "pause" => GroupStopped
  /\ call = "pause" /\ pos = 3 /\ scanned /\ births = 0 => Tree \subseteq snap
  /\ call = "pause" /\ pos = 4 /\ births = 0 => TreeStopped
  /\ call = "pause" /\ pos = 4 /\ scanned /\ births <= 1 => TreeStopped \/ Tree \subseteq snap
  /\ (call = "pause" /\ pos = 5) \/ last = "pause" => (births <= 1 => TreeStopped)

(***************************************************************************)
(* A resume.  Nothing stops while it runs, so one pass reaches the tree.   *)
(***************************************************************************)

Asleep(S) == {p \in S : status[p] = "stopped"}

Resuming ==
  /\ (call = "resume" /\ pos >= 3) \/ last = "resume" => Asleep(inGroup) = {}
  /\ call = "resume" /\ pos = 3 /\ scanned => Asleep(Tree) \subseteq snap
  /\ (call = "resume" /\ pos >= 4) \/ last = "resume" => Asleep(Tree) = {}

(***************************************************************************)
(* A stop.  The scan by label and SIGKILL leave nothing, and a process     *)
(* with the label is only forked by another one.                           *)
(***************************************************************************)

\* The operations before SIGKILL.
Before == Len(WakePhase \o TermPhase)

Stopping ==
  /\ call = "stop" /\ pos = Before + 3 /\ scanned /\ births = 0 => Label \subseteq snap
  /\ call = "stop" /\ pos >= Before + 4 /\ births = 0 => Label = {}
  /\ call = "stop" /\ pos >= Before + 6 => status[Root] = "gone"
  /\ StopIsComplete

(***************************************************************************)
(* A stop of a worker that obeys SIGTERM.  Once it has been woken it stays *)
(* awake, the root dies with the signal to its group, and whatever has the *)
(* label when a scan by label looks dies with the signals to what was      *)
(* found.  So a check that does not return has found a process that was    *)
(* forked since the last scan: late counts at least one for every turn.    *)
(***************************************************************************)

Obedient == call = "stop" /\ stubborn = {}

Awake ==
  Obedient =>
    /\ pos >= 4 => status[Root] # "stopped"
    /\ pos = 5 /\ scanned => Asleep(Label) \subseteq snap
    /\ pos >= 6 => Asleep(Label) = {}
    /\ pos >= 12 => Root \notin Alive
    /\ pos >= 16 => rootFinished

Dwindling ==
  Obedient =>
    /\ pos = 17 /\ scanned => Label \subseteq snap \/ late >= 1
    /\ pos = 18 => Label = {} \/ late >= 1
    /\ \A i \in 0..MaxWaits :
         pos \in (4 * i + 19)..(4 * i + 21) /\ pos <= Before => late >= i /\ (Label = {} \/ late >= i + 1)
    /\ \A i \in 0..(MaxWaits - 1) :
         pos = 4 * i + 22 => late >= i + 1 /\ (scanned => Label \subseteq snap \/ late >= i + 2)
    /\ pos > Before => late >= MaxWaits

IInv == ProcsOK /\ CallOK /\ Pausing /\ Resuming /\ Stopping /\ Awake /\ Dwindling

(***************************************************************************)
(* The programs.                                                           *)
(***************************************************************************)

\* The operations of a stop: it stops nobody.
Targets == {"reap", "check", "group", "tree", "label", "known", "wait"}
Signals == {"", "CONT", "TERM", "KILL"}
Ops     == [on : Targets, sig : Signals]

LEMMA OpFacts ==
  /\ \A a \in Targets, b \in Signals : Op(a, b) \in Ops
  /\ \A a, b : Op(a, b).on = a /\ Op(a, b).sig = b
BY DEF Op, Ops

\* n turns of four operations.
Turns(R, n, a, b, c, d) ==
  /\ R \in Seq(Ops) /\ Len(R) = 4 * n
  /\ \A i \in 0..(n - 1) : /\ R[4 * i + 1] = a /\ R[4 * i + 2] = b
                           /\ R[4 * i + 3] = c /\ R[4 * i + 4] = d

LEMMA RepeatFacts ==
  ASSUME NEW n \in Nat, NEW a \in Ops, NEW b \in Ops, NEW c \in Ops, NEW d \in Ops
  PROVE  Turns(Repeat(n, <<a, b, c, d>>), n, a, b, c, d)
<1> DEFINE ops == <<a, b, c, d>>
<1>1. /\ Len(ops) = 4 /\ \A i \in 1..4 : ops[i] \in Ops
      /\ ops[1] = a /\ ops[2] = b /\ ops[3] = c /\ ops[4] = d
  OBVIOUS
<1>2. n * 4 \in Nat /\ n * 4 = 4 * n
  OBVIOUS
<1>3. \A i \in 1..(n * 4) : ((i - 1) % 4) + 1 \in 1..4
  BY <1>2
<1> HIDE DEF ops
<1>4. Repeat(n, ops) = [i \in 1..(n * 4) |-> ops[((i - 1) % 4) + 1]]
  BY <1>1 DEF Repeat
<1>5. Repeat(n, ops) \in [1..(n * 4) -> Ops]
  BY <1>1, <1>3, <1>4
<1>6. Repeat(n, ops) \in Seq(Ops)
  BY <1>2, <1>5
<1>7. Len(Repeat(n, ops)) = 4 * n
  BY <1>2, <1>5, <1>6
<1>8. ASSUME NEW i \in 0..(n - 1)
      PROVE  /\ Repeat(n, ops)[4 * i + 1] = a /\ Repeat(n, ops)[4 * i + 2] = b
             /\ Repeat(n, ops)[4 * i + 3] = c /\ Repeat(n, ops)[4 * i + 4] = d
  <2>1. \A k \in 1..4 : 4 * i + k \in 1..(n * 4) /\ ((4 * i + k - 1) % 4) + 1 = k
    OBVIOUS
  <2>2. \A k \in 1..4 : Repeat(n, ops)[4 * i + k] = ops[k]
    BY <1>4, <2>1
  <2> QED
    BY <1>1, <2>2
<1> QED
  BY <1>6, <1>7, <1>8 DEF ops, Turns

\* st is s, of length m, followed by t, of length n.
IsJoined(st, s, t, m, n) ==
  /\ st \in Seq(Ops) /\ Len(st) = m + n
  /\ \A i \in 1..m : st[i] = s[i]
  /\ \A i \in 1..n : st[m + i] = t[i]

LEMMA Joined ==
  ASSUME NEW s \in Seq(Ops), NEW t \in Seq(Ops), NEW m \in Nat, NEW n \in Nat, Len(s) = m, Len(t) = n
  PROVE  IsJoined(s \o t, s, t, m, n)
<1>1. /\ s \o t \in Seq(Ops) /\ Len(s \o t) = Len(s) + Len(t)
      /\ \A i \in 1 .. Len(s) + Len(t) : (s \o t)[i] = IF i <= Len(s) THEN s[i] ELSE t[i - Len(s)]
  BY ConcatProperties
<1>2. \A i \in 1 .. m + n : (s \o t)[i] = IF i <= m THEN s[i] ELSE t[i - m]
  BY <1>1
<1>3. \A i \in 1..m : i \in 1 .. m + n /\ i <= m
  OBVIOUS
<1>4. \A i \in 1..n : m + i \in 1 .. m + n /\ ~(m + i <= m) /\ (m + i) - m = i
  OBVIOUS
<1> QED
  BY <1>1, <1>2, <1>3, <1>4 DEF IsJoined

\* A pause and a resume: the same four operations with another signal.
SignalOf(c) == IF c = "pause" THEN "STOP" ELSE "CONT"

LEMMA PassProgram ==
  ASSUME NEW c \in {"pause", "resume"}
  PROVE  /\ Len(Program(c)) = 4
         /\ Program(c)[1].on = "reapOrFail"
         /\ Program(c)[2] = Op("group", SignalOf(c))
         /\ Program(c)[3] = Op("tree", SignalOf(c)) /\ Program(c)[4] = Op("tree", SignalOf(c))
<1>1. CASE c = "pause"
  BY <1>1, OpFacts DEF Program, PauseProgram, SignalOf
<1>2. CASE c = "resume"
  BY <1>2, OpFacts DEF Program, ResumeProgram, SignalOf
<1> QED
  BY <1>1, <1>2

\* The positions of a stop: 1 reap, 2 check; 3 to 10 wake the worker; 11 SIGTERM
\* to the group; 12 to 19 SIGTERM to the tree, the label and what is known,
\* twice; then turns of four, the loop; at last SIGKILL, and waitpid.
LEMMA StopProgram ==
  /\ Before = 19 + 4 * MaxWaits /\ Before \in Nat /\ Len(WakePhase) = 10
  /\ Len(Program("stop")) = Before + 5
  /\ \A i \in 1..(Before + 5) : Program("stop")[i] \in Ops
  /\ Program("stop")[3] = Op("group", "CONT") /\ Program("stop")[5] = Op("label", "CONT")
  /\ Program("stop")[11] = Op("group", "TERM") /\ Program("stop")[15] = Op("reap", "")
  /\ Program("stop")[17] = Op("label", "TERM")
  /\ \A i \in 0..(MaxWaits - 1) : /\ Program("stop")[4 * i + 21] = Op("check", "")
                                  /\ Program("stop")[4 * i + 22] = Op("label", "TERM")
  /\ Program("stop")[Before + 3] = Op("label", "KILL")
  /\ Program("stop")[Before + 5] = Op("wait", "")
<1>1. MaxWaits \in Nat /\ 2 \in Nat
  BY StopGroupAssumption
<1>2. Op("reap", "") \in Ops /\ Op("check", "") \in Ops /\ Op("wait", "") \in Ops
  BY OpFacts DEF Targets, Signals
<1>3. /\ Op("group", "CONT") \in Ops /\ Op("tree", "CONT") \in Ops /\ Op("label", "CONT") \in Ops
      /\ Op("group", "TERM") \in Ops /\ Op("tree", "TERM") \in Ops /\ Op("label", "TERM") \in Ops
      /\ Op("known", "TERM") \in Ops
      /\ Op("group", "KILL") \in Ops /\ Op("tree", "KILL") \in Ops /\ Op("label", "KILL") \in Ops
      /\ Op("known", "KILL") \in Ops
  BY OpFacts DEF Targets, Signals
<1> DEFINE A == <<Op("reap", ""), Op("check", "")>>
           B == Repeat(2, <<Op("group", "CONT"), Op("tree", "CONT"), Op("label", "CONT"), Op("reap", "")>>)
           T == <<Op("group", "TERM")>>
           C == Repeat(2, <<Op("tree", "TERM"), Op("label", "TERM"), Op("known", "TERM"), Op("reap", "")>>)
           D == Repeat(MaxWaits, <<Op("reap", ""), Op("check", ""), Op("label", "TERM"), Op("known", "TERM")>>)
<1>4. B \in Seq(Ops) /\ Len(B) = 8 /\ B[1] = Op("group", "CONT") /\ B[3] = Op("label", "CONT")
  <2>1. Turns(B, 2, Op("group", "CONT"), Op("tree", "CONT"), Op("label", "CONT"), Op("reap", ""))
    BY <1>1, <1>2, <1>3, RepeatFacts
  <2> HIDE DEF B
  <2>2. 0 \in 0..(2 - 1) /\ 4 * 0 + 1 = 1 /\ 4 * 0 + 3 = 3 /\ 4 * 2 = 8
    OBVIOUS
  <2>3. B[4 * 0 + 1] = Op("group", "CONT") /\ B[4 * 0 + 3] = Op("label", "CONT")
    BY <2>1, <2>2 DEF Turns
  <2> QED
    BY <2>1, <2>2, <2>3 DEF Turns
<1>5. C \in Seq(Ops) /\ Len(C) = 8 /\ C[4] = Op("reap", "") /\ C[6] = Op("label", "TERM")
  <2>1. Turns(C, 2, Op("tree", "TERM"), Op("label", "TERM"), Op("known", "TERM"), Op("reap", ""))
    BY <1>1, <1>2, <1>3, RepeatFacts
  <2> HIDE DEF C
  <2>2. /\ 0 \in 0..(2 - 1) /\ 4 * 0 + 4 = 4 /\ 4 * 2 = 8
        /\ 1 \in 0..(2 - 1) /\ 4 * 1 + 2 = 6
    OBVIOUS
  <2>3. C[4 * 0 + 4] = Op("reap", "") /\ C[4 * 1 + 2] = Op("label", "TERM")
    BY <2>1, <2>2 DEF Turns
  <2> QED
    BY <2>1, <2>2, <2>3 DEF Turns
<1>6. /\ D \in Seq(Ops) /\ Len(D) = 4 * MaxWaits
      /\ \A i \in 0..(MaxWaits - 1) : D[4 * i + 2] = Op("check", "") /\ D[4 * i + 3] = Op("label", "TERM")
  <2>1. Turns(D, MaxWaits, Op("reap", ""), Op("check", ""), Op("label", "TERM"), Op("known", "TERM"))
    BY <1>1, <1>2, <1>3, RepeatFacts
  <2> HIDE DEF D
  <2> QED
    BY <2>1 DEF Turns
<1>7. A \in Seq(Ops) /\ Len(A) = 2 /\ T \in Seq(Ops) /\ Len(T) = 1 /\ T[1] = Op("group", "TERM")
  <2>1. \A a, b \in Ops : /\ <<a, b>> \in Seq(Ops) /\ Len(<<a, b>>) = 2
                          /\ <<a>> \in Seq(Ops) /\ Len(<<a>>) = 1 /\ <<a>>[1] = a
    OBVIOUS
  <2> QED
    BY <1>2, <1>3, <2>1
<1>8. WakePhase = A \o B /\ TermPhase = (T \o C) \o D
  BY DEF WakePhase, TermPhase
<1> HIDE DEF A, B, C, D, T
<1>9. /\ WakePhase \in Seq(Ops) /\ Len(WakePhase) = 10
      /\ WakePhase[3] = Op("group", "CONT") /\ WakePhase[5] = Op("label", "CONT")
  <2>1. 2 \in Nat /\ 8 \in Nat /\ 1 \in 1..8 /\ 3 \in 1..8 /\ 2 + 1 = 3 /\ 2 + 3 = 5 /\ 2 + 8 = 10
    OBVIOUS
  <2>2. IsJoined(A \o B, A, B, 2, 8)
    BY <1>4, <1>7, <2>1, Joined
  <2>3. (A \o B)[2 + 1] = B[1] /\ (A \o B)[2 + 3] = B[3]
    BY <2>1, <2>2 DEF IsJoined
  <2> QED
    BY <1>4, <1>8, <2>1, <2>2, <2>3 DEF IsJoined
<1>10. /\ TermPhase \in Seq(Ops) /\ Len(TermPhase) = 9 + 4 * MaxWaits
       /\ TermPhase[1] = Op("group", "TERM") /\ TermPhase[5] = Op("reap", "")
       /\ TermPhase[7] = Op("label", "TERM")
       /\ \A i \in 0..(MaxWaits - 1) : /\ TermPhase[9 + (4 * i + 2)] = Op("check", "")
                                       /\ TermPhase[9 + (4 * i + 3)] = Op("label", "TERM")
  <2> DEFINE E == T \o C
  <2>1. /\ 1 \in Nat /\ 8 \in Nat /\ 9 \in Nat /\ 4 * MaxWaits \in Nat
        /\ 1 \in 1..1 /\ 4 \in 1..8 /\ 6 \in 1..8 /\ 1 \in 1..9 /\ 5 \in 1..9 /\ 7 \in 1..9
        /\ 1 + 4 = 5 /\ 1 + 6 = 7 /\ 1 + 8 = 9
    BY <1>1
  <2>2. IsJoined(E, T, C, 1, 8)
    BY <1>5, <1>7, <2>1, Joined
  <2>3. TermPhase = E \o D
    BY <1>8
  <2> HIDE DEF E
  <2>4. E[1 + 4] = C[4] /\ E[1 + 6] = C[6] /\ E[1] = T[1]
    BY <2>1, <2>2 DEF IsJoined
  <2>5. E \in Seq(Ops) /\ Len(E) = 9 /\ E[1] = T[1] /\ E[5] = C[4] /\ E[7] = C[6]
    BY <2>1, <2>2, <2>4 DEF IsJoined
  <2>6. IsJoined(E \o D, E, D, 9, 4 * MaxWaits)
    BY <1>6, <2>1, <2>5, Joined
  <2>7. \A i \in 0..(MaxWaits - 1) : 4 * i + 2 \in 1..(4 * MaxWaits) /\ 4 * i + 3 \in 1..(4 * MaxWaits)
    BY <1>1
  <2>8. TermPhase[1] = Op("group", "TERM") /\ TermPhase[5] = Op("reap", "") /\ TermPhase[7] = Op("label", "TERM")
    BY <1>5, <1>7, <2>1, <2>3, <2>5, <2>6 DEF IsJoined
  <2>9. \A i \in 0..(MaxWaits - 1) : /\ TermPhase[9 + (4 * i + 2)] = Op("check", "")
                                     /\ TermPhase[9 + (4 * i + 3)] = Op("label", "TERM")
    BY <1>6, <2>3, <2>6, <2>7 DEF IsJoined
  <2> QED
    BY <2>3, <2>6, <2>8, <2>9 DEF IsJoined
<1>11. /\ KillPhase \in Seq(Ops) /\ Len(KillPhase) = 5
       /\ KillPhase[3] = Op("label", "KILL") /\ KillPhase[5] = Op("wait", "")
  <2> DEFINE a == Op("group", "KILL")
             b == Op("tree", "KILL")
             c == Op("label", "KILL")
             d == Op("known", "KILL")
             e == Op("wait", "")
  <2>1. a \in Ops /\ b \in Ops /\ c \in Ops /\ d \in Ops /\ e \in Ops
    BY <1>2, <1>3
  <2>2. KillPhase = <<a, b, c, d, e>>
    BY DEF KillPhase
  <2> HIDE DEF a, b, c, d, e
  <2>3. <<a, b, c, d, e>> \in Seq(Ops) /\ Len(<<a, b, c, d, e>>) = 5
        /\ <<a, b, c, d, e>>[3] = c /\ <<a, b, c, d, e>>[5] = e
    BY <2>1
  <2> QED
    BY <2>2, <2>3 DEF c, e
<1> DEFINE P == WakePhase \o TermPhase
           n == 9 + 4 * MaxWaits
<1>12. IsJoined(P, WakePhase, TermPhase, 10, n)
  <2>1. 10 \in Nat /\ n \in Nat
    BY <1>1
  <2> HIDE DEF n
  <2>2. Len(TermPhase) = n
    BY <1>10 DEF n
  <2> QED
    BY <1>9, <1>10, <2>1, <2>2, Joined
<1>13. Program("stop") = P \o KillPhase /\ Len(P) = Before
  BY DEF Program, Before
<1> HIDE DEF P
<1>14. Before = 19 + 4 * MaxWaits /\ Before \in Nat /\ Before = 10 + n /\ n \in Nat /\ n >= 9
  BY <1>1, <1>12, <1>13 DEF IsJoined
<1>15. IsJoined(P \o KillPhase, P, KillPhase, Before, 5)
  <2>1. P \in Seq(Ops) /\ 5 \in Nat
    BY <1>12 DEF IsJoined
  <2> QED
    BY <1>11, <1>13, <1>14, <2>1, Joined
<1>16. (P \o KillPhase)[Before + 3] = Op("label", "KILL") /\ (P \o KillPhase)[Before + 5] = Op("wait", "")
  <2>1. 3 \in 1..5 /\ 5 \in 1..5
    OBVIOUS
  <2> QED
    BY <1>11, <1>15, <2>1 DEF IsJoined
<1>17. Len(P \o KillPhase) = Before + 5 /\ \A i \in 1..(Before + 5) : (P \o KillPhase)[i] \in Ops
  <2> DEFINE Q == P \o KillPhase
  <2>1. Q \in Seq(Ops) /\ Len(Q) = Before + 5
    BY <1>15 DEF IsJoined
  <2> HIDE DEF Q
  <2>2. \A i \in 1..(Before + 5) : Q[i] \in Ops
    BY <2>1
  <2> QED
    BY <2>1, <2>2 DEF Q
<1>18. (P \o KillPhase)[3] = Op("group", "CONT") /\ (P \o KillPhase)[5] = Op("label", "CONT")
  <2>1. 3 \in 1..10 /\ 5 \in 1..10 /\ 3 \in 1..Before /\ 5 \in 1..Before
    BY <1>14
  <2>2. P[3] = WakePhase[3] /\ P[5] = WakePhase[5]
    BY <1>12, <2>1 DEF IsJoined
  <2>3. (P \o KillPhase)[3] = P[3] /\ (P \o KillPhase)[5] = P[5]
    BY <1>15, <2>1 DEF IsJoined
  <2> QED
    BY <1>9, <2>2, <2>3
<1>19. \A i \in 1..n : (P \o KillPhase)[10 + i] = TermPhase[i]
  <2>1. \A i \in 1..n : 10 + i \in 1..Before
    BY <1>14
  <2> HIDE DEF n
  <2> QED
    BY <1>12, <1>15, <2>1 DEF IsJoined
<1>20. /\ (P \o KillPhase)[11] = Op("group", "TERM") /\ (P \o KillPhase)[15] = Op("reap", "")
       /\ (P \o KillPhase)[17] = Op("label", "TERM")
  <2>1. 1 \in 1..n /\ 5 \in 1..n /\ 7 \in 1..n /\ 10 + 1 = 11 /\ 10 + 5 = 15 /\ 10 + 7 = 17
    BY <1>14
  <2> HIDE DEF n
  <2>2. /\ (P \o KillPhase)[10 + 1] = TermPhase[1] /\ (P \o KillPhase)[10 + 5] = TermPhase[5]
        /\ (P \o KillPhase)[10 + 7] = TermPhase[7]
    BY <1>19, <2>1
  <2> QED
    BY <1>10, <2>1, <2>2
<1>21. ASSUME NEW i \in 0..(MaxWaits - 1)
       PROVE  /\ (P \o KillPhase)[4 * i + 21] = Op("check", "")
              /\ (P \o KillPhase)[4 * i + 22] = Op("label", "TERM")
  <2>1. /\ 9 + (4 * i + 2) \in 1..n /\ 10 + (9 + (4 * i + 2)) = 4 * i + 21
        /\ 9 + (4 * i + 3) \in 1..n /\ 10 + (9 + (4 * i + 3)) = 4 * i + 22
    BY <1>1
  <2> HIDE DEF n
  <2>2. /\ (P \o KillPhase)[10 + (9 + (4 * i + 2))] = TermPhase[9 + (4 * i + 2)]
        /\ (P \o KillPhase)[10 + (9 + (4 * i + 3))] = TermPhase[9 + (4 * i + 3)]
    BY <1>19, <2>1
  <2> QED
    BY <1>10, <2>1, <2>2
<1> HIDE DEF n
<1> QED
  BY <1>9, <1>13, <1>14, <1>15, <1>16, <1>17, <1>18, <1>20, <1>21

LEMMA ProgramLength ==
  ASSUME NEW c \in {"none", "pause", "resume", "stop"}
  PROVE  Len(Program(c)) \in Nat
<1>1. CASE c \in {"pause", "resume"}
  <2>1. Len(Program(c)) = 4
    BY <1>1, PassProgram
  <2> QED
    BY <2>1
<1>2. CASE c = "stop"
  <2>1. Len(Program("stop")) = Before + 5 /\ Before \in Nat
    BY StopProgram
  <2>2. Before + 5 \in Nat
    BY <2>1
  <2> QED
    BY <1>2, <2>1, <2>2
<1>3. CASE c = "none"
  BY <1>3 DEF Program
<1> QED
  BY <1>1, <1>2, <1>3

(***************************************************************************)
(* The tree.                                                               *)
(***************************************************************************)

LEMMA RootIsProc == Root \in Procs /\ 0 \notin Procs /\ Root = 1
BY StopGroupAssumption DEF Root, Procs

\* The tree is itself a family, and all but its root are alive.
LEMMA TreeFacts ==
  ASSUME ProcsOK, status[Root] # "gone"
  PROVE  /\ Tree \subseteq Procs /\ IsFamily(Tree)
         /\ \A S \in SUBSET Procs : IsFamily(S) => Tree \subseteq S
         /\ Tree \subseteq Alive \cup {Root}
<1>1. Tree = {p \in Procs : \A S \in SUBSET Procs : IsFamily(S) => p \in S}
  BY DEF Tree
<1>2. Alive \cup {Root} \in SUBSET Procs
  BY RootIsProc DEF Alive
<1>3. IsFamily(Alive \cup {Root})
  BY DEF IsFamily
<1>4. IsFamily(Tree)
  <2>1. Root \in Tree
    BY <1>1, RootIsProc DEF IsFamily
  <2>2. ASSUME NEW p \in Alive, parent[p] \in Tree PROVE p \in Tree
    <3> SUFFICES ASSUME NEW S \in SUBSET Procs, IsFamily(S) PROVE p \in S
      BY <1>1 DEF Alive
    <3>1. parent[p] \in S
      BY <1>1, <2>2
    <3> QED
      BY <3>1 DEF IsFamily
  <2> QED
    BY <2>1, <2>2 DEF IsFamily
<1> QED
  BY <1>1, <1>2, <1>3, <1>4

\* What no step but a fork does: nobody is born, and a child keeps its parent
\* or loses it.
Shrinks ==
  /\ \A p \in Procs : p \in Alive' => p \in Alive
  /\ \A p \in Procs : parent'[p] \in {parent[p], 0}
  /\ \A p \in Procs : status[p] = "gone" => status'[p] = "gone"
  /\ \A p \in Procs : status'[p] = "unborn" <=> status[p] = "unborn"
  /\ UNCHANGED <<inGroup, labelled, stubborn>>

LEMMA TreeShrinks ==
  ASSUME ProcsOK, ProcsOK', Shrinks
  PROVE  Tree' \subseteq Tree
<1>1. CASE status'[Root] = "gone"
  BY <1>1 DEF Tree
<1>2. CASE status'[Root] # "gone"
  <2>1. status[Root] # "gone"
    BY <1>2, RootIsProc DEF Shrinks
  <2>2. Tree \subseteq Procs /\ IsFamily(Tree)
    BY <2>1, TreeFacts
  <2>3. Root \in Tree /\ \A p \in Alive' : parent'[p] \in Tree => p \in Tree
    <3>1. Root \in Tree
      BY <2>2 DEF IsFamily
    <3>2. ASSUME NEW p \in Alive', parent'[p] \in Tree PROVE p \in Tree
      <4>1. p \in Procs /\ p \in Alive
        BY DEF Shrinks, Alive
      <4>2. parent'[p] = parent[p]
        BY <2>2, <3>2, <4>1, RootIsProc DEF Shrinks
      <4> QED
        BY <2>2, <3>2, <4>1, <4>2 DEF IsFamily
    <3> QED
      BY <3>1, <3>2
  <2> DEFINE T == Tree
  <2>4. T \in SUBSET Procs /\ Root \in T /\ \A p \in Alive' : parent'[p] \in T => p \in T
    BY <2>2, <2>3
  <2> HIDE DEF T
  <2>5. Tree' \subseteq T
    BY <1>2, <2>4 DEF Tree, IsFamily
  <2> QED
    BY <2>5 DEF T
<1> QED
  BY <1>1, <1>2

(***************************************************************************)
(* The steps on the processes.                                             *)
(***************************************************************************)

\* What kill(2) may do to a process: nothing to one that does not live.
SentTo(S, sig) ==
  \A p \in Procs :
    /\ p \notin S \cap Alive => status'[p] = status[p]
    /\ p \in S \cap Alive => status'[p] \in {"running", "stopped", "zombie", "gone"}
    /\ p \in S \cap Alive /\ sig = "STOP" => status'[p] = "stopped"
    /\ p \in S \cap Alive /\ sig = "CONT" => status'[p] # "stopped"
    /\ p \in S \cap Alive /\ sig = "KILL" => status'[p] \in {"zombie", "gone"}
    /\ p \in (S \cap Alive) \ stubborn /\ sig = "TERM" /\ status[p] = "running" =>
         status'[p] \in {"zombie", "gone"}
    /\ sig # "STOP" /\ status'[p] = "stopped" => status[p] = "stopped"
    /\ sig = "STOP" /\ status[p] = "stopped" => status'[p] = "stopped"

LEMMA SendFacts ==
  ASSUME ProcsOK, NEW S, NEW sig, Send(S, sig)
  PROVE  ProcsOK' /\ Shrinks /\ SentTo(S, sig)
<1> DEFINE to == S \cap Alive
           dies == CASE sig = "KILL" -> to
                     [] sig = "TERM" -> {p \in to \ stubborn : status[p] = "running"}
                     [] sig = "CONT" -> to \cap termPending
                     [] OTHER -> {}
           held == IF sig = "TERM" THEN {p \in to \ stubborn : status[p] = "stopped"} ELSE {}
<1>1. /\ status' = [p \in Procs |->
                      IF p \in dies THEN Dead(p)
                      ELSE IF p \in to /\ sig = "STOP" THEN "stopped"
                      ELSE IF p \in to /\ sig = "CONT" THEN "running"
                      ELSE status[p]]
      /\ parent' = [p \in Procs |-> IF parent[p] \in dies THEN 0 ELSE parent[p]]
      /\ termPending' = (termPending \ dies) \cup held
      /\ UNCHANGED <<inGroup, labelled, stubborn>>
  BY DEF Send, Orphaned
<1>2. /\ dies \subseteq to
      /\ sig = "KILL" => dies = to
      /\ sig = "CONT" => dies = to \cap termPending
      /\ sig = "TERM" => dies = {p \in to \ stubborn : status[p] = "running"}
      /\ sig = "STOP" => dies = {}
      /\ sig \notin {"KILL", "TERM", "CONT"} => dies = {}
  BY DEF Alive
<1>3. held \subseteq to /\ (sig = "TERM" => dies \cap held = {})
      /\ (\A p \in held : status[p] = "stopped") /\ (sig # "TERM" => held = {})
  OBVIOUS
<1>4. to \subseteq Procs /\ \A p \in Procs : p \in Alive <=> status[p] \in {"running", "stopped"}
  BY DEF Alive
<1>5. \A p : Dead(p) \in {"zombie", "gone"}
  BY DEF Dead
<1> HIDE DEF to, dies, held
<1>6. /\ \A p \in Procs : p \in dies => status'[p] \in {"zombie", "gone"}
      /\ \A p \in Procs : p \notin dies /\ p \in to /\ sig = "STOP" => status'[p] = "stopped"
      /\ \A p \in Procs : p \notin dies /\ p \in to /\ sig = "CONT" => status'[p] = "running"
      /\ \A p \in Procs : p \notin dies /\ p \in to /\ sig \notin {"STOP", "CONT"} => status'[p] = status[p]
      /\ \A p \in Procs : p \notin to => status'[p] = status[p]
  BY <1>1, <1>2, <1>5
<1>7. SentTo(S, sig)
  <2>1. \A p \in Procs : p \in S \cap Alive <=> p \in to
    BY DEF to
  <2>2. \A p \in to : status[p] \in {"running", "stopped"}
    BY <1>4 DEF to
  <2> SUFFICES ASSUME NEW p \in Procs
               PROVE  /\ p \notin to => status'[p] = status[p]
                      /\ p \in to => status'[p] \in {"running", "stopped", "zombie", "gone"}
                      /\ p \in to /\ sig = "STOP" => status'[p] = "stopped"
                      /\ p \in to /\ sig = "CONT" => status'[p] # "stopped"
                      /\ p \in to /\ sig = "KILL" => status'[p] \in {"zombie", "gone"}
                      /\ p \in to \ stubborn /\ sig = "TERM" /\ status[p] = "running" =>
                           status'[p] \in {"zombie", "gone"}
                      /\ sig # "STOP" /\ status'[p] = "stopped" => status[p] = "stopped"
                      /\ sig = "STOP" /\ status[p] = "stopped" => status'[p] = "stopped"
    BY <2>1 DEF SentTo
  <2> QED
    BY <1>2, <1>6, <2>2
<1>8. Shrinks
  <2>1. \A p \in Procs : p \in Alive' => p \in Alive
    <3>1. \A p \in Procs : p \in Alive' => status'[p] \in {"running", "stopped"}
      BY DEF Alive
    <3>2. \A p \in to : p \in Alive
      BY DEF to
    <3> QED
      BY <1>4, <1>6, <3>1, <3>2
  <2>2. \A p \in Procs : parent'[p] \in {parent[p], 0}
    BY <1>1
  <2>3. \A p \in Procs : status[p] \in {"gone", "unborn"} => p \notin to
    BY <1>4 DEF to
  <2>4. \A p \in Procs : p \in to => status'[p] # "unborn"
    BY <1>7 DEF SentTo, to
  <2> QED
    BY <1>1, <1>6, <2>1, <2>2, <2>3, <2>4 DEF Shrinks
<1>9. ProcsOK'
  <2>1. status' \in [Procs -> Status]
    BY <1>1, <1>5 DEF ProcsOK, Status
  <2>2. parent' \in [Procs -> 0..NumProcs] /\ 0 \in 0..NumProcs
    BY <1>1, StopGroupAssumption DEF ProcsOK
  <2>3. inGroup' \subseteq Procs /\ labelled' \subseteq Procs /\ stubborn' \subseteq Procs /\ Root \in inGroup'
        /\ \A p \in inGroup' \cup labelled' : status'[p] # "unborn"
    BY <1>8 DEF ProcsOK, Shrinks
  <2>4. termPending' \subseteq Procs
    BY <1>1, <1>3, <1>4 DEF ProcsOK
  <2>5. \A p \in termPending' : status'[p] = "stopped"
    <3> SUFFICES ASSUME NEW p \in termPending' PROVE status'[p] = "stopped"
      OBVIOUS
    <3>1. p \in Procs /\ status[p] = "stopped"
      BY <1>1, <1>3, <2>4 DEF ProcsOK
    <3>2. p \notin dies
      <4>1. CASE p \in held
        BY <1>3, <4>1
      <4>2. CASE p \notin held
        BY <1>1, <4>2
      <4> QED
        BY <4>1, <4>2
    <3>3. sig = "CONT" => p \in termPending
      BY <1>1, <1>3
    <3> QED
      BY <1>2, <1>6, <3>1, <3>2, <3>3
  <2>6. \A p \in Procs : parent'[p] \in Procs => status'[parent'[p]] # "unborn"
    <3> SUFFICES ASSUME NEW p \in Procs, parent'[p] \in Procs PROVE status'[parent'[p]] # "unborn"
      OBVIOUS
    <3>1. parent'[p] = parent[p]
      BY <1>8, RootIsProc DEF Shrinks
    <3> QED
      BY <1>8, <3>1 DEF ProcsOK, Shrinks
  <2> QED
    BY <2>1, <2>2, <2>3, <2>4, <2>5, <2>6 DEF ProcsOK
<1> QED
  BY <1>7, <1>8, <1>9

\* waitpid for the root.
LEMMA ReapFacts ==
  ASSUME ProcsOK, Reaped, UNCHANGED <<parent, inGroup, labelled, stubborn, termPending>>
  PROVE  /\ ProcsOK' /\ Shrinks
         /\ Root \notin Alive => status'[Root] = "gone"
         /\ \A p \in Procs : status'[p] = "stopped" <=> status[p] = "stopped"
         /\ \A p \in Procs : p \in Alive' <=> p \in Alive
<1>1. /\ status' = [status EXCEPT ![Root] = IF status[Root] = "zombie" THEN "gone" ELSE status[Root]]
      /\ status \in [Procs -> Status] /\ Root \in Procs
  BY RootIsProc DEF Reaped, ProcsOK
<1>2. /\ \A p \in Procs : p # Root => status'[p] = status[p]
      /\ status'[Root] = IF status[Root] = "zombie" THEN "gone" ELSE status[Root]
      /\ status' \in [Procs -> Status]
  BY <1>1 DEF Status
<1>3. status[Root] # "unborn" /\ status[Root] \in Status
  BY <1>1 DEF ProcsOK
<1>4. \A p \in Procs : /\ status'[p] = "stopped" <=> status[p] = "stopped"
                       /\ status'[p] = "unborn" <=> status[p] = "unborn"
                       /\ status'[p] = "running" <=> status[p] = "running"
                       /\ status[p] = "gone" => status'[p] = "gone"
  BY <1>2
<1>5. \A p \in Procs : p \in Alive' <=> p \in Alive
  BY <1>4 DEF Alive
<1>6. Root \notin Alive => status'[Root] = "gone"
  BY <1>1, <1>2, <1>3 DEF Alive, Status
<1>7. ProcsOK'
  BY <1>2, <1>4 DEF ProcsOK
<1>8. Shrinks
  BY <1>4, <1>5 DEF Shrinks
<1> QED
  BY <1>4, <1>5, <1>6, <1>7, <1>8

LEMMA ExitFacts ==
  ASSUME ProcsOK, NEW p \in Procs, Exit(p)
  PROVE  /\ ProcsOK' /\ Shrinks
         /\ \A q \in Procs : status'[q] = "stopped" <=> status[q] = "stopped"
<1>1. /\ status[p] = "running" /\ status' = [status EXCEPT ![p] = Dead(p)]
      /\ parent' = [q \in Procs |-> IF parent[q] \in {p} THEN 0 ELSE parent[q]]
      /\ UNCHANGED <<inGroup, labelled, stubborn, termPending>>
  BY DEF Exit, Orphaned
<1>2. status \in [Procs -> Status] /\ Dead(p) \in {"zombie", "gone"}
  BY DEF ProcsOK, Dead
<1>3. status'[p] \in {"zombie", "gone"} /\ \A q \in Procs : q # p => status'[q] = status[q]
  BY <1>1, <1>2
<1>4. status' \in [Procs -> Status]
  BY <1>1, <1>2 DEF Status
<1>5. \A q \in Procs : /\ status'[q] = "stopped" <=> status[q] = "stopped"
                       /\ status'[q] = "unborn" <=> status[q] = "unborn"
                       /\ status'[q] = "running" => status[q] = "running"
                       /\ status[q] = "gone" => status'[q] = "gone"
  BY <1>1, <1>3
<1>6. Shrinks
  <2>1. \A q \in Procs : q \in Alive' => q \in Alive
    BY <1>5 DEF Alive
  <2>2. \A q \in Procs : parent'[q] \in {parent[q], 0}
    BY <1>1
  <2> QED
    BY <1>1, <1>5, <2>1, <2>2 DEF Shrinks
<1>7. ProcsOK'
  <2>1. parent' \in [Procs -> 0..NumProcs]
    <3>1. 0 \in 0..NumProcs
      BY StopGroupAssumption
    <3> QED
      BY <1>1, <3>1 DEF ProcsOK
  <2>2. \A q \in Procs : parent'[q] \in Procs => status'[parent'[q]] # "unborn"
    <3> SUFFICES ASSUME NEW q \in Procs, parent'[q] \in Procs PROVE status'[parent'[q]] # "unborn"
      OBVIOUS
    <3>1. parent'[q] = parent[q]
      BY <1>6, RootIsProc DEF Shrinks
    <3> QED
      BY <1>5, <3>1 DEF ProcsOK
  <2>3. /\ inGroup' \subseteq Procs /\ labelled' \subseteq Procs /\ stubborn' \subseteq Procs /\ Root \in inGroup'
        /\ \A q \in inGroup' \cup labelled' : status'[q] # "unborn"
    BY <1>1, <1>5 DEF ProcsOK
  <2>4. termPending' \subseteq Procs /\ \A q \in termPending' : status'[q] = "stopped"
    BY <1>1, <1>5 DEF ProcsOK
  <2> QED
    BY <1>4, <2>1, <2>2, <2>3, <2>4 DEF ProcsOK
<1> QED
  BY <1>5, <1>6, <1>7

\* A fork: the child runs, is in the group or has the label only if its parent
\* is, and belongs to the tree only if its parent does.
LEMMA ForkFacts ==
  ASSUME ProcsOK, NEW p \in Procs, NEW c \in Procs, NEW group \in BOOLEAN, NEW label \in BOOLEAN,
         NEW deaf \in BOOLEAN, Fork(p, c, group, label, deaf)
  PROVE  /\ ProcsOK' /\ status[p] = "running" /\ status[c] = "unborn" /\ status'[c] = "running"
         /\ \A q \in Procs : q # c => status'[q] = status[q]
         /\ Root # c /\ c \notin inGroup \cup labelled
         /\ inGroup' \subseteq inGroup \cup {c} /\ (p \notin inGroup => inGroup' = inGroup)
         /\ p \notin labelled => labelled' = labelled
         /\ Tree' \subseteq Tree \cup {c}
         /\ p \notin Tree => Tree' \subseteq Tree
<1>1. /\ status[p] = "running" /\ status[c] = "unborn"
      /\ status' = [status EXCEPT ![c] = "running"] /\ parent' = [parent EXCEPT ![c] = p]
      /\ inGroup' = (IF group /\ p \in inGroup THEN inGroup \cup {c} ELSE inGroup)
      /\ labelled' = (IF label /\ p \in labelled THEN labelled \cup {c} ELSE labelled)
      /\ stubborn' = (IF deaf THEN stubborn \cup {c} ELSE stubborn)
      /\ termPending' = termPending
  BY DEF Fork
<1>2. /\ status \in [Procs -> Status] /\ parent \in [Procs -> 0..NumProcs]
      /\ Root \in inGroup /\ \A q \in inGroup \cup labelled : status[q] # "unborn"
  BY DEF ProcsOK
<1>3. status'[c] = "running" /\ \A q \in Procs : q # c => status'[q] = status[q]
  BY <1>1, <1>2
<1>4. parent'[c] = p /\ \A q \in Procs : q # c => parent'[q] = parent[q]
  BY <1>1, <1>2
<1>5. Root # c /\ c \notin inGroup \cup labelled /\ c # p
  BY <1>1, <1>2
<1>6. \A q \in Procs : status[q] # "unborn" => status'[q] # "unborn"
  BY <1>3
<1>7. ProcsOK'
  <2>1. status' \in [Procs -> Status] /\ parent' \in [Procs -> 0..NumProcs]
    <3>1. p \in 0..NumProcs
      BY DEF Procs
    <3> QED
      BY <1>1, <1>2, <3>1 DEF Status
  <2>2. inGroup' \subseteq Procs /\ labelled' \subseteq Procs /\ stubborn' \subseteq Procs /\ Root \in inGroup'
    BY <1>1 DEF ProcsOK
  <2>3. \A q \in inGroup' \cup labelled' : status'[q] # "unborn"
    BY <1>1, <1>3, <1>6 DEF ProcsOK
  <2>4. termPending' \subseteq Procs /\ \A q \in termPending' : status'[q] = "stopped"
    BY <1>1, <1>3 DEF ProcsOK
  <2>5. \A q \in Procs : parent'[q] \in Procs => status'[parent'[q]] # "unborn"
    BY <1>1, <1>3, <1>4, <1>6 DEF ProcsOK
  <2> QED
    BY <2>1, <2>2, <2>3, <2>4, <2>5 DEF ProcsOK
<1>8. \A q \in Procs : q \in Alive' => q \in Alive \/ q = c
  BY <1>3 DEF Alive
<1>9. Tree' \subseteq Tree \cup {c} /\ (p \notin Tree => Tree' \subseteq Tree)
  <2>1. CASE status[Root] = "gone"
    <3>1. status'[Root] = "gone"
      BY <1>3, <1>5, <2>1, RootIsProc
    <3> QED
      BY <3>1 DEF Tree
  <2>2. CASE status[Root] # "gone"
    <3>1. Tree \in SUBSET Procs /\ IsFamily(Tree)
      BY <2>2, TreeFacts
    <3>2. \A q \in Alive : parent[q] # c
      BY <1>1 DEF ProcsOK, Alive
    <3> DEFINE T == Tree
    <3>3. T \in SUBSET Procs /\ Root \in T /\ \A q \in Alive : parent[q] \in T => q \in T
      BY <3>1 DEF IsFamily
    <3>4. Alive' \subseteq Procs
      BY DEF Alive
    <3> HIDE DEF T
    <3>5. status'[Root] # "gone"
      BY <1>3, <1>5, <2>2, RootIsProc
    <3>6. /\ T \cup {c} \in SUBSET Procs /\ Root \in T \cup {c}
          /\ \A q \in Alive' : parent'[q] \in T \cup {c} => q \in T \cup {c}
      BY <1>4, <1>8, <3>2, <3>3, <3>4
    <3>7. p \notin T => \A q \in Alive' : parent'[q] \in T => q \in T
      BY <1>4, <1>8, <3>3, <3>4
    <3>8. Tree' \subseteq T \cup {c}
      BY <3>5, <3>6 DEF Tree, IsFamily
    <3>9. p \notin T => Tree' \subseteq T
      BY <3>3, <3>5, <3>7 DEF Tree, IsFamily
    <3> QED
      BY <3>8, <3>9 DEF T
  <2> QED
    BY <2>1, <2>2
<1> QED
  BY <1>1, <1>3, <1>5, <1>7, <1>9

(***************************************************************************)
(* The steps of a call.                                                    *)
(***************************************************************************)

LEMMA UnchangedProcs ==
  ASSUME ProcsOK, UNCHANGED procs
  PROVE  ProcsOK' /\ Shrinks
BY DEF ProcsOK, Shrinks, procs, Alive

\* The programs of a pause and a resume know no other operations.
LEMMA PassOps ==
  ASSUME CallOK, call \in {"pause", "resume"}, NEW on, Current(on)
  PROVE  /\ on \in {"reapOrFail", "group", "tree"} /\ pos \in {1, 2, 3, 4}
         /\ on = "reapOrFail" <=> pos = 1
         /\ on = "group" <=> pos = 2
         /\ on = "tree" <=> pos \in {3, 4}
         /\ pos >= 2 => Signal = SignalOf(call)
<1>1. pos \in Nat /\ pos >= 1 /\ pos <= Len(Program(call)) /\ Program(call)[pos].on = on
  BY DEF CallOK, Current
<1>2. /\ Len(Program(call)) = 4
      /\ Program(call)[1].on = "reapOrFail"
      /\ Program(call)[2] = Op("group", SignalOf(call))
      /\ Program(call)[3] = Op("tree", SignalOf(call)) /\ Program(call)[4] = Op("tree", SignalOf(call))
  BY PassProgram
<1>3. pos \in {1, 2, 3, 4}
  BY <1>1, <1>2
<1>4. \A a, b : Op(a, b).on = a /\ Op(a, b).sig = b
  BY OpFacts
<1> QED
  BY <1>1, <1>2, <1>3, <1>4 DEF Signal

LEMMA AdvanceOK ==
  ASSUME CallOK, Advance, NEW on, Current(on), ~scanned',
         snap' \subseteq Procs, known' \subseteq Procs, scanned' \in BOOLEAN, UNCHANGED forks,
         rootFinished' \in BOOLEAN, rootFinished' => status'[Root] = "gone",
         call \in {"pause", "resume"} => ~rootFinished'
  PROVE  CallOK'
<1>1. call' = call /\ last' = last /\ calls' = calls /\ pos' = pos + 1
  BY DEF Advance
<1>2. Program(call)' = Program(call)
  BY <1>1 DEF Program
<1>3. pos \in Nat /\ pos <= Len(Program(call)) /\ pos >= 1 /\ Len(Program(call)) \in Int
  <2>1. call \in {"pause", "resume", "stop"} /\ pos \in Nat /\ pos <= Len(Program(call)) /\ pos >= 1
    BY DEF CallOK, Current
  <2>2. Len(Program(call)) \in Int
    BY ProgramLength DEF CallOK
  <2> QED
    BY <2>1, <2>2
<1>4. pos' \in Nat /\ pos' <= Len(Program(call)) + 1 /\ pos' >= 1
  BY <1>1, <1>3
<1> QED
  BY <1>1, <1>2, <1>4 DEF CallOK, forks

LEMMA ReturnOK ==
  ASSUME CallOK, NEW ok \in BOOLEAN, Return(ok), ~scanned',
         snap' \subseteq Procs, known' \subseteq Procs, scanned' \in BOOLEAN, UNCHANGED forks,
         rootFinished' = rootFinished, rootFinished => status'[Root] = "gone"
  PROVE  CallOK'
<1>1. call' = "none" /\ pos' = 0 /\ calls' = calls /\ last' = IF ok THEN call ELSE "none"
  BY DEF Return
<1>2. Len(Program(call)') = 0
  BY <1>1 DEF Program
<1>3. 0 \in Nat /\ 0 <= 0 + 1
  OBVIOUS
<1> QED
  BY <1>1, <1>2, <1>3 DEF CallOK, forks

\* No two operations at one position.
LEMMA OneOperation ==
  ASSUME NEW a, NEW b, Current(a), Current(b)
  PROVE  a = b
BY DEF Current

LEMMA ControllerFacts ==
  ASSUME ProcsOK, CallOK, Controller
  PROVE  ProcsOK' /\ Shrinks /\ CallOK' /\ UNCHANGED forks
<1>k. /\ snap \subseteq Procs /\ known \subseteq Procs /\ scanned \in BOOLEAN /\ rootFinished \in BOOLEAN
      /\ rootFinished => status[Root] = "gone"
      /\ call \in {"pause", "resume"} => ~rootFinished
      /\ scanned => Current("tree") \/ Current("label")
  BY DEF CallOK
<1>r. Root \in Procs
  BY RootIsProc
<1>1. CASE GroupSignal
  <2>1. ProcsOK' /\ Shrinks
    BY <1>1, SendFacts, UnchangedProcs DEF GroupSignal
  <2>2. ~scanned
    BY <1>1, <1>k, OneOperation DEF GroupSignal
  <2>3. Current("group") /\ Advance /\ UNCHANGED <<snap, scanned, known, rootFinished, forks>>
    BY <1>1 DEF GroupSignal, local
  <2>4. rootFinished => status'[Root] = "gone"
    BY <1>k, <1>r, <2>1 DEF Shrinks
  <2> QED
    BY <1>k, <2>1, <2>2, <2>3, <2>4, AdvanceOK
<1>2. CASE Scan
  <2>1. /\ UNCHANGED <<procs, call, pos, known, rootFinished, last, forks, calls>>
        /\ Current("tree") \/ Current("label")
        /\ snap' \in {Tree, Label} /\ scanned' = TRUE
    BY <1>2 DEF Scan
  <2>2. ProcsOK' /\ Shrinks
    BY <2>1, UnchangedProcs
  <2>3. Tree \subseteq Procs /\ Label \subseteq Procs
    BY DEF Tree, Label, Alive
  <2>4. status' = status
    BY <2>1 DEF procs
  <2>5. Program(call)' = Program(call) /\ (Current("tree")' <=> Current("tree"))
        /\ (Current("label")' <=> Current("label"))
    BY <2>1 DEF Program, Current
  <2>6. CallOK'
    BY <2>1, <2>3, <2>4, <2>5 DEF CallOK, forks
  <2> QED
    BY <2>1, <2>2, <2>6
<1>3. CASE SignalScanned
  <2>1. ProcsOK' /\ Shrinks
    BY <1>3, SendFacts DEF SignalScanned
  <2>2. /\ scanned' = FALSE /\ snap' = {} /\ known' \subseteq known \cup snap
        /\ Advance /\ UNCHANGED <<rootFinished, forks>> /\ scanned
    BY <1>3 DEF SignalScanned
  <2>3. rootFinished => status'[Root] = "gone"
    BY <1>k, <1>r, <2>1 DEF Shrinks
  <2>4. PICK on : Current(on)
    BY <1>k, <2>2
  <2>5. known' \subseteq Procs /\ snap' \subseteq Procs
    BY <1>k, <2>2
  <2> QED
    BY <1>k, <2>1, <2>2, <2>3, <2>4, <2>5, AdvanceOK
<1>4. CASE SignalKnown
  <2>1. ProcsOK' /\ Shrinks
    BY <1>4, SendFacts DEF SignalKnown
  <2>2. ~scanned
    BY <1>4, <1>k, OneOperation DEF SignalKnown
  <2>3. Current("known") /\ Advance /\ UNCHANGED <<snap, scanned, known, rootFinished, forks>>
    BY <1>4 DEF SignalKnown, local
  <2>4. rootFinished => status'[Root] = "gone"
    BY <1>k, <1>r, <2>1 DEF Shrinks
  <2> QED
    BY <1>k, <2>1, <2>2, <2>3, <2>4, AdvanceOK
<1>5. CASE Reap
  <2>1. ProcsOK' /\ Shrinks /\ (Root \notin Alive => status'[Root] = "gone")
    BY <1>5, ReapFacts DEF Reap
  <2>2. ~scanned
    BY <1>5, <1>k, OneOperation DEF Reap
  <2>3. Current("reap") /\ Advance /\ UNCHANGED <<snap, scanned, known, forks>>
        /\ rootFinished' = (Root \notin Alive)
    BY <1>5 DEF Reap
  <2>4. rootFinished' \in BOOLEAN
    BY <2>3
  <2>5. rootFinished' => status'[Root] = "gone"
    BY <2>1, <2>3
  <2>6. call \notin {"pause", "resume"}
    BY <2>3, PassOps
  <2> QED
    BY <1>k, <2>1, <2>2, <2>3, <2>4, <2>5, <2>6, AdvanceOK
<1>6. CASE ReapOrFail
  <2>1. ProcsOK' /\ Shrinks
    BY <1>6, ReapFacts DEF ReapOrFail
  <2>2. ~scanned
    BY <1>6, <1>k, OneOperation DEF ReapOrFail
  <2>3. Current("reapOrFail") /\ UNCHANGED <<snap, scanned, known, rootFinished, forks>>
        /\ (Advance \/ Return(FALSE))
    BY <1>6 DEF ReapOrFail, local
  <2>4. rootFinished => status'[Root] = "gone"
    BY <1>k, <1>r, <2>1 DEF Shrinks
  <2> QED
    BY <1>k, <2>1, <2>2, <2>3, <2>4, AdvanceOK, ReturnOK
<1>7. CASE Check
  <2>1. ProcsOK' /\ Shrinks
    BY <1>7, SendFacts, UnchangedProcs DEF Check
  <2>2. ~scanned
    BY <1>7, <1>k, OneOperation DEF Check
  <2>3. Current("check") /\ UNCHANGED <<snap, scanned, known, rootFinished, forks>>
        /\ (Advance \/ Return(TRUE))
    BY <1>7 DEF Check, local
  <2>4. rootFinished => status'[Root] = "gone"
    BY <1>k, <1>r, <2>1 DEF Shrinks
  <2> QED
    BY <1>k, <2>1, <2>2, <2>3, <2>4, AdvanceOK, ReturnOK
<1>8. CASE Wait
  <2>1. ProcsOK' /\ Shrinks
    BY <1>8, ReapFacts DEF Wait
  <2>2. ~scanned
    BY <1>8, <1>k, OneOperation DEF Wait
  <2>3. Current("wait") /\ Advance /\ UNCHANGED <<snap, scanned, known, rootFinished, forks>>
    BY <1>8 DEF Wait, local
  <2>4. rootFinished => status'[Root] = "gone"
    BY <1>k, <1>r, <2>1 DEF Shrinks
  <2> QED
    BY <1>k, <2>1, <2>2, <2>3, <2>4, AdvanceOK
<1>9. CASE Finish
  <2>1. UNCHANGED procs /\ UNCHANGED <<snap, scanned, known, rootFinished, forks>> /\ Return(TRUE)
        /\ pos > Len(Program(call)) /\ call # "none"
    BY <1>9 DEF Finish, local
  <2>2. ProcsOK' /\ Shrinks
    BY <2>1, UnchangedProcs
  <2>3. ~scanned
    <3>1. CASE scanned
      <4>1. pos <= Len(Program(call))
        BY <1>k, <3>1 DEF Current
      <4>2. Len(Program(call)) \in Int /\ pos \in Int
        BY ProgramLength DEF CallOK
      <4> QED
        BY <2>1, <4>1, <4>2
    <3> QED
      BY <3>1
  <2>4. rootFinished => status'[Root] = "gone"
    BY <1>k, <1>r, <2>2 DEF Shrinks
  <2> QED
    BY <1>k, <2>1, <2>2, <2>3, <2>4, ReturnOK
<1> QED
  BY <1>1, <1>2, <1>3, <1>4, <1>5, <1>6, <1>7, <1>8, <1>9 DEF Controller

(***************************************************************************)
(* What one step of a call does to the call.                               *)
(***************************************************************************)

LEMMA ControllerCalls ==
  ASSUME CallOK, Controller
  PROVE  /\ call # "none" /\ last = "none"
         /\ \/ call' = call /\ last' = last
            \/ call' = "none" /\ last' \in {"none", call}
<1>1. call # "none"
  BY DEF CallOK, Controller, GroupSignal, Scan, SignalScanned, SignalKnown, Reap, ReapOrFail, Check, Wait,
         Finish, Current
<1>2. \/ call' = call /\ last' = last
      \/ call' = "none" /\ last' \in {"none", call}
  BY DEF Controller, GroupSignal, Scan, SignalScanned, SignalKnown, Reap, ReapOrFail, Check, Wait,
         Finish, Advance, Return
<1> QED
  BY <1>1, <1>2 DEF CallOK

\* The turns of a pause or a resume.
Failing   == pos = 1 /\ call' \in {call, "none"} /\ last' = "none" /\ ~scanned' /\ pos' \in {0, 2}
Grouping  == /\ pos = 2 /\ Send(inGroup, SignalOf(call))
             /\ call' = call /\ last' = "none" /\ ~scanned' /\ pos' = 3
Scanning  == /\ pos \in {3, 4} /\ ~scanned /\ snap' = Tree /\ scanned'
             /\ UNCHANGED <<procs, call, pos, last>>
Passing   == /\ pos \in {3, 4} /\ scanned /\ Send(snap, SignalOf(call))
             /\ call' = call /\ last' = "none" /\ ~scanned' /\ pos' = pos + 1
Returning == pos = 5 /\ UNCHANGED procs /\ call' = "none" /\ last' = call /\ ~scanned'

LEMMA PassTurn ==
  ASSUME ProcsOK, CallOK, call \in {"pause", "resume"}, Controller
  PROVE  Failing \/ Grouping \/ Scanning \/ Passing \/ Returning
<1>k. /\ last = "none" /\ ~rootFinished /\ pos \in Nat /\ scanned \in BOOLEAN
      /\ scanned => Current("tree") \/ Current("label")
  BY DEF CallOK
<1>s. scanned => Current("tree")
  BY <1>k, PassOps
<1>1. CASE GroupSignal
  <2>1. Current("group") /\ Send(inGroup, Signal) /\ Advance /\ scanned' = scanned
    BY <1>1, <1>k DEF GroupSignal, local
  <2>2. ~scanned /\ pos = 2 /\ Signal = SignalOf(call)
    BY <1>s, <2>1, OneOperation, PassOps
  <2>3. pos' = 3
    BY <2>1, <2>2 DEF Advance
  <2> QED
    BY <1>k, <2>1, <2>2, <2>3 DEF Grouping, Advance
<1>2. CASE Scan
  <2>1. ~Current("label")
    BY PassOps
  <2>2. Current("tree") /\ snap' = Tree /\ ~scanned /\ scanned' /\ UNCHANGED <<procs, call, pos, last>>
    BY <1>2, <2>1 DEF Scan
  <2>3. pos \in {3, 4}
    BY <2>2, PassOps
  <2> QED
    BY <2>2, <2>3 DEF Scanning
<1>3. CASE SignalScanned
  <2>1. scanned /\ Send(snap, Signal) /\ ~scanned' /\ Advance
    BY <1>3 DEF SignalScanned
  <2>2. pos \in {3, 4} /\ Signal = SignalOf(call)
    BY <1>s, <2>1, PassOps
  <2> QED
    BY <1>k, <2>1, <2>2 DEF Passing, Advance
<1>4. CASE ReapOrFail
  <2>1. Current("reapOrFail") /\ (Advance \/ Return(FALSE)) /\ scanned' = scanned
    BY <1>4 DEF ReapOrFail, local
  <2>2. pos = 1 /\ ~scanned
    BY <1>s, <2>1, OneOperation, PassOps
  <2>3. CASE Advance
    <3>1. pos' = 2
      BY <2>2, <2>3 DEF Advance
    <3> QED
      BY <1>k, <2>1, <2>2, <2>3, <3>1 DEF Failing, Advance
  <2>4. CASE Return(FALSE)
    BY <1>k, <2>1, <2>2, <2>4 DEF Failing, Return
  <2> QED
    BY <2>1, <2>3, <2>4
<1>5. CASE SignalKnown \/ Reap \/ Check \/ Wait
  <2>1. Current("known") \/ Current("reap") \/ Current("check") \/ Current("wait")
    BY <1>5 DEF SignalKnown, Reap, Check, Wait
  <2> QED
    BY <2>1, PassOps
<1>6. CASE Finish
  <2>1. pos > Len(Program(call)) /\ Return(TRUE) /\ UNCHANGED procs /\ scanned' = scanned
    BY <1>6 DEF Finish, local
  <2>2. Len(Program(call)) = 4 /\ pos <= Len(Program(call)) + 1
    BY PassProgram DEF CallOK
  <2>3. pos = 5
    BY <1>k, <2>1, <2>2
  <2>4. ~scanned
    BY <1>s, <2>3, PassOps
  <2> QED
    BY <2>1, <2>3, <2>4 DEF Returning, Return
<1> QED
  BY <1>1, <1>2, <1>3, <1>4, <1>5, <1>6 DEF Controller

(***************************************************************************)
(* A pause.                                                                *)
(***************************************************************************)

\* What is stopped stays stopped while nothing is woken or born.
LEMMA StayStopped ==
  ASSUME ProcsOK, ProcsOK', Shrinks, GroupStopped,
         \A q \in Procs : status[q] = "stopped" => status'[q] = "stopped"
  PROVE  GroupStopped' /\ (TreeStopped => TreeStopped')
<1>1. Tree' \subseteq Tree
  BY TreeShrinks
<1>2. inGroup' = inGroup /\ inGroup \subseteq Procs /\ Root \in inGroup /\ Root \in Procs
  BY RootIsProc DEF Shrinks, ProcsOK
<1>3. \A p \in inGroup : p \in Alive' => p \in Alive /\ status[p] = "stopped" /\ status'[p] = "stopped"
  BY <1>2 DEF Shrinks, GroupStopped
<1>4. GroupStopped'
  BY <1>2, <1>3 DEF GroupStopped
<1>5. ASSUME TreeStopped, status'[Root] = "stopped", NEW p \in Tree' PROVE status'[p] = "stopped"
  <2>1. Root \in Alive'
    BY <1>2, <1>5 DEF Alive
  <2>2. status[Root] = "stopped"
    BY <1>2, <1>3, <2>1
  <2>3. status[p] = "stopped" /\ p \in Procs
    BY <1>1, <1>5, <2>2 DEF TreeStopped, Tree
  <2> QED
    BY <2>3
<1> QED
  BY <1>4, <1>5 DEF TreeStopped

\* A fork does not disturb what is stopped: only a running process forks.
LEMMA ForkStopped ==
  ASSUME ProcsOK, NEW p \in Procs, NEW c \in Procs, NEW group \in BOOLEAN, NEW label \in BOOLEAN,
         NEW deaf \in BOOLEAN, Fork(p, c, group, label, deaf), GroupStopped
  PROVE  GroupStopped' /\ (TreeStopped => TreeStopped')
<1>1. /\ status[p] = "running" /\ status[c] = "unborn" /\ status'[c] = "running"
      /\ \A q \in Procs : q # c => status'[q] = status[q]
      /\ Root # c /\ c \notin inGroup \cup labelled
      /\ p \notin inGroup => inGroup' = inGroup
      /\ p \notin Tree => Tree' \subseteq Tree
  BY ForkFacts
<1>2. inGroup \subseteq Procs /\ Root \in Procs
  BY RootIsProc DEF ProcsOK
<1>3. p \in Alive
  BY <1>1 DEF Alive
<1>4. p \notin inGroup
  BY <1>1, <1>3 DEF GroupStopped
<1>5. inGroup' = inGroup /\ \A q \in inGroup : status'[q] = status[q]
  BY <1>1, <1>2, <1>4
<1>6. GroupStopped'
  BY <1>2, <1>5 DEF GroupStopped, Alive
<1>7. ASSUME TreeStopped, status'[Root] = "stopped", NEW q \in Tree' PROVE status'[q] = "stopped"
  <2>1. status[Root] = "stopped"
    BY <1>1, <1>2, <1>7
  <2>2. \A r \in Tree : status[r] = "stopped"
    BY <1>7, <2>1 DEF TreeStopped
  <2>3. p \notin Tree
    BY <1>1, <2>2
  <2>4. q \in Tree /\ q \in Procs /\ q # c
    BY <1>1, <1>7, <2>2, <2>3 DEF Tree
  <2> QED
    BY <1>1, <2>2, <2>4
<1> QED
  BY <1>6, <1>7 DEF TreeStopped

\* A pass that was sent to the whole tree stops it.
LEMMA PassStops ==
  ASSUME ProcsOK, Send(snap, "STOP"), Tree \subseteq snap
  PROVE  TreeStopped'
<1>1. ProcsOK' /\ Shrinks /\ SentTo(snap, "STOP")
  BY SendFacts
<1>2. Tree' \subseteq Tree
  BY <1>1, TreeShrinks
<1>3. Root \in Procs
  BY RootIsProc
<1> SUFFICES ASSUME status'[Root] = "stopped", NEW p \in Tree' PROVE status'[p] = "stopped"
  BY DEF TreeStopped
<1>4. CASE p = Root
  BY <1>4
<1>5. CASE p # Root
  <2>1. status'[Root] # "gone" /\ status[Root] # "gone"
    BY <1>1, <1>3 DEF Shrinks
  <2>2. p \in Alive /\ p \in snap /\ p \in Procs
    BY <1>2, <1>5, <2>1, TreeFacts
  <2> QED
    BY <1>1, <2>2 DEF SentTo
<1> QED
  BY <1>4, <1>5

LEMMA PausingCall ==
  ASSUME ProcsOK, CallOK, Pausing, call = "pause", Controller
  PROVE  Pausing'
<1>k. pos \in Nat /\ births \in Nat /\ last = "none"
  BY DEF CallOK
<1>b. births' = births
  BY ControllerFacts DEF forks
<1>s. SignalOf(call) = "STOP"
  BY DEF SignalOf
<1>1. CASE Failing
  <2>1. pos' \notin {3, 4, 5} /\ ~(pos' >= 3) /\ last' # "pause"
    BY <1>1 DEF Failing
  <2> QED
    BY <2>1 DEF Pausing
<1>2. CASE Grouping
  <2>1. call' = "pause" /\ pos' = 3 /\ ~scanned' /\ last' = "none" /\ Send(inGroup, "STOP")
    BY <1>2, <1>s DEF Grouping
  <2>2. Shrinks /\ SentTo(inGroup, "STOP")
    BY <2>1, SendFacts
  <2>3. GroupStopped'
    BY <2>2 DEF GroupStopped, Shrinks, SentTo, Alive
  <2> QED
    BY <2>1, <2>3 DEF Pausing
<1>3. CASE Scanning
  <2>1. /\ call' = "pause" /\ last' = "none" /\ pos' = pos /\ pos \in {3, 4} /\ scanned' /\ snap' = Tree
        /\ UNCHANGED procs
    BY <1>3, <1>k DEF Scanning
  <2>2. status' = status /\ parent' = parent /\ inGroup' = inGroup
    BY <2>1 DEF procs
  <2>3. Tree' = Tree
    BY <2>2 DEF Tree, IsFamily, Alive
  <2>4. GroupStopped' = GroupStopped
    BY <2>2 DEF GroupStopped, Alive
  <2>5. TreeStopped' = TreeStopped
    BY <2>2, <2>3 DEF TreeStopped
  <2> QED
    BY <1>k, <1>b, <2>1, <2>3, <2>4, <2>5 DEF Pausing
<1>4. CASE Passing
  <2>1. /\ call' = "pause" /\ last' = "none" /\ pos' = pos + 1 /\ pos \in {3, 4} /\ scanned /\ ~scanned'
        /\ Send(snap, "STOP")
    BY <1>4, <1>s DEF Passing
  <2>2. ProcsOK' /\ Shrinks /\ SentTo(snap, "STOP")
    BY <2>1, SendFacts
  <2>3. GroupStopped
    BY <1>k, <2>1 DEF Pausing
  <2>4. GroupStopped' /\ (TreeStopped => TreeStopped')
    BY <2>2, <2>3, StayStopped DEF SentTo
  <2>5. Tree \subseteq snap => TreeStopped'
    BY <2>1, PassStops
  <2> QED
    BY <1>k, <1>b, <2>1, <2>4, <2>5 DEF Pausing
<1>5. CASE Returning
  <2>1. call' = "none" /\ last' = "pause" /\ pos = 5 /\ UNCHANGED procs
    BY <1>5 DEF Returning
  <2>2. status' = status /\ parent' = parent /\ inGroup' = inGroup
    BY <2>1 DEF procs
  <2>3. Tree' = Tree
    BY <2>2 DEF Tree, IsFamily, Alive
  <2>4. GroupStopped' = GroupStopped
    BY <2>2 DEF GroupStopped, Alive
  <2>5. TreeStopped' = TreeStopped
    BY <2>2, <2>3 DEF TreeStopped
  <2> QED
    BY <1>k, <1>b, <2>1, <2>4, <2>5 DEF Pausing
<1> QED
  BY <1>1, <1>2, <1>3, <1>4, <1>5, PassTurn

LEMMA PausingFork ==
  ASSUME ProcsOK, CallOK, Pausing, NEW p \in Procs, NEW c \in Procs, NEW group \in BOOLEAN,
         NEW label \in BOOLEAN, NEW deaf \in BOOLEAN, Fork(p, c, group, label, deaf)
  PROVE  Pausing'
<1>1. /\ UNCHANGED <<call, pos, snap, scanned, last>>
      /\ call = "pause" => births' = births + 1
      /\ call = "none" => births' = births
  BY DEF Fork, local, Killing
<1>2. births \in Nat /\ (last = "pause" => call = "none")
  BY DEF CallOK
<1>3. GroupStopped => GroupStopped' /\ (TreeStopped => TreeStopped')
  BY ForkStopped
<1> QED
  BY <1>1, <1>2, <1>3 DEF Pausing

LEMMA PausingExit ==
  ASSUME ProcsOK, CallOK, Pausing, NEW p \in Procs, Exit(p)
  PROVE  Pausing'
<1>1. UNCHANGED <<call, pos, snap, scanned, last, births>>
  BY DEF Exit, local, forks
<1>2. ProcsOK' /\ Shrinks /\ \A q \in Procs : status'[q] = "stopped" <=> status[q] = "stopped"
  BY ExitFacts
<1>3. GroupStopped => GroupStopped' /\ (TreeStopped => TreeStopped')
  BY <1>2, StayStopped
<1>4. Tree' \subseteq Tree
  BY <1>2, TreeShrinks
<1> QED
  BY <1>1, <1>3, <1>4 DEF Pausing

(***************************************************************************)
(* A resume.                                                               *)
(***************************************************************************)

\* Sleepers of the group and of the tree: a step that stops nobody.
LEMMA StayAwake ==
  ASSUME ProcsOK, ProcsOK', Shrinks, \A q \in Procs : status'[q] = "stopped" => status[q] = "stopped"
  PROVE  Asleep(inGroup)' \subseteq Asleep(inGroup) /\ Asleep(Tree)' \subseteq Asleep(Tree)
<1>1. Tree' \subseteq Tree /\ inGroup' = inGroup
  BY TreeShrinks DEF Shrinks
<1>2. Tree \subseteq Procs /\ inGroup \subseteq Procs
  BY DEF Tree, ProcsOK
<1> QED
  BY <1>1, <1>2 DEF Asleep

LEMMA ForkAwake ==
  ASSUME ProcsOK, NEW p \in Procs, NEW c \in Procs, NEW group \in BOOLEAN,
         NEW label \in BOOLEAN, NEW deaf \in BOOLEAN, Fork(p, c, group, label, deaf)
  PROVE  Asleep(inGroup)' \subseteq Asleep(inGroup) /\ Asleep(Tree)' \subseteq Asleep(Tree)
<1>1. /\ status'[c] = "running" /\ \A q \in Procs : q # c => status'[q] = status[q]
      /\ inGroup' \subseteq inGroup \cup {c} /\ Tree' \subseteq Tree \cup {c}
  BY ForkFacts
<1>2. Tree \subseteq Procs /\ inGroup \subseteq Procs
  BY DEF Tree, ProcsOK
<1> QED
  BY <1>1, <1>2 DEF Asleep

\* A pass that was sent to all sleepers of the tree wakes it.
LEMMA PassWakes ==
  ASSUME ProcsOK, Send(snap, "CONT"), Asleep(Tree) \subseteq snap
  PROVE  Asleep(Tree)' = {}
<1>1. ProcsOK' /\ Shrinks /\ SentTo(snap, "CONT")
  BY SendFacts
<1>2. Tree' \subseteq Tree /\ Tree \subseteq Procs
  BY <1>1, TreeShrinks DEF Tree
<1> SUFFICES ASSUME NEW p \in Tree', status'[p] = "stopped" PROVE FALSE
  BY DEF Asleep
<1>3. p \in Procs /\ p \in Tree
  BY <1>2
<1>4. status[p] = "stopped"
  BY <1>1, <1>3 DEF SentTo
<1>5. p \in snap \cap Alive
  BY <1>3, <1>4 DEF Asleep, Alive
<1> QED
  BY <1>1, <1>3, <1>5 DEF SentTo

LEMMA ResumingCall ==
  ASSUME ProcsOK, CallOK, Resuming, call = "resume", Controller
  PROVE  Resuming'
<1>k. pos \in Nat /\ last = "none"
  BY DEF CallOK
<1>s. SignalOf(call) = "CONT"
  BY DEF SignalOf
<1>1. CASE Failing
  <2>1. pos' # 3 /\ ~(pos' >= 3) /\ ~(pos' >= 4) /\ last' # "resume"
    BY <1>1 DEF Failing
  <2> QED
    BY <2>1 DEF Resuming
<1>2. CASE Grouping
  <2>1. call' = "resume" /\ pos' = 3 /\ ~scanned' /\ last' = "none" /\ Send(inGroup, "CONT")
    BY <1>2, <1>s DEF Grouping
  <2>2. Shrinks /\ SentTo(inGroup, "CONT")
    BY <2>1, SendFacts
  <2>3. Asleep(inGroup)' = {}
    <3>1. inGroup' = inGroup /\ inGroup \subseteq Procs
      BY <2>2 DEF Shrinks, ProcsOK
    <3>2. \A p \in inGroup : status'[p] # "stopped"
      BY <2>2, <3>1 DEF SentTo, Alive
    <3> QED
      BY <3>1, <3>2 DEF Asleep
  <2>4. ~(pos' >= 4)
    BY <2>1
  <2> QED
    BY <2>1, <2>3, <2>4 DEF Resuming
<1>3. CASE Scanning
  <2>1. /\ call' = "resume" /\ last' = "none" /\ pos' = pos /\ pos \in {3, 4} /\ scanned' /\ snap' = Tree
        /\ UNCHANGED procs
    BY <1>3, <1>k DEF Scanning
  <2>2. status' = status /\ parent' = parent /\ inGroup' = inGroup
    BY <2>1 DEF procs
  <2>3. Tree' = Tree
    BY <2>2 DEF Tree, IsFamily, Alive
  <2>4. Asleep(inGroup)' = Asleep(inGroup) /\ Asleep(Tree)' = Asleep(Tree) /\ Asleep(Tree)' \subseteq snap'
    BY <2>1, <2>2, <2>3 DEF Asleep
  <2> QED
    BY <1>k, <2>1, <2>4 DEF Resuming
<1>4. CASE Passing
  <2>1. /\ call' = "resume" /\ last' = "none" /\ pos' = pos + 1 /\ pos \in {3, 4} /\ scanned /\ ~scanned'
        /\ Send(snap, "CONT")
    BY <1>4, <1>s DEF Passing
  <2>2. ProcsOK' /\ Shrinks /\ SentTo(snap, "CONT")
    BY <2>1, SendFacts
  <2>3. Asleep(inGroup)' \subseteq Asleep(inGroup) /\ Asleep(Tree)' \subseteq Asleep(Tree)
    BY <2>2, StayAwake DEF SentTo
  <2>4. Asleep(Tree) \subseteq snap => Asleep(Tree)' = {}
    BY <2>1, PassWakes
  <2>5. Asleep(inGroup) = {} /\ (pos = 3 => Asleep(Tree) \subseteq snap) /\ (pos = 4 => Asleep(Tree) = {})
    BY <1>k, <2>1 DEF Resuming
  <2>6. Asleep(inGroup)' = {} /\ Asleep(Tree)' = {}
    BY <2>1, <2>3, <2>4, <2>5
  <2> QED
    BY <2>1, <2>6 DEF Resuming
<1>5. CASE Returning
  <2>1. call' = "none" /\ last' = "resume" /\ pos = 5 /\ UNCHANGED procs
    BY <1>5 DEF Returning
  <2>2. status' = status /\ parent' = parent /\ inGroup' = inGroup
    BY <2>1 DEF procs
  <2>3. Tree' = Tree
    BY <2>2 DEF Tree, IsFamily, Alive
  <2>4. Asleep(inGroup)' = Asleep(inGroup) /\ Asleep(Tree)' = Asleep(Tree)
    BY <2>2, <2>3 DEF Asleep
  <2>5. Asleep(inGroup) = {} /\ Asleep(Tree) = {}
    BY <1>k, <2>1 DEF Resuming
  <2> QED
    BY <2>1, <2>4, <2>5 DEF Resuming
<1> QED
  BY <1>1, <1>2, <1>3, <1>4, <1>5, PassTurn

\* The life of the processes stops nobody.
LEMMA ResumingWorker ==
  ASSUME Resuming, UNCHANGED <<call, pos, snap, scanned, last>>,
         Asleep(inGroup)' \subseteq Asleep(inGroup), Asleep(Tree)' \subseteq Asleep(Tree)
  PROVE  Resuming'
BY DEF Resuming

(***************************************************************************)
(* A stop.                                                                 *)
(***************************************************************************)

\* The turns of a stop.
Moving  == /\ call' = call /\ last' = "none" /\ ~scanned' /\ pos' = pos + 1
           /\ pos = Before + 3 => scanned /\ Send(snap, "KILL")
           /\ pos = Before + 5 => status'[Root] = "gone"
Looking == /\ UNCHANGED <<procs, call, pos, last>>
           /\ pos = Before + 3 => snap' = Label
Leaving == /\ call' = "none" /\ last' \in {"none", "stop"}
           /\ last' = "stop" => (status[Root] = "gone" /\ Label = {}) \/ pos >= Before + 6

LEMMA StopTurn ==
  ASSUME ProcsOK, CallOK, call = "stop", Controller
  PROVE  Moving \/ Looking \/ Leaving
<1>k. /\ last = "none" /\ pos \in Nat /\ Before \in Nat /\ scanned \in BOOLEAN
      /\ scanned => Current("tree") \/ Current("label")
      /\ rootFinished => status[Root] = "gone"
  BY StopProgram DEF CallOK
<1>o. ASSUME NEW on, Current(on)
      PROVE  /\ pos = Before + 3 => on = "label" /\ Signal = "KILL"
             /\ pos = Before + 5 => on = "wait"
  <2>1. Program("stop")[pos].on = on /\ Signal = Program("stop")[pos].sig
    BY <1>o DEF Current, Signal
  <2>2. /\ Program("stop")[Before + 3] = Op("label", "KILL")
        /\ Program("stop")[Before + 5] = Op("wait", "")
    BY StopProgram
  <2>3. Op("label", "KILL").on = "label" /\ Op("label", "KILL").sig = "KILL" /\ Op("wait", "").on = "wait"
    BY OpFacts
  <2>4. pos = Before + 3 => on = "label" /\ Signal = "KILL"
    BY <2>1, <2>2, <2>3
  <2>5. pos = Before + 5 => on = "wait"
    BY <2>1, <2>2, <2>3
  <2> QED
    BY <2>4, <2>5
<1>a. ASSUME Advance, ~scanned', NEW on, Current(on), on \notin {"label", "wait"} PROVE Moving
  <2>1. pos # Before + 3 /\ pos # Before + 5
    BY <1>a, <1>o
  <2> QED
    BY <1>a, <1>k, <2>1 DEF Moving, Advance
<1>1. CASE GroupSignal
  <2>1. Current("group") /\ Advance /\ scanned' = scanned
    BY <1>1 DEF GroupSignal, local
  <2>2. ~scanned'
    BY <1>k, <2>1, OneOperation
  <2> QED
    BY <1>a, <2>1, <2>2
<1>2. CASE Scan
  <2>1. UNCHANGED <<procs, call, pos, last>> /\ (Current("tree") \/ (Current("label") /\ snap' = Label))
    BY <1>2 DEF Scan
  <2>2. pos = Before + 3 => ~Current("tree")
    BY <1>o
  <2> QED
    BY <2>1, <2>2 DEF Looking
<1>3. CASE SignalScanned
  <2>1. scanned /\ ~scanned' /\ Advance /\ Send(snap, Signal)
    BY <1>3 DEF SignalScanned
  <2>2. PICK on \in {"tree", "label"} : Current(on)
    BY <1>k, <2>1
  <2>3. (pos = Before + 3 => Signal = "KILL") /\ pos # Before + 5
    BY <1>o, <2>2
  <2> QED
    BY <1>k, <2>1, <2>3 DEF Moving, Advance
<1>4. CASE SignalKnown
  <2>1. Current("known") /\ Advance /\ scanned' = scanned
    BY <1>4 DEF SignalKnown, local
  <2>2. ~scanned'
    BY <1>k, <2>1, OneOperation
  <2> QED
    BY <1>a, <2>1, <2>2
<1>5. CASE Reap
  <2>1. Current("reap") /\ Advance /\ scanned' = scanned
    BY <1>5 DEF Reap
  <2>2. ~scanned'
    BY <1>k, <2>1, OneOperation
  <2> QED
    BY <1>a, <2>1, <2>2
<1>6. CASE ReapOrFail
  <2>1. Current("reapOrFail") /\ (Advance \/ Return(FALSE)) /\ scanned' = scanned
    BY <1>6 DEF ReapOrFail, local
  <2>2. ~scanned'
    BY <1>k, <2>1, OneOperation
  <2>3. CASE Advance
    BY <1>a, <2>1, <2>2, <2>3
  <2>4. CASE Return(FALSE)
    BY <2>4 DEF Return, Leaving
  <2> QED
    BY <2>1, <2>3, <2>4
<1>7. CASE Check
  <2>1. /\ Current("check") /\ scanned' = scanned
        /\ (Advance \/ (rootFinished /\ Label = {} /\ Return(TRUE)))
    BY <1>7 DEF Check, MayReturn, local
  <2>2. ~scanned'
    BY <1>k, <2>1, OneOperation
  <2>3. CASE Advance
    BY <1>a, <2>1, <2>2, <2>3
  <2>4. CASE rootFinished /\ Label = {} /\ Return(TRUE)
    BY <1>k, <2>4 DEF Return, Leaving
  <2> QED
    BY <2>1, <2>3, <2>4
<1>8. CASE Wait
  <2>1. /\ Current("wait") /\ Advance /\ scanned' = scanned /\ Reaped /\ (rootFinished \/ Root \notin Alive)
        /\ UNCHANGED <<parent, inGroup, labelled, stubborn, termPending>>
    BY <1>8 DEF Wait, local
  <2>2. ~scanned' /\ pos # Before + 3
    BY <1>k, <1>o, <2>1, OneOperation
  <2>3. Root \notin Alive
    BY <1>k, <2>1 DEF Alive
  <2>4. status'[Root] = "gone"
    BY <2>1, <2>3, ReapFacts
  <2> QED
    BY <1>k, <2>1, <2>2, <2>4 DEF Moving, Advance
<1>9. CASE Finish
  <2>1. pos > Len(Program("stop")) /\ Return(TRUE)
    BY <1>9 DEF Finish
  <2>2. Len(Program("stop")) = Before + 5
    BY StopProgram
  <2>3. pos >= Before + 6
    BY <1>k, <2>1, <2>2
  <2> QED
    BY <2>1, <2>3 DEF Leaving, Return
<1> QED
  BY <1>1, <1>2, <1>3, <1>4, <1>5, <1>6, <1>7, <1>8, <1>9 DEF Controller

LEMMA LabelShrinks ==
  ASSUME ProcsOK, Shrinks
  PROVE  Label' \subseteq Label /\ (status[Root] = "gone" => status'[Root] = "gone")
BY RootIsProc DEF Shrinks, Label, ProcsOK

LEMMA StoppingCall ==
  ASSUME ProcsOK, CallOK, Stopping, call = "stop", Controller
  PROVE  Stopping'
<1>k. /\ last = "none" /\ pos \in Nat /\ Before \in Nat /\ Before' = Before
  BY StopProgram DEF CallOK, Before, WakePhase, TermPhase, Op, Repeat
<1>b. births' = births /\ Label' \subseteq Label /\ (status[Root] = "gone" => status'[Root] = "gone")
  BY ControllerFacts, LabelShrinks DEF forks
<1> HIDE DEF Before
<1>1. CASE Moving
  <2>1. /\ call' = "stop" /\ last' = "none" /\ ~scanned' /\ pos' = pos + 1
        /\ pos = Before + 3 => scanned /\ Send(snap, "KILL")
        /\ pos = Before + 5 => status'[Root] = "gone"
    BY <1>1 DEF Moving
  <2>2. pos = Before + 3 /\ births = 0 => Label' = {}
    <3> SUFFICES ASSUME pos = Before + 3, births = 0, NEW p \in Label' PROVE FALSE
      OBVIOUS
    <3>1. Label \subseteq snap /\ SentTo(snap, "KILL")
      BY <2>1, SendFacts DEF Stopping
    <3>2. p \in Label /\ p \in Procs
      BY <1>b DEF Label, Alive
    <3>3. p \in snap \cap Alive
      BY <3>1, <3>2 DEF Label
    <3>4. status'[p] \in {"zombie", "gone"}
      BY <3>1, <3>2, <3>3 DEF SentTo
    <3> QED
      BY <3>4 DEF Label, Alive
  <2>3. pos' >= Before + 4 /\ births' = 0 => Label' = {}
    <3> SUFFICES ASSUME pos' >= Before + 4, births = 0, pos # Before + 3 PROVE Label' = {}
      BY <1>b, <2>2
    <3>1. pos >= Before + 4
      BY <1>k, <2>1
    <3>2. Label = {}
      BY <3>1 DEF Stopping
    <3> QED
      BY <1>b, <3>2
  <2>4. pos' >= Before + 6 => status'[Root] = "gone"
    <3> SUFFICES ASSUME pos' >= Before + 6, pos # Before + 5 PROVE status'[Root] = "gone"
      BY <2>1
    <3>1. pos >= Before + 6
      BY <1>k, <2>1
    <3> QED
      BY <1>b, <3>1 DEF Stopping
  <2>5. StopIsComplete'
    BY <2>1 DEF StopIsComplete
  <2> QED
    BY <1>k, <2>1, <2>3, <2>4, <2>5 DEF Stopping
<1>2. CASE Looking
  <2>1. /\ call' = "stop" /\ last' = "none" /\ pos' = pos /\ UNCHANGED procs
        /\ pos = Before + 3 => snap' = Label
    BY <1>2, <1>k DEF Looking
  <2>2. StopIsComplete'
    BY <2>1 DEF StopIsComplete
  <2> QED
    BY <1>k, <1>b, <2>1, <2>2 DEF Stopping
<1>3. CASE Leaving
  <2>1. /\ call' = "none" /\ last' \in {"none", "stop"}
        /\ last' = "stop" => (status[Root] = "gone" /\ Label = {}) \/ pos >= Before + 6
    BY <1>3 DEF Leaving
  <2>2. ASSUME pos >= Before + 6 PROVE status[Root] = "gone" /\ (births = 0 => Label = {})
    <3>1. pos >= Before + 4
      BY <1>k, <2>2
    <3> QED
      BY <2>2, <3>1 DEF Stopping
  <2>3. StopIsComplete'
    BY <1>b, <2>1, <2>2 DEF StopIsComplete
  <2> QED
    BY <2>1, <2>3 DEF Stopping
<1> QED
  BY <1>1, <1>2, <1>3, StopTurn

LEMMA StoppingFork ==
  ASSUME ProcsOK, CallOK, Stopping, NEW p \in Procs, NEW c \in Procs, NEW group \in BOOLEAN,
         NEW label \in BOOLEAN, NEW deaf \in BOOLEAN, Fork(p, c, group, label, deaf)
  PROVE  Stopping'
<1>k. /\ pos \in Nat /\ births \in Nat /\ Before \in Nat /\ Before' = Before /\ (last = "stop" => call = "none")
  BY StopProgram DEF CallOK, Before, WakePhase, TermPhase, Op, Repeat
<1>1. /\ UNCHANGED <<call, pos, snap, scanned, last>>
      /\ call = "stop" /\ pos > Before => births' = births + 1
      /\ call = "none" => births' = births
  BY DEF Fork, local, Killing, Before
<1>2. /\ status[p] = "running" /\ \A q \in Procs : q # c => status'[q] = status[q]
      /\ Root # c /\ c \notin labelled /\ (p \notin labelled => labelled' = labelled)
  BY ForkFacts
<1> HIDE DEF Before
<1>3. status[Root] = "gone" => status'[Root] = "gone"
  BY <1>2, RootIsProc
<1>4. Label = {} => Label' = {}
  <2> SUFFICES ASSUME Label = {}, NEW q \in Label' PROVE FALSE
    OBVIOUS
  <2>1. p \notin labelled
    BY <1>2 DEF Label, Alive
  <2>2. q \in labelled /\ q \in Procs /\ q # c /\ q \in Alive'
    BY <1>2, <2>1 DEF Label, Alive
  <2>3. q \in Alive
    BY <1>2, <2>2 DEF Alive
  <2> QED
    BY <2>2, <2>3 DEF Label
<1>5. call = "stop" /\ pos >= Before + 3 => births' # 0
  BY <1>k, <1>1
<1>6. call = "stop" /\ pos >= Before + 4 => pos >= Before + 3
  BY <1>k
<1>7. call = "stop" /\ pos = Before + 3 => pos >= Before + 3
  BY <1>k
<1>8. StopIsComplete'
  BY <1>k, <1>1, <1>3, <1>4 DEF Stopping, StopIsComplete
<1> QED
  BY <1>k, <1>1, <1>3, <1>5, <1>6, <1>7, <1>8 DEF Stopping

LEMMA StoppingExit ==
  ASSUME ProcsOK, CallOK, Stopping, NEW p \in Procs, Exit(p)
  PROVE  Stopping'
<1>1. UNCHANGED <<call, pos, snap, scanned, last, births>>
  BY DEF Exit, local, forks
<1>2. Label' \subseteq Label /\ (status[Root] = "gone" => status'[Root] = "gone")
  BY ExitFacts, LabelShrinks
<1>3. Before' = Before
  BY DEF Before, WakePhase, TermPhase, Op, Repeat
<1> HIDE DEF Before
<1>4. StopIsComplete'
  BY <1>1, <1>2 DEF Stopping, StopIsComplete
<1> QED
  BY <1>1, <1>2, <1>3, <1>4 DEF Stopping

(***************************************************************************)
(* A stop of a worker that obeys SIGTERM.                                  *)
(***************************************************************************)

\* The operations that count, at their positions.
LEMMA StopOps ==
  ASSUME CallOK, call = "stop"
  PROVE  /\ pos = 3 => Current("group") /\ Signal = "CONT"
         /\ pos = 5 => Current("label") /\ Signal = "CONT"
         /\ pos = 11 => Current("group") /\ Signal = "TERM"
         /\ pos = 15 => Current("reap")
         /\ pos = 17 => Current("label") /\ Signal = "TERM"
         /\ \A i \in 0..(MaxWaits - 1) : /\ pos = 4 * i + 21 => Current("check")
                                         /\ pos = 4 * i + 22 => Current("label") /\ Signal = "TERM"
         /\ \A on : Current(on) => Signal # "STOP"
<1> DEFINE P == Program("stop")
<1>n. Before = 19 + 4 * MaxWaits /\ Len(P) = Before + 5 /\ MaxWaits \in Nat
  BY StopProgram, StopGroupAssumption
<1>1. /\ \A i \in 1..(Before + 5) : P[i] \in Ops
      /\ P[3] = Op("group", "CONT") /\ P[5] = Op("label", "CONT")
      /\ P[11] = Op("group", "TERM") /\ P[15] = Op("reap", "") /\ P[17] = Op("label", "TERM")
      /\ \A i \in 0..(MaxWaits - 1) : P[4 * i + 21] = Op("check", "") /\ P[4 * i + 22] = Op("label", "TERM")
  BY StopProgram
<1>2. /\ Signal = P[pos].sig /\ pos \in Nat /\ pos >= 1
      /\ \A on : Current(on) <=> pos <= Len(P) /\ P[pos].on = on
  BY DEF Signal, Current, CallOK
<1>3. \A a, b : Op(a, b).on = a /\ Op(a, b).sig = b
  BY OpFacts
<1> HIDE DEF P, Before
<1>4. 3 <= Len(P) /\ 5 <= Len(P) /\ 11 <= Len(P) /\ 15 <= Len(P) /\ 17 <= Len(P)
  BY <1>n
<1>5. \A i \in 0..(MaxWaits - 1) : 4 * i + 21 <= Len(P) /\ 4 * i + 22 <= Len(P)
  BY <1>n
<1>6. ASSUME NEW on, Current(on) PROVE Signal # "STOP"
  <2>1. pos \in 1..(Before + 5)
    BY <1>n, <1>2, <1>6
  <2>2. P[pos] \in Ops
    BY <1>1, <2>1
  <2>3. P[pos].sig \in Signals
    BY <2>2 DEF Ops
  <2> QED
    BY <1>2, <2>3 DEF Signals
<1> HIDE DEF P
<1>p. ASSUME NEW k, NEW on, NEW sig, pos = k, k <= Len(P), P[k] = Op(on, sig)
      PROVE  Current(on) /\ Signal = sig
  <2>1. P[pos].on = on /\ P[pos].sig = sig
    BY <1>3, <1>p
  <2> QED
    BY <1>2, <1>p, <2>1
<1>7. /\ pos = 3 => Current("group") /\ Signal = "CONT"
      /\ pos = 5 => Current("label") /\ Signal = "CONT"
      /\ pos = 11 => Current("group") /\ Signal = "TERM"
      /\ pos = 15 => Current("reap")
      /\ pos = 17 => Current("label") /\ Signal = "TERM"
  BY <1>1, <1>4, <1>p
<1>8. ASSUME NEW i \in 0..(MaxWaits - 1)
      PROVE  /\ pos = 4 * i + 21 => Current("check")
             /\ pos = 4 * i + 22 => Current("label") /\ Signal = "TERM"
  BY <1>1, <1>5, <1>p
<1> QED
  BY <1>6, <1>7, <1>8

\* The turns of a stop, by operation.
NobodyStops == \A p \in Procs : status'[p] = "stopped" => status[p] = "stopped"

Doing ==
  /\ call' = call /\ pos' = pos + 1 /\ ~scanned'
  /\ Current("group") => rootFinished \/ Send(inGroup, Signal)
  /\ Current("label") => scanned /\ Send(snap, Signal)
  /\ Current("reap") => (rootFinished' <=> Root \notin Alive)
  /\ ~Current("reap") => rootFinished' = rootFinished
  /\ Current("check") => ~MayReturn
  /\ NobodyStops

Seeing ==
  /\ UNCHANGED <<procs, call, pos, rootFinished>>
  /\ Current("label") => snap' = Label

LEMMA ObedientTurn ==
  ASSUME ProcsOK, CallOK, call = "stop", Controller
  PROVE  Doing \/ Seeing \/ call' = "none"
<1>k. scanned \in BOOLEAN /\ (scanned => Current("tree") \/ Current("label"))
  BY DEF CallOK
<1>o. \A on : Current(on) => Signal # "STOP"
  BY StopOps
<1>s. \A S : Send(S, Signal) /\ Signal # "STOP" => NobodyStops
  <2> SUFFICES ASSUME NEW S, Send(S, Signal), Signal # "STOP" PROVE NobodyStops
    OBVIOUS
  <2>1. SentTo(S, Signal)
    BY SendFacts
  <2> QED
    BY <2>1 DEF SentTo, NobodyStops
<1>u. UNCHANGED procs => NobodyStops
  BY DEF procs, NobodyStops
<1>1. CASE GroupSignal
  <2>1. /\ Current("group") /\ Advance /\ scanned' = scanned /\ rootFinished' = rootFinished
        /\ (rootFinished /\ UNCHANGED procs) \/ Send(inGroup, Signal)
    BY <1>1 DEF GroupSignal, local
  <2>2. ~Current("tree") /\ ~Current("label") /\ ~Current("reap") /\ ~Current("check")
    BY <2>1, OneOperation
  <2>3. NobodyStops
    BY <1>o, <1>s, <1>u, <2>1
  <2> QED
    BY <1>k, <2>1, <2>2, <2>3 DEF Doing, Advance
<1>2. CASE Scan
  <2>1. /\ UNCHANGED <<procs, call, pos, rootFinished>>
        /\ Current("tree") \/ (Current("label") /\ snap' = Label)
    BY <1>2 DEF Scan
  <2>2. Current("tree") => ~Current("label")
    BY OneOperation
  <2> QED
    BY <2>1, <2>2 DEF Seeing
<1>3. CASE SignalScanned
  <2>1. scanned /\ ~scanned' /\ Advance /\ Send(snap, Signal) /\ rootFinished' = rootFinished
    BY <1>3 DEF SignalScanned
  <2>2. PICK on \in {"tree", "label"} : Current(on)
    BY <1>k, <2>1
  <2>3. ~Current("group") /\ ~Current("reap") /\ ~Current("check")
    BY <2>2, OneOperation
  <2>4. NobodyStops
    BY <1>o, <1>s, <2>1, <2>2
  <2> QED
    BY <2>1, <2>3, <2>4 DEF Doing, Advance
<1>4. CASE SignalKnown
  <2>1. /\ Current("known") /\ Advance /\ scanned' = scanned /\ rootFinished' = rootFinished
        /\ Send(known, Signal)
    BY <1>4 DEF SignalKnown, local
  <2>2. /\ ~Current("tree") /\ ~Current("label") /\ ~Current("reap") /\ ~Current("check")
        /\ ~Current("group")
    BY <2>1, OneOperation
  <2>3. NobodyStops
    BY <1>o, <1>s, <2>1
  <2> QED
    BY <1>k, <2>1, <2>2, <2>3 DEF Doing, Advance
<1>5. CASE Reap
  <2>1. /\ Current("reap") /\ Advance /\ scanned' = scanned /\ rootFinished' = (Root \notin Alive)
        /\ Reaped /\ UNCHANGED <<parent, inGroup, labelled, stubborn, termPending>>
    BY <1>5 DEF Reap
  <2>2. ~Current("tree") /\ ~Current("label") /\ ~Current("group") /\ ~Current("check")
    BY <2>1, OneOperation
  <2>3. NobodyStops
    BY <2>1, ReapFacts DEF NobodyStops
  <2> QED
    BY <1>k, <2>1, <2>2, <2>3 DEF Doing, Advance
<1>6. CASE ReapOrFail
  <2>1. /\ Current("reapOrFail") /\ (Advance \/ Return(FALSE)) /\ scanned' = scanned
        /\ rootFinished' = rootFinished /\ Reaped
        /\ UNCHANGED <<parent, inGroup, labelled, stubborn, termPending>>
    BY <1>6 DEF ReapOrFail, local
  <2>2. /\ ~Current("tree") /\ ~Current("label") /\ ~Current("reap") /\ ~Current("check")
        /\ ~Current("group")
    BY <2>1, OneOperation
  <2>3. NobodyStops
    BY <2>1, ReapFacts DEF NobodyStops
  <2> QED
    BY <1>k, <2>1, <2>2, <2>3 DEF Doing, Advance, Return
<1>7. CASE Check
  <2>1. /\ Current("check") /\ scanned' = scanned /\ rootFinished' = rootFinished
        /\ Return(TRUE) \/ (~MayReturn /\ UNCHANGED procs /\ Advance)
    BY <1>7 DEF Check, local
  <2>2. ~Current("tree") /\ ~Current("label") /\ ~Current("reap") /\ ~Current("group")
    BY <2>1, OneOperation
  <2> QED
    BY <1>k, <1>u, <2>1, <2>2 DEF Doing, Advance, Return
<1>8. CASE Wait
  <2>1. /\ Current("wait") /\ Advance /\ scanned' = scanned /\ rootFinished' = rootFinished
        /\ Reaped /\ UNCHANGED <<parent, inGroup, labelled, stubborn, termPending>>
    BY <1>8 DEF Wait, local
  <2>2. /\ ~Current("tree") /\ ~Current("label") /\ ~Current("reap") /\ ~Current("check")
        /\ ~Current("group")
    BY <2>1, OneOperation
  <2>3. NobodyStops
    BY <2>1, ReapFacts DEF NobodyStops
  <2> QED
    BY <1>k, <2>1, <2>2, <2>3 DEF Doing, Advance
<1>9. CASE Finish
  BY <1>9 DEF Finish, Return
<1> QED
  BY <1>1, <1>2, <1>3, <1>4, <1>5, <1>6, <1>7, <1>8, <1>9 DEF Controller

\* SIGTERM to all that have the label and are awake leaves nothing.
LEMMA TermKills ==
  ASSUME ProcsOK, stubborn = {}, Asleep(Label) = {}, Label \subseteq snap, Send(snap, "TERM")
  PROVE  Label' = {}
<1>1. Shrinks /\ SentTo(snap, "TERM")
  BY SendFacts
<1> SUFFICES ASSUME NEW p \in Label' PROVE FALSE
  OBVIOUS
<1>2. p \in Label /\ p \in Procs /\ p \in Alive'
  BY <1>1, LabelShrinks DEF Label, Alive
<1>3. status[p] = "running" /\ p \in (snap \cap Alive) \ stubborn
  BY <1>2 DEF Label, Alive, Asleep
<1>4. status'[p] \in {"zombie", "gone"}
  BY <1>1, <1>2, <1>3 DEF SentTo
<1> QED
  BY <1>2, <1>4 DEF Alive

LEMMA AwakeCall ==
  ASSUME ProcsOK, CallOK, Awake, call = "stop", Controller
  PROVE  Awake'
<1>k. /\ pos \in Nat /\ (rootFinished => status[Root] = "gone") /\ Root \in Procs /\ Root \in inGroup
      /\ status \in [Procs -> Status]
  BY RootIsProc DEF CallOK, ProcsOK
<1>s. Shrinks /\ Label' \subseteq Label /\ (status[Root] = "gone" => status'[Root] = "gone")
  BY ControllerFacts, LabelShrinks
<1> SUFFICES ASSUME call' = "stop", stubborn = {}
             PROVE  /\ pos' >= 4 => status'[Root] # "stopped"
                    /\ pos' = 5 /\ scanned' => Asleep(Label)' \subseteq snap'
                    /\ pos' >= 6 => Asleep(Label)' = {}
                    /\ pos' >= 12 => Root \notin Alive'
                    /\ pos' >= 16 => rootFinished'
  BY <1>s DEF Awake, Obedient, Shrinks
<1>a. /\ pos >= 4 => status[Root] # "stopped"
      /\ pos = 5 /\ scanned => Asleep(Label) \subseteq snap
      /\ pos >= 6 => Asleep(Label) = {}
      /\ pos >= 12 => Root \notin Alive
      /\ pos >= 16 => rootFinished
  BY DEF Awake, Obedient
<1>o. /\ pos = 3 => Current("group") /\ Signal = "CONT"
      /\ pos = 5 => Current("label") /\ Signal = "CONT"
      /\ pos = 11 => Current("group") /\ Signal = "TERM"
      /\ pos = 15 => Current("reap")
  BY StopOps
<1>1. CASE Doing
  <2>1. /\ pos' = pos + 1 /\ ~scanned'
        /\ Current("group") => rootFinished \/ Send(inGroup, Signal)
        /\ Current("label") => scanned /\ Send(snap, Signal)
        /\ Current("reap") => (rootFinished' <=> Root \notin Alive)
        /\ ~Current("reap") => rootFinished' = rootFinished
        /\ NobodyStops
    BY <1>1 DEF Doing
  <2>2. Asleep(Label)' \subseteq Asleep(Label)
    <3>1. Label \subseteq Procs
      BY DEF Label, Alive
    <3> QED
      BY <1>s, <2>1, <3>1 DEF Asleep, NobodyStops
  <2>3. /\ status[Root] # "stopped" => status'[Root] # "stopped"
        /\ Root \notin Alive => Root \notin Alive'
    BY <1>k, <1>s, <2>1 DEF NobodyStops, Shrinks
  <2>4. pos' >= 4 => status'[Root] # "stopped"
    <3>1. CASE pos = 3
      <4>1. rootFinished \/ Send(inGroup, "CONT")
        BY <1>o, <2>1, <3>1
      <4>2. CASE rootFinished
        BY <1>k, <1>s, <4>2
      <4>3. CASE Send(inGroup, "CONT")
        <5>1. SentTo(inGroup, "CONT")
          BY <4>3, SendFacts
        <5>2. Root \in Alive => status'[Root] # "stopped"
          BY <1>k, <5>1 DEF SentTo
        <5>3. Root \notin Alive => status[Root] # "stopped"
          BY <1>k DEF Alive
        <5> QED
          BY <2>3, <5>2, <5>3
      <4> QED
        BY <4>1, <4>2, <4>3
    <3>2. CASE pos # 3
      <4>1. pos' >= 4 => pos >= 4
        BY <1>k, <2>1, <3>2
      <4> QED
        BY <1>a, <2>3, <4>1
    <3> QED
      BY <3>1, <3>2
  <2>5. pos' >= 6 => Asleep(Label)' = {}
    <3>1. CASE pos = 5
      <4>1. scanned /\ Send(snap, "CONT") /\ Asleep(Label) \subseteq snap
        BY <1>a, <1>o, <2>1, <3>1
      <4>2. SentTo(snap, "CONT")
        BY <4>1, SendFacts
      <4>3. \A p \in Asleep(Label) : p \in Procs /\ p \in snap \cap Alive
        BY <4>1 DEF Asleep, Label, Alive
      <4>4. \A p \in Asleep(Label) : status'[p] # "stopped"
        BY <4>2, <4>3 DEF SentTo
      <4> QED
        BY <2>2, <4>4 DEF Asleep
    <3>2. CASE pos # 5
      <4>1. pos' >= 6 => pos >= 6
        BY <1>k, <2>1, <3>2
      <4> QED
        BY <1>a, <2>2, <4>1
    <3> QED
      BY <3>1, <3>2
  <2>6. pos' >= 12 => Root \notin Alive'
    <3>1. CASE pos = 11
      <4>1. rootFinished \/ Send(inGroup, "TERM")
        BY <1>o, <2>1, <3>1
      <4>2. CASE rootFinished
        BY <1>k, <1>s, <4>2 DEF Alive
      <4>3. CASE Send(inGroup, "TERM")
        <5>1. SentTo(inGroup, "TERM")
          BY <4>3, SendFacts
        <5>2. status[Root] # "stopped"
          BY <1>a, <3>1
        <5>3. Root \in Alive => status'[Root] \in {"zombie", "gone"}
          <6> SUFFICES ASSUME Root \in Alive PROVE status'[Root] \in {"zombie", "gone"}
            OBVIOUS
          <6>1. status[Root] = "running" /\ Root \in (inGroup \cap Alive) \ stubborn
            BY <1>k, <5>2 DEF Alive
          <6> QED
            BY <1>k, <5>1, <6>1 DEF SentTo
        <5>4. status'[Root] \in {"zombie", "gone"} => Root \notin Alive'
          BY DEF Alive
        <5> QED
          BY <2>3, <5>3, <5>4
      <4> QED
        BY <4>1, <4>2, <4>3
    <3>2. CASE pos # 11
      <4>1. pos' >= 12 => pos >= 12
        BY <1>k, <2>1, <3>2
      <4> QED
        BY <1>a, <2>3, <4>1
    <3> QED
      BY <3>1, <3>2
  <2>7. pos' >= 16 => rootFinished'
    <3>1. CASE pos = 15
      BY <1>a, <1>o, <2>1, <3>1
    <3>2. CASE pos # 15
      <4>1. pos' >= 16 => pos >= 16 /\ pos >= 12
        BY <1>k, <2>1, <3>2
      <4>2. CASE Current("reap")
        BY <1>a, <2>1, <4>1, <4>2
      <4>3. CASE ~Current("reap")
        <5>1. rootFinished' = rootFinished
          BY <2>1, <4>3
        <5> QED
          BY <1>a, <4>1, <5>1
      <4> QED
        BY <4>2, <4>3
    <3> QED
      BY <3>1, <3>2
  <2> QED
    BY <2>1, <2>4, <2>5, <2>6, <2>7
<1>2. CASE Seeing
  <2>1. /\ pos' = pos /\ rootFinished' = rootFinished /\ status' = status /\ labelled' = labelled
        /\ Current("label") => snap' = Label
    BY <1>2 DEF Seeing, procs
  <2>2. Alive' = Alive /\ Label' = Label
    BY <2>1 DEF Alive, Label
  <2>3. Asleep(Label)' = Asleep(Label) /\ Asleep(Label) \subseteq Label
    BY <2>1, <2>2 DEF Asleep
  <2> QED
    BY <1>a, <1>o, <2>1, <2>2, <2>3
<1> QED
  BY <1>1, <1>2, ObedientTurn

LEMMA DwindlingCall ==
  ASSUME ProcsOK, CallOK, Awake, Dwindling, call = "stop", Controller
  PROVE  Dwindling'
<1>k. pos \in Nat /\ late \in Nat /\ MaxWaits \in Nat /\ Before = 19 + 4 * MaxWaits /\ Before' = Before
  BY StopProgram, StopGroupAssumption DEF CallOK, Before, WakePhase, TermPhase, Op, Repeat
<1>s. Shrinks /\ Label' \subseteq Label /\ late' = late
  BY ControllerFacts, LabelShrinks DEF forks
<1> HIDE DEF Before
<1> SUFFICES ASSUME call' = "stop", stubborn = {}
             PROVE  /\ pos' = 17 /\ scanned' => Label' \subseteq snap' \/ late >= 1
                    /\ pos' = 18 => Label' = {} \/ late >= 1
                    /\ \A i \in 0..MaxWaits :
                         pos' \in (4 * i + 19)..(4 * i + 21) /\ pos' <= Before =>
                           late >= i /\ (Label' = {} \/ late >= i + 1)
                    /\ \A i \in 0..(MaxWaits - 1) :
                         pos' = 4 * i + 22 =>
                           late >= i + 1 /\ (scanned' => Label' \subseteq snap' \/ late >= i + 2)
                    /\ pos' > Before => late >= MaxWaits
  BY <1>k, <1>s DEF Dwindling, Obedient, Shrinks
<1>d. /\ pos = 17 /\ scanned => Label \subseteq snap \/ late >= 1
      /\ pos = 18 => Label = {} \/ late >= 1
      /\ \A i \in 0..MaxWaits :
           pos \in (4 * i + 19)..(4 * i + 21) /\ pos <= Before => late >= i /\ (Label = {} \/ late >= i + 1)
      /\ \A i \in 0..(MaxWaits - 1) :
           pos = 4 * i + 22 => late >= i + 1 /\ (scanned => Label \subseteq snap \/ late >= i + 2)
      /\ pos > Before => late >= MaxWaits
  BY DEF Dwindling, Obedient
<1>a. (pos >= 6 => Asleep(Label) = {}) /\ (pos >= 16 => rootFinished)
  BY DEF Awake, Obedient
<1>o. /\ pos = 17 => Current("label") /\ Signal = "TERM"
      /\ \A i \in 0..(MaxWaits - 1) : /\ pos = 4 * i + 21 => Current("check")
                                      /\ pos = 4 * i + 22 => Current("label") /\ Signal = "TERM"
  BY StopOps
<1>1. CASE Doing
  <2>1. /\ pos' = pos + 1 /\ ~scanned'
        /\ Current("label") => scanned /\ Send(snap, Signal)
        /\ Current("check") => ~MayReturn
    BY <1>1 DEF Doing
  <2>2. ASSUME pos >= 6, Current("label"), Signal = "TERM", Label \subseteq snap PROVE Label' = {}
    BY <1>a, <2>1, <2>2, TermKills
  <2>3. pos' = 18 => Label' = {} \/ late >= 1
    <3> SUFFICES ASSUME pos = 17 PROVE Label' = {} \/ late >= 1
      BY <1>k, <2>1
    <3>1. Current("label") /\ Signal = "TERM" /\ scanned
      BY <1>o, <2>1
    <3> QED
      BY <1>d, <2>2, <3>1
  <2>4. ASSUME NEW i \in 0..MaxWaits, pos' \in (4 * i + 19)..(4 * i + 21), pos' <= Before
        PROVE  late >= i /\ (Label' = {} \/ late >= i + 1)
    <3>1. CASE pos = 4 * i + 18 /\ i = 0
      <4>1. pos = 18
        BY <3>1
      <4> QED
        BY <1>d, <1>k, <1>s, <3>1, <4>1
    <3>2. CASE pos = 4 * i + 18 /\ i # 0
      <4> DEFINE j == i - 1
      <4>1. j \in 0..(MaxWaits - 1) /\ pos = 4 * j + 22 /\ j + 1 = i /\ j + 2 = i + 1 /\ pos >= 6
        BY <1>k, <3>2
      <4> HIDE DEF j
      <4>2. late >= j + 1 /\ (scanned => Label \subseteq snap \/ late >= j + 2)
        BY <1>d, <4>1
      <4>3. Current("label") /\ Signal = "TERM" /\ scanned
        BY <1>o, <2>1, <4>1
      <4> QED
        BY <2>2, <4>1, <4>2, <4>3
    <3>3. CASE pos # 4 * i + 18
      <4>1. pos \in (4 * i + 19)..(4 * i + 21) /\ pos <= Before
        BY <1>k, <2>1, <2>4, <3>3
      <4> QED
        BY <1>d, <1>s, <4>1
    <3> QED
      BY <3>1, <3>2, <3>3
  <2>5. ASSUME NEW i \in 0..(MaxWaits - 1), pos' = 4 * i + 22 PROVE late >= i + 1
    <3>0. pos + 1 = 4 * i + 22
      BY <2>1, <2>5
    <3>1. /\ i \in 0..MaxWaits /\ pos = 4 * i + 21 /\ pos \in (4 * i + 19)..(4 * i + 21) /\ pos <= Before
          /\ pos >= 16
      BY <1>k, <3>0
    <3>2. Current("check")
      <4>1. pos = 4 * i + 21 => Current("check")
        BY <1>o
      <4> QED
        BY <3>1, <4>1
    <3>3. Label # {}
      BY <1>a, <2>1, <3>1, <3>2 DEF MayReturn
    <3> QED
      BY <1>d, <3>1, <3>3
  <2>6. pos' > Before => late >= MaxWaits
    <3>1. CASE pos = Before
      <4>1. MaxWaits \in 0..MaxWaits /\ pos \in (4 * MaxWaits + 19)..(4 * MaxWaits + 21) /\ pos <= Before
        BY <1>k, <3>1
      <4> QED
        BY <1>d, <4>1
    <3>2. CASE pos # Before
      <4>1. pos' > Before => pos > Before
        BY <1>k, <2>1, <3>2
      <4> QED
        BY <1>d, <4>1
    <3> QED
      BY <3>1, <3>2
  <2> QED
    BY <2>1, <2>3, <2>4, <2>5, <2>6
<1>2. CASE Seeing
  <2>1. pos' = pos /\ status' = status /\ labelled' = labelled /\ (Current("label") => snap' = Label)
    BY <1>2 DEF Seeing, procs
  <2>2. Label' = Label
    BY <2>1 DEF Alive, Label
  <2> QED
    BY <1>d, <1>o, <2>1, <2>2
<1> QED
  BY <1>1, <1>2, ObedientTurn

LEMMA ObedientFork ==
  ASSUME ProcsOK, CallOK, Awake, Dwindling, NEW p \in Procs, NEW c \in Procs, NEW group \in BOOLEAN,
         NEW label \in BOOLEAN, NEW deaf \in BOOLEAN, Fork(p, c, group, label, deaf)
  PROVE  Awake' /\ Dwindling'
<1>k. /\ pos \in Nat /\ late \in Nat /\ MaxWaits \in Nat /\ Before = 19 + 4 * MaxWaits /\ Before' = Before
      /\ Len(WakePhase) = 10
  BY StopProgram, StopGroupAssumption DEF CallOK, Before, WakePhase, TermPhase, Op, Repeat
<1>1. /\ UNCHANGED <<call, pos, snap, scanned, rootFinished>>
      /\ stubborn \subseteq stubborn'
      /\ late' = IF Terminating /\ ~Killing /\ stubborn' = {} THEN late + 1 ELSE late
  BY DEF Fork, local
<1>2. /\ Obedient' /\ pos >= 12 /\ pos <= Before => late' = late + 1
      /\ late' \in {late, late + 1}
  <2>1. Obedient' /\ pos >= 12 /\ pos <= Before => Terminating /\ ~Killing /\ stubborn' = {}
    BY <1>k, <1>1 DEF Terminating, Killing, Before, Obedient
  <2> QED
    BY <1>1, <2>1
<1>3. /\ status'[c] = "running" /\ \A q \in Procs : q # c => status'[q] = status[q]
      /\ status[p] = "running" /\ Root # c /\ Root \in Procs
      /\ p \notin labelled => labelled' = labelled
      /\ labelled' \subseteq labelled \cup {c} /\ c \notin labelled
  <2>1. labelled' \subseteq labelled \cup {c}
    BY DEF Fork
  <2> QED
    BY <2>1, ForkFacts, RootIsProc
<1>4. Label = {} => Label' = {}
  <2> SUFFICES ASSUME Label = {}, NEW q \in Label' PROVE FALSE
    OBVIOUS
  <2>1. p \notin labelled
    BY <1>3 DEF Label, Alive
  <2>2. q \in labelled /\ q \in Procs /\ q # c /\ q \in Alive'
    BY <1>3, <2>1 DEF Label, Alive
  <2>3. q \in Alive
    BY <1>3, <2>2 DEF Alive
  <2> QED
    BY <2>2, <2>3 DEF Label
<1>5. Asleep(Label)' \subseteq Asleep(Label)
  <2> SUFFICES ASSUME NEW q \in Label', status'[q] = "stopped" PROVE q \in Label /\ status[q] = "stopped"
    BY DEF Asleep
  <2>1. q \in Procs /\ q \in labelled' /\ q # c
    BY <1>3 DEF Label, Alive
  <2>2. q \in labelled /\ status[q] = "stopped"
    BY <1>3, <2>1
  <2> QED
    BY <2>1, <2>2 DEF Label, Alive
<1>6. status'[Root] = status[Root] /\ (Root \in Alive' <=> Root \in Alive)
  BY <1>3 DEF Alive
<1>7. Obedient' => Obedient
  BY <1>1 DEF Obedient
<1>8. Awake'
  BY <1>1, <1>5, <1>6, <1>7 DEF Awake
<1> HIDE DEF Before
<1>9. Dwindling'
  <2> SUFFICES ASSUME Obedient'
               PROVE  /\ pos = 17 => late' >= 1
                      /\ pos = 18 => late' >= 1
                      /\ \A i \in 0..MaxWaits :
                           pos \in (4 * i + 19)..(4 * i + 21) /\ pos <= Before => late' >= i /\ late' >= i + 1
                      /\ \A i \in 0..(MaxWaits - 1) :
                           pos = 4 * i + 22 => late' >= i + 1 /\ late' >= i + 2
                      /\ pos > Before => late' >= MaxWaits
    BY <1>k, <1>1, <1>7 DEF Dwindling
  <2>1. /\ \A i \in 0..MaxWaits : pos \in (4 * i + 19)..(4 * i + 21) /\ pos <= Before => late >= i
        /\ \A i \in 0..(MaxWaits - 1) : pos = 4 * i + 22 => late >= i + 1
        /\ pos > Before => late >= MaxWaits
    BY <1>7 DEF Dwindling
  <2>2. pos >= 12 /\ pos <= Before => late' = late + 1
    BY <1>2
  <2>3. ASSUME NEW i \in 0..MaxWaits, pos \in (4 * i + 19)..(4 * i + 21), pos <= Before
        PROVE  late' >= i /\ late' >= i + 1
    BY <1>k, <2>1, <2>2, <2>3
  <2>4. ASSUME NEW i \in 0..(MaxWaits - 1), pos = 4 * i + 22 PROVE late' >= i + 1 /\ late' >= i + 2
    BY <1>k, <2>1, <2>2, <2>4
  <2>5. pos > Before => late' >= MaxWaits
    BY <1>k, <1>2, <2>1
  <2>6. (pos = 17 => late' >= 1) /\ (pos = 18 => late' >= 1)
    BY <1>k, <2>2
  <2> QED
    BY <2>3, <2>4, <2>5, <2>6
<1> QED
  BY <1>8, <1>9

\* Who exits is neither asleep nor signalled.
LEMMA ObedientExit ==
  ASSUME ProcsOK, CallOK, Awake, Dwindling, NEW p \in Procs, Exit(p)
  PROVE  Awake' /\ Dwindling'
<1>1. UNCHANGED <<call, pos, snap, scanned, rootFinished, late>>
  BY DEF Exit, local, forks
<1>2. Shrinks /\ Label' \subseteq Label /\ \A q \in Procs : status'[q] = "stopped" <=> status[q] = "stopped"
  BY ExitFacts, LabelShrinks
<1>3. Before' = Before /\ Root \in Procs
  BY RootIsProc DEF Before, WakePhase, TermPhase, Op, Repeat
<1>4. Asleep(Label)' \subseteq Asleep(Label)
  <2>1. Label \subseteq Procs
    BY DEF Label, Alive
  <2> QED
    BY <1>2, <2>1 DEF Asleep
<1>5. /\ status'[Root] = "stopped" => status[Root] = "stopped"
      /\ Root \in Alive' => Root \in Alive
      /\ Obedient' => Obedient
  BY <1>1, <1>2, <1>3 DEF Shrinks, Obedient
<1> HIDE DEF Before
<1>6. Awake'
  BY <1>1, <1>4, <1>5 DEF Awake
<1>7. Dwindling'
  BY <1>1, <1>2, <1>3, <1>5 DEF Dwindling
<1> QED
  BY <1>6, <1>7

(***************************************************************************)
(* The inductive invariant.                                                *)
(***************************************************************************)

LEMMA InitInv == Init => IInv
<1> SUFFICES ASSUME Init PROVE IInv
  OBVIOUS
<1>1. /\ status = [p \in Procs |-> IF p = Root THEN "running" ELSE "unborn"]
      /\ parent = [p \in Procs |-> 0] /\ inGroup = {Root} /\ labelled = {Root} /\ termPending = {}
      /\ stubborn \subseteq {Root}
      /\ call = "none" /\ pos = 0 /\ last = "none" /\ snap = {} /\ scanned = FALSE /\ known = {}
      /\ rootFinished = FALSE /\ births = 0 /\ late = 0 /\ calls = 0
  BY DEF Init
<1>2. Root \in Procs /\ 0 \notin Procs /\ 0 \in 0..NumProcs /\ 0 \in 0..MaxCalls
  BY RootIsProc, StopGroupAssumption
<1>3. ProcsOK
  <2>1. status \in [Procs -> Status] /\ status[Root] = "running"
    BY <1>1, <1>2 DEF Status
  <2>2. parent \in [Procs -> 0..NumProcs] /\ \A p \in Procs : parent[p] = 0
    BY <1>1, <1>2
  <2>3. inGroup \subseteq Procs /\ labelled \subseteq Procs /\ stubborn \subseteq Procs
    BY <1>1, <1>2
  <2> QED
    BY <1>1, <1>2, <2>1, <2>2, <2>3 DEF ProcsOK
<1>4. Program(call) = << >> /\ Len(Program(call)) = 0
  BY <1>1 DEF Program
<1>5. CallOK
  <2>1. pos \in Nat /\ births \in Nat /\ late \in Nat /\ pos <= Len(Program(call)) + 1
    BY <1>1, <1>4
  <2> QED
    BY <1>1, <1>2, <2>1 DEF CallOK
<1>6. Pausing
  BY <1>1 DEF Pausing
<1>7. Resuming
  BY <1>1 DEF Resuming
<1>8. Stopping
  BY <1>1 DEF Stopping, StopIsComplete
<1>9. Awake /\ Dwindling
  BY <1>1 DEF Awake, Dwindling, Obedient
<1> QED
  BY <1>3, <1>5, <1>6, <1>7, <1>8, <1>9 DEF IInv

\* A step of legion's thread: one call runs, the others have nothing to say.
LEMMA ControllerStep ==
  ASSUME IInv, Controller
  PROVE  IInv'
<1>1. ProcsOK /\ CallOK /\ Pausing /\ Resuming /\ Stopping /\ Awake /\ Dwindling
  BY DEF IInv
<1>2. ProcsOK' /\ CallOK'
  BY <1>1, ControllerFacts
<1>3. /\ call \in {"pause", "resume", "stop"}
      /\ call' \in {call, "none"} /\ last' \in {"none", call}
  BY <1>1, ControllerCalls DEF CallOK
<1>4. Pausing'
  <2>1. CASE call = "pause"
    BY <1>1, <2>1, PausingCall
  <2>2. CASE call # "pause"
    BY <1>3, <2>2 DEF Pausing
  <2> QED
    BY <2>1, <2>2
<1>5. Resuming'
  <2>1. CASE call = "resume"
    BY <1>1, <2>1, ResumingCall
  <2>2. CASE call # "resume"
    BY <1>3, <2>2 DEF Resuming
  <2> QED
    BY <2>1, <2>2
<1>6. Stopping'
  <2>1. CASE call = "stop"
    BY <1>1, <2>1, StoppingCall
  <2>2. CASE call # "stop"
    BY <1>3, <2>2 DEF Stopping, StopIsComplete
  <2> QED
    BY <2>1, <2>2
<1>7. Awake' /\ Dwindling'
  <2>1. CASE call = "stop"
    BY <1>1, <2>1, AwakeCall, DwindlingCall
  <2>2. CASE call # "stop"
    BY <1>3, <2>2 DEF Awake, Dwindling, Obedient
  <2> QED
    BY <2>1, <2>2
<1> QED
  BY <1>2, <1>4, <1>5, <1>6, <1>7 DEF IInv

LEMMA CallStep ==
  ASSUME IInv, NEW c \in Operations, Call(c)
  PROVE  IInv'
<1>1. /\ ProcsOK /\ CallOK /\ UNCHANGED procs
      /\ call' = c /\ pos' = 1 /\ last' = "none" /\ snap' = {} /\ scanned' = FALSE /\ known' = {}
      /\ rootFinished' = FALSE /\ births' = 0 /\ late' = 0 /\ calls' = calls + 1 /\ calls < MaxCalls
  BY DEF IInv, Call
<1>2. ProcsOK'
  BY <1>1, UnchangedProcs
<1>3. c \in {"pause", "resume", "stop"}
  BY StopGroupAssumption
<1>4. Len(Program(c)) \in Nat /\ Program(call)' = Program(c)
  BY <1>1, <1>3, ProgramLength DEF Program
<1>5. calls' \in 0..MaxCalls
  BY <1>1, StopGroupAssumption DEF CallOK
<1>6. births' \in Nat /\ late' \in Nat /\ pos' \in Nat /\ pos' <= Len(Program(c)) + 1 /\ pos' >= 1
  BY <1>1, <1>4
<1>7. CallOK'
  BY <1>1, <1>3, <1>4, <1>5, <1>6 DEF CallOK
<1>8. ~(pos' >= 3) /\ pos' # 3 /\ pos' # 4 /\ pos' # 5 /\ ~(pos' >= 4)
  BY <1>1
<1>9. Pausing'
  BY <1>1, <1>8 DEF Pausing
<1>10. Resuming'
  BY <1>1, <1>8 DEF Resuming
<1>11. Before \in Nat /\ Before' = Before
  BY StopProgram DEF Before, WakePhase, TermPhase, Op, Repeat
<1>12. pos' # Before + 3 /\ ~(pos' >= Before + 4) /\ ~(pos' >= Before + 6)
  BY <1>1, <1>11
<1>13. Stopping'
  BY <1>1, <1>11, <1>12 DEF Stopping, StopIsComplete
<1>14. /\ Before = 19 + 4 * MaxWaits /\ MaxWaits \in Nat
  BY StopProgram, StopGroupAssumption
<1> HIDE DEF Before
<1>15. Awake'
  <2>1. ~(pos' >= 4) /\ pos' # 5 /\ ~(pos' >= 6) /\ ~(pos' >= 12) /\ ~(pos' >= 16)
    BY <1>1
  <2> QED
    BY <2>1 DEF Awake
<1>16. Dwindling'
  <2>1. /\ pos' # 17 /\ pos' # 18 /\ ~(pos' > Before)
        /\ \A i \in 0..MaxWaits : pos' \notin (4 * i + 19)..(4 * i + 21)
        /\ \A i \in 0..(MaxWaits - 1) : pos' # 4 * i + 22
    BY <1>1, <1>14
  <2> QED
    BY <1>11, <2>1 DEF Dwindling
<1> QED
  BY <1>2, <1>7, <1>9, <1>10, <1>13, <1>15, <1>16 DEF IInv

\* The life of the processes leaves the call alone but for the births.
LEMMA WorkerCallOK ==
  ASSUME CallOK, UNCHANGED <<call, pos, snap, scanned, known, rootFinished, last, calls>>,
         births' \in Nat, late' \in Nat, status[Root] = "gone" => status'[Root] = "gone"
  PROVE  CallOK'
<1>1. Program(call)' = Program(call) /\ (Current("tree")' <=> Current("tree"))
      /\ (Current("label")' <=> Current("label"))
  BY DEF Program, Current
<1> QED
  BY <1>1 DEF CallOK

LEMMA WorkerStep ==
  ASSUME IInv, Worker
  PROVE  IInv'
<1>1. ProcsOK /\ CallOK /\ Pausing /\ Resuming /\ Stopping /\ Awake /\ Dwindling
  BY DEF IInv
<1>2. ASSUME NEW p \in Procs, NEW c \in Procs, NEW group \in BOOLEAN, NEW label \in BOOLEAN,
             NEW deaf \in Deaf, Fork(p, c, group, label, deaf)
      PROVE  IInv'
  <2>1. deaf \in BOOLEAN
    BY StopGroupAssumption
  <2>2. /\ UNCHANGED <<call, pos, snap, scanned, known, rootFinished, last, calls>>
        /\ births' \in {births, births + 1} /\ late' \in {late, late + 1}
    BY <1>2 DEF Fork, local
  <2>3. births' \in Nat /\ late' \in Nat
    BY <1>1, <2>2 DEF CallOK
  <2>4. ProcsOK' /\ (status[Root] = "gone" => status'[Root] = "gone")
    BY <1>1, <1>2, <2>1, ForkFacts, RootIsProc
  <2>5. CallOK'
    BY <1>1, <2>2, <2>3, <2>4, WorkerCallOK
  <2>6. Pausing'
    BY <1>1, <1>2, <2>1, PausingFork
  <2>7. Resuming'
    BY <1>1, <1>2, <2>1, <2>2, ForkAwake, ResumingWorker
  <2>8. Stopping'
    BY <1>1, <1>2, <2>1, StoppingFork
  <2>9. Awake' /\ Dwindling'
    BY <1>1, <1>2, <2>1, ObedientFork
  <2> QED
    BY <2>4, <2>5, <2>6, <2>7, <2>8, <2>9 DEF IInv
<1>3. ASSUME NEW p \in Procs, Exit(p) PROVE IInv'
  <2>1. UNCHANGED <<call, pos, snap, scanned, known, rootFinished, last, births, late, calls>>
    BY <1>3 DEF Exit, local, forks
  <2>2. /\ ProcsOK' /\ Shrinks /\ (status[Root] = "gone" => status'[Root] = "gone")
        /\ \A q \in Procs : status'[q] = "stopped" => status[q] = "stopped"
    BY <1>1, <1>3, ExitFacts, LabelShrinks
  <2>3. CallOK'
    <3>1. births' \in Nat /\ late' \in Nat
      BY <1>1, <2>1 DEF CallOK
    <3> QED
      BY <1>1, <2>1, <2>2, <3>1, WorkerCallOK
  <2>4. Pausing'
    BY <1>1, <1>3, PausingExit
  <2>5. Resuming'
    BY <1>1, <2>1, <2>2, StayAwake, ResumingWorker
  <2>6. Stopping'
    BY <1>1, <1>3, StoppingExit
  <2>7. Awake' /\ Dwindling'
    BY <1>1, <1>3, ObedientExit
  <2> QED
    BY <2>2, <2>3, <2>4, <2>5, <2>6, <2>7 DEF IInv
<1> QED
  BY <1>2, <1>3 DEF Worker

LEMMA StutterStep ==
  ASSUME IInv, UNCHANGED vars
  PROVE  IInv'
<1>1. UNCHANGED <<status, parent, inGroup, labelled, stubborn, termPending, call, pos, snap, scanned,
                  known, rootFinished, last, births, late, calls>>
  BY DEF vars, procs, local, forks
<1>2. ProcsOK' /\ CallOK'
  BY <1>1 DEF IInv, ProcsOK, CallOK, Program, Current
<1>3. Tree' = Tree /\ Label' = Label
  BY <1>1 DEF Tree, IsFamily, Label, Alive
<1>4. Pausing'
  BY <1>1, <1>3 DEF IInv, Pausing, GroupStopped, TreeStopped, Alive
<1>5. Resuming'
  BY <1>1, <1>3 DEF IInv, Resuming, Asleep
<1>6. Before' = Before
  BY DEF Before, WakePhase, TermPhase, Op, Repeat
<1>7. Stopping'
  BY <1>1, <1>3, <1>6 DEF IInv, Stopping, StopIsComplete
<1> HIDE DEF Before
<1>8. Awake' /\ Dwindling'
  BY <1>1, <1>3, <1>6 DEF IInv, Awake, Dwindling, Obedient, Asleep, Alive
<1> QED
  BY <1>2, <1>4, <1>5, <1>7, <1>8 DEF IInv

\* The invariant of every process tree, call and step.
THEOREM Invariance == Spec => []IInv
<1>1. IInv /\ [Next]_vars => IInv'
  <2> SUFFICES ASSUME IInv, [Next]_vars PROVE IInv'
    OBVIOUS
  <2> QED
    BY ControllerStep, CallStep, WorkerStep, StutterStep DEF Next
<1> QED
  BY <1>1, InitInv, PTL DEF Spec

\* Every variable keeps its type; a process with SIGTERM pending is stopped,
\* and root_finished means that waitpid has answered.
THEOREM TypeCorrect == Spec => []TypeOK
<1>1. IInv => TypeOK
  <2> SUFFICES ASSUME IInv PROVE TypeOK
    OBVIOUS
  <2>1. ProcsOK /\ CallOK
    BY DEF IInv
  <2>2. Len(Program(call)) \in Nat
    BY <2>1, ProgramLength DEF CallOK
  <2>3. pos \in 0..(Len(Program(call)) + 1)
    BY <2>1, <2>2 DEF CallOK
  <2>4. rootFinished \in {FALSE, status[Root] = "gone"}
    BY <2>1 DEF CallOK
  <2> QED
    BY <2>1, <2>3, <2>4 DEF TypeOK, ProcsOK, CallOK, Status
<1> QED
  BY <1>1, Invariance, PTL

\* A pause that answered true has stopped the whole process group, and the
\* tree if at most one process was forked while it ran: for trees of any
\* size, although pids are signalled after the scan that found them.
THEOREM PauseTheorem == Spec => []PauseIsComplete
<1>1. IInv => PauseIsComplete
  <2> SUFFICES ASSUME IInv, last = "pause", status[Root] = "stopped"
               PROVE  /\ \A p \in inGroup \cap Alive : status[p] = "stopped"
                      /\ births <= 1 => \A p \in Tree : status[p] = "stopped"
    BY DEF PauseIsComplete
  <2>1. GroupStopped /\ (births <= 1 => TreeStopped)
    BY DEF IInv, Pausing
  <2> QED
    BY <2>1 DEF GroupStopped, TreeStopped
<1> QED
  BY <1>1, Invariance, PTL

\* A resume that answered true leaves nobody stopped in the group or the tree.
THEOREM ResumeTheorem == Spec => []ResumeIsComplete
<1>1. IInv => ResumeIsComplete
  <2> SUFFICES ASSUME IInv, last = "resume", NEW p \in (inGroup \cup Tree) \cap Alive
               PROVE  status[p] = "running"
    BY DEF ResumeIsComplete
  <2>1. Asleep(inGroup) = {} /\ Asleep(Tree) = {}
    BY DEF IInv, Resuming
  <2>2. status[p] \in {"running", "stopped"}
    BY DEF Alive
  <2> QED
    BY <2>1, <2>2 DEF Asleep
<1> QED
  BY <1>1, Invariance, PTL

\* A stop that returned has waited for the root, and no process of the fuzzer
\* lives unless one was forked while SIGKILL was being sent.
THEOREM StopTheorem == Spec => []StopIsComplete
<1>1. IInv => StopIsComplete
  BY DEF IInv, Stopping
<1> QED
  BY <1>1, Invariance, PTL

\* A stop gets as far as SIGKILL only if some process of the worker ignores
\* SIGTERM or, after SIGTERM was sent to the group, at least one process was
\* forked for every turn of the loop: also for a worker that was paused, for
\* process trees of any size and any number of turns.
THEOREM DeafTheorem == Spec => []KillOnlyTheDeaf
<1>1. IInv => KillOnlyTheDeaf
  <2> SUFFICES ASSUME IInv, Killing, stubborn = {} PROVE ~(late < MaxWaits)
    BY DEF KillOnlyTheDeaf
  <2>1. late \in Nat /\ MaxWaits \in Nat /\ pos > Before /\ Obedient
    BY StopGroupAssumption DEF IInv, CallOK, Killing, Before, Obedient
  <2>2. late >= MaxWaits
    BY <2>1 DEF IInv, Dwindling
  <2> QED
    BY <2>1, <2>2
<1> QED
  BY <1>1, Invariance, PTL
=============================================================================
