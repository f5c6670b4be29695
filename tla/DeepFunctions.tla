--------------------------- MODULE DeepFunctions ---------------------------
(***************************************************************************)
(* graph_analyzer.cc: the distances of functions from the driver in the    *)
(* call graph, by Dijkstra's algorithm over the functions that call        *)
(* others, and the functions whose distance is above 1.5 times the         *)
(* average.  Edges in those deep functions earn reward C3.                 *)
(***************************************************************************)
EXTENDS Integers, FiniteSets, Functions, FiniteSetsExt

CONSTANTS
  NumFunctions,  \* nodes of cgraph.dot
  Roots,         \* nodes that may be LLVMFuzzerTestOneInput; 0 is find_root's -1
  MaxCalls       \* bound: edges of cgraph.dot

Nodes == 1..NumFunctions

ASSUME DeepFunctionsAssumption ==
  NumFunctions \in Nat /\ Roots \subseteq 0..NumFunctions /\ MaxCalls \in Nat

VARIABLES
  walkPc,
  root,
  calls,      \* source_nodes and target_nodes
  unvisited,  \* tentative distances
  distances,  \* final distances
  current,
  deep        \* deep_functions

walkVars == <<walkPc, root, calls, unvisited, distances, current, deep>>

Callers    == {c[1] : c \in calls}
Callees(n) == {m \in Nodes : <<n, m>> \in calls}

\* graph.size() + 10, the distance of a node nobody has reached yet.
Far == Cardinality(Callers) + 10

\* Every caller but the root.
Tentative == [n \in Callers \ {root} |-> Far]

\* parse_dot, find_root, and the start of shortest_paths.
WalkInit ==
  /\ calls \in UNION {kSubset(k, Nodes \X Nodes) : k \in 0..MaxCalls}
  /\ root \in Roots
  /\ unvisited = Tentative
  /\ distances = [n \in {root} |-> 0]
  /\ current = root
  /\ deep = {}
  /\ walkPc = "visit"

\* The unvisited nodes current calls, one call further than it.
Relaxed ==
  [n \in DOMAIN unvisited |->
     IF n \in Callees(current) /\ unvisited[n] > distances[current] + 1
     THEN distances[current] + 1 ELSE unvisited[n]]

\* Fault: the smallest distance is not looked for.
NearestAny(d) == DOMAIN d

\* Any of the nodes at the smallest distance: the order of an unordered_map.
Nearest(d) == {n \in DOMAIN d : \A m \in DOMAIN d : d[n] <= d[m]}

\* unvisited.erase(next)
Erased(d, next) == Restrict(d, DOMAIN d \ {next})

\* One turn of the loop: next is visited.
Visit(next) ==
  /\ walkPc = "visit"
  /\ next \in Nearest(Relaxed)
  /\ distances' = [n \in DOMAIN distances \cup {next} |->
                     IF n = next THEN Relaxed[next] ELSE distances[n]]
  /\ unvisited' = Erased(Relaxed, next)
  /\ current' = next
  /\ UNCHANGED <<walkPc, root, calls, deep>>

\* int average = sum / size; int threshold = average * 1.5
Threshold == (3 * (SumFunction(distances) \div Cardinality(DOMAIN distances))) \div 2

\* find_deep_functions
FindDeep ==
  /\ walkPc = "visit" /\ unvisited = << >>
  /\ deep' = {n \in DOMAIN distances : distances[n] > Threshold}
  /\ walkPc' = "done"
  /\ UNCHANGED <<root, calls, unvisited, distances, current>>

Done == walkPc = "done" /\ UNCHANGED walkVars

WalkNext == (\E n \in Nodes : Visit(n)) \/ FindDeep \/ Done

WalkSpec == WalkInit /\ [][WalkNext]_walkVars

-----------------------------------------------------------------------------
(* Reference: the functions within k calls of the driver.                  *)

Within[k \in 0..NumFunctions] ==
  IF k = 0 THEN {root}
  ELSE LET W == Within[k - 1] IN W \cup {m \in Nodes : \E n \in W : <<n, m>> \in calls}

Reachable == Within[NumFunctions]

\* The shortest chain of calls from the driver to a reachable function.
CallDepth(n) == Min({k \in 0..NumFunctions : n \in Within[k]})

\* Callers and the driver are visited or unvisited, and a distance is a number
\* of calls or Far.
WalkTypeOK ==
  /\ walkPc \in {"visit", "done"}
  /\ current \in DOMAIN distances
  /\ DOMAIN distances \cup DOMAIN unvisited = Callers \cup {root}
  /\ \A n \in DOMAIN distances : distances[n] \in 0..NumFunctions \cup {Far}
  /\ deep \subseteq DOMAIN distances

\* A visited function has its call depth, whichever of several nearest
\* functions the map delivers first; one that the driver never reaches has Far.
VisitedAtCallDepth ==
  \A n \in DOMAIN distances :
    distances[n] = IF n \in Reachable THEN CallDepth(n) ELSE Far

\* "deep functions that are reachable from the driver function" (the log line
\* of run() for each function found).
DeepAreReachable == deep \subseteq Reachable
=============================================================================
