----------------------------- MODULE MCSeedSync -----------------------------
(* With seven seeds, 1 to 4 are the initial corpus, in which edge 2 is rare, *)
(* the fuzzers find the others, and 6 and 7 run along the same path.  With  *)
(* three, every seed has a path of its own, and 2 and 3 share an edge.  The *)
(* configurations make one of each pair too large.                          *)
EXTENDS SeedSync, TLC

MCEdgesOf == IF NumSeeds = 7 THEN <<{1}, {1}, {1}, {1, 2}, {1, 2}, {1, 3}, {1, 3}>>
                             ELSE <<{1}, {1, 2}, {1, 2}>>
MCPathOf == IF NumSeeds = 7 THEN <<11, 11, 12, 13, 14, 15, 15>> ELSE <<11, 12, 13>>
MCFeaturesOf == [s \in Seeds |-> MCEdgesOf[s] \cup {MCPathOf[s]}]

\* Nothing tells the fuzzers apart.
FuzzerSymmetry == Permutations(Fuzzers)
=============================================================================
