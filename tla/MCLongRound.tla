---------------------------- MODULE MCLongRound ----------------------------
(* File 1 is the corpus.  Fuzzer 1 has two workers that both save a file    *)
(* named 2; fuzzer 2 saves another one of that name and one named 3 with    *)
(* the contents that worker 1 of fuzzer 1 found.  Contents 13 crash.        *)
EXTENDS LongRound

MCOwner == [x \in Files |-> <<0, 1, 1, 2, 2>>[x]]
MCDir   == [x \in Files |-> IF Workers = 1 THEN 1 ELSE <<1, 1, 2, 1, 2>>[x]]
MCName  == [x \in Files |-> <<1, 2, 2, 2, 3>>[x]]
MCText  == [x \in Files |-> <<10, 11, 12, 13, 11>>[x]]
MCFeaturesOf == [t \in 10..13 |-> IF t = 10 THEN {0} ELSE {0, t}]
=============================================================================
