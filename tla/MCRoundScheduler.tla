-------------------------- MODULE MCRoundScheduler --------------------------
(* Three fuzzers: 1 is persistent, 2 is QSYM, 3 is Radamsa.                *)
EXTENDS RoundScheduler
=============================================================================
