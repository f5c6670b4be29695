--------------------------- MODULE MCCrashRecord ---------------------------
EXTENDS CrashRecord, TLC

\* Nothing tells the crashes apart.
CrashSymmetry == Permutations(Crashes)
=============================================================================
