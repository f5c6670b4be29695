SPECIFICATION Spec
CONSTANTS
  Fuzzers = {f1, lib}
  Blind = {lib}
  f1 = f1
  lib = lib
  c1 = c1
  c2 = c2
  Crashes = {c1, c2}
  Rounds = 2
  MaxWindows = 2
  MaxDeaths = 1
  MaxFaults = 1
SYMMETRY CrashSymmetry
INVARIANTS
  CrashesArePaidOnce
  RewardsMatchSavedCrashes
PROPERTIES
  RoundStartLosesNoCrash
