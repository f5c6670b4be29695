SPECIFICATION Spec
CONSTANTS
  Fuzzers = {f1, f2}
  f1 = f1
  f2 = f2
  NumSeeds = 3
  Edges = {1, 2}
  Paths = {11, 12, 13}
  FeaturesOf <- MCFeaturesOf
  Deep = {2}
  TooLarge = {3}
  InitialPool = {1}
  Sampled = {f2}
  DoMinimize = TRUE
  MaxWipes = 0
  Campaigns = 2
  Rounds = 2
  MaxWindows = 0
  MaxLosses = 0
INVARIANTS
  DiscoveriesReachThePool
  NewOnlyOnce
