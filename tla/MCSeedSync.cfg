SPECIFICATION Spec
CONSTANTS
  Fuzzers = {f1, f2}
  f1 = f1
  f2 = f2
  NumSeeds = 7
  Edges = {1, 2, 3}
  Paths = {11, 12, 13, 14, 15}
  FeaturesOf <- MCFeaturesOf
  Deep = {3}
  TooLarge = {6}
  InitialPool = {1, 2, 3, 4}
  Sampled = {}
  DoMinimize = FALSE
  MaxWipes = 1
  Campaigns = 1
  Rounds = 2
  MaxWindows = 2
  MaxLosses = 1
SYMMETRY FuzzerSymmetry
INVARIANTS
  RewardsReachThePool
  DiscoveriesReachThePool
  NewOnlyOnce
  WindowRewardsAreNew
  WindowsHaveNoC4
