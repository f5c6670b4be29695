SPECIFICATION Spec
CONSTANTS
  NumFuzzers = 3
  Units = 2
  Workers = 2
  Files = {1, 2, 3, 4}
  Owner <- MCOwner
  Dir <- MCDir
  Name <- MCName
  Text <- MCText
  FeaturesOf <- MCFeaturesOf
  Crashing = {13}
  Rounds = 2
  RoundTime = 1
  Period = 1
  DoMinimize = TRUE
  Campaigns = 2
INVARIANTS
  ArchivedSeedsAreSynced
  FoundSeedsAreArchived
  FuzzersShareThePool
PROPERTIES
  AbortNeedsFlush
