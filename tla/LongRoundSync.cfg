SPECIFICATION FairSpec
CONSTANTS
  NumFuzzers = 2
  Units = 2
  Workers = 2
  Files = {1, 2, 3, 4, 5}
  Owner <- MCOwner
  Dir <- MCDir
  Name <- MCName
  Text <- MCText
  FeaturesOf <- MCFeaturesOf
  Crashing = {13}
  Rounds = 2
  RoundTime = 1
  Period = 1
  DoMinimize = FALSE
  Campaigns = 1
PROPERTY
  EverySyncCompletes
