SPECIFICATION WalkSpec
CONSTANTS
  NumFunctions = 4
  Roots = {1}
  MaxCalls = 5
INVARIANT
  DeepAreReachable
