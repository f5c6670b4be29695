SPECIFICATION WalkSpec
CONSTANTS
  NumFunctions = 4
  Roots = {0, 1}
  MaxCalls = 5
INVARIANTS
  VisitedAtCallDepth
