SPECIFICATION Spec
CONSTANTS
  NumSeeds = 3
  NumEdges = 2
  Jobs = 2
  Timeouts = {TRUE, FALSE}
INVARIANTS
  TasksOwnTheirResources
  CountsAreExact
  ReplaysAreHarmless
  CountedEdgesAreNamed
PROPERTIES
  BatchEnds
