SPECIFICATION Spec
CONSTANTS
  Kinds = {"afl", "qsym", "plain", "single", "fresh"}
  ResourceUnits = 3
  MaxForks = 6
  MaxExits = 2
  MaxCalls = 4
INVARIANTS
  EveryWorkerIsTracked
  OutputDirsAreDistinct
PROPERTIES
  CleanCallDelivers
  ImplementsUnitPool
  CallsReturn
CHECK_DEADLOCK FALSE
