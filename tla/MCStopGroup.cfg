SPECIFICATION Spec
CONSTANTS
  NumProcs = 3
  MaxWaits = 2
  MaxCalls = 2
  Operations = {"pause", "resume", "stop"}
  Deaf = {TRUE, FALSE}
INVARIANTS
  PauseIsComplete
  ResumeIsComplete
  StopIsComplete
  KillOnlyTheDeaf
PROPERTY
  CallsReturn
CHECK_DEADLOCK FALSE
