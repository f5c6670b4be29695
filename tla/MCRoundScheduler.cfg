SPECIFICATION Spec
CONSTANTS
  NumFuzzers = 3
  Fresh = {3}
  Qsym = {2}
  ResourceUnits = 3
  RoundTime = 4
  MonitorTime = 1
  Rounds = 2
  MaxReward = 2
INVARIANTS
  TypeOK
  BudgetRespected
  ChargedForWhatItHeld
  ChargeIsConserved
  BestIsNoDonor
  QuiescentWhenEvaluating
PROPERTIES
  DonorsStayOut
  CampaignEnds
