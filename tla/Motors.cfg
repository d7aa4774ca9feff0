SPECIFICATION FairSpec
CONSTANTS
  Motors = {1, 2, 3}
  Periods <- MCPeriods
  RxCap = 2
  Rounds = 2
  Scenarios <- MCScenarios
INVARIANTS
  TypeOK
  StatusIsOwn
  FeedbackInOrder
  FlashIsWhole
  SettersKeepApart
  GetsOwn
PROPERTIES
  StatusNeverGoesBack
  UpdateSendsAll
  
