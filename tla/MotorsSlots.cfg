SPECIFICATION Spec
CONSTANTS
  Motors = {1, 2, 3}
  Periods <- MCPeriods
  RxCap = 2
  Rounds = 2
  Scenarios <- SlotScenarios
INVARIANT GetsSlot
