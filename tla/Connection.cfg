SPECIFICATION FairSpec
CONSTANTS
  Loads <- MCLoads
  Stoppers <- MCBoth
  Faults = TRUE
INVARIANTS
  TypeOK
  DedupWindow
  AckedIsDelivered
  NothingForgotten
PROPERTIES
  CommandsInOrder
  StopReachesPeer
  TelemetryInOrder
  Settles
