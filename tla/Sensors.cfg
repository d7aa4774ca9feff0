SPECIFICATION SensorsSpec
CONSTANTS
  AnchorDist = 47
  TagSep = 10
  Tolerance = 1
  Places <- MCPlaces
  Packets = 2
  Modes = {"none", "remote", "local"}
  MaxScans = 2
INVARIANTS
  SensorsTypeOK
  PoseIsLast
  OnlyCandidatesVanish
  LogIsSaved
  MotorIsOff
PROPERTIES
  FixStaysTrue
  PoseAdvances
  StopEnds
  StopReturns
  ScanEnds
CHECK_DEADLOCK FALSE
