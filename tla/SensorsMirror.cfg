SPECIFICATION SensorsSpec
CONSTANTS
  AnchorDist = 47
  TagSep = 10
  Tolerance = 1
  Places <- MCPlaces
  Packets = 2
  Modes = {"none", "remote", "local"}
  MaxScans = 2
PROPERTY
  FixIsTheRobot
CHECK_DEADLOCK FALSE
