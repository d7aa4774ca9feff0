SPECIFICATION MCFairRobot
CONSTANTS
  Operators <- MCOperators
  Cap = 1
  DriveButtons <- MCDriveButtons
  HasPID = FALSE
INVARIANT
  TypeOK
PROPERTIES
  TaskEnds
  StickIsSent
