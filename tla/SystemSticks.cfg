SPECIFICATION MCFairSystem
CONSTANTS
  Operators <- MCFoldsOut
  Cap = 1
  DriveButtons <- MCDriveButtons
  HasPID = FALSE
PROPERTY CentredSticksStop
