SPECIFICATION Spec
CONSTANTS
  DriveButtons <- MCDriveButtons
  HasPID = FALSE
PROPERTY
  OneCallerAtATime
