SPECIFICATION Spec
CONSTANTS
  DriveButtons <- MCDriveButtons
  HasPID = FALSE
INVARIANT
  ExitSendsZero
