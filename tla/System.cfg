SPECIFICATION MCSpec
CONSTANTS
  Operators <- MCOperators
  Cap = 1
  DriveButtons <- MCDriveButtons
  HasPID = FALSE
INVARIANTS
  SystemTypeOK
  StuckButtons
  ModesAgree
  LastIsKnown
  OwnerIsRunning
  LocksTogether
  QuiescentWhenIdle
  SticksDrive
  ExitIsStopped
PROPERTY
  LockProtects
