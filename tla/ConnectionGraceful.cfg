SPECIFICATION Spec
CONSTANTS
  Loads <- MCOneCommand
  Stoppers <- MCClient
  Faults = FALSE
INVARIANTS
  GracefulStop
