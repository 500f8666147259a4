SPECIFICATION Spec
CONSTANTS
  Pids <- MCPids
  Callers <- MCPids
  DraftOf <- MCDraftOf
  MaxCreations = 2
  MaxSetups = 2
  MaxFaults = 2
  MaxStarts = 1
INVARIANTS
  DeviceIsWhole
  IdentityIsOne
  PidFileLocks
  SetupAllOrNothing
CHECK_DEADLOCK FALSE
