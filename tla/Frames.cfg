SPECIFICATION Spec
CONSTANTS
  MaxParts = 3
  MaxChunks = 3
  MostParts = 2
  MostChunks = 2
  Window = 1
  MaxFaults = 1
  MaxTaken = 2
INVARIANTS AskedOnce FailsOnlyForCause
PROPERTY Completes
CHECK_DEADLOCK FALSE
