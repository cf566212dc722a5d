SPECIFICATION FairSpec
CONSTANTS
  MaxGeneration = 2
  MaxNumber = 1
  MaxWrites = 3
  MaxRestores = 2
INVARIANTS NoSilentRewind NeverRefusedUnrestored
PROPERTY OwedIsWritten
CHECK_DEADLOCK FALSE
