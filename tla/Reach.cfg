SPECIFICATION FairSpec
CONSTANTS
  NDoors = 2
  DeafAfter = 2
  MaxFaults = 2
  DOORS_TRIED = 2
  Listed = {1, 2}
  Others = {8, 9}
PROPERTIES NeverBothEnds DoorsSettle DoorFound
CHECK_DEADLOCK FALSE
