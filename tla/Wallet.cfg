SPECIFICATION FairSpec
CONSTANTS
  MaxAccounts = 2
  Length = 1
  Charged = 1
  Tries = 1
  MaxMonth = 2
  MaxEdits = 1
  MaxFaults = 1
INVARIANTS PhraseIsChosen DoneHasFate
PROPERTIES MonthsServed
CHECK_DEADLOCK FALSE
