SPECIFICATION Spec
CONSTANTS
  Accounts = {a1, a2}
  Cards = {c1}
  Stores = {s1}
  Nobody = Nobody
  TIERS <- Ladder
  Intervals = {FALSE}
  Month = 2
  YearMonths = 2
  Grace = 1
  MaxNotes = 2
  Offered = {1, 2}
  MaxMinted = 2
  MaxCalls = 1
  MaxEvents = 3
  MaxTime = 3
SYMMETRY Swap
INVARIANTS OneAllowanceUnlessReplaced PaysOneWay MonthWithinTierUnlessAstray OneHolder
CHECK_DEADLOCK FALSE
