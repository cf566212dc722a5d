SPECIFICATION Spec
CONSTANTS
  Accounts = {a1}
  Refs = {r1, r2}
  Amounts = {1, 2}
  LotLife = 2
  PeriodLen = 1
  StopInside = TRUE
  MaxPending = 1
  MaxHolds = 2
  MaxGrants = 1
  MaxTime = 3
  MaxStops = 1
INVARIANTS CreditConserved NeitherMadeNorLost PaymentIsOneLot
PROPERTY PocketsInOrder
SYMMETRY RefSymmetry
CHECK_DEADLOCK FALSE
