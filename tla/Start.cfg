SPECIFICATION FairSpec
CONSTANTS
  Enclaves = {e1}
  Gateways = {g1, g2}
  OperatorHolds = {g1}
  SilentFor = 2
  MaxStarts = 3
  MaxFaults = 3
INVARIANTS OneKey
PROPERTIES AddressesStay StartsOrStops
CHECK_DEADLOCK FALSE
