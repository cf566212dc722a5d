SPECIFICATION Spec
CONSTANTS
  Apps = {p}
  Kinds = {"question", "purchase"}
  Ahead <- Same
  ClockSkew = 0
  NonceKeep = 0
  ReplyKeep = 1
  ReplyMax = 1
  StrikesPerDay = 1
  Tries <- Few
  MaxSigned = 2
  MaxStops = 1
  MaxTime = 1
INVARIANTS CarriedOutOnce ChargedOnceUnlessRestarted ToldTheTruth AnsweredIsKept DeclinesBounded
PROPERTY CallsEnd
CHECK_DEADLOCK FALSE
