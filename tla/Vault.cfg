SPECIFICATION Spec
CONSTANTS
  Chats = {c1, c2}
  Commands = {p1}
  Platforms = {"desktop", "ios", "android", "dev"}
  MaxEdits = 2
  MaxFaults = 2
  MaxStops = 2
INVARIANTS ChatKept 
CHECK_DEADLOCK FALSE
