\* Requests of a session next to two collectors.
CONSTANTS
  Putters = {c1}
  Callers = {c2}
  Collectors = {g1, g2}
  SessionIDs = {s1}
  TTL = 2
  NoTick = NoTick
  MaxTime = 3
SPECIFICATION FairSpec
PROPERTIES
  IdleIsForgotten
  OnlyIdleSwept
\* The clock runs out.
CHECK_DEADLOCK FALSE
