\* A put next to a delete effect that has looked at the stub it is about to delete.
SPECIFICATION MCSpec
CONSTANTS
  c1 = c1
  c2 = c2
  s1 = s1
  m1 = m1
  m2 = m2
  NoStub = NoStub
  NoId = 0
  Global = Global
  Ids = {1, 2}
  Calls = {c1, c2}
  Sessions = {s1}
  Contents = {m1, m2}
  Loaded <- MCLoaded
  Bodies <- MCBodies
  Shapes <- MCShapes
  MaxPuts = 1
  MaxUp = 1
\* All calls are done, no put is left.
CHECK_DEADLOCK FALSE
PROPERTY DeletesKeepSessions
