\* Expectations that a test adds after its own verification.
SPECIFICATION TestSpec
CONSTANTS
  Global = Global
  Own = Own
  Other = Other
  Callers = {c1}
  MaxExpectations = 2
  MaxLinks = 2
  MaxStubs = 2
  MaxTimes = 1
  MaxCalls = 2
  MaxFaults = 1
  MaxResets = 1
  MaxPurges = 1
\* The test ends.
CHECK_DEADLOCK FALSE
PROPERTY CleanupVerifies
