SPECIFICATION FairSpec
CONSTANTS
  c1 = c1
  c2 = c2
  c3 = c3
  s1 = s1
  s2 = s2
  Calls = {c1, c2, c3}
  Sessions = {s1, s2}
  SessionOf <- TwoSessions
  Threads = 1
  WindowSize = 1
  MinCycleLength = 1
  MaxFaults = 1
  Impatient = {c1}
PROPERTY CallsEnd
CHECK_DEADLOCK FALSE
