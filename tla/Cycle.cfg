SPECIFICATION Spec
CONSTANTS
  c1 = c1
  c2 = c2
  c3 = c3
  s1 = s1
  s2 = s2
  Calls = {c1, c2, c3}
  Sessions = {s1}
  SessionOf <- OneSession
  Threads = 2
  WindowSize = 2
  MinCycleLength = 2
  MaxFaults = 1
  Impatient = {c1}
SYMMETRY Symmetric
INVARIANTS WindowIsRecent AnsweredTurnsAreCompared FlagIsJustified
CHECK_DEADLOCK FALSE
