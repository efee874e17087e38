CONSTANTS
  Calls = {c1, c2}
  Workers = 1
  Sessions = {s1}
  Quota = 1
  Forwards = {}
  MaxSent = 0
  MaxRecounts = 0
  MaxFaults = 0
  MaxAdmin = 0
SPECIFICATION Spec
PROPERTY RefusedOnlyWhenFull
CHECK_DEADLOCK FALSE
