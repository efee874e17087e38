CONSTANTS
  Calls = {c1, c2, c3}
  Workers = 2
  Sessions = {s1}
  Quota = 1
  Forwards = {a1, a2}
  MaxSent = 1
  MaxRecounts = 1
  MaxFaults = 1
  MaxAdmin = 1
SYMMETRY Symmetry
SPECIFICATION Spec
INVARIANTS ForwardsAll OvershootBounded CountedOrPending NeverOvercounted
PROPERTIES KeepsContract
CHECK_DEADLOCK FALSE
