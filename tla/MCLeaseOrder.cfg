\* An old file merged after the last row was appended.
CONSTANTS
  Addrs = {a1, a2}
  MaxRetries = 2
  MaxTime = 6
SPECIFICATION Spec
INVARIANT
  NewerRowWins
