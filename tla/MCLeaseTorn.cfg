\* The file set aside between discovery and read.
CONSTANTS
  Addrs = {a1, a2}
  MaxRetries = 2
  MaxTime = 6
SPECIFICATION Spec
INVARIANT
  CompleteSet
