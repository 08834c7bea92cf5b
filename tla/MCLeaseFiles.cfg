\* Two addresses, five writes of the server, two attempts.
CONSTANTS
  Addrs = {a1, a2}
  MaxRetries = 2
  MaxTime = 6
SPECIFICATION Spec
INVARIANTS
  TypeOK
  CompleteWhenSteady
  FreshWhenInOrder
