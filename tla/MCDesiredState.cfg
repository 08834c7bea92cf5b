\* Up to three leases of two names, in every order; every hostname of up to three characters.
CONSTANTS
  Alnum <- Alphabet
  Upper = {"A"}
  LowerOf <- MCLowerOf
  MaxLabel = 3
  MaxName = 8
  Invalid = Invalid
  Rejected = Rejected
  MaxU32 = 20
  Envs <- MCEnvs
  Addrs = {1, 2, 3}
  Hosts <- MCHosts
  NoHost = NoHost
  Subnets = {10, 20, 30}
  None = None
  MaxU64 = 5
  Now = 2
  LeaseSets <- MCLeaseSets
SPECIFICATION Spec
INVARIANTS
  BestSoFar
  OrderIndependent
  KnowsItsOwn
  ScopeByTheRules
  OneNameOneHost
\* The loop ends.
CHECK_DEADLOCK FALSE
