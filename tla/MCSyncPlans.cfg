\* Every zone of three records and every desired state; nothing disturbs the cycle.
CONSTANTS
  Ids = {1, 2, 3, 4, 5}
  Managed <- MCManaged
  RawNames <- MCRawNames
  KeyOf <- MCKeyOf
  NotManaged = "out"
  Addrs = {"ip1", "ip2"}
  NoAddr = "none"
  NoRecord = NoRecord
  Rank <- MCRank
  PageSize = 100
  MaxRetries = 1
  Slots = {}
  NoRequest = NoRequest
  MaxEdits = 0
  EditorRecords <- NoEdits
  EditorRefiles = FALSE
  Sources <- PlanSources
  InitZones <- PlanZones
  DryRuns = {FALSE}
SPECIFICATION CalmSpec
INVARIANTS
  PlanReachesDesired
  MinimalPlan
PROPERTIES
  StaysInSync
