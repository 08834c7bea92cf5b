\* One page, one retry, one late request, one edit of another writer;
\* with and without DRY_RUN.
CONSTANTS
  Ids = {1, 2, 3}
  Managed <- MCManaged
  RawNames <- MCRawNames
  KeyOf <- MCKeyOf
  NotManaged = "out"
  Addrs = {"ip1", "ip2"}
  NoAddr = "none"
  NoRecord = NoRecord
  Rank <- MCRank
  PageSize = 100
  MaxRetries = 2
  Slots = {s1}
  NoRequest = NoRequest
  MaxEdits = 1
  EditorRecords <- CoreEdits
  EditorRefiles = FALSE
  Sources <- CoreSources
  InitZones <- CoreZones
  DryRuns = {TRUE, FALSE}
SPECIFICATION Spec
INVARIANTS
  TypeOK
  AccountsForPlan
  ServesThroughout
  NeverVanishes
  CleanCycleServes
  HoldsOwnIds
  PublishesLeased
  DryRunForetells
PROPERTIES
  UnmanagedUntouched
  KeepsPromise
