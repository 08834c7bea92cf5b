\* One lease file, one name, one failing scan, read or restart, one deletion
\* by another writer; requests are not retried here.
CONSTANTS
  Files = {"csv"}
  Capacity = 1
  MaxVersion <- MCMaxVersion
  MaxFaults = 1
  Ids = {1}
  Managed = {"a"}
  RawNames = {"a"}
  KeyOf <- MCKeyOf
  NotManaged = "out"
  Addrs = {"ip1"}
  NoAddr = "none"
  NoRecord = NoRecord
  Rank <- MCRank
  PageSize = 100
  MaxRetries = 1
  Slots = {}
  NoRequest = NoRequest
  MaxEdits = 1
  EditorRecords = {}
  EditorRefiles = FALSE
  Sources <- MCSources
  InitZones <- MCZones
  DryRuns = {FALSE}
SPECIFICATION Spec
INVARIANTS
  AtRest
PROPERTIES
  IsComposed
  StopsBetweenCycles
  ChangeReachesZone
  Mirrors
\* After the signal the process is gone and nothing more happens.
CHECK_DEADLOCK FALSE
