\* Two records to a page; from any calm point on the zone becomes right.
CONSTANTS
  Ids = {1, 2, 3, 4}
  Managed <- MCManaged
  RawNames <- MCRawNames
  KeyOf <- MCKeyOf
  NotManaged = "out"
  Addrs = {"ip1", "ip2"}
  NoAddr = "none"
  NoRecord = NoRecord
  Rank <- MCRank
  PageSize = 2
  MaxRetries = 1
  Slots = {s1}
  NoRequest = NoRequest
  MaxEdits = 1
  EditorRecords <- ConvergeEdits
  EditorRefiles = FALSE
  Sources <- ConvergeSources
  InitZones <- ConvergeZones
  DryRuns = {FALSE}
SPECIFICATION Spec
PROPERTIES
  Convergence
