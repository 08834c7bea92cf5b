\* A listed record is renamed out of the managed suffix before its update is sent.
CONSTANTS
  Ids = {1, 2, 3}
  Managed <- MCManaged
  RawNames <- MCRawNames
  KeyOf <- MCKeyOf
  NotManaged = "out"
  Addrs = {"ip1", "ip2"}
  NoAddr = "none"
  NoRecord = NoRecord
  Rank <- MCRank
  PageSize = 100
  MaxRetries = 1
  Slots = {}
  NoRequest = NoRequest
  MaxEdits = 1
  EditorRecords <- DriftEdits
  EditorRefiles = TRUE
  Sources <- RefileSources
  InitZones <- RefileZones
  DryRuns = {FALSE}
SPECIFICATION Spec
PROPERTIES
  UnmanagedUntouched
