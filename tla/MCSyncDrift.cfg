\* A record added between two pages of the listing shifts the next page.
CONSTANTS
  Ids = {1, 2, 3}
  Managed <- MCManaged
  RawNames <- MCRawNames
  KeyOf <- MCKeyOf
  NotManaged = "out"
  Addrs = {"ip1", "ip2"}
  NoAddr = "none"
  NoRecord = NoRecord
  Rank <- MCRank
  PageSize = 1
  MaxRetries = 1
  Slots = {}
  NoRequest = NoRequest
  MaxEdits = 1
  EditorRecords <- DriftEdits
  EditorRefiles = FALSE
  Sources <- DriftSources
  InitZones <- DriftZones
  DryRuns = {FALSE}
SPECIFICATION Spec
INVARIANTS
  SkippedIsKept
