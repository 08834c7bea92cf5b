\* Two files that change twice and once, a channel of one, one failing scan, read or restart.
CONSTANTS
  Files <- MCFiles
  Capacity = 1
  MaxVersion <- MCMaxVersion
  MaxFaults = 1
SPECIFICATION Spec
INVARIANTS
  TypeOK
  NoLostWakeupOnceCovered
PROPERTIES
  ChangesReachSync
  StopsWhenAsked
\* After the signal the process is gone and nothing more happens.
CHECK_DEADLOCK FALSE
