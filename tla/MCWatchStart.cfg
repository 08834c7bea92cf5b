\* A change between the initial read and the first signature.
\* Two files that change twice and once, a channel of one, one failing scan or read.
CONSTANTS
  Files <- MCFiles
  Capacity = 1
  MaxVersion <- MCMaxVersion
  MaxFaults = 1
SPECIFICATION Spec
INVARIANTS
  NoLostWakeup
\* After the signal the process is gone and nothing more happens.
CHECK_DEADLOCK FALSE
