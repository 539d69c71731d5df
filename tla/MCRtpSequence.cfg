SPECIFICATION Spec
CONSTANTS
  Half = 8
  Window = 3
  RestartWindow = 5
  FirstSeqs <- MCFirstSeqs
  MaxPackets = 6
INVARIANTS
  PendingIsMissing
  IInv
PROPERTIES
  RefinesLoss
\* the run stops at MaxPackets
CHECK_DEADLOCK FALSE
