SPECIFICATION FairSpec
CHECK_DEADLOCK FALSE
CONSTANTS
  Nodes = {1, 2}
  MaxSlaves = 2
  WKC_ERROR_CNT = 2
  MaxFaults = 2
INVARIANT TypeOK
INVARIANT StandsDown
INVARIANT StoppedInInit
PROPERTY LinkRestoredOrReported
PROPERTY StopEnds
