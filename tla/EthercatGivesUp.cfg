SPECIFICATION FairSpec
CHECK_DEADLOCK FALSE
CONSTANTS
  Nodes = {1, 2}
  MaxSlaves = 3
  WKC_ERROR_CNT = 5
  MaxFaults = 1
PROPERTY ComesBack
