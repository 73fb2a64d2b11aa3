SPECIFICATION FairSpec
CONSTANTS
  Configs <- OneProxy
  MaxFaults = 1
PROPERTY ErrorEndsRun
CHECK_DEADLOCK FALSE
