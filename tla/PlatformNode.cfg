SPECIFICATION FairSpec
CONSTANTS
  Configs <- SmallConfigs
  MaxFaults = 1
INVARIANT MeasuredWhole
PROPERTY RunEnds
CHECK_DEADLOCK FALSE
