SPECIFICATION FairSpec
CONSTANTS
  Nodes = 3
  MayCrash <- MiddleSlot
  MayTimeOut = {1}
  SlowConnect = {1}
INVARIANTS NoEarlyTraffic CleanExit
PROPERTIES MeshComesUp LossEndsWorker StartDecides
CHECK_DEADLOCK FALSE
