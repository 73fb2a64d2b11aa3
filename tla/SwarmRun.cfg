SPECIFICATION FairSpec
CONSTANTS
  Kinds = {"real", "imported", "functional", "scalability", "mlpdp", "hand"}
  Jobs <- JobsBySample
  Dirs = {"d1", "d2"}
  node_count = 2
  PhaseOne = 2
  expected_pipecomm_events = 2
  RANKS = 2
  MaxSamples = 2
  MaxTasks = 2
INVARIANTS GeneratorsAgree WorkersAwaited EndedClean SuccessIsEarned
PROPERTIES SampleEnds
CHECK_DEADLOCK FALSE
