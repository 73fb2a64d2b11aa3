SPECIFICATION FairSpec
CONSTANTS
  p1 = p1  p2 = p2
  Procs = {p1, p2}
  processId <- SameId
  MaxChunks = 0
  MaxStdin = 0
  CopyFaults = {"absent", "partial"}
  MayFail = {"proxy"}
INVARIANTS OwnWorkdir AssetSettled
PROPERTY SpawnAnswered
CHECK_DEADLOCK FALSE
