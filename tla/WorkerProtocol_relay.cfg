SPECIFICATION FairSpec
CONSTANTS
  p1 = p1  p2 = p2
  Procs = {p1}
  processId <- OneId
  MaxChunks = 3
  MaxStdin = 2
  CopyFaults = {"absent", "partial"}
  MayFail = {"proxy", "worker", "reject", "unread"}
INVARIANT OutputFaithful
PROPERTIES ExitReported OrphanStopped
CHECK_DEADLOCK FALSE
