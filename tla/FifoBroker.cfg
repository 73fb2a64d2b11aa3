SPECIFICATION Spec
CONSTANTS
  c1 = c1  c2 = c2  c3 = c3
  Pipes = {"pipe"}
  Clients = {c1, c2, c3}
  Sizes <- AllSizes
  max_payload_bytes = 2
  MaxOps = 2
  NoMsg = NoMsg
SYMMETRY ClientSymmetry
INVARIANT NoStrandedReader
PROPERTY ImplementsLossyFifo
CHECK_DEADLOCK FALSE
