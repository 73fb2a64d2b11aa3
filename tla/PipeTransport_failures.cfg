SPECIFICATION Spec
CONSTANTS
  cA = cA  cB = cB  cD = cD  cX = cX  ra = ra  rb = rb  rd = rd  rd2 = rd2
  Coords = {cA, cB, cD, cX}
  Slots = {0, 1}
  coordinates <- MCcoordinates
  Pipes <- StopPipes
  Clients = {ra, rd, rd2}
  home <- Home3
  Sizes = {1}
  MaxRequestBytes = 1
  RingEntries = 1
  MaxOps = 2
  MayDie = {rd, rd2}
  MayTerminate <- SourceGateway
  MayBeKilled <- SinkGateway
  NoMsg = NoMsg
SYMMETRY ReaderSymmetry
INVARIANTS TypeOK LinkFifo OkMeansSubmitted LossNeedsFailure
           ErrTransportMeansUnsent
PROPERTY ImplementsFifo
CHECK_DEADLOCK FALSE
