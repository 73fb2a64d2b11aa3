SPECIFICATION FairSpec
CONSTANTS
  cA = cA  cB = cB  cD = cD  cX = cX  ra = ra  rb = rb  rd = rd  rd2 = rd2
  Coords = {cA, cB, cD, cX}
  Slots = {0, 1}
  coordinates <- MCcoordinates
  Pipes <- TwoPipes
  Clients = {ra, rb, rd}
  home <- HomeAll
  Sizes = {1}
  MaxRequestBytes = 1
  RingEntries = 1
  MaxOps = 2
  MayDie = {}
  MayTerminate <- SinkGateway
  MayBeKilled = {}
  NoMsg = NoMsg
INVARIANT NoLostWakeup
PROPERTIES WriteAnswered ReadServed StopAnswers ImplementsFifo
CHECK_DEADLOCK FALSE
