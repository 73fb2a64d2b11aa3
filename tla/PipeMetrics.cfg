SPECIFICATION Spec
CONSTANTS
  Pipes = {a}
  Sizes = {1, 2}
  MaxOps = 2
  MaxTime = 3
  MayStop = TRUE
INVARIANTS PairingExact TimesExact
CHECK_DEADLOCK FALSE
