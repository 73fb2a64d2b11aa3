SPECIFICATION Spec
CONSTANTS
  Ranks = 4
  Iterations = 2
  Samples = 8
  SynchronousSend = TRUE
INVARIANTS TrainingExact MeasuredInterval NoDeadlock
