\* Registered and unregistered runs of two updates of three decisions, games of
\* at most three, resumed up to twice from any published checkpoint.
SPECIFICATION Spec
CONSTANTS
  Horizon = 3
  Rollout = 3
  Interval = 1
  Budget = 2
  ProbeEvery = 1
  Reuse = TRUE
  MaxSegments = 3
INVARIANTS
  ExactContinuation
  TrainedInOrder
  InStep
  ListedIsRestorable
  EndsWhereItShould
CHECK_DEADLOCK FALSE
