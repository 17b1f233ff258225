\* A harness of two members whose budget is two checkpoints, and whoever resumes
\* what it leaves behind.
SPECIFICATION Spec
CONSTANTS
  Members = {"monolithic", "router"}
  CheckEvery = 2
  SaveEvery = 4
  Stages = 2
  Fork = 4
  Budget = 8
  MaxByHand = 1
INVARIANTS
  ExactRecovery
  Retained
  FailsOnlyForCause
CHECK_DEADLOCK FALSE
