\* Two environments, two updates of two time steps, episodes of at most two
\* decisions, and every failure.
SPECIFICATION FairSpec
CONSTANTS
  Envs = 2
  Length = 2
  Updates = 2
  Interval = 1
  Longest = 2
  Templates = 1
  Faults = {"worker", "trainer", "disk", "kill"}
INVARIANTS
  TrainedAsPlayed
  HonestCheckpoints
  NoErrorWithoutFault
  OnlyTheBatchIsLeft
PROPERTIES
  EverythingEnds
CHECK_DEADLOCK FALSE
