\* Matches in which everything may fail and matches in which nothing does, the
\* neural company first.
SPECIFICATION FairSpec
CONSTANTS
  Player = 1
  FirstCompany = 0
  Maximum = 6
  Faults = {"native", "late", "unlogged", "policy", "disk", "archive", "kill"}
INVARIANTS
  RecordIsTrue
  InStep
  NeuralTurnsLogged
  LatePolicyUnused
  NoErrorInTheGame
PROPERTIES
  EveryToolReturns
CHECK_DEADLOCK FALSE
