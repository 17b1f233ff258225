\* Nothing fails, but the player of company 1 may go bankrupt and be removed.
SPECIFICATION Spec
CONSTANTS
  Player = 1
  FirstCompany = 0
  Maximum = 4
  Faults = {}
INVARIANTS
  NoErrorWithoutFault
CHECK_DEADLOCK FALSE
