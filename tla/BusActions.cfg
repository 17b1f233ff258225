\* Two vehicle slots.  After an integration failure the worker is FAILED.
SPECIFICATION Spec
CONSTANTS
  Slots = {0, 1}
INVARIANTS
  RoutesAreWhole
  RejectedChangesNothing
CHECK_DEADLOCK FALSE
