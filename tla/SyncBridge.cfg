\* Any client: two episodes, horizons of one and two steps.
SPECIFICATION Spec
CONSTANTS
  Sessions = {1}
  Actions = {0, 1}
  Wait = 0
  DefaultHorizon = 2
  Horizons = {1}
  MaxEpisodes = 2
  MaxRequests = 7
INVARIANTS
  StepsInOrder
  FreshlyMasked
  ClosableFromHeader
PROPERTIES
  RunsEnvironment
CHECK_DEADLOCK FALSE
