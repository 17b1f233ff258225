\* The same client: is what a STEP executes in the mask whose token it presented?
SPECIFICATION Spec
CONSTANTS
  Sessions = {1}
  Actions = {0, 1}
  Wait = 0
  DefaultHorizon = 2
  Horizons = {1}
  MaxEpisodes = 2
  MaxRequests = 7
INVARIANT
  ShownLegal
CHECK_DEADLOCK FALSE
