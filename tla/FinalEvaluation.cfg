\* Three suites of two cases, and two processes at a time, started again at will.
SPECIFICATION Spec
CONSTANTS
  Runners = {r1, r2}
  NumSuites = 3
  NumCases = 2
  Gates = {1, 3}
  Passed = {3}
  NoFailures = {2, 3}
INVARIANTS
  AttemptedOnce
  EvidenceIsEarned
CHECK_DEADLOCK FALSE
