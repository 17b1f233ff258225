\* The shipped client against the native process: late answers, full pipes, a log
\* that cannot be written, the death of either.
SPECIFICATION FairSession
CONSTANTS
  Companies = 1
  FirstCompany = 0
  Maximum = 1
  MaxRequests = 4
  PipeFrames = 1
  RequestFrames = 1
  Calls = {"OBSERVE", "ACT", "STEP"}
INVARIANTS
  AnswersMatchCalls
  IdentitiesInOrder
  EventsAccountForEffects
  CleanCloseMeansResult
PROPERTIES
  EveryCallReturns
CHECK_DEADLOCK FALSE
