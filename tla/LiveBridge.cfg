\* The shared game of two companies under any client, which may also fall silent
\* or stop reading.
SPECIFICATION FairSpec
CONSTANTS
  Companies = 2
  FirstCompany = 1
  Maximum = 2
  MaxRequests = 5
  PipeFrames = 1
INVARIANTS
  OneCommandPerDecision
  TraceFollowsTurns
  UnbrokenHistory
  TokensSpentOnce
  FreshSnapshots
PROPERTIES
  NothingAfterTheEnd
  PlaysTurns
  AlwaysEnds
CHECK_DEADLOCK FALSE
