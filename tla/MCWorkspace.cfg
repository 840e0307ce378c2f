SPECIFICATION FairSpec
CONSTANTS
  Streams = {s1, s2}
  Bytes <- ThreeRuns
INVARIANTS
  QueuedWorkIsSafe
  ResultsAreOwn
  BatchedLeaseReturns
PROPERTIES
  RunsReturn
CHECK_DEADLOCK FALSE
