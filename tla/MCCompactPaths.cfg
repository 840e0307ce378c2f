CONSTANTS
  LaneCount = 2
  VertexCount = 6
  EdgeCount = 9
  Source <- MCSource
  Destination <- MCDestination
  Weight <- MCWeight
  EdgeId <- MCEdgeId
  OwnerTile <- MCOwnerTile
  Infinity = 7
  Batches <- MCBatches
  StaleLabels = {2, 7}
  ClaimLength = 3
SPECIFICATION FairSpec
INVARIANTS
  AnswersAreShortest
  SearchesAgree
  ExpandedIsFinal
  ValidatorIsExact
PROPERTIES
  EveryResultIsPublished
