CONSTANTS
  LaneCount = 2
  VertexCount = 7
  EdgeCount = 10
  Source <- MCSource
  Destination <- MCDestination
  Weight <- MCWeight
  OwnerTile <- MCOwnerTile
  Infinity = 5
  Batches <- MCBatches
  ThreadCount = 2
  QueueCapacity = 3
  Options <- MCOptions
SPECIFICATION Spec
INVARIANTS
  PublishedLaneIsShortest
  MasksMatchQueue
  HostGetsTheTruth
PROPERTIES
  EveryLaneRelaxes

