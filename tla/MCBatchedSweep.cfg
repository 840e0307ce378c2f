CONSTANTS
  LaneCount = 2
  VertexCount = 5
  EdgeCount = 7
  Source <- MCSource
  Destination <- MCDestination
  Weight <- MCWeight
  OwnerTile <- MCOwnerTile
  Infinity = 8
  Batches <- MCBatches
  WaveCount = 2
  Options <- MCOptions
SPECIFICATION Spec
INVARIANTS
  ConvergedLaneIsShortest
  LanesFollowBellmanFord
  HostGetsTheTruth
