SPECIFICATION Spec
CONSTANTS
  LaneCount = 1
  VertexCount = 7
  EdgeCount = 7
  Source <- ContestSource
  Destination <- ContestDestination
  Weight <- ContestWeight
  OwnerTile <- ContestTiles
  SelectedTiles <- TileZero
  SourceList <- FromTwo
  Targets <- ContestTargets
  Infinity = 5
  ThreadCount = 4
  BlockSize = 2
  Options <- ContestOptions
INVARIANTS
  RoundsDominateBellmanFord
  StatusTellsTheTruth
PROPERTIES
  ImplementsRelaxation

