SPECIFICATION FairSpec
CONSTANTS
  LaneCount = 1
  VertexCount = 8
  EdgeCount = 11
  Source <- WebSource
  Destination <- WebDestination
  Weight <- WebWeight
  OwnerTile <- WebTiles
  SelectedTiles <- TileZero
  SourceList <- FromTwo
  Targets <- WebTargets
  Infinity = 5
  ThreadCount = 4
  BlockSize = 2
  Options <- WebOptions
INVARIANTS
  RoundIsBellmanFord
PROPERTIES
  Terminates
