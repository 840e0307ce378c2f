SPECIFICATION FairSpec
CONSTANTS
  LaneCount = 1
  VertexCount = 5
  EdgeCount = 5
  Source <- RequeueSource
  Destination <- RequeueDestination
  Weight <- RequeueWeight
  OwnerTile <- RequeueTiles
  SelectedTiles <- TileZero
  SourceList <- FromZero
  Targets <- RequeueTargets
  Infinity = 5
  ThreadCount = 2
  QueueCapacity = 2
  Options <- RequeueOptions
PROPERTIES
  Terminates
