SPECIFICATION Spec
CONSTANTS
  LaneCount = 1
  VertexCount = 8
  EdgeCount = 13
  Source <- RaceSource
  Destination <- RaceDestination
  Weight <- RaceWeight
  OwnerTile <- RaceTiles
  SelectedTiles <- TileZero
  SourceList <- FromZero
  Targets <- RaceTargets
  Infinity = 5
  ThreadCount = 3
  QueueCapacity = 3
  Options <- RaceOptions
INVARIANTS
  TypeOK
  NeverBelowShortest
  FrontierWellFormed
  NoDecreaseLost
  StatusTellsTheTruth
PROPERTIES
  ImplementsRelaxation
