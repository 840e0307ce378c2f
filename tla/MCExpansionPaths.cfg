SPECIFICATION Spec
CONSTANTS
  VertexCount = 12
  EdgeCount = 8
  Source <- CorridorSource
  Destination <- CorridorDestination
  OwnerTile <- CorridorOwner
  TileCount = 10
  TileX <- CorridorX
  TileY <- CorridorY
  QueryIds <- CompactQueries
  QuerySources <- CompactFrom
  QueryTargets <- CompactTo
  Padding = 0
  InitialGenerations <- CompactZero
  LaneWidth = 2
  CountLimit = 8
  MarginLimit = 99
  Campaigns <- CompactCampaigns
  Failures = {"device_failure"}
  Payloads <- SomePayloads
INVARIANTS
  PathsOnlyForVerdicts
