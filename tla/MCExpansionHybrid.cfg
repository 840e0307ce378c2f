SPECIFICATION Spec
CONSTANTS
  VertexCount = 12
  EdgeCount = 8
  Source <- CorridorSource
  Destination <- CorridorDestination
  OwnerTile <- CorridorOwner
  TileCount = 10
  TileX <- CorridorX
  TileY <- CorridorY
  QueryIds <- CorridorQueries
  QuerySources <- CorridorFrom
  QueryTargets <- CorridorTo
  Padding = 0
  InitialGenerations <- FromZero
  LaneWidth = 3
  CountLimit = 8
  MarginLimit = 99
  Campaigns <- HybridCampaigns
  Failures = {"maximum_rounds"}
  Payloads <- SomePayloads
INVARIANTS
  HybridDoublesAfterSmallSteps
