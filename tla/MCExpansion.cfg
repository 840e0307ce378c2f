SPECIFICATION FairSpec
CONSTANTS
  VertexCount = 12
  EdgeCount = 8
  Source <- CorridorSource
  Destination <- CorridorDestination
  OwnerTile <- CorridorOwner
  TileCount = 10
  TileX <- CorridorX
  TileY <- CorridorY
  QueryIds <- CorridorQueries
  QuerySources <- CorridorFrom
  QueryTargets <- CorridorTo
  Padding = 0
  InitialGenerations <- FromLate
  LaneWidth = 3
  CountLimit = 5
  MarginLimit = 9
  Campaigns <- AllCampaigns
  Failures = {"maximum_rounds"}
  Payloads <- SomePayloads
INVARIANTS
  TypeOK
  VerdictsAreTrue
  BatchingIsInvisible
  EvidenceIsCurrent
  NeverAborts
PROPERTIES
  EveryQueryRetires
