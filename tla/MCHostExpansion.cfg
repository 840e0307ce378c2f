SPECIFICATION PipelineSpec
CONSTANTS
  VertexCount = 12
  EdgeCount = 14
  TileCount = 8
  OldToNew <- WebOldToNew
  NewToOld <- WebNewToOld
  OwnerTile <- WebOwnerTile
  TileVertexOffsets <- WebVertexOffsets
  TileX <- WebTileX
  TileY <- WebTileY
  NewSource <- WebNewSource
  NewDestination <- WebNewDestination
  Weight <- WebWeight
  Provenance <- WebProvenance
  CsrEdges <- WebCsrEdges
  CscEdges <- WebCscEdges
  CsrRuns <- WebCsrRuns
  CscRuns <- WebCscRuns
  Infinity = 50
  LaneCount = 3
  QueryIds <- WebQueries
  QuerySources <- WebFrom
  QueryTargets <- WebTo
  Padding = 0
  InitialGenerations <- WebGenerations
  CountLimit = 6
  MarginLimit = 20
  Campaigns <- WebCampaigns
  QualitySampleCount = 2
INVARIANTS
  PlanIsGreedy
  LedgerBalances
  ReuseIsInvisible
  LanesRunAlone
  PublishedIsTrue
PROPERTIES
  ImplementsExpansion
