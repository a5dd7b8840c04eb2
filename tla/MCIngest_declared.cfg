SPECIFICATION FairSpec
CONSTANTS
  Sources = {api}
  Source = api
  Collections = {c1}
  Docs = {d1, d2}
  v0 = v0
  v1 = v1
  v2 = v2
  vx = vx
  Versions = {v0, v1, v2, vx}
  MaxChunks = 2
  ChunkCount <- MCChunkCount
  Unsupported <- MCUnsupported
  DeclaredTypes = {"modified", "deleted", "invalid"}
  MaxBatch = 2
  MaxQueue = 1
  Failures = {"config", "convert", "embed", "delete", "store", "audit"}
  MayCrash = TRUE
  None = None
INVARIANTS
  TypeOK
  WholeDocuments
  ServesLastContent
  ResultMatchesTrail
  TrailTellsTheStore
  LabelIsTrue
  OnlyTheAuditLogStalls
PROPERTIES
  ImplementsKnowledgeBase
  OldChunksSurvive
  Responds
