SPECIFICATION FairSpec
CONSTANTS
  Sources = {api}
  Source = api
  Collections = {c1}
  Docs = {d1, d2}
  v0 = v0
  v1 = v1
  v2 = v2
  vx = vx
  Versions = {v1, v2}
  MaxChunks = 2
  ChunkCount <- MCChunkCount
  Unsupported <- MCUnsupported
  DeclaredTypes = {"added", "deleted"}
  MaxBatch = 2
  MaxQueue = 1
  Failures = {"convert", "embed", "store"}
  MayCrash = FALSE
  None = None
INVARIANTS
  WholeDocuments
  StoredIsKnown
  NothingStagedWhenIdle
