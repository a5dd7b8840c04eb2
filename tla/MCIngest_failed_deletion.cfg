SPECIFICATION Spec
CONSTANTS
  Sources = {api}
  Source = api
  Collections = {c1}
  Docs = {d1}
  v0 = v0
  v1 = v1
  v2 = v2
  vx = vx
  Versions = {v1, v2}
  MaxChunks = 2
  ChunkCount <- MCChunkCount
  Unsupported <- MCUnsupported
  DeclaredTypes = {"added", "deleted"}
  MaxBatch = 1
  MaxQueue = 1
  Failures = {"delete"}
  MayCrash = FALSE
  None = None
INVARIANT WholeDocuments
