SPECIFICATION MCSpec
CONSTANTS
  MaxLength = 10
  Texts <- MCTexts
  Configs <- MCConfigs
  SeparatorLengths <- MCSeparatorLengths
  Collections <- MCCollections
  Queries <- MCQueries
  Replies <- MCReplies
INVARIANTS
  TypeOK
  ChunksFit
  NoGaps
  OverlapIsExact
  OneChunkPerCharacter
  SameWindows
  RetrievedIsNearest
  EvidenceIsBest
