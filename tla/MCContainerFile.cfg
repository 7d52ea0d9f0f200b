SPECIFICATION FileSpec
CONSTANTS
  MaxEdges = 3
  NoHash = NoHash
  SupportedVersions = {1}
  Paths <- MCPaths
  Align = 2
  UsizeMax = 127
  U32Max = 63
  MetaLens = {1, 2}
  BlobLens = {1, 2}
  MaxEditing = 3
INVARIANTS
  ContainerIsReplayable
  ErrorIsTheFirst
  AssembledIsReadBack
  AcceptedIsCanonical
  AcceptedIsReplayable
  ReaderNeverPanics
