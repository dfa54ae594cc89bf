CONSTANTS
  s1 = s1
  s2 = s2
  a = a
  b = b
  Scopes = {s1, s2}
  Joined <- AllDistinct
  Contents = {a, b}
  IdemKeys = {}
  NoKey = NoKey
  Bytes <- UnitLengths
  MaxAttempts = 1
  MaxDocumentBytes = 1
  MaxDocuments = 2
  MaxIngestionBytes = 2
  MaxJobs = 2
  MaxCrashes = 1
  ChunkCount <- Cuts
  Profiles = {p1}
  MaxRuns = 2
  MaxLeftovers = 1
SPECIFICATION IngestionSpec
INVARIANTS
  SearchIsComplete
  ScopesAreIsolated
  BootClearsTextFiles
PROPERTIES
  CitedChunksAreImmutable
  IndexesNeverLoseChunks
SYMMETRY Interchangeable
CHECK_DEADLOCK FALSE
