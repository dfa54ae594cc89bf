CONSTANTS
  s1 = s1
  s2 = s2
  a = a
  b = b
  Scopes = {s1}
  Joined <- AllDistinct
  Contents = {a}
  IdemKeys = {}
  NoKey = NoKey
  Bytes <- UnitLengths
  MaxAttempts = 1
  MaxDocumentBytes = 1
  MaxDocuments = 1
  MaxIngestionBytes = 1
  MaxJobs = 1
  MaxCrashes = 1
  ChunkCount <- Cuts
  Profiles = {p1, p2}
  MaxRuns = 1
  MaxLeftovers = 2
SPECIFICATION IngestionSpec
INVARIANT RebuildCoversCanonicalChunks
CHECK_DEADLOCK FALSE
