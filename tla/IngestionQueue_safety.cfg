CONSTANTS
  s1 = s1
  s2 = s2
  s3 = s3
  a = a
  c = c
  Scopes = {s1, s2, s3}
  Joined <- OneShared
  Contents = {a, c}
  IdemKeys = {k1}
  NoKey = NoKey
  Bytes <- Lengths
  MaxAttempts = 2
  MaxDocumentBytes = 2
  MaxDocuments = 2
  MaxIngestionBytes = 2
  MaxJobs = 3
  MaxCrashes = 1
SPECIFICATION Spec
INVARIANTS
  QueueInv
  LeaseIsHeld
  OneJobPerContent
  WorkspaceWithinLimits
  AttemptsAreAccounted
  ReceiptsStayInScope
PROPERTIES
  OutcomesAreFinal
  StrandedUntilBoot
  ReceiptsAreStable
SYMMETRY EitherOfTwo
CHECK_DEADLOCK FALSE
