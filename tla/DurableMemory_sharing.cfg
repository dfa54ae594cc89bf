CONSTANTS
  m1 = m1
  m2 = m2
  g1 = g1
  g2 = g2
  w1 = w1
  w2 = w2
  x1 = x1
  alice = alice
  bot = bot
  Memories = {m1}
  Shares = {g1, g2}
  Workspaces = {w1, w2, x1}
  OrganizationOf <- Organizations
  Subjects = {alice, bot}
  KindOf <- Kinds
  Audiences <- AllAudiences
  Bytes <- UnitLengths
  None = None
  MaxRetention = 2
  MaxMemories = 2
  MaxMemoryBytes = 2
  MaxTime = 2
SPECIFICATION Spec
INVARIANTS
  OneLiveGrant
  ReviewedVersionIsShown
  OutboxReplays
PROPERTIES
  ExposureNeedsReview
CHECK_DEADLOCK FALSE
