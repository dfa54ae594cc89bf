CONSTANTS
  m1 = m1
  m2 = m2
  g1 = g1
  g2 = g2
  w1 = w1
  w2 = w2
  x1 = x1
  alice = alice
  bot = bot
  Memories = {m1, m2}
  Shares = {g1, g2}
  Workspaces = {w1, w2}
  OrganizationOf <- Organizations
  Subjects = {bot}
  KindOf <- Kinds
  Audiences <- OnlyEveryone
  Bytes <- UnitLengths
  None = None
  MaxRetention = 1
  MaxMemories = 2
  MaxMemoryBytes = 2
  MaxTime = 1
SPECIFICATION Spec
INVARIANTS
  MemoryInv
  SupersessionEnds
  ReplacementsWerePublished
PROPERTIES
  ImplementsKnowledge
SYMMETRY Interchangeable
CHECK_DEADLOCK FALSE
