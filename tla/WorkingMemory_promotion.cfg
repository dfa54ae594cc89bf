CONSTANTS
  m1 = m1
  m2 = m2
  a = a
  b = b
  e1 = e1
  e2 = e2
  short = short
  long = long
  w1 = w1
  alice = alice
  bob = bob
  Memories = {m1, m2}
  Shares = {}
  Workspaces = {w1}
  OrganizationOf <- OneOrganization
  Subjects = {alice, bob}
  KindOf <- AllUsers
  Audiences <- NoAudience
  Bytes <- MemoryLengths
  None = None
  MaxRetention = 1
  MaxMemories = 2
  MaxMemoryBytes = 2
  MaxTime = 1
  Sessions = {a, b}
  Entries = {e1, e2}
  Texts = {short, long}
  Length <- TextLengths
  MaxSessions = 1
  MaxEntries = 1
  MaxEntryBytes = 2
  MaxSessionBytes = 2
  MaxTtl = 1
  MaxRestarts = 1
SPECIFICATION WorkingSpec
INVARIANTS
  BudgetsHold
  WorkingInv
PROPERTY EndedSessionsAreClosed
SYMMETRY Interchangeable
CHECK_DEADLOCK FALSE
