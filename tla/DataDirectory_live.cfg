SPECIFICATION Spec
CONSTANTS
  w1 = w1
  w2 = w2
  d1 = d1
  d2 = d2
  Workspaces <- TwoWorkspaces
  Digests <- TwoDigests
  Joined <- AllDistinct
  Canonical = canonical
  SizeOf <- UnitSizes
  MaxBlobsBytes = 1
  MaxCutShort = 1
  MaxDamaged = 1
SYMMETRY Interchangeable
INVARIANT BackupsAreConsistent
