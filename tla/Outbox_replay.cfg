SPECIFICATION Spec
CONSTANTS
  s1 = s1
  s2 = s2
  one = one
  all = all
  Scopes = {s1, s2}
  Feeds = {one, all}
  Covers <- OneAndAll
  MaxLimit = 2
  MaxEvents = 3
  MaxTime = 2
INVARIANTS
  ReplayMissesOnlyLateEvents
