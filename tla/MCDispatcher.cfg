SPECIFICATION FairSpec
CONSTANTS
  a = a
  b = b
  k1 = k1
  k2 = k2
  None = None
  WorkId = {a, b}
  Child = {k1, k2}
  Times = 2
  Observes = TRUE
  Faults <- AllFaults
INVARIANTS TrackerIsBegun OneChildPerId
PROPERTIES StandingNotRespawned EventuallyBegun
