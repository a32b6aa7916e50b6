CONSTANTS
  a = a  b = b  c = c  k1 = k1  k2 = k2  w1 = w1  w2 = w2
  None = None
  WorkId = {a, b, c}
  Key = {k1, k2}
  SanitizedName <- Colliding
  Worker = {w1, w2}
  Mounted = FALSE
  Faults = {"stop", "bootstrap", "statedir", "server", "query", "config", "child"}
  StreamCap = 2
SPECIFICATION FairSpec
INVARIANTS TypeOK OneChildPerName OwnConfigOnly LockMeansRunning
PROPERTIES IntakeSpec PendingIsRetried LockReleased
