CONSTANTS
  a = a  b = b  c = c  k1 = k1  k2 = k2  w1 = w1  w2 = w2
  None = None
  WorkId = {a}
  Key = {k1}
  SanitizedName <- Single
  Worker = {w1}
  Mounted = TRUE
  Faults = {"stop"}
  StreamCap = 1
SPECIFICATION Spec
PROPERTY SkipMeansInFlight
