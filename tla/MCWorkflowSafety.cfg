CONSTANTS
  a = a  b = b  None = None
  Work = {a, b}
  Lane <- BothLanes
  Contains <- Prefix
  Past <- EarlierRed
  Plans <- GreenOnly
  Directives = {"scenario", "flat", "proceed", "clarify", "ok", "signoff", "scenario_gap", "impl_gap"}
  Diligent = FALSE
  FlatPushes = TRUE
  MaxRetries = 1
  Faults = {"infra", "llm", "crash", "stop"}
  Mounted = FALSE
  MaxMain = 3
SPECIFICATION Spec
INVARIANTS TypeOK CompleteMeansIntegrated NothingLost EndIsReported
PROPERTIES MainOnlyGrows ChildSpec RunIsFinite
