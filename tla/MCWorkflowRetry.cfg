CONSTANTS
  a = a  b = b  None = None
  Work = {a, b}
  Lane <- TwoScenarios
  Contains <- Same
  Past <- NoPast
  Plans <- TestFirst
  Directives = {"scenario", "flat", "proceed", "ok", "signoff"}
  Diligent = TRUE
  FlatPushes = FALSE
  MaxRetries = 0
  Faults = {}
  Mounted = FALSE
  MaxMain = 4
SPECIFICATION ServingSpec
PROPERTIES EventuallyAnswered
