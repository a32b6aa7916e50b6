CONSTANTS
  l = l  s = s  i = i
  Op = {l, s, i}
  Kind <- AllCommands
  Prompted = {l, s, i}
  Oversized = {l, s}
  Startup = {"renderer", "trust", "prompt"}
  Options = {"option", "Option"}
  SelfAdvance = TRUE
  Faults = {"probe", "exit", "stop"}
  Polls = 2
SPECIFICATION FairSpec
INVARIANTS TypeOK PromptOnlyAtInput EngagedMeansSubmitted
PROPERTIES TrustNeverEscaped DeadlinesKept BlockingPromptDismissed
CHECK_DEADLOCK FALSE
