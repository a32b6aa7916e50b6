CONSTANTS
  c1 = c1  c2 = c2
  Cmd = {c1}
  Requests <- CloneRequest
  Users = {"vscode"}
  Faults = {"root"}
  MaxRuns = 2
SPECIFICATION Spec
INVARIANT WorkspaceHandedOver
CHECK_DEADLOCK FALSE
