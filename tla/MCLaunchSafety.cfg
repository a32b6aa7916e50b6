CONSTANTS
  c1 = c1  c2 = c2
  Cmd = {c1, c2}
  Requests <- AllRequests
  Users = {"root", "vscode"}
  Faults = {"docker", "net", "db", "vault", "agent", "pour", "die", "root", "kill"}
  MaxRuns = 3
SPECIFICATION Spec
SYMMETRY CmdSymmetry
INVARIANTS TypeOK LaunchedMeansReady RecoveryWorks
PROPERTY MountProvisionedByStrayOnly
CHECK_DEADLOCK FALSE
