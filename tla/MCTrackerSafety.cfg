CONSTANTS
  i1 = i1  i2 = i2  i3 = i3  dstengle = dstengle  acme = acme  None = None
  Issue = {i1, i2, i3}
  Owner = {dstengle}
  Org = dstengle
  Origin = dstengle
  Shops = {"bc", "lead"}
  Faults = {"owner", "bootstrap", "create", "init", "push", "verify", "export"}
SPECIFICATION Spec
SYMMETRY IssueSymmetry
INVARIANTS TypeOK OpenIsComplete
PROPERTIES IssuesKept Provisioned
