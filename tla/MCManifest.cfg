SPECIFICATION Spec
CONSTANTS
  bcA = bcA  bcB = bcB  u1 = u1  u2 = u2  acme = acme  Acme = Acme  compose = compose
  broker1 = broker1  broker2 = broker2  net = net  mount = mount
  None = None
  Default = Default
  Malformed = Malformed
  Blank = Blank
  Slugified <- SlugOf
  Stripped <- StripOf
  Name = {bcA, bcB}
  Url = {u1, u2, Blank}
  GitHub = {u1, u2}
  Canonical <- CanonicalNames
  Manifests <- SomeManifests
  Envs <- SomeEnvs
  Options <- SomeOptions
INVARIANTS SyncedInOrder SyncThenValid ValidMeansLaunchable ProbeOnNetwork
