SPECIFICATION PartsSpec
CONSTANTS
  Orgs = {o, p}
  MaxCalls = 2
  MaxTrouble = 1
  Snappers = {s1, s2}
  Clickers = {c1}
  MaxGen = 2
  MaxPages = 4
  MaxRestarts = 1
  MaxResets = 1
INVARIANTS
  TrailPromise
  CalmReplicas
  DecidedOnASnapshotOfItsGeneration
  LiveReferenceResolves
SYMMETRY Symmetry
CHECK_DEADLOCK FALSE
