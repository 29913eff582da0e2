SPECIFICATION Spec

CONSTANTS
  a1 = a1
  a2 = a2
  None = None
  Apps = {a1, a2}
  InfraApps = {a1}
  MaxVersion = 3
  Breaking <- LastOfA2
  Requests = {r1}
  Updaters = {u1}
  JobIds = {j1, j2, j3}
  MaxRetained = 2
  Kinds = {"install"}
  Faults = {}

INVARIANTS
  NoBreakingAutoUpdate
