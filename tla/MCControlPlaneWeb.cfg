SPECIFICATION Spec

CONSTANTS
  a1 = a1
  a2 = a2
  None = None
  Apps = {a1, a2}
  InfraApps = {a1, a2}
  MaxVersion = 2
  Breaking <- LastOfA2
  Requests = {r1, r2}
  Updaters = {}
  JobIds = {j1, j2}
  MaxRetained = 1
  Kinds = {"install", "update", "remove", "toggle", "start", "infra", "sync"}
  Faults = {"crash"}

SYMMETRY WebSymmetry

INVARIANTS
  MemoryIsDisk

PROPERTIES
  OperationsSerialised
