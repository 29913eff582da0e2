SPECIFICATION Spec

CONSTANTS
  a1 = a1
  a2 = a2
  None = None
  Apps = {a1}
  InfraApps = {a1}
  MaxVersion = 2
  Breaking <- NoneBreaking
  Requests = {r1, r2}
  Updaters = {}
  JobIds = {j1, j2, j3}
  MaxRetained = 2
  Kinds = {"install", "backup", "restore"}
  Faults = {}

PROPERTIES
  RestoredStateReloaded
