SPECIFICATION FairSpec

CONSTANTS
  a1 = a1
  a2 = a2
  None = None
  Apps = {a1}
  InfraApps = {a1}
  MaxVersion = 2
  Breaking <- NoneBreaking
  Requests = {r1}
  Updaters = {u1}
  JobIds = {j1, j2}
  MaxRetained = 1
  Kinds = {"install", "update", "remove", "start", "infra", "backup", "restore", "selfupdate"}
  Faults = {"crash", "kill", "lock", "net"}

INVARIANTS
  LockProtocol

PROPERTIES
  LockIsReleased
  JobsEnd
  RestartHappens
