SPECIFICATION Spec
CONSTANTS
  a1 = a1
  a2 = a2
  Apps = {a1, a2}
  Dex = a2
  DbFrom <- DbOfA1
  LoginFrom <- LoginLater
  DependsOn <- OnA1
  Port <- OwnPorts
  Values = {v1, v2, v3}
  Given = given
  Faults = {{"step"}, {"step", "crash"}, {"step", "write"}}
  None = None
SYMMETRY ValueSymmetry
INVARIANTS TypeOK SecretsAgree KeysMatchEntries InstalledHasService
PROPERTY InstallHeals
