SPECIFICATION Spec
CONSTANTS
  a1 = a1
  a2 = a2
  Apps = {a1, a2}
  Dex = None
  DbFrom <- DbOfA1
  LoginFrom <- Never1
  DependsOn <- Independent
  Port <- OwnPorts
  Values = {v1, v2, v3}
  Given = given
  Faults = {{"again"}}
  None = None
SYMMETRY ValueSymmetry
INVARIANT KeysMatchEntries
