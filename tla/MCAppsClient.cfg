SPECIFICATION Spec
CONSTANTS
  a1 = a1
  a2 = a2
  Apps = {a1, a2}
  Dex = None
  DbFrom <- DbOfA1
  LoginFrom <- FirstVersion
  DependsOn <- Independent
  Port <- OwnPorts
  Values = {v1, v2, v3}
  Given = given
  Faults = {{}}
  None = None
SYMMETRY ValueSymmetry
PROPERTY RemovedClientIsGone
