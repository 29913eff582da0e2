SPECIFICATION Spec
CONSTANTS
  a1 = a1
  a2 = a2
  Apps = {a1, a2}
  Dex = None
  DbFrom <- Never1
  LoginFrom <- Never1
  DependsOn <- Independent
  Port <- OnePort
  Values = {v1, v2, v3}
  Given = given
  Faults = {{}}
  None = None
SYMMETRY ValueSymmetry
INVARIANT PortsAreExclusive
