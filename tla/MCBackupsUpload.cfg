SPECIFICATION Spec
CONSTANTS
  Names = {plain, aged}
  Encrypted = {aged}
  Vals = {v1, v2}
  Uploads = {u1}
  Faults = {}
  Budget = 4
  None = None
  Torn = Torn
SYMMETRY Symmetry
INVARIANT ListedIsWhole
