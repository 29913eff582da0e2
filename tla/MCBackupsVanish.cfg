SPECIFICATION Spec
CONSTANTS
  Names = {plain}
  Encrypted = {}
  Vals = {v1, v2}
  Uploads = {u1, u2}
  Faults = {"step"}
  Budget = 3
  None = None
  Torn = Torn
SYMMETRY Symmetry
INVARIANT VerifiedIsPlaced
