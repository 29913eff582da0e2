SPECIFICATION Spec

CONSTANTS
  None = None
  Apps = {a1, a2}
  Routable = {a1, a2}
  Domains = {d1}
  Local = TRUE
  Faults = {"crash", "write", "reload", "gateway", "proxy", "slow"}

SYMMETRY AppSymmetry

INVARIANTS
  TypeOK
PROPERTIES
  OtherSitesStay
