SPECIFICATION FairSpec

CONSTANTS
  None = None
  Apps = {a1}
  Routable = {a1}
  Domains = {d1}
  Local = FALSE
  Faults = {}

INVARIANTS
  RemovedIsUnserved
