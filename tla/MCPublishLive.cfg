SPECIFICATION FairSpec

CONSTANTS
  None = None
  Apps = {a1, a2, a3}
  Routable = {a1, a2}
  Domains = {d1, d2}
  Local = TRUE
  Faults = {"crash", "proxy"}

INVARIANTS
  RecordedIsRouted
PROPERTIES
  RestartRestores
