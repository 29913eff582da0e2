SPECIFICATION FairSpec
CONSTANTS
  Versions <- SomeVersions
  Releases <- SomeReleases
  Dev = dev
  Faults = {"crash", "net", "disk"}
  None = None
INVARIANTS TypeOK StartableIsVerified OffersFollowPrecedence
PROPERTIES NeverBackwards UpdateTakesEffect
