SPECIFICATION Spec
CONSTANTS
  Names = {plain, aged}
  Encrypted = {aged}
  Vals = {v1, v2}
  Uploads = {u1, u2}
  Faults = {"crash", "step", "stop", "junk"}
  Budget = 4
  None = None
  Torn = Torn
SYMMETRY Symmetry
INVARIANTS TypeOK OverlayFromWhole RestoredIsArchive ListedOwnIsWhole
PROPERTY ArchivesStand
