SPECIFICATION Spec
CONSTANTS
  s1 = s1
  s2 = s2
  s3 = s3
  x1 = x1
  x2 = x2
  q1 = q1
  m1 = m1
  blank = blank
  key = key
  Requests = {w}
  Commands = {c}
  Providers = {q1}
  Personas = {m1}
  Keys = {k1, default}
  Secrets = {s1, s2, s3}
  Prefixes = {x1, x2}
  PrefixOf <- SomeCollide
  Default = default
  Seed <- SeedM1
  Prompts = {blank}
  Blank = blank
  Upstream = {key}
  Start <- Prepared
  Faults = {"crash", "write", "signal", "step"}
  Budget = 2
  None = None
INVARIANTS TypeOK FileConsistent AccessAsGranted StaleOnlyUntilSignalled
PROPERTY ChangesArrive
CHECK_DEADLOCK FALSE
