SPECIFICATION Spec
CONSTANTS
  Requests = {r1, r2}
  Startup = startup
  Clients = {c1}
  Passwords = {p1, p2}
  Addresses = {a1, a2, host}
  IPs = {a1, a2}
  V6 = {}
  Accounts = {t1}
  MaxLoginAttempts = 2
  Mishaps = {{"parallel", "early"}}
  None = None
SYMMETRY Symmetry
INVARIANT PasswordIsShared
