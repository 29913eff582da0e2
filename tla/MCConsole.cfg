SPECIFICATION Spec
CONSTANTS
  Requests = {r1, r2}
  Startup = startup
  Clients = {c1}
  Passwords = {p1, p2}
  Addresses = {a1, a2, a6}
  IPs = {a1, a2, a6}
  V6 = {a6}
  Accounts = {t1}
  MaxLoginAttempts = 2
  Mishaps = {{"net", "parallel"}, {"net", "parallel", "crash"}, {"write"}}
  None = None
SYMMETRY Symmetry
INVARIANTS TypeOK AttemptsBounded PasswordsAgree WildcardFollows AccountsInEffect
