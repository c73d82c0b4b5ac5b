SPECIFICATION Spec
CONSTANTS
  Accounts = {a1, a2}
  Nodes = {n1, n2}
  IPs = {i1, i2}
  Requests = {r1, r2}
  Admins = {}
  MaxAccountsPerIP = 1
  IPAccountWindowNs = 1
  StickyTTLNs = 1
  quotaPickAttempts = 1
  livePickAttempts = 1
  EgressRace = TRUE
  Cleaner = FALSE
  MaxTime = 1
  MaxEnvChanges = 1
  NoNode = NoNode
  NoIP = NoIP
  NoAccount = NoAccount
SYMMETRY Symmetry
INVARIANTS
  ActiveAccountHasSlot
