SPECIFICATION Spec
CONSTANTS
  Accounts = {a1, a2}
  Nodes = {n1, n2}
  IPs = {i1, i2}
  Requests = {r1}
  Admins = {w1}
  MaxAccountsPerIP = 0
  IPAccountWindowNs = 1
  StickyTTLNs = 1
  quotaPickAttempts = 1
  livePickAttempts = 2
  EgressRace = TRUE
  Cleaner = TRUE
  MaxTime = 2
  MaxEnvChanges = 1
  NoNode = NoNode
  NoIP = NoIP
  NoAccount = NoAccount
SYMMETRY Symmetry
PROPERTY SweepSparesLiveLeases
