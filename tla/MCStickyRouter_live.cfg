SPECIFICATION FairSpec
CONSTANTS
  Accounts = {a1}
  Nodes = {n1, n2}
  IPs = {i1}
  Requests = {r1, r2}
  Admins = {}
  MaxAccountsPerIP = 1
  IPAccountWindowNs = 1
  StickyTTLNs = 1
  quotaPickAttempts = 2
  livePickAttempts = 1
  EgressRace = TRUE
  Cleaner = TRUE
  MaxTime = 2
  MaxEnvChanges = 1
  NoNode = NoNode
  NoIP = NoIP
  NoAccount = NoAccount
PROPERTIES
  ExpiredLeaseReleased
  RequestEnds
