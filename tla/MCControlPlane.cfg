SPECIFICATION ControlSpec
CONSTANTS
    s1 = s1
    n1 = n1
    i1 = i1
    NoInput = NoInput
    Subs = {s1, s2}
    Nodes = {n1}
    Workers = {w1, w2}
    Inputs = {i1, i2}
    Offers <- Downloads
    Incremental = {s2}
    Ephemeral = {s1}
    MaxAttempts <- Refreshes
    MaxPatches <- Reconfigured
    Endpoints = {e1, e2}
    Ports = {p1, p2}
    DefaultPort = p0
    CapabilitySets <- Offered
    MaxCrashes = 1
    PlatformIds = {d, a, b}
    DefaultPlatformID = d
    PlatformNames = {D, m1, m2}
    DefaultPlatformName = D
    Headers = {x}
    NoHeader = NoHeader
    AdminHandlers = {h1, h2}
    MaxAdminOps = 3
    MaxRestarts = 1
    Segments = {"g", "h", "x", "y"}
    RulePaths <- RulesAt
    Spellings = {0, 1}
    DefaultHeaders = H0
    RuleHeaders = {H0, H1}
    RuleRequests <- MatchedPaths
    Domains = {t1, t2}
    DefaultDomain = t1
    SettingHandlers = {h1, h2}
    MaxSettingOps = 2
    u2 = u2
    c2 = c2
    SubIds = {u1, u2}
    Plats = {q1}
    CacheNodes = {c1, c2}
    LeaseAccounts = {a1}
    MaxRecoveries = 2
    GeoUpdaters = {"startup", "cron", "api"}
    Lookups = {l1}
    MaxReaders = 3
    MaxGeoCrashes = 1
    Characters = {"a", "p", "t", "w", ".", ":"}
    Tokens <- TokenTexts
    Passwords <- PasswordTexts
    PlatformTexts <- Platforms
    AccountTexts <- Accounts
    HeaderAccounts <- OneHeader
    HeaderValues <- OneList
    EndpointPolicies <- Policies
    AccountBehaviors = {"RANDOM", "FIXED_HEADER", "ACCOUNT_HEADER_RULE"}
INVARIANTS
    RefsMatchManaged
    NoStaleError
    ListenerFollowsRow
    NameIndexSound
    SerialOpsAgree
    MatchesLongestRule
    ConfigFollowsRow
    RepairKeepsExactlyTheLiving
    BootedMemorySound
    ReadersSound
    RoutedAsMeant
PROPERTY ForwardOnly
SYMMETRY Symmetry
CHECK_DEADLOCK FALSE
