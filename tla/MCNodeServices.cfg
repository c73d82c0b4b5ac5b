SPECIFICATION Spec
CONSTANTS
    Keys = {k1}
    Producers = {p1, p2}
    Urgent = {p2}
    ProbeWorkers = {w1, w2}
    QueueCapacity = 1
    States = {t1, t2}
    NoState = NoState
    ProbeNodes = {n1}
    ProbeDomains = {d1, d2}
    EgressTraceDomain = d2
    ConfigRequests <- PatchRequests
    MaxAge = 3
    Entries = {e1, e2}
    Outbounds = {o1, o2}
    Callers = {g1, g2, g3}
    NoEntry = NoEntry
    NoOutbound = NoOutbound
    d1 = d1
    d2 = d2
    Domains = {d1, d2, d3}
    Recorders = {r1, r2}
    AuthorityLists <- Lists
    MaxEntries = 2
    MaxClock = 4
    Copiers <- TunnelCopiers
    DeferredFlushes = {f1}
    Closers = {c1}
    FlushThreshold = 2
    MaxTransfers = 2
    GlobalScope = Global
    MetricPlatforms = {m1}
    RequestGoroutines = {h1}
    MaxRequests = 2
    MaxBuckets = 1
INVARIANTS
    OneRunPerState
    NoStuckKey
    ClosedOnce
    NoLeakedOutbound
    RegularBounded
    RowsFollowTable
    TrafficNotLost
    PlatformCountsOnce
PROPERTY ProbeSettles
SYMMETRY Symmetry
CHECK_DEADLOCK FALSE
