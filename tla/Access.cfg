CONSTANTS
    Requests = {r1, r2}
    Roles = {"admin", "temp"}
    Tables = {"audit", "film"}
    Subjects = {"u"}
    Addresses = {"a"}
    NoPrincipal = NoPrincipal
    NoPolicy = NoPolicy
    Asked <- ManyRequests
    Configs <- AllConfigs
    RateLimitMax = 1
    StatusRateLimitMax = 2
    WindowMs = 1
    MaxLate = 0
    MaxTime = 1
    MaxCount = 2
SPECIFICATION FairSpec
INVARIANT TypeOK
INVARIANT AccessDecided
INVARIANT ChargedToSender
INVARIANT DiscoveredOnce
PROPERTY EveryRequestAnswered
CHECK_DEADLOCK FALSE
