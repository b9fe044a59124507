CONSTANTS
    Requests = {r1, r2}
    Roles = {"admin", "temp"}
    Tables = {"audit", "film"}
    Subjects = {"u"}
    Addresses = {"a"}
    NoPrincipal = NoPrincipal
    NoPolicy = NoPolicy
    Asked <- ManyRequests
    Configs <- DiscoveryConfigs
    RateLimitMax = 1
    StatusRateLimitMax = 2
    WindowMs = 1
    MaxLate = 0
    MaxTime = 1
    MaxCount = 2
SPECIFICATION Spec
CHECK_DEADLOCK FALSE
INVARIANT TokenRequired
