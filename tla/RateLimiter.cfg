CONSTANTS
    Subjects = {"s"}
    Addresses = {"a1", "a2"}
    Nobody = Nobody
    Asked <- ThreeBudgets
    RateLimitMax = 2
    StatusRateLimitMax = 1
    WindowMs = 2
    MaxLate = 1
    MaxTime = 5
    MaxCount = 3
SPECIFICATION Spec
INVARIANT TypeOK
INVARIANT SlidingBound
INVARIANT RefusedOnlyWhenSpent
INVARIANT StaleBound
PROPERTY AsFixedWindow
PROPERTY HeadersKeepTheirWord
CHECK_DEADLOCK FALSE
