CONSTANTS
    Statements = {s1, s2}
    MaxPools = 3
    PoolSize = 1
SPECIFICATION FairSpec
INVARIANT TypeOK
INVARIANT CachedPoolUsable
INVARIANT NoConnectionLeaks
INVARIANT OnlyLateFailuresLosePools
PROPERTY DroppedPoolEnds
PROPERTY StatementEnds
CHECK_DEADLOCK FALSE
