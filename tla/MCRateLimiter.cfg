CONSTANTS
    Threads = {t1, t2}
    RawConfigs <- MCConfigs
    Waits <- MCWaits
    UINT16_MAX = 3
    TicksPerMs = 2
    ClockMax = 16
    DefaultIntervalMs = 1
    None = None
    Free = Free
    MaxTime = 3
    MaxCalls = 3
SPECIFICATION FairSpec
INVARIANTS
    TypeOK
    SleepIsEnough
    DeadlineRepresentable
    BurstBound
PROPERTIES
    ImplementsTokenBucket
    AvailableIsHonest
    EveryCallReturns
