CONSTANTS
    UINT8_MAX = 2
    DelayUnit = 1
    MultUnit = 1
    JitterUnit = 1
    NonFinite = NonFinite
    Statuses = {200, 404, 500, 503}
    Codes = {"NetworkError", "InvalidRequest"}
    Locations <- MCLocations
    NaN = NaN
    NegZero = NegZero
    CalledMethods <- MCCalled
    Policies <- MCPolicies
    Buckets <- MCBuckets
    TTLs = {1}
    Versions = {1}
    Absent = Absent
    MaxTime = 2
    MaxCalls = 2
SPECIFICATION FairSpec
INVARIANTS
    EveryRequestPaid
    BoundedRequests
    CacheGenuine
    TransientErrorsExhausted
PROPERTIES
    PointIsFresh
    EveryCallReturns
