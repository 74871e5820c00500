CONSTANTS
    UINT8_MAX = 3
    DelayUnit = 16
    MultUnit = 2
    JitterUnit = 4
    NonFinite = NonFinite
    Statuses = {200, 404, 429, 500, 503, 600}
    Codes = {"NetworkError", "RateLimited"}
    Policies <- MCPolicies
    Outcomes <- MCOutcomes
    MaxRequests = 2
SPECIFICATION FairSpec
INVARIANTS
    RetriesExactlyTransient
    ReportsLastOutcome
    DelayFollowsPolicy
PROPERTY EveryRequestReturns
