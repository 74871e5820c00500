CONSTANTS
    SIZE_MAX = 7
    Limits = {0, 5}
    Sizes = {0, 1, 2}
    Counts = {0, 1, 3, 5, 7}
    FieldNames = {"X-Correlation-Id"}
    MaxRedirs = 1
    MaxInfos = 1
    MaxFields = 2
    MaxBytes = 14
    MaxGets = 2
SPECIFICATION Spec
INVARIANTS
    BodyWithinLimit
    ResponseComplete
    HeadersOfLastResponse
    LimitReported
