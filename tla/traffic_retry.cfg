SPECIFICATION Spec
CONSTANTS
    Callers = {c1, c2}
    HardLimit = 7
    MaxTask = 4
    MaxResult = 1
    MaxResponse = 1
    ChunkSize = 1
    RequestSizes = {1, 6}
    MaxRetries = 1
    NumMonths = 2
    MaxCrashes = 1
INVARIANT TaskWithinLimit
