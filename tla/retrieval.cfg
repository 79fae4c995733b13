SPECIFICATION Spec
CONSTANTS
    m1 = m1
    m2 = m2
    NoModule = none
    Modules = {m1, m2}
    Texts = {1, 2}
    Edited = {m1}
    Requests <- MCRequests
    Toolsets <- MCToolsets
    MaxCalls = 7
    MaxReads = 2
    MaxEntries = 2
    MaxBytes = 2
    MaxTasks = 2
    MaxFaults = 1
INVARIANTS
    TypeOK
    SourceIsCurrent
    EvidenceIsInSource
    PreflightBeforeRead
    CallsWithinLimit
    AskedOnce
    PlanIsFollowed
    ObjectIsRead
    CacheIsBounded
