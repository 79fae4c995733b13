SPECIFICATION Spec
CONSTANTS
    Workers = {w1, w2}
    Clients = {c1}
    NumTasks = 2
    NumSteps = 1
    LeaseMayExpireUnderOwner = FALSE
    MaxFaults = 1
SYMMETRY WorkerSymmetry
INVARIANTS
    TypeOK
    ExecutorHoldsLease
    ActiveIsRecoverable
    FindingsOnce
    CallsNotRepeated
    AuditFollowsStatus
PROPERTIES
    ReportOnlyByOwner
    ImplementsTaskQueue
\* Nothing happens once every task is terminal.
CHECK_DEADLOCK FALSE
