SPECIFICATION Spec
CONSTANTS
    Workers = {w1, w2}
    Clients = {c1}
    NumTasks = 1
    NumSteps = 1
    LeaseMayExpireUnderOwner = TRUE
    MaxFaults = 1
PROPERTY ReportOnlyByOwner
\* Nothing happens once every task is terminal.
CHECK_DEADLOCK FALSE
