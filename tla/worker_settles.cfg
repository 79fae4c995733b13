SPECIFICATION FairSpec
CONSTANTS
    Workers = {w1, w2}
    Clients = {c1}
    NumTasks = 1
    NumSteps = 1
    LeaseMayExpireUnderOwner = TRUE
    MaxFaults = 1
PROPERTIES
    
    CancelSticks
\* Nothing happens once every task is terminal.
CHECK_DEADLOCK FALSE
