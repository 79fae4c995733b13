SPECIFICATION Spec
CONSTANTS
    Workers = {w1, w2}
    Clients = {c1}
    NumTasks = 1
    NumSteps = 1
    LeaseMayExpireUnderOwner = FALSE
    MaxFaults = 0
PROPERTY TerminalIsFinal
\* Nothing happens once every task is terminal.
CHECK_DEADLOCK FALSE
