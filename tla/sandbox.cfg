SPECIFICATION FairSpec
CONSTANTS
    Requests = {r1, r2}
INVARIANTS
    TypeOK
    AcceptanceIsEarned
    AcceptedAsTested
    RolledBackIsGone
    FailedIsGone
    RollbackHasTarget
PROPERTIES
    WorkSettles
CHECK_DEADLOCK FALSE
