SPECIFICATION Spec
CONSTANTS
    Requests = {r1, r2}
    Proposals <- MCProposals
    AppEnvironment = "sandbox"
SYMMETRY PatchSymmetry
INVARIANTS
    TypeOK
    VersionsInOrder
PROPERTIES
    DecisionsExclude
    ApprovalIsCurrent
    HandoffIsCurrent
