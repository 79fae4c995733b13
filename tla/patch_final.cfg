SPECIFICATION Spec
CONSTANTS
    Requests = {r1, r2}
    Proposals <- MCProposals
    AppEnvironment = "sandbox"
PROPERTY DecisionIsFinal
