CONSTANTS
    Actions <- MCActions
    Policies <- MCPolicies
    MaxTime = 3
    MaxSequence = 2
    MaxBack = 1
    MaxFaults = 1
SPECIFICATION Spec
INVARIANTS
    TypeOK
    FeedbackHasItsTimer
    StartsWithinBudget
