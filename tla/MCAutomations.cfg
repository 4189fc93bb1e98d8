CONSTANTS
    r1 = r1
    r2 = r2
    s1 = s1
    s2 = s2
    Runs <- MCRuns
    Sessions <- MCSessions
    Main = Main
    NoRun = NoRun
    Nobody = Nobody
    MaxAttempts = 2
    Actions = 2
    DailyBudget = 1
    MaxAmount = 2
    MaxFaults = 1
    MaxCrashes = 1
SYMMETRY MCSymmetry
SPECIFICATION Spec
INVARIANTS
    TypeOK
    ListenersAreControlled
    CallsAreCharged
    CommittedWithinBudget
    OneTaskPerAction
CHECK_DEADLOCK FALSE
PROPERTIES
    ImplementsApprovalGate
