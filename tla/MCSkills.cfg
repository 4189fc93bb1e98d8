CONSTANTS
    x1 = x1
    x2 = x2
    s1 = s1
    s2 = s2
    v1 = v1
    v2 = v2
    Executions <- MCExecutions
    Sessions <- MCSessions
    Versions <- MCVersions
    Main = Main
    None = None
    AgentTasks = TRUE
    Commands = 2
    MaxPending = 1
    CrashThreshold = 3
    MaxWork = 3
SYMMETRY MCSymmetry
SPECIFICATION Spec
INVARIANTS
    TypeOK
    SessionsAreControlled
    WorkersRunWhatIsEnabled
    TablesAgree
    InstalledIsRecoverable
PROPERTIES
    ImplementsApprovalGate
