SPECIFICATION Spec
CONSTANTS
    e1 = e1
    e2 = e2
    call1 = call1
    call2 = call2
    files1 = files1
    files2 = files2
    Executors <- MCExecutors
    CallIds <- MCCallIds
    Contents <- MCContents
    Times <- MCTimes
    Deadline = 2
    MaxCycles = 2
    GoalStates = {"active", "paused", "revised"}
    InitialTasks = {"Planning", "Running"}
    StorageFaults = TRUE
    MaxSeq = 5
    MaxRev = 2
SYMMETRY MCSymmetry
CHECK_DEADLOCK FALSE
INVARIANTS
    TypeOK
    UnsettledIsRecorded
    OneCallPerCheckpoint
    NoSharedContinuation
    QuarantineIsResolvable
    LifecyclesAgree
PROPERTIES
    DriftedSessionStaysPaused
    ImplementsLedger
