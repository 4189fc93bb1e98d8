SPECIFICATION CliSpec
CONSTANTS
    e1 = e1
    e2 = e2
    call1 = call1
    files1 = files1
    files2 = files2
    Executors <- MCExecutors
    CallIds <- MCCallIds
    Contents <- MCContents
    Times <- MCTimes
    Deadline = 2
    MaxCycles = 1
    GoalStates = {"active", "revised"}
    InitialTasks = {"Planning", "Running"}
    StorageFaults = FALSE
    MaxSeq = 3
    MaxRev = 2
SYMMETRY MCSymmetry
CHECK_DEADLOCK FALSE
PROPERTY ImplementsLedger
