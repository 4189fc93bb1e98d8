SPECIFICATION Spec
CONSTANTS
    j1 = j1
    j2 = j2
    s1 = s1
    s2 = s2
    None = None
    Jobs <- MCJobs
    Sessions <- MCSessions
    Times <- MCTimes
    MaxBatch = 2
    MaxSeq = 4
SYMMETRY MCSymmetry
CHECK_DEADLOCK FALSE
INVARIANTS
    TypeOK
    LiveJobsAreRegistered
    ControlIsPublished
    OutcomesAreDurable
    EndedRunnersAreReleased
PROPERTIES
    OutcomesAreFinal

