SPECIFICATION FairSpec
CONSTANTS
    j1 = j1
    j2 = j2
    s1 = s1
    s2 = s2
    None = None
    Jobs <- MCJobs
    Sessions <- MCSessions
    Times = {1}
    MaxBatch = 2
    MaxSeq = 3

CHECK_DEADLOCK FALSE
PROPERTY ControlledRunnersEnd
