SPECIFICATION FairSubmissionSpec
CONSTANTS
    j1 = j1
    j2 = j2
    c1 = c1
    c2 = c2
    Jobs <- TwoJobs
    Keys = {k}
    Cancellers <- TwoCancellers
    Aims <- AtOneJob
    NoKey = NoKey
    NoJob = NoJob
INVARIANTS
    SubmissionInv
PROPERTIES
    SubmissionPromised
    JobsEnd
CHECK_DEADLOCK FALSE
