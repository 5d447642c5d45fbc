SPECIFICATION FairSpec
CONSTANTS
    j1 = j1
    w1 = w1
    w2 = w2
    Jobs <- OneJob
    Workers <- TwoWorkers
    MaxAttempts = 2
    TimeoutEnabled = TRUE
INVARIANTS
    JobInv
    EndsAgree
    SucceededIsComplete
PROPERTIES
    OutcomeOfLastAttempt
    FailureNeverReplacesAnEnd
    PromiseKept
    EveryJobEnds
