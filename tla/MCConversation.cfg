SPECIFICATION FairSpec
CONSTANTS
    r1 = r1
    r2 = r2
    r3 = r3
    Requests <- ThreeRequests
    MaxRuns = 3
INVARIANTS
    ConversationInv
PROPERTIES
    ConversationPromised
    LockComesFree
CHECK_DEADLOCK FALSE
