SPECIFICATION FairSpec
CONSTANTS
    WorkspaceFiles = {w1, w2}
    MessageFiles = {}
    TaskFiles = {t1}
    MaxFiles = 1
INVARIANTS
    FilesInv
PROPERTIES
    OrphansGo
    ExpiredGo
CHECK_DEADLOCK FALSE
