SPECIFICATION FairSpec
CONSTANTS
    Turns = {t1, t2}
INVARIANTS
    TurnsInv
PROPERTIES
    EndIsFinal
    RunsEnd
CHECK_DEADLOCK FALSE
