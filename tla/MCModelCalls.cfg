SPECIFICATION CallsSpec
CONSTANTS
    Connections <- Instances
    Answers <- Spoken
INVARIANT CallsInv
PROPERTY CallsEnd
