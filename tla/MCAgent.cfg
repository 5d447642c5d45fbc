SPECIFICATION Spec
CONSTANTS
    Outputs = {"report", "deck"}
    Files = {"report", "deck", "export", "plan"}
    Source <- MCSource
    PlanFile = "plan"
    Readable = {"deck"}
    MaxBytes = 1
    Criteria <- MCCriteria
    Tasks <- MCVerified
    Policies = {FALSE}
    FlowLength = 0
    ExportStage = 1
    ExportOutput = "deck"
    FailureLimit = 1
    InspectionLimit = 1
    MaxOperations = 5
    MaxBackground = 1
INVARIANTS
    AgentInv
    FinishedIsVerified
PROPERTIES
    ChangesAreReadAgain
CHECK_DEADLOCK FALSE
