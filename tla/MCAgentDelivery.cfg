SPECIFICATION Spec
CONSTANTS
    Outputs = {"deck"}
    Files = {"deck", "export", "plan"}
    Source <- MCSource
    PlanFile = "plan"
    Readable = {}
    MaxBytes = 2
    Criteria <- MCGoal
    Tasks <- MCDelivered
    Policies = {TRUE}
    FlowLength = 2
    ExportStage = 1
    ExportOutput = "deck"
    FailureLimit = 0
    InspectionLimit = 0
    MaxOperations = 7
    MaxBackground = 1
INVARIANTS
    PhasesInOrder
    FreshDelivery
    NoStageReplayed
CHECK_DEADLOCK FALSE
