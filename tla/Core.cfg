\* The whole cycle: dispatch, consume, fail, heal, operate, crash.
CONSTANTS
    Steps <- MCSteps
    StepQueues <- MCStepQueues
    Outcomes = {"done", "redo"}
    Graph <- MCGraph
    HealWorkflow = "heal"
    Submissions <- AllKinds
    Threads = {op}
    Verbs = {"restart", "resume", "delete"}
    MaxParallel = 1
    Rework = {"redo"}
    MaxTasks = 3
    MaxSubmits = 1
    MaxRequests = 2
    MaxCrashes = 1
    MaxRework = 1
    NoTask = NoTask
SPECIFICATION Spec
INVARIANTS
    TypeOK
    DispatchFollowsDelivery
    FilesTellQueues
    ResumeReturns
    HealedOnce

    
CHECK_DEADLOCK FALSE
