\* Two tasks at once, rework, a crash: everything comes to rest.
CONSTANTS
    Steps <- MCSteps
    StepQueues <- MCStepQueues
    Outcomes = {"done", "redo"}
    Graph <- MCGraph
    HealWorkflow = "heal"
    Submissions <- Feature
    Threads = {op}
    Verbs = {"restart", "resume", "delete"}
    MaxParallel = 2
    Rework = {"redo"}
    MaxTasks = 4
    MaxSubmits = 2
    MaxRequests = 0
    MaxCrashes = 1
    MaxRework = 0
    NoTask = NoTask
SPECIFICATION LiveSpec
PROPERTIES
    EveryTaskSettles
    EveryFailureIsAttended
CHECK_DEADLOCK FALSE
