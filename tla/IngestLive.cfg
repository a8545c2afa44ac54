\* Two issues in one poll, and an import beside it; nothing fails.
SPECIFICATION Spec
CONSTANTS
    Issues = {i1, i2}
    Threads = {a1}
    StepLabels <- MCStepLabels
    PollKind = "scheduled"
    None = None
    MaxWants = 2
    MaxRequests = 0
    MaxImports = 1
    MaxCrashes = 0
    MaxErrors = 0
PROPERTIES
    WantedBecomesTask
\* When nothing is wanted and no task is left the harness rests.
CHECK_DEADLOCK FALSE
