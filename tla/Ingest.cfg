\* One issue, labelled twice, with an import, a crash, a call that raises
\* and a request of the operator.
SPECIFICATION Spec
CONSTANTS
    Issues = {i1}
    Threads = {a1}
    StepLabels <- MCStepLabels
    PollKind = "github"
    None = None
    MaxWants = 2
    MaxRequests = 1
    MaxImports = 1
    MaxCrashes = 1
    MaxErrors = 1
INVARIANTS
    TypeOK
    PolledOnce
    
PROPERTIES
    ImportFindsResting
\* When nothing is wanted and no task is left the harness rests.
CHECK_DEADLOCK FALSE
