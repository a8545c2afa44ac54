SPECIFICATION Spec
CONSTANTS
    Tasks = {1, 2, 3}
    Targets = {"main", "release"}
    DefaultBranch = "main"
    MaxAttempts = 1
    MaxPushes = 1
    MaxRearms = 1
    MaxRetries = 1
    MaxCrashes = 1
    MaxErrors = 1
    MaxEvents = 3
INVARIANTS
    TypeOK
    NothingPushedIsLost
    ResolutionReachesPr
    
PROPERTY
    MergesWhatWasRead
CHECK_DEADLOCK FALSE
