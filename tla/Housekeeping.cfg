SPECIFICATION Spec
CONSTANTS
    Tasks = {1, 2}
    WithPr = {1}
    WithIssue = {2}
    HasReader = TRUE
    MaxRequests = 1
    MaxErrors = 1
    MaxCrashes = 1
INVARIANTS
    TypeOK
    PageIsCurrent
    
    ClaimedIsAttended
CHECK_DEADLOCK FALSE
