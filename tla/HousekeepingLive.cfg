SPECIFICATION Spec
CONSTANTS
    Tasks = {1, 2}
    WithPr = {1, 2}
    WithIssue = {}
    HasReader = FALSE
    MaxRequests = 0
    MaxErrors = 1
    MaxCrashes = 1
PROPERTIES
    SettledLeavesDone
CHECK_DEADLOCK FALSE
