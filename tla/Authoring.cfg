\* Three edits of a seeded root, by hand and in the dashboard.
SPECIFICATION Spec
CONSTANTS
    Workflows = {"development", "heal"}
    Processes = {"autoheal", "triage"}
    Triggers = {"nightly"}
    Steps = {"code", "land", "heal", "file", "extra"}
    Repositories = {"repo"}
    WorkflowTexts <- MCWorkflowTexts
    ProcessTexts <- MCProcessTexts
    TriggerTexts <- MCTriggerTexts
    SeedWorkflows <- MCSeedWorkflows
    SeedProcesses <- MCSeedProcesses
    Absent = Absent
    None = None
    END = "end"
    MaxEdits = 3
INVARIANTS
    TypeOK
    SavedStarts
    TokenlessStarts
    InitMends
CHECK_DEADLOCK FALSE
