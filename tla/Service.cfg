SPECIFICATION Spec
CONSTANTS
    Viewers = {v1}
    MaxLines = 2
    Kinds = {"single", "multi", "verify"}
    PipeRoom = 1
    MaxWrites = 2
    Updaters = {u1}
    CallsFail = TRUE
    Stages = 2
    MaxReleases = 1
    MaxOutages = 1
INVARIANTS
    TypeOK
    VerdictIsRight
    StreamInOrder
PROPERTIES
    EverythingEnds
CHECK_DEADLOCK FALSE
