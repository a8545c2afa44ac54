SPECIFICATION Spec
CONSTANTS
    Viewers = {}
    MaxLines = 1
    Kinds = {"single"}
    PipeRoom = 1
    MaxWrites = 1
    Updaters = {u1}
    CallsFail = FALSE
    Stages = 1
    MaxReleases = 1
    MaxOutages = 0
PROPERTIES
    DeferredApplies
CHECK_DEADLOCK FALSE
