\* Two tasks, two clients, three queues: every interleaving and crash.
CONSTANTS
    t1 = t1
    t2 = t2
    loop = loop
    api = api
    inbox = inbox
    failed = failed
    healed = healed
    Tasks <- MCTasks
    Actors <- MCActors
    Queues <- MCQueues
    Guarded <- MCGuarded
    Recovered <- MCRecovered
    Inbox = inbox
    Failed = failed
    MaxRev = 2
    NoFile = NoFile
    Corrupt = Corrupt
    NoLock = NoLock
    NoTask = NoTask
    NoQueue = NoQueue
    Nowhere = Nowhere
    Unclaimed = Unclaimed
    Orphaned = Orphaned
SYMMETRY Symmetry
SPECIFICATION Spec
INVARIANTS
    TypeOK
    OneFileEach
    ExclusiveClaim
    NoneStranded
PROPERTY ImplementsPort
CHECK_DEADLOCK FALSE
