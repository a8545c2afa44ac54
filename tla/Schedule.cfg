\* Three processes over two weeks: the clock jumps, two things go wrong.
SPECIFICATION Spec
CONSTANTS
    Processes <- MCProcesses
    Definition <- MCDefinition
    Instants <- MCInstants
    c1 = c1
    c2 = c2
    Conditions <- MCConditions
    None = None
    MaxChanges = 2
    MaxTroubles = 2
SYMMETRY Symmetry
INVARIANTS
    TypeOK
    OccurrenceIsLatest
    OneTaskPerKey
    ReturnedIsTasked
\* When every instant is past and every task archived nothing is left to do.
CHECK_DEADLOCK FALSE
