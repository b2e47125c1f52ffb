SPECIFICATION SystemSpec
CONSTANTS
    build = build
    None = None
    Free = Free
    Orphaned = Orphaned
    Gone = Gone
    Supervisors = {s1, s2}
    Operators = {o1}
    Attempts = {a1, a2}
    Generations = {}
    LoopSpecs <- OneGraph
    InitialSpecs <- MCInitialSpecs
    MaxValidations = 1
    MaxRequests = 1
    MaxToken = 1
    MaxTasks = 2
    MaxFaults = 2
    MaxCommands = 1
SYMMETRY MCSymmetry
INVARIANTS
    EvidenceOfOneExecution
    SecondAppendAccepted
PROPERTIES
    OnlyDispatcherEndsAttempt
CHECK_DEADLOCK FALSE
