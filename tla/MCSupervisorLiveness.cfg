SPECIFICATION FairSystemSpec
CONSTANTS
    build = build
    None = None
    Free = Free
    Orphaned = Orphaned
    Gone = Gone
    Supervisors = {s1, s2}
    Operators = {o1}
    Attempts = {a1}
    Generations = {}
    LoopSpecs <- OneGraph
    InitialSpecs <- MCInitialSpecs
    MaxValidations = 1
    MaxRequests = 1
    MaxToken = 1
    MaxTasks = 1
    MaxFaults = 1
    MaxCommands = 1
PROPERTIES
    UncertainWorkIsResolved
    PauseTakesEffect
CHECK_DEADLOCK FALSE
