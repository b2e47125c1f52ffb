SPECIFICATION SystemSpec
CONSTANTS
    build = build
    None = None
    Free = Free
    Orphaned = Orphaned
    Gone = Gone
    Supervisors = {s1}
    Operators = {o1}
    Attempts = {a1}
    Generations = {g1, g2}
    LoopSpecs <- ThreeGraphs
    InitialSpecs <- MCInitialSpecs
    MaxValidations = 2
    MaxRequests = 1
    MaxToken = 1
    MaxTasks = 1
    MaxFaults = 1
    MaxCommands = 2
SYMMETRY MCSymmetry
INVARIANTS
    SecondAppendAccepted
CHECK_DEADLOCK FALSE
