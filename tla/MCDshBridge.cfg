SPECIFICATION BridgeSpec
CONSTANTS
    None = None
    Free = Free
    Orphaned = Orphaned
    Gone = Gone
    Supervisors = {s1, s2}
    Operators = {o1}
    Attempts = {a1, a2}
    Generations = {}
    LoopSpecs <- MCGraphs
    InitialSpecs <- MCGraphs
    PreStep <- MCPreStep
    MaxValidations = 2
    MaxRequests = 1
    MaxToken = 1
    MaxTasks = 1
    MaxFaults = 1
    MaxCommands = 1
SYMMETRY MCSymmetry
INVARIANTS
    SettledStepEnded
    OwnerRemembersStartedStep
    GatedStepWasApproved
PROPERTIES
    ImplementsSystem
CHECK_DEADLOCK FALSE
