SPECIFICATION RecoverySpec
CONSTANTS
    build = build
    None = None
    Worker = Worker
    Coordinators = {c1, c2}
    Attempts = {a1}
    Generations = {g1}
    LoopSpecs <- MCLoopSpecs
    InitialSpecs <- MCInitialSpecs
    MaxValidations = 1
    MaxRequests = 1
    MaxToken = 0
    MaxRevision = 6
SYMMETRY MCSymmetry
INVARIANTS
    ReturnedIsSafe
PROPERTIES
    RecoveryIsOfWhatWasSeen
    ImplementsStream
CHECK_DEADLOCK FALSE
