SPECIFICATION Spec
CONSTANTS
    build = build
    check = check
    None = None
    Attempts = {a1}
    Generations = {g1, g2}
    LoopSpecs <- MCLoopSpecs
    InitialSpecs <- MCInitialSpecs
    MaxValidations = 2
    MaxRequests = 2
    MaxToken = 1
INVARIANTS
    AdmissionGateClosed
CHECK_DEADLOCK FALSE
