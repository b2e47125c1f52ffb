SPECIFICATION Spec
CONSTANTS
    build = build
    check = check
    None = None
    Attempts = {a1}
    Generations = {g1, g2}
    LoopSpecs <- MCLoopSpecs
    InitialSpecs <- MCInitialSpecs
    MaxValidations = 3
    MaxRequests = 2
    MaxToken = 1
SYMMETRY MCSymmetry
INVARIANTS
    PhaseCoherent
    ExecutableNodeInActiveGraph
    PromotedWasApproved
    RefusedEvidenceNeverPromotes
    RevisionNamesGraph
    LostWorkLeavesNoEvidence
    RevokedRequestNeverReturns
    PauseHeld
PROPERTIES
    PromotionAdvancesTestedGraph
    ImplementsGate
CHECK_DEADLOCK FALSE
