SPECIFICATION Spec
CONSTANTS
    worker = worker
    cliA = cliA
    cliB = cliB
    workerHolder = workerHolder
    operatorHolder = operatorHolder
    None = None
    Processes <- MCProcesses
    Holders <- MCHolders
    HolderOf <- MCHolderOf
    Keys = {k1, k2}
    TTL = 2
    MaxTime = 3
    MaxToken = 3
SYMMETRY MCSymmetry
INVARIANTS
    TokenHasOneOwner
    JournalIsFenced
    LiveGrantIsOwner
PROPERTIES
    ImplementsFencedLog
CHECK_DEADLOCK FALSE
