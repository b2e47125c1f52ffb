SPECIFICATION FairSpec
CONSTANTS
    Bridges = {b1, b2}
    Runs = {r1}
    Nobody = Nobody
    MaxEvents = 8
    MaxNumber = 16
    MaxRestarts = 1
    MaxLapses = 1
INVARIANTS
    DurableIdsNew
PROPERTIES
    AttachesWhenSafe
    AttachesInTheEnd
CHECK_DEADLOCK FALSE
