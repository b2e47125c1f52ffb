SPECIFICATION FairSpec
CONSTANTS
    Processes = {p1, p2}
    Runs = {r1, r2}
    OldStreams <- MCOldStreams
    MaxEvents = 3
    MaxCrashes = 1
    Nobody = Nobody
INVARIANTS
    OpenedIsCurrent
    FailsClosed
PROPERTIES
    JournalKept
    MigratableOpens
CHECK_DEADLOCK FALSE
