SPECIFICATION FairSpec
CONSTANTS
    Covers = {c1, c2, c3}
    c1 = c1
    c2 = c2
    c3 = c3
    SaveEvery = 2
    MaxBlobs = 5
    Quota = 4
    MaxPause = 2
    Faults = {"lane", "limit", "net", "unproven", "save", "damage", "age", "gc", "writer", "crash"}
    MaxEvents = 2
INVARIANTS
    TypeOK
    JournalIsExact
    SilentWhileAsked
PROPERTIES
    Publishes
CHECK_DEADLOCK FALSE
