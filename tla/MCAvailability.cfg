SPECIFICATION FairSpec
CONSTANTS
    Moves = {"lend", "item", "lock", "switch", "publish", "restore", "resume", "now", "host"}
    Faults = {"net", "store", "damage", "read", "salt", "other", "crash", "lost", "save"}
    Overlaps = {}
    MaxEvents = 3
    NONE = NONE
INVARIANTS
    TypeOK
    TagsOfThisLibrary
    QuietIsOff
    InputsAreNewest
    QuietIsNewest
PROPERTIES
    Settles
CHECK_DEADLOCK FALSE
