SPECIFICATION Spec
CONSTANTS
    Moves = {"switch"}
    Faults = {}
    Overlaps = {}
    MaxEvents = 3
    NONE = NONE
INVARIANTS
    UpToDateIsShown
CHECK_DEADLOCK FALSE
