SPECIFICATION FairSpec
CONSTANTS
    p1 = p1
    p2 = p2
    p3 = p3
    NONE = NONE
    Passphrases = {p1}
    Short = {}
    Kinds = {"unlock", "enrol"}
    Faults = {"crash"}
    Installed = {"legacy"}
    MaxOps = 4
    MaxGen = 2
PROPERTIES
    EnrolledCanUnlock
CHECK_DEADLOCK FALSE
