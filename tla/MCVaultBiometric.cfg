SPECIFICATION FairSpec
CONSTANTS
    p1 = p1
    p2 = p2
    p3 = p3
    NONE = NONE
    Passphrases = {p1}
    Short = {}
    Kinds = {"unlock", "change", "enrol", "bioUnlock", "disable", "restoreVault"}
    Faults = {"io", "native", "throw"}
    Installed = {"enrolled", "legacy"}
    MaxOps = 4
    MaxGen = 2
INVARIANTS
    BioPairMatches
    HeldOpensVault
    SecretsOwned
PROPERTIES
    CallsReturn
CHECK_DEADLOCK FALSE
