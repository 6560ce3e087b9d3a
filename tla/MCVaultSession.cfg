SPECIFICATION Spec
CONSTANTS
    p1 = p1
    p2 = p2
    p3 = p3
    NONE = NONE
    Passphrases = {p1, p2, p3}
    Short = {p3}
    Kinds = {"enable", "unlock", "change", "mutate", "enrol", "restoreVault", "restoreKeep"}
    Faults = {"io", "native", "keystore", "throw", "crash", "invalidate"}
    Installed = {"fresh", "enrolled"}
    MaxOps = 3
    MaxGen = 2
SYMMETRY PassphraseSymmetry
INVARIANTS
    TypeOK
    BlobsMatchDatabase
    HeldOpensVault
    SecretsOwned
    ViewCurrent
    CreateFindsNoFile
    StoreIsActive
PROPERTIES
    LockSticks
    VaultKept
    SwitchMeetsNoOther
CHECK_DEADLOCK FALSE
