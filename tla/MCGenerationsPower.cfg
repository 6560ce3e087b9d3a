SPECIFICATION FairSpec
CONSTANTS
    Leaves = {catalogue, vault, covers}
    catalogue = catalogue
    vault = vault
    covers = covers
    NONE = NONE
    TORN = TORN
    Unflushed = {vault, covers}
    Faults = {"power"}
    MaxRestores = 1
    MaxGenerations = 2
INVARIANTS
    LiveIsFlushed
