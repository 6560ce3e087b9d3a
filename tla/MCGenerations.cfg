SPECIFICATION Spec
CONSTANTS
    Leaves = {catalogue, vault, covers}
    catalogue = catalogue
    vault = vault
    covers = covers
    NONE = NONE
    TORN = TORN
    Unflushed = {}
    Faults = {"crash", "io", "power"}
    MaxRestores = 2
    MaxGenerations = 3
SYMMETRY LeafSymmetry
INVARIANTS
    TypeOK
    ServesCurrent
    NoSecondCopy
PROPERTIES
    SwitchIsAtomic
