SPECIFICATION Spec
CONSTANTS
    p1 = p1
    p2 = p2
    k1 = k1
    k2 = k2
    n1 = n1
    n2 = n2
    c1 = c1
    c2 = c2
    NONE = NONE
    Foreign = Foreign
    Damaged = Damaged
    Calls = {c1, c2}
    Secrets = {p1, p2}
    Keys = {k1}
    Names = {n1}
    MaxId = 2
    Alone = {"create_vault", "unlock_and_read_vault"}
SYMMETRY CallSymmetry
INVARIANTS
    TypeOK
    LoansHaveBorrowers
    EveryBlobOpens
    ReadIsSnapshot
PROPERTIES
    IdsNameOneRow
    CallsAreAtomic
CHECK_DEADLOCK FALSE
