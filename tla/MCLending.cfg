SPECIFICATION Spec
CONSTANTS
    book1 = book1
    book2 = book2
    NONE = NONE
    Items = {book1}
    Copies = {0, 2}
    Limits = {1}
    Faults = {"native", "io"}
    MaxFlows = 3
    MaxEdits = 1
    MaxGen = 1
INVARIANTS
    TypeOK
    RowsAreShown
    LoansHaveBorrowers
PROPERTIES
    CopiesKept
    LimitKept
    ActiveLoansStay
CHECK_DEADLOCK FALSE
