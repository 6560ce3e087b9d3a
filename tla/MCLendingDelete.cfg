SPECIFICATION FairSpec
CONSTANTS
    book1 = book1
    book2 = book2
    NONE = NONE
    Items = {book1}
    Copies = {2}
    Limits = {1}
    Faults = {}
    MaxFlows = 2
    MaxEdits = 0
    MaxGen = 1
INVARIANTS
    DeletedHasNoLoans
CHECK_DEADLOCK FALSE
