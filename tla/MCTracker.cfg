SPECIFICATION Spec
CONSTANTS
    Token = {t1, t2}
    Address = {a, b}
    NoOne = NoOne
    LowerBlock <- LowerBlocks
    MaxBlock = 5
    MaxFaults = 2
CHECK_DEADLOCK FALSE
SYMMETRY Interchangeable
INVARIANTS
    TypeOK
    DuplicatesAreRepeats
    TableMatchesChain
    TableIsComplete
PROPERTIES
    RowsAreCurrent
