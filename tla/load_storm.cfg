SPECIFICATION Spec
CONSTANTS
    Workers = {w1, w2, w3}
    Count = 4
    Funds = {2, 4}
    MaxReads = 1
SYMMETRY Symmetry
INVARIANTS
    EveryEventIsCounted
    DropIsExplained
CHECK_DEADLOCK FALSE
