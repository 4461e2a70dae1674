CONSTANTS
    Limit = 2
    MaxRecords = 7
    Unreadable = {2}
SPECIFICATION Spec
INVARIANTS PagesMissNothing RepeatsAreAccounted
