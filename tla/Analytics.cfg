CONSTANTS
    Users = {"u1", "u2"}
    MaxEvents = 3
    OwnerOf <- MCOwnerOf
    Sourced <- MCSourced
    Batch = 1
    Cap = 2
    Polls = {1, 2}
    MaxClears = 1
    MaxFaults = 1
    None = None
SPECIFICATION FairSpec
PROPERTIES StatsMissNothing CardsCatchUp ChartsCatchUp
