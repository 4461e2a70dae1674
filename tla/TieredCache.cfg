CONSTANTS
    Clients = {c1, c2}
    Keys = {k1, k2}
    Values <- MCTwoValues
    TTLOf <- MCTwoTTLOf
    Miss = Miss
    NoReply = NoReply
    NoKey = NoKey
    Absent = Absent
    NoTTL = NoTTL
    CacheTTL = 2
    MaxSize = 1
    MaxLate = 1
SPECIFICATION FairSpec
INVARIANTS TypeOK ServedWithinLifetime FallbackBounded
PROPERTIES KeepsPromise CallsReturn
