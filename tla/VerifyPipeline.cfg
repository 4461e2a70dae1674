CONSTANTS
    Requests <- ClashRequests
    Users <- MCUsers
    UserOf <- ClashUserOf
    Question <- ClashQuestion
    Answer <- ClashAnswer
    TypeOf <- ClashTypeOf
    Blank = " "
    MinLength = 2
    RawScores <- ClashRawScores
    Confidences <- MCConfidences
    MaxLate = 1
    NoResponse = NoResponse
SPECIFICATION Spec
INVARIANTS TypeOK FlagMatchesVerdict CacheSound HitServesSameText HistoryFaithful EventsCountFreshRuns AccountedFor 
