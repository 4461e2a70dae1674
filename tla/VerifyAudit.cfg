CONSTANTS
    Requests <- BlanksRequests
    Users <- MCUsers
    UserOf <- BlanksUserOf
    Question <- BlanksQuestion
    Answer <- BlanksAnswer
    TypeOf <- BlanksTypeOf
    Blank = " "
    MinLength = 2
    RawScores <- BlanksRawScores
    Confidences <- MCConfidences
    MaxLate = 1
    NoResponse = NoResponse
SPECIFICATION Spec
INVARIANTS EveryRequestAudited
