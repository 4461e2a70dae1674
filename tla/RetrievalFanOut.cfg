CONSTANTS
    Batches <- FanOutBatches
    Claims <- FanOutClaims
    ClaimsOf <- FanOutClaimsOf
    Sources <- FanOutSources
    Terms <- FanOutTerms
    ApiKey = "set"
    MaxConnections = 2
    Miss = Miss
    Unknown = Unknown
SPECIFICATION Spec
INVARIANT EvidenceAttributed
PROPERTY KeepsPromise
