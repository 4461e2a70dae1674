CONSTANTS
    Batches <- MixedBatches
    Claims <- MixedClaims
    ClaimsOf <- MixedClaimsOf
    Sources <- MixedSources
    Terms <- MixedTerms
    ApiKey = "set"
    MaxConnections = 1
    Miss = Miss
    Unknown = Unknown
SPECIFICATION FairSpec
INVARIANTS PreciseTermWins MissesAreExhaustive CreditsSpared
PROPERTIES EveryBatchReturns
