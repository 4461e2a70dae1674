CONSTANTS
    Retrievals <- MCRetrievals
    MaxTokens = 2
    Medium = 3
    Long = 6
    Huge = 8
    Characters <- MCCharacters
    Digits <- MCDigits
    Boilerplate <- MCBoilerplate
    Heading <- MCHeading
    Insight <- MCInsight
    Stop = "."
    Blank = "_"
    Newline = "/"
SPECIFICATION Spec
INVARIANTS NothingLost NoneRedundant BudgetKept BestKeptWhole
