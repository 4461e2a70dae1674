CONSTANTS
    MaxVerifications = 3
    MaxClicks = 1
    MaxErrors = 2
SPECIFICATION FairSpec
INVARIANTS OnlyFirstFades SpinnerOnTopMeansWorking OneUnlessCrowded LoaderStandsAlone
PROPERTIES ClosesUnlessCrowded
