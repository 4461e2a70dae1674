CONSTANTS
    Answers = {a1, a2}
    MinText = 2
    MaxText = 3
    MaxChanges = 2
    MaxClicks = 2
    MaxCloses = 2
SPECIFICATION FairSpec
INVARIANTS OneButtonEach ButtonTellsState OnePanel SpinnerMeansWorking
PROPERTIES EveryAnswerVerifiable InjectionSettles
CHECK_DEADLOCK FALSE
