SPECIFICATION JobsSpec
CONSTANTS
    Ids = {j1}
    RawAttempts = 3
    MaxCrashes = 2
    Documents = {"a", "b"}
    Natures <- Kinds
    MaxVersion = 2
    MaxExtractor = 2
    MaxStops = 1
INVARIANT WorkIsRecoverable
INVARIANT AttemptsAreCapped
INVARIANT ContentIsCurrent
PROPERTY JournaledEndIsFinal
PROPERTY LoopEnds
CHECK_DEADLOCK FALSE
