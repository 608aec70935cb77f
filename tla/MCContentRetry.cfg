SPECIFICATION IndexingSpec
CONSTANTS
    Documents = {"a", "b"}
    Natures <- Kinds
    MaxVersion = 2
    MaxExtractor = 2
    MaxStops = 1
CHECK_DEADLOCK FALSE
INVARIANT CompletedIsIndexed
