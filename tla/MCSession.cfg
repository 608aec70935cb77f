SPECIFICATION SessionSpec
CONSTANTS
    Keys = {"a", "b", "c"}
    Capacity = 2
    MaxGeneration = 10
    Items = {1, 2, 3}
    MaxVisible = 1
    MaxPrefetch = 2
    CancelOffscreen = FALSE
    MaxTokens = 3
    MaxGenerations = 2
INVARIANT LimitsHold
INVARIANT InflightIsTracked
PROPERTY ImplementsLru
CHECK_DEADLOCK FALSE
