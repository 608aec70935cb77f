SPECIFICATION StreamSpec
CONSTANTS
    max_pending = 2
    visible_burst = 1
    Batches = {1, 2}
    Tops = {"a", "b", "c"}
    VisiblePaths <- ShownPaths
    MaxFiles = 4
    MaxVersion = 1
    MaxEdits = 4
    MaxStream = 2
    Habits = {"overwriting_moves"}
    Volumes = {"v", "w"}
    MountPaths = {"p", "q", "r"}
    NoPath = "none"
    MaxBatch = 3
    MaxChanges = 4
    DropPaths <- Subtrees
    MaxEvents = 4
    MaxSeen = 4
    MaxDrops = 2
INVARIANT IndexIsCurrent
INVARIANT RepairIsExact
INVARIANT TracksMounts
INVARIANT IndexesAgree
PROPERTY BackgroundIsServed
CHECK_DEADLOCK FALSE
