SPECIFICATION SharedSpec
CONSTANTS
    MaxTokens = 3
    Threads = {t1, t2}
    disk = disk
    ghost = ghost
    NoVolume = NoVolume
    N = 8
    Volumes = {disk}
    UnknownIds = {ghost}
    RawLimit <- OneSlot
    RawQuota <- Quotas
    JobTables <- Tables
SYMMETRY ThreadSymmetry
INVARIANT CancelStaysLocal
INVARIANT AnswersAreFinal
INVARIANT BoundedOvertaking
PROPERTY CancelIsObserved
PROPERTY CancelFansOut
CHECK_DEADLOCK FALSE
