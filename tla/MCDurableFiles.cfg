SPECIFICATION DurableSpec
CONSTANTS
    Files = {"f", "g"}
    DecisionRoots = {"root", "volume"}
    Aliased = TRUE
    Damageable = {"records", "state"}
    MaxCommands = 3
    MaxStops = 2
    MaxDamage = 1
    MaxOutages = 1
    Archives = {"x", "y", "a", "b"}
    Origin = {"x", "y"}
    Writers = {"p"}
    Commands = {"promote", "maintain", "cleanup", "recover"}
    MaxContentStops = 3
    MaxContentDamage = 2
    Procs = {"p"}
    MaxJobs = 3
    MaxUnits = 1
    MaxFaults = 2
INVARIANT ContinueIsSameScan
INVARIANT ContentServed
INVARIANT UnfinishedIsRestorable
PROPERTY RecordsKept
PROPERTY RecoverySettled
PROPERTY EndedStaysOut
CHECK_DEADLOCK FALSE
