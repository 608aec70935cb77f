SPECIFICATION OperationSpec
CONSTANTS
  Data = {"new", "old"}
  Names = {"a", "b", "c"}
  SizeOf <- Sizes
  Configs <- AllConfigs
  MaxAttempts = 2
  Budget <- TwoFaults
  Procs = {"p"}
  Items = {"x", "y"}
  NameOf <- HomeNames
  SpareNames = {"x 2"}
  Deletable = {"trash"}
  MaxOps = 6
  MaxCrashes = 2
INVARIANT SourceIsSafe
INVARIANT OldTargetIsSafe
INVARIANT CompletedIsDone
INVARIANT TrashedIsRestorable
PROPERTY EndIsFinal
CHECK_DEADLOCK FALSE
