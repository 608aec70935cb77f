CONSTANTS
  MaxTokens = 3
  Threads = {t1, t2}
SYMMETRY ThreadSymmetry
SPECIFICATION Spec
CHECK_DEADLOCK FALSE
INVARIANT CancelReachesDescendants
