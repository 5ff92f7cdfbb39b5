SPECIFICATION FairMergeSpec
CONSTANT Pids = {1, 2, 3, 4, 5}
INVARIANTS MergeTypeOK MergeResult RemovalNeedsNewcomer LeftoversAreTail
PROPERTY MergeTerminates
CHECK_DEADLOCK FALSE
