SPECIFICATION Spec
CONSTANTS
  Values <- MCValues
  Bodies <- MCBodies
  MaxBatchDocuments = 2
  MaxNestingDepth = 2
INVARIANTS AcceptsExactlyBatches TextsAreTopLevelStrings FirstFaultIsReported
CHECK_DEADLOCK FALSE
