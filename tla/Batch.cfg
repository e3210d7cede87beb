SPECIFICATION Spec
CONSTANTS
  Requests <- MCRequests
  Normal <- MCNormal
  MaxBatch = 4
INVARIANTS TypeOK DuplicatesShareRun PartialOnlyWhenComplete
