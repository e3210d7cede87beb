SPECIFICATION Spec
CONSTANTS
  Programs <- MCPrograms
  MaxFaults = 1
INVARIANTS SuiteInv TypeOK FailuresHaveCauses StoppedIsSilent ServesUntilStopped
PROPERTIES ProgramEnds
CHECK_DEADLOCK FALSE
