SPECIFICATION Spec
CONSTANTS
  Lists <- Singles
INVARIANTS DotSegmentsByRFC
CHECK_DEADLOCK FALSE
