CONSTANTS
  MaxStrategies = 2
  Scores = {1}
  Staggers = {2}
SPECIFICATION Spec
INVARIANT SnipeReasonTrue
