CONSTANTS
  MaxStrategies = 3
  Scores <- OneScore
  Staggers <- MCStaggers
SPECIFICATION FairSpec
PROPERTIES
  RunCompletes
  HungAdapterOvertaken
  ValidResultReturned
