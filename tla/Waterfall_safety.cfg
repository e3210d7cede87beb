CONSTANTS
  MaxStrategies = 3
  Scores <- MCScores
  Staggers <- MCStaggers
SPECIFICATION Spec
INVARIANTS
  TypeOK
  SelectionConsistent
  TerminalStops
  FallbackExhaustive
  AccountingBalances
  IInv
  PreferredLaunchedFirst
  NoCallAfterReturn
  LosersSignalled
PROPERTIES
  FallbackWaits
  ImplementsContract
