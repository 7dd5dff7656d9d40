SPECIFICATION Spec
CONSTANTS
  None = None
  h1 = h1
  h2 = h2
  Forms <- AllForms
  Date <- TheDay
  Handlers <- TwoHandlers
  Settings <- AllSettings
  MaxCompetitors = 3
INVARIANTS
  ClassWithinCap
  AthletesAreRegistrants
PROPERTIES
  OneClassAsAnnounced
CHECK_DEADLOCK FALSE
