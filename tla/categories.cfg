SPECIFICATION Spec
CONSTANTS
  None = None
  h1 = h1
  h2 = h2
  Competitors <- EighteenCompetitors
  Entrant <- EveryEntrant
  Date <- TheDay
  Handlers <- TwoHandlers
  Settings <- SevenSettings
  MaxCategories = 4
  MaxMats = 3
INVARIANTS
  CategoriesPartition
  OneDrawPerCategory
  MatchesFollowCategory
  MatsAreInOrder
PROPERTIES
  CalledAsForecast
CHECK_DEADLOCK FALSE
