SPECIFICATION FairSpec
CONSTANTS
  None = None
  h1 = h1
  h2 = h2
  Handlers <- TwoHandlers
  Matches <- SlamMatches
  Competitors <- SlamCompetitors
  Entrants <- SlamEntrants
  Byes = {}
  WinnerTo <- SlamWinnerTo
  WinnerSide <- SlamSide
  LoserTo <- SlamLoserTo
  LoserSide <- SlamSide
  Mats = {}
  MatOf <- SlamMatOf
  QueueRank <- SlamRank
  Operations = {"start-match", "end-match"}
  Called = {"PA", "PB"}
  EventTypes = {}
  EndMethods = {"DECISION"}
  MaxYuko = 0
INVARIANTS
  WinnerAdvanced
PROPERTIES
  AtomicOperations
  CallsReturn
CHECK_DEADLOCK FALSE
