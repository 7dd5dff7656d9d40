SPECIFICATION Spec
CONSTANTS
  None = None
  h1 = h1
  h2 = h2
  Handlers <- OneHandler
  Matches <- RepMatches
  Competitors <- SlamCompetitors
  Entrants <- RepEntrants
  Byes = {}
  WinnerTo <- RepWinnerTo
  WinnerSide <- RepSide
  LoserTo <- RepLoserTo
  LoserSide <- RepLoserSide
  Mats = {"mat1"}
  MatOf <- RepMatOf
  QueueRank <- RepRank
  Operations = {"start-match", "golden-score", "score-event", "end-match", "assign"}
  Called <- RepMatches
  EventTypes = {"IPPON"}
  EndMethods = {"DECISION"}
  MaxYuko = 0
INVARIANTS
  EveryLoserPlaced
PROPERTIES
  ResultIsFinal
  MatFollowsQueue
