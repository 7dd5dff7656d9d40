SPECIFICATION Spec
CONSTANTS
  None = None
  h1 = h1
  h2 = h2
  Handlers <- TwoHandlers
  Matches <- OneMatches
  Competitors <- OneCompetitors
  Entrants <- OneEntrants
  Byes = {}
  WinnerTo <- OneWinnerTo
  WinnerSide <- OneSide
  LoserTo <- OneLoserTo
  LoserSide <- OneSide
  Mats = {}
  MatOf <- OneMatOf
  QueueRank <- OneRank
  Operations = {"start-match", "score-event", "end-match", "golden-score"}
  Called <- OneMatches
  EventTypes = {"WAZA_ARI", "SHIDO"}
  EndMethods = {"DECISION"}
  MaxYuko = 0
SYMMETRY HandlerSymmetry
INVARIANTS
  TypeOK
  NoDecidedMatchRuns
CHECK_DEADLOCK FALSE
