SPECIFICATION FairSpec
CONSTANTS
  None = None
  h1 = h1
  h2 = h2
  Matches <- TwoMatches
  Competitors <- FourCompetitors
  Entrants <- TwoEntrants
  Byes = {}
  WinnerTo <- NoWayOn
  WinnerSide <- FirstSide
  LoserTo <- NoWayOn
  LoserSide <- FirstSide
  Mats = {"mat1"}
  Programme <- OneProgramme
  Pages <- TwoPages
  MatOfPage <- AllOnOneMat
  Handlers <- TwoHandlers
  Settings <- FiveSettings
  MaxSockets = 2
  MaxHoldDowns = 2
INVARIANTS
  HoldDownScoresOnce
  AwardedAsAnnounced
  ViewsAgree
  NoPhantomHoldDown
  GoldenScoreAfterTime
  ClocksAgree
PROPERTIES
  TwentySecondsEndIt
  ResultIsShown
CHECK_DEADLOCK FALSE
