SPECIFICATION FairSpec
CONSTANTS
  None = None
  Categories <- ThreeFormats
INVARIANTS
  CalledInTurn
  NoRematch
  QuarterFinalLosersGoOn
  CompleteHasPodium
  PagesAgree
PROPERTIES
  PlacesStay
  PodiumIsReached
CHECK_DEADLOCK FALSE
