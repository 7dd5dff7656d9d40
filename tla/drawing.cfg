SPECIFICATION DrawingSpec
CONSTANTS
  None = None
  BracketTypes = {"ROUND_ROBIN", "POOLS", "SINGLE_REPECHAGE", "DOUBLE_REPECHAGE", "GRAND_SLAM"}
  MaxCompetitors = 33
INVARIANTS
  DrawIsComplete
  SeedsAreSpread
  PageShowsDraw
CHECK_DEADLOCK FALSE
