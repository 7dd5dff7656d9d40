SPECIFICATION Spec
CONSTANTS
  None = None
  h1 = h1
  h2 = h2
  h3 = h3
  Handlers <- ThreeHandlers
  Stages <- SerialAndOverlapping
INVARIANTS
  KnockoutOnce
  BestOfPoolsGoOn
  PodiumOrAMatchToFight
CHECK_DEADLOCK FALSE
