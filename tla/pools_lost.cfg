SPECIFICATION Spec
CONSTANTS
  None = None
  h1 = h1
  h2 = h2
  h3 = h3
  Handlers <- TwoHandlers
  Stages <- Overlapping
INVARIANTS
  KnockoutIsCreated
CHECK_DEADLOCK FALSE
