SPECIFICATION Spec
CONSTANTS
  None = None
  Tables <- ThreeAndFour
INVARIANTS
  TableIsTold
  CompleteIsOver
PROPERTIES
  WinnerNeverDrops
CHECK_DEADLOCK FALSE
