SPECIFICATION Spec
CHECK_DEADLOCK FALSE
CONSTANTS
  Rows = 4
  DefaultSize = 1
  MaxSize = 2
  Sizes <- MCSizes
  MaxChanges = 3
INVARIANTS
  TypeOK
  WalkMissesOnlyMoved
