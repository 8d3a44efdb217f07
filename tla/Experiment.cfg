SPECIFICATION Spec
CHECK_DEADLOCK FALSE
CONSTANTS
  Experiments = {e1}
  Runs = {r1}
  Clients = {c1, c2}
  Names = {n1}
  Keys = {}
  Scores = {0}
  None = None
  MaxTime = 2
SYMMETRY Symmetry
INVARIANTS
  TypeOK
  DurationReal
  EndedWhenOver
PROPERTIES
  DeletedStays
