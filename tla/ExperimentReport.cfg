SPECIFICATION Spec
CHECK_DEADLOCK FALSE
CONSTANTS
  Experiments = {e1, e2}
  Keys = {"accuracy"}
  Rows <- MCRows
  MaxIDs = 2
  MaxRuns = 2
  Metrics = {"loss", "training_loss"}
  MaxPoints = 1
SYMMETRY Symmetry
INVARIANTS
  TypeOK
  ReportSeesPast
  BestRunIsBest
  CommonIsCommon
