SPECIFICATION Spec
CONSTANTS
  Datasets = {d1}
  Names = {n1}
  Clients = {c1, c2, c3}
  None = None
  TotalChunks = 2
  Ops = {"create", "upload", "init", "chunk", "complete", "update", "delete"}
  Faults = {"db", "redis", "store", "expire", "crash"}
SYMMETRY Symmetry
INVARIANTS
  TypeOK
  ProgressCounts
  ReadyMeansAll
