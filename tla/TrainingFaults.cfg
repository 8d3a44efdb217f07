SPECIFICATION Spec
CONSTANTS
  Jobs = {j1}
  Clients = {c1, c2}
  NoJob = NoJob
  Ops = {"stop", "delete", "update"}
  Faults = {"crash", "docker", "db", "deadline", "disconnect", "fastexit", "badexit"}
SYMMETRY Symmetry
INVARIANTS
  TypeOK
  CompletedMeansExitedZero
  RegistryOwned
  MutexHeldByStarter
