SPECIFICATION Spec
CONSTANTS
  Jobs = {j1, j2}
  Clients = {c1}
  NoJob = NoJob
  Ops = {"stop"}
  Faults = {"deadline"}
SYMMETRY Symmetry
INVARIANTS
  ContainerSupervised
