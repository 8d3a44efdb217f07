SPECIFICATION TerminatingSpec
CONSTANTS
  Jobs = {j1}
  Clients = {c1, c2}
  NoJob = NoJob
  Ops = {"stop", "delete"}
  Faults = {"badexit"}
INVARIANTS
  RowOwned
  MonitorQuitsWhenOver
PROPERTIES
  JobSettles
  RegistryDrains
  RequestReturns
