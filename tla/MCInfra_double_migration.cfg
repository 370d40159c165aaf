CONSTANTS
  Hosts = {h1, h2}
  VMs = {v1, v2}
  Loads = {1}
  MeanLoad = 1
  Capacity = 2
  Crashes = TRUE
  IdleTurnOff = FALSE
  Suspensions = FALSE
SPECIFICATION CalmSpec
SYMMETRY Symmetric
INVARIANT NoDoubleMigration
CHECK_DEADLOCK FALSE
