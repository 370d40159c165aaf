CONSTANTS
  Hosts = {h1, h2}
  VMs = {v1, v2}
  Loads = {1}
  MeanLoad = 1
  Capacity = 1
  Crashes = TRUE
  IdleTurnOff = FALSE
  Suspensions = FALSE
  Planners = {"entropy"}
SPECIFICATION ResolverSpec
INVARIANT CountExact
CHECK_DEADLOCK FALSE
