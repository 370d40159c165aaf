CONSTANTS
  Hosts = {h1, h2}
  VMs = {v1, v2}
  Loads = {1}
  MeanLoad = 1
  Capacity = 1
  Crashes = TRUE
  IdleTurnOff = TRUE
  Suspensions = TRUE
  Planners = {"entropy", "btrplace", "ffd"}
SPECIFICATION FairResolverSpec
INVARIANT ResolverTypeOK
INVARIANT MigrationHeld
INVARIANT SuccessIsTrue
INVARIANT EveryActionStarts
INVARIANT CountCovers
CHECK_DEADLOCK FALSE
PROPERTY RefinesReconfiguration
PROPERTY LoopEnds
