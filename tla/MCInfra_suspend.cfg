CONSTANTS
  Hosts = {h1, h2}
  VMs = {v1, v2, v3}
  Loads = {1, 2}
  MeanLoad = 1
  Capacity = 3
  Crashes = FALSE
  IdleTurnOff = FALSE
  Suspensions = TRUE
SPECIFICATION FairCalmSpec
INVARIANT TypeOK
INVARIANT HostedOnce
INVARIANT CollectionsExact
INVARIANT DemandExact
INVARIANT RequestsHonoured
INVARIANT OnlyStaleMoves
INVARIANT TraceExactWhenCalm
CHECK_DEADLOCK FALSE
PROPERTY PostponedResolved
