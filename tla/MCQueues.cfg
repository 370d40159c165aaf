CONSTANTS
  h1 = h1
  h2 = h2
  Hosts = {h1, h2}
  VMs = {v1}
  Services <- TwoServices
  Modes = {"random", "managers", "leader"}
  Duration = 15
  CrashDuration = 8
  GLFaultPeriod = 8
  GMFaultPeriod = 4
  MaxDraws = 4
SPECIFICATION Spec
INVARIANT TypeOK
INVARIANT FaultsAsDrawn
INVARIANT FluctuationsAlternate
INVARIANT PlayedAsDrawn
CHECK_DEADLOCK FALSE
