CONSTANTS
  h1 = h1
  h2 = h2
  Hosts = {h1}
  VMs = {v1}
  Services <- OneService
  Modes = {"random"}
  Duration = 11
  CrashDuration = 4
  GLFaultPeriod = 8
  GMFaultPeriod = 4
  MaxDraws = 5
SPECIFICATION Spec
INVARIANT NoGiveUp
CHECK_DEADLOCK FALSE
