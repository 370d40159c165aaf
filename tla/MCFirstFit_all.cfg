CONSTANTS
  NbHosts = 3
  NbVMs = 4
  Loads = {1, 2}
  RamSizes = {1, 2}
  CPUCapacity = 3
  MemSize = 4
  Teams = {{1, 2, 3}, {1, 2}, {2}}
SPECIFICATION Spec
INVARIANT PredictionsExact
INVARIANT PlanIsViable
INVARIANT SaneHostsStaySane
