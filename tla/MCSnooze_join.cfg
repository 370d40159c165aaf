\* one leader, two managers; see MCSnoozeJoin for the faults
CONSTANTS
  l1 = l1
  l2 = l2
  LCs = {l1, l2}
  Nodes = {n1, n2, n3}
  None = None
  Joining = Joining
  Bounds <- FaultBounds
SPECIFICATION Spec
\* a controller waits for ever if nobody misses the leader
CHECK_DEADLOCK FALSE
INVARIANTS
  TypeOK
  OneJoin
  JoinedIsListed
PROPERTIES
  AnswersMatch
  Joins
