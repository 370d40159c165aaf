CONSTANTS
  Nodes = {n1, n2, n3}
  Ids = {p1, p2, p3, p4}
  MinimumPartitionSize = 3
  MaxPlans = 1
  MaxTimeouts = 1
  Prompt = FALSE
SPECIFICATION Spec
SYMMETRY Symmetric
INVARIANT TypeOK
INVARIANT MembersStay
INVARIANT RepliesAreAwaited
PROPERTY BookedNodesKeepTheirPartition
\* once every identifier is used and every partition has ended, nothing is left to do
CHECK_DEADLOCK FALSE
