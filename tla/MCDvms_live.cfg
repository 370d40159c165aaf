CONSTANTS
  Nodes = {n1, n2, n3}
  Ids = {p1, p2}
  MinimumPartitionSize = 0
  MaxPlans = 1
  MaxTimeouts = 6
  Prompt = TRUE
SPECIFICATION FairSpec
PROPERTY PartitionsEnd
\* once every identifier is used and every partition has ended, nothing is left to do
CHECK_DEADLOCK FALSE
