CONSTANTS
  Nodes = {n1, n2, n3}
  Ids = {p1, p2, p3}
  MinimumPartitionSize = 0
  MaxPlans = 2
  MaxTimeouts = 3
  Prompt = TRUE
SPECIFICATION Spec
SYMMETRY Symmetric
INVARIANT PlansAreDisjoint
INVARIANT PlanHoldsItsMembers
INVARIANT PlanLeadsItsPartition
INVARIANT VersionsAgree
INVARIANT NoCircularWait
INVARIANT MembersAreDistinct
PROPERTY ReservesInTwoPhases
\* once every identifier is used and every partition has ended, nothing is left to do
CHECK_DEADLOCK FALSE
