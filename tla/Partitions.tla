------------------------------ MODULE Partitions ------------------------------
(***************************************************************************)
(* What the agents of DVMS promise about the partitions they make: nodes   *)
(* are reserved in two phases.  A partition that is open takes nodes, one  *)
(* by one, and lets none go; once it is closed it lets them go and takes   *)
(* none any more.  Plans are computed and applied in between: while one    *)
(* is, the partition stays as it is.  A node is in one partition at most,  *)
(* so that plans behave as if they were carried out one after the other.   *)
(***************************************************************************)
CONSTANTS Nodes, Ids

VARIABLES
  members,  (* the nodes of each partition                 *)
  open,     (* the partitions that may take nodes          *)
  planned,  (* those for which a plan is under way         *)
  unused    (* those that were not made yet                *)

Init ==
  /\ members = [x \in Ids |-> {}]
  /\ open = {} /\ planned = {}
  /\ unused = Ids

Free(n) == \A x \in Ids : n \notin members[x]

(* If there is no other node the partition has nobody to take. *)
Start(n, x) ==
  /\ x \in unused
  /\ Free(n)
  /\ members' = [members EXCEPT ![x] = {n}]
  /\ open' \in {open, open \cup {x}}
  /\ unused' = unused \ {x}
  /\ UNCHANGED planned

Join(n, x) ==
  /\ x \in open \ planned
  /\ Free(n)
  /\ members' = [members EXCEPT ![x] = @ \cup {n}]
  /\ UNCHANGED <<open, planned, unused>>

Plan(x) ==
  /\ x \in open \ planned
  /\ planned' = planned \cup {x}
  /\ UNCHANGED <<members, open, unused>>

(* A plan without a solution leaves the partition open, for further nodes. *)
EndPlan(x) ==
  /\ x \in planned
  /\ planned' = planned \ {x}
  /\ open' \in {open, open \ {x}}
  /\ UNCHANGED <<members, unused>>

Close(x) ==
  /\ x \in open \ planned
  /\ open' = open \ {x}
  /\ UNCHANGED <<members, planned, unused>>

Leave(n, x) ==
  /\ n \in members[x]
  /\ x \notin open
  /\ members' = [members EXCEPT ![x] = @ \ {n}]
  /\ UNCHANGED <<open, planned, unused>>

Next ==
  \E x \in Ids :
    \/ \E n \in Nodes : Start(n, x) \/ Join(n, x) \/ Leave(n, x)
    \/ Plan(x) \/ EndPlan(x) \/ Close(x)

Spec == Init /\ [][Next]_<<members, open, planned, unused>>

===============================================================================
