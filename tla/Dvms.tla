--------------------------------- MODULE Dvms ---------------------------------
(***************************************************************************)
(* The DVMS agents (scheduling/distributed/dvms2): one per host.  A host    *)
(* that is overloaded starts a partition and sends it, as an ISP (iterative *)
(* scheduling procedure), to another one, which joins it, becomes its       *)
(* leader and looks for a placement within the partition; if there is none  *)
(* the ISP goes on to a further host.                                       *)
(*                                                                         *)
(* An agent is a server, DVMSProcess, that handles one message at a time,   *)
(* and the plan application processes it starts, which use the state of the *)
(* agent while the server goes on.  Both ask other agents and wait, without *)
(* limit, for the reply; nothing else lets time pass.  An action is what a  *)
(* process does from one such point to the next.                            *)
(*                                                                         *)
(* Agents do not stop here, and messages are neither lost nor reordered.    *)
(* CanIMergePartitionWithYou, ThisIsYourNeighbor and the other messages of  *)
(* DvmsProtocol that nobody sends are left out.                             *)
(***************************************************************************)
EXTENDS Integers, Sequences, FiniteSets, Functions

CONSTANTS
  Nodes,                (* the agents, all registered in SimpleOverlay       *)
  Ids,                  (* the partition identifiers: at most so many        *)
                        (* partitions are started                            *)
  MinimumPartitionSize, (* minimum_partition_size of dvms.properties         *)
  MaxPlans,             (* plan application processes a node may run at once *)
  MaxTimeouts,          (* how many times a partition may time out           *)
  Prompt                (* whether messages are handled well within the      *)
                        (* timeout of a partition: see Quiet                 *)

ASSUME PlansAssumption == MaxPlans \in Nat \ {0}
ASSUME TimeoutsAssumption == MaxTimeouts \in Nat
ASSUME SizeAssumption == MinimumPartitionSize \in Int
ASSUME PromptAssumption == Prompt \in BOOLEAN

VARIABLES
  current,  (* DvmsActor.currentPartition of each agent                      *)
  inbox,    (* the mailbox of each server                                    *)
  proc,     (* where each process is: <<n, 0>> is the server of n, the       *)
            (* others its plan application processes                         *)
  snoozed,  (* the nodes whose timeout the snoozer of each agent defers      *)
  unused,   (* the identifiers not drawn yet                                 *)
  timeouts  (* the timeouts so far                                           *)

vars == <<current, inbox, proc, snoozed, unused, timeouts>>

(* Created, ComputingAndApplying and Destroyed are given to no partition. *)
States == {"Growing", "Blocked", "Finishing"}
Partition == [id : Ids, leader : Nodes, initiator : Nodes, nodes : Seq(Nodes),
              state : States, version : Nat]
NoPartition == [state |-> "none"]

Server(n) == <<n, 0>>
Procs == Nodes \X (0..MaxPlans)
Nobody == <<>>
Clients == Procs \cup {Nobody}

(* "client" is the process that waits for the reply, if one does. *)
Message == [type : {"isp", "set", "valid"}, part : Partition, client : Clients]
           \cup [type : {"dissolve"}, id : Ids, client : Clients]

(* A process that waits has asked a node and, in a loop over the members of  *)
(* a partition, has more of them to ask.  A server then replies to its       *)
(* "client"; a plan that found no solution goes on to the "next" node.       *)
Idle == [pc |-> "idle"]
Starting == [pc |-> "starting"]
Computing == [pc |-> "computing"]
Waiting(pc, part, todo, client, next) ==
  [pc |-> pc, part |-> part, todo |-> todo, client |-> client, next |-> next,
   asked |-> next, answer |-> "yes"]

Waits ==
  [pc : {"validating", "joining", "blocking", "merging", "merged", "growing",
         "transmitting", "finishing", "confirming", "dissolving"},
   part : Partition, todo : Seq(Nodes), client : Clients, next : Nodes,
   asked : Nodes, answer : {"pending", "yes", "no"}]
Process == {Idle, Starting, Computing} \cup Waits

TypeOK ==
  /\ current \in [Nodes -> Partition \cup {NoPartition}]
  /\ inbox \in [Nodes -> Seq(Message)]
  /\ proc \in [Procs -> Process]
  /\ snoozed \in [Nodes -> SUBSET Nodes]
  /\ unused \subseteq Ids
  /\ timeouts \in 0..MaxTimeouts

Init ==
  /\ current = [n \in Nodes |-> NoPartition]
  /\ inbox = [n \in Nodes |-> <<>>]
  /\ proc = [p \in Procs |-> Idle]
  /\ snoozed = [n \in Nodes |-> {}]
  /\ unused = Ids
  /\ timeouts = 0

-----------------------------------------------------------------------------
Booked(n) == current[n] # NoPartition

(* SimpleOverlay.giveSomeNeighbour: a node outside the partition of n. *)
FirstOut(n) == Nodes \ (IF Booked(n) THEN Range(current[n].nodes) ELSE {})

(* MsgForSG.send: mailboxes are first in, first out. *)
Sent(box, n, m) == [box EXCEPT ![n] = Append(@, m)]
SentAll(box, members, R, m) ==
  LET copies(n) == IF n \in R THEN Cardinality({i \in DOMAIN members : members[i] = n}) ELSE 0
  IN [n \in Nodes |-> box[n] \o [i \in 1..copies(n) |-> m]]
Isp(part, client) == [type |-> "isp", part |-> part, client |-> client]
IspSent(box, part) ==
  LET out == Nodes \ Range(part.nodes)
  IN IF out = {} THEN {box} ELSE {Sent(box, f, Isp(part, Nobody)) : f \in out}
Dissolution(id) == [type |-> "dissolve", id |-> id, client |-> Nobody]

(* send(returnCanal, reply): resumes the client, if there is one.            *)
Replied(procs, client, answer) ==
  IF client = Nobody THEN procs ELSE [procs EXCEPT ![client].answer = answer]

Answered(p) == proc[p].answer # "pending"

(* The members of a list that p has to ask: all but its own node. *)
Everyone(p, ns) == DOMAIN ns
Left(p, ns) == {i \in DOMAIN ns : ns[i] # p[1]}

(* p has gone through all the members. *)
Done(p, pc) == proc[p].pc = pc /\ Answered(p) /\ Left(p, proc[p].todo) = {}

(* p starts, or goes on with, the loop of w: it asks the nodes of w.todo one  *)
(* after the other, and waits for each to reply.                             *)
Request(p, w) ==
  IF w.pc = "dissolving"
  THEN [type |-> "dissolve", id |-> w.part.id, client |-> p]
  ELSE [type |-> "set", part |-> w.part, client |-> p]

AskAll(p, w, box) ==
  \/ /\ Left(p, w.todo) = {}
     /\ proc' = [proc EXCEPT ![p] = [w EXCEPT !.answer = "yes"]]
     /\ inbox' = box
  \/ \E i \in Left(p, w.todo) :
       /\ \A j \in Left(p, w.todo) : i <= j
       /\ proc' = [proc EXCEPT ![p] = [w EXCEPT !.todo = SubSeq(@, i + 1, Len(@)),
                                               !.asked = w.todo[i], !.answer = "pending"]]
       /\ inbox' = Sent(box, w.todo[i], Request(p, w))

(* updatePartitionOnAllNodes: the node takes the partition, then every other *)
(* member is asked to.                                                       *)
UpdateSelf(p, pc, part, box, client, next) ==
  /\ current' = [current EXCEPT ![p[1]] = part]
  /\ AskAll(p, Waiting(pc, part, <<>>, client, next), box)
UpdateAll(p, pc, part, box, client, next) ==
  /\ current' = [current EXCEPT ![p[1]] = part]
  /\ AskAll(p, Waiting(pc, part, part.nodes, client, next), box)

(* changeCurrentPartitionState: a new version of the partition. *)
Restated(part, state) == [part EXCEPT !.state = state]
Changed(part, state) == [part EXCEPT !.state = state, !.version = @ + 1]

-----------------------------------------------------------------------------
(* The server.  It takes the next message once it is done with the one       *)
(* before; a process it has just started runs first.                         *)

Ready(n) ==
  /\ proc[Server(n)] = Idle
  /\ \A k \in 1..MaxPlans : proc[<<n, k>>] # Starting

Receives(n, type) == Ready(n) /\ inbox[n] # <<>> /\ Head(inbox[n]).type = type

Taken(n) == [inbox EXCEPT ![n] = Tail(@)]

(* isThisPartitionStillValid *)
StillValid(n, part) ==
  Booked(n) /\ current[n].id = part.id /\ current[n].version <= part.version

IsStillValid(n) ==
  LET m == Head(inbox[n])
  IN /\ Receives(n, "valid")
     /\ inbox' = Taken(n)
     /\ proc' = Replied(proc, m.client, IF StillValid(n, m.part) THEN "yes" ELSE "no")
     /\ UNCHANGED <<current, snoozed, unused, timeouts>>

(* dissolvePartition *)
Dissolved(n, id) ==
  IF Booked(n) /\ current[n].id = id
  THEN [current EXCEPT ![n] = NoPartition] ELSE current

Dissolve(n) ==
  LET m == Head(inbox[n])
  IN /\ Receives(n, "dissolve")
     /\ inbox' = Taken(n)
     /\ current' = Dissolved(n, m.id)
     /\ proc' = Replied(proc, m.client, "yes")
     /\ UNCHANGED <<snoozed, unused, timeouts>>

(* updateThePartitionWith: a newer version of the same partition, or any     *)
(* partition if the node has none.                                           *)
OnlyNewer(n, part) ==
  IF Booked(n) /\ current[n].version < part.version THEN [current EXCEPT ![n] = part] ELSE current
Updated(n, part) ==
  IF ~Booked(n) \/ (current[n].id = part.id /\ current[n].version < part.version)
  THEN [current EXCEPT ![n] = part] ELSE current

SetCurrentPartition(n) ==
  LET m == Head(inbox[n])
  IN /\ Receives(n, "set")
     /\ inbox' = Taken(n)
     /\ current' = Updated(n, m.part)
     /\ proc' = Replied(proc, m.client, "yes")
     /\ UNCHANGED <<snoozed, unused, timeouts>>

(* receivedAnIspWhenFree: the initiator is asked whether the partition is    *)
(* still valid ...                                                           *)
IspWhenFree(n) ==
  LET m == Head(inbox[n])
      i == m.part.initiator
  IN /\ Receives(n, "isp")
     /\ ~Booked(n)
     /\ inbox' = Sent(Taken(n), i, [type |-> "valid", part |-> m.part, client |-> Server(n)])
     /\ proc' = [proc EXCEPT ![Server(n)] =
                   [Waiting("validating", m.part, <<>>, m.client, i) EXCEPT !.answer = "pending"]]
     /\ UNCHANGED <<current, snoozed, unused, timeouts>>

(* ... if so, and none of its own VMs is migrating, the node becomes the     *)
(* leader, tells every member, and starts a process to apply a plan ...      *)
JoinedAsCreated(n, part) ==
  [part EXCEPT !.leader = n, !.nodes = <<n>> \o @, !.state = "Created", !.version = @ + 1]
JoinedOutside(n, part) == [part EXCEPT !.leader = n, !.state = "Growing", !.version = @ + 1]
Joined(n, part) ==
  [part EXCEPT !.leader = n, !.nodes = <<n>> \o @, !.state = "Growing", !.version = @ + 1]

Join(n) ==
  LET p == Server(n)
  IN /\ proc[p].pc = "validating"
     /\ proc[p].answer = "yes"
     /\ UpdateAll(p, "joining", Joined(n, proc[p].part), inbox, proc[p].client, n)
     /\ UNCHANGED <<snoozed, unused, timeouts>>

StartPlan(n, k) ==
  LET p == Server(n)
  IN /\ Done(p, "joining")
     /\ proc[<<n, k>>] = Idle
     /\ proc' = Replied([proc EXCEPT ![p] = Idle, ![<<n, k>>] = Starting],
                        proc[p].client, "yes")
     /\ UNCHANGED <<current, inbox, snoozed, unused, timeouts>>

(* ... otherwise it lets the ISP go. *)
Refuse(n) ==
  LET p == Server(n)
  IN /\ proc[p].pc = "validating"
     /\ Answered(p)
     /\ proc' = Replied([proc EXCEPT ![p] = Idle], proc[p].client, "yes")
     /\ UNCHANGED <<current, inbox, snoozed, unused, timeouts>>

(* receivedAnIspWhenBooked: an ISP that came back to its initiator blocks    *)
(* the partition ...                                                         *)
IspBack(n) ==
  LET m == Head(inbox[n])
  IN /\ Receives(n, "isp")
     /\ Booked(n) /\ FirstOut(n) # {}
     /\ m.part.state = "Growing" /\ m.part.initiator = n
     /\ UpdateAll(Server(n), "blocking", Changed(current[n], "Blocked"), Taken(n), m.client, n)
     /\ UNCHANGED <<snoozed, unused, timeouts>>

EndBlocking(n) ==
  LET p == Server(n)
  IN /\ Done(p, "blocking")
     /\ proc' = Replied([proc EXCEPT ![p] = Idle], proc[p].client, "yes")
     /\ UNCHANGED <<current, inbox, snoozed, unused, timeouts>>

(* ... a blocked one dissolves the partition of its initiator, if blocked    *)
(* too, or is merged with that of another node, under a new identifier ...   *)
MergedWith(ns, remote) == ns \o remote
BothBlocked(n, part) == part.state = "Blocked" /\ current[n].state = "Blocked"

DissolveBlocked(n) ==
  LET m == Head(inbox[n])
  IN /\ Receives(n, "isp")
     /\ BothBlocked(n, m.part) /\ FirstOut(n) # {}
     /\ m.part.initiator = n
     /\ inbox' = Taken(n)
     /\ current' = Dissolved(n, current[n].id)
     /\ proc' = Replied(proc, m.client, "yes")
     /\ UNCHANGED <<snoozed, unused, timeouts>>

Merge(n) ==
  LET m == Head(inbox[n])
  IN /\ Receives(n, "isp")
     /\ BothBlocked(n, m.part) /\ FirstOut(n) # {}
     /\ m.part.initiator # n
     /\ \E id \in unused :
          /\ unused' = unused \ {id}
          /\ UpdateAll(Server(n), "merging",
                       [current[n] EXCEPT !.id = id, !.nodes = MergedWith(@, m.part.nodes),
                                          !.state = "Growing", !.version = 0],
                       Taken(n), m.client, n)
     /\ UNCHANGED <<snoozed, timeouts>>

(* ... for which the server computes a plan itself.                          *)
Merged(n) ==
  LET p == Server(n)
      replied == Replied([proc EXCEPT ![p] = Idle], proc[p].client, "yes")
  IN /\ Booked(n)
     /\ \/ /\ Done(p, "merging")
           /\ Len(current[n].nodes) >= MinimumPartitionSize
           /\ proc' = [proc EXCEPT ![p] = [@ EXCEPT !.pc = "merged", !.answer = "pending"]]
           /\ snoozed' = [snoozed EXCEPT ![n] = Range(current[n].nodes)]
           /\ UNCHANGED inbox
        \/ /\ proc[p].pc = "merged"
           /\ inbox' = SentAll(inbox, current[n].nodes, Nodes, Dissolution(current[n].id))
           /\ snoozed' = [snoozed EXCEPT ![n] = {}]
           /\ proc' = replied
        \/ /\ \/ /\ proc[p].pc = "merged"
                 /\ snoozed' = [snoozed EXCEPT ![n] = {}]
              \/ /\ Done(p, "merging")
                 /\ Len(current[n].nodes) < MinimumPartitionSize
                 /\ UNCHANGED snoozed
           /\ inbox' \in IspSent(inbox, current[n])
           /\ proc' = replied
     /\ UNCHANGED <<current, unused, timeouts>>

(* ... any other is forwarded to a node drawn outside the partition ...      *)
ForwardToReply(n, f) ==
  LET m == Head(inbox[n])
  IN /\ Receives(n, "isp")
     /\ Booked(n)
     /\ m.part.initiator # n
     /\ f \in FirstOut(n)
     /\ inbox' = Sent(Taken(n), f, m)
     /\ proc' = Replied(proc, m.client, "yes")
     /\ UNCHANGED <<current, snoozed, unused, timeouts>>

Forward(n, f) ==
  LET m == Head(inbox[n])
  IN /\ Receives(n, "isp")
     /\ Booked(n)
     /\ ~BothBlocked(n, m.part)
     /\ ~(m.part.state = "Growing" /\ m.part.initiator = n)
     /\ f \in FirstOut(n)
     /\ inbox' = Sent(Taken(n), f, Isp(m.part, Nobody))
     /\ proc' = Replied(proc, m.client, "yes")
     /\ UNCHANGED <<current, snoozed, unused, timeouts>>

(* ... unless every node is in the partition: the exception is caught by the *)
(* loop of the server, which sends no reply.                                 *)
NobodyOut(n) ==
  /\ Receives(n, "isp")
  /\ Booked(n) /\ FirstOut(n) = {}
  /\ inbox' = Taken(n)
  /\ UNCHANGED <<current, proc, snoozed, unused, timeouts>>

(* The monitor found the host overloaded, and none of its VMs is migrating.  *)
OverloadingDetected(n) ==
  /\ Ready(n)
  /\ ~Booked(n)
  /\ \E id \in unused :
       LET part == [id |-> id, leader |-> n, initiator |-> n, nodes |-> <<n>>,
                    state |-> "Growing", version |-> 0]
       IN /\ unused' = unused \ {id}
          /\ current' = [current EXCEPT ![n] = part]
          /\ inbox' \in IspSent(inbox, part)
  /\ UNCHANGED <<proc, snoozed, timeouts>>

(* The snoozer of the leader refreshes the members every two seconds while a *)
(* plan is computed and applied; a partition times out after 4.5 seconds.    *)
NeverSnoozed(n) == FALSE
SnoozedOrBlocked(n) == (\E m \in Nodes : n \in snoozed[m]) \/ current[n].state = "Blocked"
Snoozed(n) == \E m \in Nodes : n \in snoozed[m]

(* Only the computation and the application of a plan take time: when        *)
(* messages are Prompt, a timeout is reached once every process is computing *)
(* or waits for an answer that nobody is about to give.                      *)
Quiet ==
  \A p \in Procs :
    \/ proc[p] = Computing
    \/ proc[p] = Idle /\ (p = Server(p[1]) => inbox[p[1]] = <<>>)
    \/ proc[p] \notin {Idle, Starting, Computing} /\ ~Answered(p)

(* checkTimeout: the node tells the members it knows of, without waiting.    *)
CheckTimeout(n) ==
  /\ Ready(n)
  /\ Booked(n) /\ ~Snoozed(n)
  /\ Prompt => Quiet
  /\ timeouts < MaxTimeouts
  /\ timeouts' = timeouts + 1
  /\ inbox' = SentAll(inbox, current[n].nodes, Nodes \ {n}, Dissolution(current[n].id))
  /\ current' = [current EXCEPT ![n] = NoPartition]
  /\ UNCHANGED <<proc, snoozed, unused>>

-----------------------------------------------------------------------------
(* The plan application process.  It uses the partition its node has at each *)
(* moment, and fails on the first use if the node has none any more.         *)

(* Any process that asks the members one after the other: two of the loops   *)
(* read currentPartition again for each of them.                             *)
AskNext(p) ==
  /\ proc[p].pc \in {"joining", "blocking", "merging", "growing", "finishing", "confirming",
                    "dissolving"}
  /\ Answered(p)
  /\ Left(p, proc[p].todo) # {}
  /\ IF proc[p].pc \in {"merging", "dissolving"}
     THEN Booked(p[1]) /\ AskAll(p, [proc[p] EXCEPT !.part = current[p[1]]], inbox)
     ELSE AskAll(p, proc[p], inbox)
  /\ UNCHANGED <<current, snoozed, unused, timeouts>>

(* No solution within the partition: it grows by the next node.              *)
NoSolution(p) ==
  /\ Booked(p[1])
  /\ \/ \E f \in FirstOut(p[1]) :
          UpdateAll(p, "growing", Changed(current[p[1]], "Growing"), inbox, Nobody, f)
     \/ /\ FirstOut(p[1]) = {}
        /\ proc' = [proc EXCEPT ![p] = Idle]
        /\ UNCHANGED <<current, inbox>>

(* computeEntropy: too small a partition is not even submitted.              *)
Compute(p) ==
  /\ proc[p] = Starting
  /\ Booked(p[1])
  /\ IF Len(current[p[1]].nodes) < MinimumPartitionSize
     THEN NoSolution(p) /\ UNCHANGED snoozed
     ELSE /\ proc' = [proc EXCEPT ![p] = Computing]
          /\ snoozed' = [snoozed EXCEPT ![p[1]] = Range(current[p[1]].nodes)]
          /\ UNCHANGED <<current, inbox>>
  /\ UNCHANGED <<unused, timeouts>>

(* The plan was applied: the partition is announced as finished, twice, and  *)
(* then dissolved, on the other members first.                               *)
Computed(p) ==
  /\ proc[p] = Computing
  /\ snoozed' = [snoozed EXCEPT ![p[1]] = {}]
  /\ \/ NoSolution(p)
     \/ /\ Booked(p[1])
        /\ UpdateAll(p, "finishing", Changed(current[p[1]], "Finishing"), inbox, Nobody, p[1])
  /\ UNCHANGED <<unused, timeouts>>

Transmit(p) ==
  /\ Done(p, "growing")
  /\ Booked(p[1])
  /\ inbox' = Sent(inbox, proc[p].next, Isp(current[p[1]], p))
  /\ proc' = [proc EXCEPT ![p] = [@ EXCEPT !.pc = "transmitting", !.asked = proc[p].next,
                                           !.answer = "pending"]]
  /\ UNCHANGED <<current, snoozed, unused, timeouts>>

Confirm(p) ==
  /\ Done(p, "finishing")
  /\ Booked(p[1])
  /\ UpdateAll(p, "confirming", current[p[1]], inbox, Nobody, p[1])
  /\ UNCHANGED <<snoozed, unused, timeouts>>

DissolveOthers(p) ==
  LET part == current[p[1]]
  IN /\ Done(p, "confirming")
     /\ Booked(p[1])
     /\ AskAll(p, Waiting("dissolving", part, part.nodes, Nobody, p[1]), inbox)
     /\ UNCHANGED <<current, snoozed, unused, timeouts>>

DissolveSelf(p) ==
  /\ Done(p, "dissolving")
  /\ Booked(p[1])
  /\ current' = [current EXCEPT ![p[1]] = NoPartition]
  /\ proc' = [proc EXCEPT ![p] = Idle]
  /\ UNCHANGED <<inbox, snoozed, unused, timeouts>>

EndPlan(p) ==
  /\ Done(p, "transmitting")
  /\ proc' = [proc EXCEPT ![p] = Idle]
  /\ UNCHANGED <<current, inbox, snoozed, unused, timeouts>>

(* currentPartition.get raises an exception if the node has no partition any *)
(* more: a plan application process dies of it, a server that merges catches *)
(* it and takes the next message, without a reply.                           *)
Fail(p) ==
  /\ ~Booked(p[1])
  /\ \/ proc[p].pc \in {"starting", "computing", "merged"}
     \/ proc[p].pc \in {"merging", "dissolving"} /\ Answered(p)
     \/ \E pc \in {"growing", "finishing", "confirming"} : Done(p, pc)
  /\ proc' = [proc EXCEPT ![p] = Idle]
  /\ snoozed' = IF proc[p].pc \in {"computing", "merged"}
                THEN [snoozed EXCEPT ![p[1]] = {}] ELSE snoozed
  /\ UNCHANGED <<current, inbox, unused, timeouts>>

-----------------------------------------------------------------------------
ServerStep(n) ==
  \/ IsStillValid(n) \/ Dissolve(n) \/ SetCurrentPartition(n)
  \/ IspWhenFree(n) \/ Join(n) \/ Refuse(n)
  \/ \E k \in 1..MaxPlans : StartPlan(n, k)
  \/ IspBack(n) \/ EndBlocking(n) \/ DissolveBlocked(n) \/ Merge(n) \/ Merged(n)
  \/ (\E f \in Nodes : Forward(n, f)) \/ NobodyOut(n)
  \/ AskNext(Server(n)) \/ Fail(Server(n))

PlanStep(p) ==
  \/ Compute(p) \/ Computed(p) \/ AskNext(p) \/ Transmit(p)
  \/ Confirm(p) \/ DissolveOthers(p) \/ DissolveSelf(p) \/ EndPlan(p) \/ Fail(p)

Next ==
  \/ \E n \in Nodes : ServerStep(n) \/ OverloadingDetected(n) \/ CheckTimeout(n)
  \/ \E p \in Nodes \X (1..MaxPlans) : PlanStep(p)

Spec == Init /\ [][Next]_vars

(* The simulator runs every process that can go on, TimeoutCheckerProcess    *)
(* looks at the partition of its node again and again, and an ISP that       *)
(* circulates for ever is drawn every way out for ever.                      *)
Fairness ==
  /\ \A n \in Nodes : WF_vars(ServerStep(n)) /\ WF_vars(CheckTimeout(n))
  /\ \A n, f \in Nodes : SF_vars(Forward(n, f))
  /\ \A p \in Nodes \X (1..MaxPlans) : WF_vars(PlanStep(p))

FairSpec == Spec /\ Fairness

-----------------------------------------------------------------------------
(* Two agents never compute and apply plans that involve the same node: the  *)
(* partitions of the snoozers, enabled around ComputeAndApplyPlan in         *)
(* computeEntropy, are disjoint.                                             *)
PlansAreDisjoint == \A m, n \in Nodes : m # n => snoozed[m] \cap snoozed[n] = {}

(* While an agent computes and applies a plan, it leads the partition the    *)
(* plan was asked for, and every member has the same version of it.          *)
PlanHoldsItsMembers ==
  \A n \in Nodes : snoozed[n] # {} =>
    /\ Booked(n) /\ current[n].leader = n /\ Range(current[n].nodes) = snoozed[n]
    /\ \A m \in snoozed[n] : current[m] = current[n]

(* A plan application process finds a partition, and one that its node       *)
(* leads, whenever it uses currentPartition.                                 *)
PlanLeadsItsPartition ==
  \A p \in Nodes \X (1..MaxPlans) :
    proc[p].pc \notin {"idle", "transmitting"} =>
      Booked(p[1]) /\ current[p[1]].leader = p[1]

(* Two nodes that have the same version of the same partition agree on its   *)
(* leader, its members and its state.                                        *)
VersionsAgree ==
  \A m, n \in Nodes :
    /\ Booked(m) /\ Booked(n)
    /\ current[m].id = current[n].id /\ current[m].version = current[n].version
    => current[m] = current[n]

(* There is no set of servers each of which waits for another one of them, or *)
(* for itself, and so for ever: SGActor.ask has no timeout.                  *)
NoCircularWait ==
  \A S \in (SUBSET Nodes) \ {{}} : \E n \in S :
    LET w == proc[Server(n)]
    IN w = Idle \/ w.pc = "merged" \/ w.answer # "pending" \/ w.asked \notin S

(* No node is twice in a partition (where the plan would count its VMs       *)
(* twice): an ISP is joined by nodes out of it only.                         *)
MembersAreDistinct ==
  \A n \in Nodes : Booked(n) =>
    \A i, j \in DOMAIN current[n].nodes :
      current[n].nodes[i] = current[n].nodes[j] => i = j

(* A partition is never sent once it is blocked, so that two blocked         *)
(* partitions never meet and mergeWithThisPartition is not called.           *)
BlockedIspsStay ==
  \A n \in Nodes : \A i \in DOMAIN inbox[n] :
    inbox[n][i].type = "isp" => inbox[n][i].part.state = "Growing"

(* What the partitions promise: see Partitions.  A partition is open from its *)
(* start until its ISP is lost or comes back to the initiator, or its plan is *)
(* carried out or given up: as long as its ISP is under way or a process      *)
(* decides, with it, whether and how it goes on.                             *)
Members == [x \in Ids |-> {n \in Nodes : Booked(n) /\ current[n].id = x}]
Holding(p, x) ==
  \/ proc[p].pc = "validating" /\ proc[p].part.id = x
  \/ /\ proc[p].pc \in {"joining", "starting", "computing", "growing"}
     /\ p[1] \in Members[x]
Open ==
  {x \in Ids :
     \/ \E n \in Nodes : \E i \in DOMAIN inbox[n] :
          inbox[n][i].type = "isp" /\ inbox[n][i].part.id = x
     \/ \E p \in Procs : Holding(p, x)}
InPlan ==
  {x \in Ids : \E p \in Procs : proc[p].pc = "computing" /\ p[1] \in Members[x]}

Reservation == INSTANCE Partitions WITH members <- Members, open <- Open, planned <- InPlan

(* Nodes are reserved in two phases: a partition takes no node while a plan  *)
(* is under way for it or once a member was let go, and lets none go before  *)
(* it is closed, although ISPs, versions and dissolutions are single         *)
(* messages, handled in any order (the whole of DvmsActor).                  *)
ReservesInTwoPhases == Reservation!Spec

(* Whatever partition a node is in, it is a member of it, the last to join   *)
(* leads it and the initiator is still in it.                                *)
MembersStay ==
  \A n \in Nodes : Booked(n) =>
    /\ n \in Range(current[n].nodes)
    /\ current[n].leader = Head(current[n].nodes)
    /\ current[n].initiator \in Range(current[n].nodes)

(* A request, in a mailbox or kept by a server to reply to it later, comes   *)
(* from a process that waits for its reply, and that made no other one.      *)
RepliesAreAwaited ==
  LET awaited(c, n) == proc[c].pc \notin {"idle", "starting", "computing", "merged"}
                       /\ proc[c].answer = "pending" /\ proc[c].asked = n
  IN \A n \in Nodes :
       /\ \A i \in DOMAIN inbox[n] :
            LET c == inbox[n][i].client
            IN c # Nobody => /\ awaited(c, n)
                             /\ \A j \in DOMAIN inbox[n] \ {i} : inbox[n][j].client # c
       /\ LET w == proc[Server(n)]
          IN w # Idle /\ w.client # Nobody =>
               /\ awaited(w.client, n)
               /\ \A i \in DOMAIN inbox[n] : inbox[n][i].client # w.client

(* A node that is in a partition does not go over to another one, but for a  *)
(* merge under a new identifier, nor back to an older version: it leaves the *)
(* partition first.                                                          *)
BookedNodesKeepTheirPartition ==
  [][\A n \in Nodes : Booked(n) /\ Booked(n)' =>
       \/ current'[n].id = current[n].id /\ current'[n].version >= current[n].version
       \/ current'[n].id \in unused]_vars

(* Every node that is in a partition leaves it in the end: the partition is  *)
(* solved, or times out.                                                     *)
PartitionsEnd == \A n \in Nodes : Booked(n) ~> ~Booked(n)

=============================================================================
