------------------------------ MODULE DvmsProofs ------------------------------
(***************************************************************************)
(* Theorems about Dvms, for any nodes, identifiers and bounds, and whether *)
(* messages are prompt or not: its variables keep their types, a node that *)
(* is in a partition does not go over to another one, a node is a member   *)
(* of whatever partition it is in, and every reply goes to a process that  *)
(* waits for it.                                                           *)
(***************************************************************************)
EXTENDS Dvms, FiniteSetTheorems, SequenceTheorems, TLAPS

Box == [Nodes -> Seq(Message)]
ProcTable == [Procs -> Process]

-----------------------------------------------------------------------------
(* Types of the values the actions are made of.                              *)

LEMMA ProcsFacts ==
  /\ \A n \in Nodes : Server(n) \in Procs
  /\ \A n \in Nodes, k \in 1..MaxPlans : <<n, k>> \in Procs /\ <<n, k>> # Server(n)
  /\ \A p \in Procs : p[1] \in Nodes
  /\ \A p \in Nodes \X (1..MaxPlans) : p \in Procs /\ p # Server(p[1])
  /\ Procs \subseteq Clients /\ Nobody \in Clients
  BY PlansAssumption DEF Procs, Server, Clients, PlansAssumption

LEMMA PartitionIsBooked ==
  ASSUME current \in [Nodes -> Partition \cup {NoPartition}], NEW n \in Nodes, Booked(n)
  PROVE  current[n] \in Partition
  BY DEF Booked

LEMMA NoPartitionIsNone == NoPartition \notin Partition
  BY DEF NoPartition, Partition, States

LEMMA ChangedType ==
  ASSUME NEW part \in Partition, NEW state \in States
  PROVE  /\ Changed(part, state) \in Partition
         /\ Changed(part, state).id = part.id
         /\ Changed(part, state).version > part.version
<1> DEFINE v == part.version + 1
<1>1. v \in Nat /\ v > part.version
  BY DEF Partition
<1> HIDE DEF v
<1>2. /\ [part EXCEPT !.state = state, !.version = v] \in Partition
      /\ [part EXCEPT !.state = state, !.version = v].id = part.id
      /\ [part EXCEPT !.state = state, !.version = v].version = v
  BY <1>1 DEF Partition
<1> QED BY <1>1, <1>2 DEF Changed, v

LEMMA JoinedType ==
  ASSUME NEW part \in Partition, NEW n \in Nodes
  PROVE  Joined(n, part) \in Partition
<1> DEFINE ns == <<n>> \o part.nodes
           v == part.version + 1
<1>1. ns \in Seq(Nodes) /\ v \in Nat
  BY DEF Partition
<1> HIDE DEF ns, v
<1>2. [part EXCEPT !.leader = n, !.nodes = ns, !.state = "Growing", !.version = v] \in Partition
  BY <1>1 DEF Partition, States
<1> QED BY <1>2 DEF Joined, ns, v

LEMMA MessageTypes ==
  ASSUME NEW part \in Partition, NEW client \in Clients, NEW id \in Ids
  PROVE  /\ Isp(part, client) \in Message
         /\ [type |-> "valid", part |-> part, client |-> client] \in Message
         /\ [type |-> "set", part |-> part, client |-> client] \in Message
         /\ [type |-> "dissolve", id |-> id, client |-> client] \in Message
         /\ Dissolution(id) \in Message
  BY DEF Isp, Dissolution, Message, Clients

LEMMA SentType ==
  ASSUME NEW box \in Box, NEW n \in Nodes, NEW m \in Message
  PROVE  Sent(box, n, m) \in Box
  BY DEF Sent, Box

LEMMA SentAllType ==
  ASSUME NEW box \in Box, NEW members \in Seq(Nodes), NEW R, NEW m \in Message
  PROVE  SentAll(box, members, R, m) \in Box
<1> DEFINE same(n) == {i \in DOMAIN members : members[i] = n}
           copies(n) == IF n \in R THEN Cardinality(same(n)) ELSE 0
<1>1. ASSUME NEW n \in Nodes
      PROVE  copies(n) \in Nat
  <2>1. IsFiniteSet(1..Len(members))
    BY FS_Interval
  <2>2. same(n) \in SUBSET (1..Len(members))
    OBVIOUS
  <2>3. Cardinality(same(n)) \in Nat
    BY <2>1, <2>2, FS_Subset, FS_CardinalityType
  <2> QED BY <2>3
<1>2. ASSUME NEW n \in Nodes
      PROVE  box[n] \o [i \in 1..copies(n) |-> m] \in Seq(Message)
  <2> HIDE DEF copies
  <2>1. [i \in 1..copies(n) |-> m] \in Seq(Message)
    BY <1>1
  <2> QED BY <2>1 DEF Box
<1> QED BY <1>2 DEF SentAll, Box

LEMMA IspSentType ==
  ASSUME NEW box \in Box, NEW part \in Partition, NEW b \in IspSent(box, part)
  PROVE  b \in Box
<1>1. \A f \in Nodes : Sent(box, f, Isp(part, Nobody)) \in Box
  BY SentType, MessageTypes, ProcsFacts DEF Isp, Message
<1> QED BY <1>1 DEF IspSent

(* A reply changes nothing for a process that does not wait. *)
LEMMA ReplyType ==
  ASSUME NEW w \in Process, NEW a \in {"yes", "no"}
  PROVE  [w EXCEPT !.answer = a] \in Process
<1>1. CASE w \in Waits
  BY <1>1 DEF Waits, Process
<1>2. CASE w \in {Idle, Starting, Computing}
  <2>1. [w EXCEPT !.answer = a] = w
    BY <1>2 DEF Idle, Starting, Computing
  <2> QED BY <2>1
<1> QED BY <1>1, <1>2 DEF Process

LEMMA RepliedType ==
  ASSUME NEW procs \in ProcTable, NEW client \in Clients, NEW a \in {"yes", "no"}
  PROVE  Replied(procs, client, a) \in ProcTable
<1>1. CASE client = Nobody
  BY <1>1 DEF Replied
<1>2. CASE client \in Procs
  <2>1. [procs[client] EXCEPT !.answer = a] \in Process
    BY <1>2, ReplyType DEF ProcTable
  <2>2. CASE client = Nobody
    BY <1>1, <2>2
  <2>3. CASE client # Nobody
    BY <1>2, <2>1, <2>3 DEF Replied, ProcTable
  <2> QED BY <2>2, <2>3
<1> QED BY <1>1, <1>2 DEF Clients

LEMMA WaitsFacts ==
  ASSUME NEW w \in Process, w.pc \notin {"idle", "starting", "computing"}
  PROVE  w \in Waits
  BY DEF Process, Idle, Starting, Computing

LEMMA WaitingType ==
  ASSUME NEW part \in Partition, NEW todo \in Seq(Nodes), NEW client \in Clients,
         NEW next \in Nodes,
         NEW pc \in {"validating", "joining", "blocking", "merging", "growing",
                     "finishing", "confirming", "dissolving"}
  PROVE  Waiting(pc, part, todo, client, next) \in Waits
  BY DEF Waiting, Waits

LEMMA HeadType ==
  ASSUME inbox \in Box, NEW n \in Nodes, NEW type, Receives(n, type)
  PROVE  /\ Head(inbox[n]) \in Message
         /\ Head(inbox[n]).client \in Clients
         /\ type = "dissolve" => Head(inbox[n]).id \in Ids
         /\ type \in {"isp", "set", "valid"} => Head(inbox[n]).part \in Partition
         /\ Taken(n) \in Box
<1>1. inbox[n] \in Seq(Message) /\ inbox[n] # <<>> /\ Head(inbox[n]).type = type
  BY DEF Box, Receives
<1>2. Head(inbox[n]) \in Message /\ Tail(inbox[n]) \in Seq(Message)
  BY <1>1, HeadTailProperties
<1>3. Taken(n) \in Box
  BY <1>2 DEF Taken, Box
<1> QED BY <1>1, <1>2, <1>3 DEF Message

LEMMA AskAllType ==
  ASSUME proc \in ProcTable, NEW p \in Procs, NEW w \in Waits, NEW box \in Box,
         AskAll(p, w, box)
  PROVE  proc' \in ProcTable /\ inbox' \in Box
<1>0. w.todo \in Seq(Nodes) /\ w.part \in Partition
  BY DEF Waits
<1>1. CASE proc' = [proc EXCEPT ![p] = [w EXCEPT !.answer = "yes"]] /\ inbox' = box
  <2>1. [w EXCEPT !.answer = "yes"] \in Process
    BY DEF Waits, Process
  <2> QED BY <1>1, <2>1 DEF ProcTable
<1>2. ASSUME NEW i \in Left(p, w.todo),
             proc' = [proc EXCEPT ![p] = [w EXCEPT !.todo = SubSeq(@, i + 1, Len(@)),
                                                   !.asked = w.todo[i], !.answer = "pending"]],
             inbox' = Sent(box, w.todo[i], Request(p, w))
      PROVE  proc' \in ProcTable /\ inbox' \in Box
  <2>1. i \in 1..Len(w.todo) /\ w.todo[i] \in Nodes
    BY <1>0 DEF Left
  <2>2. SubSeq(w.todo, i + 1, Len(w.todo)) \in Seq(Nodes)
    <3>1. \A j \in (i + 1)..Len(w.todo) : w.todo[j] \in Nodes
      BY <1>0, <2>1
    <3> QED BY <1>0, <2>1, <3>1, SubSeqProperties
  <2>3. [w EXCEPT !.todo = SubSeq(@, i + 1, Len(@)),
                  !.asked = w.todo[i], !.answer = "pending"] \in Process
    BY <2>1, <2>2 DEF Waits, Process
  <2>4. Request(p, w) \in Message
    BY <1>0, MessageTypes, ProcsFacts DEF Request, Partition
  <2>5. inbox' \in Box
    BY <1>2, <2>1, <2>4, SentType
  <2> QED BY <1>2, <2>3, <2>5 DEF ProcTable
<1> QED BY <1>1, <1>2 DEF AskAll

LEMMA UpdateAllType ==
  ASSUME proc \in ProcTable, current \in [Nodes -> Partition \cup {NoPartition}],
         NEW p \in Procs, NEW part \in Partition, NEW client \in Clients, NEW next \in Nodes,
         NEW pc \in {"joining", "blocking", "merging", "growing", "finishing", "confirming"},
         NEW box \in Box, UpdateAll(p, pc, part, box, client, next)
  PROVE  /\ proc' \in ProcTable /\ inbox' \in Box
         /\ current' \in [Nodes -> Partition \cup {NoPartition}]
<1>1. Waiting(pc, part, part.nodes, client, next) \in Waits
  BY WaitingType DEF Partition
<1>2. proc' \in ProcTable /\ inbox' \in Box
  BY <1>1, AskAllType DEF UpdateAll
<1> QED BY <1>2 DEF UpdateAll

-----------------------------------------------------------------------------
(* Every action keeps the types.                                             *)

LEMMA TypesOfState ==
  ASSUME TypeOK
  PROVE  /\ inbox \in Box /\ proc \in ProcTable
         /\ current \in [Nodes -> Partition \cup {NoPartition}]
         /\ \A p \in Procs : proc[p].pc \notin {"idle", "starting", "computing"} =>
              /\ proc[p] \in Waits /\ proc[p].part \in Partition
              /\ proc[p].client \in Clients /\ proc[p].next \in Nodes
         /\ \A n \in Nodes : Booked(n) => current[n] \in Partition
<1>1. proc \in ProcTable /\ inbox \in Box
  BY DEF TypeOK, ProcTable, Box
<1>2. ASSUME NEW p \in Procs, proc[p].pc \notin {"idle", "starting", "computing"}
      PROVE  proc[p] \in Waits
  BY <1>1, <1>2, WaitsFacts DEF ProcTable
<1>3. \A w \in Waits : w.part \in Partition /\ w.client \in Clients /\ w.next \in Nodes
  BY DEF Waits
<1> QED BY <1>1, <1>2, <1>3, PartitionIsBooked DEF TypeOK

LEMMA TypeFromParts ==
  ASSUME inbox' \in Box, proc' \in ProcTable,
         current' \in [Nodes -> Partition \cup {NoPartition}],
         snoozed' \in [Nodes -> SUBSET Nodes], unused' \subseteq Ids,
         timeouts' \in 0..MaxTimeouts
  PROVE  TypeOK'
  BY DEF TypeOK, Box, ProcTable

LEMMA SetProcType ==
  ASSUME NEW procs \in ProcTable, NEW p \in Procs, NEW w \in Process
  PROVE  [procs EXCEPT ![p] = w] \in ProcTable
  BY DEF ProcTable

LEMMA TypeIsStillValid ==
  ASSUME TypeOK, NEW n \in Nodes, IsStillValid(n)
  PROVE  TypeOK'
<1>1. Head(inbox[n]).client \in Clients /\ inbox' \in Box
  BY TypesOfState, HeadType DEF IsStillValid
<1>2. proc' \in ProcTable
  BY <1>1, TypesOfState, RepliedType DEF IsStillValid
<1> QED BY <1>1, <1>2, TypeFromParts DEF IsStillValid, TypeOK

LEMMA TypeDissolve ==
  ASSUME TypeOK, NEW n \in Nodes, Dissolve(n)
  PROVE  TypeOK'
<1>1. Head(inbox[n]).client \in Clients /\ inbox' \in Box
  BY TypesOfState, HeadType DEF Dissolve
<1>2. proc' \in ProcTable
  BY <1>1, TypesOfState, RepliedType DEF Dissolve
<1>3. current' \in [Nodes -> Partition \cup {NoPartition}]
  BY DEF Dissolve, Dissolved, TypeOK
<1> QED BY <1>1, <1>2, <1>3, TypeFromParts DEF Dissolve, TypeOK

LEMMA TypeSetCurrentPartition ==
  ASSUME TypeOK, NEW n \in Nodes, SetCurrentPartition(n)
  PROVE  TypeOK'
<1>1. /\ Head(inbox[n]).client \in Clients /\ inbox' \in Box
      /\ Head(inbox[n]).part \in Partition
  BY TypesOfState, HeadType DEF SetCurrentPartition
<1>2. proc' \in ProcTable
  BY <1>1, TypesOfState, RepliedType DEF SetCurrentPartition
<1>3. current' \in [Nodes -> Partition \cup {NoPartition}]
  BY <1>1 DEF SetCurrentPartition, Updated, TypeOK
<1> QED BY <1>1, <1>2, <1>3, TypeFromParts DEF SetCurrentPartition, TypeOK

LEMMA TypeIspWhenFree ==
  ASSUME TypeOK, NEW n \in Nodes, IspWhenFree(n)
  PROVE  TypeOK'
<1> DEFINE m == Head(inbox[n])
           w == Waiting("validating", m.part, <<>>, m.client, m.part.initiator)
<1>1. m.client \in Clients /\ m.part \in Partition /\ Taken(n) \in Box
  BY TypesOfState, HeadType DEF IspWhenFree
<1>2. m.part.initiator \in Nodes
  BY <1>1 DEF Partition
<1> HIDE DEF m
<1>3. inbox' \in Box
  <2>1. [type |-> "valid", part |-> m.part, client |-> Server(n)] \in Message
    BY <1>1, ProcsFacts DEF Message
  <2> QED BY <1>1, <1>2, <2>1, SentType DEF IspWhenFree, m
<1>4. w \in Waits
  <2>1. <<>> \in Seq(Nodes)
    OBVIOUS
  <2> QED BY <1>1, <1>2, <2>1, WaitingType
<1> HIDE DEF w
<1>5. [w EXCEPT !.answer = "pending"] \in Process
  BY <1>4 DEF Waits, Process
<1>6. proc' \in ProcTable
  BY <1>5, TypesOfState, ProcsFacts, SetProcType DEF IspWhenFree, m, w
<1> QED BY <1>3, <1>6, TypeFromParts DEF IspWhenFree, TypeOK

LEMMA TypeJoin ==
  ASSUME TypeOK, NEW n \in Nodes, Join(n)
  PROVE  TypeOK'
<1>1. proc[Server(n)].part \in Partition /\ proc[Server(n)].client \in Clients
  BY TypesOfState, ProcsFacts DEF Join
<1>2. Joined(n, proc[Server(n)].part) \in Partition
  BY <1>1, JoinedType
<1>3. /\ proc' \in ProcTable /\ inbox' \in Box
      /\ current' \in [Nodes -> Partition \cup {NoPartition}]
  BY <1>1, <1>2, TypesOfState, ProcsFacts, UpdateAllType DEF Join
<1> QED BY <1>3, TypeFromParts DEF Join, TypeOK

LEMMA IdleTypes == Idle \in Process /\ Starting \in Process /\ Computing \in Process
  BY DEF Process

LEMMA TypeStartPlan ==
  ASSUME TypeOK, NEW n \in Nodes, NEW k \in 1..MaxPlans, StartPlan(n, k)
  PROVE  TypeOK'
<1> DEFINE procs == [[proc EXCEPT ![Server(n)] = Idle] EXCEPT ![<<n, k>>] = Starting]
<1>1. proc[Server(n)].client \in Clients
  BY TypesOfState, ProcsFacts DEF StartPlan, Done
<1>2. procs \in ProcTable
  BY TypesOfState, ProcsFacts, SetProcType, IdleTypes
<1>3. proc' \in ProcTable
  BY <1>1, <1>2, RepliedType DEF StartPlan
<1> QED BY <1>3, TypesOfState, TypeFromParts DEF StartPlan, TypeOK

LEMMA TypeRefuse ==
  ASSUME TypeOK, NEW n \in Nodes, Refuse(n) \/ EndBlocking(n)
  PROVE  TypeOK'
<1>1. proc[Server(n)].client \in Clients
  BY TypesOfState, ProcsFacts DEF Refuse, EndBlocking, Done
<1>2. [proc EXCEPT ![Server(n)] = Idle] \in ProcTable
  BY TypesOfState, ProcsFacts, SetProcType, IdleTypes
<1>3. proc' \in ProcTable
  BY <1>1, <1>2, RepliedType DEF Refuse, EndBlocking
<1> QED BY <1>3, TypesOfState, TypeFromParts DEF Refuse, EndBlocking, TypeOK

LEMMA TypeIspBack ==
  ASSUME TypeOK, NEW n \in Nodes, IspBack(n)
  PROVE  TypeOK'
<1>1. Head(inbox[n]).client \in Clients /\ Taken(n) \in Box
  BY TypesOfState, HeadType DEF IspBack
<1>2. Changed(current[n], "Blocked") \in Partition
  BY TypesOfState, ChangedType DEF IspBack, States
<1>3. Server(n)[1] = n
  BY DEF Server
<1>4. /\ proc' \in ProcTable /\ inbox' \in Box
      /\ current' \in [Nodes -> Partition \cup {NoPartition}]
  BY <1>1, <1>2, TypesOfState, ProcsFacts, UpdateAllType DEF IspBack
<1> QED BY <1>4, TypeFromParts DEF IspBack, TypeOK

LEMMA TypeDissolveBlocked ==
  ASSUME TypeOK, NEW n \in Nodes, DissolveBlocked(n)
  PROVE  TypeOK'
<1>1. Head(inbox[n]).client \in Clients /\ inbox' \in Box
  BY TypesOfState, HeadType DEF DissolveBlocked
<1>2. proc' \in ProcTable
  BY <1>1, TypesOfState, RepliedType DEF DissolveBlocked
<1>3. current' \in [Nodes -> Partition \cup {NoPartition}]
  BY DEF DissolveBlocked, Dissolved, TypeOK
<1> QED BY <1>1, <1>2, <1>3, TypeFromParts DEF DissolveBlocked, TypeOK

(* A node whose partition is blocked has a partition. *)
LEMMA BlockedIsBooked ==
  ASSUME NEW n \in Nodes, NEW part, BothBlocked(n, part)
  PROVE  Booked(n)
  BY DEF BothBlocked, Booked, NoPartition

LEMMA MergedPartitionType ==
  ASSUME NEW part \in Partition, NEW remote \in Partition, NEW id \in Ids
  PROVE  [part EXCEPT !.id = id, !.nodes = MergedWith(@, remote.nodes),
                      !.state = "Growing", !.version = 0] \in Partition
<1> DEFINE ns == MergedWith(part.nodes, remote.nodes)
<1>1. ns \in Seq(Nodes)
  BY DEF Partition, MergedWith
<1> HIDE DEF ns
<1>2. [part EXCEPT !.id = id, !.nodes = ns, !.state = "Growing", !.version = 0] \in Partition
  BY <1>1 DEF Partition, States
<1> QED BY <1>2 DEF ns

LEMMA TypeMerge ==
  ASSUME TypeOK, NEW n \in Nodes, Merge(n)
  PROVE  TypeOK'
<1> DEFINE m == Head(inbox[n])
<1>1. m.client \in Clients /\ m.part \in Partition /\ Taken(n) \in Box
  BY TypesOfState, HeadType DEF Merge
<1>2. current[n] \in Partition
  BY TypesOfState, BlockedIsBooked DEF Merge
<1> HIDE DEF m
<1>3. PICK id \in unused :
        /\ unused' = unused \ {id}
        /\ UpdateAll(Server(n), "merging",
                     [current[n] EXCEPT !.id = id, !.nodes = MergedWith(@, m.part.nodes),
                                        !.state = "Growing", !.version = 0],
                     Taken(n), m.client, n)
  BY DEF Merge, m
<1>4. [current[n] EXCEPT !.id = id, !.nodes = MergedWith(@, m.part.nodes),
                         !.state = "Growing", !.version = 0] \in Partition
  BY <1>1, <1>2, MergedPartitionType DEF TypeOK
<1>5. /\ proc' \in ProcTable /\ inbox' \in Box
      /\ current' \in [Nodes -> Partition \cup {NoPartition}]
  BY <1>1, <1>3, <1>4, TypesOfState, ProcsFacts, UpdateAllType
<1> QED BY <1>3, <1>5, TypeFromParts DEF Merge, TypeOK

LEMMA TypeMerged ==
  ASSUME TypeOK, NEW n \in Nodes, Merged(n)
  PROVE  TypeOK'
<1> DEFINE p == Server(n)
           procs == [proc EXCEPT ![p] = Idle]
           replied == Replied(procs, proc[p].client, "yes")
<1>1. p \in Procs /\ proc[p] \in Waits /\ proc[p].client \in Clients
  BY TypesOfState, ProcsFacts DEF Merged, Done
<1>2. current[n] \in Partition /\ current[n].nodes \in Seq(Nodes) /\ current[n].id \in Ids
  BY TypesOfState DEF Merged, Partition
<1>3. replied \in ProcTable
  BY <1>1, TypesOfState, SetProcType, IdleTypes, RepliedType
<1>4. [proc[p] EXCEPT !.pc = "merged", !.answer = "pending"] \in Process
  BY <1>1 DEF Waits, Process
<1>5. [proc EXCEPT ![p] = [proc[p] EXCEPT !.pc = "merged", !.answer = "pending"]] \in ProcTable
  BY <1>1, <1>4, TypesOfState, SetProcType
<1>6. SentAll(inbox, current[n].nodes, Nodes, Dissolution(current[n].id)) \in Box
  BY <1>1, <1>2, TypesOfState, SentAllType, MessageTypes
<1>7. \A b \in IspSent(inbox, current[n]) : b \in Box
  BY <1>2, TypesOfState, IspSentType
<1>8. Range(current[n].nodes) \in SUBSET Nodes
  BY <1>2 DEF Range
<1>9. proc' \in ProcTable
  BY <1>3, <1>5 DEF Merged
<1>10. inbox' \in Box
  BY <1>6, <1>7, TypesOfState DEF Merged
<1>11. snoozed' \in [Nodes -> SUBSET Nodes]
  BY <1>8 DEF Merged, TypeOK
<1> QED BY <1>9, <1>10, <1>11, TypeFromParts DEF Merged, TypeOK

LEMMA TypeForward ==
  ASSUME TypeOK, NEW n \in Nodes, NEW f \in Nodes, Forward(n, f)
  PROVE  TypeOK'
<1> DEFINE m == Head(inbox[n])
<1>1. m.client \in Clients /\ m.part \in Partition /\ Taken(n) \in Box
  BY TypesOfState, HeadType DEF Forward
<1> HIDE DEF m
<1>2. Isp(m.part, Nobody) \in Message
  BY <1>1, ProcsFacts DEF Isp, Message
<1>3. inbox' \in Box
  BY <1>1, <1>2, SentType DEF Forward, m
<1>4. proc' \in ProcTable
  BY <1>1, TypesOfState, RepliedType DEF Forward, m
<1> QED BY <1>3, <1>4, TypeFromParts DEF Forward, TypeOK

LEMMA TypeNobodyOut ==
  ASSUME TypeOK, NEW n \in Nodes, NobodyOut(n)
  PROVE  TypeOK'
<1>1. inbox' \in Box
  BY TypesOfState, HeadType DEF NobodyOut
<1> QED BY <1>1, TypesOfState, TypeFromParts DEF NobodyOut, TypeOK

LEMMA TypeOverloadingDetected ==
  ASSUME TypeOK, NEW n \in Nodes, OverloadingDetected(n)
  PROVE  TypeOK'
<1>1. PICK id \in unused :
        LET part == [id |-> id, leader |-> n, initiator |-> n, nodes |-> <<n>>,
                     state |-> "Growing", version |-> 0]
        IN /\ unused' = unused \ {id}
           /\ current' = [current EXCEPT ![n] = part]
           /\ inbox' \in IspSent(inbox, part)
  BY DEF OverloadingDetected
<1> DEFINE part == [id |-> id, leader |-> n, initiator |-> n, nodes |-> <<n>>,
                    state |-> "Growing", version |-> 0]
<1>2. part \in Partition
  BY DEF Partition, States, TypeOK
<1> HIDE DEF part
<1>3. inbox' \in IspSent(inbox, part)
  BY <1>1 DEF part
<1>4. inbox' \in Box
  BY <1>2, <1>3, TypesOfState, IspSentType
<1>5. current' \in [Nodes -> Partition \cup {NoPartition}]
  BY <1>1, <1>2, TypesOfState DEF part
<1> QED BY <1>1, <1>4, <1>5, TypesOfState, TypeFromParts DEF OverloadingDetected, TypeOK

LEMMA TypeCheckTimeout ==
  ASSUME TypeOK, NEW n \in Nodes, CheckTimeout(n)
  PROVE  TypeOK'
<1>1. current[n].nodes \in Seq(Nodes) /\ current[n].id \in Ids
  BY TypesOfState DEF CheckTimeout, Partition
<1>2. inbox' \in Box
  <2>1. Dissolution(current[n].id) \in Message
    BY <1>1, ProcsFacts DEF Dissolution, Message
  <2> QED BY <1>1, <2>1, TypesOfState, SentAllType DEF CheckTimeout
<1>3. current' \in [Nodes -> Partition \cup {NoPartition}]
  BY TypesOfState DEF CheckTimeout
<1>4. timeouts' \in 0..MaxTimeouts
  BY TimeoutsAssumption DEF CheckTimeout, TypeOK, TimeoutsAssumption
<1> QED BY <1>2, <1>3, <1>4, TypesOfState, TypeFromParts DEF CheckTimeout, TypeOK

LEMMA TypeAskNext ==
  ASSUME TypeOK, NEW p \in Procs, AskNext(p)
  PROVE  TypeOK'
<1>1. proc[p] \in Waits /\ p[1] \in Nodes
  BY TypesOfState, ProcsFacts DEF AskNext
<1>2. proc' \in ProcTable /\ inbox' \in Box
  <2>1. CASE AskAll(p, proc[p], inbox)
    BY <1>1, <2>1, TypesOfState, AskAllType
  <2>2. CASE Booked(p[1]) /\ AskAll(p, [proc[p] EXCEPT !.part = current[p[1]]], inbox)
    <3>1. [proc[p] EXCEPT !.part = current[p[1]]] \in Waits
      BY <1>1, <2>2, TypesOfState DEF Waits
    <3> QED BY <2>2, <3>1, TypesOfState, AskAllType
  <2> QED BY <2>1, <2>2 DEF AskNext
<1> QED BY <1>2, TypesOfState, TypeFromParts DEF AskNext, TypeOK

LEMMA NoSolutionType ==
  ASSUME TypeOK, NEW p \in Procs, NoSolution(p)
  PROVE  /\ proc' \in ProcTable /\ inbox' \in Box
         /\ current' \in [Nodes -> Partition \cup {NoPartition}]
<1>1. p[1] \in Nodes
  BY ProcsFacts
<1>2. CASE \E f \in FirstOut(p[1]) :
             UpdateAll(p, "growing", Changed(current[p[1]], "Growing"), inbox, Nobody, f)
  <2>1. PICK f \in Nodes :
          UpdateAll(p, "growing", Changed(current[p[1]], "Growing"), inbox, Nobody, f)
    BY <1>2 DEF FirstOut
  <2>2. Changed(current[p[1]], "Growing") \in Partition
    BY <1>1, TypesOfState, ChangedType DEF NoSolution, States
  <2> QED BY <2>1, <2>2, TypesOfState, ProcsFacts, UpdateAllType
<1>3. CASE proc' = [proc EXCEPT ![p] = Idle] /\ UNCHANGED <<current, inbox>>
  BY <1>3, TypesOfState, SetProcType, IdleTypes
<1> QED BY <1>2, <1>3 DEF NoSolution

LEMMA TypeCompute ==
  ASSUME TypeOK, NEW p \in Procs, Compute(p)
  PROVE  TypeOK'
<1>1. CASE NoSolution(p) /\ UNCHANGED snoozed
  BY <1>1, NoSolutionType, TypeFromParts DEF Compute, TypeOK
<1>2. CASE /\ proc' = [proc EXCEPT ![p] = Computing]
           /\ snoozed' = [snoozed EXCEPT ![p[1]] = Range(current[p[1]].nodes)]
           /\ UNCHANGED <<current, inbox>>
  <2>1. p[1] \in Nodes /\ current[p[1]].nodes \in Seq(Nodes)
    BY TypesOfState, ProcsFacts DEF Compute, Partition
  <2>2. Range(current[p[1]].nodes) \in SUBSET Nodes
    BY <2>1 DEF Range
  <2>3. snoozed' \in [Nodes -> SUBSET Nodes]
    BY <1>2, <2>1, <2>2 DEF TypeOK
  <2>4. proc' \in ProcTable
    BY <1>2, TypesOfState, SetProcType, IdleTypes
  <2> QED BY <1>2, <2>3, <2>4, TypesOfState, TypeFromParts DEF Compute, TypeOK
<1> QED BY <1>1, <1>2 DEF Compute

LEMMA TypeComputed ==
  ASSUME TypeOK, NEW p \in Procs, Computed(p)
  PROVE  TypeOK'
<1>1. p[1] \in Nodes
  BY ProcsFacts
<1>2. /\ proc' \in ProcTable /\ inbox' \in Box
      /\ current' \in [Nodes -> Partition \cup {NoPartition}]
  <2>1. CASE NoSolution(p)
    BY <2>1, NoSolutionType
  <2>2. CASE /\ Booked(p[1])
             /\ UpdateAll(p, "finishing", Changed(current[p[1]], "Finishing"), inbox, Nobody, p[1])
    <3>1. Changed(current[p[1]], "Finishing") \in Partition
      BY <1>1, <2>2, TypesOfState, ChangedType DEF States
    <3> QED BY <1>1, <2>2, <3>1, TypesOfState, ProcsFacts, UpdateAllType
  <2> QED BY <2>1, <2>2 DEF Computed
<1>3. snoozed' \in [Nodes -> SUBSET Nodes]
  BY <1>1 DEF Computed, TypeOK
<1> QED BY <1>2, <1>3, TypeFromParts DEF Computed, TypeOK

LEMMA TypeTransmit ==
  ASSUME TypeOK, NEW p \in Procs, Transmit(p)
  PROVE  TypeOK'
<1>1. proc[p] \in Waits /\ proc[p].next \in Nodes /\ p[1] \in Nodes
  BY TypesOfState, ProcsFacts DEF Transmit, Done
<1>2. Isp(current[p[1]], p) \in Message
  <2>1. current[p[1]] \in Partition
    BY <1>1, TypesOfState DEF Transmit
  <2> QED BY <2>1, ProcsFacts DEF Isp, Message
<1>3. inbox' \in Box
  BY <1>1, <1>2, TypesOfState, SentType DEF Transmit
<1>4. [proc[p] EXCEPT !.pc = "transmitting", !.asked = proc[p].next,
                      !.answer = "pending"] \in Process
  BY <1>1 DEF Waits, Process
<1>5. proc' \in ProcTable
  BY <1>4, TypesOfState, SetProcType DEF Transmit
<1> QED BY <1>3, <1>5, TypeFromParts DEF Transmit, TypeOK

LEMMA TypeConfirm ==
  ASSUME TypeOK, NEW p \in Procs, Confirm(p)
  PROVE  TypeOK'
<1>1. p[1] \in Nodes /\ current[p[1]] \in Partition
  BY TypesOfState, ProcsFacts DEF Confirm
<1>2. /\ proc' \in ProcTable /\ inbox' \in Box
      /\ current' \in [Nodes -> Partition \cup {NoPartition}]
  BY <1>1, TypesOfState, ProcsFacts, UpdateAllType DEF Confirm
<1> QED BY <1>2, TypeFromParts DEF Confirm, TypeOK

LEMMA TypeDissolveOthers ==
  ASSUME TypeOK, NEW p \in Procs, DissolveOthers(p)
  PROVE  TypeOK'
<1> DEFINE part == current[p[1]]
           w == Waiting("dissolving", part, part.nodes, Nobody, p[1])
<1>1. p[1] \in Nodes /\ part \in Partition
  BY TypesOfState, ProcsFacts DEF DissolveOthers
<1>2. w \in Waits
  BY <1>1, ProcsFacts, WaitingType DEF Partition
<1> HIDE DEF w
<1>3. proc' \in ProcTable /\ inbox' \in Box
  BY <1>2, TypesOfState, AskAllType DEF DissolveOthers, w
<1> QED BY <1>3, TypesOfState, TypeFromParts DEF DissolveOthers, TypeOK

LEMMA TypeEnds ==
  ASSUME TypeOK, NEW p \in Procs, DissolveSelf(p) \/ EndPlan(p) \/ Fail(p)
  PROVE  TypeOK'
<1>1. p[1] \in Nodes
  BY ProcsFacts
<1>2. proc' \in ProcTable
  BY TypesOfState, SetProcType, IdleTypes DEF DissolveSelf, EndPlan, Fail
<1>3. current' \in [Nodes -> Partition \cup {NoPartition}]
  BY <1>1, TypesOfState DEF DissolveSelf, EndPlan, Fail
<1>4. snoozed' \in [Nodes -> SUBSET Nodes]
  BY <1>1 DEF DissolveSelf, EndPlan, Fail, TypeOK
<1> QED BY <1>2, <1>3, <1>4, TypesOfState, TypeFromParts DEF DissolveSelf, EndPlan, Fail, TypeOK

LEMMA TypeInit == Init => TypeOK
<1> SUFFICES ASSUME Init PROVE TypeOK
  OBVIOUS
<1>1. proc \in [Procs -> Process]
  BY DEF Init, Process
<1>2. timeouts \in 0..MaxTimeouts
  BY TimeoutsAssumption DEF Init, TimeoutsAssumption
<1>3. inbox \in [Nodes -> Seq(Message)]
  BY DEF Init
<1> QED BY <1>1, <1>2, <1>3 DEF Init, TypeOK

LEMMA TypeServerStep ==
  ASSUME TypeOK, NEW n \in Nodes, ServerStep(n)
  PROVE  TypeOK'
<1>1. CASE IsStillValid(n) \/ Dissolve(n) \/ SetCurrentPartition(n)
  BY <1>1, TypeIsStillValid, TypeDissolve, TypeSetCurrentPartition
<1>2. CASE IspWhenFree(n) \/ Join(n) \/ Refuse(n) \/ EndBlocking(n)
  BY <1>2, TypeIspWhenFree, TypeJoin, TypeRefuse
<1>3. CASE \E k \in 1..MaxPlans : StartPlan(n, k)
  BY <1>3, TypeStartPlan
<1>4. CASE IspBack(n) \/ DissolveBlocked(n) \/ Merge(n) \/ Merged(n)
  BY <1>4, TypeIspBack, TypeDissolveBlocked, TypeMerge, TypeMerged
<1>5. CASE (\E f \in Nodes : Forward(n, f)) \/ NobodyOut(n)
  BY <1>5, TypeForward, TypeNobodyOut
<1>6. CASE AskNext(Server(n)) \/ Fail(Server(n))
  BY <1>6, ProcsFacts, TypeAskNext, TypeEnds
<1> QED BY <1>1, <1>2, <1>3, <1>4, <1>5, <1>6 DEF ServerStep

LEMMA TypePlanStep ==
  ASSUME TypeOK, NEW p \in Nodes \X (1..MaxPlans), PlanStep(p)
  PROVE  TypeOK'
<1>1. p \in Procs
  BY ProcsFacts
<1>2. CASE Compute(p) \/ Computed(p) \/ AskNext(p)
  BY <1>1, <1>2, TypeCompute, TypeComputed, TypeAskNext
<1>3. CASE Transmit(p) \/ Confirm(p) \/ DissolveOthers(p)
  BY <1>1, <1>3, TypeTransmit, TypeConfirm, TypeDissolveOthers
<1>4. CASE DissolveSelf(p) \/ EndPlan(p) \/ Fail(p)
  BY <1>1, <1>4, TypeEnds
<1> QED BY <1>2, <1>3, <1>4 DEF PlanStep

LEMMA TypeNext == TypeOK /\ [Next]_vars => TypeOK'
<1> SUFFICES ASSUME TypeOK, [Next]_vars PROVE TypeOK'
  OBVIOUS
<1>1. ASSUME NEW n \in Nodes, ServerStep(n) \/ OverloadingDetected(n) \/ CheckTimeout(n)
      PROVE  TypeOK'
  BY <1>1, TypeServerStep, TypeOverloadingDetected, TypeCheckTimeout
<1>2. ASSUME NEW p \in Nodes \X (1..MaxPlans), PlanStep(p)
      PROVE  TypeOK'
  BY <1>2, TypePlanStep
<1>3. CASE UNCHANGED vars
  BY <1>3 DEF vars, TypeOK
<1> QED BY <1>1, <1>2, <1>3 DEF Next

(* Partitions, messages and processes keep their types, whatever the order   *)
(* in which the servers, the plans and the timeouts run: an ISP never names  *)
(* an identifier, a node or a state of a partition that does not exist.      *)
THEOREM TypeCorrect == Spec => []TypeOK
  BY TypeInit, TypeNext, PTL DEF Spec

-----------------------------------------------------------------------------
(* A node that is in a partition keeps it.  The point is Join: the server    *)
(* was free when it asked the initiator, and takes the partition when the    *)
(* answer comes; meanwhile nothing else may have put the node in another     *)
(* one, since its messages wait and its plans only change a partition that   *)
(* it has.                                                                   *)

ValidatingIsFree ==
  \A n \in Nodes : proc[Server(n)].pc = "validating" => ~Booked(n)

Keeps(n) ==
  Booked(n) /\ Booked(n)' =>
    \/ current'[n].id = current[n].id /\ current'[n].version >= current[n].version
    \/ current'[n].id \in unused

(* A step of the server of n: the other nodes keep their partition and their *)
(* servers their place.                                                      *)
ServerFrame(n) ==
  /\ \A m \in Nodes \ {n} : /\ current'[m] = current[m]
                            /\ proc'[Server(m)].pc = proc[Server(m)].pc
  /\ proc'[Server(n)].pc = "validating" => ~Booked(n)'
  /\ Keeps(n)

(* A step of a plan of n: no server moves, and n does not get a partition    *)
(* that it had not.                                                          *)
PlanFrame(n) ==
  /\ \A m \in Nodes : proc'[Server(m)].pc = proc[Server(m)].pc
  /\ \A m \in Nodes \ {n} : current'[m] = current[m]
  /\ Booked(n)' => Booked(n)
  /\ Keeps(n)

LEMMA ServersDiffer ==
  ASSUME NEW m \in Nodes, NEW n \in Nodes
  PROVE  m # n <=> Server(m) # Server(n)
  BY DEF Server

LEMMA ReplyKeepsPc ==
  ASSUME NEW procs \in ProcTable, NEW client \in Clients, NEW a \in {"yes", "no"},
         NEW p \in Procs
  PROVE  Replied(procs, client, a)[p].pc = procs[p].pc
<1>1. ASSUME NEW w \in Process PROVE [w EXCEPT !.answer = a].pc = w.pc
  <2>1. CASE w \in Waits
    BY <2>1 DEF Waits
  <2>2. CASE w \in {Idle, Starting, Computing}
    BY <2>2 DEF Idle, Starting, Computing
  <2> QED BY <2>1, <2>2 DEF Process
<1>2. CASE client = Nobody
  BY <1>2 DEF Replied
<1>3. CASE client # Nobody /\ p # client
  BY <1>3 DEF Replied, ProcTable
<1>4. CASE client # Nobody /\ p = client
  <2>1. procs[client] \in Process
    BY <1>4 DEF ProcTable
  <2>2. Replied(procs, client, a)[p] = [procs[client] EXCEPT !.answer = a]
    BY <1>4 DEF Replied, ProcTable
  <2> QED BY <1>1, <1>4, <2>1, <2>2
<1> QED BY <1>2, <1>3, <1>4

LEMMA AskAllFrame ==
  ASSUME proc \in ProcTable, NEW p \in Procs, NEW w \in Waits, NEW box,
         AskAll(p, w, box)
  PROVE  proc'[p].pc = w.pc /\ \A q \in Procs \ {p} : proc'[q] = proc[q]
<1>1. CASE proc' = [proc EXCEPT ![p] = [w EXCEPT !.answer = "yes"]]
  BY <1>1 DEF ProcTable, Waits
<1>2. ASSUME NEW i,
             proc' = [proc EXCEPT ![p] = [w EXCEPT !.todo = SubSeq(@, i + 1, Len(@)),
                                                   !.asked = w.todo[i], !.answer = "pending"]]
      PROVE  proc'[p].pc = w.pc /\ \A q \in Procs \ {p} : proc'[q] = proc[q]
  <2> DEFINE rest == SubSeq(w.todo, i + 1, Len(w.todo))
             next == w.todo[i]
             v == [w EXCEPT !.todo = rest, !.asked = next, !.answer = "pending"]
  <2>1. proc' = [proc EXCEPT ![p] = v]
    BY <1>2
  <2> HIDE DEF rest, next
  <2>2. v.pc = w.pc
    BY DEF Waits
  <2> HIDE DEF v
  <2> QED BY <2>1, <2>2 DEF ProcTable
<1> QED BY <1>1, <1>2 DEF AskAll

LEMMA UpdateAllFrame ==
  ASSUME proc \in ProcTable, current \in [Nodes -> Partition \cup {NoPartition}],
         NEW p \in Procs, NEW part \in Partition, NEW client \in Clients, NEW next \in Nodes,
         NEW pc \in {"joining", "blocking", "merging", "growing", "finishing", "confirming"},
         NEW box, UpdateAll(p, pc, part, box, client, next)
  PROVE  /\ proc'[p].pc = pc /\ \A q \in Procs \ {p} : proc'[q] = proc[q]
         /\ current' = [current EXCEPT ![p[1]] = part]
<1>1. Waiting(pc, part, part.nodes, client, next) \in Waits
  BY WaitingType DEF Partition
<1>2. Waiting(pc, part, part.nodes, client, next).pc = pc
  BY DEF Waiting
<1> QED BY <1>1, <1>2, AskAllFrame DEF UpdateAll

(* What does not change the partition of n does not break Keeps. *)
LEMMA KeepsUnchanged ==
  ASSUME TypeOK, NEW n \in Nodes, current'[n] = current[n]
  PROVE  Keeps(n)
<1>1. ASSUME Booked(n) PROVE current[n].version >= current[n].version
  <2>1. current[n].version \in Nat
    BY <1>1, TypesOfState DEF Partition
  <2> QED BY <2>1
<1> QED BY <1>1 DEF Keeps

(* The server of n was idle, and what it does next is no validation. *)
LEMMA IdleServer ==
  ASSUME NEW n \in Nodes, Ready(n)
  PROVE  proc[Server(n)] = Idle /\ proc[Server(n)].pc = "idle"
  BY DEF Ready, Idle

LEMMA MessagesFrame ==
  ASSUME TypeOK, NEW n \in Nodes, IsStillValid(n) \/ Dissolve(n) \/ SetCurrentPartition(n)
  PROVE  ServerFrame(n)
<1> DEFINE c == Head(inbox[n]).client
<1>1. Ready(n) /\ c \in Clients
  BY TypesOfState, HeadType DEF IsStillValid, Dissolve, SetCurrentPartition, Receives
<1>2. \A m \in Nodes : proc'[Server(m)].pc = proc[Server(m)].pc
  <2>1. PICK a \in {"yes", "no"} : proc' = Replied(proc, c, a)
    BY DEF IsStillValid, Dissolve, SetCurrentPartition
  <2> HIDE DEF c
  <2> QED BY <1>1, <2>1, TypesOfState, ProcsFacts, ReplyKeepsPc
<1>3. \A m \in Nodes \ {n} : current'[m] = current[m]
  BY DEF IsStillValid, Dissolve, SetCurrentPartition, Dissolved, Updated, TypeOK
<1>4. Keeps(n)
  <2>1. CASE IsStillValid(n) \/ Dissolve(n)
    <3>1. current'[n] = current[n] \/ ~Booked(n)'
      BY <2>1 DEF IsStillValid, Dissolve, Dissolved, Booked, TypeOK
    <3> QED BY <3>1, KeepsUnchanged DEF Keeps
  <2>2. CASE SetCurrentPartition(n)
    <3> DEFINE part == Head(inbox[n]).part
    <3>1. CASE ~Booked(n)
      BY <3>1 DEF Keeps
    <3>2. CASE Booked(n) /\ current[n].id = part.id /\ current[n].version < part.version
      <4>1. part \in Partition /\ current[n] \in Partition
        BY <2>2, <3>2, TypesOfState, HeadType DEF SetCurrentPartition
      <4>2. current'[n] = part
        BY <2>2, <3>2 DEF SetCurrentPartition, Updated, TypeOK
      <4>3. part.version >= current[n].version
        BY <3>2, <4>1 DEF Partition
      <4> QED BY <3>2, <4>2, <4>3 DEF Keeps
    <3>3. CASE /\ Booked(n)
               /\ ~(current[n].id = part.id /\ current[n].version < part.version)
      <4>1. current' = current
        BY <2>2, <3>3 DEF SetCurrentPartition, Updated
      <4> QED BY <4>1, KeepsUnchanged
    <3> QED BY <3>1, <3>2, <3>3
  <2> QED BY <2>1, <2>2
<1>5. proc'[Server(n)].pc # "validating"
  BY <1>1, <1>2, IdleServer
<1> QED BY <1>2, <1>3, <1>4, <1>5 DEF ServerFrame

(* Actions of the server that do not touch its partition. *)
LEMMA SameFrame ==
  ASSUME TypeOK, NEW n \in Nodes, current' = current,
         \A m \in Nodes \ {n} : proc'[Server(m)].pc = proc[Server(m)].pc,
         proc'[Server(n)].pc = "validating" => ~Booked(n)
  PROVE  ServerFrame(n)
<1>1. Keeps(n)
  BY KeepsUnchanged
<1> QED BY <1>1 DEF ServerFrame, Booked

LEMMA IspWhenFreeFrame ==
  ASSUME TypeOK, NEW n \in Nodes, IspWhenFree(n)
  PROVE  ServerFrame(n)
<1>1. \A m \in Nodes \ {n} : proc'[Server(m)].pc = proc[Server(m)].pc
  BY TypesOfState, ProcsFacts, ServersDiffer DEF IspWhenFree, ProcTable
<1>2. current' = current /\ ~Booked(n)
  BY DEF IspWhenFree
<1> QED BY <1>1, <1>2, SameFrame

LEMMA JoinFrame ==
  ASSUME TypeOK, ValidatingIsFree, NEW n \in Nodes, Join(n)
  PROVE  ServerFrame(n)
<1> DEFINE p == Server(n)
           part == Joined(n, proc[p].part)
<1>1. ~Booked(n)
  BY DEF ValidatingIsFree, Join
<1>2. p \in Procs /\ p[1] = n
  BY ProcsFacts DEF Server
<1>3. part \in Partition /\ proc[p].client \in Clients
  BY <1>2, TypesOfState, JoinedType DEF Join
<1> HIDE DEF part
<1>4. UpdateAll(p, "joining", part, inbox, proc[p].client, n)
  BY DEF Join, part
<1> HIDE DEF p
<1>5. /\ proc'[p].pc = "joining" /\ \A q \in Procs \ {p} : proc'[q] = proc[q]
      /\ current' = [current EXCEPT ![n] = part]
  BY <1>2, <1>3, <1>4, TypesOfState, UpdateAllFrame
<1>6. \A m \in Nodes \ {n} : /\ current'[m] = current[m]
                             /\ proc'[Server(m)].pc = proc[Server(m)].pc
  BY <1>5, ProcsFacts, ServersDiffer DEF p
<1> QED BY <1>1, <1>5, <1>6 DEF ServerFrame, Keeps, p

LEMMA RepliesFrame ==
  ASSUME TypeOK, NEW n \in Nodes,
         \/ \E k \in 1..MaxPlans : StartPlan(n, k)
         \/ Refuse(n) \/ EndBlocking(n)
  PROVE  ServerFrame(n)
<1> DEFINE p == Server(n)
           c == proc[p].client
<1>1. p \in Procs /\ c \in Clients
  BY TypesOfState, ProcsFacts DEF StartPlan, Refuse, EndBlocking, Done
<1>2. PICK procs \in ProcTable :
        /\ proc' = Replied(procs, c, "yes")
        /\ procs[p].pc = "idle"
        /\ \A m \in Nodes \ {n} : procs[Server(m)] = proc[Server(m)]
  <2>1. [proc EXCEPT ![p] = Idle] \in ProcTable
    BY <1>1, TypesOfState, SetProcType, IdleTypes
  <2>2. CASE Refuse(n) \/ EndBlocking(n)
    <3> WITNESS [proc EXCEPT ![p] = Idle] \in ProcTable
    <3> QED BY <1>1, <2>2, TypesOfState, ProcsFacts, ServersDiffer
            DEF Refuse, EndBlocking, ProcTable, Idle
  <2>3. ASSUME NEW k \in 1..MaxPlans, StartPlan(n, k)
        PROVE  \E procs \in ProcTable :
                 /\ proc' = Replied(procs, c, "yes")
                 /\ procs[p].pc = "idle"
                 /\ \A m \in Nodes \ {n} : procs[Server(m)] = proc[Server(m)]
    <3> DEFINE new == [[proc EXCEPT ![p] = Idle] EXCEPT ![<<n, k>>] = Starting]
    <3>1. new \in ProcTable
      BY <2>1, ProcsFacts, SetProcType, IdleTypes
    <3>2. proc' = Replied(new, c, "yes")
      BY <2>3 DEF StartPlan
    <3>3. \A m \in Nodes : <<n, k>> # Server(m)
      BY <2>3 DEF Server
    <3>4. new[p].pc = "idle" /\ \A m \in Nodes \ {n} : new[Server(m)] = proc[Server(m)]
      BY <1>1, <3>3, TypesOfState, ProcsFacts, ServersDiffer DEF ProcTable, Idle
    <3> HIDE DEF new
    <3> QED BY <3>1, <3>2, <3>4
  <2> QED BY <2>2, <2>3
<1>3. \A m \in Nodes : proc'[Server(m)].pc = procs[Server(m)].pc
  BY <1>1, <1>2, ProcsFacts, ReplyKeepsPc
<1>4. current' = current
  BY DEF StartPlan, Refuse, EndBlocking
<1> QED BY <1>2, <1>3, <1>4, SameFrame

LEMMA IspBackFrame ==
  ASSUME TypeOK, NEW n \in Nodes, IspBack(n)
  PROVE  ServerFrame(n)
<1> DEFINE p == Server(n)
           c == Head(inbox[n]).client
           part == Changed(current[n], "Blocked")
<1>1. p \in Procs /\ p[1] = n /\ c \in Clients
  BY TypesOfState, ProcsFacts, HeadType DEF IspBack, Server
<1>2. current[n] \in Partition
  BY TypesOfState DEF IspBack
<1>3. part \in Partition /\ part.id = current[n].id /\ part.version > current[n].version
  BY <1>2, ChangedType DEF States
<1>4. part.version >= current[n].version
  BY <1>2, <1>3 DEF Partition
<1> HIDE DEF part, c
<1>5. UpdateAll(p, "blocking", part, Taken(n), c, n)
  BY DEF IspBack, part, c
<1> HIDE DEF p
<1>6. /\ proc'[p].pc = "blocking" /\ \A q \in Procs \ {p} : proc'[q] = proc[q]
      /\ current' = [current EXCEPT ![n] = part]
  BY <1>1, <1>3, <1>5, TypesOfState, UpdateAllFrame
<1>7. \A m \in Nodes \ {n} : /\ current'[m] = current[m]
                             /\ proc'[Server(m)].pc = proc[Server(m)].pc
  BY <1>6, ProcsFacts, ServersDiffer DEF p
<1>8. Keeps(n)
  BY <1>3, <1>4, <1>6 DEF Keeps, TypeOK
<1> QED BY <1>6, <1>7, <1>8 DEF ServerFrame, p

(* Whichever partition the loop goes on with, it stays the same loop. *)
LEMMA AskNextWaits ==
  ASSUME TypeOK, NEW p \in Procs, AskNext(p)
  PROVE  \E w \in Waits : AskAll(p, w, inbox) /\ w.pc = proc[p].pc
<1>1. proc[p] \in Waits /\ p[1] \in Nodes
  BY TypesOfState, ProcsFacts DEF AskNext
<1>2. CASE AskAll(p, proc[p], inbox)
  BY <1>1, <1>2
<1>3. CASE Booked(p[1]) /\ AskAll(p, [proc[p] EXCEPT !.part = current[p[1]]], inbox)
  <2> DEFINE w == [proc[p] EXCEPT !.part = current[p[1]]]
  <2>1. w \in Waits /\ w.pc = proc[p].pc
    BY <1>1, <1>3, TypesOfState DEF Waits
  <2>2. AskAll(p, w, inbox)
    BY <1>3
  <2> HIDE DEF w
  <2> QED BY <2>1, <2>2
<1> QED BY <1>2, <1>3 DEF AskNext

LEMMA DissolveBlockedFrame ==
  ASSUME TypeOK, NEW n \in Nodes, DissolveBlocked(n)
  PROVE  ServerFrame(n)
<1> DEFINE c == Head(inbox[n]).client
<1>1. Ready(n) /\ c \in Clients
  BY TypesOfState, HeadType DEF DissolveBlocked, Receives
<1>2. proc' = Replied(proc, c, "yes")
  BY DEF DissolveBlocked
<1> HIDE DEF c
<1>3. \A m \in Nodes : proc'[Server(m)].pc = proc[Server(m)].pc
  BY <1>1, <1>2, TypesOfState, ProcsFacts, ReplyKeepsPc
<1>4. \A m \in Nodes \ {n} : current'[m] = current[m]
  BY DEF DissolveBlocked, Dissolved, TypeOK
<1>5. Keeps(n)
  BY DEF DissolveBlocked, Dissolved, Booked, TypeOK, Keeps
<1> QED BY <1>1, <1>3, <1>4, <1>5, IdleServer DEF ServerFrame

LEMMA MergeFrame ==
  ASSUME TypeOK, NEW n \in Nodes, Merge(n)
  PROVE  ServerFrame(n)
<1> DEFINE p == Server(n)
           m == Head(inbox[n])
<1>1. p \in Procs /\ p[1] = n /\ m.client \in Clients /\ m.part \in Partition
  BY TypesOfState, ProcsFacts, HeadType DEF Merge, Server
<1>2. current[n] \in Partition
  BY TypesOfState, BlockedIsBooked DEF Merge
<1> HIDE DEF m
<1>3. PICK id \in unused :
        UpdateAll(Server(n), "merging",
                  [current[n] EXCEPT !.id = id, !.nodes = MergedWith(@, m.part.nodes),
                                     !.state = "Growing", !.version = 0],
                  Taken(n), m.client, n)
  BY DEF Merge, m
<1> DEFINE part == [current[n] EXCEPT !.id = id, !.nodes = MergedWith(@, m.part.nodes),
                                      !.state = "Growing", !.version = 0]
<1>4. part \in Partition
  BY <1>1, <1>2, MergedPartitionType DEF TypeOK
<1>5. part.id = id
  BY <1>2 DEF Partition
<1> HIDE DEF part, p
<1>6. /\ proc'[p].pc = "merging" /\ \A q \in Procs \ {p} : proc'[q] = proc[q]
      /\ current' = [current EXCEPT ![n] = part]
  BY <1>1, <1>3, <1>4, TypesOfState, UpdateAllFrame DEF part, p
<1>7. \A o \in Nodes \ {n} : /\ current'[o] = current[o]
                             /\ proc'[Server(o)].pc = proc[Server(o)].pc
  BY <1>6, ProcsFacts, ServersDiffer DEF p
<1>8. Keeps(n)
  BY <1>3, <1>5, <1>6 DEF Keeps, TypeOK
<1> QED BY <1>6, <1>7, <1>8 DEF ServerFrame, p

LEMMA MergedFrame ==
  ASSUME TypeOK, NEW n \in Nodes, Merged(n)
  PROVE  ServerFrame(n)
<1> DEFINE p == Server(n)
           procs == [proc EXCEPT ![p] = Idle]
           c == proc[p].client
<1>1. p \in Procs /\ proc[p] \in Waits /\ c \in Clients
  BY TypesOfState, ProcsFacts DEF Merged, Done
<1>2. current' = current
  BY DEF Merged
<1>3. CASE proc' = Replied(procs, c, "yes")
  <2>1. procs \in ProcTable
    BY <1>1, TypesOfState, SetProcType, IdleTypes
  <2>2. procs[p].pc = "idle" /\ \A m \in Nodes \ {n} : procs[Server(m)] = proc[Server(m)]
    BY <1>1, TypesOfState, ProcsFacts, ServersDiffer DEF ProcTable, Idle
  <2> HIDE DEF procs, c
  <2>3. \A m \in Nodes : proc'[Server(m)].pc = procs[Server(m)].pc
    BY <1>1, <1>3, <2>1, ProcsFacts, ReplyKeepsPc
  <2> QED BY <1>2, <2>2, <2>3, SameFrame
<1>4. CASE proc' = [proc EXCEPT ![p] = [proc[p] EXCEPT !.pc = "merged", !.answer = "pending"]]
  <2> DEFINE v == [proc[p] EXCEPT !.pc = "merged", !.answer = "pending"]
  <2>1. v.pc = "merged"
    BY <1>1 DEF Waits
  <2> HIDE DEF v
  <2>2. proc'[p].pc = "merged" /\ \A m \in Nodes \ {n} : proc'[Server(m)] = proc[Server(m)]
    BY <1>1, <1>4, <2>1, TypesOfState, ProcsFacts, ServersDiffer DEF ProcTable, v
  <2> QED BY <1>2, <2>2, SameFrame
<1> QED BY <1>3, <1>4 DEF Merged

LEMMA ForwardFrame ==
  ASSUME TypeOK, NEW n \in Nodes, (\E f \in Nodes : Forward(n, f)) \/ NobodyOut(n)
  PROVE  ServerFrame(n)
<1>1. current' = current /\ Ready(n)
  BY DEF Forward, NobodyOut, Receives
<1>2. \A m \in Nodes : proc'[Server(m)].pc = proc[Server(m)].pc
  <2>1. CASE NobodyOut(n)
    BY <2>1 DEF NobodyOut
  <2>2. ASSUME NEW f \in Nodes, Forward(n, f)
        PROVE  \A m \in Nodes : proc'[Server(m)].pc = proc[Server(m)].pc
    <3> DEFINE c == Head(inbox[n]).client
    <3>1. c \in Clients
      BY <2>2, TypesOfState, HeadType DEF Forward
    <3>2. proc' = Replied(proc, c, "yes")
      BY <2>2 DEF Forward
    <3> HIDE DEF c
    <3> QED BY <3>1, <3>2, TypesOfState, ProcsFacts, ReplyKeepsPc
  <2> QED BY <2>1, <2>2
<1> QED BY <1>1, <1>2, IdleServer, SameFrame

LEMMA ServerAskNextFrame ==
  ASSUME TypeOK, NEW n \in Nodes, AskNext(Server(n)) \/ Fail(Server(n))
  PROVE  ServerFrame(n)
<1> DEFINE p == Server(n)
<1>1. p \in Procs
  BY ProcsFacts
<1>2. CASE Fail(p)
  <2>1. current' = current /\ proc' = [proc EXCEPT ![p] = Idle]
    BY <1>2 DEF Fail
  <2>2. proc'[p].pc = "idle" /\ \A m \in Nodes \ {n} : proc'[Server(m)] = proc[Server(m)]
    BY <1>1, <2>1, TypesOfState, ProcsFacts, ServersDiffer DEF ProcTable, Idle
  <2> QED BY <2>1, <2>2, SameFrame
<1>3. CASE AskNext(p)
  <2>1. PICK w \in Waits : AskAll(p, w, inbox) /\ w.pc = proc[p].pc
    BY <1>1, <1>3, AskNextWaits
  <2>2. proc'[p].pc = proc[p].pc /\ \A q \in Procs \ {p} : proc'[q] = proc[q]
    BY <1>1, <2>1, TypesOfState, AskAllFrame
  <2>3. proc[p].pc # "validating" /\ current' = current
    BY <1>3 DEF AskNext
  <2> QED BY <2>2, <2>3, SameFrame, ProcsFacts, ServersDiffer
<1> QED BY <1>2, <1>3

LEMMA MonitorFrame ==
  ASSUME TypeOK, NEW n \in Nodes, OverloadingDetected(n) \/ CheckTimeout(n)
  PROVE  ServerFrame(n)
<1>1. proc' = proc /\ Ready(n)
  BY DEF OverloadingDetected, CheckTimeout
<1>2. \A m \in Nodes \ {n} : current'[m] = current[m]
  BY DEF OverloadingDetected, CheckTimeout, TypeOK
<1>3. ~Booked(n) \/ ~Booked(n)'
  BY DEF OverloadingDetected, CheckTimeout, Booked, TypeOK
<1> QED BY <1>1, <1>2, <1>3, IdleServer DEF ServerFrame, Keeps

LEMMA ServerStepFrame ==
  ASSUME TypeOK, ValidatingIsFree, NEW n \in Nodes,
         ServerStep(n) \/ OverloadingDetected(n) \/ CheckTimeout(n)
  PROVE  ServerFrame(n)
<1>1. CASE \/ IsStillValid(n) \/ Dissolve(n) \/ SetCurrentPartition(n)
           \/ IspWhenFree(n) \/ Join(n)
  BY <1>1, MessagesFrame, IspWhenFreeFrame, JoinFrame
<1>2. CASE (\E k \in 1..MaxPlans : StartPlan(n, k)) \/ Refuse(n) \/ EndBlocking(n)
  BY <1>2, RepliesFrame
<1>3. CASE IspBack(n) \/ DissolveBlocked(n) \/ Merge(n) \/ Merged(n)
  BY <1>3, IspBackFrame, DissolveBlockedFrame, MergeFrame, MergedFrame
<1>4. CASE (\E f \in Nodes : Forward(n, f)) \/ NobodyOut(n)
  BY <1>4, ForwardFrame
<1>5. CASE AskNext(Server(n)) \/ Fail(Server(n))
  BY <1>5, ServerAskNextFrame
<1>6. CASE OverloadingDetected(n) \/ CheckTimeout(n)
  BY <1>6, MonitorFrame
<1> QED BY <1>1, <1>2, <1>3, <1>4, <1>5, <1>6 DEF ServerStep

(* A plan only changes the partition that its node has. *)
LEMMA PlanUpdateFrame ==
  ASSUME TypeOK, NEW p \in Nodes \X (1..MaxPlans), Booked(p[1]),
         NEW part \in Partition, part.id = current[p[1]].id,
         part.version >= current[p[1]].version, NEW next \in Nodes,
         NEW pc \in {"growing", "finishing", "confirming"},
         UpdateAll(p, pc, part, inbox, Nobody, next)
  PROVE  PlanFrame(p[1])
<1>1. p \in Procs /\ p[1] \in Nodes /\ \A m \in Nodes : Server(m) \in Procs \ {p}
  BY ProcsFacts DEF Server
<1>2. /\ \A q \in Procs \ {p} : proc'[q] = proc[q]
      /\ current' = [current EXCEPT ![p[1]] = part]
  BY <1>1, ProcsFacts, TypesOfState, UpdateAllFrame
<1>3. \A m \in Nodes : proc'[Server(m)].pc = proc[Server(m)].pc
  BY <1>1, <1>2
<1>4. \A m \in Nodes \ {p[1]} : current'[m] = current[m]
  BY <1>2 DEF TypeOK
<1>5. Keeps(p[1])
  BY <1>1, <1>2 DEF Keeps, TypeOK
<1> QED BY <1>3, <1>4, <1>5 DEF PlanFrame

(* A plan that leaves the partitions as they are, or gives up its own. *)
LEMMA PlanEndsFrame ==
  ASSUME TypeOK, NEW p \in Nodes \X (1..MaxPlans),
         \/ current' = current
         \/ current' = [current EXCEPT ![p[1]] = NoPartition],
         \A q \in Procs \ {p} : proc'[q] = proc[q]
  PROVE  PlanFrame(p[1])
<1>1. p[1] \in Nodes /\ \A m \in Nodes : Server(m) \in Procs \ {p}
  BY ProcsFacts DEF Server
<1>2. \A m \in Nodes : proc'[Server(m)].pc = proc[Server(m)].pc
  BY <1>1
<1>3. \A m \in Nodes \ {p[1]} : current'[m] = current[m]
  BY DEF TypeOK
<1>4. current'[p[1]] = current[p[1]] \/ ~Booked(p[1])'
  BY <1>1 DEF TypeOK, Booked
<1>5. Keeps(p[1])
  BY <1>1, <1>4, KeepsUnchanged DEF Keeps
<1>6. Booked(p[1])' => Booked(p[1])
  BY <1>4 DEF Booked
<1> QED BY <1>2, <1>3, <1>5, <1>6 DEF PlanFrame

LEMMA NoSolutionFrame ==
  ASSUME TypeOK, NEW p \in Nodes \X (1..MaxPlans), NoSolution(p)
  PROVE  PlanFrame(p[1])
<1>1. p \in Procs /\ p[1] \in Nodes
  BY ProcsFacts
<1>2. current[p[1]] \in Partition
  BY <1>1, TypesOfState DEF NoSolution
<1>3. CASE \E f \in FirstOut(p[1]) :
             UpdateAll(p, "growing", Changed(current[p[1]], "Growing"), inbox, Nobody, f)
  <2> DEFINE part == Changed(current[p[1]], "Growing")
  <2>1. PICK f \in Nodes : UpdateAll(p, "growing", part, inbox, Nobody, f)
    BY <1>3 DEF FirstOut
  <2>2. /\ part \in Partition /\ part.id = current[p[1]].id
        /\ part.version > current[p[1]].version
    BY <1>2, ChangedType DEF States
  <2>3. part.version >= current[p[1]].version
    BY <1>2, <2>2 DEF Partition
  <2> HIDE DEF part
  <2> QED BY <2>1, <2>2, <2>3, PlanUpdateFrame DEF NoSolution
<1>4. CASE proc' = [proc EXCEPT ![p] = Idle] /\ UNCHANGED <<current, inbox>>
  BY <1>1, <1>4, TypesOfState, PlanEndsFrame DEF ProcTable
<1> QED BY <1>3, <1>4 DEF NoSolution

LEMMA PlanStepFrame ==
  ASSUME TypeOK, NEW p \in Nodes \X (1..MaxPlans), PlanStep(p)
  PROVE  PlanFrame(p[1])
<1>1. p \in Procs /\ p[1] \in Nodes
  BY ProcsFacts
<1>2. CASE Compute(p)
  <2>1. CASE NoSolution(p)
    BY <2>1, NoSolutionFrame
  <2>2. CASE proc' = [proc EXCEPT ![p] = Computing] /\ current' = current
    BY <1>1, <2>2, TypesOfState, PlanEndsFrame DEF ProcTable
  <2> QED BY <1>2, <2>1, <2>2 DEF Compute
<1>3. CASE Computed(p)
  <2>1. CASE NoSolution(p)
    BY <2>1, NoSolutionFrame
  <2>2. CASE /\ Booked(p[1])
             /\ UpdateAll(p, "finishing", Changed(current[p[1]], "Finishing"), inbox, Nobody, p[1])
    <3> DEFINE part == Changed(current[p[1]], "Finishing")
    <3>1. current[p[1]] \in Partition
      BY <1>1, <2>2, TypesOfState
    <3>2. /\ part \in Partition /\ part.id = current[p[1]].id
          /\ part.version > current[p[1]].version
      BY <3>1, ChangedType DEF States
    <3>3. part.version >= current[p[1]].version
      BY <3>1, <3>2 DEF Partition
    <3>4. UpdateAll(p, "finishing", part, inbox, Nobody, p[1])
      BY <2>2
    <3> HIDE DEF part
    <3> QED BY <1>1, <2>2, <3>2, <3>3, <3>4, PlanUpdateFrame
  <2> QED BY <1>3, <2>1, <2>2 DEF Computed
<1>4. CASE AskNext(p) \/ DissolveOthers(p)
  <2>1. \A q \in Procs \ {p} : proc'[q] = proc[q]
    <3>1. CASE AskNext(p)
      <4>1. PICK w \in Waits : AskAll(p, w, inbox)
        BY <1>1, <3>1, AskNextWaits
      <4> QED BY <1>1, <4>1, TypesOfState, AskAllFrame
    <3>2. CASE DissolveOthers(p)
      <4> DEFINE w == Waiting("dissolving", current[p[1]], current[p[1]].nodes, Nobody, p[1])
      <4>1. w \in Waits
        BY <1>1, <3>2, TypesOfState, ProcsFacts, WaitingType DEF DissolveOthers, Partition
      <4>2. AskAll(p, w, inbox)
        BY <3>2 DEF DissolveOthers
      <4> HIDE DEF w
      <4> QED BY <1>1, <4>1, <4>2, TypesOfState, AskAllFrame
    <3> QED BY <1>4, <3>1, <3>2
  <2>2. current' = current
    BY <1>4 DEF AskNext, DissolveOthers
  <2> QED BY <2>1, <2>2, PlanEndsFrame
<1>5. CASE Transmit(p) \/ EndPlan(p) \/ Fail(p)
  <2>1. \A q \in Procs \ {p} : proc'[q] = proc[q]
    BY <1>1, <1>5, TypesOfState DEF Transmit, EndPlan, Fail, ProcTable
  <2>2. current' = current
    BY <1>5 DEF Transmit, EndPlan, Fail
  <2> QED BY <2>1, <2>2, PlanEndsFrame
<1>6. CASE Confirm(p)
  <2>1. current[p[1]] \in Partition /\ Booked(p[1])
    BY <1>1, <1>6, TypesOfState DEF Confirm
  <2>2. current[p[1]].version >= current[p[1]].version
    BY <2>1 DEF Partition
  <2> QED BY <1>1, <1>6, <2>1, <2>2, PlanUpdateFrame DEF Confirm
<1>7. CASE DissolveSelf(p)
  BY <1>1, <1>7, TypesOfState, PlanEndsFrame DEF DissolveSelf, ProcTable
<1> QED BY <1>2, <1>3, <1>4, <1>5, <1>6, <1>7 DEF PlanStep

LEMMA FreeNext ==
  ASSUME TypeOK, ValidatingIsFree, [Next]_vars
  PROVE  /\ ValidatingIsFree'
         /\ \A n \in Nodes : Keeps(n)
<1>1. ASSUME NEW n \in Nodes, ServerStep(n) \/ OverloadingDetected(n) \/ CheckTimeout(n)
      PROVE  ValidatingIsFree' /\ \A m \in Nodes : Keeps(m)
  <2>1. ServerFrame(n)
    BY <1>1, ServerStepFrame
  <2> QED BY <2>1, KeepsUnchanged DEF ServerFrame, ValidatingIsFree, Booked
<1>2. ASSUME NEW p \in Nodes \X (1..MaxPlans), PlanStep(p)
      PROVE  ValidatingIsFree' /\ \A m \in Nodes : Keeps(m)
  <2>1. PlanFrame(p[1])
    BY <1>2, PlanStepFrame
  <2> QED BY <2>1, KeepsUnchanged DEF PlanFrame, ValidatingIsFree, Booked
<1>3. CASE UNCHANGED vars
  BY <1>3, KeepsUnchanged DEF vars, ValidatingIsFree, Booked
<1> QED BY <1>1, <1>2, <1>3 DEF Next

LEMMA FreeCorrect == Spec => [](TypeOK /\ ValidatingIsFree)
<1>1. Init => ValidatingIsFree
  BY DEF Init, ValidatingIsFree, Booked
<1>2. TypeOK /\ ValidatingIsFree /\ [Next]_vars => ValidatingIsFree'
  BY FreeNext
<1> QED BY <1>1, <1>2, TypeCorrect, TypeNext, TypeInit, PTL DEF Spec

(* An agent never lets itself be drawn from the partition it is in into      *)
(* another one, nor back to an older version of it: whichever messages       *)
(* arrive late, and while its server waits for the initiator of an ISP, it   *)
(* leaves the partition first, but for a merge.                              *)
THEOREM PartitionsAreKept == Spec => BookedNodesKeepTheirPartition
<1>1. TypeOK /\ ValidatingIsFree /\ [Next]_vars
        => [\A n \in Nodes : Booked(n) /\ Booked(n)' =>
              \/ current'[n].id = current[n].id /\ current'[n].version >= current[n].version
              \/ current'[n].id \in unused]_vars
  BY FreeNext DEF Keeps
<1> QED BY <1>1, FreeCorrect, PTL DEF Spec, BookedNodesKeepTheirPartition

-----------------------------------------------------------------------------
Plans == Nodes \X (1..MaxPlans)

-----------------------------------------------------------------------------
(* Members.  A node takes partitions from messages that may be long out of   *)
(* date, so that the invariant has to say of every partition in a mailbox,   *)
(* or kept by a process that waits, what the property says of those that     *)
(* nodes are in.                                                             *)

Sound(part) ==
  /\ part.nodes # <<>>
  /\ part.leader = Head(part.nodes)
  /\ part.initiator \in Range(part.nodes)

GoodMessage(n, m) ==
  m.type # "dissolve" =>
    Sound(m.part) /\ (m.type = "set" => n \in Range(m.part.nodes))

GoodBox(box) == \A n \in Nodes : \A i \in DOMAIN box[n] : GoodMessage(n, box[n][i])

(* A loop asks members of the partition that it sends them; that which       *)
(* dissolves it sends none.                                                  *)
GoodProcess(w) ==
  w.pc \notin {"idle", "starting", "computing"} =>
    /\ Sound(w.part)
    /\ w.pc # "dissolving" => Range(w.todo) \subseteq Range(w.part.nodes)

Here(n) == Booked(n) => Sound(current[n]) /\ n \in Range(current[n].nodes)

(* The loop of a merge reads currentPartition again for each member, while   *)
(* plans of the node may change it.                                          *)
MergeCovered(n) ==
  proc[Server(n)].pc = "merging" /\ Booked(n) =>
    Range(proc[Server(n)].todo) \subseteq Range(current[n].nodes)

MembersInv ==
  /\ \A n \in Nodes : Here(n)
  /\ GoodBox(inbox)
  /\ \A p \in Procs : GoodProcess(proc[p])
  /\ \A n \in Nodes : MergeCovered(n)
  /\ \A p \in Plans : proc[p].pc # "merging"

-----------------------------------------------------------------------------
(* The members of the partitions the actions make.                           *)

LEMMA JoinedMembers ==
  ASSUME NEW part \in Partition, NEW n \in Nodes, Sound(part)
  PROVE  Sound(Joined(n, part)) /\ n \in Range(Joined(n, part).nodes)
<1> DEFINE ns == <<n>> \o part.nodes
           v == part.version + 1
           new == [part EXCEPT !.leader = n, !.nodes = ns, !.state = "Growing", !.version = v]
<1>1. part.nodes \in Seq(Nodes)
  BY DEF Partition
<1>2. ns \in Seq(Nodes) /\ ns # <<>> /\ Head(ns) = n /\ n = ns[1] /\ 1 \in DOMAIN ns
  BY <1>1
<1>3. \A i \in DOMAIN part.nodes : i + 1 \in DOMAIN ns /\ ns[i + 1] = part.nodes[i]
  BY <1>1
<1>4. part.initiator \in Range(ns) /\ n \in Range(ns)
  BY <1>2, <1>3 DEF Sound, Range
<1> HIDE DEF ns, v
<1>5. new.leader = n /\ new.nodes = ns /\ new.initiator = part.initiator
  BY DEF Partition
<1>6. Joined(n, part) = new
  BY DEF Joined, ns, v
<1> HIDE DEF new
<1> QED BY <1>2, <1>4, <1>5, <1>6 DEF Sound

LEMMA ChangedMembers ==
  ASSUME NEW part \in Partition, NEW state
  PROVE  /\ Changed(part, state).nodes = part.nodes
         /\ Sound(part) => Sound(Changed(part, state))
<1> DEFINE v == part.version + 1
           new == [part EXCEPT !.state = state, !.version = v]
<1> HIDE DEF v
<1>1. new.leader = part.leader /\ new.nodes = part.nodes /\ new.initiator = part.initiator
  BY DEF Partition
<1>2. Changed(part, state) = new
  BY DEF Changed, v
<1> HIDE DEF new
<1> QED BY <1>1, <1>2 DEF Sound

LEMMA MergedMembers ==
  ASSUME NEW part \in Partition, NEW remote \in Seq(Nodes), NEW id, Sound(part),
         NEW n \in Range(part.nodes)
  PROVE  LET new == [part EXCEPT !.id = id, !.nodes = MergedWith(@, remote),
                                 !.state = "Growing", !.version = 0]
         IN Sound(new) /\ n \in Range(new.nodes)
<1> DEFINE ns == MergedWith(part.nodes, remote)
           new == [part EXCEPT !.id = id, !.nodes = ns, !.state = "Growing", !.version = 0]
<1>1. part.nodes \in Seq(Nodes) /\ part.nodes # <<>>
  BY DEF Partition, Sound
<1>2. ns \in Seq(Nodes) /\ ns # <<>> /\ Head(ns) = Head(part.nodes)
  BY <1>1 DEF MergedWith
<1>3. \A i \in DOMAIN part.nodes : i \in DOMAIN ns /\ ns[i] = part.nodes[i]
  BY <1>1 DEF MergedWith
<1>4. Range(part.nodes) \subseteq Range(ns)
  BY <1>3 DEF Range
<1> HIDE DEF ns
<1>5. new.leader = part.leader /\ new.nodes = ns /\ new.initiator = part.initiator
  BY DEF Partition
<1> HIDE DEF new
<1>6. Sound(new) /\ n \in Range(new.nodes)
  BY <1>2, <1>4, <1>5 DEF Sound
<1> QED BY <1>6 DEF new, ns

-----------------------------------------------------------------------------
(* Mailboxes.                                                                *)

LEMMA GoodSent ==
  ASSUME NEW box \in Box, GoodBox(box), NEW n \in Nodes, NEW m, GoodMessage(n, m)
  PROVE  GoodBox(Sent(box, n, m))
<1> SUFFICES ASSUME NEW o \in Nodes, NEW i \in DOMAIN Sent(box, n, m)[o]
             PROVE  GoodMessage(o, Sent(box, n, m)[o][i])
  BY DEF GoodBox
<1>1. CASE o # n
  BY <1>1 DEF Sent, Box, GoodBox
<1>2. CASE o = n
  <2> DEFINE s == box[n]
  <2>1. s \in Seq(Message) /\ Sent(box, n, m)[n] = Append(s, m)
    BY DEF Sent, Box
  <2>2. \A j \in DOMAIN s : GoodMessage(n, s[j])
    BY DEF GoodBox
  <2> HIDE DEF s
  <2>3. (i \in DOMAIN s /\ Append(s, m)[i] = s[i]) \/ Append(s, m)[i] = m
    BY <1>2, <2>1
  <2> QED BY <1>2, <2>1, <2>2, <2>3
<1> QED BY <1>1, <1>2

LEMMA GoodTaken ==
  ASSUME inbox \in Box, GoodBox(inbox), NEW n \in Nodes, inbox[n] # <<>>
  PROVE  GoodBox(Taken(n)) /\ GoodMessage(n, Head(inbox[n]))
<1>1. inbox[n] \in Seq(Message)
  BY DEF Box
<1>2. GoodMessage(n, Head(inbox[n]))
  BY <1>1 DEF GoodBox
<1>3. ASSUME NEW o \in Nodes, NEW i \in DOMAIN Taken(n)[o]
      PROVE  GoodMessage(o, Taken(n)[o][i])
  <2>1. CASE o # n
    BY <1>3, <2>1 DEF Taken, Box, GoodBox
  <2>2. CASE o = n
    <3>1. Taken(n)[n] = Tail(inbox[n])
      BY DEF Taken, Box
    <3>2. i + 1 \in DOMAIN inbox[n] /\ Tail(inbox[n])[i] = inbox[n][i + 1]
      BY <1>1, <1>3, <2>2, <3>1
    <3> QED BY <2>2, <3>1, <3>2 DEF GoodBox
  <2> QED BY <2>1, <2>2
<1> QED BY <1>2, <1>3 DEF GoodBox

LEMMA GoodDissolution ==
  ASSUME NEW n, NEW id
  PROVE  GoodMessage(n, Dissolution(id))
  BY DEF GoodMessage, Dissolution

LEMMA GoodSentAll ==
  ASSUME NEW box \in Box, GoodBox(box), NEW members \in Seq(Nodes), NEW R, NEW id
  PROVE  GoodBox(SentAll(box, members, R, Dissolution(id)))
<1> DEFINE m == Dissolution(id)
           same(n) == {i \in DOMAIN members : members[i] = n}
           copies(n) == IF n \in R THEN Cardinality(same(n)) ELSE 0
<1>1. ASSUME NEW n \in Nodes
      PROVE  copies(n) \in Nat
  <2>1. IsFiniteSet(1..Len(members))
    BY FS_Interval
  <2>2. same(n) \in SUBSET (1..Len(members))
    OBVIOUS
  <2>3. Cardinality(same(n)) \in Nat
    BY <2>1, <2>2, FS_Subset, FS_CardinalityType
  <2> QED BY <2>3
<1>2. SentAll(box, members, R, m) = [n \in Nodes |-> box[n] \o [i \in 1..copies(n) |-> m]]
  BY DEF SentAll
<1>3. \A n \in Nodes : GoodMessage(n, m)
  BY GoodDissolution
<1> HIDE DEF m, copies
<1>4. ASSUME NEW n \in Nodes, NEW i \in DOMAIN (box[n] \o [j \in 1..copies(n) |-> m])
      PROVE  GoodMessage(n, (box[n] \o [j \in 1..copies(n) |-> m])[i])
  <2> DEFINE s == box[n]
             t == [j \in 1..copies(n) |-> m]
             S == Message \cup {m}
  <2>1. s \in Seq(S) /\ t \in Seq(S) /\ Len(t) = copies(n)
    BY <1>1 DEF Box
  <2>2. \A j \in DOMAIN t : t[j] = m
    OBVIOUS
  <2>3. \A j \in DOMAIN s : GoodMessage(n, s[j])
    BY DEF GoodBox
  <2>4. i \in DOMAIN (s \o t)
    BY <1>4
  <2> HIDE DEF s, t
  <2>5. \/ i \in DOMAIN s /\ (s \o t)[i] = s[i]
        \/ i - Len(s) \in DOMAIN t /\ (s \o t)[i] = t[i - Len(s)]
    BY <2>1, <2>4
  <2>6. GoodMessage(n, (s \o t)[i])
    BY <1>3, <2>2, <2>3, <2>5
  <2> QED BY <2>6 DEF s, t
<1>5. GoodBox(SentAll(box, members, R, m))
  BY <1>2, <1>4 DEF GoodBox
<1> QED BY <1>5 DEF m

LEMMA GoodIsp ==
  ASSUME NEW n, NEW part, Sound(part), NEW client
  PROVE  GoodMessage(n, Isp(part, client))
  BY DEF GoodMessage, Isp

LEMMA GoodIspSent ==
  ASSUME NEW box \in Box, GoodBox(box), NEW part, Sound(part), NEW b \in IspSent(box, part)
  PROVE  GoodBox(b)
<1>1. \A f \in Nodes : GoodBox(Sent(box, f, Isp(part, Nobody)))
  BY GoodIsp, GoodSent
<1> QED BY <1>1 DEF IspSent

-----------------------------------------------------------------------------
(* Processes.                                                                *)

SameLoop(v, w) == v.pc = w.pc /\ v.part = w.part /\ v.todo = w.todo

LEMMA SameIsGood ==
  ASSUME NEW v, NEW w, SameLoop(v, w), GoodProcess(w)
  PROVE  GoodProcess(v)
  BY DEF SameLoop, GoodProcess

LEMMA RestIsGood ==
  ASSUME NEW w \in {Idle, Starting, Computing}
  PROVE  GoodProcess(w) /\ w.pc # "merging"
  BY DEF GoodProcess, Idle, Starting, Computing

LEMMA ReplySame ==
  ASSUME NEW procs \in ProcTable, NEW client \in Clients, NEW a \in {"yes", "no"},
         NEW p \in Procs
  PROVE  SameLoop(Replied(procs, client, a)[p], procs[p])
<1>1. ASSUME NEW w \in Process PROVE SameLoop([w EXCEPT !.answer = a], w)
  <2>1. CASE w \in Waits
    BY <2>1 DEF Waits, SameLoop
  <2>2. CASE w \in {Idle, Starting, Computing}
    <3>1. [w EXCEPT !.answer = a] = w
      BY <2>2 DEF Idle, Starting, Computing
    <3> QED BY <3>1 DEF SameLoop
  <2> QED BY <2>1, <2>2 DEF Process
<1>2. CASE client = Nobody
  BY <1>2 DEF Replied, SameLoop
<1>3. CASE client # Nobody /\ p # client
  BY <1>3 DEF Replied, ProcTable, SameLoop
<1>4. CASE client # Nobody /\ p = client
  <2>1. procs[client] \in Process
    BY <1>4 DEF ProcTable
  <2>2. Replied(procs, client, a)[p] = [procs[client] EXCEPT !.answer = a]
    BY <1>4 DEF Replied, ProcTable
  <2> QED BY <1>1, <1>4, <2>1, <2>2
<1> QED BY <1>2, <1>3, <1>4

(* A loop that asks members of a sound partition asks what is good. *)
LEMMA AskAllMembers ==
  ASSUME proc \in ProcTable, NEW p \in Procs, NEW w \in Waits, NEW box \in Box,
         AskAll(p, w, box), GoodBox(box), GoodProcess(w),
         w.pc \notin {"idle", "starting", "computing"}
  PROVE  /\ GoodBox(inbox') /\ GoodProcess(proc'[p])
         /\ proc'[p].pc = w.pc
         /\ Range(proc'[p].todo) \subseteq Range(w.todo)
         /\ \A q \in Procs \ {p} : proc'[q] = proc[q]
<1>0. w.todo \in Seq(Nodes)
  BY DEF Waits
<1>1. CASE proc' = [proc EXCEPT ![p] = [w EXCEPT !.answer = "yes"]] /\ inbox' = box
  <2> DEFINE v == [w EXCEPT !.answer = "yes"]
  <2>1. SameLoop(v, w)
    BY DEF Waits, SameLoop
  <2>2. proc'[p] = v
    BY <1>1 DEF ProcTable
  <2> HIDE DEF v
  <2> QED BY <1>1, <2>1, <2>2, SameIsGood, AskAllFrame DEF SameLoop
<1>2. ASSUME NEW i \in Left(p, w.todo),
             proc' = [proc EXCEPT ![p] = [w EXCEPT !.todo = SubSeq(@, i + 1, Len(@)),
                                                   !.asked = w.todo[i], !.answer = "pending"]],
             inbox' = Sent(box, w.todo[i], Request(p, w))
      PROVE  /\ GoodBox(inbox') /\ GoodProcess(proc'[p])
             /\ Range(proc'[p].todo) \subseteq Range(w.todo)
  <2> DEFINE rest == SubSeq(w.todo, i + 1, Len(w.todo))
             n == w.todo[i]
             v == [w EXCEPT !.todo = rest, !.asked = n, !.answer = "pending"]
  <2>1. proc'[p] = v
    BY <1>2 DEF ProcTable
  <2>2. i \in DOMAIN w.todo /\ n \in Nodes /\ n \in Range(w.todo)
    BY <1>0 DEF Left, Range
  <2>3. Range(rest) \subseteq Range(w.todo)
    <3>1. \A j \in DOMAIN rest : i + j \in DOMAIN w.todo /\ rest[j] = w.todo[i + j]
      BY <1>0, <2>2
    <3> QED BY <3>1 DEF Range
  <2>4. GoodMessage(n, Request(p, w))
    <3>1. CASE w.pc = "dissolving"
      BY <3>1 DEF Request, GoodMessage
    <3>2. CASE w.pc # "dissolving"
      BY <2>2, <3>2 DEF Request, GoodMessage, GoodProcess
    <3> QED BY <3>1, <3>2
  <2>5. GoodBox(inbox')
    BY <1>2, <2>2, <2>4, GoodSent
  <2> HIDE DEF rest, n
  <2>6. v.pc = w.pc /\ v.part = w.part /\ v.todo = rest
    BY DEF Waits
  <2> HIDE DEF v
  <2> QED BY <2>1, <2>3, <2>5, <2>6 DEF GoodProcess
<1> QED BY <1>1, <1>2, AskAllFrame DEF AskAll

(* A process that gives its node a sound partition, of which the node is a   *)
(* member, and the other members too.                                        *)
LEMMA UpdateAllMembers ==
  ASSUME proc \in ProcTable, current \in [Nodes -> Partition \cup {NoPartition}],
         NEW p \in Procs, NEW part \in Partition, NEW client \in Clients, NEW next \in Nodes,
         NEW pc \in {"joining", "blocking", "merging", "growing", "finishing", "confirming"},
         NEW box \in Box, UpdateAll(p, pc, part, box, client, next),
         GoodBox(box), Sound(part)
  PROVE  /\ GoodBox(inbox') /\ GoodProcess(proc'[p])
         /\ proc'[p].pc = pc
         /\ Range(proc'[p].todo) \subseteq Range(part.nodes)
         /\ \A q \in Procs \ {p} : proc'[q] = proc[q]
         /\ current' = [current EXCEPT ![p[1]] = part]
<1> DEFINE w == Waiting(pc, part, part.nodes, client, next)
<1>1. w \in Waits
  BY WaitingType DEF Partition
<1>2. w.pc = pc /\ w.part = part /\ w.todo = part.nodes
  BY DEF Waiting
<1>3. AskAll(p, w, box) /\ current' = [current EXCEPT ![p[1]] = part]
  BY DEF UpdateAll
<1> HIDE DEF w
<1>4. GoodProcess(w)
  BY <1>2 DEF GoodProcess
<1> QED BY <1>1, <1>2, <1>3, <1>4, AskAllMembers

-----------------------------------------------------------------------------
(* What a step of the server of n, or of a plan of n, leaves as it was.      *)

MembersFrame(n) ==
  /\ GoodBox(inbox')
  /\ \A q \in Procs : GoodProcess(proc'[q])
  /\ \A m \in Nodes \ {n} : /\ current'[m] = current[m]
                            /\ SameLoop(proc'[Server(m)], proc[Server(m)])
  /\ \A q \in Plans : proc'[q].pc # "merging"
  /\ Here(n)' /\ MergeCovered(n)'

LEMMA FrameKeepsMembers ==
  ASSUME MembersInv, NEW n \in Nodes, MembersFrame(n)
  PROVE  MembersInv'
<1>1. ASSUME NEW m \in Nodes \ {n}
      PROVE  Here(m)' /\ MergeCovered(m)'
  BY DEF MembersFrame, MembersInv, Here, MergeCovered, SameLoop, Booked
<1> QED BY <1>1 DEF MembersInv, MembersFrame

(* The server takes a message and replies to it at once. *)
LEMMA RepliedAtOnce ==
  ASSUME TypeOK, MembersInv, NEW n \in Nodes, Ready(n), NEW c \in Clients, NEW a \in {"yes", "no"},
         proc' = proc \/ proc' = Replied(proc, c, a), GoodBox(inbox'),
         \A m \in Nodes \ {n} : current'[m] = current[m], Here(n)'
  PROVE  MembersFrame(n)
<1>1. \A q \in Procs : SameLoop(proc'[q], proc[q])
  BY ReplySame, TypesOfState DEF SameLoop
<1>2. \A q \in Procs : GoodProcess(proc'[q]) /\ proc'[q].pc = proc[q].pc
  BY <1>1, SameIsGood DEF MembersInv, SameLoop
<1>3. Server(n) \in Procs /\ Plans \subseteq Procs
  BY ProcsFacts DEF Plans
<1>4. MergeCovered(n)'
  BY <1>2, <1>3, IdleServer DEF MergeCovered
<1> QED BY <1>1, <1>2, <1>3, <1>4, ProcsFacts DEF MembersFrame, MembersInv

LEMMA ReceivedIsGood ==
  ASSUME TypeOK, MembersInv, NEW n \in Nodes, NEW type, Receives(n, type)
  PROVE  /\ Ready(n) /\ GoodBox(Taken(n)) /\ Taken(n) \in Box
         /\ Head(inbox[n]) \in Message /\ Head(inbox[n]).client \in Clients
         /\ GoodMessage(n, Head(inbox[n])) /\ Head(inbox[n]).type = type
         /\ type \in {"isp", "set", "valid"} =>
              Head(inbox[n]).part \in Partition /\ Sound(Head(inbox[n]).part)
<1>1. inbox[n] # <<>> /\ Head(inbox[n]).type = type /\ Ready(n)
  BY DEF Receives
<1>2. GoodBox(Taken(n)) /\ GoodMessage(n, Head(inbox[n]))
  BY <1>1, TypesOfState, GoodTaken DEF MembersInv
<1> QED BY <1>1, <1>2, TypesOfState, HeadType DEF GoodMessage

LEMMA SameIsHere ==
  ASSUME MembersInv, NEW n \in Nodes, current'[n] = current[n] \/ ~Booked(n)'
  PROVE  Here(n)'
  BY DEF MembersInv, Here, Booked

LEMMA MessagesMembers ==
  ASSUME TypeOK, MembersInv, NEW n \in Nodes,
         IsStillValid(n) \/ Dissolve(n) \/ SetCurrentPartition(n) \/ DissolveBlocked(n)
           \/ NobodyOut(n)
  PROVE  MembersFrame(n)
<1> DEFINE m == Head(inbox[n])
<1>1. Ready(n) /\ GoodBox(Taken(n)) /\ m.client \in Clients
  BY ReceivedIsGood DEF IsStillValid, Dissolve, SetCurrentPartition, DissolveBlocked, NobodyOut
<1>2. inbox' = Taken(n)
  BY DEF IsStillValid, Dissolve, SetCurrentPartition, DissolveBlocked, NobodyOut
<1>3. \E a \in {"yes", "no"} : proc' = proc \/ proc' = Replied(proc, m.client, a)
  BY DEF IsStillValid, Dissolve, SetCurrentPartition, DissolveBlocked, NobodyOut
<1>4. \A o \in Nodes \ {n} : current'[o] = current[o]
  BY DEF IsStillValid, Dissolve, SetCurrentPartition, DissolveBlocked, NobodyOut, Dissolved,
         Updated, TypeOK
<1>5. Here(n)'
  <2>1. CASE SetCurrentPartition(n)
    <3>1. Sound(m.part) /\ n \in Range(m.part.nodes)
      BY <2>1, ReceivedIsGood DEF SetCurrentPartition, GoodMessage
    <3>2. current'[n] = current[n] \/ current'[n] = m.part
      BY <2>1 DEF SetCurrentPartition, Updated, TypeOK
    <3> HIDE DEF m
    <3> QED BY <3>1, <3>2, SameIsHere DEF Here
  <2>2. CASE IsStillValid(n) \/ Dissolve(n) \/ DissolveBlocked(n) \/ NobodyOut(n)
    <3>1. current'[n] = current[n] \/ ~Booked(n)'
      BY <2>2 DEF IsStillValid, Dissolve, DissolveBlocked, NobodyOut, Dissolved, Booked, TypeOK
    <3> QED BY <3>1, SameIsHere
  <2> QED BY <2>1, <2>2
<1> HIDE DEF m
<1> QED BY <1>1, <1>2, <1>3, <1>4, <1>5, RepliedAtOnce

LEMMA ForwardMembers ==
  ASSUME TypeOK, MembersInv, NEW n \in Nodes, NEW f \in Nodes, Forward(n, f)
  PROVE  MembersFrame(n)
<1> DEFINE m == Head(inbox[n])
<1>1. /\ Ready(n) /\ GoodBox(Taken(n)) /\ Taken(n) \in Box /\ m.client \in Clients
      /\ Sound(m.part)
  BY ReceivedIsGood DEF Forward
<1>2. /\ inbox' = Sent(Taken(n), f, Isp(m.part, Nobody)) /\ current' = current
      /\ proc' = Replied(proc, m.client, "yes")
  BY DEF Forward
<1> HIDE DEF m
<1>3. GoodBox(inbox')
  BY <1>1, <1>2, GoodSent, GoodIsp
<1> QED BY <1>1, <1>2, <1>3, SameIsHere, RepliedAtOnce

(* Only one process of n moves. *)
LEMMA OneMoves ==
  ASSUME TypeOK, MembersInv, NEW n \in Nodes, NEW p \in Procs, p[1] = n,
         \A q \in Procs \ {p} : proc'[q] = proc[q],
         GoodProcess(proc'[p]), p \in Plans => proc'[p].pc # "merging", GoodBox(inbox'),
         \A m \in Nodes \ {n} : current'[m] = current[m], Here(n)', MergeCovered(n)'
  PROVE  MembersFrame(n)
<1>1. ASSUME NEW m \in Nodes \ {n}
      PROVE  Server(m) \in Procs \ {p}
  <2>1. Server(m)[1] = m
    BY DEF Server
  <2> QED BY <2>1, ProcsFacts
<1>2. \A m \in Nodes \ {n} : SameLoop(proc'[Server(m)], proc[Server(m)])
  BY <1>1 DEF SameLoop
<1>3. \A q \in Plans : proc'[q].pc # "merging"
  BY ProcsFacts DEF MembersInv, Plans
<1> QED BY <1>2, <1>3 DEF MembersFrame, MembersInv

LEMMA IspWhenFreeMembers ==
  ASSUME TypeOK, MembersInv, NEW n \in Nodes, IspWhenFree(n)
  PROVE  MembersFrame(n)
<1> DEFINE m == Head(inbox[n])
           i == m.part.initiator
           p == Server(n)
           msg == [type |-> "valid", part |-> m.part, client |-> p]
           w == Waiting("validating", m.part, <<>>, m.client, i)
           v == [w EXCEPT !.answer = "pending"]
<1>1. GoodBox(Taken(n)) /\ Taken(n) \in Box /\ Sound(m.part) /\ i \in Nodes
  BY ReceivedIsGood DEF IspWhenFree, Partition
<1>2. p \in Procs /\ p[1] = n /\ p \notin Plans
  BY ProcsFacts DEF Server, Plans
<1>3. /\ inbox' = Sent(Taken(n), i, msg) /\ current' = current
      /\ proc' = [proc EXCEPT ![p] = v]
  BY DEF IspWhenFree
<1>4. GoodMessage(i, msg)
  BY <1>1 DEF GoodMessage
<1>5. v.pc = "validating" /\ v.part = m.part /\ v.todo = <<>>
  BY DEF Waiting
<1> HIDE DEF m, i, msg, v, p
<1>6. GoodBox(inbox')
  BY <1>1, <1>3, <1>4, GoodSent
<1>7. proc'[p] = v /\ \A q \in Procs \ {p} : proc'[q] = proc[q]
  BY <1>2, <1>3, TypesOfState DEF ProcTable
<1>8. GoodProcess(v)
  BY <1>1, <1>5 DEF GoodProcess, Range
<1>9. MergeCovered(n)'
  BY <1>5, <1>7 DEF MergeCovered, p
<1> QED BY <1>2, <1>3, <1>6, <1>7, <1>8, <1>9, OneMoves, SameIsHere

(* A process gives its node another partition, and tells the members. *)
LEMMA GivenToMembers ==
  ASSUME TypeOK, MembersInv, NEW p \in Procs, NEW part \in Partition, NEW client \in Clients,
         NEW next \in Nodes,
         NEW pc \in {"joining", "blocking", "merging", "growing", "finishing", "confirming"},
         NEW box \in Box, UpdateAll(p, pc, part, box, client, next), GoodBox(box),
         Sound(part), p[1] \in Range(part.nodes),
         \/ p = Server(p[1])
         \/ p \in Plans /\ pc # "merging" /\ part.nodes = current[p[1]].nodes /\ Booked(p[1])
  PROVE  MembersFrame(p[1])
<1> DEFINE n == p[1]
<1>0. proc \in ProcTable /\ current \in [Nodes -> Partition \cup {NoPartition}]
  BY TypesOfState
<1>1. /\ GoodBox(inbox') /\ GoodProcess(proc'[p]) /\ proc'[p].pc = pc
      /\ Range(proc'[p].todo) \subseteq Range(part.nodes)
      /\ \A q \in Procs \ {p} : proc'[q] = proc[q]
      /\ current' = [current EXCEPT ![p[1]] = part]
  BY <1>0, UpdateAllMembers, SMTT(60)
<1>2. n \in Nodes
  BY ProcsFacts
<1>3. current'[n] = part /\ \A m \in Nodes \ {n} : current'[m] = current[m]
  BY <1>1, <1>2 DEF TypeOK
<1>4. Here(n)'
  BY <1>3 DEF Here
<1>5. MergeCovered(n)'
  <2>1. CASE p = Server(n)
    BY <1>1, <1>3, <2>1 DEF MergeCovered
  <2>2. CASE p \in Plans /\ part.nodes = current[n].nodes /\ Booked(n)
    <3>1. proc'[Server(n)] = proc[Server(n)]
      BY <1>1, <1>2, <2>2, ProcsFacts DEF Plans
    <3> QED BY <1>2, <1>3, <2>2, <3>1 DEF MergeCovered, MembersInv
  <2> QED BY <2>1, <2>2
<1>6. p \in Plans => pc # "merging"
  BY ProcsFacts DEF Plans
<1> QED BY <1>1, <1>2, <1>3, <1>4, <1>5, <1>6, OneMoves

LEMMA JoinMembers ==
  ASSUME TypeOK, MembersInv, NEW n \in Nodes, Join(n)
  PROVE  MembersFrame(n)
<1> DEFINE p == Server(n)
           part == Joined(n, proc[p].part)
<1>1. p \in Procs /\ p[1] = n
  BY ProcsFacts DEF Server
<1>2. proc[p].part \in Partition /\ proc[p].client \in Clients /\ Sound(proc[p].part)
  BY <1>1, TypesOfState DEF Join, MembersInv, GoodProcess
<1>3. part \in Partition /\ Sound(part) /\ n \in Range(part.nodes)
  BY <1>2, JoinedType, JoinedMembers
<1>4. UpdateAll(p, "joining", part, inbox, proc[p].client, n)
  BY DEF Join
<1> HIDE DEF part
<1>5. inbox \in Box /\ GoodBox(inbox)
  BY TypesOfState DEF MembersInv
<1> QED BY <1>1, <1>2, <1>3, <1>4, <1>5, GivenToMembers

LEMMA IspBackMembers ==
  ASSUME TypeOK, MembersInv, NEW n \in Nodes, IspBack(n)
  PROVE  MembersFrame(n)
<1> DEFINE p == Server(n)
           c == Head(inbox[n]).client
           part == Changed(current[n], "Blocked")
<1>1. p \in Procs /\ p[1] = n /\ p = Server(n)
  BY ProcsFacts DEF Server
<1>2. c \in Clients /\ Taken(n) \in Box /\ GoodBox(Taken(n))
  BY ReceivedIsGood DEF IspBack
<1>3. current[n] \in Partition /\ Sound(current[n]) /\ n \in Range(current[n].nodes)
  BY TypesOfState DEF IspBack, MembersInv, Here
<1>4. part \in Partition /\ Sound(part) /\ n \in Range(part.nodes)
  BY <1>3, ChangedType, ChangedMembers DEF States
<1>5. UpdateAll(p, "blocking", part, Taken(n), c, n)
  BY DEF IspBack
<1> HIDE DEF part, c, p
<1> QED BY <1>1, <1>2, <1>4, <1>5, GivenToMembers

LEMMA MergeMembers ==
  ASSUME TypeOK, MembersInv, NEW n \in Nodes, Merge(n)
  PROVE  MembersFrame(n)
<1> DEFINE p == Server(n)
           m == Head(inbox[n])
<1>1. p \in Procs /\ p[1] = n /\ p = Server(n)
  BY ProcsFacts DEF Server
<1>2. m.client \in Clients /\ m.part \in Partition /\ Taken(n) \in Box /\ GoodBox(Taken(n))
  BY ReceivedIsGood DEF Merge
<1>3. current[n] \in Partition /\ Sound(current[n]) /\ n \in Range(current[n].nodes)
  BY TypesOfState, BlockedIsBooked DEF Merge, MembersInv, Here
<1> HIDE DEF m
<1>4. PICK id \in unused :
        UpdateAll(Server(n), "merging",
                  [current[n] EXCEPT !.id = id, !.nodes = MergedWith(@, m.part.nodes),
                                     !.state = "Growing", !.version = 0],
                  Taken(n), m.client, n)
  BY DEF Merge, m
<1> DEFINE part == [current[n] EXCEPT !.id = id, !.nodes = MergedWith(@, m.part.nodes),
                                      !.state = "Growing", !.version = 0]
<1>5. part \in Partition
  BY <1>2, <1>3, MergedPartitionType DEF TypeOK
<1>6. m.part.nodes \in Seq(Nodes)
  BY <1>2 DEF Partition
<1>7. Sound(part) /\ n \in Range(part.nodes)
  BY <1>3, <1>6, MergedMembers
<1>8. UpdateAll(p, "merging", part, Taken(n), m.client, n)
  BY <1>4
<1> HIDE DEF part, p
<1> QED BY <1>1, <1>2, <1>5, <1>7, <1>8, GivenToMembers

(* The server goes back to its mailbox, or on to the plan it computes itself. *)
LEMMA RepliesMembers ==
  ASSUME TypeOK, MembersInv, NEW n \in Nodes, current' = current, GoodBox(inbox'),
         proc[Server(n)] \in Waits, NEW procs \in ProcTable,
         procs[Server(n)] = Idle,
         \A q \in Procs \ {Server(n)} : procs[q] = proc[q] \/ procs[q] = Starting,
         \A m \in Nodes \ {n} : procs[Server(m)] = proc[Server(m)],
         proc' = Replied(procs, proc[Server(n)].client, "yes")
  PROVE  MembersFrame(n)
<1> DEFINE p == Server(n)
           c == proc[p].client
<1>1. p \in Procs /\ c \in Clients /\ Plans \subseteq Procs
  BY ProcsFacts DEF Waits, Plans
<1> HIDE DEF c
<1>2. proc' = Replied(procs, c, "yes")
  BY DEF c
<1>3. \A q \in Procs : SameLoop(proc'[q], procs[q])
  BY <1>1, <1>2, ReplySame
<1>4. \A q \in Procs : GoodProcess(procs[q])
  BY RestIsGood DEF MembersInv
<1>5. \A q \in Plans : procs[q].pc # "merging"
  BY <1>1, RestIsGood, ProcsFacts DEF MembersInv, Plans
<1>6. \A q \in Procs : GoodProcess(proc'[q]) /\ proc'[q].pc = procs[q].pc
  BY <1>3, <1>4, SameIsGood DEF SameLoop
<1>7. MergeCovered(n)'
  BY <1>1, <1>6, RestIsGood DEF MergeCovered
<1>8. Here(n)'
  BY SameIsHere
<1>9. \A m \in Nodes \ {n} : SameLoop(proc'[Server(m)], proc[Server(m)])
  BY <1>3, ProcsFacts DEF SameLoop
<1> QED BY <1>1, <1>5, <1>6, <1>7, <1>8, <1>9 DEF MembersFrame

LEMMA EndsMembers ==
  ASSUME TypeOK, MembersInv, NEW n \in Nodes,
         \/ \E k \in 1..MaxPlans : StartPlan(n, k)
         \/ Refuse(n) \/ EndBlocking(n)
  PROVE  MembersFrame(n)
<1> DEFINE p == Server(n)
           idle == [proc EXCEPT ![p] = Idle]
<1>1. p \in Procs /\ proc[p] \in Waits /\ current' = current /\ inbox' = inbox
  BY TypesOfState, ProcsFacts DEF StartPlan, Refuse, EndBlocking, Done
<1>2. /\ idle \in ProcTable /\ idle[p] = Idle
      /\ \A q \in Procs \ {p} : idle[q] = proc[q]
  BY <1>1, TypesOfState, SetProcType, IdleTypes DEF ProcTable
<1>3. \A m \in Nodes \ {n} : Server(m) \in Procs \ {p}
  BY ProcsFacts, ServersDiffer
<1>4. CASE Refuse(n) \/ EndBlocking(n)
  <2>1. proc' = Replied(idle, proc[p].client, "yes")
    BY <1>4 DEF Refuse, EndBlocking
  <2> HIDE DEF idle, p
  <2> QED BY <1>1, <1>2, <1>3, <2>1, RepliesMembers DEF MembersInv, p
<1>5. ASSUME NEW k \in 1..MaxPlans, StartPlan(n, k)
      PROVE  MembersFrame(n)
  <2> DEFINE new == [idle EXCEPT ![<<n, k>>] = Starting]
  <2>1. <<n, k>> \in Procs /\ \A m \in Nodes : <<n, k>> # Server(m)
    BY <1>5, ProcsFacts DEF Server
  <2>2. proc' = Replied(new, proc[p].client, "yes")
    BY <1>5 DEF StartPlan
  <2> HIDE DEF idle
  <2>3. /\ new \in ProcTable /\ new[p] = Idle
        /\ \A q \in Procs \ {p} : new[q] = proc[q] \/ new[q] = Starting
        /\ \A m \in Nodes \ {n} : new[Server(m)] = proc[Server(m)]
    BY <1>1, <1>2, <1>3, <2>1, SetProcType, IdleTypes DEF ProcTable
  <2> HIDE DEF new, p
  <2> QED BY <1>1, <2>2, <2>3, RepliesMembers DEF MembersInv, p
<1> QED BY <1>4, <1>5

LEMMA MergedStepMembers ==
  ASSUME TypeOK, MembersInv, NEW n \in Nodes, Merged(n)
  PROVE  MembersFrame(n)
<1> DEFINE p == Server(n)
           idle == [proc EXCEPT ![p] = Idle]
<1>1. /\ p \in Procs /\ p[1] = n /\ p \notin Plans
      /\ proc[p] \in Waits /\ proc[p].pc \in {"merging", "merged"} /\ current' = current
  BY TypesOfState, ProcsFacts DEF Merged, Done, Server, Plans
<1>2. current[n] \in Partition /\ current[n].nodes \in Seq(Nodes) /\ Sound(current[n])
  BY TypesOfState DEF Merged, Partition, MembersInv, Here
<1>3. inbox \in Box /\ GoodBox(inbox)
  BY TypesOfState DEF MembersInv
<1>4. CASE proc' = Replied(idle, proc[p].client, "yes") /\ GoodBox(inbox')
  <2>1. /\ idle \in ProcTable /\ idle[p] = Idle
        /\ \A q \in Procs \ {p} : idle[q] = proc[q]
    BY <1>1, TypesOfState, SetProcType, IdleTypes DEF ProcTable
  <2>2. \A m \in Nodes \ {n} : Server(m) \in Procs \ {p}
    BY ProcsFacts, ServersDiffer
  <2> HIDE DEF idle, p
  <2> QED BY <1>1, <1>4, <2>1, <2>2, RepliesMembers DEF p
<1>5. CASE /\ proc' = [proc EXCEPT ![p] = [proc[p] EXCEPT !.pc = "merged", !.answer = "pending"]]
           /\ inbox' = inbox
  <2> DEFINE v == [proc[p] EXCEPT !.pc = "merged", !.answer = "pending"]
  <2>1. v.pc = "merged" /\ v.part = proc[p].part /\ v.todo = proc[p].todo
    BY <1>1 DEF Waits
  <2> HIDE DEF v
  <2>2. proc'[p] = v /\ \A q \in Procs \ {p} : proc'[q] = proc[q]
    BY <1>1, <1>5, TypesOfState DEF ProcTable, v
  <2>3. GoodProcess(v)
    BY <1>1, <2>1 DEF GoodProcess, MembersInv
  <2>4. MergeCovered(n)'
    BY <2>1, <2>2 DEF MergeCovered
  <2> HIDE DEF p
  <2> QED BY <1>1, <1>3, <1>5, <2>2, <2>3, <2>4, OneMoves, SameIsHere
<1>6. \/ proc' = Replied(idle, proc[p].client, "yes") /\ GoodBox(inbox')
      \/ /\ proc' = [proc EXCEPT ![p] = [proc[p] EXCEPT !.pc = "merged", !.answer = "pending"]]
         /\ inbox' = inbox
  BY <1>2, <1>3, GoodSentAll, GoodIspSent DEF Merged
<1> QED BY <1>4, <1>5, <1>6

LEMMA ServerOrPlan ==
  ASSUME NEW p \in Procs
  PROVE  p[1] \in Nodes /\ (p = Server(p[1]) \/ p \in Plans) /\ Server(p[1]) \in Procs
BY PlansAssumption DEF Procs, Server, Plans, PlansAssumption

(* A loop goes on: that of a merge with the partition its node has by then.  *)
LEMMA AskNextMembers ==
  ASSUME TypeOK, MembersInv, NEW p \in Procs, AskNext(p)
  PROVE  MembersFrame(p[1])
<1> DEFINE n == p[1]
           v == [proc[p] EXCEPT !.part = current[n]]
<1>1. /\ n \in Nodes /\ proc[p] \in Waits /\ current' = current /\ GoodProcess(proc[p])
      /\ proc[p].pc \notin {"idle", "starting", "computing"}
      /\ inbox \in Box /\ GoodBox(inbox)
  BY TypesOfState, ServerOrPlan DEF AskNext, MembersInv
<1>2. ASSUME proc[p].pc \in {"merging", "dissolving"}, Booked(n)
      PROVE  /\ v \in Waits /\ v.pc = proc[p].pc /\ v.todo = proc[p].todo
             /\ GoodProcess(v)
  <2>1. current[n] \in Partition /\ Sound(current[n])
    BY <1>1, <1>2, TypesOfState DEF MembersInv, Here
  <2>2. v \in Waits /\ v.pc = proc[p].pc /\ v.todo = proc[p].todo /\ v.part = current[n]
    BY <1>1, <2>1 DEF Waits
  <2>3. proc[p].pc = "merging" => Range(proc[p].todo) \subseteq Range(current[n].nodes)
    BY <1>1, <1>2, ServerOrPlan DEF MembersInv, MergeCovered
  <2> HIDE DEF v
  <2> QED BY <1>2, <2>1, <2>2, <2>3 DEF GoodProcess
<1>3. PICK w \in Waits : /\ AskAll(p, w, inbox) /\ GoodProcess(w)
                         /\ w.pc = proc[p].pc /\ w.todo = proc[p].todo
  <2>1. CASE AskAll(p, proc[p], inbox)
    BY <1>1, <2>1
  <2>2. CASE /\ proc[p].pc \in {"merging", "dissolving"} /\ Booked(n)
             /\ AskAll(p, v, inbox)
    <3> HIDE DEF v
    <3> QED BY <1>2, <2>2
  <2> QED BY <2>1, <2>2 DEF AskNext
<1>4. /\ GoodBox(inbox') /\ GoodProcess(proc'[p]) /\ proc'[p].pc = proc[p].pc
      /\ Range(proc'[p].todo) \subseteq Range(proc[p].todo)
      /\ \A q \in Procs \ {p} : proc'[q] = proc[q]
  BY <1>1, <1>3, TypesOfState, AskAllMembers
<1>5. MergeCovered(n)'
  <2>1. CASE p = Server(n)
    BY <1>1, <1>4, <2>1 DEF MergeCovered, MembersInv, Booked
  <2>2. CASE p # Server(n)
    BY <1>1, <1>4, <2>2, ServerOrPlan DEF MergeCovered, MembersInv, Booked
  <2> QED BY <2>1, <2>2
<1>6. p \in Plans => proc'[p].pc # "merging"
  BY <1>4 DEF MembersInv
<1> QED BY <1>1, <1>4, <1>5, <1>6, OneMoves, SameIsHere

(* A process ends, or computes: it keeps no partition. *)
LEMMA RestMembers ==
  ASSUME TypeOK, MembersInv, NEW p \in Procs, NEW w \in {Idle, Starting, Computing},
         proc' = [proc EXCEPT ![p] = w], inbox' = inbox,
         \/ current' = current
         \/ current' = [current EXCEPT ![p[1]] = NoPartition]
  PROVE  MembersFrame(p[1])
<1> DEFINE n == p[1]
<1>1. n \in Nodes /\ GoodBox(inbox') /\ GoodProcess(w) /\ w.pc # "merging"
  BY ServerOrPlan, RestIsGood DEF MembersInv
<1>2. proc'[p] = w /\ \A q \in Procs \ {p} : proc'[q] = proc[q]
  BY TypesOfState DEF ProcTable
<1>3. /\ \A m \in Nodes \ {n} : current'[m] = current[m]
      /\ current'[n] = current[n] \/ ~Booked(n)'
  BY <1>1 DEF TypeOK, Booked
<1>4. MergeCovered(n)'
  <2>1. CASE p = Server(n)
    BY <1>1, <1>2, <2>1 DEF MergeCovered
  <2>2. CASE p # Server(n)
    BY <1>1, <1>2, <1>3, <2>2, ServerOrPlan DEF MergeCovered, MembersInv, Booked
  <2> QED BY <2>1, <2>2
<1> QED BY <1>1, <1>2, <1>3, <1>4, OneMoves, SameIsHere

LEMMA FailMembers ==
  ASSUME TypeOK, MembersInv, NEW p \in Procs, Fail(p) \/ DissolveSelf(p) \/ EndPlan(p)
  PROVE  MembersFrame(p[1])
BY RestMembers DEF Fail, DissolveSelf, EndPlan

LEMMA MonitorMembers ==
  ASSUME TypeOK, MembersInv, NEW n \in Nodes, OverloadingDetected(n) \/ CheckTimeout(n)
  PROVE  MembersFrame(n)
<1>1. proc' = proc /\ Ready(n) /\ \A m \in Nodes \ {n} : current'[m] = current[m]
  BY DEF OverloadingDetected, CheckTimeout, TypeOK
<1>2. inbox \in Box /\ GoodBox(inbox)
  BY TypesOfState DEF MembersInv
<1>3. GoodBox(inbox') /\ Here(n)'
  <2>1. CASE CheckTimeout(n)
    <3>1. current[n].nodes \in Seq(Nodes)
      BY <2>1, TypesOfState DEF CheckTimeout, Partition
    <3>2. GoodBox(inbox')
      BY <1>2, <2>1, <3>1, GoodSentAll DEF CheckTimeout
    <3>3. ~Booked(n)'
      BY <2>1 DEF CheckTimeout, Booked, TypeOK
    <3> QED BY <3>2, <3>3, SameIsHere
  <2>2. CASE OverloadingDetected(n)
    <3>1. PICK id \in unused :
            LET part == [id |-> id, leader |-> n, initiator |-> n, nodes |-> <<n>>,
                         state |-> "Growing", version |-> 0]
            IN /\ current' = [current EXCEPT ![n] = part]
               /\ inbox' \in IspSent(inbox, part)
      BY <2>2 DEF OverloadingDetected
    <3> DEFINE part == [id |-> id, leader |-> n, initiator |-> n, nodes |-> <<n>>,
                        state |-> "Growing", version |-> 0]
    <3>2. Sound(part) /\ n \in Range(part.nodes)
      BY DEF Sound, Range
    <3>3. current'[n] = part /\ inbox' \in IspSent(inbox, part)
      BY <3>1 DEF TypeOK
    <3> HIDE DEF part
    <3> QED BY <1>2, <3>2, <3>3, GoodIspSent DEF Here
  <2> QED BY <2>1, <2>2
<1>4. Nobody \in Clients
  BY ProcsFacts
<1> QED BY <1>1, <1>3, <1>4, RepliedAtOnce

-----------------------------------------------------------------------------
(* The plans.                                                                *)

LEMMA PlanFacts ==
  ASSUME TypeOK, MembersInv, NEW p \in Plans, Booked(p[1])
  PROVE  /\ p \in Procs /\ p[1] \in Nodes
         /\ current[p[1]] \in Partition /\ Sound(current[p[1]])
         /\ p[1] \in Range(current[p[1]].nodes)
         /\ inbox \in Box /\ GoodBox(inbox) /\ Nobody \in Clients
  BY TypesOfState, ProcsFacts DEF MembersInv, Here, Plans

(* A plan gives its node a new version of the partition it has. *)
LEMMA ChangedByPlan ==
  ASSUME TypeOK, MembersInv, NEW p \in Plans, Booked(p[1]), NEW part \in Partition,
         NEW next \in Nodes, NEW pc \in {"growing", "finishing", "confirming"},
         UpdateAll(p, pc, part, inbox, Nobody, next),
         Sound(part), part.nodes = current[p[1]].nodes
  PROVE  MembersFrame(p[1])
<1>1. /\ p \in Procs /\ inbox \in Box /\ GoodBox(inbox) /\ Nobody \in Clients
      /\ p[1] \in Range(part.nodes)
  BY PlanFacts
<1> QED BY <1>1, GivenToMembers

LEMMA NoSolutionMembers ==
  ASSUME TypeOK, MembersInv, NEW p \in Plans, NoSolution(p)
  PROVE  MembersFrame(p[1])
<1> DEFINE part == Changed(current[p[1]], "Growing")
<1>1. Booked(p[1]) /\ p \in Procs /\ current[p[1]] \in Partition /\ Sound(current[p[1]])
  BY PlanFacts DEF NoSolution
<1>2. CASE \E f \in FirstOut(p[1]) : UpdateAll(p, "growing", part, inbox, Nobody, f)
  <2>1. PICK f \in Nodes : UpdateAll(p, "growing", part, inbox, Nobody, f)
    BY <1>2 DEF FirstOut
  <2>2. part \in Partition /\ Sound(part) /\ part.nodes = current[p[1]].nodes
    BY <1>1, ChangedType, ChangedMembers DEF States
  <2> HIDE DEF part
  <2> QED BY <1>1, <2>1, <2>2, ChangedByPlan
<1>3. CASE proc' = [proc EXCEPT ![p] = Idle] /\ UNCHANGED <<current, inbox>>
  BY <1>1, <1>3, RestMembers
<1> QED BY <1>2, <1>3 DEF NoSolution

LEMMA ComputesMembers ==
  ASSUME TypeOK, MembersInv, NEW p \in Plans, Compute(p) \/ Computed(p)
  PROVE  MembersFrame(p[1])
<1>1. CASE NoSolution(p)
  BY <1>1, NoSolutionMembers
<1>2. CASE proc' = [proc EXCEPT ![p] = Computing] /\ UNCHANGED <<current, inbox>>
  BY <1>2, ProcsFacts, RestMembers DEF Plans
<1>3. CASE /\ Booked(p[1])
           /\ UpdateAll(p, "finishing", Changed(current[p[1]], "Finishing"), inbox, Nobody, p[1])
  <2> DEFINE part == Changed(current[p[1]], "Finishing")
  <2>1. current[p[1]] \in Partition /\ Sound(current[p[1]]) /\ p[1] \in Nodes
    BY <1>3, PlanFacts
  <2>2. part \in Partition /\ Sound(part) /\ part.nodes = current[p[1]].nodes
    BY <2>1, ChangedType, ChangedMembers DEF States
  <2>3. UpdateAll(p, "finishing", part, inbox, Nobody, p[1])
    BY <1>3
  <2> HIDE DEF part
  <2> QED BY <1>3, <2>1, <2>2, <2>3, ChangedByPlan
<1> QED BY <1>1, <1>2, <1>3 DEF Compute, Computed

LEMMA TransmitMembers ==
  ASSUME TypeOK, MembersInv, NEW p \in Plans, Transmit(p)
  PROVE  MembersFrame(p[1])
<1> DEFINE f == proc[p].next
           v == [proc[p] EXCEPT !.pc = "transmitting", !.asked = f, !.answer = "pending"]
<1>1. /\ p \in Procs /\ p[1] \in Nodes /\ Sound(current[p[1]])
      /\ inbox \in Box /\ GoodBox(inbox)
  BY PlanFacts DEF Transmit
<1>2. /\ proc[p] \in Waits /\ proc[p].pc = "growing" /\ f \in Nodes
      /\ GoodProcess(proc[p])
  BY <1>1, TypesOfState DEF Transmit, Done, MembersInv
<1>3. /\ inbox' = Sent(inbox, f, Isp(current[p[1]], p)) /\ current' = current
      /\ proc' = [proc EXCEPT ![p] = v]
  BY DEF Transmit
<1>4. GoodBox(inbox')
  BY <1>1, <1>2, <1>3, GoodSent, GoodIsp
<1>5. v.pc = "transmitting" /\ v.part = proc[p].part /\ v.todo = proc[p].todo
  BY <1>2 DEF Waits
<1> HIDE DEF v
<1>6. GoodProcess(v)
  BY <1>2, <1>5 DEF GoodProcess
<1>7. proc'[p] = v /\ \A q \in Procs \ {p} : proc'[q] = proc[q]
  BY <1>1, <1>3, TypesOfState DEF ProcTable
<1>8. Server(p[1]) \in Procs \ {p}
  BY ProcsFacts DEF Plans
<1>9. MergeCovered(p[1])'
  BY <1>1, <1>3, <1>7, <1>8 DEF MergeCovered, MembersInv, Booked
<1> QED BY <1>1, <1>3, <1>4, <1>5, <1>6, <1>7, <1>9, OneMoves, SameIsHere

LEMMA ConfirmMembers ==
  ASSUME TypeOK, MembersInv, NEW p \in Plans, Confirm(p)
  PROVE  MembersFrame(p[1])
<1>1. /\ Booked(p[1]) /\ p[1] \in Nodes
      /\ current[p[1]] \in Partition /\ Sound(current[p[1]])
  BY PlanFacts DEF Confirm
<1>2. UpdateAll(p, "confirming", current[p[1]], inbox, Nobody, p[1])
  BY DEF Confirm
<1> QED BY <1>1, <1>2, ChangedByPlan

LEMMA DissolveOthersMembers ==
  ASSUME TypeOK, MembersInv, NEW p \in Plans, DissolveOthers(p)
  PROVE  MembersFrame(p[1])
<1> DEFINE part == current[p[1]]
           w == Waiting("dissolving", part, part.nodes, Nobody, p[1])
<1>1. /\ p \in Procs /\ p[1] \in Nodes /\ part \in Partition /\ Sound(part)
      /\ inbox \in Box /\ GoodBox(inbox) /\ Nobody \in Clients
  BY PlanFacts DEF DissolveOthers
<1>2. w \in Waits
  BY <1>1, WaitingType DEF Partition
<1>3. w.pc = "dissolving" /\ w.part = part
  BY DEF Waiting
<1>4. AskAll(p, w, inbox) /\ current' = current
  BY DEF DissolveOthers
<1> HIDE DEF w, part
<1>5. GoodProcess(w)
  BY <1>1, <1>3 DEF GoodProcess
<1>6. /\ GoodBox(inbox') /\ GoodProcess(proc'[p]) /\ proc'[p].pc = "dissolving"
      /\ \A q \in Procs \ {p} : proc'[q] = proc[q]
  BY <1>1, <1>2, <1>3, <1>4, <1>5, TypesOfState, AskAllMembers
<1>7. Server(p[1]) \in Procs \ {p}
  BY ProcsFacts DEF Plans
<1>8. MergeCovered(p[1])'
  BY <1>1, <1>4, <1>6, <1>7 DEF MergeCovered, MembersInv, Booked
<1> QED BY <1>1, <1>4, <1>6, <1>8, OneMoves, SameIsHere

-----------------------------------------------------------------------------
LEMMA ServerStepMembers ==
  ASSUME TypeOK, MembersInv, NEW n \in Nodes,
         ServerStep(n) \/ OverloadingDetected(n) \/ CheckTimeout(n)
  PROVE  MembersFrame(n)
<1>1. CASE \/ IsStillValid(n) \/ Dissolve(n) \/ SetCurrentPartition(n)
           \/ DissolveBlocked(n) \/ NobodyOut(n)
  BY <1>1, MessagesMembers
<1>2. CASE IspWhenFree(n) \/ Join(n) \/ IspBack(n) \/ Merge(n) \/ Merged(n)
  BY <1>2, IspWhenFreeMembers, JoinMembers, IspBackMembers, MergeMembers, MergedStepMembers
<1>3. CASE (\E k \in 1..MaxPlans : StartPlan(n, k)) \/ Refuse(n) \/ EndBlocking(n)
  BY <1>3, EndsMembers
<1>4. CASE \E f \in Nodes : Forward(n, f)
  BY <1>4, ForwardMembers
<1>5. CASE AskNext(Server(n)) \/ Fail(Server(n))
  <2>1. Server(n) \in Procs /\ Server(n)[1] = n
    BY ProcsFacts DEF Server
  <2> QED BY <1>5, <2>1, AskNextMembers, FailMembers
<1>6. CASE OverloadingDetected(n) \/ CheckTimeout(n)
  BY <1>6, MonitorMembers
<1> QED BY <1>1, <1>2, <1>3, <1>4, <1>5, <1>6 DEF ServerStep

LEMMA PlanStepMembers ==
  ASSUME TypeOK, MembersInv, NEW p \in Plans, PlanStep(p)
  PROVE  MembersFrame(p[1])
<1>1. p \in Procs
  BY ProcsFacts DEF Plans
<1>2. CASE Compute(p) \/ Computed(p)
  BY <1>2, ComputesMembers
<1>3. CASE AskNext(p)
  BY <1>1, <1>3, AskNextMembers
<1>4. CASE Transmit(p) \/ Confirm(p) \/ DissolveOthers(p)
  BY <1>4, TransmitMembers, ConfirmMembers, DissolveOthersMembers
<1>5. CASE DissolveSelf(p) \/ EndPlan(p) \/ Fail(p)
  BY <1>1, <1>5, FailMembers
<1> QED BY <1>2, <1>3, <1>4, <1>5 DEF PlanStep

LEMMA MembersNext == TypeOK /\ MembersInv /\ [Next]_vars => MembersInv'
<1> SUFFICES ASSUME TypeOK, MembersInv, [Next]_vars PROVE MembersInv'
  OBVIOUS
<1>1. ASSUME NEW n \in Nodes, ServerStep(n) \/ OverloadingDetected(n) \/ CheckTimeout(n)
      PROVE  MembersInv'
  BY <1>1, ServerStepMembers, FrameKeepsMembers
<1>2. ASSUME NEW p \in Plans, PlanStep(p)
      PROVE  MembersInv'
  BY <1>2, PlanStepMembers, FrameKeepsMembers, ProcsFacts, ServerOrPlan DEF Plans
<1>3. CASE UNCHANGED vars
  BY <1>3 DEF vars, MembersInv, Here, MergeCovered, Booked, GoodBox
<1> QED BY <1>1, <1>2, <1>3 DEF Next, Plans

LEMMA MembersInit == Init => MembersInv
<1> SUFFICES ASSUME Init PROVE MembersInv
  OBVIOUS
<1>1. \A p \in Procs : proc[p] = Idle
  BY DEF Init
<1>2. \A p \in Procs : GoodProcess(proc[p]) /\ proc[p].pc # "merging"
  BY <1>1, RestIsGood
<1>3. GoodBox(inbox) /\ \A n \in Nodes : ~Booked(n)
  BY DEF Init, GoodBox, Booked
<1> QED BY <1>2, <1>3, ProcsFacts DEF MembersInv, Here, MergeCovered, Plans

(* Whatever partition a node is in, and however old the message it took it   *)
(* from, the node is a member of it, the last node to join leads it, and the *)
(* initiator, which decides whether an ISP is still valid, is still in it.   *)
THEOREM MembersCorrect == Spec => []MembersStay
<1>1. MembersInv => MembersStay
  BY DEF MembersInv, Here, Sound, MembersStay
<1> QED BY <1>1, MembersInit, MembersNext, TypeCorrect, PTL DEF Spec

-----------------------------------------------------------------------------
(* Replies.  A process asks one node at a time, so that it has one request   *)
(* out while it waits and none otherwise; what makes the proof long is that  *)
(* a server keeps a client while it asks other nodes itself.                 *)

Asks(w, n) ==
  /\ w.pc \notin {"idle", "starting", "computing", "merged"}
  /\ w.answer = "pending" /\ w.asked = n

(* RepliesAreAwaited, of any mailboxes and processes. *)
MailAwaited(box, procs) ==
  \A n \in Nodes : \A i \in DOMAIN box[n] :
    LET c == box[n][i].client
    IN c # Nobody => /\ Asks(procs[c], n)
                     /\ \A j \in DOMAIN box[n] \ {i} : box[n][j].client # c

HeldAwaited(box, procs) ==
  \A n \in Nodes :
    LET w == procs[Server(n)]
    IN w # Idle =>
         /\ w \in Waits
         /\ w.client # Nobody =>
              /\ Asks(procs[w.client], n)
              /\ \A i \in DOMAIN box[n] : box[n][i].client # w.client

Awaited(box, procs) == MailAwaited(box, procs) /\ HeldAwaited(box, procs)

(* No request of c is in a mailbox or kept by a server. *)
Free(box, procs, c) ==
  \A n \in Nodes :
    /\ \A i \in DOMAIN box[n] : box[n][i].client # c
    /\ procs[Server(n)] # Idle => procs[Server(n)].client # c

-----------------------------------------------------------------------------
LEMMA ClientTypes ==
  ASSUME NEW box \in Box, NEW n \in Nodes, NEW i \in DOMAIN box[n]
  PROVE  box[n][i] \in Message /\ box[n][i].client \in Clients
<1>1. box[n] \in Seq(Message)
  BY DEF Box
<1>2. box[n][i] \in Message
  BY <1>1
<1> QED BY <1>2 DEF Message

LEMMA ProcessIsIdleOrWaits ==
  ASSUME NEW w \in Process
  PROVE  /\ w \in Waits <=> w \notin {Idle, Starting, Computing}
         /\ \A n : Asks(w, n) => w \in Waits /\ w # Idle
         /\ w = Idle => \A n : ~Asks(w, n)
         /\ w = Starting => \A n : ~Asks(w, n)
         /\ w = Computing => \A n : ~Asks(w, n)
  BY DEF Process, Waits, Idle, Starting, Computing, Asks

LEMMA NotAskingIsFree ==
  ASSUME NEW box, NEW procs, Awaited(box, procs), NEW c, c # Nobody,
         \A n \in Nodes : ~Asks(procs[c], n)
  PROVE  Free(box, procs, c)
  BY DEF Awaited, MailAwaited, HeldAwaited, Free

(* A process that has no request out may do anything, but a server keeps     *)
(* its client until it replies.                                              *)
LEMMA FreeChange ==
  ASSUME NEW box \in Box, NEW procs \in ProcTable, Awaited(box, procs),
         NEW p \in Procs, Free(box, procs, p), NEW w \in Process,
         \/ w = Idle
         \/ p \in Plans
         \/ procs[p] # Idle /\ w \in Waits /\ w.client = procs[p].client
  PROVE  /\ Awaited(box, [procs EXCEPT ![p] = w])
         /\ Free(box, [procs EXCEPT ![p] = w], p)
<1> DEFINE new == [procs EXCEPT ![p] = w]
<1>1. new[p] = w /\ \A q \in Procs \ {p} : new[q] = procs[q]
  BY DEF ProcTable
<1>2. \A n \in Nodes : Server(n) \in Procs /\ Server(n) \notin Plans
  BY ProcsFacts DEF Plans, Server
<1> HIDE DEF new
<1>3. MailAwaited(box, new)
  <2> SUFFICES ASSUME NEW n \in Nodes, NEW i \in DOMAIN box[n], box[n][i].client # Nobody
               PROVE  LET c == box[n][i].client
                      IN /\ Asks(new[c], n)
                         /\ \A j \in DOMAIN box[n] \ {i} : box[n][j].client # c
    BY DEF MailAwaited
  <2>1. box[n][i].client \in Procs \ {p}
    BY ClientTypes DEF Clients, Free
  <2> QED BY <1>1, <2>1 DEF Awaited, MailAwaited
<1>4. ASSUME NEW n \in Nodes, new[Server(n)] # Idle
      PROVE  LET v == new[Server(n)]
             IN /\ v \in Waits /\ v.client # p
                /\ v.client # Nobody =>
                     /\ Asks(new[v.client], n)
                     /\ \A i \in DOMAIN box[n] : box[n][i].client # v.client
  <2> DEFINE v == new[Server(n)]
             u == procs[Server(n)]
  <2>1. u # Idle /\ v \in Waits /\ v.client = u.client
    BY <1>1, <1>2, <1>4 DEF Awaited, HeldAwaited
  <2>2. u.client # p /\ u \in Waits
    BY <2>1 DEF Awaited, HeldAwaited, Free
  <2>3. u.client \in Clients
    BY <2>2 DEF Waits
  <2>4. u.client # Nobody => new[u.client] = procs[u.client]
    BY <1>1, <2>2, <2>3 DEF Clients
  <2> HIDE DEF v
  <2>5. v.client # Nobody =>
          /\ Asks(new[v.client], n)
          /\ \A i \in DOMAIN box[n] : box[n][i].client # v.client
    BY <2>1, <2>4 DEF Awaited, HeldAwaited
  <2> QED BY <2>1, <2>2, <2>5 DEF v
<1>5. HeldAwaited(box, new)
  BY <1>4 DEF HeldAwaited
<1>6. Free(box, new, p)
  BY <1>4 DEF Free
<1> QED BY <1>3, <1>5, <1>6 DEF Awaited, new

(* The reply to a process whose request is no longer kept. *)
LEMMA FreeReply ==
  ASSUME NEW box \in Box, NEW procs \in ProcTable, Awaited(box, procs),
         NEW c \in Clients, NEW a \in {"yes", "no"}, NEW n,
         c # Nobody => Free(box, procs, c) /\ Asks(procs[c], n)
  PROVE  Awaited(box, Replied(procs, c, a))
<1>1. CASE c = Nobody
  BY <1>1 DEF Replied
<1>2. CASE c # Nobody
  <2> DEFINE w == [procs[c] EXCEPT !.answer = a]
  <2>1. c \in Procs /\ procs[c] \in Process
    BY <1>2 DEF Clients, ProcTable
  <2>2. procs[c] \in Waits /\ procs[c] # Idle
    BY <1>2, <2>1, ProcessIsIdleOrWaits
  <2>3. w \in Waits /\ w.client = procs[c].client
    BY <2>2 DEF Waits
  <2>4. Replied(procs, c, a) = [procs EXCEPT ![c] = w]
    BY <1>2, <2>1 DEF Replied, ProcTable
  <2> HIDE DEF w
  <2>5. w \in Process
    BY <2>3 DEF Process
  <2>6. Awaited(box, [procs EXCEPT ![c] = w])
    BY <1>2, <2>1, <2>2, <2>3, <2>5, FreeChange
  <2> QED BY <2>4, <2>6
<1> QED BY <1>1, <1>2

(* A server that waits for nothing replies to its client. *)
LEMMA ServerReplies ==
  ASSUME NEW box \in Box, NEW procs \in ProcTable, Awaited(box, procs), NEW n \in Nodes,
         procs[Server(n)] # Idle, \A m \in Nodes : ~Asks(procs[Server(n)], m)
  PROVE  Awaited(box, Replied([procs EXCEPT ![Server(n)] = Idle],
                              procs[Server(n)].client, "yes"))
<1> DEFINE p == Server(n)
           c == procs[p].client
           idle == [procs EXCEPT ![p] = Idle]
<1>1. p \in Procs /\ p # Nobody
  BY ProcsFacts DEF Server, Nobody
<1>2. Free(box, procs, p)
  BY <1>1, NotAskingIsFree
<1>3. Awaited(box, idle) /\ idle \in ProcTable
  BY <1>1, <1>2, FreeChange, SetProcType, IdleTypes
<1>4. procs[p] \in Waits /\ c \in Clients
  BY DEF Awaited, HeldAwaited, Waits
<1>5. ASSUME c # Nobody
      PROVE  Asks(idle[c], n) /\ Free(box, idle, c)
  <2>1. /\ Asks(procs[c], n) /\ c # p
        /\ \A i \in DOMAIN box[n] : box[n][i].client # c
    BY <1>2, <1>5 DEF Awaited, HeldAwaited, Free
  <2>2. idle[c] = procs[c] /\ idle[p] = Idle
    BY <1>1, <1>4, <1>5, <2>1 DEF Clients, ProcTable
  <2> HIDE DEF idle, c
  <2>3. \A m \in Nodes \ {n} : ~Asks(idle[c], m)
    BY <2>1, <2>2 DEF Asks
  <2>4. \A m \in Nodes \ {n} : /\ \A i \in DOMAIN box[m] : box[m][i].client # c
                               /\ idle[Server(m)] # Idle => idle[Server(m)].client # c
    BY <1>3, <1>5, <2>3 DEF Awaited, MailAwaited, HeldAwaited
  <2> QED BY <2>1, <2>2, <2>4 DEF Free
<1> HIDE DEF c, idle
<1>6. Awaited(box, Replied(idle, c, "yes"))
  BY <1>3, <1>4, <1>5, FreeReply DEF c
<1> QED BY <1>6 DEF c, idle

-----------------------------------------------------------------------------
(* Mailboxes.                                                                *)

(* Messages that nobody waits for. *)
LEMMA MoreMail ==
  ASSUME NEW box \in Box, NEW new \in Box, NEW procs, Awaited(box, procs),
         \A n \in Nodes : \A i \in DOMAIN new[n] :
           \/ i \in DOMAIN box[n] /\ new[n][i] = box[n][i]
           \/ new[n][i].client = Nobody
  PROVE  Awaited(new, procs)
<1>1. MailAwaited(new, procs)
  BY DEF Awaited, MailAwaited
<1>2. HeldAwaited(new, procs)
  <2> SUFFICES ASSUME NEW n \in Nodes, procs[Server(n)] # Idle,
                      procs[Server(n)].client # Nobody, NEW i \in DOMAIN new[n]
               PROVE  new[n][i].client # procs[Server(n)].client
    BY DEF Awaited, HeldAwaited
  <2> QED BY DEF Awaited, HeldAwaited
<1> QED BY <1>1, <1>2 DEF Awaited

LEMMA NobodysMail ==
  ASSUME NEW box \in Box, NEW procs, Awaited(box, procs), NEW n \in Nodes,
         NEW m \in Message, m.client = Nobody
  PROVE  Awaited(Sent(box, n, m), procs)
<1>1. Sent(box, n, m) \in Box
  BY SentType
<1>2. ASSUME NEW o \in Nodes, NEW i \in DOMAIN Sent(box, n, m)[o]
      PROVE  \/ i \in DOMAIN box[o] /\ Sent(box, n, m)[o][i] = box[o][i]
             \/ Sent(box, n, m)[o][i].client = Nobody
  <2>1. CASE o # n
    BY <1>2, <2>1 DEF Sent, Box
  <2>2. CASE o = n
    <3> DEFINE s == box[n]
    <3>1. s \in Seq(Message) /\ Sent(box, n, m)[n] = Append(s, m)
      BY DEF Sent, Box
    <3> HIDE DEF s
    <3>2. (i \in DOMAIN s /\ Append(s, m)[i] = s[i]) \/ Append(s, m)[i] = m
      BY <1>2, <2>2, <3>1
    <3> QED BY <2>2, <3>1, <3>2 DEF s
  <2> QED BY <2>1, <2>2
<1> QED BY <1>1, <1>2, MoreMail

LEMMA DissolutionsMail ==
  ASSUME NEW box \in Box, NEW procs, Awaited(box, procs), NEW members \in Seq(Nodes),
         NEW R, NEW id \in Ids
  PROVE  Awaited(SentAll(box, members, R, Dissolution(id)), procs)
<1> DEFINE m == Dissolution(id)
           new == SentAll(box, members, R, m)
           same(n) == {i \in DOMAIN members : members[i] = n}
           copies(n) == IF n \in R THEN Cardinality(same(n)) ELSE 0
<1>1. ASSUME NEW n \in Nodes
      PROVE  copies(n) \in Nat
  <2>1. IsFiniteSet(1..Len(members))
    BY FS_Interval
  <2>2. same(n) \in SUBSET (1..Len(members))
    OBVIOUS
  <2>3. Cardinality(same(n)) \in Nat
    BY <2>1, <2>2, FS_Subset, FS_CardinalityType
  <2> QED BY <2>3
<1>2. m \in Message /\ m.client = Nobody
  BY ProcsFacts DEF Dissolution, Message
<1>3. new \in Box
  BY <1>2, SentAllType
<1>4. \A n \in Nodes : new[n] = box[n] \o [i \in 1..copies(n) |-> m]
  BY DEF SentAll
<1> HIDE DEF m, copies, new
<1>5. ASSUME NEW n \in Nodes, NEW i \in DOMAIN new[n]
      PROVE  \/ i \in DOMAIN box[n] /\ new[n][i] = box[n][i]
             \/ new[n][i].client = Nobody
  <2> DEFINE s == box[n]
             t == [j \in 1..copies(n) |-> m]
  <2>1. s \in Seq(Message) /\ t \in Seq(Message) /\ new[n] = s \o t
    <3>1. s \in Seq(Message)
      BY DEF Box
    <3>2. t \in Seq(Message)
      BY <1>1, <1>2
    <3> QED BY <1>4, <3>1, <3>2
  <2>2. \A j \in DOMAIN t : t[j] = m
    OBVIOUS
  <2> HIDE DEF s, t
  <2>3. \/ i \in DOMAIN s /\ (s \o t)[i] = s[i]
        \/ i - Len(s) \in DOMAIN t /\ (s \o t)[i] = t[i - Len(s)]
    BY <1>5, <2>1
  <2> QED BY <1>2, <2>1, <2>2, <2>3 DEF s
<1>6. Awaited(new, procs)
  BY <1>3, <1>5, MoreMail
<1> QED BY <1>6 DEF new, m

LEMMA NobodysIsp ==
  ASSUME NEW part \in Partition
  PROVE  Isp(part, Nobody) \in Message /\ Isp(part, Nobody).client = Nobody
  BY ProcsFacts DEF Isp, Message

LEMMA IspMail ==
  ASSUME NEW box \in Box, NEW procs, Awaited(box, procs), NEW part \in Partition,
         NEW b \in IspSent(box, part)
  PROVE  Awaited(b, procs)
<1>1. \A f \in Nodes : Awaited(Sent(box, f, Isp(part, Nobody)), procs)
  BY NobodysIsp, NobodysMail
<1> QED BY <1>1 DEF IspSent

(* The one request of a process that now waits. *)
LEMMA RequestMail ==
  ASSUME NEW box \in Box, NEW procs, Awaited(box, procs), NEW p \in Procs,
         Free(box, procs, p), NEW n \in Nodes, Asks(procs[p], n),
         NEW m, m.client = p
  PROVE  Awaited(Sent(box, n, m), procs)
<1> DEFINE new == Sent(box, n, m)
<1>1. ASSUME NEW o \in Nodes, NEW i \in DOMAIN new[o]
      PROVE  \/ i \in DOMAIN box[o] /\ new[o][i] = box[o][i]
             \/ o = n /\ i = Len(box[n]) + 1 /\ i \notin DOMAIN box[n] /\ new[o][i] = m
  <2>1. CASE o # n
    BY <1>1, <2>1 DEF Sent, Box
  <2>2. CASE o = n
    <3> DEFINE s == box[n]
    <3>1. s \in Seq(Message) /\ new[n] = Append(s, m)
      BY DEF Sent, Box
    <3> HIDE DEF s, new
    <3>2. \/ i \in DOMAIN s /\ new[n][i] = s[i]
          \/ i = Len(s) + 1 /\ i \notin DOMAIN s /\ new[n][i] = m
      BY <1>1, <2>2, <3>1
    <3> QED BY <2>2, <3>2 DEF s
  <2> QED BY <2>1, <2>2
<1> HIDE DEF new
<1>2. MailAwaited(new, procs)
  <2> SUFFICES ASSUME NEW o \in Nodes, NEW i \in DOMAIN new[o], new[o][i].client # Nobody
               PROVE  /\ Asks(procs[new[o][i].client], o)
                      /\ \A j \in DOMAIN new[o] \ {i} : new[o][j].client # new[o][i].client
    BY DEF MailAwaited
  <2>1. CASE i \in DOMAIN box[o] /\ new[o][i] = box[o][i]
    <3>1. new[o][i].client # p
      BY <2>1 DEF Free
    <3> QED BY <1>1, <2>1, <3>1 DEF Awaited, MailAwaited
  <2>2. CASE o = n /\ i = Len(box[n]) + 1 /\ new[o][i] = m
    <3>1. ASSUME NEW j \in DOMAIN new[o] \ {i} PROVE new[o][j].client # p
      BY <1>1, <2>2, <3>1 DEF Free
    <3> QED BY <2>2, <3>1
  <2> QED BY <1>1, <2>1, <2>2
<1>3. HeldAwaited(new, procs)
  <2> SUFFICES ASSUME NEW o \in Nodes, procs[Server(o)] # Idle,
                      procs[Server(o)].client # Nobody, NEW i \in DOMAIN new[o]
               PROVE  new[o][i].client # procs[Server(o)].client
    BY DEF Awaited, HeldAwaited
  <2> QED BY <1>1 DEF Awaited, HeldAwaited, Free
<1> QED BY <1>2, <1>3 DEF Awaited, new

(* A loop, started or gone on with by a process that waits for nothing. *)
LEMMA AskAllAwaited ==
  ASSUME proc \in ProcTable, NEW p \in Procs, NEW w \in Waits, NEW box \in Box,
         AskAll(p, w, box),
         w.pc \notin {"idle", "starting", "computing", "merged"},
         Awaited(box, [proc EXCEPT ![p] = w]), Free(box, [proc EXCEPT ![p] = w], p)
  PROVE  Awaited(inbox', proc')
<1> DEFINE procs == [proc EXCEPT ![p] = w]
<1>0. /\ procs \in ProcTable /\ procs[p] = w /\ w \in Process /\ w # Idle
      /\ w.todo \in Seq(Nodes)
  BY ProcessIsIdleOrWaits DEF ProcTable, Process, Waits, Idle
<1>1. CASE proc' = [proc EXCEPT ![p] = [w EXCEPT !.answer = "yes"]] /\ inbox' = box
  <2> DEFINE v == [w EXCEPT !.answer = "yes"]
  <2>1. v \in Waits /\ v \in Process /\ v.client = w.client
    BY DEF Waits, Process
  <2> HIDE DEF v
  <2>2. [procs EXCEPT ![p] = v] = [proc EXCEPT ![p] = v]
    BY DEF ProcTable
  <2> HIDE DEF procs
  <2>3. Awaited(box, [procs EXCEPT ![p] = v])
    BY <1>0, <2>1, FreeChange DEF procs
  <2> QED BY <1>1, <2>2, <2>3 DEF v
<1>2. ASSUME NEW i \in Left(p, w.todo),
             proc' = [proc EXCEPT ![p] = [w EXCEPT !.todo = SubSeq(@, i + 1, Len(@)),
                                                   !.asked = w.todo[i], !.answer = "pending"]],
             inbox' = Sent(box, w.todo[i], Request(p, w))
      PROVE  Awaited(inbox', proc')
  <2> DEFINE rest == SubSeq(w.todo, i + 1, Len(w.todo))
             n == w.todo[i]
             v == [w EXCEPT !.todo = rest, !.asked = n, !.answer = "pending"]
  <2>1. rest \in Seq(Nodes) /\ n \in Nodes
    <3>1. i \in DOMAIN w.todo
      BY DEF Left
    <3>2. i + 1 \in Int /\ Len(w.todo) \in Int /\ \A j \in (i + 1)..Len(w.todo) : w.todo[j] \in Nodes
      BY <1>0, <3>1
    <3> QED BY <1>0, <3>1, <3>2, SubSeqProperties
  <2>2. proc' = [proc EXCEPT ![p] = v] /\ inbox' = Sent(box, n, Request(p, w))
    BY <1>2
  <2> HIDE DEF rest, n
  <2>3. /\ v \in Waits /\ v \in Process /\ v.client = w.client
        /\ v.pc = w.pc /\ v.answer = "pending" /\ v.asked = n
    BY <2>1 DEF Waits, Process
  <2> HIDE DEF v
  <2>4. [procs EXCEPT ![p] = v] = [proc EXCEPT ![p] = v] /\ proc'[p] = v
    BY <2>2 DEF ProcTable
  <2> HIDE DEF procs
  <2>5. Awaited(box, [procs EXCEPT ![p] = v]) /\ Free(box, [procs EXCEPT ![p] = v], p)
    BY <1>0, <2>3, FreeChange DEF procs
  <2>6. Awaited(box, proc') /\ Free(box, proc', p)
    BY <2>2, <2>4, <2>5
  <2>7. Request(p, w).client = p
    BY DEF Request
  <2>8. Asks(proc'[p], n)
    BY <2>3, <2>4 DEF Asks
  <2> QED BY <2>1, <2>2, <2>6, <2>7, <2>8, RequestMail
<1> QED BY <1>1, <1>2 DEF AskAll

LEMMA UpdateAllAwaited ==
  ASSUME proc \in ProcTable, NEW p \in Procs, NEW part \in Partition, NEW client \in Clients,
         NEW next \in Nodes,
         NEW pc \in {"joining", "blocking", "merging", "growing", "finishing", "confirming"},
         NEW box \in Box, UpdateAll(p, pc, part, box, client, next),
         \A w \in Waits : w.client = client =>
           Awaited(box, [proc EXCEPT ![p] = w]) /\ Free(box, [proc EXCEPT ![p] = w], p)
  PROVE  Awaited(inbox', proc')
<1> DEFINE w == Waiting(pc, part, part.nodes, client, next)
<1>1. w \in Waits
  BY WaitingType DEF Partition
<1>2. w.pc = pc /\ w.client = client
  BY DEF Waiting
<1>3. AskAll(p, w, box)
  BY DEF UpdateAll
<1> HIDE DEF w
<1> QED BY <1>1, <1>2, <1>3, AskAllAwaited

-----------------------------------------------------------------------------
(* The server.                                                               *)

LEMMA TakenAwaited ==
  ASSUME TypeOK, Awaited(inbox, proc), NEW n \in Nodes, NEW type, Receives(n, type)
  PROVE  LET m == Head(inbox[n])
         IN /\ Awaited(Taken(n), proc) /\ Taken(n) \in Box
            /\ m \in Message /\ m.client \in Clients
            /\ type \in {"isp", "set", "valid"} => m.part \in Partition
            /\ m.client # Nobody => Asks(proc[m.client], n) /\ Free(Taken(n), proc, m.client)
            /\ proc[Server(n)] = Idle
<1> DEFINE m == Head(inbox[n])
           c == m.client
           new == Taken(n)
<1>1. /\ inbox \in Box /\ new \in Box /\ m \in Message /\ c \in Clients
      /\ type \in {"isp", "set", "valid"} => m.part \in Partition
      /\ proc[Server(n)] = Idle
  BY TypesOfState, HeadType, IdleServer DEF Receives
<1>2. inbox[n] \in Seq(Message) /\ inbox[n] # <<>>
  BY <1>1 DEF Box, Receives
<1>3. 1 \in DOMAIN inbox[n] /\ m = inbox[n][1]
  BY <1>2
<1>4. ASSUME NEW o \in Nodes, NEW i \in DOMAIN new[o]
      PROVE  \/ o # n /\ i \in DOMAIN inbox[o] /\ new[o][i] = inbox[o][i]
             \/ /\ o = n /\ i \in Int /\ i + 1 \in DOMAIN inbox[n] \ {1}
                /\ new[n][i] = inbox[n][i + 1]
  <2>1. CASE o # n
    BY <1>1, <1>4, <2>1 DEF Taken, Box
  <2>2. CASE o = n
    <3> DEFINE s == inbox[n]
    <3>1. new[n] = Tail(s) /\ s \in Seq(Message) /\ s # <<>>
      BY <1>1, <1>2 DEF Taken, Box
    <3> HIDE DEF s, new
    <3>2. i \in Int /\ i + 1 \in DOMAIN s \ {1} /\ new[n][i] = s[i + 1]
      BY <1>4, <2>2, <3>1
    <3> QED BY <2>2, <3>2 DEF s
  <2> QED BY <2>1, <2>2
<1> HIDE DEF m, new
<1>5. MailAwaited(new, proc)
  <2> SUFFICES ASSUME NEW o \in Nodes, NEW i \in DOMAIN new[o], new[o][i].client # Nobody
               PROVE  /\ Asks(proc[new[o][i].client], o)
                      /\ \A j \in DOMAIN new[o] \ {i} : new[o][j].client # new[o][i].client
    BY DEF MailAwaited
  <2>1. CASE o # n
    BY <1>4, <2>1 DEF Awaited, MailAwaited
  <2>2. CASE o = n
    <3>1. /\ i \in Int /\ i + 1 \in DOMAIN inbox[n] /\ new[n][i] = inbox[n][i + 1]
      BY <1>4, <2>2
    <3>2. \A j \in DOMAIN new[n] \ {i} : /\ j \in Int /\ j + 1 \in DOMAIN inbox[n] \ {i + 1}
                                         /\ new[n][j] = inbox[n][j + 1]
      BY <1>4, <3>1
    <3> QED BY <2>2, <3>1, <3>2 DEF Awaited, MailAwaited
  <2> QED BY <2>1, <2>2
<1>6. HeldAwaited(new, proc)
  <2> SUFFICES ASSUME NEW o \in Nodes, proc[Server(o)] # Idle,
                      proc[Server(o)].client # Nobody, NEW i \in DOMAIN new[o]
               PROVE  new[o][i].client # proc[Server(o)].client
    BY DEF Awaited, HeldAwaited
  <2> QED BY <1>4 DEF Awaited, HeldAwaited
<1>7. ASSUME c # Nobody
      PROVE  Asks(proc[c], n) /\ Free(new, proc, c)
  <2>1. Asks(proc[c], n) /\ \A j \in DOMAIN inbox[n] \ {1} : inbox[n][j].client # c
    BY <1>3, <1>7 DEF Awaited, MailAwaited
  <2>2. \A i \in DOMAIN new[n] : new[n][i].client # c
    BY <1>4, <2>1
  <2>3. \A o \in Nodes \ {n} : ~Asks(proc[c], o)
    BY <2>1 DEF Asks
  <2>4. \A o \in Nodes \ {n} : /\ \A i \in DOMAIN new[o] : new[o][i].client # c
                               /\ proc[Server(o)] # Idle => proc[Server(o)].client # c
    BY <1>5, <1>6, <1>7, <2>3 DEF MailAwaited, HeldAwaited
  <2> QED BY <1>1, <2>1, <2>2, <2>4 DEF Free
<1> QED BY <1>1, <1>5, <1>6, <1>7 DEF Awaited, m, new

(* The server keeps the client of the message it has taken. *)
LEMMA HeldClient ==
  ASSUME TypeOK, Awaited(inbox, proc), NEW n \in Nodes, NEW type, Receives(n, type),
         NEW w \in Waits, w.client = Head(inbox[n]).client
  PROVE  /\ Awaited(Taken(n), [proc EXCEPT ![Server(n)] = w])
         /\ Free(Taken(n), [proc EXCEPT ![Server(n)] = w], Server(n))
<1> DEFINE p == Server(n)
           box == Taken(n)
           c == Head(inbox[n]).client
           new == [proc EXCEPT ![p] = w]
<1>1. /\ Awaited(box, proc) /\ box \in Box /\ c \in Clients /\ proc[p] = Idle
      /\ c # Nobody => Asks(proc[c], n) /\ Free(box, proc, c)
  BY TakenAwaited
<1>2. p \in Procs /\ p # Nobody /\ new[p] = w /\ \A q \in Procs \ {p} : new[q] = proc[q]
  BY ProcsFacts, TypesOfState DEF Server, Nobody, ProcTable
<1>3. \A o \in Nodes : ~Asks(proc[p], o)
  BY <1>1 DEF Asks, Idle
<1>4. Free(box, proc, p)
  BY <1>1, <1>2, <1>3, NotAskingIsFree
<1>5. c # p
  BY <1>1, <1>2, <1>3
<1> HIDE DEF new, box, c
<1>6. MailAwaited(box, new)
  <2> SUFFICES ASSUME NEW o \in Nodes, NEW i \in DOMAIN box[o], box[o][i].client # Nobody
               PROVE  /\ Asks(new[box[o][i].client], o)
                      /\ \A j \in DOMAIN box[o] \ {i} : box[o][j].client # box[o][i].client
    BY DEF MailAwaited
  <2>1. box[o][i].client \in Procs \ {p}
    BY <1>1, <1>4, ClientTypes DEF Clients, Free
  <2> QED BY <1>1, <1>2, <2>1 DEF Awaited, MailAwaited
<1>7. ASSUME NEW o \in Nodes, new[Server(o)] # Idle
      PROVE  LET v == new[Server(o)]
             IN /\ v \in Waits /\ v.client # p
                /\ v.client # Nobody =>
                     /\ Asks(new[v.client], o)
                     /\ \A i \in DOMAIN box[o] : box[o][i].client # v.client
  <2>1. CASE o = n
    <3>1. new[Server(o)] = w /\ w.client = c
      BY <1>2, <2>1 DEF c
    <3>2. c # Nobody => new[c] = proc[c]
      BY <1>1, <1>2, <1>5 DEF Clients
    <3> HIDE DEF p
    <3> QED BY <1>1, <1>5, <2>1, <3>1, <3>2 DEF Free
  <2>2. CASE o # n
    <3> DEFINE u == proc[Server(o)]
    <3>1. new[Server(o)] = u
      BY <1>2, <2>2, ProcsFacts, ServersDiffer
    <3>2. u # Idle /\ u \in Waits /\ u.client # p
      BY <1>1, <1>4, <1>7, <3>1 DEF Awaited, HeldAwaited, Free
    <3>3. u.client # Nobody => new[u.client] = proc[u.client]
      BY <1>2, <3>2 DEF Waits, Clients
    <3> HIDE DEF p
    <3> QED BY <1>1, <3>1, <3>2, <3>3 DEF Awaited, HeldAwaited
  <2> QED BY <2>1, <2>2
<1>8. HeldAwaited(box, new) /\ Free(box, new, p)
  BY <1>4, <1>7 DEF HeldAwaited, Free
<1> QED BY <1>6, <1>8 DEF Awaited, new, box

LEMMA MessagesAwaited ==
  ASSUME TypeOK, Awaited(inbox, proc), NEW n \in Nodes,
         \/ IsStillValid(n) \/ Dissolve(n) \/ SetCurrentPartition(n) \/ DissolveBlocked(n)
         \/ NobodyOut(n) \/ \E f \in Nodes : Forward(n, f)
  PROVE  Awaited(inbox', proc')
<1> DEFINE m == Head(inbox[n])
<1>1. /\ Awaited(Taken(n), proc) /\ Taken(n) \in Box /\ m.client \in Clients
      /\ m.client # Nobody => Asks(proc[m.client], n) /\ Free(Taken(n), proc, m.client)
  BY TakenAwaited DEF IsStillValid, Dissolve, SetCurrentPartition, DissolveBlocked, NobodyOut,
                      Forward
<1> HIDE DEF m
<1>2. \A a \in {"yes", "no"} : Awaited(Taken(n), Replied(proc, m.client, a))
  BY <1>1, TypesOfState, FreeReply
<1>3. CASE \/ IsStillValid(n) \/ Dissolve(n) \/ SetCurrentPartition(n) \/ DissolveBlocked(n)
           \/ NobodyOut(n)
  <2>1. inbox' = Taken(n)
    BY <1>3 DEF IsStillValid, Dissolve, SetCurrentPartition, DissolveBlocked, NobodyOut
  <2>2. proc' = proc \/ \E a \in {"yes", "no"} : proc' = Replied(proc, m.client, a)
    BY <1>3 DEF IsStillValid, Dissolve, SetCurrentPartition, DissolveBlocked, NobodyOut, m
  <2> QED BY <1>1, <1>2, <2>1, <2>2
<1>4. ASSUME NEW f \in Nodes, Forward(n, f)
      PROVE  Awaited(inbox', proc')
  <2>1. /\ inbox' = Sent(Taken(n), f, Isp(m.part, Nobody))
        /\ proc' = Replied(proc, m.client, "yes")
    BY <1>4 DEF Forward, m
  <2>2. m.part \in Partition
    BY <1>4, TakenAwaited DEF Forward, m
  <2> QED BY <1>1, <1>2, <2>1, <2>2, NobodysIsp, NobodysMail
<1> QED BY <1>3, <1>4

LEMMA IspWhenFreeAwaited ==
  ASSUME TypeOK, Awaited(inbox, proc), NEW n \in Nodes, IspWhenFree(n)
  PROVE  Awaited(inbox', proc')
<1> DEFINE m == Head(inbox[n])
           i == m.part.initiator
           p == Server(n)
           msg == [type |-> "valid", part |-> m.part, client |-> p]
           w == Waiting("validating", m.part, <<>>, m.client, i)
           v == [w EXCEPT !.answer = "pending"]
<1>1. /\ Taken(n) \in Box /\ m.client \in Clients /\ m.part \in Partition /\ p \in Procs
      /\ Receives(n, "isp")
  BY TakenAwaited, ProcsFacts DEF IspWhenFree
<1>2. i \in Nodes
  BY <1>1 DEF Partition
<1>3. inbox' = Sent(Taken(n), i, msg) /\ proc' = [proc EXCEPT ![p] = v] /\ msg.client = p
  BY DEF IspWhenFree
<1> HIDE DEF m
<1>4. w \in Waits
  <2>1. <<>> \in Seq(Nodes)
    OBVIOUS
  <2> QED BY <1>1, <1>2, <2>1, WaitingType
<1>5. w.pc = "validating" /\ w.client = m.client /\ w.asked = i
  BY DEF Waiting
<1> HIDE DEF w, i, msg
<1>6. v \in Waits /\ v.pc = "validating" /\ v.client = m.client /\ v.asked = i
      /\ v.answer = "pending"
  BY <1>4, <1>5 DEF Waits
<1> HIDE DEF v
<1>7. Awaited(Taken(n), proc') /\ Free(Taken(n), proc', p)
  BY <1>1, <1>3, <1>6, HeldClient DEF m
<1>8. Asks(proc'[p], i)
  BY <1>1, <1>3, <1>6, TypesOfState DEF ProcTable, Asks
<1> QED BY <1>1, <1>2, <1>3, <1>7, <1>8, RequestMail

LEMMA AnsweredIsFree ==
  ASSUME Awaited(inbox, proc), NEW p \in Procs,
         proc[p].pc \in {"idle", "starting", "computing", "merged"} \/ Answered(p)
  PROVE  /\ Free(inbox, proc, p)
         /\ \A n \in Nodes : ~Asks(proc[p], n)
<1>1. p # Nobody
  BY DEF Procs, Nobody
<1>2. \A n \in Nodes : ~Asks(proc[p], n)
  BY DEF Asks, Answered
<1> QED BY <1>1, <1>2, NotAskingIsFree

LEMMA JoinAwaited ==
  ASSUME TypeOK, Awaited(inbox, proc), NEW n \in Nodes, Join(n)
  PROVE  Awaited(inbox', proc')
<1> DEFINE p == Server(n)
           part == Joined(n, proc[p].part)
           c == proc[p].client
<1>1. p \in Procs /\ proc[p] \in Waits /\ proc[p].part \in Partition /\ c \in Clients
  BY ProcsFacts, TypesOfState DEF Join
<1>2. proc[p] # Idle /\ Free(inbox, proc, p)
  BY <1>1, AnsweredIsFree DEF Join, Answered, Idle
<1>3. part \in Partition
  BY <1>1, JoinedType
<1>4. UpdateAll(p, "joining", part, inbox, c, n)
  BY DEF Join
<1> HIDE DEF part
<1>5. ASSUME NEW w \in Waits, w.client = c
      PROVE  /\ Awaited(inbox, [proc EXCEPT ![p] = w])
             /\ Free(inbox, [proc EXCEPT ![p] = w], p)
  <2>1. w \in Process
    BY DEF Process
  <2> QED BY <1>1, <1>2, <1>5, <2>1, TypesOfState, FreeChange
<1> HIDE DEF p, c
<1> QED BY <1>1, <1>3, <1>4, <1>5, TypesOfState, UpdateAllAwaited

LEMMA EndsAwaited ==
  ASSUME TypeOK, Awaited(inbox, proc), NEW n \in Nodes,
         \/ \E k \in 1..MaxPlans : StartPlan(n, k)
         \/ Refuse(n) \/ EndBlocking(n)
  PROVE  Awaited(inbox', proc')
<1> DEFINE p == Server(n)
<1>0. p \in Procs /\ proc[p] # Idle /\ Answered(p) /\ inbox' = inbox
  <2>1. proc[p].pc \in {"joining", "validating", "blocking"} /\ Answered(p) /\ inbox' = inbox
    BY DEF StartPlan, Refuse, EndBlocking, Done
  <2> QED BY <2>1, ProcsFacts DEF Idle
<1>1. /\ p \in Procs /\ proc[p] # Idle /\ \A m \in Nodes : ~Asks(proc[p], m)
      /\ inbox' = inbox /\ inbox \in Box /\ proc \in ProcTable
  BY <1>0, TypesOfState, AnsweredIsFree
<1>2. CASE Refuse(n) \/ EndBlocking(n)
  <2>1. proc' = Replied([proc EXCEPT ![p] = Idle], proc[p].client, "yes")
    BY <1>2 DEF Refuse, EndBlocking
  <2> QED BY <1>1, <2>1, ServerReplies
<1>3. ASSUME NEW k \in 1..MaxPlans, StartPlan(n, k)
      PROVE  Awaited(inbox', proc')
  <2> DEFINE q == <<n, k>>
             procs == [proc EXCEPT ![q] = Starting]
  <2>1. q \in Procs /\ q \in Plans /\ q # p /\ proc[q] = Idle
    BY <1>3, ProcsFacts DEF Plans, StartPlan
  <2>2. Free(inbox, proc, q)
    BY <2>1, AnsweredIsFree DEF Idle
  <2>3. Awaited(inbox, procs) /\ procs \in ProcTable
    BY <1>1, <2>1, <2>2, FreeChange, SetProcType, IdleTypes
  <2>4. procs[p] = proc[p]
    BY <1>1, <2>1 DEF ProcTable
  <2>5. [procs EXCEPT ![p] = Idle] = [proc EXCEPT ![p] = Idle, ![q] = Starting]
    BY <1>1, <2>1 DEF ProcTable
  <2>6. proc' = Replied([procs EXCEPT ![p] = Idle], procs[p].client, "yes")
    BY <1>3, <2>4, <2>5 DEF StartPlan
  <2> HIDE DEF procs
  <2> QED BY <1>1, <2>3, <2>4, <2>6, ServerReplies
<1> QED BY <1>2, <1>3

LEMMA BlocksAwaited ==
  ASSUME TypeOK, Awaited(inbox, proc), NEW n \in Nodes, IspBack(n) \/ Merge(n)
  PROVE  Awaited(inbox', proc')
<1> DEFINE p == Server(n)
           m == Head(inbox[n])
<1>1. /\ p \in Procs /\ m.client \in Clients /\ m.part \in Partition /\ Taken(n) \in Box
      /\ Receives(n, "isp")
  BY TakenAwaited, ProcsFacts DEF IspBack, Merge
<1>2. current[n] \in Partition
  BY TypesOfState, BlockedIsBooked DEF IspBack, Merge
<1>3. ASSUME NEW w \in Waits, w.client = m.client
      PROVE  /\ Awaited(Taken(n), [proc EXCEPT ![p] = w])
             /\ Free(Taken(n), [proc EXCEPT ![p] = w], p)
  BY <1>1, <1>3, HeldClient
<1> HIDE DEF m
<1>4. \E part \in Partition, pc \in {"blocking", "merging"} :
        UpdateAll(p, pc, part, Taken(n), m.client, n)
  <2>1. CASE IspBack(n)
    <3>1. Changed(current[n], "Blocked") \in Partition
      BY <1>2, ChangedType DEF States
    <3> QED BY <2>1, <3>1 DEF IspBack, m
  <2>2. CASE Merge(n)
    <3>1. PICK id \in unused :
            UpdateAll(p, "merging",
                      [current[n] EXCEPT !.id = id, !.nodes = MergedWith(@, m.part.nodes),
                                         !.state = "Growing", !.version = 0],
                      Taken(n), m.client, n)
      BY <2>2 DEF Merge, m
    <3>2. [current[n] EXCEPT !.id = id, !.nodes = MergedWith(@, m.part.nodes),
                             !.state = "Growing", !.version = 0] \in Partition
      BY <1>1, <1>2, MergedPartitionType DEF TypeOK
    <3> QED BY <3>1, <3>2
  <2> QED BY <2>1, <2>2
<1> HIDE DEF p
<1> QED BY <1>1, <1>3, <1>4, TypesOfState, UpdateAllAwaited

LEMMA MergedAwaited ==
  ASSUME TypeOK, Awaited(inbox, proc), NEW n \in Nodes, Merged(n)
  PROVE  Awaited(inbox', proc')
<1> DEFINE p == Server(n)
<1>1. /\ p \in Procs /\ proc[p] \in Waits /\ proc[p].pc \in {"merging", "merged"}
      /\ inbox \in Box /\ proc \in ProcTable
  BY ProcsFacts, TypesOfState DEF Merged, Done
<1>2. current[n] \in Partition /\ current[n].nodes \in Seq(Nodes) /\ current[n].id \in Ids
  BY TypesOfState DEF Merged, Partition
<1>3. /\ proc[p] # Idle /\ Free(inbox, proc, p) /\ \A m \in Nodes : ~Asks(proc[p], m)
  BY <1>1, AnsweredIsFree DEF Merged, Done, Idle
<1>4. CASE /\ proc' = Replied([proc EXCEPT ![p] = Idle], proc[p].client, "yes")
           /\ \/ inbox' = SentAll(inbox, current[n].nodes, Nodes, Dissolution(current[n].id))
              \/ inbox' \in IspSent(inbox, current[n])
  <2>1. Awaited(inbox, proc')
    BY <1>1, <1>3, <1>4, ServerReplies
  <2> QED BY <1>1, <1>2, <1>4, <2>1, DissolutionsMail, IspMail
<1>5. CASE /\ proc' = [proc EXCEPT ![p] = [proc[p] EXCEPT !.pc = "merged", !.answer = "pending"]]
           /\ inbox' = inbox
  <2> DEFINE v == [proc[p] EXCEPT !.pc = "merged", !.answer = "pending"]
  <2>1. v \in Waits /\ v.client = proc[p].client
    BY <1>1 DEF Waits
  <2> HIDE DEF v
  <2>2. v \in Process
    BY <2>1 DEF Process
  <2>3. Awaited(inbox, [proc EXCEPT ![p] = v])
    BY <1>1, <1>3, <2>1, <2>2, FreeChange
  <2> QED BY <1>5, <2>3 DEF v
<1> QED BY <1>4, <1>5 DEF Merged

LEMMA MonitorAwaited ==
  ASSUME TypeOK, Awaited(inbox, proc), NEW n \in Nodes,
         OverloadingDetected(n) \/ CheckTimeout(n)
  PROVE  Awaited(inbox', proc')
<1>1. proc' = proc /\ inbox \in Box
  BY TypesOfState DEF OverloadingDetected, CheckTimeout
<1>2. CASE CheckTimeout(n)
  <2>1. current[n].nodes \in Seq(Nodes) /\ current[n].id \in Ids
    BY <1>2, TypesOfState DEF CheckTimeout, Partition
  <2> QED BY <1>1, <1>2, <2>1, DissolutionsMail DEF CheckTimeout
<1>3. CASE OverloadingDetected(n)
  <2>1. PICK id \in unused :
          inbox' \in IspSent(inbox, [id |-> id, leader |-> n, initiator |-> n, nodes |-> <<n>>,
                                     state |-> "Growing", version |-> 0])
    BY <1>3 DEF OverloadingDetected
  <2> DEFINE part == [id |-> id, leader |-> n, initiator |-> n, nodes |-> <<n>>,
                      state |-> "Growing", version |-> 0]
  <2>2. part \in Partition
    BY DEF Partition, States, TypeOK
  <2>3. inbox' \in IspSent(inbox, part)
    BY <2>1
  <2> HIDE DEF part
  <2> QED BY <1>1, <2>2, <2>3, IspMail
<1> QED BY <1>2, <1>3

-----------------------------------------------------------------------------
(* Steps of servers and of plans alike, and of plans.                        *)

LEMMA AskNextAwaited ==
  ASSUME TypeOK, Awaited(inbox, proc), NEW p \in Procs, AskNext(p)
  PROVE  Awaited(inbox', proc')
<1>1. /\ proc[p] \in Waits /\ p[1] \in Nodes /\ inbox \in Box /\ proc \in ProcTable
      /\ proc[p].pc \notin {"idle", "starting", "computing", "merged"} /\ proc[p] # Idle
  BY TypesOfState, ProcsFacts DEF AskNext, Idle
<1>2. Free(inbox, proc, p)
  BY AnsweredIsFree DEF AskNext
<1>3. PICK w \in Waits : /\ AskAll(p, w, inbox) /\ w.pc = proc[p].pc
                         /\ w.client = proc[p].client
  <2>1. CASE AskAll(p, proc[p], inbox)
    BY <1>1, <2>1
  <2>2. CASE Booked(p[1]) /\ AskAll(p, [proc[p] EXCEPT !.part = current[p[1]]], inbox)
    <3> DEFINE v == [proc[p] EXCEPT !.part = current[p[1]]]
    <3>1. v \in Waits /\ v.pc = proc[p].pc /\ v.client = proc[p].client
      BY <1>1, <2>2, TypesOfState DEF Waits
    <3>2. AskAll(p, v, inbox)
      BY <2>2
    <3> HIDE DEF v
    <3> QED BY <3>1, <3>2
  <2> QED BY <2>1, <2>2 DEF AskNext
<1>4. w \in Process
  BY DEF Process
<1>5. /\ Awaited(inbox, [proc EXCEPT ![p] = w])
      /\ Free(inbox, [proc EXCEPT ![p] = w], p)
  BY <1>1, <1>2, <1>3, <1>4, FreeChange
<1> QED BY <1>1, <1>3, <1>5, AskAllAwaited

LEMMA RestAwaited ==
  ASSUME TypeOK, Awaited(inbox, proc), NEW p \in Procs,
         Fail(p) \/ DissolveSelf(p) \/ EndPlan(p)
  PROVE  Awaited(inbox', proc')
<1>1. Free(inbox, proc, p)
  BY AnsweredIsFree DEF Fail, DissolveSelf, EndPlan, Done
<1>2. Awaited(inbox, [proc EXCEPT ![p] = Idle])
  BY <1>1, TypesOfState, IdleTypes, FreeChange
<1> QED BY <1>2 DEF Fail, DissolveSelf, EndPlan

(* A plan that waits for nothing may ask. *)
LEMMA PlanAsks ==
  ASSUME TypeOK, Awaited(inbox, proc), NEW p \in Plans, Free(inbox, proc, p),
         NEW part \in Partition, NEW next \in Nodes,
         NEW pc \in {"growing", "finishing", "confirming"},
         UpdateAll(p, pc, part, inbox, Nobody, next)
  PROVE  Awaited(inbox', proc')
<1>1. p \in Procs /\ Nobody \in Clients /\ inbox \in Box /\ proc \in ProcTable
  BY ProcsFacts, TypesOfState DEF Plans
<1>2. ASSUME NEW w \in Waits
      PROVE  /\ Awaited(inbox, [proc EXCEPT ![p] = w])
             /\ Free(inbox, [proc EXCEPT ![p] = w], p)
  <2>1. w \in Process
    BY DEF Process
  <2> QED BY <1>1, <2>1, FreeChange
<1> QED BY <1>1, <1>2, UpdateAllAwaited

LEMMA ComputesAwaited ==
  ASSUME TypeOK, Awaited(inbox, proc), NEW p \in Plans, Compute(p) \/ Computed(p)
  PROVE  Awaited(inbox', proc')
<1>1. p \in Procs /\ p[1] \in Nodes
  BY ProcsFacts DEF Plans
<1>2. Free(inbox, proc, p)
  BY <1>1, AnsweredIsFree DEF Compute, Computed, Starting, Computing
<1>3. ASSUME NEW w \in {Idle, Computing}, proc' = [proc EXCEPT ![p] = w], inbox' = inbox
      PROVE  Awaited(inbox', proc')
  BY <1>1, <1>2, <1>3, TypesOfState, IdleTypes, FreeChange
<1>4. ASSUME Booked(p[1]), NEW next \in Nodes, NEW state \in States,
             NEW pc \in {"growing", "finishing"},
             UpdateAll(p, pc, Changed(current[p[1]], state), inbox, Nobody, next)
      PROVE  Awaited(inbox', proc')
  <2>1. Changed(current[p[1]], state) \in Partition
    BY <1>1, <1>4, TypesOfState, ChangedType
  <2> QED BY <1>2, <1>4, <2>1, PlanAsks
<1>5. CASE NoSolution(p)
  BY <1>3, <1>4, <1>5 DEF NoSolution, FirstOut, States
<1>6. CASE ~NoSolution(p)
  BY <1>1, <1>3, <1>4, <1>6 DEF Compute, Computed, States
<1> QED BY <1>5, <1>6

LEMMA TransmitAwaited ==
  ASSUME TypeOK, Awaited(inbox, proc), NEW p \in Plans, Transmit(p)
  PROVE  Awaited(inbox', proc')
<1> DEFINE f == proc[p].next
           v == [proc[p] EXCEPT !.pc = "transmitting", !.asked = f, !.answer = "pending"]
           m == Isp(current[p[1]], p)
<1>1. /\ p \in Procs /\ inbox \in Box /\ proc \in ProcTable
      /\ proc[p] \in Waits /\ f \in Nodes
  BY ProcsFacts, TypesOfState DEF Plans, Transmit, Done
<1>2. Free(inbox, proc, p)
  BY <1>1, AnsweredIsFree DEF Transmit, Done
<1>3. inbox' = Sent(inbox, f, m) /\ proc' = [proc EXCEPT ![p] = v] /\ m.client = p
  BY DEF Transmit, Isp
<1>4. v \in Waits /\ v.pc = "transmitting" /\ v.asked = f /\ v.answer = "pending"
  BY <1>1 DEF Waits
<1> HIDE DEF v, m
<1>5. v \in Process
  BY <1>4 DEF Process
<1>6. Awaited(inbox, proc') /\ Free(inbox, proc', p)
  BY <1>1, <1>2, <1>3, <1>5, FreeChange
<1>7. Asks(proc'[p], f)
  BY <1>1, <1>3, <1>4 DEF ProcTable, Asks
<1> QED BY <1>1, <1>3, <1>6, <1>7, RequestMail

LEMMA DissolveOthersAwaited ==
  ASSUME TypeOK, Awaited(inbox, proc), NEW p \in Plans, DissolveOthers(p)
  PROVE  Awaited(inbox', proc')
<1> DEFINE part == current[p[1]]
           w == Waiting("dissolving", part, part.nodes, Nobody, p[1])
<1>1. /\ p \in Procs /\ p[1] \in Nodes /\ part \in Partition
      /\ inbox \in Box /\ proc \in ProcTable
  BY ProcsFacts, TypesOfState DEF DissolveOthers, Plans
<1>2. w \in Waits
  BY <1>1, ProcsFacts, WaitingType DEF Partition
<1>3. w.pc = "dissolving"
  BY DEF Waiting
<1>4. AskAll(p, w, inbox)
  BY DEF DissolveOthers
<1> HIDE DEF w, part
<1>5. w \in Process
  BY <1>2 DEF Process
<1>6. Free(inbox, proc, p)
  BY <1>1, AnsweredIsFree DEF DissolveOthers, Done
<1>7. /\ Awaited(inbox, [proc EXCEPT ![p] = w])
      /\ Free(inbox, [proc EXCEPT ![p] = w], p)
  BY <1>1, <1>5, <1>6, FreeChange
<1> QED BY <1>1, <1>2, <1>3, <1>4, <1>7, AskAllAwaited

LEMMA PlanStepAwaited ==
  ASSUME TypeOK, Awaited(inbox, proc), NEW p \in Plans, PlanStep(p)
  PROVE  Awaited(inbox', proc')
<1>1. p \in Procs /\ p[1] \in Nodes
  BY ProcsFacts DEF Plans
<1>2. CASE Confirm(p)
  <2>1. current[p[1]] \in Partition
    BY <1>1, <1>2, TypesOfState DEF Confirm
  <2>2. Free(inbox, proc, p)
    BY <1>1, <1>2, AnsweredIsFree DEF Confirm, Done
  <2>3. UpdateAll(p, "confirming", current[p[1]], inbox, Nobody, p[1])
    BY <1>2 DEF Confirm
  <2> QED BY <1>1, <2>1, <2>2, <2>3, PlanAsks
<1>3. CASE Compute(p) \/ Computed(p) \/ Transmit(p) \/ DissolveOthers(p)
  BY <1>3, ComputesAwaited, TransmitAwaited, DissolveOthersAwaited
<1>4. CASE AskNext(p) \/ DissolveSelf(p) \/ EndPlan(p) \/ Fail(p)
  BY <1>1, <1>4, AskNextAwaited, RestAwaited
<1> QED BY <1>2, <1>3, <1>4 DEF PlanStep

LEMMA ServerStepAwaited ==
  ASSUME TypeOK, Awaited(inbox, proc), NEW n \in Nodes,
         ServerStep(n) \/ OverloadingDetected(n) \/ CheckTimeout(n)
  PROVE  Awaited(inbox', proc')
<1>1. CASE \/ IsStillValid(n) \/ Dissolve(n) \/ SetCurrentPartition(n) \/ DissolveBlocked(n)
           \/ NobodyOut(n) \/ \E f \in Nodes : Forward(n, f)
  BY <1>1, MessagesAwaited
<1>2. CASE (\E k \in 1..MaxPlans : StartPlan(n, k)) \/ Refuse(n) \/ EndBlocking(n)
  BY <1>2, EndsAwaited
<1>3. CASE IspWhenFree(n) \/ Join(n) \/ IspBack(n) \/ Merge(n) \/ Merged(n)
  BY <1>3, IspWhenFreeAwaited, JoinAwaited, BlocksAwaited, MergedAwaited
<1>4. CASE AskNext(Server(n)) \/ Fail(Server(n))
  BY <1>4, ProcsFacts, AskNextAwaited, RestAwaited
<1>5. CASE OverloadingDetected(n) \/ CheckTimeout(n)
  BY <1>5, MonitorAwaited
<1> QED BY <1>1, <1>2, <1>3, <1>4, <1>5 DEF ServerStep

LEMMA AwaitedNext == TypeOK /\ Awaited(inbox, proc) /\ [Next]_vars => Awaited(inbox, proc)'
<1>1. ASSUME TypeOK, Awaited(inbox, proc), Next
      PROVE  Awaited(inbox', proc')
  BY <1>1, ServerStepAwaited, PlanStepAwaited DEF Next, Plans
<1> QED BY <1>1 DEF vars

LEMMA AwaitedInit == Init => Awaited(inbox, proc)
<1> SUFFICES ASSUME Init PROVE Awaited(inbox, proc)
  OBVIOUS
<1>1. \A n \in Nodes : proc[Server(n)] = Idle /\ inbox[n] = <<>>
  BY ProcsFacts DEF Init
<1> QED BY <1>1 DEF Awaited, MailAwaited, HeldAwaited

(* However late messages are, a reply reaches a process that waits for it,   *)
(* from the node it asked: no request is answered twice, and none is in a    *)
(* mailbox, or kept by a server, whose process has gone on without a reply.  *)
THEOREM RepliesCorrect == Spec => []RepliesAreAwaited
<1>1. Awaited(inbox, proc) => RepliesAreAwaited
  BY DEF Awaited, MailAwaited, HeldAwaited, Asks, RepliesAreAwaited
<1> QED BY <1>1, AwaitedInit, AwaitedNext, TypeCorrect, PTL DEF Spec

===============================================================================
