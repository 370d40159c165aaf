----------------------------- MODULE SnoozeJoin -----------------------------
(***************************************************************************)
(* How the local controllers of Snooze join a group manager, and what is   *)
(* left of it when managers, the leader or controllers fail                *)
(* (scheduling/hierarchical/snooze).                                       *)
(*                                                                         *)
(* Time is abstract: a timeout is a step that is possible when the message *)
(* it waits for is not on its way, or as one of the late messages that the  *)
(* bounds allow.  An election is one step, from the manager that misses    *)
(* the leader to the start of the next one.  The leader's choice between   *)
(* managers is any.                                                        *)
(***************************************************************************)
EXTENDS Integers, Sequences, SequencesExt, FiniteSets

CONSTANTS
  LCs,         (* the controllers, one per hosting node                      *)
  Nodes,       (* the service nodes: the leader's and the managers'          *)
  None,        (* the empty host name                                        *)
  Joining,     (* the record of a controller that is joining                 *)
  Bounds       (* the bounds of each behaviour, see Bound                    *)

(* lcs are the controllers started, crashes the service nodes that fail,     *)
(* restarts how often the host of each controller fails and comes back, and  *)
(* late the messages that are late.                                          *)
Bound == [lcs : SUBSET LCs, crashes : Nat, restarts : Nat, late : Nat]

Multicast == "multicast"   (* the name of that service, as an addressee *)

ASSUME NodesAssumption == Nodes # {} /\ {None, Joining, Multicast} \cap Nodes = {}
ASSUME RecordAssumption == None # Joining
ASSUME BoundsAssumption == \A b \in Bounds : b \in Bound

VARIABLES
  up,        (* the service nodes that have not failed                       *)
  leader,    (* Multicast.glHostname                                         *)
  managers,  (* the nodes whose GroupManager has not stopped                 *)
  gmInfo,    (* GroupLeader.gmInfo of each node, if it leads or has led      *)
  lcInfo,    (* GroupManager.lcInfo of each node                             *)
  record,    (* Multicast.lcInfo: Joining, or the manager                    *)
  lcsJoined, (* Test.lcsJoined: a LocalController object and its managers    *)
  life,      (* which LocalController object runs on the host                *)
  gmHost,    (* LocalController.gmHostname                                   *)
  joining,   (* LocalController.joining                                      *)
  proc,      (* the controller's two processes                               *)
  inbox,     (* messages in lcInbox                                          *)
  requests,  (* messages of the controller that have not been read           *)
  replies,   (* messages in joinMBox                                         *)
  bounds, crashes, late  (* the bounds, and how much of them is used         *)

central == <<up, leader, managers, gmInfo>>
tables  == <<lcInfo, record, lcsJoined>>
local   == <<life, gmHost, joining, proc>>
mail    == <<inbox, requests, replies>>
vars    == <<central, tables, local, mail, bounds, crashes, late>>

(* main runs join and handles the inbox; charge sends the charge and runs   *)
(* join when the manager is dead.                                            *)
Processes == {"main", "charge"}
Waiting   == {"getGM", "joinGM", "joinFinalize"}

Idle == [at |-> "idle", gl |-> None, gm |-> None, tries |-> 0]
Off  == [Idle EXCEPT !.at = "off"]

(* Messages: of the controller, to its mailbox and to its reply mailbox.     *)
Request(to, kind, gm) == [to |-> to, kind |-> kind, gm |-> gm]
RBeatGL(gl)  == [kind |-> "RBeatGLMsg", from |-> gl]
TermGM(gm)   == [kind |-> "TermGMMsg", from |-> gm]
LCAss(from, gm) == [kind |-> "LCAssMsg", from |-> from, gm |-> gm]
NewLC(from, gm) == [kind |-> "NewLCMsg", from |-> from, gm |-> gm]

NameOrNone == Nodes \cup {None}

RequestMsg ==
  [to : {Multicast}, kind : {"join"}, gm : {None}] \cup
  [to : {Multicast}, kind : {"finalize"}, gm : Nodes] \cup
  [to : Nodes, kind : {"assign"}, gm : {None}] \cup
  [to : Nodes, kind : {"new"}, gm : Nodes]
InboxMsg == [kind : {"RBeatGLMsg", "TermGMMsg"}, from : Nodes]
ReplyMsg ==
  [kind : {"LCAssMsg"}, from : Nodes, gm : NameOrNone] \cup
  [kind : {"NewLCMsg"}, from : Nodes \cup {Multicast}, gm : Nodes]

(* A process knows the leader it asks, and then the manager it was assigned. *)
ProcState ==
  [at : {"off", "idle", "getGL"}, gl : {None}, gm : {None}, tries : {0}] \cup
  [at : {"getGM"}, gl : Nodes, gm : {None}, tries : 0..2] \cup
  [at : {"joinGM", "joinFinalize"}, gl : Nodes, gm : Nodes, tries : 0..2]

NoEntry == [life |-> 0, gms |-> {}]

TypeOK ==
  /\ up \subseteq Nodes /\ leader \in Nodes /\ managers \subseteq Nodes \ {leader}
  /\ gmInfo \in [Nodes -> SUBSET Nodes]
  /\ lcInfo \in [Nodes -> SUBSET LCs]
  /\ record \in [LCs -> Nodes \cup {None, Joining}]
  /\ lcsJoined \in [LCs -> [life : 0..bounds.restarts + 1, gms : SUBSET Nodes]]
  /\ life \in [LCs -> 1..bounds.restarts + 1]
  /\ gmHost \in [LCs -> NameOrNone]
  /\ joining \in [LCs -> BOOLEAN]
  /\ proc \in [LCs -> [Processes -> ProcState]]
  /\ requests \in [LCs -> Seq(RequestMsg)] /\ inbox \in [LCs -> Seq(InboxMsg)]
  /\ replies \in [LCs -> Seq(ReplyMsg)]
  /\ bounds \in Bounds /\ crashes \in 0..bounds.crashes /\ late \in 0..bounds.late

(* HierarchicalResolver.main waits until the managers have joined the first  *)
(* leader before it starts the controllers.                                  *)
Init ==
  /\ bounds \in Bounds
  /\ up = Nodes
  /\ leader \in Nodes
  /\ managers = Nodes \ {leader}
  /\ gmInfo = [n \in Nodes |-> IF n = leader THEN managers ELSE {}]
  /\ lcInfo = [n \in Nodes |-> {}]
  /\ record = [l \in LCs |-> None]
  /\ lcsJoined = [l \in LCs |-> NoEntry]
  /\ life = [l \in LCs |-> 1]
  /\ gmHost = [l \in LCs |-> None]
  /\ joining = [l \in LCs |-> TRUE]
  /\ proc = [l \in LCs |->
       [main |-> IF l \in bounds.lcs THEN [Idle EXCEPT !.at = "getGL"] ELSE Off, charge |-> Off]]
  /\ inbox = [l \in LCs |-> <<>>]
  /\ requests = [l \in LCs |-> IF l \in bounds.lcs THEN <<Request(Multicast, "join", None)>> ELSE <<>>]
  /\ replies = [l \in LCs |-> <<>>]
  /\ crashes = 0 /\ late = 0

-----------------------------------------------------------------------------
(* The join of a controller l, in its process p.                             *)

(* Nobody reads the mailbox of a node that has failed, and what such a node   *)
(* was sending does not arrive.                                              *)
Alive == up \cup {Multicast}
Arriving(l) == {i \in DOMAIN replies[l] : replies[l][i].from \in Alive}
IsFirst(l, i) == i \in Arriving(l) /\ \A j \in Arriving(l) : i <= j

Send(l, r) ==
  requests' = IF r.to \in Alive THEN [requests EXCEPT ![l] = Append(@, r)] ELSE requests

(* The first step of getGL, getGM, joinGM and joinFinalize: the request.     *)
AskGL(l, p) ==
  /\ Send(l, Request(Multicast, "join", None))
  /\ proc' = [proc EXCEPT ![l][p] = [Idle EXCEPT !.at = "getGL"]]

AskGM(l, p, gl, tries) ==
  /\ Send(l, Request(gl, "assign", None))
  /\ proc' = [proc EXCEPT ![l][p] = [at |-> "getGM", gl |-> gl, gm |-> None, tries |-> tries]]

AskJoin(l, p, gm) ==
  /\ Send(l, Request(gm, "new", gm))
  /\ proc' = [proc EXCEPT ![l][p].at = "joinGM", ![l][p].gm = gm]

AskFinalize(l, p, tries) ==
  /\ Send(l, Request(Multicast, "finalize", proc[l][p].gm))
  /\ proc' = [proc EXCEPT ![l][p].at = "joinFinalize", ![l][p].tries = tries]

(* Mutant: a fourth try. *)
FailedFourTimes(l, p) ==
  LET s == proc[l][p] IN
  /\ CASE s.tries = 3 -> AskGL(l, p)
       [] s.tries < 3 /\ s.at = "joinFinalize" -> AskFinalize(l, p, s.tries + 1)
       [] s.tries < 3 /\ s.at # "joinFinalize" -> AskGM(l, p, s.gl, s.tries + 1)
  /\ UNCHANGED <<gmHost, joining, lcsJoined>>

(* A request failed: three tries, then join starts over. *)
Failed(l, p) ==
  LET s == proc[l][p] IN
  /\ CASE s.tries = 2 -> AskGL(l, p)
       [] s.tries < 2 /\ s.at = "joinFinalize" -> AskFinalize(l, p, s.tries + 1)
       [] s.tries < 2 /\ s.at # "joinFinalize" -> AskGM(l, p, s.gl, s.tries + 1)
  /\ UNCHANGED <<gmHost, joining, lcsJoined>>

Join(l, p) == joining' = [joining EXCEPT ![l] = TRUE] /\ AskGL(l, p)

(* Test.removeJoinedLC and putJoinedLC. *)
RemoveJoined(entry, gm) == IF entry.gms = {gm} THEN NoEntry ELSE [entry EXCEPT !.gms = @ \ {gm}]
PutJoined(entry, l, gm) ==
  IF entry.life = 0 THEN [life |-> life[l], gms |-> {gm}] ELSE [entry EXCEPT !.gms = @ \cup {gm}]

(* Mutant: lcsJoined is cleaned after the entry was put. *)
JoinEndsRemoved(l, p, gm) ==
  /\ gmHost' = [gmHost EXCEPT ![l] = gm]
  /\ joining' = [joining EXCEPT ![l] = FALSE]
  /\ lcsJoined' = [lcsJoined EXCEPT ![l] = RemoveJoined(PutJoined(@, l, gm), gm)]
  /\ proc' = [proc EXCEPT ![l] = [q \in Processes |->
                IF q = p \/ (q = "charge" /\ @[q] = Off) THEN Idle ELSE @[q]]]
  /\ UNCHANGED requests

(* joinFinalize keeps the manager that the reply names, and join ends; main  *)
(* starts the charge process after its first join.                           *)
JoinEnds(l, p, gm) ==
  /\ gmHost' = [gmHost EXCEPT ![l] = gm]
  /\ joining' = [joining EXCEPT ![l] = FALSE]
  /\ lcsJoined' = [lcsJoined EXCEPT ![l] = PutJoined(RemoveJoined(@, gm), l, gm)]
  /\ proc' = [proc EXCEPT ![l] = [q \in Processes |->
                IF q = p \/ (q = "charge" /\ @[q] = Off) THEN Idle ELSE @[q]]]
  /\ UNCHANGED requests

(* getGL takes any message and looks for the leader's beat. *)
GetGL(l, p) ==
  /\ proc[l][p].at = "getGL" /\ inbox[l] # <<>>
  /\ inbox' = [inbox EXCEPT ![l] = Tail(@)]
  /\ LET m == Head(inbox[l]) IN
     IF m.kind = "RBeatGLMsg" THEN AskGM(l, p, m.from, 0) ELSE UNCHANGED <<proc, requests>>
  /\ UNCHANGED <<central, tables, life, gmHost, joining, replies, bounds, crashes, late>>

(* The processes read their replies from one mailbox and look only at the    *)
(* class of the message.                                                     *)
Receive(l, p) ==
  /\ proc[l][p].at \in Waiting
  /\ \E i \in Arriving(l) :
       /\ IsFirst(l, i)
       /\ replies' = [replies EXCEPT ![l] = SubSeq(@, i + 1, Len(@))]
       /\ LET r == replies[l][i]  s == proc[l][p] IN
            CASE s.at = "getGM" /\ r.kind = "LCAssMsg" /\ r.gm # None ->
                   AskJoin(l, p, r.gm) /\ UNCHANGED <<gmHost, joining, lcsJoined>>
              [] s.at = "joinGM" /\ r.kind = "NewLCMsg" ->
                   AskFinalize(l, p, 0) /\ UNCHANGED <<gmHost, joining, lcsJoined>>
              [] s.at = "joinFinalize" /\ r.kind = "NewLCMsg" -> JoinEnds(l, p, r.gm)
              [] OTHER -> Failed(l, p)
  /\ UNCHANGED <<central, lcInfo, record, life, inbox, bounds, crashes, late>>

(* Replies on their way to l, requests that will have one, and processes     *)
(* that wait for one.                                                        *)
Pending(l) ==
  {i \in DOMAIN requests[l] : requests[l][i].kind # "join" /\ requests[l][i].to \in Alive}
Coming(l)  == Cardinality(Arriving(l)) + Cardinality(Pending(l))
Waiters(l) == Cardinality({p \in Processes : proc[l][p].at \in Waiting})

Timeout(l, p) ==
  /\ proc[l][p].at \in Waiting /\ Arriving(l) = {}
  /\ IF Coming(l) < Waiters(l) THEN UNCHANGED late ELSE late < bounds.late /\ late' = late + 1
  /\ Failed(l, p)
  /\ UNCHANGED <<central, lcInfo, record, life, inbox, replies, bounds, crashes>>

-----------------------------------------------------------------------------
(* What answers a controller.                                                *)

(* l's request r, the oldest to its addressee, is read. *)
IsRead(l, r) ==
  /\ r.to \in Alive
  /\ \E i \in DOMAIN requests[l] :
       /\ requests[l][i] = r
       /\ \A j \in 1..(i - 1) : requests[l][j].to # r.to
       /\ requests' = [requests EXCEPT ![l] = RemoveAt(@, i)]
Reply(l, m) == replies' = [replies EXCEPT ![l] = Append(@, m)]

(* Multicast.RunNewLC *)
MulticastNewLC(l, r) ==
  /\ r.to = Multicast /\ IsRead(l, r)
  /\ record' = [record EXCEPT ![l] = IF r.kind = "join" THEN Joining ELSE r.gm]
  /\ IF r.kind = "join" THEN UNCHANGED replies ELSE Reply(l, NewLC(Multicast, r.gm))
  /\ UNCHANGED <<central, lcInfo, lcsJoined, local, inbox, bounds, crashes, late>>

(* GroupLeader.RunLCAss; its pool outlives the leader's main process. *)
Assign(l, r) ==
  /\ r.kind = "assign" /\ IsRead(l, r)
  /\ \E gm \in IF gmInfo[r.to] = {} THEN {None} ELSE gmInfo[r.to] : Reply(l, LCAss(r.to, gm))
  /\ UNCHANGED <<central, tables, local, inbox, bounds, crashes, late>>

(* GroupManager.RunNewLC; its pool too outlives the manager. *)
ManagerNewLC(l, r) ==
  /\ r.kind = "new" /\ IsRead(l, r)
  /\ lcInfo' = [lcInfo EXCEPT ![r.to] = @ \cup {l}]
  /\ Reply(l, NewLC(r.to, r.to))
  /\ UNCHANGED <<central, record, lcsJoined, local, inbox, bounds, crashes, late>>

-----------------------------------------------------------------------------
(* Heartbeats.  A manager's beats reach the controller object that           *)
(* lcsJoined names, if Multicast has recorded it with that manager.          *)

Running == managers \cap up

(* relayGLBeats, to a controller that is joining: one beat of a leader in    *)
(* the mailbox stands for all, and the beats, every two seconds, find the    *)
(* requests to Multicast read.                                               *)
RelayGLBeat(l) ==
  /\ leader \in up /\ record[l] = Joining
  /\ \A i \in DOMAIN requests[l] : requests[l][i].to # Multicast
  /\ \A i \in DOMAIN inbox[l] : inbox[l][i] # RBeatGL(leader)
  /\ inbox' = [inbox EXCEPT ![l] = Append(@, RBeatGL(leader))]
  /\ UNCHANGED <<central, tables, local, requests, replies, bounds, crashes, late>>

Beaten(l) ==
  /\ gmHost[l] \in Running /\ l \in lcInfo[gmHost[l]]
  /\ record[l] = gmHost[l]
  /\ lcsJoined[l].life = life[l]

(* relayGMBeats finds no object: the beat fell into the end of a join. *)
RelayNobody(l) ==
  /\ record[l] \in Running /\ l \in lcInfo[record[l]] /\ lcsJoined[l] = NoEntry
  /\ late < bounds.late /\ late' = late + 1
  /\ record' = [record EXCEPT ![l] = None]
  /\ UNCHANGED <<central, lcInfo, lcsJoined, local, mail, bounds, crashes>>

(* TermGMMsg is in the mailbox. *)
Told(l) == \E i \in DOMAIN inbox[l] : inbox[l][i].kind = "TermGMMsg"

(* Mutant: gmDead does not look whether a join is under way. *)
GMDeadAnyway(l, p) ==
  /\ proc[l][p].at = "idle" /\ ~Beaten(l)
  /\ IF Told(l) THEN late < bounds.late /\ late' = late + 1 ELSE UNCHANGED late
  /\ gmHost' = [gmHost EXCEPT ![l] = None]
  /\ Join(l, p)
  /\ UNCHANGED <<lcInfo, record, lcsJoined, central, life, replies, bounds, crashes>>

(* LocalController.gmDead: a manager that stops tells its controllers, who   *)
(* have read that when its beats fail - unless it comes late.                *)
GMDead(l, p) ==
  /\ proc[l][p].at = "idle" /\ ~joining[l] /\ ~Beaten(l)
  /\ IF Told(l) THEN late < bounds.late /\ late' = late + 1 ELSE UNCHANGED late
  /\ gmHost' = [gmHost EXCEPT ![l] = None]
  /\ Join(l, p)
  /\ UNCHANGED <<lcInfo, record, lcsJoined, central, life, replies, bounds, crashes>>

(* The charge process: gmDead, twice a second. *)
ChargeFindsDead(l) == GMDead(l, "charge") /\ UNCHANGED inbox

(* The main process reads its mailbox; gmDead follows every message. *)
MainReads(l) ==
  /\ proc[l]["main"].at = "idle" /\ inbox[l] # <<>>
  /\ inbox' = [inbox EXCEPT ![l] = Tail(@)]
  /\ IF Head(inbox[l]).kind = "TermGMMsg"
     THEN /\ Join(l, "main")
          /\ UNCHANGED <<central, tables, life, gmHost, replies, bounds, crashes, late>>
     ELSE \/ GMDead(l, "main")
          \/ UNCHANGED <<central, tables, local, requests, replies, bounds, crashes, late>>

(* The charge of l, and GroupManager.main when it arrives: handleLCCharge    *)
(* stores the sender even if it is unknown, then deadLCs removes those that  *)
(* have not been heard of - not one that was stored by a join under way:     *)
(* three tries of a second end before HeartbeatTimeout.                      *)
SendsCharge(l, gm) == gmHost[l] = gm /\ proc[l]["charge"].at = "idle"
JoinsNow(l, gm) == \E p \in Processes : proc[l][p].at \in Waiting /\ proc[l][p].gm = gm

Charge(l) ==
  LET gm == gmHost[l] IN
  /\ gm \in Running /\ SendsCharge(l, gm)
  /\ \E dead \in SUBSET {k \in lcInfo[gm] : ~SendsCharge(k, gm) /\ ~JoinsNow(k, gm)} :
       /\ lcInfo' = [lcInfo EXCEPT ![gm] = (@ \cup {l}) \ dead]
       /\ lcsJoined' = [k \in LCs |-> IF k \in dead THEN RemoveJoined(lcsJoined[k], gm) ELSE lcsJoined[k]]
  /\ UNCHANGED <<central, record, local, mail, bounds, crashes, late>>

-----------------------------------------------------------------------------
(* The leader and its managers.                                              *)

(* Mutant: only a manager that has stopped is removed. *)
LeaderForgetsStopped(n) ==
  /\ leader \in up /\ n \in gmInfo[leader] \ managers
  /\ gmInfo' = [gmInfo EXCEPT ![leader] = @ \ {n}]
  /\ UNCHANGED <<up, leader, managers, tables, local, mail, bounds, crashes, late>>

(* GroupManager.glBeats: the manager registers with a leader it does not     *)
(* know; GroupLeader.gmDead: a silent manager is removed.                    *)
ManagerJoins(n) ==
  /\ leader \in up /\ n \in Running \ gmInfo[leader]
  /\ gmInfo' = [gmInfo EXCEPT ![leader] = @ \cup {n}]
  /\ UNCHANGED <<up, leader, managers, tables, local, mail, bounds, crashes, late>>

LeaderForgets(n) ==
  /\ leader \in up /\ n \in gmInfo[leader] \ Running
  /\ gmInfo' = [gmInfo EXCEPT ![leader] = @ \ {n}]
  /\ UNCHANGED <<up, leader, managers, tables, local, mail, bounds, crashes, late>>

(* The election: a manager misses the leader when a charge wakes it up       *)
(* (GroupManager.glDead), Multicast promotes a manager n, which stops and    *)
(* tells its controllers (handleGMElec, stopThisGM).                         *)
Elect(n) ==
  /\ leader \notin up
  /\ \E l \in LCs, gm \in Running : SendsCharge(l, gm)
  /\ n \in Running
  /\ leader' = n
  /\ managers' = managers \ {n}
  /\ gmInfo' = [gmInfo EXCEPT ![n] = {}]
  /\ inbox' = [l \in LCs |-> IF l \in lcInfo[n] THEN Append(inbox[l], TermGM(n)) ELSE inbox[l]]
  /\ UNCHANGED <<up, tables, local, requests, replies, bounds, crashes, late>>

-----------------------------------------------------------------------------
(* Faults.                                                                   *)

(* A service node fails, and with it the messages to and from it; its        *)
(* manager or leader is not started again.                                   *)
Crash(n) ==
  /\ crashes < bounds.crashes /\ crashes' = crashes + 1
  /\ n \in up /\ up' = up \ {n}
  /\ UNCHANGED <<leader, managers, gmInfo, tables, local, mail, bounds, late>>

(* The host of l is turned off and on: SimulatorManager.turnOn starts a new  *)
(* controller, which reads the same mailboxes.  What the old one has sent,   *)
(* or was receiving, is lost with it.                                        *)
Received(l) ==
  {i \in Arriving(l) : Cardinality({j \in Arriving(l) : j < i}) < Waiters(l)}

Restart(l) ==
  /\ l \in bounds.lcs /\ life[l] <= bounds.restarts
  /\ life' = [life EXCEPT ![l] = @ + 1]
  /\ gmHost' = [gmHost EXCEPT ![l] = None]
  /\ joining' = [joining EXCEPT ![l] = TRUE]
  /\ proc' = [proc EXCEPT ![l] = [main |-> [Idle EXCEPT !.at = "getGL"], charge |-> Off]]
  /\ requests' = [requests EXCEPT ![l] = <<Request(Multicast, "join", None)>>]
  /\ \E last \in Received(l) \cup {0} :
       /\ \A i \in Received(l) : i <= last
       /\ replies' = [replies EXCEPT ![l] = SubSeq(@, last + 1, Len(@))]
  /\ inbox' = [inbox EXCEPT ![l] = SubSeq(@, 2, Len(@))]
  /\ UNCHANGED <<central, tables, bounds, crashes, late>>

-----------------------------------------------------------------------------
Requests(l) == {requests[l][i] : i \in DOMAIN requests[l]}

Answered(l) == \E r \in Requests(l) : MulticastNewLC(l, r) \/ Assign(l, r) \/ ManagerNewLC(l, r)

Next ==
  \/ \E l \in LCs, p \in Processes : GetGL(l, p) \/ Receive(l, p) \/ Timeout(l, p)
  \/ \E l \in LCs : \/ Answered(l) \/ RelayGLBeat(l) \/ RelayNobody(l) \/ ChargeFindsDead(l)
                    \/ MainReads(l) \/ Charge(l) \/ Restart(l)
  \/ \E n \in Nodes : ManagerJoins(n) \/ LeaderForgets(n) \/ Elect(n) \/ Crash(n)

(* Processes run, messages arrive and timeouts expire; nothing has to fail.  *)
(* The processes that receive from one mailbox are served in their order.    *)
Fairness ==
  /\ \A l \in LCs, p \in Processes :
       SF_vars(GetGL(l, p)) /\ WF_vars(Receive(l, p) \/ Timeout(l, p))
  /\ \A l \in LCs : /\ WF_vars(Answered(l)) /\ WF_vars(RelayGLBeat(l)) /\ WF_vars(MainReads(l))
                    /\ WF_vars(Charge(l)) /\ WF_vars(ChargeFindsDead(l))
  /\ WF_vars(\E n \in Nodes : ManagerJoins(n) \/ LeaderForgets(n))
  /\ WF_vars(\E n \in Nodes : Elect(n))

Spec == Init /\ [][Next]_vars /\ Fairness

-----------------------------------------------------------------------------
(* Properties.                                                               *)

InStep(l)  == Coming(l) <= Waiters(l)
Alone(l)   == \E p \in Processes : proc[l][p].at \in {"off", "idle"}
Known(l)   == lcsJoined[l].life \in {0, life[l]}
Settled(l) == ~joining[l] /\ Beaten(l) /\ gmHost[l] \in gmInfo[leader]

(* A manager that listed l has become a leader, and has told it so.          *)
Dismissed(l) == \E n \in Nodes \ managers : l \in lcInfo[n]

(* However nodes and controllers fail, only one process of a controller      *)
(* joins, as long as no message is late and none of the managers that list   *)
(* the controller has been promoted: gmDead is called by both processes, and *)
(* main joins on a TermGMMsg without looking whether the other does.         *)
OneJoin == late = 0 => \A l \in LCs : Alone(l) \/ Dismissed(l)

(* The three kinds of replies share a mailbox and are told apart by their    *)
(* class only.  Under the same conditions what a controller reads comes from *)
(* the one it asked, across failures and restarts.                           *)
Asked(s) == CASE s.at = "getGM" -> s.gl [] s.at = "joinGM" -> s.gm [] OTHER -> Multicast

AnswersMatch ==
  [][late = 0 =>
       \A l \in LCs, p \in Processes :
         Receive(l, p) /\ ~Dismissed(l) =>
           \A i \in DOMAIN replies[l] : IsFirst(l, i) => replies[l][i].from = Asked(proc[l][p])]_vars

(* A controller that sends its charge to a manager is in lcsJoined with it,  *)
(* through which Multicast finds it for the manager's beats, although other  *)
(* managers take it off their lists, and it has joined others before.        *)
JoinedIsListed ==
  \A l \in LCs, gm \in Nodes : SendsCharge(l, gm) =>
    lcsJoined[l].life # 0 /\ gm \in lcsJoined[l].gms

(* A controller settles: it has joined a manager that the leader knows and   *)
(* whose beats reach it, whatever failed and whatever was late, if only in   *)
(* the end there is a leader, no reply is left over from an earlier request, *)
(* its processes do not join at the same time and lcsJoined does not hold an *)
(* object from before a restart.  Each of the four keeps it out for ever.    *)
Joins == \A l \in LCs :
  <>[](l \in bounds.lcs /\ leader \in up /\ InStep(l) /\ Alone(l) /\ Known(l)) => <>[]Settled(l)

=============================================================================
