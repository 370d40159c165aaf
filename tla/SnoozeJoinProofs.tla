--------------------------- MODULE SnoozeJoinProofs ---------------------------
(***************************************************************************)
(* Theorems about SnoozeJoin, for any number of controllers and service    *)
(* nodes and any bounds on what fails and what is late.                    *)
(***************************************************************************)
EXTENDS SnoozeJoin, FiniteSetTheorems, TLAPS

-----------------------------------------------------------------------------
(* Sequences.                                                                *)

LEMMA HeadAndTail ==
  ASSUME NEW S, NEW s \in Seq(S), s # <<>>
  PROVE  Head(s) \in S /\ Tail(s) \in Seq(S)
  OBVIOUS

LEMMA SuffixType ==
  ASSUME NEW S, NEW s \in Seq(S), NEW i \in Nat, i <= Len(s)
  PROVE  /\ SubSeq(s, i + 1, Len(s)) \in Seq(S)
         /\ Len(SubSeq(s, i + 1, Len(s))) = Len(s) - i
         /\ \A j \in 1..(Len(s) - i) : SubSeq(s, i + 1, Len(s))[j] = s[j + i]
  OBVIOUS

LEMMA ConcatParts ==
  ASSUME NEW S, NEW a \in Seq(S), NEW b \in Seq(S)
  PROVE  /\ a \o b \in Seq(S) /\ Len(a \o b) = Len(a) + Len(b)
         /\ \A j \in 1..Len(a) : (a \o b)[j] = a[j]
         /\ \A j \in 1..Len(b) : (a \o b)[Len(a) + j] = b[j]
  OBVIOUS

LEMMA PrefixType ==
  ASSUME NEW S, NEW s \in Seq(S), NEW i \in Nat, i <= Len(s)
  PROVE  /\ SubSeq(s, 1, i) \in Seq(S) /\ Len(SubSeq(s, 1, i)) = i
         /\ \A j \in 1..i : SubSeq(s, 1, i)[j] = s[j]
  OBVIOUS

LEMMA RemoveAtType ==
  ASSUME NEW S, NEW s \in Seq(S), NEW i \in 1..Len(s)
  PROVE  /\ RemoveAt(s, i) \in Seq(S)
         /\ Len(RemoveAt(s, i)) = Len(s) - 1
         /\ \A j \in 1..(Len(s) - 1) :
              RemoveAt(s, i)[j] = IF j < i THEN s[j] ELSE s[j + 1]
<1> DEFINE a == SubSeq(s, 1, i - 1)
           b == SubSeq(s, i + 1, Len(s))
           n == Len(s)
<1>0. n \in Nat /\ i \in Nat /\ 1 <= i /\ i <= n
  OBVIOUS
<1>1. /\ a \in Seq(S) /\ Len(a) = i - 1
      /\ \A j \in 1..(i - 1) : a[j] = s[j]
  BY <1>0, PrefixType
<1>2. /\ b \in Seq(S) /\ Len(b) = n - i
      /\ \A j \in 1..(n - i) : b[j] = s[j + i]
  BY <1>0, SuffixType
<1>3. RemoveAt(s, i) = a \o b
  BY DEF RemoveAt
<1> HIDE DEF a, b
<1>4. RemoveAt(s, i) \in Seq(S) /\ Len(RemoveAt(s, i)) = n - 1
  <2>1. (i - 1) + (n - i) = n - 1
    BY <1>0
  <2> HIDE DEF n
  <2>2. /\ a \o b \in Seq(S)
        /\ Len(a \o b) = Len(a) + Len(b)
    BY <1>1, <1>2, ConcatParts
  <2> QED BY <1>1, <1>2, <1>3, <2>1, <2>2
<1>5. ASSUME NEW j \in 1..(n - 1) PROVE RemoveAt(s, i)[j] = IF j < i THEN s[j] ELSE s[j + 1]
  <2>1. CASE j < i
    <3>1. j \in 1..(i - 1)
      BY <1>0, <2>1
    <3> QED BY <1>1, <1>2, <1>3, <2>1, <3>1, ConcatParts
  <2>2. CASE i <= j
    <3> DEFINE k == j - (i - 1)
    <3>1. k \in 1..(n - i) /\ k + i = j + 1 /\ (i - 1) + k = j /\ ~(j < i)
      BY <1>0, <2>2
    <3> HIDE DEF k
    <3>2. (a \o b)[(i - 1) + k] = b[k]
      BY <1>1, <1>2, <3>1, ConcatParts
    <3> QED BY <1>2, <1>3, <3>1, <3>2
  <2> QED BY <1>0, <2>1, <2>2
<1> QED BY <1>4, <1>5

-----------------------------------------------------------------------------
(* What every request of a join has in common.                               *)

(* Process p of l sends a request and waits for what answers it: a beat of   *)
(* the leader or a reply.                                                    *)
Asks(l, p) ==
  \E s \in ProcState, r \in RequestMsg :
    /\ Send(l, r)
    /\ proc' = [proc EXCEPT ![l][p] = s]
    /\ \/ s.at = "getGL" /\ r.kind = "join"
       \/ s.at \in Waiting /\ r.kind # "join" /\ r.to = Asked(s)

LEMMA StateOfProcess ==
  ASSUME TypeOK, NEW l \in LCs, NEW p \in Processes
  PROVE  /\ proc[l][p] \in ProcState
         /\ proc[l][p].at \in Waiting => proc[l][p].tries \in 0..2 /\ proc[l][p].gl \in Nodes
         /\ proc[l][p].at = "getGM" =>
              proc[l][p] \in [at : {"getGM"}, gl : Nodes, gm : {None}, tries : 0..2]
         /\ proc[l][p].at \in {"joinGM", "joinFinalize"} =>
              proc[l][p] \in [at : {"joinGM", "joinFinalize"}, gl : Nodes, gm : Nodes, tries : 0..2]
<1>1. proc \in [LCs -> [Processes -> ProcState]]
  BY DEF TypeOK
<1>2. proc[l][p] \in ProcState
  BY <1>1
<1>3. ASSUME NEW s \in ProcState
      PROVE  /\ s.at \in Waiting => s.tries \in 0..2 /\ s.gl \in Nodes
             /\ s.at = "getGM" => s \in [at : {"getGM"}, gl : Nodes, gm : {None}, tries : 0..2]
             /\ s.at \in {"joinGM", "joinFinalize"} =>
                  s \in [at : {"joinGM", "joinFinalize"}, gl : Nodes, gm : Nodes, tries : 0..2]
  BY DEF ProcState, Waiting
<1> QED BY <1>2, <1>3

LEMMA AskGLAsks ==
  ASSUME NEW l \in LCs, NEW p \in Processes, AskGL(l, p)
  PROVE  Asks(l, p)
<1> DEFINE s == [Idle EXCEPT !.at = "getGL"]
           r == Request(Multicast, "join", None)
<1>1. s \in ProcState /\ s.at = "getGL"
  BY DEF Idle, ProcState
<1>2. r \in RequestMsg /\ r.kind = "join"
  BY DEF Request, RequestMsg
<1>3. Send(l, r) /\ proc' = [proc EXCEPT ![l][p] = s]
  BY DEF AskGL
<1> HIDE DEF s, r
<1> QED BY <1>1, <1>2, <1>3 DEF Asks

LEMMA AskGMAsks ==
  ASSUME NEW l \in LCs, NEW p \in Processes, NEW gl \in Nodes, NEW tries \in 0..2,
         AskGM(l, p, gl, tries)
  PROVE  Asks(l, p)
<1> DEFINE s == [at |-> "getGM", gl |-> gl, gm |-> None, tries |-> tries]
           r == Request(gl, "assign", None)
<1>1. s \in ProcState /\ s.at \in Waiting /\ Asked(s) = gl
  BY DEF ProcState, Waiting, Asked
<1>2. r \in RequestMsg /\ r.kind # "join" /\ r.to = gl
  BY DEF Request, RequestMsg
<1>3. Send(l, r) /\ proc' = [proc EXCEPT ![l][p] = s]
  BY DEF AskGM
<1> HIDE DEF s, r
<1> QED BY <1>1, <1>2, <1>3 DEF Asks

LEMMA AskJoinAsks ==
  ASSUME TypeOK, NEW l \in LCs, NEW p \in Processes, NEW gm \in Nodes,
         proc[l][p].at = "getGM", AskJoin(l, p, gm)
  PROVE  Asks(l, p)
<1> DEFINE s == [proc[l][p] EXCEPT !.at = "joinGM", !.gm = gm]
           r == Request(gm, "new", gm)
<1>1. proc[l][p] \in [at : {"getGM"}, gl : Nodes, gm : {None}, tries : 0..2]
  BY StateOfProcess
<1>2. s \in ProcState /\ s.at \in Waiting /\ Asked(s) = gm
  BY <1>1 DEF ProcState, Waiting, Asked
<1>3. r \in RequestMsg /\ r.kind # "join" /\ r.to = gm
  BY DEF Request, RequestMsg
<1>4. Send(l, r) /\ proc' = [proc EXCEPT ![l][p] = s]
  BY DEF AskJoin, TypeOK
<1> HIDE DEF s, r
<1> QED BY <1>2, <1>3, <1>4 DEF Asks

LEMMA AskFinalizeAsks ==
  ASSUME TypeOK, NEW l \in LCs, NEW p \in Processes, NEW tries \in 0..2,
         proc[l][p].at \in {"joinGM", "joinFinalize"}, AskFinalize(l, p, tries)
  PROVE  Asks(l, p)
<1> DEFINE s == [proc[l][p] EXCEPT !.at = "joinFinalize", !.tries = tries]
           r == Request(Multicast, "finalize", proc[l][p].gm)
<1>1. proc[l][p] \in [at : {"joinGM", "joinFinalize"}, gl : Nodes, gm : Nodes, tries : 0..2]
  BY StateOfProcess
<1>2. s \in ProcState /\ s.at \in Waiting /\ Asked(s) = Multicast
  BY <1>1 DEF ProcState, Waiting, Asked
<1>3. r \in RequestMsg /\ r.kind # "join" /\ r.to = Multicast
  BY <1>1 DEF Request, RequestMsg
<1>4. Send(l, r) /\ proc' = [proc EXCEPT ![l][p] = s]
  BY DEF AskFinalize, TypeOK
<1> HIDE DEF s, r
<1> QED BY <1>2, <1>3, <1>4 DEF Asks

LEMMA FailedAsks ==
  ASSUME TypeOK, NEW l \in LCs, NEW p \in Processes,
         proc[l][p].at \in Waiting, Failed(l, p)
  PROVE  Asks(l, p) /\ UNCHANGED <<gmHost, joining, lcsJoined>>
<1> DEFINE s == proc[l][p]
<1>1. s.at \in Waiting /\ s.tries \in 0..2 /\ s.gl \in Nodes
  BY StateOfProcess
<1>2. CASE s.tries = 2
  BY <1>2, AskGLAsks DEF Failed
<1>3. CASE s.tries < 2 /\ s.at = "joinFinalize"
  <2>1. s.tries + 1 \in 0..2 /\ s.tries # 2
    BY <1>1, <1>3
  <2>2. AskFinalize(l, p, s.tries + 1)
    BY <1>3, <2>1 DEF Failed
  <2> QED BY <1>3, <2>1, <2>2, AskFinalizeAsks DEF Failed
<1>4. CASE s.tries < 2 /\ s.at # "joinFinalize"
  <2>1. s.tries + 1 \in 0..2 /\ s.tries # 2
    BY <1>1, <1>4
  <2>2. AskGM(l, p, s.gl, s.tries + 1)
    BY <1>4, <2>1 DEF Failed
  <2> QED BY <1>1, <2>1, <2>2, AskGMAsks DEF Failed
<1> QED BY <1>1, <1>2, <1>3, <1>4

(* What a process does with the reply it reads: it asks again, or its join   *)
(* ends.                                                                     *)
Reads(l, p) ==
  \/ Asks(l, p) /\ UNCHANGED <<gmHost, joining, lcsJoined>>
  \/ proc[l][p].at \in Waiting /\ \E gm \in Nodes : JoinEnds(l, p, gm)

LEMMA ReceiveReads ==
  ASSUME TypeOK, NEW l \in LCs, NEW p \in Processes, Receive(l, p)
  PROVE  /\ proc[l][p].at \in Waiting /\ Reads(l, p)
         /\ \E i \in Arriving(l) :
              /\ IsFirst(l, i)
              /\ replies' = [replies EXCEPT ![l] = SubSeq(@, i + 1, Len(@))]
         /\ UNCHANGED <<central, lcInfo, record, life, inbox, bounds, crashes, late>>
<1> DEFINE s == proc[l][p]
<1>1. s.at \in Waiting
  BY DEF Receive
<1>2. PICK i \in Arriving(l) :
        /\ IsFirst(l, i)
        /\ replies' = [replies EXCEPT ![l] = SubSeq(@, i + 1, Len(@))]
        /\ LET r == replies[l][i] IN
             CASE s.at = "getGM" /\ r.kind = "LCAssMsg" /\ r.gm # None ->
                    AskJoin(l, p, r.gm) /\ UNCHANGED <<gmHost, joining, lcsJoined>>
               [] s.at = "joinGM" /\ r.kind = "NewLCMsg" ->
                    AskFinalize(l, p, 0) /\ UNCHANGED <<gmHost, joining, lcsJoined>>
               [] s.at = "joinFinalize" /\ r.kind = "NewLCMsg" -> JoinEnds(l, p, r.gm)
               [] OTHER -> Failed(l, p)
  BY DEF Receive
<1> DEFINE r == replies[l][i]
<1>3. r \in ReplyMsg
  BY <1>2 DEF TypeOK, Arriving
<1>4. Reads(l, p)
  <2>1. CASE s.at = "getGM" /\ r.kind = "LCAssMsg" /\ r.gm # None
    <3>1. r.gm \in Nodes
      BY <1>3, <2>1 DEF ReplyMsg, NameOrNone
    <3>2. AskJoin(l, p, r.gm) /\ UNCHANGED <<gmHost, joining, lcsJoined>>
      BY <1>2, <2>1
    <3> QED BY <2>1, <3>1, <3>2, AskJoinAsks DEF Reads
  <2>2. CASE s.at = "joinGM" /\ r.kind = "NewLCMsg"
    <3>1. AskFinalize(l, p, 0) /\ UNCHANGED <<gmHost, joining, lcsJoined>>
      BY <1>2, <2>2
    <3> QED BY <2>2, <3>1, AskFinalizeAsks DEF Reads
  <2>3. CASE s.at = "joinFinalize" /\ r.kind = "NewLCMsg"
    <3>1. r.gm \in Nodes
      BY <1>3, <2>3 DEF ReplyMsg
    <3>2. JoinEnds(l, p, r.gm)
      BY <1>2, <2>3
    <3> QED BY <1>1, <3>1, <3>2 DEF Reads
  <2>4. CASE /\ ~(s.at = "getGM" /\ r.kind = "LCAssMsg" /\ r.gm # None)
             /\ ~(s.at = "joinGM" /\ r.kind = "NewLCMsg")
             /\ ~(s.at = "joinFinalize" /\ r.kind = "NewLCMsg")
    <3>1. Failed(l, p)
      BY <1>2, <2>4
    <3> QED BY <1>1, <3>1, FailedAsks DEF Reads
  <2> QED BY <2>1, <2>2, <2>3, <2>4
<1> QED BY <1>1, <1>2, <1>4 DEF Receive

-----------------------------------------------------------------------------
(* Type correctness.                                                         *)

LEMMA BoundTypes ==
  ASSUME TypeOK
  PROVE  /\ bounds.lcs \subseteq LCs /\ bounds.restarts \in Nat
         /\ bounds.crashes \in Nat /\ bounds.late \in Nat
  BY BoundsAssumption DEF TypeOK, Bound

LEMMA InitType == Init => TypeOK
<1> SUFFICES ASSUME Init PROVE TypeOK
  OBVIOUS
<1> DEFINE r == Request(Multicast, "join", None)
           s == [Idle EXCEPT !.at = "getGL"]
<1>1. bounds \in Bounds /\ bounds.restarts \in Nat /\ bounds.crashes \in Nat /\ bounds.late \in Nat
  BY BoundsAssumption DEF Init, Bound
<1>2. r \in RequestMsg
  BY DEF Request, RequestMsg
<1>3. s \in ProcState /\ Off \in ProcState
  BY DEF Idle, Off, ProcState
<1> HIDE DEF r, s
<1>4. <<r>> \in Seq(RequestMsg) /\ <<>> \in Seq(RequestMsg)
      /\ <<>> \in Seq(InboxMsg) /\ <<>> \in Seq(ReplyMsg)
  BY <1>2
<1>5. requests \in [LCs -> Seq(RequestMsg)] /\ inbox \in [LCs -> Seq(InboxMsg)]
      /\ replies \in [LCs -> Seq(ReplyMsg)]
  <2>1. requests = [l \in LCs |-> IF l \in bounds.lcs THEN <<r>> ELSE <<>>]
    BY DEF Init, r
  <2>2. inbox = [l \in LCs |-> <<>>] /\ replies = [l \in LCs |-> <<>>]
    BY DEF Init
  <2> QED BY <1>4, <2>1, <2>2
<1>6. proc \in [LCs -> [Processes -> ProcState]]
  <2>1. proc = [l \in LCs |-> [main |-> IF l \in bounds.lcs THEN s ELSE Off, charge |-> Off]]
    BY DEF Init, s
  <2>2. \A x, y \in ProcState : [main |-> x, charge |-> y] \in [Processes -> ProcState]
    BY DEF Processes
  <2> QED BY <1>3, <2>1, <2>2
<1>7. lcsJoined \in [LCs -> [life : 0..bounds.restarts + 1, gms : SUBSET Nodes]]
  <2>1. NoEntry \in [life : 0..bounds.restarts + 1, gms : SUBSET Nodes]
    BY <1>1 DEF NoEntry
  <2> QED BY <2>1 DEF Init
<1>8. /\ up \subseteq Nodes /\ leader \in Nodes /\ managers \subseteq Nodes \ {leader}
      /\ gmInfo \in [Nodes -> SUBSET Nodes] /\ lcInfo \in [Nodes -> SUBSET LCs]
  BY DEF Init
<1>9. /\ record \in [LCs -> Nodes \cup {None, Joining}]
      /\ life \in [LCs -> 1..bounds.restarts + 1]
      /\ gmHost \in [LCs -> NameOrNone] /\ joining \in [LCs -> BOOLEAN]
      /\ crashes \in 0..bounds.crashes /\ late \in 0..bounds.late
  BY <1>1 DEF Init, NameOrNone
<1> QED BY <1>1, <1>5, <1>6, <1>7, <1>8, <1>9 DEF TypeOK

LEMMA SendType ==
  ASSUME TypeOK, NEW l \in LCs, NEW r \in RequestMsg, Send(l, r)
  PROVE  requests' \in [LCs -> Seq(RequestMsg)]
<1>1. requests \in [LCs -> Seq(RequestMsg)]
  BY DEF TypeOK
<1>2. Append(requests[l], r) \in Seq(RequestMsg)
  BY <1>1
<1> QED BY <1>1, <1>2 DEF Send

LEMMA ProcType ==
  ASSUME TypeOK, NEW l \in LCs, NEW p \in Processes, NEW s \in ProcState,
         proc' = [proc EXCEPT ![l][p] = s]
  PROVE  proc' \in [LCs -> [Processes -> ProcState]]
<1>1. proc \in [LCs -> [Processes -> ProcState]]
  BY DEF TypeOK
<1> QED BY <1>1

LEMMA AsksType ==
  ASSUME TypeOK, NEW l \in LCs, NEW p \in Processes, Asks(l, p)
  PROVE  requests' \in [LCs -> Seq(RequestMsg)] /\ proc' \in [LCs -> [Processes -> ProcState]]
  BY SendType, ProcType DEF Asks

LEMMA EntryType ==
  ASSUME TypeOK, NEW gm \in Nodes, NEW l \in LCs,
         NEW e \in [life : 0..bounds.restarts + 1, gms : SUBSET Nodes]
  PROVE  /\ RemoveJoined(e, gm) \in [life : 0..bounds.restarts + 1, gms : SUBSET Nodes]
         /\ PutJoined(e, l, gm) \in [life : 0..bounds.restarts + 1, gms : SUBSET Nodes]
<1>1. bounds.restarts \in Nat /\ life[l] \in 1..bounds.restarts + 1
  BY BoundTypes DEF TypeOK
<1> QED BY <1>1 DEF RemoveJoined, PutJoined, NoEntry

(* What is left of a process and of its neighbour when a join ends.          *)
LEMMA JoinEndsProc ==
  ASSUME TypeOK, NEW l \in LCs, NEW p \in Processes, NEW gm \in Nodes, JoinEnds(l, p, gm)
  PROVE  /\ proc' \in [LCs -> [Processes -> ProcState]]
         /\ \A k \in LCs \ {l} : proc'[k] = proc[k]
         /\ \A q \in Processes : proc'[l][q] = Idle \/ (q # p /\ proc'[l][q] = proc[l][q])
<1>1. proc \in [LCs -> [Processes -> ProcState]]
  BY DEF TypeOK
<1>2. Idle \in ProcState /\ Off \in ProcState
  BY DEF Idle, Off, ProcState
<1> DEFINE f == [q \in Processes |->
                  IF q = p \/ (q = "charge" /\ proc[l][q] = Off) THEN Idle ELSE proc[l][q]]
<1>3. proc' = [proc EXCEPT ![l] = f]
  BY <1>1 DEF JoinEnds
<1>4. ASSUME NEW q \in Processes
      PROVE  f[q] \in ProcState /\ (f[q] = Idle \/ (q # p /\ f[q] = proc[l][q]))
  <2>1. proc[l][q] \in ProcState
    BY <1>1
  <2> QED BY <1>2, <2>1
<1>5. f \in [Processes -> ProcState]
  BY <1>4
<1> HIDE DEF f
<1> QED BY <1>1, <1>3, <1>4, <1>5

LEMMA JoinEndsType ==
  ASSUME TypeOK, NEW l \in LCs, NEW p \in Processes, NEW gm \in Nodes, JoinEnds(l, p, gm)
  PROVE  /\ requests' \in [LCs -> Seq(RequestMsg)] /\ proc' \in [LCs -> [Processes -> ProcState]]
         /\ gmHost' \in [LCs -> NameOrNone] /\ joining' \in [LCs -> BOOLEAN]
         /\ lcsJoined' \in [LCs -> [life : 0..bounds.restarts + 1, gms : SUBSET Nodes]]
<1>1. requests' \in [LCs -> Seq(RequestMsg)]
  BY DEF TypeOK, JoinEnds
<1>2. proc' \in [LCs -> [Processes -> ProcState]]
  BY JoinEndsProc
<1>3. gmHost' \in [LCs -> NameOrNone] /\ joining' \in [LCs -> BOOLEAN]
  BY DEF TypeOK, JoinEnds, NameOrNone
<1>4. lcsJoined' \in [LCs -> [life : 0..bounds.restarts + 1, gms : SUBSET Nodes]]
  <2>1. lcsJoined \in [LCs -> [life : 0..bounds.restarts + 1, gms : SUBSET Nodes]]
    BY DEF TypeOK
  <2>2. PutJoined(RemoveJoined(lcsJoined[l], gm), l, gm)
          \in [life : 0..bounds.restarts + 1, gms : SUBSET Nodes]
    BY <2>1, EntryType
  <2>3. lcsJoined' = [lcsJoined EXCEPT ![l] = PutJoined(RemoveJoined(lcsJoined[l], gm), l, gm)]
    BY DEF JoinEnds
  <2> QED BY <2>1, <2>2, <2>3
<1> QED BY <1>1, <1>2, <1>3, <1>4

LEMMA RequestsType ==
  ASSUME TypeOK, NEW l \in LCs, NEW r \in Requests(l)
  PROVE  r \in RequestMsg
<1>1. requests[l] \in Seq(RequestMsg)
  BY DEF TypeOK
<1> QED BY <1>1 DEF Requests

LEMMA IsReadType ==
  ASSUME TypeOK, NEW l \in LCs, NEW r, IsRead(l, r)
  PROVE  requests' \in [LCs -> Seq(RequestMsg)]
<1>1. requests \in [LCs -> Seq(RequestMsg)]
  BY DEF TypeOK
<1>2. PICK i \in DOMAIN requests[l] : requests' = [requests EXCEPT ![l] = RemoveAt(@, i)]
  BY DEF IsRead
<1>3. i \in 1..Len(requests[l])
  BY <1>1
<1>4. RemoveAt(requests[l], i) \in Seq(RequestMsg)
  BY <1>1, <1>3, RemoveAtType
<1> QED BY <1>1, <1>2, <1>4

LEMMA ReplyType ==
  ASSUME TypeOK, NEW l \in LCs, NEW m \in ReplyMsg, Reply(l, m)
  PROVE  replies' \in [LCs -> Seq(ReplyMsg)]
<1>1. replies \in [LCs -> Seq(ReplyMsg)]
  BY DEF TypeOK
<1>2. Append(replies[l], m) \in Seq(ReplyMsg)
  BY <1>1
<1> QED BY <1>1, <1>2 DEF Reply

LEMMA InboxTypes ==
  ASSUME TypeOK, NEW l \in LCs
  PROVE  /\ \A m \in InboxMsg : Append(inbox[l], m) \in Seq(InboxMsg)
         /\ inbox[l] # <<>> => Head(inbox[l]) \in InboxMsg /\ Tail(inbox[l]) \in Seq(InboxMsg)
         /\ SubSeq(inbox[l], 2, Len(inbox[l])) \in Seq(InboxMsg)
<1>1. inbox[l] \in Seq(InboxMsg)
  BY DEF TypeOK
<1>2. ASSUME NEW s \in Seq(InboxMsg)
      PROVE  /\ \A m \in InboxMsg : Append(s, m) \in Seq(InboxMsg)
             /\ s # <<>> => Head(s) \in InboxMsg /\ Tail(s) \in Seq(InboxMsg)
             /\ SubSeq(s, 2, Len(s)) \in Seq(InboxMsg)
  <2>1. SubSeq(s, 2, Len(s)) \in Seq(InboxMsg)
    <3>1. CASE s = <<>>
      BY <3>1
    <3>2. CASE s # <<>>
      <4>1. 1 <= Len(s)
        BY <3>2
      <4> QED BY <4>1, SuffixType
    <3> QED BY <3>1, <3>2
  <2> QED BY <2>1, HeadAndTail
<1> QED BY <1>1, <1>2

LEMMA RepliesType ==
  ASSUME TypeOK, NEW l \in LCs, NEW i \in DOMAIN replies[l] \cup {0}
  PROVE  /\ i \in Nat /\ i <= Len(replies[l])
         /\ SubSeq(replies[l], i + 1, Len(replies[l])) \in Seq(ReplyMsg)
<1>1. replies[l] \in Seq(ReplyMsg)
  BY DEF TypeOK
<1>2. i \in Nat /\ i <= Len(replies[l])
  BY <1>1
<1> QED BY <1>1, <1>2, SuffixType

LEMMA JoinType ==
  ASSUME TypeOK, NEW l \in LCs, NEW p \in Processes, Join(l, p)
  PROVE  /\ Asks(l, p)
         /\ joining' = [joining EXCEPT ![l] = TRUE] /\ joining' \in [LCs -> BOOLEAN]
         /\ requests' \in [LCs -> Seq(RequestMsg)] /\ proc' \in [LCs -> [Processes -> ProcState]]
<1>1. AskGL(l, p) /\ joining' = [joining EXCEPT ![l] = TRUE]
  BY DEF Join
<1>2. Asks(l, p)
  BY <1>1, AskGLAsks
<1>3. joining' \in [LCs -> BOOLEAN]
  BY <1>1 DEF TypeOK
<1> QED BY <1>1, <1>2, <1>3, AsksType

LEMMA GMDeadType ==
  ASSUME TypeOK, NEW l \in LCs, NEW p \in Processes, GMDead(l, p)
  PROVE  /\ proc' \in [LCs -> [Processes -> ProcState]] /\ requests' \in [LCs -> Seq(RequestMsg)]
         /\ gmHost' \in [LCs -> NameOrNone] /\ joining' \in [LCs -> BOOLEAN]
         /\ late' \in 0..bounds.late
<1>1. Join(l, p)
  BY DEF GMDead
<1>2. gmHost' \in [LCs -> NameOrNone]
  BY DEF GMDead, TypeOK, NameOrNone
<1>3. late' \in 0..bounds.late
  BY BoundTypes DEF GMDead, TypeOK
<1> QED BY <1>1, <1>2, <1>3, JoinType

LEMMA NextType == TypeOK /\ [Next]_vars => TypeOK'
<1> SUFFICES ASSUME TypeOK, [Next]_vars PROVE TypeOK'
  OBVIOUS
<1> USE DEF central, tables, local, mail
<1>1. CASE UNCHANGED vars
  BY <1>1 DEF TypeOK, vars
<1>2. ASSUME NEW l \in LCs, NEW p \in Processes, GetGL(l, p) PROVE TypeOK'
  <2>1. Head(inbox[l]) \in InboxMsg /\ Tail(inbox[l]) \in Seq(InboxMsg)
    BY <1>2, InboxTypes DEF GetGL
  <2>2. inbox' \in [LCs -> Seq(InboxMsg)]
    BY <1>2, <2>1 DEF GetGL, TypeOK
  <2>3. Asks(l, p) \/ UNCHANGED <<proc, requests>>
    <3>1. Head(inbox[l]).from \in Nodes
      BY <2>1 DEF InboxMsg
    <3> QED BY <1>2, <3>1, AskGMAsks DEF GetGL
  <2>4. requests' \in [LCs -> Seq(RequestMsg)] /\ proc' \in [LCs -> [Processes -> ProcState]]
    BY <2>3, AsksType DEF TypeOK
  <2> QED BY <1>2, <2>2, <2>4 DEF GetGL, TypeOK
<1>3. ASSUME NEW l \in LCs, NEW p \in Processes, Receive(l, p) PROVE TypeOK'
  <2>1. Reads(l, p) /\ UNCHANGED <<central, lcInfo, record, life, inbox, bounds, crashes, late>>
    BY <1>3, ReceiveReads
  <2>2. PICK i \in Arriving(l) : replies' = [replies EXCEPT ![l] = SubSeq(@, i + 1, Len(@))]
    BY <1>3, ReceiveReads
  <2>3. replies' \in [LCs -> Seq(ReplyMsg)]
    BY <2>2, RepliesType DEF Arriving, TypeOK
  <2>4. /\ requests' \in [LCs -> Seq(RequestMsg)] /\ proc' \in [LCs -> [Processes -> ProcState]]
        /\ gmHost' \in [LCs -> NameOrNone] /\ joining' \in [LCs -> BOOLEAN]
        /\ lcsJoined' \in [LCs -> [life : 0..bounds.restarts + 1, gms : SUBSET Nodes]]
    <3>1. CASE Asks(l, p) /\ UNCHANGED <<gmHost, joining, lcsJoined>>
      BY <3>1, AsksType DEF TypeOK
    <3>2. CASE \E gm \in Nodes : JoinEnds(l, p, gm)
      BY <3>2, JoinEndsType
    <3> QED BY <2>1, <3>1, <3>2 DEF Reads
  <2> QED BY <2>1, <2>3, <2>4 DEF TypeOK
<1>4. ASSUME NEW l \in LCs, NEW p \in Processes, Timeout(l, p) PROVE TypeOK'
  <2>1. Asks(l, p) /\ UNCHANGED <<gmHost, joining, lcsJoined>>
    BY <1>4, FailedAsks DEF Timeout
  <2>2. requests' \in [LCs -> Seq(RequestMsg)] /\ proc' \in [LCs -> [Processes -> ProcState]]
    BY <2>1, AsksType
  <2>3. late' \in 0..bounds.late
    BY <1>4, BoundTypes DEF Timeout, TypeOK
  <2> QED BY <1>4, <2>1, <2>2, <2>3 DEF Timeout, TypeOK
<1>5. ASSUME NEW l \in LCs, NEW r \in Requests(l), MulticastNewLC(l, r) PROVE TypeOK'
  <2>1. r \in RequestMsg /\ requests' \in [LCs -> Seq(RequestMsg)]
    BY <1>5, RequestsType, IsReadType DEF MulticastNewLC
  <2>2. record' \in [LCs -> Nodes \cup {None, Joining}]
    BY <1>5, <2>1, NodesAssumption DEF MulticastNewLC, TypeOK, RequestMsg
  <2>3. replies' \in [LCs -> Seq(ReplyMsg)]
    <3>1. CASE r.kind = "join"
      BY <1>5, <3>1 DEF MulticastNewLC, TypeOK
    <3>2. CASE r.kind # "join"
      <4>1. NewLC(Multicast, r.gm) \in ReplyMsg
        BY <1>5, <2>1, <3>2, NodesAssumption DEF MulticastNewLC, RequestMsg, NewLC, ReplyMsg
      <4> QED BY <1>5, <3>2, <4>1, ReplyType DEF MulticastNewLC
    <3> QED BY <3>1, <3>2
  <2> QED BY <1>5, <2>1, <2>2, <2>3 DEF MulticastNewLC, TypeOK
<1>6. ASSUME NEW l \in LCs, NEW r \in Requests(l), Assign(l, r) PROVE TypeOK'
  <2>1. r \in RequestMsg /\ requests' \in [LCs -> Seq(RequestMsg)]
    BY <1>6, RequestsType, IsReadType DEF Assign
  <2>2. r.to \in Nodes /\ gmInfo[r.to] \subseteq Nodes
    BY <1>6, <2>1 DEF Assign, RequestMsg, TypeOK
  <2>3. PICK gm \in NameOrNone : Reply(l, LCAss(r.to, gm))
    BY <1>6, <2>2 DEF Assign, NameOrNone
  <2>4. replies' \in [LCs -> Seq(ReplyMsg)]
    <3>1. LCAss(r.to, gm) \in ReplyMsg
      BY <2>2 DEF LCAss, ReplyMsg
    <3> QED BY <2>3, <3>1, ReplyType
  <2> QED BY <1>6, <2>1, <2>4 DEF Assign, TypeOK
<1>7. ASSUME NEW l \in LCs, NEW r \in Requests(l), ManagerNewLC(l, r) PROVE TypeOK'
  <2>1. r \in RequestMsg /\ requests' \in [LCs -> Seq(RequestMsg)]
    BY <1>7, RequestsType, IsReadType DEF ManagerNewLC
  <2>2. r.to \in Nodes
    BY <1>7, <2>1 DEF ManagerNewLC, RequestMsg
  <2>3. replies' \in [LCs -> Seq(ReplyMsg)]
    <3>1. NewLC(r.to, r.to) \in ReplyMsg
      BY <2>2 DEF NewLC, ReplyMsg
    <3> QED BY <1>7, <3>1, ReplyType DEF ManagerNewLC
  <2>4. lcInfo' \in [Nodes -> SUBSET LCs]
    BY <1>7, <2>2 DEF ManagerNewLC, TypeOK
  <2> QED BY <1>7, <2>1, <2>3, <2>4 DEF ManagerNewLC, TypeOK
<1>8. ASSUME NEW l \in LCs, RelayGLBeat(l) PROVE TypeOK'
  <2>1. RBeatGL(leader) \in InboxMsg
    BY DEF RBeatGL, InboxMsg, TypeOK
  <2>2. inbox' \in [LCs -> Seq(InboxMsg)]
    BY <1>8, <2>1, InboxTypes DEF RelayGLBeat, TypeOK
  <2> QED BY <1>8, <2>2 DEF RelayGLBeat, TypeOK
<1>9. ASSUME NEW l \in LCs, RelayNobody(l) PROVE TypeOK'
  <2>1. record' \in [LCs -> Nodes \cup {None, Joining}]
    BY <1>9 DEF RelayNobody, TypeOK
  <2>2. late' \in 0..bounds.late
    <3>1. late \in 0..bounds.late /\ bounds.late \in Nat
      BY BoundTypes DEF TypeOK
    <3>2. late < bounds.late /\ late' = late + 1
      BY <1>9 DEF RelayNobody
    <3> QED BY <3>1, <3>2
  <2> QED BY <1>9, <2>1, <2>2 DEF RelayNobody, TypeOK
<1>10. ASSUME NEW l \in LCs, ChargeFindsDead(l) PROVE TypeOK'
  <2>1. GMDead(l, "charge") /\ UNCHANGED inbox /\ "charge" \in Processes
    BY <1>10 DEF ChargeFindsDead, Processes
  <2>2. /\ proc' \in [LCs -> [Processes -> ProcState]] /\ requests' \in [LCs -> Seq(RequestMsg)]
        /\ gmHost' \in [LCs -> NameOrNone] /\ joining' \in [LCs -> BOOLEAN]
        /\ late' \in 0..bounds.late
    BY <2>1, GMDeadType
  <2> QED BY <2>1, <2>2 DEF GMDead, TypeOK
<1>11. ASSUME NEW l \in LCs, MainReads(l) PROVE TypeOK'
  <2>1. inbox' \in [LCs -> Seq(InboxMsg)]
    BY <1>11, InboxTypes DEF MainReads, TypeOK
  <2>2. "main" \in Processes
    BY DEF Processes
  <2>3. CASE /\ Join(l, "main")
             /\ UNCHANGED <<central, tables, life, gmHost, replies, bounds, crashes, late>>
    <3>1. /\ requests' \in [LCs -> Seq(RequestMsg)] /\ proc' \in [LCs -> [Processes -> ProcState]]
          /\ joining' \in [LCs -> BOOLEAN]
      BY <2>2, <2>3, JoinType
    <3> QED BY <2>1, <2>3, <3>1 DEF TypeOK
  <2>4. CASE GMDead(l, "main")
    <3>1. /\ proc' \in [LCs -> [Processes -> ProcState]] /\ requests' \in [LCs -> Seq(RequestMsg)]
          /\ gmHost' \in [LCs -> NameOrNone] /\ joining' \in [LCs -> BOOLEAN]
          /\ late' \in 0..bounds.late
      BY <2>2, <2>4, GMDeadType
    <3> QED BY <2>1, <2>4, <3>1 DEF GMDead, TypeOK
  <2>5. CASE UNCHANGED <<central, tables, local, requests, replies, bounds, crashes, late>>
    BY <2>1, <2>5 DEF TypeOK
  <2> QED BY <1>11, <2>3, <2>4, <2>5 DEF MainReads
<1>12. ASSUME NEW l \in LCs, Charge(l) PROVE TypeOK'
  <2> DEFINE gm == gmHost[l]
  <2>1. gm \in Nodes
    BY <1>12 DEF Charge, Running, TypeOK
  <2>2. PICK dead \in SUBSET lcInfo[gm] :
          /\ lcInfo' = [lcInfo EXCEPT ![gm] = (@ \cup {l}) \ dead]
          /\ lcsJoined' = [k \in LCs |-> IF k \in dead THEN RemoveJoined(lcsJoined[k], gm) ELSE lcsJoined[k]]
    BY <1>12 DEF Charge
  <2>3. lcInfo' \in [Nodes -> SUBSET LCs]
    BY <2>1, <2>2 DEF TypeOK
  <2>4. lcsJoined' \in [LCs -> [life : 0..bounds.restarts + 1, gms : SUBSET Nodes]]
    <3>1. lcsJoined \in [LCs -> [life : 0..bounds.restarts + 1, gms : SUBSET Nodes]]
      BY DEF TypeOK
    <3> HIDE DEF gm
    <3>2. \A k \in LCs : RemoveJoined(lcsJoined[k], gm) \in [life : 0..bounds.restarts + 1, gms : SUBSET Nodes]
      BY <2>1, <3>1, EntryType
    <3> QED BY <2>2, <3>1, <3>2
  <2> QED BY <1>12, <2>3, <2>4 DEF Charge, TypeOK
<1>13. ASSUME NEW l \in LCs, Restart(l) PROVE TypeOK'
  <2> DEFINE r == Request(Multicast, "join", None)
             s == [main |-> [Idle EXCEPT !.at = "getGL"], charge |-> Off]
  <2>1. life' \in [LCs -> 1..bounds.restarts + 1]
    BY <1>13, BoundTypes DEF Restart, TypeOK
  <2>2. gmHost' \in [LCs -> NameOrNone] /\ joining' \in [LCs -> BOOLEAN]
    BY <1>13 DEF Restart, TypeOK, NameOrNone
  <2>3. proc' \in [LCs -> [Processes -> ProcState]]
    <3>1. [Idle EXCEPT !.at = "getGL"] \in ProcState /\ Off \in ProcState
      BY DEF Idle, Off, ProcState
    <3>2. s \in [Processes -> ProcState]
      BY <3>1 DEF Processes
    <3>3. proc' = [proc EXCEPT ![l] = s]
      BY <1>13 DEF Restart
    <3> HIDE DEF s
    <3> QED BY <3>2, <3>3 DEF TypeOK
  <2>4. requests' \in [LCs -> Seq(RequestMsg)]
    <3>1. r \in RequestMsg
      BY DEF Request, RequestMsg
    <3>2. requests' = [requests EXCEPT ![l] = <<r>>]
      BY <1>13 DEF Restart
    <3> HIDE DEF r
    <3> QED BY <3>1, <3>2 DEF TypeOK
  <2>5. replies' \in [LCs -> Seq(ReplyMsg)]
    <3>1. PICK last \in DOMAIN replies[l] \cup {0} :
            replies' = [replies EXCEPT ![l] = SubSeq(@, last + 1, Len(@))]
      BY <1>13 DEF Restart, Received, Arriving
    <3> QED BY <3>1, RepliesType DEF TypeOK
  <2>6. inbox' \in [LCs -> Seq(InboxMsg)]
    BY <1>13, InboxTypes DEF Restart, TypeOK
  <2> QED BY <1>13, <2>1, <2>2, <2>3, <2>4, <2>5, <2>6 DEF Restart, TypeOK
<1>14. ASSUME NEW n \in Nodes, ManagerJoins(n) \/ LeaderForgets(n) PROVE TypeOK'
  <2>1. gmInfo' \in [Nodes -> SUBSET Nodes]
    <3>1. gmInfo \in [Nodes -> SUBSET Nodes]
      BY DEF TypeOK
    <3>2. gmInfo' = [gmInfo EXCEPT ![leader] = @ \cup {n}] \/ gmInfo' = [gmInfo EXCEPT ![leader] = @ \ {n}]
      BY <1>14 DEF ManagerJoins, LeaderForgets
    <3> QED BY <3>1, <3>2
  <2> QED BY <1>14, <2>1 DEF ManagerJoins, LeaderForgets, TypeOK
<1>15. ASSUME NEW n \in Nodes, Elect(n) PROVE TypeOK'
  <2>1. inbox' \in [LCs -> Seq(InboxMsg)]
    <3>1. TermGM(n) \in InboxMsg
      BY DEF TermGM, InboxMsg
    <3>2. inbox \in [LCs -> Seq(InboxMsg)]
      BY DEF TypeOK
    <3>3. \A l \in LCs : Append(inbox[l], TermGM(n)) \in Seq(InboxMsg)
      BY <3>1, InboxTypes
    <3>4. inbox' = [l \in LCs |-> IF l \in lcInfo[n] THEN Append(inbox[l], TermGM(n)) ELSE inbox[l]]
      BY <1>15 DEF Elect
    <3> QED BY <3>2, <3>3, <3>4
  <2>2. gmInfo' \in [Nodes -> SUBSET Nodes] /\ leader' \in Nodes /\ managers' \subseteq Nodes \ {leader'}
    BY <1>15 DEF Elect, TypeOK
  <2> QED BY <1>15, <2>1, <2>2 DEF Elect, TypeOK
<1>16. ASSUME NEW n \in Nodes, Crash(n) PROVE TypeOK'
  <2>1. crashes' \in 0..bounds.crashes
    BY <1>16, BoundTypes DEF Crash, TypeOK
  <2> QED BY <1>16, <2>1 DEF Crash, TypeOK
<1> QED
  BY <1>1, <1>2, <1>3, <1>4, <1>5, <1>6, <1>7, <1>8, <1>9, <1>10, <1>11, <1>12, <1>13, <1>14,
     <1>15, <1>16 DEF Next, Answered

(* Every variable of the join protocol has its type in every reachable       *)
(* state: no process waits for a reply without knowing whom it asked, and no *)
(* one tries more than three times (SnoozeJoin!TypeOK).                      *)
THEOREM TypeCorrect == Spec => []TypeOK
<1>1. Init => TypeOK
  BY InitType
<1>2. TypeOK /\ [Next]_vars => TypeOK'
  BY NextType
<1> QED BY <1>1, <1>2, PTL DEF Spec

-----------------------------------------------------------------------------
(* The processes of a controller after a step.                               *)

LEMMA AsksProc ==
  ASSUME TypeOK, NEW l \in LCs, NEW p \in Processes, Asks(l, p)
  PROVE  /\ \A k \in LCs \ {l} : proc'[k] = proc[k]
         /\ \A q \in Processes \ {p} : proc'[l][q] = proc[l][q]
         /\ proc'[l][p].at \in Waiting \cup {"getGL"}
<1>1. PICK s \in ProcState : /\ s.at \in Waiting \cup {"getGL"}
                             /\ proc' = [proc EXCEPT ![l][p] = s]
  BY DEF Asks
<1>2. proc \in [LCs -> [Processes -> ProcState]]
  BY DEF TypeOK
<1> QED BY <1>1, <1>2

-----------------------------------------------------------------------------
(* A controller that sends its charges is in lcsJoined with its manager.     *)

(* An entry of lcsJoined has an object unless it is empty, and it names the  *)
(* manager of a controller whose charge process has nothing else to do.      *)
EntryKept(l) ==
  /\ lcsJoined[l].gms # {} => lcsJoined[l].life # 0
  /\ proc[l]["charge"].at = "idle" /\ gmHost[l] # None => gmHost[l] \in lcsJoined[l].gms

EntriesKept == \A l \in LCs : EntryKept(l)

LEMMA InitEntries == Init => EntriesKept
  BY DEF Init, EntriesKept, EntryKept, NoEntry, Off, Idle

LEMMA JoinEndsEntry ==
  ASSUME TypeOK, NEW l \in LCs, NEW p \in Processes, NEW gm \in Nodes, EntriesKept,
         JoinEnds(l, p, gm)
  PROVE  EntriesKept'
<1>1. lcsJoined \in [LCs -> [life : 0..bounds.restarts + 1, gms : SUBSET Nodes]]
  BY DEF TypeOK
<1>2. life[l] # 0
  BY BoundTypes DEF TypeOK
<1> DEFINE e == RemoveJoined(lcsJoined[l], gm)
<1>3. e \in [life : 0..bounds.restarts + 1, gms : SUBSET Nodes] /\ (e.gms # {} => e.life # 0)
  <2>1. lcsJoined[l].gms # {} => lcsJoined[l].life # 0
    BY DEF EntriesKept, EntryKept
  <2>2. e \in [life : 0..bounds.restarts + 1, gms : SUBSET Nodes]
    BY <1>1, EntryType
  <2>3. e.gms # {} => lcsJoined[l].gms # {} /\ e.life = lcsJoined[l].life
    BY <1>1 DEF RemoveJoined, NoEntry
  <2> QED BY <2>1, <2>2, <2>3
<1>4. gmHost' = [gmHost EXCEPT ![l] = gm] /\ lcsJoined' = [lcsJoined EXCEPT ![l] = PutJoined(e, l, gm)]
  BY DEF JoinEnds
<1> HIDE DEF e
<1>5. PutJoined(e, l, gm).life # 0 /\ gm \in PutJoined(e, l, gm).gms
  BY <1>2, <1>3 DEF PutJoined
<1>6. EntryKept(l)'
  BY <1>1, <1>4, <1>5 DEF EntryKept, TypeOK
<1>7. ASSUME NEW k \in LCs \ {l} PROVE EntryKept(k)'
  BY <1>4, JoinEndsProc DEF EntriesKept, EntryKept
<1> QED BY <1>6, <1>7 DEF EntriesKept

LEMMA AsksEntry ==
  ASSUME TypeOK, NEW l \in LCs, NEW p \in Processes, EntriesKept, Asks(l, p),
         UNCHANGED lcsJoined, gmHost' = gmHost \/ gmHost' = [gmHost EXCEPT ![l] = None]
  PROVE  EntriesKept'
<1>1. ASSUME NEW k \in LCs \ {l} PROVE EntryKept(k)'
  <2>1. gmHost'[k] = gmHost[k] /\ proc'[k] = proc[k]
    BY AsksProc DEF TypeOK
  <2> QED BY <2>1 DEF EntriesKept, EntryKept
<1>2. EntryKept(l)'
  <2>1. proc'[l]["charge"].at = "idle" => proc[l]["charge"].at = "idle"
    BY AsksProc DEF Processes, Waiting
  <2>2. gmHost'[l] = None \/ gmHost'[l] = gmHost[l]
    BY DEF TypeOK
  <2> QED BY <2>1, <2>2 DEF EntriesKept, EntryKept
<1> QED BY <1>1, <1>2 DEF EntriesKept

LEMMA NextEntries == TypeOK /\ EntriesKept /\ [Next]_vars => EntriesKept'
<1> SUFFICES ASSUME TypeOK, EntriesKept, [Next]_vars PROVE EntriesKept'
  OBVIOUS
<1> USE DEF central, tables, local, mail
<1>1. CASE UNCHANGED <<lcsJoined, gmHost, proc>>
  BY <1>1 DEF EntriesKept, EntryKept
<1>2. ASSUME NEW l \in LCs, NEW p \in Processes, GetGL(l, p) PROVE EntriesKept'
  <2>1. CASE UNCHANGED <<proc, requests>>
    BY <1>1, <1>2, <2>1 DEF GetGL
  <2>2. CASE AskGM(l, p, Head(inbox[l]).from, 0)
    <3>1. Head(inbox[l]).from \in Nodes
      BY <1>2, InboxTypes DEF GetGL, InboxMsg
    <3> QED BY <1>2, <2>2, <3>1, AskGMAsks, AsksEntry DEF GetGL
  <2> QED BY <1>2, <2>1, <2>2 DEF GetGL
<1>3. ASSUME NEW l \in LCs, NEW p \in Processes, Receive(l, p) PROVE EntriesKept'
  BY <1>3, ReceiveReads, AsksEntry, JoinEndsEntry DEF Reads
<1>4. ASSUME NEW l \in LCs, NEW p \in Processes, Timeout(l, p) PROVE EntriesKept'
  BY <1>4, FailedAsks, AsksEntry DEF Timeout
<1>5. ASSUME NEW l \in LCs, NEW p \in Processes, GMDead(l, p) PROVE EntriesKept'
  BY <1>5, JoinType, AsksEntry DEF GMDead
<1>6. ASSUME NEW l \in LCs, MainReads(l) PROVE EntriesKept'
  <2>1. CASE Join(l, "main") /\ UNCHANGED <<central, tables, life, gmHost, replies, bounds, crashes, late>>
    BY <2>1, JoinType, AsksEntry DEF Processes
  <2>2. CASE GMDead(l, "main")
    BY <1>5, <2>2 DEF Processes
  <2>3. CASE UNCHANGED <<central, tables, local, requests, replies, bounds, crashes, late>>
    BY <1>1, <2>3
  <2> QED BY <1>6, <2>1, <2>2, <2>3 DEF MainReads
<1>7. ASSUME NEW l \in LCs, Charge(l) PROVE EntriesKept'
  <2> DEFINE gm == gmHost[l]
  <2>1. PICK dead \in SUBSET {k \in lcInfo[gm] : ~SendsCharge(k, gm) /\ ~JoinsNow(k, gm)} :
          lcsJoined' = [k \in LCs |-> IF k \in dead THEN RemoveJoined(lcsJoined[k], gm) ELSE lcsJoined[k]]
    BY <1>7 DEF Charge
  <2>2. UNCHANGED <<gmHost, proc>>
    BY <1>7 DEF Charge
  <2>3. ASSUME NEW k \in LCs PROVE EntryKept(k)'
    <3> HIDE DEF gm
    <3>1. CASE k \in dead
      <4> DEFINE e == RemoveJoined(lcsJoined[k], gm)
      <4>1. ~(gmHost[k] = gm /\ proc[k]["charge"].at = "idle")
        BY <2>1, <3>1 DEF SendsCharge
      <4>2. lcsJoined[k] \in [life : 0..bounds.restarts + 1, gms : SUBSET Nodes]
        BY DEF TypeOK
      <4>3. e.gms = lcsJoined[k].gms \ {gm} /\ (e.gms # {} => e.life = lcsJoined[k].life)
        BY <4>2 DEF RemoveJoined, NoEntry
      <4>4. lcsJoined'[k] = e
        BY <2>1, <3>1
      <4> HIDE DEF e
      <4> QED BY <2>2, <4>1, <4>3, <4>4 DEF EntriesKept, EntryKept
    <3>2. CASE k \notin dead
      BY <2>1, <2>2, <3>2 DEF EntriesKept, EntryKept
    <3> QED BY <3>1, <3>2
  <2> QED BY <2>3 DEF EntriesKept
<1>8. ASSUME NEW l \in LCs, Restart(l) PROVE EntriesKept'
  <2>1. gmHost' = [gmHost EXCEPT ![l] = None] /\ UNCHANGED lcsJoined
        /\ proc' = [proc EXCEPT ![l] = [main |-> [Idle EXCEPT !.at = "getGL"], charge |-> Off]]
    BY <1>8 DEF Restart
  <2>2. EntryKept(l)'
    BY <2>1 DEF EntriesKept, EntryKept, TypeOK
  <2>3. ASSUME NEW k \in LCs \ {l} PROVE EntryKept(k)'
    BY <2>1 DEF EntriesKept, EntryKept, TypeOK
  <2> QED BY <2>2, <2>3 DEF EntriesKept
<1>9. ASSUME NEW l \in LCs, NEW r, MulticastNewLC(l, r) \/ Assign(l, r) \/ ManagerNewLC(l, r)
      PROVE  EntriesKept'
  BY <1>1, <1>9 DEF MulticastNewLC, Assign, ManagerNewLC
<1>10. ASSUME NEW l \in LCs, RelayGLBeat(l) \/ RelayNobody(l) PROVE EntriesKept'
  BY <1>1, <1>10 DEF RelayGLBeat, RelayNobody
<1>11. ASSUME NEW n \in Nodes, ManagerJoins(n) \/ LeaderForgets(n) \/ Elect(n) \/ Crash(n)
       PROVE  EntriesKept'
  BY <1>1, <1>11 DEF ManagerJoins, LeaderForgets, Elect, Crash
<1>12. CASE UNCHANGED vars
  BY <1>1, <1>12 DEF vars
<1>13. "charge" \in Processes
  BY DEF Processes
<1> QED
  BY <1>2, <1>3, <1>4, <1>5, <1>6, <1>7, <1>8, <1>9, <1>10, <1>11, <1>12, <1>13
     DEF Next, Answered, ChargeFindsDead

(* Whatever is joined, forgotten, restarted or late: Multicast finds the     *)
(* manager of a controller that sends its charges (LocalController.sendLC-   *)
(* ChargeToGM) in lcsJoined, with an object to relay its beats to            *)
(* (SnoozeJoin!JoinedIsListed).                                              *)
THEOREM ListedWhileCharging == Spec => []JoinedIsListed
<1>1. Init => EntriesKept
  BY InitEntries
<1>2. TypeOK /\ EntriesKept /\ [Next]_vars => EntriesKept'
  BY NextEntries
<1>3. EntriesKept => JoinedIsListed
  BY NodesAssumption DEF EntriesKept, EntryKept, JoinedIsListed, SendsCharge
<1> QED BY <1>1, <1>2, <1>3, TypeCorrect, PTL DEF Spec

-----------------------------------------------------------------------------
(* One process joins, with one message on its way.                           *)

(* No message was late and no manager that lists l has been promoted.        *)
Calm(l) == late = 0 /\ ~Dismissed(l)

OneProcess(l) ==
  /\ Alone(l) /\ ~Told(l)
  /\ \A p \in Processes : proc[l][p].at \in {"off", "idle"} \/ joining[l]

Expected(l, n) == \E p \in Processes : proc[l][p].at \in Waiting /\ Asked(proc[l][p]) = n

OneMessage(l) ==
  /\ \A i \in Pending(l) : Expected(l, requests[l][i].to)
  /\ \A i \in Arriving(l) : Expected(l, replies[l][i].from)
  /\ \A i, j \in Pending(l) : i = j
  /\ \A i, j \in Arriving(l) : i = j
  /\ Pending(l) = {} \/ Arriving(l) = {}

CalmInv == \A l \in LCs : Calm(l) => OneProcess(l) /\ OneMessage(l)

LEMMA InitCalm == Init => CalmInv
<1> SUFFICES ASSUME Init, NEW l \in LCs PROVE OneProcess(l) /\ OneMessage(l)
  BY DEF CalmInv
<1>1. OneProcess(l)
  BY DEF Init, OneProcess, Alone, Told, Processes, Off, Idle
<1>2. Arriving(l) = {}
  BY DEF Init, Arriving
<1>3. Pending(l) = {}
  <2>1. requests[l] = <<Request(Multicast, "join", None)>> \/ requests[l] = <<>>
    BY DEF Init
  <2>2. CASE requests[l] = <<>>
    BY <2>2 DEF Pending
  <2>3. CASE requests[l] = <<Request(Multicast, "join", None)>>
    BY <2>3 DEF Pending, Request
  <2> QED BY <2>1, <2>2, <2>3
<1> QED BY <1>1, <1>2, <1>3 DEF OneMessage

(* A promoted manager stays one and keeps its list, and late messages count. *)
LEMMA CalmBefore ==
  ASSUME TypeOK, [Next]_vars, NEW l \in LCs, Calm(l)'
  PROVE  Calm(l)
<1> DEFINE Grows == /\ managers' \subseteq managers
                    /\ late' = late \/ late' = late + 1
                    /\ \A n \in Nodes \ managers : lcInfo[n] \subseteq lcInfo'[n]
<1> USE DEF central, tables, local, mail
<1>1. ASSUME UNCHANGED vars PROVE Grows
  BY <1>1 DEF vars
<1>2. ASSUME NEW k \in LCs, NEW p \in Processes, GetGL(k, p) \/ Receive(k, p) \/ Timeout(k, p)
      PROVE  Grows
  BY <1>2 DEF GetGL, Receive, Timeout
<1>3. ASSUME NEW k \in LCs, NEW r \in Requests(k),
             MulticastNewLC(k, r) \/ Assign(k, r) \/ ManagerNewLC(k, r)
      PROVE  Grows
  <2>1. r \in RequestMsg
    BY RequestsType
  <2>2. CASE MulticastNewLC(k, r) \/ Assign(k, r)
    BY <2>2 DEF MulticastNewLC, Assign
  <2>3. CASE ManagerNewLC(k, r)
    BY <2>3 DEF ManagerNewLC, TypeOK
  <2> QED BY <1>3, <2>2, <2>3
<1>4. ASSUME NEW k \in LCs, NEW p \in Processes, GMDead(k, p)
      PROVE  Grows
  BY <1>4 DEF GMDead
<1>5. ASSUME NEW k \in LCs, RelayGLBeat(k) \/ RelayNobody(k) \/ Restart(k)
      PROVE  Grows
  BY <1>5 DEF RelayGLBeat, RelayNobody, Restart
<1>6. ASSUME NEW k \in LCs, MainReads(k)
      PROVE  Grows
  BY <1>4, <1>6 DEF MainReads, Processes
<1>7. ASSUME NEW k \in LCs, Charge(k)
      PROVE  Grows
  BY <1>7 DEF Charge, Running, TypeOK
<1>8. ASSUME NEW n \in Nodes, ManagerJoins(n) \/ LeaderForgets(n) \/ Elect(n) \/ Crash(n)
      PROVE  Grows
  BY <1>8 DEF ManagerJoins, LeaderForgets, Elect, Crash
<1>9. Grows
  BY <1>1, <1>2, <1>3, <1>4, <1>5, <1>6, <1>7, <1>8 DEF Next, Answered, ChargeFindsDead, Processes
<1> HIDE DEF central, tables, local, mail
<1>10. late = 0
  <2>1. late \in Nat /\ late' = 0
    BY BoundTypes DEF TypeOK, Calm
  <2> QED BY <1>9, <2>1
<1>11. ~Dismissed(l)
  BY <1>9 DEF Calm, Dismissed
<1> QED BY <1>10, <1>11 DEF Calm

(* A step that changes nothing about l, unless something fails.              *)
Untouched(l) ==
  /\ proc'[l] = proc[l] /\ joining'[l] = joining[l]
  /\ Told(l)' => Told(l)
  /\ requests'[l] = requests[l] /\ replies'[l] = replies[l]
  /\ up' \subseteq up

LEMMA UntouchedCalm ==
  ASSUME NEW l \in LCs, OneProcess(l), OneMessage(l), Untouched(l)
  PROVE  OneProcess(l)' /\ OneMessage(l)'
<1>1. OneProcess(l)'
  BY DEF Untouched, OneProcess, Alone
<1>2. Pending(l)' \subseteq Pending(l) /\ Arriving(l)' \subseteq Arriving(l)
  BY DEF Untouched, Pending, Arriving, Alive
<1>3. \A n : Expected(l, n) => Expected(l, n)'
  BY DEF Untouched, Expected
<1>4. OneMessage(l)'
  BY <1>2, <1>3 DEF OneMessage, Untouched
<1> QED BY <1>1, <1>4

(* A process asks when no message of l is on its way.                        *)
LEMMA AsksCalm ==
  ASSUME TypeOK, NEW l \in LCs, NEW p \in Processes, Asks(l, p), UNCHANGED up,
         \A q \in Processes \ {p} : proc[l][q].at \in {"off", "idle"},
         Pending(l) = {}, Arriving(l)' = {}
  PROVE  Alone(l)' /\ OneMessage(l)'
<1>1. PICK s \in ProcState, r \in RequestMsg :
        /\ Send(l, r)
        /\ proc' = [proc EXCEPT ![l][p] = s]
        /\ \/ s.at = "getGL" /\ r.kind = "join"
           \/ s.at \in Waiting /\ r.kind # "join" /\ r.to = Asked(s)
  BY DEF Asks
<1>2. requests \in [LCs -> Seq(RequestMsg)] /\ proc \in [LCs -> [Processes -> ProcState]]
  BY DEF TypeOK
<1>3. Alone(l)'
  <2>1. PICK q \in Processes : q # p
    BY DEF Processes
  <2> QED BY <2>1, AsksProc DEF Alone
<1>4. \A i \in Pending(l)' : i = Len(requests[l]) + 1 /\ requests'[l][i] = r
  <2>1. CASE requests' = requests
    BY <2>1 DEF Pending, Alive
  <2>2. CASE requests' = [requests EXCEPT ![l] = Append(@, r)]
    <3>1. requests'[l] = Append(requests[l], r) /\ requests[l] \in Seq(RequestMsg)
      BY <1>2, <2>2
    <3>2. \A i \in DOMAIN requests'[l] :
            \/ i \in DOMAIN requests[l] /\ requests'[l][i] = requests[l][i]
            \/ i = Len(requests[l]) + 1 /\ requests'[l][i] = r
      BY <3>1
    <3> QED BY <3>2 DEF Pending, Alive
  <2> QED BY <1>1, <2>1, <2>2 DEF Send
<1>5. (\A i \in Pending(l) : Expected(l, requests[l][i].to))'
  <2>1. ASSUME NEW i \in Pending(l)'
        PROVE  requests'[l][i].to = Asked(s) /\ s.at \in Waiting
    <3>1. requests'[l][i] = r /\ r.kind # "join"
      BY <1>4 DEF Pending
    <3> QED BY <1>1, <3>1
  <2>2. proc'[l][p] = s
    BY <1>1, <1>2
  <2> QED BY <2>1, <2>2 DEF Expected
<1> QED BY <1>3, <1>4, <1>5 DEF OneMessage

(* Nobody waits: nothing is on its way.                                      *)
LEMMA NothingExpected ==
  ASSUME NEW l \in LCs, OneMessage(l), \A p \in Processes : proc[l][p].at \notin Waiting
  PROVE  Pending(l) = {} /\ Arriving(l) = {}
  BY DEF OneMessage, Expected

LEMMA OneWaits ==
  ASSUME NEW l \in LCs, Alone(l)
  PROVE  /\ Waiters(l) \in 0..1
         /\ \A p \in Processes : proc[l][p].at \in Waiting => Waiters(l) = 1
<1> DEFINE W == {p \in Processes : proc[l][p].at \in Waiting}
<1>1. PICK q \in Processes : proc[l][q].at \in {"off", "idle"}
  BY DEF Alone
<1>2. PICK r \in Processes : Processes = {q, r}
  BY DEF Processes
<1>3. W = {} \/ W = {r}
  BY <1>1, <1>2 DEF Waiting
<1>4. Cardinality({}) = 0 /\ Cardinality({r}) = 1
  BY FS_EmptySet, FS_Singleton
<1> QED BY <1>3, <1>4 DEF Waiters

LEMMA MailIsFinite ==
  ASSUME TypeOK, NEW l \in LCs
  PROVE  /\ \A S : S \subseteq Pending(l) => IsFiniteSet(S)
         /\ \A S : S \subseteq Arriving(l) => IsFiniteSet(S)
<1>1. requests[l] \in Seq(RequestMsg) /\ replies[l] \in Seq(ReplyMsg)
  BY DEF TypeOK
<1>2. Pending(l) \subseteq 1..Len(requests[l]) /\ Arriving(l) \subseteq 1..Len(replies[l])
  BY <1>1 DEF Pending, Arriving
<1>3. IsFiniteSet(1..Len(requests[l])) /\ IsFiniteSet(1..Len(replies[l]))
  BY <1>1, FS_Interval
<1> QED BY <1>2, <1>3, FS_Subset

(* The only message is read: nothing else arrives.                           *)
LEMMA NothingArrivesAfter ==
  ASSUME TypeOK, NEW l \in LCs, NEW last \in DOMAIN replies[l] \cup {0}, UNCHANGED up,
         \A i \in Arriving(l) : i <= last,
         replies' = [replies EXCEPT ![l] = SubSeq(@, last + 1, Len(@))]
  PROVE  Arriving(l)' = {}
<1> DEFINE n == Len(replies[l])
<1>1. replies[l] \in Seq(ReplyMsg) /\ n \in Nat /\ last \in Nat /\ last <= n
  BY RepliesType DEF TypeOK
<1>2. replies'[l] = SubSeq(replies[l], last + 1, n)
  BY DEF TypeOK
<1>3. replies'[l] \in Seq(ReplyMsg) /\ Len(replies'[l]) = n - last
      /\ \A j \in 1..(n - last) : replies'[l][j] = replies[l][j + last]
  BY <1>1, <1>2, SuffixType
<1> SUFFICES ASSUME NEW i \in Arriving(l)' PROVE FALSE
  OBVIOUS
<1>4. i \in 1..(n - last)
  BY <1>3 DEF Arriving
<1>5. replies'[l][i] = replies[l][i + last] /\ i + last \in 1..n /\ ~(i + last <= last)
  BY <1>1, <1>3, <1>4
<1>6. DOMAIN replies[l] = 1..n
  BY <1>1
<1>7. i + last \in Arriving(l)
  BY <1>5, <1>6 DEF Arriving, Alive
<1> QED BY <1>5, <1>7

LEMMA PendingAfterRead ==
  ASSUME TypeOK, NEW l \in LCs, NEW r, IsRead(l, r), UNCHANGED up
  PROVE  \E i \in DOMAIN requests[l] :
           /\ requests[l][i] = r /\ r.to \in Alive
           /\ \A k \in Pending(l)' :
                LET m == IF k < i THEN k ELSE k + 1 IN
                m \in Pending(l) /\ m # i /\ requests'[l][k] = requests[l][m]
<1> DEFINE s == requests[l]
           n == Len(s)
<1>1. PICK i \in DOMAIN requests[l] :
        requests[l][i] = r /\ requests' = [requests EXCEPT ![l] = RemoveAt(@, i)]
  BY DEF IsRead
<1>2. s \in Seq(RequestMsg) /\ n \in Nat /\ DOMAIN s = 1..n
  BY DEF TypeOK
<1>3. requests'[l] = RemoveAt(s, i)
  BY <1>1 DEF TypeOK
<1> HIDE DEF s
<1>4. /\ RemoveAt(s, i) \in Seq(RequestMsg) /\ Len(RemoveAt(s, i)) = n - 1
      /\ \A j \in 1..(n - 1) : RemoveAt(s, i)[j] = IF j < i THEN s[j] ELSE s[j + 1]
  BY <1>1, <1>2, RemoveAtType DEF s
<1>5. DOMAIN requests'[l] = 1..(n - 1)
  BY <1>2, <1>3, <1>4
<1>6. ASSUME NEW k \in Pending(l)', NEW m, m = IF k < i THEN k ELSE k + 1
      PROVE  m \in Pending(l) /\ m # i /\ requests'[l][k] = s[m]
  <2>1. k \in 1..(n - 1)
    BY <1>5 DEF Pending
  <2>2. requests'[l][k] = s[m]
    BY <1>3, <1>4, <1>6, <2>1
  <2>3. i \in 1..n
    BY <1>1, <1>2 DEF s
  <2>4. m \in 1..n /\ m # i
    BY <1>2, <1>6, <2>1, <2>3
  <2> QED BY <1>2, <2>2, <2>4 DEF Pending, Alive, s
<1> QED BY <1>1, <1>6 DEF IsRead, s

LEMMA OthersIdle ==
  ASSUME NEW l \in LCs, NEW p \in Processes, Alone(l), proc[l][p].at \notin {"off", "idle"}
  PROVE  \A q \in Processes \ {p} : proc[l][q].at \in {"off", "idle"}
  BY DEF Alone, Processes

LEMMA AsksAlone ==
  ASSUME TypeOK, NEW l \in LCs, NEW p \in Processes, OneProcess(l), Asks(l, p),
         UNCHANGED up, joining'[l], Told(l)' => Told(l),
         \A q \in Processes \ {p} : proc[l][q].at \in {"off", "idle"},
         Pending(l) = {}, Arriving(l)' = {}
  PROVE  OneProcess(l)' /\ OneMessage(l)'
  BY AsksCalm DEF OneProcess

LEMMA GetGLCalm ==
  ASSUME TypeOK, NEW l \in LCs, NEW p \in Processes, GetGL(l, p), OneProcess(l), OneMessage(l)
  PROVE  OneProcess(l)' /\ OneMessage(l)'
<1>1. /\ proc[l][p].at = "getGL" /\ inbox[l] # <<>>
      /\ UNCHANGED <<up, joining, replies>>
      /\ inbox' = [inbox EXCEPT ![l] = Tail(@)]
  BY DEF GetGL, central
<1>2. Told(l)' => Told(l)
  <2>1. inbox[l] \in Seq(InboxMsg) /\ inbox'[l] = Tail(inbox[l])
    BY <1>1 DEF TypeOK
  <2> QED BY <1>1, <2>1 DEF Told
<1>3. CASE UNCHANGED <<proc, requests>>
  BY <1>1, <1>2, <1>3, UntouchedCalm DEF Untouched
<1>4. CASE AskGM(l, p, Head(inbox[l]).from, 0)
  <2>1. Asks(l, p)
    <3>1. Head(inbox[l]).from \in Nodes
      BY <1>1, InboxTypes DEF InboxMsg
    <3> QED BY <1>4, <3>1, AskGMAsks
  <2>2. joining'[l] /\ \A q \in Processes \ {p} : proc[l][q].at \in {"off", "idle"}
    BY <1>1, OthersIdle DEF OneProcess
  <2>3. Pending(l) = {} /\ Arriving(l) = {}
    BY <1>1, <2>2, NothingExpected DEF Waiting
  <2>4. Arriving(l)' = {}
    BY <1>1, <2>3 DEF Arriving, Alive
  <2> QED BY <1>1, <1>2, <2>1, <2>2, <2>3, <2>4, AsksAlone
<1> QED BY <1>3, <1>4 DEF GetGL

LEMMA ReceiveCalm ==
  ASSUME TypeOK, NEW l \in LCs, NEW p \in Processes, Receive(l, p), OneProcess(l), OneMessage(l)
  PROVE  OneProcess(l)' /\ OneMessage(l)'
<1>1. /\ proc[l][p].at \in Waiting /\ Reads(l, p)
      /\ UNCHANGED <<up, inbox>>
  BY ReceiveReads DEF central
<1>2. PICK i \in Arriving(l) : replies' = [replies EXCEPT ![l] = SubSeq(@, i + 1, Len(@))]
  BY ReceiveReads
<1>3. Pending(l) = {}
  BY DEF OneMessage
<1>4. Arriving(l)' = {}
  <2>1. i \in DOMAIN replies[l] \cup {0} /\ i \in Nat
    BY RepliesType DEF Arriving
  <2>2. \A j \in Arriving(l) : j <= i
    BY <2>1 DEF OneMessage
  <2> QED BY <1>1, <1>2, <2>1, <2>2, NothingArrivesAfter
<1>5. \A q \in Processes \ {p} : proc[l][q].at \in {"off", "idle"}
  BY <1>1, OthersIdle DEF OneProcess, Waiting
<1>6. Told(l)' => Told(l)
  BY <1>1 DEF Told
<1>7. CASE Asks(l, p) /\ UNCHANGED <<gmHost, joining, lcsJoined>>
  <2>1. joining'[l]
    BY <1>1, <1>7 DEF OneProcess, Waiting
  <2> QED BY <1>1, <1>3, <1>4, <1>5, <1>6, <1>7, <2>1, AsksAlone
<1>8. CASE \E gm \in Nodes : JoinEnds(l, p, gm)
  <2>1. \A q \in Processes : proc'[l][q].at \in {"off", "idle"}
    BY <1>5, <1>8, JoinEndsProc DEF Idle
  <2>2. Pending(l)' = {}
    BY <1>1, <1>3, <1>8 DEF JoinEnds, Pending, Alive
  <2>3. OneProcess(l)'
    BY <1>6, <2>1 DEF OneProcess, Alone, Processes
  <2> QED BY <1>4, <2>2, <2>3 DEF OneMessage
<1> QED BY <1>1, <1>7, <1>8 DEF Reads

LEMMA TimeoutCalm ==
  ASSUME TypeOK, NEW l \in LCs, NEW p \in Processes, Timeout(l, p), late' = 0,
         OneProcess(l), OneMessage(l)
  PROVE  OneProcess(l)' /\ OneMessage(l)'
<1>1. /\ proc[l][p].at \in Waiting /\ Arriving(l) = {}
      /\ UNCHANGED <<up, inbox, replies>>
  BY DEF Timeout, central
<1>2. Coming(l) < Waiters(l)
  <2>1. late \in Nat /\ late' # late + 1
    BY BoundTypes DEF TypeOK
  <2> QED BY <2>1 DEF Timeout
<1>3. Pending(l) = {}
  <2>1. Cardinality(Arriving(l)) = 0
    BY <1>1, FS_EmptySet
  <2>2. IsFiniteSet(Pending(l)) /\ Cardinality(Pending(l)) \in Nat
    BY MailIsFinite, FS_CardinalityType
  <2>3. Waiters(l) \in 0..1
    BY OneWaits DEF OneProcess
  <2>4. Cardinality(Pending(l)) = 0
    BY <1>2, <2>1, <2>2, <2>3 DEF Coming
  <2> QED BY <2>2, <2>4, FS_EmptySet
<1>4. Asks(l, p) /\ UNCHANGED joining
  BY <1>1, FailedAsks DEF Timeout
<1>5. joining'[l] /\ \A q \in Processes \ {p} : proc[l][q].at \in {"off", "idle"}
  BY <1>1, <1>4, OthersIdle DEF OneProcess, Waiting
<1>6. Arriving(l)' = {} /\ (Told(l)' => Told(l))
  BY <1>1 DEF Arriving, Alive, Told
<1> QED BY <1>1, <1>3, <1>4, <1>5, <1>6, AsksAlone

LEMMA AnsweredCalm ==
  ASSUME TypeOK, NEW l \in LCs, NEW r \in Requests(l), OneProcess(l), OneMessage(l),
         MulticastNewLC(l, r) \/ Assign(l, r) \/ ManagerNewLC(l, r)
  PROVE  OneProcess(l)' /\ OneMessage(l)'
<1>1. IsRead(l, r) /\ UNCHANGED <<up, inbox, proc, joining>>
  BY DEF MulticastNewLC, Assign, ManagerNewLC, central, local
<1>2. \/ r.kind = "join" /\ UNCHANGED replies
      \/ r.kind # "join" /\ \E m \in ReplyMsg : m.from = r.to /\ Reply(l, m)
  <2>1. r \in RequestMsg
    BY RequestsType
  <2>2. CASE MulticastNewLC(l, r)
    <3>1. CASE r.kind = "join"
      BY <2>2, <3>1 DEF MulticastNewLC
    <3>2. CASE r.kind # "join"
      <4>1. NewLC(Multicast, r.gm) \in ReplyMsg /\ NewLC(Multicast, r.gm).from = r.to
        BY <2>1, <2>2, <3>2, NodesAssumption DEF MulticastNewLC, RequestMsg, NewLC, ReplyMsg
      <4> QED BY <2>2, <3>2, <4>1 DEF MulticastNewLC
    <3> QED BY <3>1, <3>2
  <2>3. CASE Assign(l, r)
    <3>1. r.kind # "join" /\ r.to \in Nodes /\ gmInfo[r.to] \subseteq Nodes
      BY <2>1, <2>3 DEF Assign, RequestMsg, TypeOK
    <3>2. PICK gm \in NameOrNone : Reply(l, LCAss(r.to, gm))
      BY <2>3, <3>1 DEF Assign, NameOrNone
    <3>3. LCAss(r.to, gm) \in ReplyMsg /\ LCAss(r.to, gm).from = r.to
      BY <3>1 DEF LCAss, ReplyMsg
    <3> QED BY <3>1, <3>2, <3>3
  <2>4. CASE ManagerNewLC(l, r)
    <3>1. r.kind # "join" /\ NewLC(r.to, r.to) \in ReplyMsg /\ NewLC(r.to, r.to).from = r.to
      BY <2>1, <2>4 DEF ManagerNewLC, RequestMsg, NewLC, ReplyMsg
    <3> QED BY <2>4, <3>1 DEF ManagerNewLC
  <2> QED BY <2>2, <2>3, <2>4
<1>3. PICK i \in DOMAIN requests[l] :
        /\ requests[l][i] = r /\ r.to \in Alive
        /\ \A k \in Pending(l)' :
             LET m == IF k < i THEN k ELSE k + 1 IN
             m \in Pending(l) /\ m # i /\ requests'[l][k] = requests[l][m]
  BY <1>1, PendingAfterRead
<1>4. OneProcess(l)'
  BY <1>1 DEF OneProcess, Alone, Told
<1>5. \A n : Expected(l, n) => Expected(l, n)'
  BY <1>1 DEF Expected
<1>6. CASE r.kind = "join" /\ UNCHANGED replies
  <2>1. Arriving(l)' = Arriving(l) /\ replies'[l] = replies[l]
    BY <1>1, <1>6 DEF Arriving, Alive
  <2>2. (\A j \in Pending(l) : Expected(l, requests[l][j].to))'
    BY <1>3, <1>5 DEF OneMessage
  <2>3. ASSUME NEW j \in Pending(l)', NEW k \in Pending(l)' PROVE j = k
    <3>1. j \in Nat /\ k \in Nat /\ i \in Nat
      <4>1. requests[l] \in Seq(RequestMsg) /\ requests' \in [LCs -> Seq(RequestMsg)]
        BY <1>1, IsReadType DEF TypeOK
      <4> QED BY <4>1 DEF Pending
    <3> DEFINE a == IF j < i THEN j ELSE j + 1
               b == IF k < i THEN k ELSE k + 1
    <3>2. a = b
      BY <1>3 DEF OneMessage
    <3> QED BY <3>1, <3>2
  <2>4. Pending(l)' # {} => Arriving(l) = {}
    BY <1>3 DEF OneMessage
  <2>5. (\A j \in Arriving(l) : Expected(l, replies[l][j].from))'
    BY <1>5, <2>1 DEF OneMessage
  <2>6. \A j, k \in Arriving(l)' : j = k
    BY <2>1 DEF OneMessage
  <2> QED BY <1>4, <2>1, <2>2, <2>3, <2>4, <2>5, <2>6 DEF OneMessage
<1>7. CASE r.kind # "join" /\ \E m \in ReplyMsg : m.from = r.to /\ Reply(l, m)
  <2>1. i \in Pending(l)
    BY <1>3, <1>7 DEF Pending
  <2>2. Arriving(l) = {} /\ Expected(l, r.to)
    BY <1>3, <2>1 DEF OneMessage
  <2>3. Pending(l)' = {}
    BY <1>3, <2>1 DEF OneMessage
  <2>4. PICK m \in ReplyMsg : m.from = r.to /\ replies' = [replies EXCEPT ![l] = Append(@, m)]
    BY <1>7 DEF Reply
  <2>5. ASSUME NEW j \in Arriving(l)'
        PROVE  j = Len(replies[l]) + 1 /\ replies'[l][j].from = r.to
    <3>1. replies[l] \in Seq(ReplyMsg) /\ replies'[l] = Append(replies[l], m)
      BY <2>4 DEF TypeOK
    <3>2. \A k \in DOMAIN replies'[l] :
            \/ k \in DOMAIN replies[l] /\ replies'[l][k] = replies[l][k]
            \/ k = Len(replies[l]) + 1 /\ replies'[l][k] = m
      BY <3>1
    <3>3. j \notin Arriving(l)
      BY <2>2
    <3> QED BY <1>1, <2>4, <3>2, <3>3 DEF Arriving, Alive
  <2>6. Expected(l, r.to)'
    BY <1>5, <2>2
  <2>7. (\A j \in Arriving(l) : Expected(l, replies[l][j].from))'
    BY <2>5, <2>6
  <2> QED BY <1>4, <2>3, <2>5, <2>7 DEF OneMessage
<1> QED BY <1>2, <1>6, <1>7

LEMMA GMDeadCalm ==
  ASSUME TypeOK, NEW l \in LCs, NEW p \in Processes, GMDead(l, p), Told(l)' => Told(l),
         OneProcess(l), OneMessage(l)
  PROVE  OneProcess(l)' /\ OneMessage(l)'
<1>1. Join(l, p) /\ ~joining[l] /\ UNCHANGED <<up, replies>>
  BY DEF GMDead, central
<1>2. \A q \in Processes : proc[l][q].at \in {"off", "idle"}
  BY <1>1 DEF OneProcess
<1>3. Pending(l) = {} /\ Arriving(l) = {}
  BY <1>2, NothingExpected DEF Waiting
<1>4. Arriving(l)' = {}
  BY <1>1, <1>3 DEF Arriving, Alive
<1>5. Asks(l, p) /\ joining'[l]
  BY <1>1, JoinType DEF TypeOK
<1> QED BY <1>1, <1>2, <1>3, <1>4, <1>5, AsksAlone

LEMMA MainReadsCalm ==
  ASSUME TypeOK, NEW l \in LCs, MainReads(l), OneProcess(l), OneMessage(l)
  PROVE  OneProcess(l)' /\ OneMessage(l)'
<1>1. inbox[l] # <<>> /\ inbox' = [inbox EXCEPT ![l] = Tail(@)]
  BY DEF MainReads
<1>2. inbox[l] \in Seq(InboxMsg) /\ inbox'[l] = Tail(inbox[l])
  BY <1>1 DEF TypeOK
<1>3. Told(l)' => Told(l)
  BY <1>1, <1>2 DEF Told
<1>4. Head(inbox[l]).kind # "TermGMMsg"
  <2>1. Head(inbox[l]) = inbox[l][1] /\ 1 \in DOMAIN inbox[l]
    BY <1>1, <1>2
  <2> QED BY <2>1 DEF OneProcess, Told
<1>5. CASE GMDead(l, "main")
  BY <1>3, <1>5, GMDeadCalm DEF Processes
<1>6. CASE UNCHANGED <<central, tables, local, requests, replies, bounds, crashes, late>>
  BY <1>3, <1>6, UntouchedCalm DEF Untouched, central, local
<1> QED BY <1>4, <1>5, <1>6 DEF MainReads

LEMMA RestartCalm ==
  ASSUME TypeOK, NEW l \in LCs, Restart(l), OneProcess(l), OneMessage(l)
  PROVE  OneProcess(l)' /\ OneMessage(l)'
<1>1. UNCHANGED up
  BY DEF Restart, central
<1>2. proc'[l] = [main |-> [Idle EXCEPT !.at = "getGL"], charge |-> Off] /\ joining'[l]
  BY DEF Restart, TypeOK
<1>3. Told(l)' => Told(l)
  <2>1. inbox[l] \in Seq(InboxMsg)
    BY DEF TypeOK
  <2>2. inbox'[l] = SubSeq(inbox[l], 2, Len(inbox[l]))
    BY DEF Restart, TypeOK
  <2>3. CASE inbox[l] = <<>>
    BY <2>2, <2>3 DEF Told
  <2>4. CASE inbox[l] # <<>>
    <3>1. 1 <= Len(inbox[l]) /\ inbox'[l] = SubSeq(inbox[l], 1 + 1, Len(inbox[l]))
      BY <2>1, <2>2, <2>4
    <3>2. /\ inbox'[l] \in Seq(InboxMsg) /\ Len(inbox'[l]) = Len(inbox[l]) - 1
          /\ \A j \in 1..(Len(inbox[l]) - 1) : inbox'[l][j] = inbox[l][j + 1]
      BY <2>1, <3>1, SuffixType
    <3>3. \A j \in DOMAIN inbox'[l] : j + 1 \in DOMAIN inbox[l] /\ inbox'[l][j] = inbox[l][j + 1]
      BY <2>1, <3>2
    <3> QED BY <3>3 DEF Told
  <2> QED BY <2>3, <2>4
<1>4. OneProcess(l)'
  BY <1>2, <1>3 DEF OneProcess, Alone, Processes, Off, Idle
<1>5. Pending(l)' = {}
  <2>1. requests'[l] = <<Request(Multicast, "join", None)>>
    BY DEF Restart, TypeOK
  <2> QED BY <2>1 DEF Pending, Request
<1>6. Arriving(l)' = {}
  <2>1. PICK last \in Received(l) \cup {0} :
          /\ \A i \in Received(l) : i <= last
          /\ replies' = [replies EXCEPT ![l] = SubSeq(@, last + 1, Len(@))]
    BY DEF Restart
  <2>2. last \in DOMAIN replies[l] \cup {0}
    BY DEF Received, Arriving
  <2>3. Arriving(l) \subseteq Received(l)
    <3> SUFFICES ASSUME NEW i \in Arriving(l) PROVE i \in Received(l)
      OBVIOUS
    <3>1. i \in Nat
      BY RepliesType DEF Arriving
    <3>2. {j \in Arriving(l) : j < i} = {}
      <4>1. \A j \in Arriving(l) : j = i
        BY DEF OneMessage
      <4>2. ~(i < i)
        BY <3>1
      <4> QED BY <4>1, <4>2
    <3>3. Cardinality({j \in Arriving(l) : j < i}) = 0
      BY <3>2, FS_EmptySet
    <3>4. Waiters(l) = 1
      BY OneWaits DEF OneProcess, OneMessage, Expected
    <3> QED BY <3>3, <3>4 DEF Received
  <2> QED BY <1>1, <2>1, <2>2, <2>3, NothingArrivesAfter
<1> QED BY <1>4, <1>5, <1>6 DEF OneMessage

(* The steps of another controller.                                          *)
LEMMA OtherAsks ==
  ASSUME TypeOK, NEW k \in LCs, NEW l \in LCs \ {k}, NEW p \in Processes, Asks(k, p)
  PROVE  requests'[l] = requests[l] /\ proc'[l] = proc[l]
<1>1. requests'[l] = requests[l]
  BY DEF Asks, Send, TypeOK
<1> QED BY <1>1, AsksProc

LEMMA OtherGMDead ==
  ASSUME TypeOK, NEW k \in LCs, NEW l \in LCs \ {k}, NEW p \in Processes, GMDead(k, p),
         Told(l)' => Told(l)
  PROVE  Untouched(l)
<1>1. Asks(k, p) /\ joining' = [joining EXCEPT ![k] = TRUE]
  BY JoinType DEF GMDead
<1> QED BY <1>1, OtherAsks DEF GMDead, Untouched, central, TypeOK

LEMMA OtherController ==
  ASSUME TypeOK, NEW k \in LCs, NEW l \in LCs \ {k},
         \/ \E p \in Processes : GetGL(k, p) \/ Receive(k, p) \/ Timeout(k, p)
         \/ Answered(k) \/ ChargeFindsDead(k) \/ MainReads(k) \/ Restart(k)
  PROVE  Untouched(l)
<1> USE DEF central, tables, local, mail
<1>1. ASSUME inbox'[l] = inbox[l] PROVE Told(l)' => Told(l)
  BY <1>1 DEF Told
<1>2. ASSUME NEW p \in Processes, GetGL(k, p) PROVE Untouched(l)
  <2>1. inbox'[l] = inbox[l] /\ UNCHANGED <<up, joining, replies>>
    BY <1>2 DEF GetGL, TypeOK
  <2>2. requests'[l] = requests[l] /\ proc'[l] = proc[l]
    <3>1. Head(inbox[k]).from \in Nodes
      BY <1>2, InboxTypes DEF GetGL, InboxMsg
    <3> QED BY <1>2, <3>1, AskGMAsks, OtherAsks DEF GetGL
  <2> QED BY <1>1, <2>1, <2>2 DEF Untouched
<1>3. ASSUME NEW p \in Processes, Receive(k, p) PROVE Untouched(l)
  <2>1. UNCHANGED <<up, inbox>> /\ Reads(k, p)
    BY <1>3, ReceiveReads
  <2>2. replies'[l] = replies[l]
    BY <1>3, ReceiveReads DEF TypeOK
  <2>3. requests'[l] = requests[l] /\ proc'[l] = proc[l] /\ joining'[l] = joining[l]
    <3>1. CASE Asks(k, p) /\ UNCHANGED <<gmHost, joining, lcsJoined>>
      BY <3>1, OtherAsks
    <3>2. CASE \E gm \in Nodes : JoinEnds(k, p, gm)
      <4>1. requests'[l] = requests[l] /\ joining'[l] = joining[l]
        BY <3>2 DEF JoinEnds, TypeOK
      <4> QED BY <3>2, <4>1, JoinEndsProc
    <3> QED BY <2>1, <3>1, <3>2 DEF Reads
  <2> QED BY <1>1, <2>1, <2>2, <2>3 DEF Untouched
<1>4. ASSUME NEW p \in Processes, Timeout(k, p) PROVE Untouched(l)
  <2>1. UNCHANGED <<up, inbox, replies>> /\ Asks(k, p) /\ UNCHANGED joining
    BY <1>4, FailedAsks DEF Timeout
  <2> QED BY <1>1, <2>1, OtherAsks DEF Untouched
<1>5. CASE Answered(k)
  <2>1. PICK r : /\ IsRead(k, r)
                 /\ UNCHANGED replies \/ \E m : Reply(k, m)
                 /\ UNCHANGED <<up, inbox, joining, proc>>
    BY <1>5 DEF Answered, MulticastNewLC, Assign, ManagerNewLC
  <2> QED BY <1>1, <2>1 DEF Untouched, IsRead, Reply, TypeOK
<1>6. CASE ChargeFindsDead(k)
  BY <1>1, <1>6, OtherGMDead DEF ChargeFindsDead, Processes
<1>7. CASE MainReads(k)
  <2>1. inbox'[l] = inbox[l]
    BY <1>7 DEF MainReads, TypeOK
  <2>2. CASE Join(k, "main") /\ UNCHANGED <<central, tables, life, gmHost, replies, bounds, crashes, late>>
    <3>1. Asks(k, "main") /\ joining'[l] = joining[l]
      BY <2>2, JoinType DEF Processes, TypeOK
    <3> QED BY <1>1, <2>1, <2>2, <3>1, OtherAsks DEF Untouched, Processes
  <2>3. CASE GMDead(k, "main")
    BY <1>1, <2>1, <2>3, OtherGMDead DEF Processes
  <2>4. CASE UNCHANGED <<central, tables, local, requests, replies, bounds, crashes, late>>
    BY <1>1, <2>1, <2>4 DEF Untouched
  <2> QED BY <1>7, <2>2, <2>3, <2>4 DEF MainReads
<1>8. CASE Restart(k)
  <2>1. /\ proc'[l] = proc[l] /\ joining'[l] = joining[l] /\ inbox'[l] = inbox[l]
        /\ requests'[l] = requests[l] /\ replies'[l] = replies[l] /\ up' = up
    BY <1>8 DEF Restart, TypeOK
  <2> QED BY <1>1, <2>1 DEF Untouched
<1> QED BY <1>2, <1>3, <1>4, <1>5, <1>6, <1>7, <1>8

(* The steps of the services.                                                *)
LEMMA ServiceStep ==
  ASSUME TypeOK, NEW l \in LCs, Calm(l)',
         \/ \E k \in LCs : RelayGLBeat(k) \/ RelayNobody(k) \/ Charge(k)
         \/ \E n \in Nodes : ManagerJoins(n) \/ LeaderForgets(n) \/ Elect(n) \/ Crash(n)
         \/ UNCHANGED vars
  PROVE  Untouched(l)
<1> USE DEF central, tables, local, mail
<1>1. UNCHANGED <<proc, joining, requests, replies>> /\ up' \subseteq up
  BY DEF RelayGLBeat, RelayNobody, Charge, ManagerJoins, LeaderForgets, Elect, Crash, vars
<1>2. Told(l)' => Told(l)
  <2>1. CASE UNCHANGED inbox
    BY <2>1 DEF Told
  <2>2. ASSUME NEW k \in LCs, RelayGLBeat(k) PROVE Told(l)' => Told(l)
    <3>1. inbox[l] \in Seq(InboxMsg) /\ (inbox'[l] = inbox[l] \/ inbox'[l] = Append(inbox[l], RBeatGL(leader)))
      BY <2>2 DEF RelayGLBeat, TypeOK
    <3>2. RBeatGL(leader).kind # "TermGMMsg"
      BY DEF RBeatGL
    <3>3. CASE inbox'[l] = inbox[l]
      BY <3>3 DEF Told
    <3>4. CASE inbox'[l] = Append(inbox[l], RBeatGL(leader))
      <4>1. \A i \in DOMAIN inbox'[l] :
              \/ i \in DOMAIN inbox[l] /\ inbox'[l][i] = inbox[l][i]
              \/ inbox'[l][i] = RBeatGL(leader)
        BY <3>1, <3>4
      <4> QED BY <3>2, <4>1 DEF Told
    <3> QED BY <3>1, <3>3, <3>4
  <2>3. ASSUME NEW n \in Nodes, Elect(n) PROVE Told(l)' => Told(l)
    <3>1. n \notin managers' /\ UNCHANGED lcInfo
      BY <2>3 DEF Elect
    <3>2. l \notin lcInfo[n]
      BY <3>1 DEF Calm, Dismissed
    <3>3. inbox'[l] = inbox[l]
      BY <2>3, <3>2 DEF Elect
    <3> QED BY <3>3 DEF Told
  <2> QED BY <2>1, <2>2, <2>3
          DEF RelayNobody, Charge, ManagerJoins, LeaderForgets, Crash, vars
<1> QED BY <1>1, <1>2 DEF Untouched

LEMMA NextCalm == TypeOK /\ CalmInv /\ [Next]_vars => CalmInv'
<1> SUFFICES ASSUME TypeOK, CalmInv, [Next]_vars, NEW l \in LCs, Calm(l)'
             PROVE  OneProcess(l)' /\ OneMessage(l)'
  BY DEF CalmInv
<1>1. OneProcess(l) /\ OneMessage(l)
  BY CalmBefore DEF CalmInv
<1>2. ASSUME NEW p \in Processes, GetGL(l, p) \/ Receive(l, p) \/ Timeout(l, p)
      PROVE  OneProcess(l)' /\ OneMessage(l)'
  BY <1>1, <1>2, GetGLCalm, ReceiveCalm, TimeoutCalm DEF Calm
<1>3. CASE Answered(l)
  BY <1>1, <1>3, AnsweredCalm DEF Answered
<1>4. CASE ChargeFindsDead(l)
  <2>1. Told(l)' => Told(l)
    BY <1>4 DEF ChargeFindsDead, Told
  <2> QED BY <1>1, <1>4, <2>1, GMDeadCalm DEF ChargeFindsDead, Processes
<1>5. CASE MainReads(l)
  BY <1>1, <1>5, MainReadsCalm
<1>6. CASE Restart(l)
  BY <1>1, <1>6, RestartCalm
<1>7. ASSUME NEW k \in LCs \ {l},
             \/ \E p \in Processes : GetGL(k, p) \/ Receive(k, p) \/ Timeout(k, p)
             \/ Answered(k) \/ ChargeFindsDead(k) \/ MainReads(k) \/ Restart(k)
      PROVE  OneProcess(l)' /\ OneMessage(l)'
  BY <1>1, <1>7, OtherController, UntouchedCalm
<1>8. CASE \/ \E k \in LCs : RelayGLBeat(k) \/ RelayNobody(k) \/ Charge(k)
           \/ \E n \in Nodes : ManagerJoins(n) \/ LeaderForgets(n) \/ Elect(n) \/ Crash(n)
           \/ UNCHANGED vars
  BY <1>1, <1>8, ServiceStep, UntouchedCalm
<1> QED BY <1>2, <1>3, <1>4, <1>5, <1>6, <1>7, <1>8 DEF Next

LEMMA AlwaysCalm == Spec => []CalmInv
<1>1. Init => CalmInv
  BY InitCalm
<1>2. TypeOK /\ CalmInv /\ [Next]_vars => CalmInv'
  BY NextCalm
<1> QED BY <1>1, <1>2, TypeCorrect, PTL DEF Spec

(* However nodes and controllers fail, only one of a controller's processes  *)
(* joins, unless a message was late or a manager that lists it was promoted  *)
(* (LocalController.join, gmDead; SnoozeJoin!OneJoin).                       *)
THEOREM OneJoinAtATime == Spec => []OneJoin
<1>1. CalmInv => OneJoin
  BY DEF CalmInv, Calm, OneProcess, OneJoin
<1> QED BY <1>1, AlwaysCalm, PTL

(* Under the same conditions what a controller reads while it joins comes    *)
(* from the one it asked (LocalController.getGM, joinGM, joinFinalize;       *)
(* SnoozeJoin!AnswersMatch).                                                 *)
THEOREM RepliesComeFromTheOneAsked == Spec => AnswersMatch
<1> DEFINE Matches ==
      late = 0 => \A l \in LCs, p \in Processes : Receive(l, p) /\ ~Dismissed(l) =>
        \A i \in DOMAIN replies[l] : IsFirst(l, i) => replies[l][i].from = Asked(proc[l][p])
<1>1. ASSUME TypeOK, CalmInv PROVE Matches
  <2> SUFFICES ASSUME late = 0, NEW l \in LCs, NEW p \in Processes, Receive(l, p), ~Dismissed(l),
                      NEW i \in DOMAIN replies[l], IsFirst(l, i)
               PROVE  replies[l][i].from = Asked(proc[l][p])
    OBVIOUS
  <2>1. OneProcess(l) /\ OneMessage(l)
    BY <1>1 DEF CalmInv, Calm
  <2>2. PICK q \in Processes : proc[l][q].at \in Waiting /\ Asked(proc[l][q]) = replies[l][i].from
    <3>1. i \in Arriving(l)
      BY DEF IsFirst
    <3>2. Expected(l, replies[l][i].from)
      BY <2>1, <3>1 DEF OneMessage
    <3> QED BY <3>2 DEF Expected
  <2>3. proc[l][p].at \in Waiting
    BY DEF Receive
  <2>4. q = p
    BY <2>1, <2>2, <2>3, OthersIdle DEF OneProcess, Waiting
  <2> QED BY <2>2, <2>4
<1>2. TypeOK /\ CalmInv => [Matches]_vars
  BY <1>1
<1> HIDE DEF Matches
<1>3. Spec => [][Matches]_vars
  BY <1>2, TypeCorrect, AlwaysCalm, PTL
<1> QED BY <1>3 DEF AnswersMatch, Matches

=============================================================================
