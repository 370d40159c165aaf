--------------------------- MODULE DvmsPromptProofs ---------------------------
(***************************************************************************)
(* The theorems about Dvms when messages are prompt: what a plan relies on *)
(* while it is computed and applied, that servers never wait for each      *)
(* other in a circle, what a partition keeps on its way, and that the      *)
(* agents implement Partitions.                                            *)
(***************************************************************************)
EXTENDS DvmsProofs

(* Requests.  A process that waits has exactly one request under way, and it *)
(* is the one its state calls for.                                           *)

NotAsking == {"idle", "starting", "computing", "merged", "transmitting"}
Wanted(p, w) ==
  IF w.pc = "validating"
  THEN [type |-> "valid", part |-> w.part, client |-> p] ELSE Request(p, w)

(* An ISP comes from nobody, or from a plan that waits for it to be taken. *)
GoodRequest(procs, m) ==
  /\ m.type \in {"set", "valid"} => m.client # Nobody
  /\ m.client # Nobody =>
       IF m.type = "isp" THEN procs[m.client].pc = "transmitting"
       ELSE procs[m.client].pc \notin NotAsking /\ m = Wanted(m.client, procs[m.client])

InBox(box, n, m) == \E i \in DOMAIN box[n] : box[n][i] = m
Asked(box, p, w) == w.pc \notin NotAsking /\ w.answer = "pending" => InBox(box, w.asked, Wanted(p, w))
Transmits(procs, w) == w # Idle /\ w.client # Nobody => procs[w.client].pc = "transmitting"

Requested(box, procs) ==
  /\ \A n \in Nodes : \A i \in DOMAIN box[n] : GoodRequest(procs, box[n][i])
  /\ \A p \in Procs : Asked(box, p, procs[p])
  /\ \A n \in Nodes : Transmits(procs, procs[Server(n)])

-----------------------------------------------------------------------------
(* Mailboxes, as far as one identifier is concerned.                         *)

Carries(m, x) == m.type = "isp" /\ m.part.id = x
Away(box, x) == \A n \in Nodes : \A i \in DOMAIN box[n] : ~Carries(box[n][i], x)
Sole(box, x, part) ==
  \E n \in Nodes : \E i \in DOMAIN box[n] :
    /\ Carries(box[n][i], x) /\ box[n][i].part = part
    /\ \A m \in Nodes : \A j \in DOMAIN box[m] : Carries(box[m][j], x) => m = n /\ j = i
Lasting(box, x) == \A n \in Nodes : \A i \in DOMAIN box[n] : box[n][i] # Dissolution(x)

-----------------------------------------------------------------------------
(* Each partition is in one place: nowhere, and then nobody will ever ask    *)
(* for it; in one ISP under way, which all its members are blocked with; or  *)
(* in the hands of one process, which brings its members from one version to *)
(* the next.  The definitions take the mailboxes, processes and partitions   *)
(* as arguments, so that the lemmas can say what one change does to them.    *)

Loops == {"joining", "blocking", "growing", "finishing", "confirming"}
Uses == Loops \cup {"starting", "computing", "dissolving"}

In(cur, n, x) == cur[n] # NoPartition /\ cur[n].id = x
Holds(procs, cur, p, x) ==
  \/ procs[p].pc = "validating" /\ procs[p].part.id = x
  \/ procs[p].pc \in Uses /\ In(cur, p[1], x)
Vacant(procs, cur, x) == \A p \in Procs : ~Holds(procs, cur, p, x)

(* The members of a partition, and no other node, have it. *)
Whole(cur, part) ==
  \A n \in Nodes : IF n \in Range(part.nodes) THEN cur[n] = part ELSE ~In(cur, n, part.id)

(* Those that p has not told yet have the version before. *)
Later(p, w, n) ==
  n # p[1] /\ (n \in Range(w.todo) \/ (w.answer = "pending" /\ w.asked = n))
Spread(cur, p, w) ==
  /\ \A n \in Nodes :
       IF n \in Range(w.part.nodes)
       THEN /\ In(cur, n, w.part.id)
            /\ cur[n] = w.part \/ (Later(p, w, n) /\ cur[n].version < w.part.version)
       ELSE ~In(cur, n, w.part.id)
  /\ \A m, n \in Range(w.part.nodes) : cur[m] # w.part /\ cur[n] # w.part => cur[m] = cur[n]

(* A process sets the partition of its own node itself. *)
AsksOthers(p, w) == w.answer = "pending" => w.asked # p[1]

(* What the process p, in state w, may rely on about the partition it holds. *)
HeldBy(cur, p, w) ==
  LET part == cur[p[1]]
  IN /\ w.pc = "validating" =>
          /\ Whole(cur, w.part) /\ w.part.state = "Growing"
          /\ w.asked = w.part.initiator /\ w.answer # "no"
     /\ w.pc \in {"starting", "computing"} => Whole(cur, part) /\ part.leader = p[1]
     /\ w.pc \in Loops =>
          /\ part = w.part /\ Spread(cur, p, w) /\ AsksOthers(p, w)
          /\ w.pc # "blocking" => part.leader = p[1]
          /\ w.pc = "growing" => part.state = "Growing"
     /\ w.pc = "dissolving" =>
          /\ part = w.part /\ part.leader = p[1] /\ AsksOthers(p, w)
          /\ \A n \in Nodes : In(cur, n, part.id) => cur[n] = part /\ (n = p[1] \/ Later(p, w, n))

Loose(box, procs, cur, x) ==
  /\ Away(box, x) /\ Vacant(procs, cur, x)
  /\ \A m, n \in Nodes : In(cur, m, x) /\ In(cur, n, x) => cur[m] = cur[n]
Mailed(box, procs, cur, x) ==
  /\ Lasting(box, x) /\ Vacant(procs, cur, x)
  /\ \E part \in Partition : Sole(box, x, part) /\ Whole(cur, part) /\ part.state = "Growing"
Held(box, procs, cur, x) ==
  /\ Away(box, x) /\ Lasting(box, x)
  /\ \E p \in Procs :
       /\ Holds(procs, cur, p, x) /\ HeldBy(cur, p, procs[p])
       /\ \A q \in Procs \ {p} : ~Holds(procs, cur, q, x)

(* An identifier that was drawn, and one that was not. *)
Followed(box, procs, cur, x) ==
  Loose(box, procs, cur, x) \/ Mailed(box, procs, cur, x) \/ Held(box, procs, cur, x)
Fresh(box, procs, cur, x) ==
  /\ Away(box, x) /\ Lasting(box, x) /\ Vacant(procs, cur, x)
  /\ \A n \in Nodes : ~In(cur, n, x)

-----------------------------------------------------------------------------
(* The invariant, with what servers and plan processes do, and what the      *)
(* timeouts that are snoozed stand for.                                      *)

Kinds ==
  /\ \A n \in Nodes : proc[Server(n)].pc \in {"idle", "validating", "joining", "blocking"}
  /\ \A p \in Plans : proc[p].pc \in {"idle", "starting", "computing", "growing", "transmitting",
                                      "finishing", "confirming", "dissolving"}
  /\ \A p \in Procs : proc[p].pc \in Uses => Booked(p[1])

Planned ==
  /\ \A p \in Plans : proc[p].pc = "computing" => snoozed[p[1]] = Range(current[p[1]].nodes)
  /\ \A n \in Nodes : snoozed[n] # {} => \E p \in Plans : p[1] = n /\ proc[p].pc = "computing"

PromptInv ==
  /\ Requested(inbox, proc)
  /\ \A x \in Ids : Followed(inbox, proc, current, x)
  /\ \A x \in unused : Fresh(inbox, proc, current, x)
  /\ Kinds /\ Planned /\ MembersAreDistinct
-----------------------------------------------------------------------------
(* Mailboxes.                                                                *)

(* A mailbox with, besides the messages it had, copies of m. *)
Grows(box, new, m) ==
  \A n \in Nodes :
    /\ DOMAIN box[n] \subseteq DOMAIN new[n]
    /\ \A i \in DOMAIN new[n] : new[n][i] = IF i \in DOMAIN box[n] THEN box[n][i] ELSE m

LEMMA SentGrows ==
  ASSUME NEW box \in Box, NEW n \in Nodes, NEW m
  PROVE  LET new == Sent(box, n, m)
             last == Len(box[n]) + 1
         IN /\ Grows(box, new, m)
            /\ last \in DOMAIN new[n] /\ last \notin DOMAIN box[n] /\ new[n][last] = m
            /\ \A o \in Nodes : \A i \in DOMAIN new[o] :
                 i \notin DOMAIN box[o] => o = n /\ i = last
<1> DEFINE new == Sent(box, n, m)
           s == box[n]
           last == Len(s) + 1
<1>1. s \in Seq(Message) /\ new[n] = Append(s, m)
  BY DEF Sent, Box
<1>2. \A o \in Nodes \ {n} : new[o] = box[o]
  BY DEF Sent, Box
<1> HIDE DEF s, new
<1>3. /\ DOMAIN s \subseteq DOMAIN new[n] /\ last \in DOMAIN new[n] /\ last \notin DOMAIN s
      /\ new[n][last] = m
      /\ \A i \in DOMAIN new[n] : i \in DOMAIN s \/ i = last
      /\ \A i \in DOMAIN s : new[n][i] = s[i]
  BY <1>1
<1>4. Grows(box, new, m)
  BY <1>2, <1>3 DEF Grows, s
<1> QED BY <1>2, <1>3, <1>4 DEF new, s

LEMMA SentAllGrows ==
  ASSUME NEW box \in Box, NEW members \in Seq(Nodes), NEW R, NEW m \in Message
  PROVE  Grows(box, SentAll(box, members, R, m), m)
<1> DEFINE same(n) == {i \in DOMAIN members : members[i] = n}
           copies(n) == IF n \in R THEN Cardinality(same(n)) ELSE 0
           new == SentAll(box, members, R, m)
<1>1. ASSUME NEW n \in Nodes
      PROVE  copies(n) \in Nat
  <2>1. IsFiniteSet(1..Len(members))
    BY FS_Interval
  <2>2. same(n) \in SUBSET (1..Len(members))
    OBVIOUS
  <2>3. Cardinality(same(n)) \in Nat
    BY <2>1, <2>2, FS_Subset, FS_CardinalityType
  <2> QED BY <2>3
<1>2. \A n \in Nodes : new[n] = box[n] \o [i \in 1..copies(n) |-> m]
  BY DEF SentAll
<1> HIDE DEF copies, new
<1>3. ASSUME NEW n \in Nodes
      PROVE  /\ DOMAIN box[n] \subseteq DOMAIN new[n]
             /\ \A i \in DOMAIN new[n] : new[n][i] = IF i \in DOMAIN box[n] THEN box[n][i] ELSE m
  <2> DEFINE s == box[n]
             t == [j \in 1..copies(n) |-> m]
  <2>1. s \in Seq(Message) /\ t \in Seq(Message) /\ new[n] = s \o t
    <3>1. s \in Seq(Message)
      BY DEF Box
    <3>2. t \in Seq(Message)
      BY <1>1
    <3> QED BY <1>2, <3>1, <3>2
  <2>2. \A j \in DOMAIN t : t[j] = m
    OBVIOUS
  <2> HIDE DEF s, t
  <2>3. DOMAIN s \subseteq DOMAIN (s \o t) /\ \A i \in DOMAIN s : (s \o t)[i] = s[i]
    BY <2>1
  <2>4. \A i \in DOMAIN (s \o t) \ DOMAIN s :
          i - Len(s) \in DOMAIN t /\ (s \o t)[i] = t[i - Len(s)]
    BY <2>1
  <2> QED BY <2>1, <2>2, <2>3, <2>4 DEF s
<1>4. Grows(box, new, m)
  BY <1>3 DEF Grows
<1> QED BY <1>4 DEF new

LEMMA TakenMail ==
  ASSUME inbox \in Box, NEW n \in Nodes, inbox[n] # <<>>
  PROVE  /\ 1 \in DOMAIN inbox[n] /\ inbox[n][1] = Head(inbox[n])
         /\ \A o \in Nodes \ {n} : Taken(n)[o] = inbox[o]
         /\ \A i \in DOMAIN Taken(n)[n] :
              i \in Int /\ i + 1 \in DOMAIN inbox[n] \ {1} /\ Taken(n)[n][i] = inbox[n][i + 1]
         /\ \A i \in DOMAIN inbox[n] \ {1} :
              i \in Int /\ i - 1 \in DOMAIN Taken(n)[n] /\ Taken(n)[n][i - 1] = inbox[n][i]
<1> DEFINE s == inbox[n]
<1>1. s \in Seq(Message) /\ s # <<>> /\ Taken(n)[n] = Tail(s)
  BY DEF Taken, Box
<1>2. \A o \in Nodes \ {n} : Taken(n)[o] = inbox[o]
  BY DEF Taken, Box
<1> HIDE DEF s
<1>3. /\ 1 \in DOMAIN s /\ s[1] = Head(s)
      /\ \A i \in DOMAIN Tail(s) :
           i \in Int /\ i + 1 \in DOMAIN s \ {1} /\ Tail(s)[i] = s[i + 1]
      /\ \A i \in DOMAIN s \ {1} :
           i \in Int /\ i - 1 \in DOMAIN Tail(s) /\ Tail(s)[i - 1] = s[i]
  BY <1>1
<1> QED BY <1>1, <1>2, <1>3 DEF s

(* What mailboxes say of x is not lost. *)
SameMail(box, new, x) ==
  /\ Away(box, x) => Away(new, x)
  /\ Lasting(box, x) => Lasting(new, x)
  /\ \A part : Sole(box, x, part) => Sole(new, x, part)

LEMMA SameMailFacts ==
  /\ \A box, x : SameMail(box, box, x)
  /\ \A box, mid, new, x : SameMail(box, mid, x) /\ SameMail(mid, new, x) => SameMail(box, new, x)
  BY DEF SameMail

LEMMA GrowsSameMail ==
  ASSUME NEW box, NEW new, NEW m, Grows(box, new, m), NEW x, ~Carries(m, x)
  PROVE  /\ Away(box, x) => Away(new, x)
         /\ \A part : Sole(box, x, part) => Sole(new, x, part)
         /\ Lasting(box, x) /\ m # Dissolution(x) => Lasting(new, x)
<1>1. Away(box, x) => Away(new, x)
  BY DEF Grows, Away
<1>2. Lasting(box, x) /\ m # Dissolution(x) => Lasting(new, x)
  BY DEF Grows, Lasting
<1>3. ASSUME NEW part, Sole(box, x, part)
      PROVE  Sole(new, x, part)
  <2>1a. PICK n \in Nodes : \E i \in DOMAIN box[n] :
          /\ Carries(box[n][i], x) /\ box[n][i].part = part
          /\ \A o \in Nodes : \A j \in DOMAIN box[o] : Carries(box[o][j], x) => o = n /\ j = i
    BY <1>3 DEF Sole
  <2>1. PICK i \in DOMAIN box[n] :
          /\ Carries(box[n][i], x) /\ box[n][i].part = part
          /\ \A o \in Nodes : \A j \in DOMAIN box[o] : Carries(box[o][j], x) => o = n /\ j = i
    BY <2>1a
  <2>2. i \in DOMAIN new[n] /\ new[n][i] = box[n][i]
    BY DEF Grows
  <2>3. \A o \in Nodes : \A j \in DOMAIN new[o] : Carries(new[o][j], x) => o = n /\ j = i
    BY <2>1 DEF Grows
  <2> QED BY <2>1, <2>2, <2>3 DEF Sole
<1> QED BY <1>1, <1>2, <1>3

LEMMA TakenSameMail ==
  ASSUME inbox \in Box, NEW n \in Nodes, inbox[n] # <<>>, NEW x
  PROVE  /\ ~Carries(Head(inbox[n]), x) => SameMail(inbox, Taken(n), x)
         /\ Away(inbox, x) => Away(Taken(n), x)
         /\ Lasting(inbox, x) => Lasting(Taken(n), x)
<1>1. Away(inbox, x) => Away(Taken(n), x)
  BY TakenMail DEF Away
<1>2. Lasting(inbox, x) => Lasting(Taken(n), x)
  BY TakenMail DEF Lasting
<1>3. ASSUME ~Carries(Head(inbox[n]), x), NEW part, Sole(inbox, x, part)
      PROVE  Sole(Taken(n), x, part)
  <2> DEFINE new == Taken(n)
  <2>1a. PICK m \in Nodes : \E i \in DOMAIN inbox[m] :
          /\ Carries(inbox[m][i], x) /\ inbox[m][i].part = part
          /\ \A o \in Nodes : \A j \in DOMAIN inbox[o] : Carries(inbox[o][j], x) => o = m /\ j = i
    BY <1>3 DEF Sole
  <2>1. PICK i \in DOMAIN inbox[m] :
          /\ Carries(inbox[m][i], x) /\ inbox[m][i].part = part
          /\ \A o \in Nodes : \A j \in DOMAIN inbox[o] : Carries(inbox[o][j], x) => o = m /\ j = i
    BY <2>1a
  <2> HIDE DEF new
  <2>2. CASE m # n
    <3>1. new[m] = inbox[m]
      BY <2>2, TakenMail DEF new
    <3>2. \A o \in Nodes : \A j \in DOMAIN new[o] : Carries(new[o][j], x) => o = m /\ j = i
      BY <2>1, <2>2, TakenMail DEF new
    <3> QED BY <2>1, <3>1, <3>2 DEF Sole, new
  <2>3. CASE m = n
    <3>1. i \in DOMAIN inbox[n] \ {1}
      BY <1>3, <2>1, <2>3, TakenMail
    <3>2. i \in Int /\ i - 1 \in DOMAIN new[n] /\ new[n][i - 1] = inbox[n][i]
      BY <3>1, TakenMail DEF new
    <3>3. \A j \in DOMAIN new[n] : Carries(new[n][j], x) => j = i - 1
      <4> SUFFICES ASSUME NEW j \in DOMAIN new[n], Carries(new[n][j], x) PROVE j = i - 1
        OBVIOUS
      <4>1. j \in Int /\ j + 1 \in DOMAIN inbox[n] /\ new[n][j] = inbox[n][j + 1]
        BY TakenMail DEF new
      <4>2. j + 1 = i
        BY <2>1, <2>3, <4>1
      <4> QED BY <3>2, <4>1, <4>2
    <3>4. \A o \in Nodes \ {n} : \A j \in DOMAIN new[o] : ~Carries(new[o][j], x)
      BY <2>1, <2>3, TakenMail DEF new
    <3>5. Carries(new[n][i - 1], x) /\ new[n][i - 1].part = part
      BY <2>1, <2>3, <3>2
    <3>6. Sole(new, x, part)
      BY <3>2, <3>3, <3>4, <3>5 DEF Sole
    <3> QED BY <3>6 DEF new
  <2> QED BY <2>2, <2>3
<1> QED BY <1>1, <1>2, <1>3 DEF SameMail

(* The ISP of a partition comes, and goes. *)
LEMMA IspComes ==
  ASSUME NEW box \in Box, NEW n \in Nodes, NEW part, NEW client, Away(box, part.id)
  PROVE  Sole(Sent(box, n, Isp(part, client)), part.id, part)
<1> DEFINE m == Isp(part, client)
           new == Sent(box, n, m)
           last == Len(box[n]) + 1
<1>1. Carries(m, part.id) /\ m.part = part
  BY DEF Carries, Isp
<1> HIDE DEF m
<1>2. /\ Grows(box, new, m) /\ last \in DOMAIN new[n] /\ new[n][last] = m
      /\ \A o \in Nodes : \A i \in DOMAIN new[o] : i \notin DOMAIN box[o] => o = n /\ i = last
  BY SentGrows
<1> HIDE DEF new, last
<1>3. \A o \in Nodes : \A i \in DOMAIN new[o] : Carries(new[o][i], part.id) => o = n /\ i = last
  BY <1>2 DEF Grows, Away
<1>4. Sole(new, part.id, part)
  BY <1>1, <1>2, <1>3 DEF Sole
<1> QED BY <1>4 DEF new, m

LEMMA IspGoes ==
  ASSUME inbox \in Box, NEW n \in Nodes, inbox[n] # <<>>, NEW x, Carries(Head(inbox[n]), x),
         NEW part, Sole(inbox, x, part)
  PROVE  part = Head(inbox[n]).part /\ Away(Taken(n), x)
<1>1a. PICK m \in Nodes : \E i \in DOMAIN inbox[m] :
        /\ Carries(inbox[m][i], x) /\ inbox[m][i].part = part
        /\ \A o \in Nodes : \A j \in DOMAIN inbox[o] : Carries(inbox[o][j], x) => o = m /\ j = i
  BY DEF Sole
<1>1. PICK i \in DOMAIN inbox[m] :
        /\ Carries(inbox[m][i], x) /\ inbox[m][i].part = part
        /\ \A o \in Nodes : \A j \in DOMAIN inbox[o] : Carries(inbox[o][j], x) => o = m /\ j = i
  BY <1>1a
<1>2. m = n /\ i = 1 /\ part = Head(inbox[n]).part
  BY <1>1, TakenMail
<1>3. ASSUME NEW o \in Nodes, NEW j \in DOMAIN Taken(n)[o]
      PROVE  ~Carries(Taken(n)[o][j], x)
  <2>1. CASE o # n
    BY <1>1, <1>2, <1>3, <2>1, TakenMail
  <2>2. CASE o = n
    <3>1. j + 1 \in DOMAIN inbox[n] \ {1} /\ Taken(n)[n][j] = inbox[n][j + 1]
      BY <1>3, <2>2, TakenMail
    <3> QED BY <1>1, <1>2, <2>2, <3>1
  <2> QED BY <2>1, <2>2
<1> QED BY <1>2, <1>3 DEF Away

-----------------------------------------------------------------------------
(* A step that is not about x.                                               *)

PartTable == [Nodes -> Partition \cup {NoPartition}]

SameParts(cur, new, x) ==
  \A n \in Nodes : new[n] = cur[n] \/ (~In(cur, n, x) /\ ~In(new, n, x))

LEMMA WholeIsIn ==
  ASSUME NEW cur, NEW part \in Partition, Whole(cur, part)
  PROVE  \A n \in Nodes : /\ n \in Range(part.nodes) <=> In(cur, n, part.id)
                          /\ In(cur, n, part.id) => cur[n] = part
  BY NoPartitionIsNone DEF Whole, In

LEMMA SameWhole ==
  ASSUME NEW cur, NEW new, NEW part \in Partition, SameParts(cur, new, part.id), Whole(cur, part)
  PROVE  Whole(new, part)
  BY NoPartitionIsNone DEF SameParts, Whole, In

LEMMA SameSpread ==
  ASSUME NEW cur, NEW new, NEW p, NEW w, w.part \in Partition, w.part.nodes \in Seq(Nodes),
         SameParts(cur, new, w.part.id), Spread(cur, p, w)
  PROVE  Spread(new, p, w)
<1>1. Range(w.part.nodes) \subseteq Nodes
  BY DEF Range
<1>2. \A n \in Range(w.part.nodes) : In(cur, n, w.part.id) /\ new[n] = cur[n]
  BY <1>1 DEF SameParts, Spread
<1>3. ASSUME NEW n \in Nodes
      PROVE  IF n \in Range(w.part.nodes)
             THEN /\ In(new, n, w.part.id)
                  /\ new[n] = w.part \/ (Later(p, w, n) /\ new[n].version < w.part.version)
             ELSE ~In(new, n, w.part.id)
  BY <1>2 DEF Spread, SameParts, In
<1>4. \A m, n \in Range(w.part.nodes) : new[m] # w.part /\ new[n] # w.part => new[m] = new[n]
  BY <1>2 DEF Spread
<1> QED BY <1>3, <1>4 DEF Spread

(* What p holds, with the partition it is about. *)
LEMMA HeldParts ==
  ASSUME NEW procs \in ProcTable, NEW cur \in PartTable, NEW p \in Procs, NEW x,
         Holds(procs, cur, p, x), HeldBy(cur, p, procs[p])
  PROVE  /\ p[1] \in Nodes
         /\ procs[p].pc \in Loops \cup {"validating", "dissolving"} =>
              /\ procs[p] \in Waits /\ procs[p].part \in Partition /\ procs[p].part.id = x
              /\ procs[p].part.nodes \in Seq(Nodes)
         /\ procs[p].pc \in Uses =>
              cur[p[1]] \in Partition /\ cur[p[1]].id = x /\ In(cur, p[1], x)
<1>1. p[1] \in Nodes /\ procs[p] \in Process
  BY ProcsFacts DEF ProcTable
<1>2. procs[p].pc \in Uses => cur[p[1]] \in Partition /\ cur[p[1]].id = x /\ In(cur, p[1], x)
  BY <1>1 DEF Holds, In, PartTable, Uses, Loops
<1>3. procs[p].pc \in Loops \cup {"validating", "dissolving"} =>
        procs[p] \in Waits /\ procs[p].part \in Partition /\ procs[p].part.id = x
  <2> SUFFICES ASSUME procs[p].pc \in Loops \cup {"validating", "dissolving"}
               PROVE  procs[p] \in Waits /\ procs[p].part \in Partition /\ procs[p].part.id = x
    OBVIOUS
  <2>1. procs[p] \in Waits
    BY <1>1, WaitsFacts DEF Loops
  <2>2. procs[p].part \in Partition
    BY <2>1 DEF Waits
  <2>3. CASE procs[p].pc = "validating"
    BY <2>1, <2>2, <2>3 DEF Holds, Uses, Loops
  <2>4. CASE procs[p].pc \in Loops \cup {"dissolving"}
    <3>1. cur[p[1]] = procs[p].part
      BY <2>4 DEF HeldBy
    <3>2. procs[p].pc \in Uses
      BY <2>4 DEF Uses
    <3> QED BY <1>2, <2>1, <2>2, <3>1, <3>2
  <2> QED BY <2>3, <2>4
<1> QED BY <1>1, <1>2, <1>3 DEF Partition

LEMMA SameHeldBy ==
  ASSUME NEW procs \in ProcTable, NEW cur \in PartTable, NEW new, NEW p \in Procs, NEW x,
         Holds(procs, cur, p, x), HeldBy(cur, p, procs[p]), SameParts(cur, new, x)
  PROVE  HeldBy(new, p, procs[p]) /\ Holds(procs, new, p, x)
<1> DEFINE w == procs[p]
<1>1. /\ p[1] \in Nodes
      /\ w.pc \in Loops \cup {"validating", "dissolving"} =>
           w.part \in Partition /\ w.part.id = x /\ w.part.nodes \in Seq(Nodes)
      /\ w.pc \in Uses => cur[p[1]] \in Partition /\ cur[p[1]].id = x /\ In(cur, p[1], x)
  BY HeldParts
<1>2. w.pc \in Uses => new[p[1]] = cur[p[1]] /\ In(new, p[1], x)
  BY <1>1 DEF SameParts, In
<1>3. Holds(procs, new, p, x)
  BY <1>2 DEF Holds
<1> SUFFICES HeldBy(new, p, w)
  BY <1>3
<1> HIDE DEF w
<1>4. HeldBy(cur, p, w)
  BY DEF w
<1>5. CASE w.pc = "validating"
  <2>1. Whole(new, w.part)
    BY <1>1, <1>4, <1>5, SameWhole DEF HeldBy
  <2> QED BY <1>4, <1>5, <2>1 DEF HeldBy, Loops
<1>6. CASE w.pc \in {"starting", "computing"}
  <2>1. Whole(new, cur[p[1]])
    BY <1>1, <1>4, <1>6, SameWhole DEF HeldBy, Uses
  <2>2. new[p[1]] = cur[p[1]]
    BY <1>2, <1>6 DEF Uses
  <2> QED BY <1>4, <1>6, <2>1, <2>2 DEF HeldBy, Loops
<1>7. CASE w.pc \in Loops
  <2>1. Spread(new, p, w)
    BY <1>1, <1>4, <1>7, SameSpread DEF HeldBy
  <2>2. new[p[1]] = cur[p[1]]
    BY <1>2, <1>7 DEF Uses
  <2> QED BY <1>4, <1>7, <2>1, <2>2 DEF HeldBy, Loops
<1>8. CASE w.pc = "dissolving"
  <2>1. new[p[1]] = cur[p[1]] /\ cur[p[1]].id = x
    BY <1>1, <1>2, <1>8 DEF Uses
  <2>2. \A n \in Nodes : In(new, n, x) => new[n] = cur[n]
    BY DEF SameParts
  <2> QED BY <1>4, <1>8, <2>1, <2>2 DEF HeldBy, Loops, In
<1>9. CASE w.pc \notin Uses \cup {"validating"}
  BY <1>9 DEF HeldBy, Uses, Loops
<1> QED BY <1>3, <1>5, <1>6, <1>7, <1>8, <1>9 DEF Uses

(* A process that neither held x nor holds it now, or has not moved. *)
SameHolder(procs, cur, procs2, cur2, p, x) ==
  \/ procs2[p] = procs[p]
  \/ ~Holds(procs, cur, p, x) /\ ~Holds(procs2, cur2, p, x)

LEMMA SameFollowed ==
  ASSUME NEW box, NEW new, NEW procs \in ProcTable, NEW procs2, NEW cur \in PartTable, NEW cur2,
         NEW x, SameMail(box, new, x), SameParts(cur, cur2, x),
         \A p \in Procs : SameHolder(procs, cur, procs2, cur2, p, x)
  PROVE  /\ Followed(box, procs, cur, x) => Followed(new, procs2, cur2, x)
         /\ Fresh(box, procs, cur, x) => Fresh(new, procs2, cur2, x)
<1>1. \A p \in Procs : ~Holds(procs, cur, p, x) => ~Holds(procs2, cur2, p, x)
  BY ProcsFacts DEF SameHolder, Holds, SameParts, In
<1>2. Vacant(procs, cur, x) => Vacant(procs2, cur2, x)
  BY <1>1 DEF Vacant
<1>3. \A n \in Nodes : In(cur2, n, x) => In(cur, n, x) /\ cur2[n] = cur[n]
  BY DEF SameParts, In
<1>4. ASSUME Loose(box, procs, cur, x)
      PROVE  Followed(new, procs2, cur2, x)
  BY <1>2, <1>3, <1>4 DEF Loose, SameMail, Followed
<1>5. ASSUME Mailed(box, procs, cur, x)
      PROVE  Followed(new, procs2, cur2, x)
  <2>1. PICK part \in Partition : Sole(box, x, part) /\ Whole(cur, part) /\ part.state = "Growing"
    BY <1>5 DEF Mailed
  <2>2. part.id = x
    BY <2>1 DEF Sole, Carries
  <2>3. Sole(new, x, part) /\ Whole(cur2, part)
    BY <2>1, <2>2, SameWhole DEF SameMail
  <2> QED BY <1>2, <1>5, <2>1, <2>3 DEF Mailed, SameMail, Followed
<1>6. ASSUME Held(box, procs, cur, x)
      PROVE  Followed(new, procs2, cur2, x)
  <2>1. PICK p \in Procs : /\ Holds(procs, cur, p, x) /\ HeldBy(cur, p, procs[p])
                           /\ \A q \in Procs \ {p} : ~Holds(procs, cur, q, x)
    BY <1>6 DEF Held
  <2>2. procs2[p] = procs[p]
    BY <2>1 DEF SameHolder
  <2>3. HeldBy(cur2, p, procs2[p]) /\ Holds(procs, cur2, p, x)
    BY <2>1, <2>2, SameHeldBy
  <2>4. Holds(procs2, cur2, p, x)
    BY <2>2, <2>3 DEF Holds
  <2>5. Away(new, x) /\ Lasting(new, x)
    BY <1>6 DEF Held, SameMail
  <2> QED BY <1>1, <2>1, <2>3, <2>4, <2>5 DEF Held, Followed
<1>7. Fresh(box, procs, cur, x) => Fresh(new, procs2, cur2, x)
  BY <1>2, <1>3 DEF Fresh, SameMail
<1> QED BY <1>4, <1>5, <1>6, <1>7 DEF Followed

-----------------------------------------------------------------------------
(* Requests.                                                                 *)

Alike(v, w) == v.pc = w.pc /\ v.part = w.part

LEMMA AlikeRequest ==
  ASSUME NEW procs, NEW new, NEW m, GoodRequest(procs, m),
         m.client # Nobody => Alike(new[m.client], procs[m.client])
  PROVE  GoodRequest(new, m)
  BY DEF GoodRequest, Alike, Wanted, Request

LEMMA ReplyOthers ==
  ASSUME NEW procs \in ProcTable, NEW c \in Clients, NEW a \in {"yes", "no"}
  PROVE  /\ \A q \in Procs : q # c => Replied(procs, c, a)[q] = procs[q]
         /\ \A q \in Procs : Alike(Replied(procs, c, a)[q], procs[q])
         /\ \A q \in Procs : procs[q] \in Waits =>
              /\ Replied(procs, c, a)[q] \in Waits
              /\ LET v == Replied(procs, c, a)[q]
                     w == procs[q]
                 IN /\ v.todo = w.todo /\ v.client = w.client /\ v.next = w.next
                    /\ v.asked = w.asked /\ v.pc = w.pc /\ v.part = w.part
                    /\ v.answer = IF q = c THEN a ELSE w.answer
         /\ \A q \in Procs : procs[q] \notin Waits => Replied(procs, c, a)[q] = procs[q]
         /\ Replied(procs, c, a) \in ProcTable
<1>1. \A q \in Procs : q # c => Replied(procs, c, a)[q] = procs[q]
  BY DEF Replied, ProcTable
<1>2. \A q \in Procs : Alike(Replied(procs, c, a)[q], procs[q])
  BY ReplySame DEF SameLoop, Alike
<1>3. ASSUME NEW q \in Procs, q = c
      PROVE  Replied(procs, c, a)[q] = [procs[q] EXCEPT !.answer = a]
  BY <1>3 DEF Replied, ProcTable, Procs, Nobody
<1>4. ASSUME NEW q \in Procs, procs[q] \in Waits
      PROVE  /\ Replied(procs, c, a)[q] \in Waits
             /\ LET v == Replied(procs, c, a)[q]
                    w == procs[q]
                IN /\ v.todo = w.todo /\ v.client = w.client /\ v.next = w.next
                   /\ v.asked = w.asked /\ v.pc = w.pc /\ v.part = w.part
                   /\ v.answer = IF q = c THEN a ELSE w.answer
  <2>1. CASE q # c
    BY <1>1, <1>4, <2>1
  <2>2. CASE q = c
    <3> DEFINE w == procs[q]
               v == [w EXCEPT !.answer = a]
    <3>1. /\ v \in Waits /\ v.todo = w.todo /\ v.client = w.client /\ v.next = w.next
          /\ v.asked = w.asked /\ v.pc = w.pc /\ v.part = w.part /\ v.answer = a
      BY <1>4 DEF Waits
    <3>2. Replied(procs, c, a)[q] = v
      BY <1>3, <2>2
    <3> HIDE DEF v
    <3> QED BY <2>2, <3>1, <3>2
  <2> QED BY <2>1, <2>2
<1>5. ASSUME NEW q \in Procs, procs[q] \notin Waits
      PROVE  Replied(procs, c, a)[q] = procs[q]
  <2>1. procs[q] \in {Idle, Starting, Computing}
    BY <1>5, ProcessIsIdleOrWaits DEF ProcTable
  <2>2. [procs[q] EXCEPT !.answer = a] = procs[q]
    BY <2>1 DEF Idle, Starting, Computing
  <2> QED BY <1>1, <1>3, <2>2
<1> QED BY <1>1, <1>2, <1>4, <1>5, RepliedType

(* A reply answers one request and leaves the others. *)
LEMMA RepliedRequested ==
  ASSUME NEW box \in Box, NEW procs \in ProcTable, NEW c \in Clients, NEW a \in {"yes", "no"},
         \A n \in Nodes : \A i \in DOMAIN box[n] : GoodRequest(procs, box[n][i]),
         \A p \in Procs : p # c => Asked(box, p, procs[p]),
         \A n \in Nodes : Transmits(procs, procs[Server(n)]),
         HeldAwaited(box, procs)
  PROVE  Requested(box, Replied(procs, c, a))
<1> DEFINE new == Replied(procs, c, a)
<1>1. /\ \A q \in Procs : q # c => new[q] = procs[q]
      /\ \A q \in Procs : Alike(new[q], procs[q])
      /\ \A q \in Procs : procs[q] \notin Waits => new[q] = procs[q]
      /\ \A q \in Procs : procs[q] \in Waits => new[q].client = procs[q].client
      /\ \A q \in Procs : procs[q] \in Waits /\ q = c => new[q].answer = a
  BY ReplyOthers
<1> HIDE DEF new
<1>2. ASSUME NEW n \in Nodes, NEW i \in DOMAIN box[n]
      PROVE  GoodRequest(new, box[n][i])
  <2>1. box[n][i].client \in Clients
    BY ClientTypes
  <2> QED BY <1>1, <2>1, AlikeRequest DEF Clients
<1>3. ASSUME NEW p \in Procs
      PROVE  Asked(box, p, new[p])
  <2>1. CASE p # c
    BY <1>1, <2>1
  <2>2. CASE p = c /\ procs[p] \in Waits
    BY <1>1, <2>2 DEF Asked
  <2>3. CASE procs[p] \notin Waits
    <3>1. new[p] \in {Idle, Starting, Computing}
      BY <1>1, <2>3, ProcessIsIdleOrWaits DEF ProcTable
    <3> QED BY <3>1 DEF Asked, NotAsking, Idle, Starting, Computing
  <2> QED BY <2>1, <2>2, <2>3
<1>4. ASSUME NEW n \in Nodes
      PROVE  Transmits(new, new[Server(n)])
  <2> SUFFICES ASSUME new[Server(n)] # Idle, new[Server(n)].client # Nobody
               PROVE  new[new[Server(n)].client].pc = "transmitting"
    BY DEF Transmits
  <2>1. Server(n) \in Procs
    BY ProcsFacts
  <2>2. procs[Server(n)] \in Waits
    BY <1>1, <2>1, ProcessIsIdleOrWaits DEF HeldAwaited
  <2>3. new[Server(n)].client = procs[Server(n)].client /\ procs[Server(n)].client \in Clients
    BY <1>1, <2>1, <2>2 DEF Waits
  <2>4. procs[Server(n)] # Idle
    BY <2>2, ProcessIsIdleOrWaits DEF Process
  <2>5. procs[procs[Server(n)].client].pc = "transmitting"
    BY <2>3, <2>4 DEF Transmits
  <2> QED BY <1>1, <2>3, <2>5 DEF Alike, Clients
<1> QED BY <1>2, <1>3, <1>4 DEF Requested, new

(* The server takes a message, and replies to it at once. *)
LEMMA TakenRequested ==
  ASSUME TypeOK, Awaited(inbox, proc), Requested(inbox, proc), NEW n \in Nodes, NEW type,
         Receives(n, type), NEW a \in {"yes", "no"}
  PROVE  /\ Requested(Taken(n), Replied(proc, Head(inbox[n]).client, a))
         /\ type = "isp" => Requested(Taken(n), proc)
         /\ GoodRequest(proc, Head(inbox[n]))
<1> DEFINE m == Head(inbox[n])
           c == m.client
           box == Taken(n)
<1>1. /\ Awaited(box, proc) /\ box \in Box /\ c \in Clients /\ m \in Message
      /\ inbox \in Box /\ proc \in ProcTable /\ inbox[n] # <<>> /\ m.type = type
  BY TakenAwaited, TypesOfState DEF Receives
<1> HIDE DEF m, box
<1>2. GoodRequest(proc, m)
  BY <1>1, TakenMail DEF Requested, m
<1>3. \A o \in Nodes : \A i \in DOMAIN box[o] : GoodRequest(proc, box[o][i])
  <2> SUFFICES ASSUME NEW o \in Nodes, NEW i \in DOMAIN box[o] PROVE GoodRequest(proc, box[o][i])
    OBVIOUS
  <2>1. CASE o = n
    <3>1. i + 1 \in DOMAIN inbox[n] /\ box[n][i] = inbox[n][i + 1]
      BY <1>1, <2>1, TakenMail DEF box
    <3> QED BY <2>1, <3>1 DEF Requested
  <2>2. CASE o # n
    BY <1>1, <2>2, TakenMail DEF box, Requested
  <2> QED BY <2>1, <2>2
<1>4. ASSUME NEW p \in Procs, p # c
      PROVE  Asked(box, p, proc[p])
  <2> SUFFICES ASSUME proc[p].pc \notin NotAsking, proc[p].answer = "pending"
               PROVE  InBox(box, proc[p].asked, Wanted(p, proc[p]))
    BY DEF Asked
  <2>1. PICK i \in DOMAIN inbox[proc[p].asked] : inbox[proc[p].asked][i] = Wanted(p, proc[p])
    BY DEF Requested, Asked, InBox
  <2>2. Wanted(p, proc[p]).client = p
    BY DEF Wanted, Request
  <2>3. proc[p].asked \in Nodes
    <3>1. proc[p] \in Waits
      BY <1>1, WaitsFacts DEF NotAsking, ProcTable
    <3> QED BY <3>1 DEF Waits
  <2>4. CASE proc[p].asked = n
    <3>1. i # 1
      BY <1>1, <1>4, <2>1, <2>2, <2>4, TakenMail DEF m
    <3>2. i - 1 \in DOMAIN box[n] /\ box[n][i - 1] = inbox[n][i]
      BY <1>1, <2>1, <2>4, <3>1, TakenMail DEF box
    <3> QED BY <2>1, <2>4, <3>2 DEF InBox
  <2>5. CASE proc[p].asked # n
    BY <1>1, <2>1, <2>3, <2>5, TakenMail DEF box, InBox
  <2> QED BY <2>4, <2>5
<1>5. Requested(box, Replied(proc, c, a))
  BY <1>1, <1>3, <1>4, RepliedRequested DEF Requested, Awaited
<1>6. ASSUME type = "isp"
      PROVE  Requested(box, proc)
  <2>1. c # Nobody => proc[c].pc = "transmitting"
    BY <1>1, <1>2, <1>6 DEF GoodRequest
  <2>2. \A p \in Procs : p = c => Asked(box, p, proc[p])
    <3>1. \A p \in Procs : p # Nobody
      BY DEF Procs, Nobody
    <3> QED BY <2>1, <3>1 DEF Asked, NotAsking
  <2> QED BY <1>3, <1>4, <2>2 DEF Requested
<1> QED BY <1>2, <1>5, <1>6 DEF box, m

(* A process that has no request out moves, and may send one. *)
LEMMA MoveRequested ==
  ASSUME NEW box \in Box, NEW procs \in ProcTable, Requested(box, procs), NEW p \in Procs,
         Free(box, procs, p), NEW v, NEW new,
         Asked(new, p, v),
         new = box \/ \E r : Grows(box, new, r) /\ GoodRequest([procs EXCEPT ![p] = v], r),
         p \in Plans \/ (v # Idle => v.client \in Clients \ {p} /\ Transmits(procs, v)),
         HeldAwaited(box, procs)
  PROVE  Requested(new, [procs EXCEPT ![p] = v])
<1> DEFINE procs2 == [procs EXCEPT ![p] = v]
<1>1. procs2[p] = v /\ \A q \in Procs \ {p} : procs2[q] = procs[q]
  BY DEF ProcTable
<1> HIDE DEF procs2
<1>2. ASSUME NEW n \in Nodes, NEW i \in DOMAIN box[n]
      PROVE  GoodRequest(procs2, box[n][i])
  <2>1. box[n][i].client \in Clients /\ box[n][i].client # p
    BY ClientTypes DEF Free
  <2> QED BY <1>1, <2>1, AlikeRequest DEF Clients, Requested, Alike
<1>3. ASSUME NEW n \in Nodes, NEW i \in DOMAIN new[n]
      PROVE  GoodRequest(procs2, new[n][i])
  BY <1>2, <1>3 DEF Grows, procs2
<1>4. \A n \in Nodes : \A m : InBox(box, n, m) => InBox(new, n, m)
  BY DEF InBox, Grows
<1>5. ASSUME NEW q \in Procs
      PROVE  Asked(new, q, procs2[q])
  <2>1. CASE q = p
    BY <1>1, <2>1
  <2>2. CASE q # p
    <3> SUFFICES ASSUME procs[q].pc \notin NotAsking, procs[q].answer = "pending"
                 PROVE  InBox(new, procs[q].asked, Wanted(q, procs[q]))
      BY <1>1, <2>2 DEF Asked
    <3>1. procs[q].asked \in Nodes
      <4>1. procs[q] \in Waits
        BY WaitsFacts DEF NotAsking, ProcTable
      <4> QED BY <4>1 DEF Waits
    <3> QED BY <1>4, <3>1 DEF Requested, Asked
  <2> QED BY <2>1, <2>2
<1>6. ASSUME NEW n \in Nodes
      PROVE  Transmits(procs2, procs2[Server(n)])
  <2>1. Server(n) \in Procs /\ Server(n) \notin Plans
    BY ProcsFacts DEF Plans, Server
  <2>2. CASE Server(n) = p
    BY <1>1, <2>1, <2>2 DEF Transmits, Clients
  <2>3. CASE Server(n) # p
    <3>1. procs2[Server(n)] = procs[Server(n)]
      BY <1>1, <2>1, <2>3
    <3>2. procs[Server(n)] # Idle => procs[Server(n)].client \in Clients \ {p}
      BY DEF HeldAwaited, Waits, Free
    <3>3. Transmits(procs, procs[Server(n)])
      BY DEF Requested
    <3> QED BY <1>1, <3>1, <3>2, <3>3 DEF Transmits, Clients
  <2> QED BY <2>2, <2>3
<1> QED BY <1>3, <1>5, <1>6 DEF Requested, procs2

-----------------------------------------------------------------------------
(* Loops.                                                                    *)

(* What a process that starts or goes on with the loop of w is in, and what  *)
(* it sends.                                                                 *)
LEMMA AskAllFacts ==
  ASSUME proc \in ProcTable, NEW p \in Procs, NEW w \in Waits, NEW box \in Box,
         AskAll(p, w, box)
  PROVE  LET v == proc'[p]
         IN /\ v \in Waits /\ proc' = [proc EXCEPT ![p] = v]
            /\ v.pc = w.pc /\ v.part = w.part /\ v.client = w.client /\ v.next = w.next
            /\ v.answer # "no" /\ AsksOthers(p, v)
            /\ \A n \in Range(w.todo) \ {p[1]} : Later(p, v, n)
            /\ v.answer = "pending" => InBox(inbox', v.asked, Request(p, w))
            /\ inbox' = box \/ Grows(box, inbox', Request(p, w))
<1>0. w.todo \in Seq(Nodes) /\ w.part \in Partition
  BY DEF Waits
<1>1. CASE /\ Left(p, w.todo) = {} /\ inbox' = box
           /\ proc' = [proc EXCEPT ![p] = [w EXCEPT !.answer = "yes"]]
  <2> DEFINE v == [w EXCEPT !.answer = "yes"]
  <2>1. /\ v \in Waits /\ v.pc = w.pc /\ v.part = w.part /\ v.client = w.client
        /\ v.next = w.next /\ v.answer = "yes"
    BY DEF Waits
  <2>2. Range(w.todo) \subseteq {p[1]}
    BY <1>1 DEF Left, Range
  <2>3. proc'[p] = v /\ proc' = [proc EXCEPT ![p] = v]
    BY <1>1 DEF ProcTable
  <2> HIDE DEF v
  <2> QED BY <1>1, <2>1, <2>2, <2>3 DEF AsksOthers
<1>2. ASSUME NEW i \in Left(p, w.todo), \A j \in Left(p, w.todo) : i <= j,
             proc' = [proc EXCEPT ![p] = [w EXCEPT !.todo = SubSeq(@, i + 1, Len(@)),
                                                   !.asked = w.todo[i], !.answer = "pending"]],
             inbox' = Sent(box, w.todo[i], Request(p, w))
      PROVE  LET v == proc'[p]
             IN /\ v \in Waits /\ proc' = [proc EXCEPT ![p] = v]
                /\ v.pc = w.pc /\ v.part = w.part /\ v.client = w.client /\ v.next = w.next
                /\ v.answer # "no" /\ AsksOthers(p, v)
                /\ \A n \in Range(w.todo) \ {p[1]} : Later(p, v, n)
                /\ v.answer = "pending" => InBox(inbox', v.asked, Request(p, w))
                /\ inbox' = box \/ Grows(box, inbox', Request(p, w))
  <2> DEFINE rest == SubSeq(w.todo, i + 1, Len(w.todo))
             n == w.todo[i]
             v == [w EXCEPT !.todo = rest, !.asked = n, !.answer = "pending"]
  <2>1. i \in DOMAIN w.todo /\ n # p[1]
    BY <1>2 DEF Left
  <2>2. rest \in Seq(Nodes) /\ n \in Nodes
    <3>1. i + 1 \in Int /\ Len(w.todo) \in Int /\ \A j \in (i + 1)..Len(w.todo) : w.todo[j] \in Nodes
      BY <1>0, <2>1
    <3> QED BY <1>0, <2>1, <3>1, SubSeqProperties
  <2>3. \A o \in Range(w.todo) \ {p[1]} : o \in Range(rest) \/ o = n
    <3> SUFFICES ASSUME NEW j \in DOMAIN w.todo, w.todo[j] # p[1], w.todo[j] # n
                 PROVE  w.todo[j] \in Range(rest)
      BY DEF Range
    <3>1. j \in Left(p, w.todo)
      BY DEF Left
    <3>2. i <= j /\ j # i
      BY <1>2, <3>1
    <3>3. j - i \in DOMAIN rest /\ rest[j - i] = w.todo[j]
      BY <1>0, <2>1, <3>2
    <3> QED BY <3>3 DEF Range
  <2>4. proc'[p] = v /\ proc' = [proc EXCEPT ![p] = v]
    BY <1>2 DEF ProcTable
  <2>5. Grows(box, inbox', Request(p, w)) /\ InBox(inbox', n, Request(p, w))
    BY <1>2, <2>2, SentGrows DEF InBox
  <2> HIDE DEF rest, n
  <2>6. /\ v \in Waits /\ v.pc = w.pc /\ v.part = w.part /\ v.client = w.client
        /\ v.next = w.next /\ v.answer = "pending" /\ v.asked = n /\ v.todo = rest
    BY <2>2 DEF Waits
  <2> HIDE DEF v
  <2> QED BY <2>1, <2>3, <2>4, <2>5, <2>6 DEF AsksOthers, Later
<1> QED BY <1>1, <1>2 DEF AskAll

(* Its request says nothing of any ISP. *)
LEMMA RequestsAreNoIsps ==
  ASSUME NEW p \in Procs, NEW w
  PROVE  \A x : ~Carries(Request(p, w), x) /\ Request(p, w) # Dissolution(x)
<1>1. p # Nobody
  BY DEF Procs, Nobody
<1> QED BY <1>1 DEF Carries, Request, Dissolution

LEMMA AskAllMail ==
  ASSUME proc \in ProcTable, NEW p \in Procs, NEW w \in Waits, NEW box \in Box,
         AskAll(p, w, box)
  PROVE  \A x : SameMail(box, inbox', x)
<1>1. inbox' = box \/ Grows(box, inbox', Request(p, w))
  BY AskAllFacts
<1> QED BY <1>1, RequestsAreNoIsps, GrowsSameMail DEF SameMail

LEMMA AskAllRequested ==
  ASSUME proc \in ProcTable, NEW p \in Procs, NEW w \in Waits, NEW box \in Box,
         AskAll(p, w, box), w.pc \in Loops \cup {"dissolving"},
         Requested(box, proc), Free(box, proc, p), HeldAwaited(box, proc),
         p \in Plans \/ (w.client # p /\ Transmits(proc, w))
  PROVE  Requested(inbox', proc')
<1> DEFINE v == proc'[p]
<1>1. /\ v \in Waits /\ proc' = [proc EXCEPT ![p] = v]
      /\ v.pc = w.pc /\ v.part = w.part /\ v.client = w.client
      /\ v.answer = "pending" => InBox(inbox', v.asked, Request(p, w))
      /\ inbox' = box \/ Grows(box, inbox', Request(p, w))
  BY AskAllFacts
<1>2. w.pc \notin NotAsking /\ w.pc # "validating" /\ w # Idle
  BY DEF Loops, NotAsking, Idle
<1>3. Request(p, w) = Wanted(p, w) /\ Wanted(p, v) = Wanted(p, w)
  BY <1>1, <1>2 DEF Wanted, Request
<1>4. GoodRequest(proc', Request(p, w))
  <2>1. Request(p, w).client = p /\ Request(p, w).type \in {"set", "dissolve"} /\ p # Nobody
    BY DEF Request, Procs, Nobody
  <2> QED BY <1>1, <1>2, <1>3, <2>1 DEF GoodRequest
<1>5. Asked(inbox', p, v)
  BY <1>1, <1>3 DEF Asked
<1>6. p \in Plans \/ (v # Idle => v.client \in Clients \ {p} /\ Transmits(proc, v))
  BY <1>1, <1>2 DEF Transmits, Waits
<1>7. Requested(inbox', [proc EXCEPT ![p] = v])
  BY <1>1, <1>4, <1>5, <1>6, MoveRequested
<1> QED BY <1>1, <1>7

-----------------------------------------------------------------------------
(* The holder of a partition, and its ISP.                                   *)

LEMMA HoldOf ==
  ASSUME NEW box, NEW procs, NEW cur, NEW x, Followed(box, procs, cur, x),
         NEW p \in Procs, Holds(procs, cur, p, x)
  PROVE  /\ Away(box, x) /\ Lasting(box, x) /\ HeldBy(cur, p, procs[p])
         /\ \A q \in Procs \ {p} : ~Holds(procs, cur, q, x)
<1>1. ~Loose(box, procs, cur, x) /\ ~Mailed(box, procs, cur, x)
  BY DEF Loose, Mailed, Vacant
<1>2. Held(box, procs, cur, x)
  BY <1>1 DEF Followed
<1> QED BY <1>2 DEF Held

LEMMA MailOf ==
  ASSUME inbox \in Box, NEW n \in Nodes, inbox[n] # <<>>, NEW procs, NEW cur, NEW x,
         Followed(inbox, procs, cur, x), Carries(Head(inbox[n]), x)
  PROVE  LET part == Head(inbox[n]).part
         IN /\ part \in Partition /\ part.id = x /\ part.state = "Growing" /\ Whole(cur, part)
            /\ Away(Taken(n), x) /\ Lasting(Taken(n), x) /\ Vacant(procs, cur, x)
<1>1. ~Away(inbox, x)
  BY TakenMail DEF Away
<1>2. Mailed(inbox, procs, cur, x)
  BY <1>1 DEF Followed, Loose, Held
<1>3. PICK part \in Partition : Sole(inbox, x, part) /\ Whole(cur, part) /\ part.state = "Growing"
  BY <1>2 DEF Mailed
<1>4. part = Head(inbox[n]).part /\ Away(Taken(n), x) /\ Lasting(Taken(n), x)
  BY <1>2, <1>3, IspGoes, TakenSameMail DEF Mailed
<1> QED BY <1>2, <1>3, <1>4 DEF Mailed, Carries

(* A partition that a message dissolves, and that nobody waits for. *)
LEMMA DissolutionOf ==
  ASSUME inbox \in Box, NEW n \in Nodes, inbox[n] # <<>>, NEW procs, NEW cur, NEW x,
         Followed(inbox, procs, cur, x), Head(inbox[n]) = Dissolution(x)
  PROVE  Loose(inbox, procs, cur, x)
<1>1. ~Lasting(inbox, x)
  BY TakenMail DEF Lasting
<1> QED BY <1>1 DEF Followed, Mailed, Held

(* A process that holds nothing, wherever its node is. *)
Silent(w) == w.pc \in {"idle", "transmitting"}

LEMMA SilentHolds ==
  ASSUME NEW procs, NEW p, Silent(procs[p])
  PROVE  \A cur, x : ~Holds(procs, cur, p, x)
  BY DEF Silent, Holds, Uses, Loops

(* The replies to a plan that transmitted its partition. *)
LEMMA SilentReply ==
  ASSUME NEW procs \in ProcTable, NEW c \in Clients, NEW a \in {"yes", "no"},
         c # Nobody => procs[c].pc = "transmitting"
  PROVE  \A q \in Procs : \/ Replied(procs, c, a)[q] = procs[q]
                          \/ Silent(procs[q]) /\ Silent(Replied(procs, c, a)[q])
<1>1. \A q \in Procs : q # c => Replied(procs, c, a)[q] = procs[q]
  BY ReplyOthers
<1>2. \A q \in Procs : Alike(Replied(procs, c, a)[q], procs[q])
  BY ReplyOthers
<1>3. \A q \in Procs : q # Nobody
  BY DEF Procs, Nobody
<1> QED BY <1>1, <1>2, <1>3 DEF Silent, Alike

LEMMA StillHeld ==
  ASSUME NEW box, NEW procs, NEW cur, NEW x, Away(box, x), Lasting(box, x),
         NEW p \in Procs, Holds(procs, cur, p, x), HeldBy(cur, p, procs[p]),
         \A q \in Procs \ {p} : ~Holds(procs, cur, q, x)
  PROVE  Followed(box, procs, cur, x)
  BY DEF Followed, Held

(* What all that follows takes for granted. *)
PromptState ==
  /\ TypeOK /\ ValidatingIsFree /\ MembersInv /\ Awaited(inbox, proc)
  /\ PromptInv

FollowedAll == \A x \in Ids : Followed(inbox, proc, current, x)
FreshAll == \A x \in unused : Fresh(inbox, proc, current, x)

(* What a step leaves alone, if it is not about x. *)
Untouched(x) ==
  /\ SameMail(inbox, inbox', x) /\ SameParts(current, current', x)
  /\ \A q \in Procs : SameHolder(proc, current, proc', current', q, x)
OneAtATime == \E y : \A x \in Ids \ {y} : Untouched(x)

LEMMA PromptFacts ==
  ASSUME PromptState
  PROVE  /\ inbox \in Box /\ proc \in ProcTable /\ current \in PartTable
         /\ \A p \in Procs : p[1] \in Nodes /\ proc[p] \in Process
         /\ \A p \in Procs : proc[p].pc \in Uses =>
              /\ Booked(p[1]) /\ current[p[1]] \in Partition /\ current[p[1]].id \in Ids
              /\ Holds(proc, current, p, current[p[1]].id)
              /\ HeldBy(current, p, proc[p])
         /\ \A p \in Procs : proc[p].pc = "validating" =>
              /\ proc[p] \in Waits /\ proc[p].part \in Partition /\ proc[p].part.id \in Ids
              /\ Holds(proc, current, p, proc[p].part.id)
              /\ HeldBy(current, p, proc[p])
         /\ \A p \in Procs : proc[p].pc \in Loops \cup {"dissolving"} =>
              proc[p] \in Waits /\ proc[p].part = current[p[1]]
<1>1. /\ inbox \in Box /\ proc \in ProcTable /\ current \in PartTable
      /\ \A p \in Procs : p[1] \in Nodes /\ proc[p] \in Process
  BY TypesOfState, ProcsFacts DEF PromptState, PartTable, ProcTable
<1>2. ASSUME NEW p \in Procs, proc[p].pc \in Uses
      PROVE  /\ Booked(p[1]) /\ current[p[1]] \in Partition /\ current[p[1]].id \in Ids
             /\ Holds(proc, current, p, current[p[1]].id)
             /\ HeldBy(current, p, proc[p])
  <2>1. Booked(p[1])
    BY <1>2 DEF PromptState, PromptInv, Kinds
  <2>2. current[p[1]] \in Partition /\ current[p[1]].id \in Ids
    BY <1>1, <2>1, TypesOfState DEF PromptState, Partition
  <2>3. Holds(proc, current, p, current[p[1]].id)
    BY <1>2, <2>1 DEF Holds, In, Booked
  <2> QED BY <2>1, <2>2, <2>3, HoldOf DEF PromptState, PromptInv
<1>3. ASSUME NEW p \in Procs, proc[p].pc = "validating"
      PROVE  /\ proc[p] \in Waits /\ proc[p].part \in Partition /\ proc[p].part.id \in Ids
             /\ Holds(proc, current, p, proc[p].part.id)
             /\ HeldBy(current, p, proc[p])
  <2>1. proc[p] \in Waits
    BY <1>1, <1>3, WaitsFacts
  <2>2. proc[p].part \in Partition /\ proc[p].part.id \in Ids
    BY <2>1 DEF Waits, Partition
  <2>3. Holds(proc, current, p, proc[p].part.id)
    BY <1>3 DEF Holds
  <2> QED BY <2>1, <2>2, <2>3, HoldOf DEF PromptState, PromptInv
<1>4. ASSUME NEW p \in Procs, proc[p].pc \in Loops \cup {"dissolving"}
      PROVE  proc[p] \in Waits /\ proc[p].part = current[p[1]]
  <2>1. proc[p] \in Waits
    BY <1>1, <1>4, WaitsFacts DEF Loops
  <2>2. HeldBy(current, p, proc[p])
    BY <1>2, <1>4 DEF Uses
  <2> QED BY <1>4, <2>1, <2>2 DEF HeldBy
<1> QED BY <1>1, <1>2, <1>3, <1>4

LEMMA PcOf ==
  ASSUME PromptState, NEW p \in Procs
  PROVE  proc[p].pc \in {"idle", "validating", "starting", "computing", "transmitting",
                         "dissolving"} \cup Loops
  BY ServerOrPlan DEF PromptState, PromptInv, Kinds, Loops

(* A step that is about y only. *)
LEMMA StepFollowed ==
  ASSUME PromptState, NEW y, y \notin unused',
         \A x \in Ids \ {y} :
           /\ SameMail(inbox, inbox', x) /\ SameParts(current, current', x)
           /\ \A q \in Procs : SameHolder(proc, current, proc', current', q, x),
         y \in Ids => Followed(inbox', proc', current', y),
         unused' \subseteq unused
  PROVE  FollowedAll' /\ FreshAll' /\ OneAtATime
<1>1. unused \subseteq Ids /\ proc \in ProcTable /\ current \in PartTable
  BY PromptFacts DEF PromptState, TypeOK
<1>2. ASSUME NEW x \in Ids \ {y}
      PROVE  /\ Followed(inbox', proc', current', x)
             /\ x \in unused => Fresh(inbox', proc', current', x)
  BY <1>1, <1>2, SameFollowed DEF PromptState, PromptInv
<1>3. \A x \in Ids \ {y} : Untouched(x)
  BY DEF Untouched
<1>4. OneAtATime
  BY <1>3 DEF OneAtATime
<1> QED BY <1>1, <1>2, <1>4 DEF FollowedAll, FreshAll

LEMMA Used ==
  ASSUME PromptState, NEW x
  PROVE  /\ \A p \in Procs : Holds(proc, current, p, x) => x \notin unused
         /\ \A n \in Nodes : In(current, n, x) => x \notin unused
         /\ ~Away(inbox, x) => x \notin unused
         /\ ~Lasting(inbox, x) => x \notin unused
  BY DEF PromptState, PromptInv, Fresh, Vacant

(* A message, with the reply to it. *)
LEMMA MessageFacts ==
  ASSUME PromptState, NEW n \in Nodes, NEW type, Receives(n, type)
  PROVE  LET m == Head(inbox[n])
         IN /\ m.type = type /\ m \in Message /\ m.client \in Clients /\ inbox[n] # <<>>
            /\ type # "isp" => \A x : SameMail(inbox, Taken(n), x)
            /\ m.client # Nobody => m.client \in Procs /\ Asks(proc[m.client], n)
            /\ GoodRequest(proc, m) /\ GoodMessage(n, m)
            /\ type \in {"isp", "set", "valid"} => m.part \in Partition
            /\ Free(Taken(n), proc, Server(n)) /\ Taken(n) \in Box
            /\ proc[Server(n)] = Idle
            /\ HeldAwaited(Taken(n), proc)
<1> DEFINE m == Head(inbox[n])
<1>1. inbox[n] # <<>> /\ m.type = type
  BY DEF Receives
<1>2. TypeOK /\ Awaited(inbox, proc) /\ Requested(inbox, proc) /\ GoodBox(inbox)
  BY DEF PromptState, PromptInv, MembersInv
<1>3. /\ Awaited(Taken(n), proc) /\ Taken(n) \in Box /\ m \in Message /\ m.client \in Clients
      /\ m.client # Nobody => Asks(proc[m.client], n)
      /\ type \in {"isp", "set", "valid"} => m.part \in Partition
      /\ proc[Server(n)] = Idle
  BY <1>2, TakenAwaited
<1>4. GoodRequest(proc, m)
  BY <1>2, TakenRequested
<1>5. GoodMessage(n, m)
  BY <1>1, <1>2, PromptFacts, GoodTaken
<1>6. type # "isp" => \A x : SameMail(inbox, Taken(n), x)
  BY <1>1, PromptFacts, TakenSameMail DEF Carries
<1>7. Free(Taken(n), proc, Server(n))
  <2>1. Server(n) # Nobody
    BY DEF Server, Nobody
  <2>2. \A o \in Nodes : ~Asks(proc[Server(n)], o)
    BY <1>3 DEF Asks, Idle
  <2> QED BY <1>3, <2>1, <2>2, NotAskingIsFree
<1>8. HeldAwaited(Taken(n), proc) /\ (m.client # Nobody => m.client \in Procs)
  BY <1>3 DEF Awaited, Clients
<1> QED BY <1>1, <1>3, <1>4, <1>5, <1>6, <1>7, <1>8

LEMMA IsStillValidFollowed ==
  ASSUME PromptState, NEW n \in Nodes, IsStillValid(n)
  PROVE  FollowedAll' /\ FreshAll' /\ OneAtATime
<1> DEFINE m == Head(inbox[n])
           c == m.client
           y == m.part.id
<1>1. /\ m.type = "valid" /\ c \in Clients /\ inbox[n] # <<>> /\ m.part \in Partition
      /\ \A x : SameMail(inbox, Taken(n), x)
      /\ c # Nobody => c \in Procs /\ Asks(proc[c], n)
      /\ GoodRequest(proc, m) /\ GoodMessage(n, m)
  BY MessageFacts DEF IsStillValid
<1> HIDE DEF m
<1>2. c \in Procs /\ c # Nobody /\ m = Wanted(c, proc[c])
  BY <1>1 DEF GoodRequest
<1>3. proc[c].pc = "validating" /\ proc[c].part = m.part
  BY <1>1, <1>2 DEF Wanted, Request
<1>4. /\ proc[c] \in Waits /\ y \in Ids /\ Holds(proc, current, c, y)
      /\ HeldBy(current, c, proc[c])
  BY <1>2, <1>3, PromptFacts
<1>5. Whole(current, m.part) /\ n = m.part.initiator
  BY <1>1, <1>2, <1>3, <1>4 DEF HeldBy, Asks
<1>6. StillValid(n, m.part)
  <2>1. n \in Range(m.part.nodes)
    BY <1>1, <1>5 DEF GoodMessage, Sound
  <2>2. current[n] = m.part
    BY <1>5, <2>1 DEF Whole
  <2>3. m.part.version <= m.part.version
    <3>1. m.part.version \in Nat
      BY <1>1 DEF Partition
    <3> QED BY <3>1
  <2> QED BY <1>1, <2>2, <2>3, NoPartitionIsNone DEF StillValid, Booked
<1>7. /\ inbox' = Taken(n) /\ proc' = Replied(proc, c, "yes") /\ current' = current
      /\ unused' = unused
  BY <1>6 DEF IsStillValid, m
<1>8. /\ \A q \in Procs : q # c => proc'[q] = proc[q]
      /\ proc'[c].pc = "validating" /\ proc'[c].part = m.part /\ proc'[c].asked = proc[c].asked
      /\ proc'[c].answer = "yes"
  BY <1>1, <1>2, <1>3, <1>4, <1>7, PromptFacts, ReplyOthers
<1>9. Followed(inbox', proc', current', y)
  <2>1. Away(inbox', y) /\ Lasting(inbox', y) /\ \A q \in Procs \ {c} : ~Holds(proc, current, q, y)
    BY <1>1, <1>2, <1>4, <1>7, HoldOf DEF SameMail, PromptState, PromptInv
  <2>2. Holds(proc', current', c, y)
    BY <1>8 DEF Holds
  <2>3. HeldBy(current', c, proc'[c])
    BY <1>3, <1>4, <1>7, <1>8 DEF HeldBy, Loops
  <2>4. \A q \in Procs \ {c} : ~Holds(proc', current', q, y)
    BY <1>7, <1>8, <2>1 DEF Holds
  <2> QED BY <1>2, <2>1, <2>2, <2>3, <2>4, StillHeld
<1>10. ASSUME NEW x \in Ids \ {y}
       PROVE  /\ SameMail(inbox, inbox', x) /\ SameParts(current, current', x)
              /\ \A q \in Procs : SameHolder(proc, current, proc', current', q, x)
  BY <1>1, <1>3, <1>7, <1>8, <1>10 DEF SameParts, SameHolder, Holds, Uses, Loops
<1>11. y \notin unused'
  BY <1>2, <1>4, <1>7, Used
<1> QED BY <1>7, <1>9, <1>10, <1>11, StepFollowed

LEMMA DissolveFollowed ==
  ASSUME PromptState, NEW n \in Nodes, Dissolve(n)
  PROVE  FollowedAll' /\ FreshAll' /\ OneAtATime
<1> DEFINE m == Head(inbox[n])
           c == m.client
           y == m.id
<1>1. /\ m.type = "dissolve" /\ m \in Message /\ c \in Clients /\ inbox[n] # <<>>
      /\ \A x : SameMail(inbox, Taken(n), x)
      /\ c # Nobody => c \in Procs /\ Asks(proc[c], n)
      /\ GoodRequest(proc, m)
      /\ inbox \in Box /\ proc \in ProcTable /\ current \in PartTable
  BY MessageFacts, PromptFacts DEF Dissolve
<1>2. y \in Ids /\ m = [type |-> "dissolve", id |-> y, client |-> c]
  BY <1>1 DEF Message
<1>3. /\ inbox' = Taken(n) /\ proc' = Replied(proc, c, "yes") /\ current' = Dissolved(n, y)
      /\ unused' = unused
  BY DEF Dissolve
<1> HIDE DEF m
<1>4. \A k \in Nodes : /\ current'[k] = current[k] \/ In(current, k, y)
                       /\ current'[k] = current[k] \/ current'[k] = NoPartition
                       /\ k # n => current'[k] = current[k]
                       /\ k = n => ~In(current', k, y)
  BY <1>1, <1>3 DEF Dissolved, Booked, In, PartTable
<1>5. \A x \in Ids \ {y} : SameMail(inbox, inbox', x) /\ SameParts(current, current', x)
  BY <1>1, <1>3, <1>4 DEF SameParts, In
<1>6. \A k \in Nodes : \A x : In(current', k, x) => In(current, k, x) /\ current'[k] = current[k]
  BY <1>4 DEF In
<1>7. CASE c = Nobody
  <2>1. proc' = proc
    BY <1>3, <1>7 DEF Replied
  <2>2. m = Dissolution(y)
    BY <1>2, <1>7 DEF Dissolution
  <2>3. Loose(inbox, proc, current, y)
    BY <1>1, <1>2, <2>2, DissolutionOf DEF PromptState, PromptInv, m
  <2>4. Loose(inbox', proc', current', y)
    <3>1. Away(inbox', y)
      BY <1>1, <1>3, <2>3 DEF SameMail, Loose
    <3>2. Vacant(proc', current', y)
      BY <1>6, <2>1, <2>3, ProcsFacts DEF Loose, Vacant, Holds
    <3>3. \A k, o \in Nodes : In(current', k, y) /\ In(current', o, y) => current'[k] = current'[o]
      BY <1>6, <2>3 DEF Loose
    <3> QED BY <3>1, <3>2, <3>3 DEF Loose
  <2>5. y \notin unused'
    <3>1. ~Lasting(inbox, y)
      BY <1>1, <2>2, TakenMail DEF Lasting, m
    <3> QED BY <1>3, <3>1, Used
  <2> QED BY <1>3, <1>5, <2>1, <2>4, <2>5, StepFollowed DEF SameHolder, Followed
<1>8. CASE c # Nobody
  <2>1. c \in Procs /\ proc[c].pc \notin NotAsking /\ m = Wanted(c, proc[c])
    BY <1>1, <1>8 DEF GoodRequest
  <2>2. proc[c].pc = "dissolving" /\ y = proc[c].part.id
    BY <1>1, <2>1 DEF Wanted, Request
  <2>3. /\ c[1] \in Nodes /\ proc[c] \in Waits /\ proc[c].part = current[c[1]]
        /\ Holds(proc, current, c, y) /\ HeldBy(current, c, proc[c])
    BY <2>1, <2>2, PromptFacts DEF Uses
  <2>4. n = proc[c].asked /\ proc[c].answer = "pending" /\ n # c[1]
    BY <1>1, <1>8, <2>2, <2>3 DEF Asks, HeldBy, AsksOthers
  <2>5. /\ \A q \in Procs : q # c => proc'[q] = proc[q]
        /\ proc'[c].pc = "dissolving" /\ proc'[c].part = proc[c].part
        /\ proc'[c].todo = proc[c].todo /\ proc'[c].answer = "yes"
    BY <1>1, <1>3, <2>1, <2>2, <2>3, ReplyOthers
  <2>6. current'[c[1]] = current[c[1]]
    BY <1>4, <2>3, <2>4
  <2>7. /\ Away(inbox', y) /\ Lasting(inbox', y)
        /\ \A q \in Procs \ {c} : ~Holds(proc, current, q, y)
    BY <1>1, <1>2, <1>3, <2>1, <2>3, HoldOf DEF SameMail, PromptState, PromptInv
  <2>8. Holds(proc', current', c, y)
    BY <2>2, <2>3, <2>5, <2>6 DEF Holds, In
  <2>9. HeldBy(current', c, proc'[c])
    <3>1. \A k \in Nodes : In(current', k, y) =>
            current'[k] = current'[c[1]] /\ (k = c[1] \/ Later(c, proc'[c], k))
      BY <1>4, <1>6, <2>2, <2>3, <2>4, <2>5, <2>6 DEF HeldBy, Later
    <3> QED BY <2>2, <2>3, <2>5, <2>6, <3>1 DEF HeldBy, AsksOthers, Loops
  <2>10. \A q \in Procs \ {c} : ~Holds(proc', current', q, y)
    BY <1>6, <2>5, <2>7, ProcsFacts DEF Holds
  <2>11. Followed(inbox', proc', current', y)
    BY <2>1, <2>7, <2>8, <2>9, <2>10, StillHeld
  <2>12. \A x \in Ids \ {y} : \A q \in Procs : SameHolder(proc, current, proc', current', q, x)
    BY <2>2, <2>3, <2>5, <2>6 DEF SameHolder, Holds, In
  <2> QED BY <1>3, <1>5, <2>1, <2>3, <2>11, <2>12, Used, StepFollowed
<1> QED BY <1>7, <1>8

(* A new version goes to a member, which has an older one of the partition.  *)
LEMMA SetFacts ==
  ASSUME PromptState, NEW n \in Nodes, SetCurrentPartition(n)
  PROVE  LET m == Head(inbox[n])
             c == m.client
             part == m.part
             y == part.id
         IN /\ m.type = "set" /\ m \in Message /\ c \in Clients /\ inbox[n] # <<>>
            /\ part \in Partition
            /\ \A x : SameMail(inbox, Taken(n), x)
            /\ inbox \in Box /\ proc \in ProcTable /\ current \in PartTable
            /\ inbox' = Taken(n) /\ proc' = Replied(proc, c, "yes") /\ unused' = unused
            /\ c \in Procs /\ c # Nobody
            /\ proc[c].pc \in Loops /\ part = proc[c].part
            /\ c[1] \in Nodes /\ proc[c] \in Waits /\ part = current[c[1]] /\ y \in Ids
            /\ Holds(proc, current, c, y) /\ HeldBy(current, c, proc[c])
            /\ n = proc[c].asked /\ proc[c].answer = "pending" /\ n # c[1]
            /\ Spread(current, c, proc[c])
            /\ In(current, n, y) /\ (current[n] = part \/ current[n].version < part.version)
            /\ current'[n] = part /\ \A k \in Nodes \ {n} : current'[k] = current[k]
            /\ \A k \in Nodes : \A x : In(current', k, x) <=> In(current, k, x)
<1> DEFINE m == Head(inbox[n])
           c == m.client
           part == m.part
           y == part.id
<1>1. /\ m.type = "set" /\ m \in Message /\ c \in Clients /\ inbox[n] # <<>>
      /\ part \in Partition
      /\ \A x : SameMail(inbox, Taken(n), x)
      /\ c # Nobody => c \in Procs /\ Asks(proc[c], n)
      /\ GoodRequest(proc, m) /\ n \in Range(part.nodes)
      /\ inbox \in Box /\ proc \in ProcTable /\ current \in PartTable
  BY MessageFacts, PromptFacts DEF SetCurrentPartition, GoodMessage
<1>2. /\ inbox' = Taken(n) /\ proc' = Replied(proc, c, "yes")
      /\ current' = Updated(n, part) /\ unused' = unused
  BY DEF SetCurrentPartition
<1> HIDE DEF m
<1>3. c \in Procs /\ c # Nobody /\ proc[c].pc \notin NotAsking /\ m = Wanted(c, proc[c])
  BY <1>1 DEF GoodRequest
<1>4. proc[c].pc \in Loops /\ part = proc[c].part
  <2>1. proc[c].pc \notin {"validating", "dissolving"} /\ part = proc[c].part
    BY <1>1, <1>3 DEF Wanted, Request
  <2> QED BY <1>3, <2>1, PcOf DEF NotAsking
<1>5. /\ c[1] \in Nodes /\ proc[c] \in Waits /\ part = current[c[1]] /\ y \in Ids
      /\ Holds(proc, current, c, y) /\ HeldBy(current, c, proc[c])
  BY <1>3, <1>4, PromptFacts DEF Uses
<1>6. n = proc[c].asked /\ proc[c].answer = "pending" /\ n # c[1]
  BY <1>1, <1>3, <1>4, <1>5 DEF Asks, HeldBy, AsksOthers
<1>7. Spread(current, c, proc[c])
  BY <1>4, <1>5 DEF HeldBy
<1>8. In(current, n, y) /\ (current[n] = part \/ current[n].version < part.version)
  BY <1>1, <1>4, <1>7 DEF Spread
<1>9. current'[n] = part /\ \A k \in Nodes \ {n} : current'[k] = current[k]
  BY <1>1, <1>2, <1>8 DEF Updated, In, Booked, PartTable
<1>10. \A k \in Nodes : \A x : In(current', k, x) <=> In(current, k, x)
  BY <1>1, <1>8, <1>9, NoPartitionIsNone DEF In
<1> QED BY <1>1, <1>2, <1>3, <1>4, <1>5, <1>6, <1>7, <1>8, <1>9, <1>10 DEF m

LEMMA SetFollowed ==
  ASSUME PromptState, NEW n \in Nodes, SetCurrentPartition(n)
  PROVE  FollowedAll' /\ FreshAll' /\ OneAtATime
<1> DEFINE m == Head(inbox[n])
           c == m.client
           part == m.part
           y == part.id
<1>1. /\ m.type = "set" /\ m \in Message /\ c \in Clients /\ inbox[n] # <<>>
      /\ part \in Partition /\ \A x : SameMail(inbox, Taken(n), x)
      /\ inbox \in Box /\ proc \in ProcTable /\ current \in PartTable
  BY SetFacts
<1>2. inbox' = Taken(n) /\ proc' = Replied(proc, c, "yes") /\ unused' = unused
  BY SetFacts
<1>3. c \in Procs /\ c # Nobody
  BY SetFacts
<1>4. proc[c].pc \in Loops /\ part = proc[c].part
  BY SetFacts
<1>5. /\ c[1] \in Nodes /\ proc[c] \in Waits /\ part = current[c[1]] /\ y \in Ids
      /\ Holds(proc, current, c, y) /\ HeldBy(current, c, proc[c])
  BY SetFacts
<1>6. n = proc[c].asked /\ proc[c].answer = "pending" /\ n # c[1]
  BY SetFacts
<1>7. Spread(current, c, proc[c])
  BY SetFacts
<1>8. In(current, n, y) /\ (current[n] = part \/ current[n].version < part.version)
  BY SetFacts
<1>9. current'[n] = part /\ \A k \in Nodes \ {n} : current'[k] = current[k]
  BY SetFacts
<1>10. \A k \in Nodes : \A x : In(current', k, x) <=> In(current, k, x)
  BY SetFacts
<1> HIDE DEF m
<1>11. /\ \A q \in Procs : q # c => proc'[q] = proc[q]
       /\ proc'[c].pc = proc[c].pc /\ proc'[c].part = proc[c].part
       /\ proc'[c].todo = proc[c].todo /\ proc'[c].answer = "yes"
  BY <1>1, <1>2, <1>3, <1>5, ReplyOthers
<1>12. /\ Away(inbox', y) /\ Lasting(inbox', y)
       /\ \A q \in Procs \ {c} : ~Holds(proc, current, q, y)
  BY <1>1, <1>2, <1>3, <1>5, HoldOf DEF SameMail, PromptState, PromptInv
<1>13. Holds(proc', current', c, y) /\ \A q \in Procs \ {c} : ~Holds(proc', current', q, y)
  BY <1>5, <1>10, <1>11, <1>12, ProcsFacts DEF Holds
<1>14. Spread(current', c, proc'[c])
  <2>1. \A k \in Nodes :
          IF k \in Range(part.nodes)
          THEN /\ In(current', k, y)
               /\ current'[k] = part \/ (Later(c, proc'[c], k) /\ current'[k].version < part.version)
          ELSE ~In(current', k, y)
    BY <1>4, <1>6, <1>7, <1>9, <1>10, <1>11 DEF Spread, Later
  <2>2. Range(part.nodes) \subseteq Nodes
    BY <1>1 DEF Partition, Range
  <2>3. \A k, o \in Range(part.nodes) :
          current'[k] # part /\ current'[o] # part => current'[k] = current'[o]
    BY <1>4, <1>7, <1>9, <2>2 DEF Spread
  <2> QED BY <1>4, <1>11, <2>1, <2>3 DEF Spread
<1>15. HeldBy(current', c, proc'[c])
  BY <1>4, <1>5, <1>6, <1>9, <1>11, <1>14 DEF HeldBy, AsksOthers, Loops
<1>16. Followed(inbox', proc', current', y)
  BY <1>3, <1>12, <1>13, <1>15, StillHeld
<1>17. \A x \in Ids \ {y} :
         /\ SameMail(inbox, inbox', x) /\ SameParts(current, current', x)
         /\ \A q \in Procs : SameHolder(proc, current, proc', current', q, x)
  <2>1. \A x \in Ids \ {y} : SameParts(current, current', x)
    BY <1>8, <1>9, <1>10 DEF SameParts, In
  <2>2. \A x \in Ids \ {y} : ~Holds(proc, current, c, x) /\ ~Holds(proc', current', c, x)
    BY <1>4, <1>5, <1>10, <1>11 DEF Holds, In, Loops
  <2> QED BY <1>1, <1>2, <1>11, <2>1, <2>2 DEF SameHolder
<1> QED BY <1>2, <1>3, <1>5, <1>16, <1>17, Used, StepFollowed

(* The loop of p goes on: whom it has told is told, the others come later.   *)
LEMMA AskAllHeldBy ==
  ASSUME proc \in ProcTable, NEW p \in Procs, NEW w \in Waits, NEW box \in Box,
         AskAll(p, w, box), w.answer # "pending", w.pc \in Loops \cup {"dissolving"},
         NEW cur, HeldBy(cur, p, w)
  PROVE  HeldBy(cur, p, proc'[p])
<1> DEFINE v == proc'[p]
<1>1. /\ v.pc = w.pc /\ v.part = w.part /\ AsksOthers(p, v)
      /\ \A n \in Range(w.todo) \ {p[1]} : Later(p, v, n)
  BY AskAllFacts
<1>2. \A n : Later(p, w, n) => Later(p, v, n)
  BY <1>1 DEF Later
<1>3. CASE w.pc \in Loops
  <2>1. Spread(cur, p, w)
    BY <1>3 DEF HeldBy
  <2>2. Spread(cur, p, v)
    BY <1>1, <1>2, <2>1 DEF Spread
  <2> QED BY <1>1, <1>3, <2>2 DEF HeldBy, Loops
<1>4. CASE w.pc = "dissolving"
  BY <1>1, <1>2, <1>4 DEF HeldBy, Loops
<1> QED BY <1>3, <1>4

LEMMA AskNextFacts ==
  ASSUME PromptState, NEW p \in Procs, AskNext(p)
  PROVE  /\ proc[p] \in Waits /\ proc[p].pc \in Loops \cup {"dissolving"}
         /\ proc[p].answer # "pending" /\ AskAll(p, proc[p], inbox)
<1>1. proc[p].pc \in Loops \cup {"dissolving"} /\ proc[p].answer # "pending"
  BY PcOf DEF AskNext, Answered
<1>2. proc[p] \in Waits /\ proc[p].part = current[p[1]]
  BY <1>1, PromptFacts
<1>3. [proc[p] EXCEPT !.part = current[p[1]]] = proc[p]
  <2> DEFINE w == proc[p]
  <2>1. w \in Waits /\ current[p[1]] = w.part
    BY <1>2
  <2> HIDE DEF w
  <2>2. [w EXCEPT !.part = w.part] = w
    BY <2>1 DEF Waits
  <2> QED BY <2>1, <2>2 DEF w
<1> QED BY <1>1, <1>2, <1>3 DEF AskNext

LEMMA AskNextFollowed ==
  ASSUME PromptState, NEW p \in Procs, AskNext(p)
  PROVE  FollowedAll' /\ FreshAll' /\ OneAtATime
<1> DEFINE w == proc[p]
           y == current[p[1]].id
<1>1. /\ w \in Waits /\ w.pc \in Loops \cup {"dissolving"} /\ w.answer # "pending"
      /\ AskAll(p, w, inbox) /\ inbox \in Box /\ proc \in ProcTable /\ p[1] \in Nodes
  BY AskNextFacts, PromptFacts
<1>2. w.pc \in Uses /\ y \in Ids /\ Holds(proc, current, p, y) /\ HeldBy(current, p, w)
  BY <1>1, PromptFacts DEF Uses
<1>3. current' = current /\ unused' = unused
  BY DEF AskNext
<1>4. /\ proc' = [proc EXCEPT ![p] = proc'[p]] /\ proc'[p].pc = w.pc
      /\ \A x : SameMail(inbox, inbox', x)
  BY <1>1, AskAllFacts, AskAllMail
<1>5. \A q \in Procs \ {p} : proc'[q] = proc[q]
  BY <1>1, <1>4 DEF ProcTable
<1> HIDE DEF w, y
<1>6. HeldBy(current', p, proc'[p])
  BY <1>1, <1>2, <1>3, AskAllHeldBy
<1>7. /\ Away(inbox, y) /\ Lasting(inbox, y)
      /\ \A q \in Procs \ {p} : ~Holds(proc, current, q, y)
  BY <1>2, HoldOf DEF PromptState, PromptInv
<1>8. Holds(proc', current', p, y) /\ \A q \in Procs \ {p} : ~Holds(proc', current', q, y)
  BY <1>1, <1>2, <1>3, <1>4, <1>5, <1>7 DEF Holds, w, Uses, Loops
<1>9. Followed(inbox', proc', current', y)
  BY <1>4, <1>6, <1>7, <1>8, StillHeld DEF SameMail
<1>10. \A x \in Ids \ {y} : \A q \in Procs : SameHolder(proc, current, proc', current', q, x)
  <2>1. \A x \in Ids \ {y} : ~Holds(proc, current, p, x) /\ ~Holds(proc', current', p, x)
    BY <1>1, <1>2, <1>3, <1>4 DEF Holds, w, y, In, Loops
  <2> QED BY <1>5, <2>1 DEF SameHolder
<1> QED BY <1>2, <1>3, <1>4, <1>9, <1>10, Used, StepFollowed DEF SameParts

(* p gives its node the next version of the partition old, and starts to     *)
(* tell the others.                                                          *)
LEMMA UpdateFollowed ==
  ASSUME PromptState, NEW p \in Procs, NEW box \in Box, NEW part \in Partition,
         NEW old \in Partition, NEW client \in Clients, NEW next \in Nodes, NEW pc \in Loops,
         UpdateAll(p, pc, part, box, client, next), unused' = unused,
         Whole(current, old), part.id = old.id, old.id \notin unused,
         Range(part.nodes) = Range(old.nodes) \cup {p[1]},
         part = old \/ old.version < part.version,
         pc # "blocking" => part.leader = p[1],
         pc = "growing" => part.state = "Growing",
         Away(box, old.id), Lasting(box, old.id),
         \A q \in Procs \ {p} : ~Holds(proc, current, q, old.id),
         Booked(p[1]) => current[p[1]].id = old.id,
         \A x \in Ids \ {old.id} : SameMail(inbox, box, x) /\ ~Holds(proc, current, p, x)
  PROVE  FollowedAll' /\ FreshAll' /\ OneAtATime
<1> DEFINE w == Waiting(pc, part, part.nodes, client, next)
           y == old.id
           v == proc'[p]
<1>1. /\ proc \in ProcTable /\ current \in PartTable /\ p[1] \in Nodes /\ y \in Ids
      /\ \A q \in Procs : q[1] \in Nodes
  BY PromptFacts DEF Partition
<1>2. /\ w \in Waits /\ w.pc = pc /\ w.part = part /\ w.todo = part.nodes
  <2>1. w \in Waits
    BY WaitingType DEF Partition, Loops
  <2> QED BY <2>1 DEF Waiting
<1>3. AskAll(p, w, box) /\ current' = [current EXCEPT ![p[1]] = part]
  BY DEF UpdateAll
<1> HIDE DEF w
<1>4. /\ v.pc = pc /\ v.part = part /\ AsksOthers(p, v)
      /\ \A n \in Range(part.nodes) \ {p[1]} : Later(p, v, n)
      /\ \A q \in Procs \ {p} : proc'[q] = proc[q]
      /\ \A x : SameMail(box, inbox', x)
  <2>1. proc' = [proc EXCEPT ![p] = v]
    BY <1>1, <1>2, <1>3, AskAllFacts
  <2>2. \A q \in Procs \ {p} : proc'[q] = proc[q]
    BY <1>1, <2>1 DEF ProcTable
  <2> QED BY <1>1, <1>2, <1>3, <2>2, AskAllFacts, AskAllMail
<1>5. /\ current'[p[1]] = part /\ \A n \in Nodes \ {p[1]} : current'[n] = current[n]
  BY <1>1, <1>3 DEF PartTable
<1> HIDE DEF v
<1>6. In(current', p[1], y) /\ \A x : In(current', p[1], x) => x = y
  BY <1>5, NoPartitionIsNone DEF In
<1>7. Spread(current', p, v)
  <2>1. \A n \in Nodes :
          /\ n \in Range(part.nodes) /\ n # p[1] => In(current, n, y) /\ current[n] = old
          /\ n \notin Range(part.nodes) => n # p[1] /\ ~In(current, n, y)
    BY WholeIsIn
  <2>2. \A n \in Nodes :
          IF n \in Range(part.nodes)
          THEN /\ In(current', n, y)
               /\ current'[n] = part \/ (Later(p, v, n) /\ current'[n].version < part.version)
          ELSE ~In(current', n, y)
    BY <1>4, <1>5, <1>6, <2>1 DEF In
  <2>3. Range(part.nodes) \subseteq Nodes
    BY DEF Partition, Range
  <2>4. \A m, n \in Range(part.nodes) :
          current'[m] # part /\ current'[n] # part => current'[m] = current'[n]
    BY <1>5, <2>1, <2>3
  <2> QED BY <1>4, <2>2, <2>4 DEF Spread
<1>8. HeldBy(current', p, v)
  BY <1>4, <1>5, <1>7 DEF HeldBy, Loops
<1>9. Holds(proc', current', p, y) /\ \A x : Holds(proc', current', p, x) => x = y
  BY <1>4, <1>6 DEF Holds, Loops, Uses, v
<1>10. ASSUME NEW q \in Procs \ {p}
       PROVE  ~Holds(proc', current', q, y)
  <2>1. proc'[q] = proc[q] /\ ~Holds(proc, current, q, y)
    BY <1>4
  <2>2. CASE q[1] # p[1]
    BY <1>1, <1>5, <2>1, <2>2 DEF Holds, In
  <2>3. CASE q[1] = p[1]
    <3>1. proc[q].pc \in Uses => In(current, q[1], y)
      BY <2>3, PromptFacts DEF In, Booked
    <3> QED BY <2>1, <3>1 DEF Holds
  <2> QED BY <2>2, <2>3
<1>11. Followed(inbox', proc', current', y)
  BY <1>4, <1>8, <1>9, <1>10, StillHeld DEF SameMail, v
<1>12. \A x \in Ids \ {y} : SameMail(inbox, inbox', x)
  BY <1>4, SameMailFacts
<1>13. \A x \in Ids \ {y} : SameParts(current, current', x)
  BY <1>1, <1>5, <1>6 DEF SameParts, In, Booked
<1>14. \A x \in Ids \ {y} : \A q \in Procs : SameHolder(proc, current, proc', current', q, x)
  BY <1>4, <1>9 DEF SameHolder
<1> QED BY <1>11, <1>12, <1>13, <1>14, StepFollowed

(* The same for a process that held the partition of its node. *)
LEMMA ChangeFollowed ==
  ASSUME PromptState, NEW p \in Procs, proc[p].pc \in Uses, NEW part \in Partition,
         NEW next \in Nodes, NEW pc \in Loops \ {"blocking"},
         UpdateAll(p, pc, part, inbox, Nobody, next), unused' = unused,
         Whole(current, current[p[1]]), part.id = current[p[1]].id,
         part.nodes = current[p[1]].nodes, part.leader = current[p[1]].leader,
         current[p[1]].leader = p[1],
         part = current[p[1]] \/ current[p[1]].version < part.version,
         pc = "growing" => part.state = "Growing"
  PROVE  FollowedAll' /\ FreshAll' /\ OneAtATime
<1> DEFINE old == current[p[1]]
<1>1. /\ Booked(p[1]) /\ old \in Partition /\ old.id \in Ids /\ p[1] \in Nodes
      /\ Holds(proc, current, p, old.id) /\ inbox \in Box /\ Nobody \in Clients
  BY PromptFacts, ProcsFacts
<1>2. p[1] \in Range(old.nodes)
  BY <1>1, WholeIsIn DEF In, Booked
<1>3. /\ Away(inbox, old.id) /\ Lasting(inbox, old.id)
      /\ \A q \in Procs \ {p} : ~Holds(proc, current, q, old.id)
  BY <1>1, HoldOf DEF PromptState, PromptInv
<1>4. \A x \in Ids \ {old.id} : SameMail(inbox, inbox, x) /\ ~Holds(proc, current, p, x)
  BY SameMailFacts DEF Holds, In, Uses, Loops
<1>5. old.id \notin unused
  BY <1>1, Used
<1>6. Range(part.nodes) = Range(old.nodes) \cup {p[1]}
  BY <1>2
<1> HIDE DEF old
<1> QED BY <1>1, <1>3, <1>4, <1>5, <1>6, UpdateFollowed DEF old

LEMMA ChangedFacts ==
  ASSUME NEW part \in Partition, NEW state \in States
  PROVE  LET new == Changed(part, state)
         IN /\ new \in Partition /\ new.id = part.id /\ part.version < new.version
            /\ new.nodes = part.nodes /\ new.leader = part.leader /\ new.state = state
<1> DEFINE v == part.version + 1
           new == [part EXCEPT !.state = state, !.version = v]
<1>1. v \in Nat /\ part.version < v
  BY DEF Partition
<1> HIDE DEF v
<1>2. /\ new \in Partition /\ new.id = part.id /\ new.version = v
      /\ new.nodes = part.nodes /\ new.leader = part.leader /\ new.state = state
  BY <1>1 DEF Partition
<1>3. Changed(part, state) = new
  BY DEF Changed, v
<1> HIDE DEF new
<1> QED BY <1>1, <1>2, <1>3

LEMMA JoinedFacts ==
  ASSUME NEW part \in Partition, NEW n \in Nodes
  PROVE  LET new == Joined(n, part)
         IN /\ new \in Partition /\ new.id = part.id /\ part.version < new.version
            /\ new.nodes = <<n>> \o part.nodes /\ new.leader = n /\ new.state = "Growing"
            /\ Range(new.nodes) = Range(part.nodes) \cup {n}
<1> DEFINE v == part.version + 1
           ns == <<n>> \o part.nodes
           new == [part EXCEPT !.leader = n, !.nodes = ns, !.state = "Growing", !.version = v]
<1>1. v \in Nat /\ part.version < v /\ part.nodes \in Seq(Nodes)
  BY DEF Partition
<1>2. ns \in Seq(Nodes) /\ Range(ns) = Range(part.nodes) \cup {n}
  <2>1. /\ ns \in Seq(Nodes) /\ 1 \in DOMAIN ns /\ ns[1] = n
        /\ \A i \in DOMAIN part.nodes : i + 1 \in DOMAIN ns /\ ns[i + 1] = part.nodes[i]
        /\ \A i \in DOMAIN ns : i = 1 \/ (i - 1 \in DOMAIN part.nodes /\ ns[i] = part.nodes[i - 1])
    BY <1>1
  <2> HIDE DEF ns
  <2>2. Range(part.nodes) \subseteq Range(ns) /\ n \in Range(ns)
    BY <2>1 DEF Range
  <2>3. Range(ns) \subseteq Range(part.nodes) \cup {n}
    BY <2>1 DEF Range
  <2> QED BY <2>1, <2>2, <2>3
<1> HIDE DEF v, ns
<1>3. /\ new \in Partition /\ new.id = part.id /\ new.version = v
      /\ new.nodes = ns /\ new.leader = n /\ new.state = "Growing"
  BY <1>1, <1>2 DEF Partition, States
<1>4. Joined(n, part) = new
  BY DEF Joined, v, ns
<1> HIDE DEF new
<1> QED BY <1>1, <1>2, <1>3, <1>4 DEF ns

LEMMA JoinFollowed ==
  ASSUME PromptState, NEW n \in Nodes, Join(n)
  PROVE  FollowedAll' /\ FreshAll' /\ OneAtATime
<1> DEFINE p == Server(n)
           old == proc[p].part
           part == Joined(n, old)
<1>1. p \in Procs /\ p[1] = n /\ proc[p].pc = "validating" /\ inbox \in Box
  BY ProcsFacts, PromptFacts DEF Join, Server
<1>2. /\ proc[p] \in Waits /\ old \in Partition /\ old.id \in Ids
      /\ Holds(proc, current, p, old.id) /\ HeldBy(current, p, proc[p])
  BY <1>1, PromptFacts
<1>3. proc[p].client \in Clients /\ Whole(current, old) /\ ~Booked(n)
  BY <1>1, <1>2 DEF Waits, HeldBy, PromptState, ValidatingIsFree
<1>4. /\ part \in Partition /\ part.id = old.id /\ old.version < part.version
      /\ part.leader = n /\ Range(part.nodes) = Range(old.nodes) \cup {n}
  BY <1>2, JoinedFacts
<1>5. /\ Away(inbox, old.id) /\ Lasting(inbox, old.id) /\ old.id \notin unused
      /\ \A q \in Procs \ {p} : ~Holds(proc, current, q, old.id)
  BY <1>1, <1>2, Used, HoldOf DEF PromptState, PromptInv
<1>6. \A x \in Ids \ {old.id} : SameMail(inbox, inbox, x) /\ ~Holds(proc, current, p, x)
  BY <1>1, SameMailFacts DEF Holds, Uses, Loops
<1>7. UpdateAll(p, "joining", part, inbox, proc[p].client, n) /\ unused' = unused
  BY DEF Join
<1> HIDE DEF part, old, p
<1>8. "joining" \in Loops
  BY DEF Loops
<1> QED BY <1>1, <1>2, <1>3, <1>4, <1>5, <1>6, <1>7, <1>8, UpdateFollowed

LEMMA IspBackFollowed ==
  ASSUME PromptState, NEW n \in Nodes, IspBack(n)
  PROVE  FollowedAll' /\ FreshAll' /\ OneAtATime
<1> DEFINE m == Head(inbox[n])
           p == Server(n)
           old == m.part
           part == Changed(current[n], "Blocked")
<1>1. /\ m.type = "isp" /\ m.client \in Clients /\ inbox[n] # <<>> /\ Taken(n) \in Box
      /\ Sound(old) /\ old \in Partition /\ old.id \in Ids /\ inbox \in Box
      /\ proc[p] = Idle
  BY MessageFacts, PromptFacts DEF IspBack, GoodMessage, Partition
<1>2. p \in Procs /\ p[1] = n /\ m.part.initiator = n
  BY ProcsFacts DEF IspBack, Server
<1>3. Carries(m, old.id)
  BY <1>1 DEF Carries
<1>4. /\ Whole(current, old) /\ Away(Taken(n), old.id) /\ Lasting(Taken(n), old.id)
      /\ Vacant(proc, current, old.id)
  BY <1>1, <1>3, MailOf DEF PromptState, PromptInv
<1>5. current[n] = old
  BY <1>1, <1>2, <1>4 DEF Sound, Whole
<1>6. /\ part \in Partition /\ part.id = old.id /\ old.version < part.version
      /\ part.nodes = old.nodes
  BY <1>1, <1>5, ChangedFacts DEF States
<1>7. old.id \notin unused
  <2>1. ~Away(inbox, old.id)
    BY <1>1, <1>3, TakenMail DEF Away
  <2> QED BY <2>1, Used
<1>8. \A x \in Ids \ {old.id} : SameMail(inbox, Taken(n), x) /\ ~Holds(proc, current, p, x)
  <2>1. Silent(proc[p])
    BY <1>1 DEF Silent, Idle
  <2>2. \A x \in Ids \ {old.id} : ~Carries(m, x)
    BY DEF Carries
  <2> QED BY <1>1, <2>1, <2>2, SilentHolds, TakenSameMail
<1>9. UpdateAll(p, "blocking", part, Taken(n), m.client, n) /\ unused' = unused
  BY DEF IspBack
<1>10. Range(part.nodes) = Range(old.nodes) \cup {n}
  BY <1>1, <1>2, <1>6 DEF Sound
<1> HIDE DEF part, p, m
<1>11. "blocking" \in Loops
  BY DEF Loops
<1>12. \A q \in Procs \ {p} : ~Holds(proc, current, q, old.id)
  BY <1>4 DEF Vacant
<1> QED BY <1>1, <1>2, <1>4, <1>5, <1>6, <1>7, <1>8, <1>9, <1>10, <1>11, <1>12, UpdateFollowed

(* Once a process has told every member, all of them have the partition. *)
LEMMA DoneIsWhole ==
  ASSUME PromptState, NEW p \in Procs, NEW pc \in Loops, Done(p, pc)
  PROVE  /\ Whole(current, current[p[1]]) /\ current[p[1]] \in Partition
         /\ pc # "blocking" => current[p[1]].leader = p[1]
         /\ pc = "growing" => current[p[1]].state = "Growing"
         /\ proc[p].pc = pc /\ pc \in Uses
<1> DEFINE w == proc[p]
<1>1. w.pc = pc /\ pc \in Uses /\ Answered(p) /\ Left(p, w.todo) = {}
  BY DEF Done, Uses
<1>2. w \in Waits /\ w.part = current[p[1]] /\ HeldBy(current, p, w) /\ w.part \in Partition
  BY <1>1, PromptFacts
<1>3. \A n : ~Later(p, w, n)
  BY <1>1 DEF Later, Answered, Left, Range
<1>4. Spread(current, p, w)
  BY <1>1, <1>2 DEF HeldBy
<1>5. Whole(current, w.part)
  BY <1>3, <1>4 DEF Spread, Whole
<1> QED BY <1>1, <1>2, <1>5 DEF HeldBy

(* p moves on with the partition it holds, or lets it go. *)
LEMMA OneMovesFollowed ==
  ASSUME PromptState, NEW p \in Procs, NEW y \in Ids, Holds(proc, current, p, y),
         current' = current, unused' = unused, \A x : SameMail(inbox, inbox', x),
         \A q \in Procs \ {p} : proc'[q] = proc[q] \/ (Silent(proc[q]) /\ Silent(proc'[q])),
         \/ Silent(proc'[p]) /\ \E part \in Partition : part.id = y /\ Whole(current, part)
         \/ proc'[p].pc \in Uses /\ proc[p].pc \in Uses /\ HeldBy(current, p, proc'[p])
  PROVE  FollowedAll' /\ FreshAll' /\ OneAtATime
<1>1. /\ Away(inbox', y) /\ Lasting(inbox', y)
      /\ \A q \in Procs \ {p} : ~Holds(proc, current, q, y)
  BY HoldOf DEF PromptState, PromptInv, SameMail
<1>2. \A q \in Procs \ {p} : \A x : SameHolder(proc, current, proc', current', q, x)
  BY SilentHolds DEF SameHolder
<1>3. \A q \in Procs \ {p} : ~Holds(proc', current', q, y)
  BY <1>1, <1>2 DEF SameHolder, Holds
<1>4. \A x \in Ids \ {y} : ~Holds(proc, current, p, x)
  BY DEF Holds, In, Uses, Loops
<1>5. CASE Silent(proc'[p]) /\ \E part \in Partition : part.id = y /\ Whole(current, part)
  <2>1. PICK part \in Partition : part.id = y /\ Whole(current, part)
    BY <1>5
  <2>2. \A m, n \in Nodes : In(current, m, y) /\ In(current, n, y) => current[m] = current[n]
    BY <2>1, WholeIsIn
  <2>3. \A x : ~Holds(proc', current', p, x)
    BY <1>5, SilentHolds
  <2>4. Followed(inbox', proc', current', y)
    BY <1>1, <1>3, <2>2, <2>3 DEF Followed, Loose, Vacant
  <2> QED BY <1>2, <1>4, <2>3, <2>4, Used, StepFollowed DEF SameHolder, SameParts
<1>6. CASE proc'[p].pc \in Uses /\ proc[p].pc \in Uses /\ HeldBy(current, p, proc'[p])
  <2>1. Holds(proc', current', p, y) /\ \A x \in Ids \ {y} : ~Holds(proc', current', p, x)
    BY <1>6 DEF Holds, In, Uses, Loops
  <2>2. Followed(inbox', proc', current', y)
    BY <1>1, <1>3, <1>6, <2>1, StillHeld
  <2> QED BY <1>2, <1>4, <2>1, <2>2, Used, StepFollowed DEF SameHolder, SameParts
<1> QED BY <1>5, <1>6

LEMMA ToIdle ==
  ASSUME NEW procs \in ProcTable, NEW p \in Procs, NEW c \in Clients, c # p,
         c # Nobody => procs[c].pc = "transmitting"
  PROVE  LET new == Replied([procs EXCEPT ![p] = Idle], c, "yes")
         IN /\ new[p] = Idle /\ Silent(new[p])
            /\ \A q \in Procs \ {p} : new[q] = procs[q] \/ (Silent(procs[q]) /\ Silent(new[q]))
<1> DEFINE idle == [procs EXCEPT ![p] = Idle]
           new == Replied(idle, c, "yes")
<1>1. /\ idle \in ProcTable /\ idle[p] = Idle
      /\ \A q \in Procs \ {p} : idle[q] = procs[q]
  BY IdleTypes DEF ProcTable
<1> HIDE DEF idle
<1>2. c # Nobody => idle[c].pc = "transmitting"
  BY <1>1 DEF Clients
<1>3. \A q \in Procs : new[q] = idle[q] \/ (Silent(idle[q]) /\ Silent(new[q]))
  BY <1>1, <1>2, SilentReply
<1>4. new[p] = idle[p]
  BY <1>1, ReplyOthers
<1> HIDE DEF new
<1>5. Silent(Idle)
  BY DEF Silent, Idle
<1> QED BY <1>1, <1>3, <1>4, <1>5 DEF new, idle

(* The client of a server. *)
LEMMA ClientFacts ==
  ASSUME PromptState, NEW n \in Nodes, proc[Server(n)] # Idle
  PROVE  LET c == proc[Server(n)].client
         IN /\ c \in Clients /\ c # Server(n)
            /\ c # Nobody => proc[c].pc = "transmitting"
<1> DEFINE c == proc[Server(n)].client
<1>1. Server(n) \in Procs /\ Server(n) # Nobody /\ proc[Server(n)].pc # "transmitting"
  BY ProcsFacts DEF Server, Nobody, PromptState, PromptInv, Kinds
<1>2. c \in Clients
  BY DEF PromptState, Awaited, HeldAwaited, Waits
<1>3. c # Nobody => proc[c].pc = "transmitting"
  BY DEF PromptState, PromptInv, Requested, Transmits
<1> HIDE DEF c
<1> QED BY <1>1, <1>2, <1>3 DEF c

LEMMA ServerEndsFollowed ==
  ASSUME PromptState, NEW n \in Nodes, Refuse(n) \/ EndBlocking(n)
  PROVE  FollowedAll' /\ FreshAll' /\ OneAtATime
<1> DEFINE p == Server(n)
<1>1. /\ p \in Procs /\ current' = current /\ inbox' = inbox /\ unused' = unused
      /\ proc' = Replied([proc EXCEPT ![p] = Idle], proc[p].client, "yes")
      /\ proc[p].pc \in {"validating", "blocking"}
  BY ProcsFacts DEF Refuse, EndBlocking, Done
<1>2. PICK part \in Partition :
        part.id \in Ids /\ Holds(proc, current, p, part.id) /\ Whole(current, part)
  <2>1. CASE Refuse(n)
    BY <1>1, <2>1, PromptFacts DEF Refuse, HeldBy
  <2>2. CASE EndBlocking(n)
    BY <1>1, <2>2, DoneIsWhole, PromptFacts DEF EndBlocking, Loops, Uses
  <2> QED BY <2>1, <2>2
<1>3. /\ Silent(proc'[p])
      /\ \A q \in Procs \ {p} : proc'[q] = proc[q] \/ (Silent(proc[q]) /\ Silent(proc'[q]))
  <2> DEFINE c == proc[p].client
  <2>1. proc[p] # Idle
    BY <1>1 DEF Idle
  <2>2. c \in Clients /\ c # p /\ (c # Nobody => proc[c].pc = "transmitting")
    BY <2>1, ClientFacts
  <2>3. proc' = Replied([proc EXCEPT ![p] = Idle], c, "yes") /\ proc \in ProcTable
    BY <1>1, PromptFacts
  <2> HIDE DEF c, p
  <2>4. LET new == Replied([proc EXCEPT ![p] = Idle], c, "yes")
        IN /\ Silent(new[p])
           /\ \A q \in Procs \ {p} : new[q] = proc[q] \/ (Silent(proc[q]) /\ Silent(new[q]))
    <3>1. p \in Procs
      BY <1>1
    <3> QED BY <3>1, <2>2, <2>3, ToIdle
  <2> QED BY <2>3, <2>4
<1> QED BY <1>1, <1>2, <1>3, SameMailFacts, OneMovesFollowed

LEMMA StartPlanFollowed ==
  ASSUME PromptState, NEW n \in Nodes, NEW k \in 1..MaxPlans, StartPlan(n, k)
  PROVE  FollowedAll' /\ FreshAll' /\ OneAtATime
<1> DEFINE p == Server(n)
           s == <<n, k>>
           y == current[n].id
           c == proc[p].client
           procs == [proc EXCEPT ![p] = Idle, ![s] = Starting]
<1>1. /\ p \in Procs /\ s \in Procs /\ s # p /\ p[1] = n /\ s[1] = n
      /\ proc \in ProcTable /\ inbox \in Box
  BY ProcsFacts, PromptFacts DEF Server
<1>2. /\ current' = current /\ inbox' = inbox /\ unused' = unused
      /\ proc' = Replied(procs, c, "yes") /\ Done(p, "joining") /\ proc[s] = Idle
  BY DEF StartPlan
<1>3. /\ Whole(current, current[n]) /\ current[n] \in Partition /\ current[n].leader = n
      /\ proc[p].pc = "joining"
  BY <1>1, <1>2, DoneIsWhole DEF Loops
<1>4. y \in Ids /\ Holds(proc, current, p, y) /\ In(current, n, y)
  BY <1>1, <1>3, PromptFacts DEF Uses, Loops, In, Booked
<1>5. c \in Clients /\ c # p /\ (c # Nobody => proc[c].pc = "transmitting" /\ c # s)
  BY <1>2, <1>3, ClientFacts DEF Idle
<1>6. /\ procs \in ProcTable /\ procs[p] = Idle /\ procs[s] = Starting
      /\ \A q \in Procs \ {p, s} : procs[q] = proc[q]
  BY <1>1, IdleTypes DEF ProcTable
<1> HIDE DEF procs, c
<1>7. c # Nobody => procs[c].pc = "transmitting"
  BY <1>5, <1>6 DEF Clients
<1>8. s # Nobody /\ p # Nobody
  BY <1>1 DEF Procs, Nobody
<1>9. /\ \A q \in Procs : q # c => proc'[q] = procs[q]
      /\ \A q \in Procs : proc'[q] = procs[q] \/ (Silent(procs[q]) /\ Silent(proc'[q]))
  BY <1>2, <1>5, <1>6, <1>7, ReplyOthers, SilentReply
<1> HIDE DEF p, s, y
<1>10. proc'[p] = Idle /\ proc'[s] = Starting
  BY <1>1, <1>5, <1>6, <1>8, <1>9
<1>11. \A q \in Procs \ {p, s} : \A x : SameHolder(proc, current, proc', current', q, x)
  BY <1>6, <1>9, SilentHolds DEF SameHolder
<1>12. /\ Away(inbox', y) /\ Lasting(inbox', y)
       /\ \A q \in Procs \ {p} : ~Holds(proc, current, q, y)
  BY <1>1, <1>2, <1>4, HoldOf DEF PromptState, PromptInv
<1>13. \A x : ~Holds(proc', current', p, x) /\ ~Holds(proc, current, s, x)
  BY <1>2, <1>10, SilentHolds DEF Silent, Idle
<1>14. Holds(proc', current', s, y) /\ \A x \in Ids \ {y} : ~Holds(proc', current', s, x)
  BY <1>1, <1>2, <1>4, <1>10 DEF Holds, Starting, Uses, Loops, In
<1>15. \A q \in Procs \ {s} : ~Holds(proc', current', q, y)
  <2> SUFFICES ASSUME NEW q \in Procs \ {s}
               PROVE  ~Holds(proc', current', q, y)
    OBVIOUS
  <2>1. CASE q = p
    BY <2>1, <1>13
  <2>2. CASE q # p
    <3>1. ~Holds(proc, current, q, y) /\ SameHolder(proc, current, proc', current', q, y)
      BY <2>2, <1>11, <1>12
    <3> QED BY <3>1, <1>2 DEF SameHolder, Holds
  <2> QED BY <2>1, <2>2
<1>16. HeldBy(current', s, proc'[s])
  BY <1>1, <1>2, <1>3, <1>10 DEF HeldBy, Starting, Loops
<1>17. Followed(inbox', proc', current', y)
  BY <1>1, <1>12, <1>14, <1>15, <1>16, StillHeld
<1>18. \A x \in Ids \ {y} : ~Holds(proc, current, p, x)
  BY <1>1, <1>3, <1>4 DEF Holds, In, Loops
<1> QED BY <1>1, <1>2, <1>4, <1>11, <1>13, <1>14, <1>17, <1>18, Used, SameMailFacts, StepFollowed
        DEF SameHolder, SameParts


-----------------------------------------------------------------------------
(* The plans.                                                                *)

LEMMA PlanIsWhole ==
  ASSUME PromptState, NEW p \in Procs, proc[p].pc \in {"starting", "computing"}
  PROVE  /\ proc[p].pc \in Uses /\ Whole(current, current[p[1]])
         /\ current[p[1]].leader = p[1] /\ current[p[1]] \in Partition
         /\ current[p[1]].id \in Ids /\ Holds(proc, current, p, current[p[1]].id)
<1>1. proc[p].pc \in Uses
  BY DEF Uses
<1> QED BY <1>1, PromptFacts DEF HeldBy

(* p alone moves, and not to another loop. *)
LEMMA MoveAlone ==
  ASSUME PromptState, NEW p \in Procs, NEW v, proc' = [proc EXCEPT ![p] = v]
  PROVE  proc'[p] = v /\ \A q \in Procs \ {p} : proc'[q] = proc[q]
  BY PromptFacts DEF ProcTable

LEMMA NoSolutionFollowed ==
  ASSUME PromptState, NEW p \in Procs, proc[p].pc \in {"starting", "computing"},
         NoSolution(p), unused' = unused
  PROVE  FollowedAll' /\ FreshAll' /\ OneAtATime
<1> DEFINE old == current[p[1]]
           part == Changed(old, "Growing")
<1>1. /\ proc[p].pc \in Uses /\ Whole(current, old) /\ old.leader = p[1] /\ old \in Partition
      /\ old.id \in Ids /\ Holds(proc, current, p, old.id)
  BY PlanIsWhole
<1>2. ASSUME NEW f \in FirstOut(p[1]), UpdateAll(p, "growing", part, inbox, Nobody, f)
      PROVE  FollowedAll' /\ FreshAll' /\ OneAtATime
  <2>1. f \in Nodes /\ "growing" \in Loops \ {"blocking"}
    BY DEF FirstOut, Loops
  <2>2. /\ part \in Partition /\ part.id = old.id /\ part.nodes = old.nodes
        /\ part.leader = old.leader /\ old.version < part.version /\ part.state = "Growing"
    BY <1>1, ChangedFacts DEF States
  <2> HIDE DEF part
  <2> QED BY <1>1, <1>2, <2>1, <2>2, ChangeFollowed
<1>3. CASE proc' = [proc EXCEPT ![p] = Idle] /\ UNCHANGED <<current, inbox>>
  <2>1. proc'[p] = Idle /\ \A q \in Procs \ {p} : proc'[q] = proc[q]
    BY <1>3, MoveAlone
  <2>2. Silent(proc'[p])
    BY <2>1 DEF Silent, Idle
  <2> HIDE DEF old
  <2> QED BY <1>1, <1>3, <2>1, <2>2, SameMailFacts, OneMovesFollowed
<1> QED BY <1>2, <1>3 DEF NoSolution

LEMMA ComputeFollowed ==
  ASSUME PromptState, NEW p \in Procs, Compute(p)
  PROVE  FollowedAll' /\ FreshAll' /\ OneAtATime
<1>1. proc[p].pc \in {"starting", "computing"} /\ unused' = unused
  BY DEF Compute, Starting
<1>2. CASE NoSolution(p)
  BY <1>1, <1>2, NoSolutionFollowed
<1>3. CASE proc' = [proc EXCEPT ![p] = Computing] /\ UNCHANGED <<current, inbox>>
  <2>1. proc'[p] = Computing /\ \A q \in Procs \ {p} : proc'[q] = proc[q]
    BY <1>3, MoveAlone
  <2> DEFINE old == current[p[1]]
  <2>2. /\ proc[p].pc \in Uses /\ Whole(current, old) /\ old.leader = p[1]
        /\ old.id \in Ids /\ Holds(proc, current, p, old.id)
    BY <1>1, PlanIsWhole
  <2>3. proc'[p].pc \in Uses /\ HeldBy(current, p, proc'[p])
    BY <2>1, <2>2 DEF HeldBy, Computing, Loops, Uses
  <2> HIDE DEF old
  <2> QED BY <1>1, <1>3, <2>1, <2>2, <2>3, SameMailFacts, OneMovesFollowed
<1> QED BY <1>2, <1>3 DEF Compute

LEMMA ComputedFollowed ==
  ASSUME PromptState, NEW p \in Procs, Computed(p)
  PROVE  FollowedAll' /\ FreshAll' /\ OneAtATime
<1>1. proc[p].pc \in {"starting", "computing"} /\ unused' = unused
  BY DEF Computed, Computing
<1>2. CASE NoSolution(p)
  BY <1>1, <1>2, NoSolutionFollowed
<1>3. CASE UpdateAll(p, "finishing", Changed(current[p[1]], "Finishing"), inbox, Nobody, p[1])
  <2> DEFINE old == current[p[1]]
             part == Changed(old, "Finishing")
  <2>1. /\ proc[p].pc \in Uses /\ Whole(current, old) /\ old.leader = p[1] /\ old \in Partition
        /\ p[1] \in Nodes /\ "finishing" \in Loops \ {"blocking"}
    BY <1>1, PlanIsWhole, PromptFacts DEF Loops
  <2>2. /\ part \in Partition /\ part.id = old.id /\ part.nodes = old.nodes
        /\ part.leader = old.leader /\ old.version < part.version
    BY <2>1, ChangedFacts DEF States
  <2>3. UpdateAll(p, "finishing", part, inbox, Nobody, p[1])
    BY <1>3
  <2> HIDE DEF part
  <2> QED BY <1>1, <2>1, <2>2, <2>3, ChangeFollowed
<1> QED BY <1>2, <1>3 DEF Computed

LEMMA ConfirmFollowed ==
  ASSUME PromptState, NEW p \in Procs, Confirm(p)
  PROVE  FollowedAll' /\ FreshAll' /\ OneAtATime
<1>1. /\ Whole(current, current[p[1]]) /\ current[p[1]] \in Partition
      /\ current[p[1]].leader = p[1] /\ proc[p].pc \in Uses
  BY DoneIsWhole DEF Confirm, Loops
<1>2. /\ UpdateAll(p, "confirming", current[p[1]], inbox, Nobody, p[1]) /\ unused' = unused
      /\ p[1] \in Nodes /\ "confirming" \in Loops \ {"blocking"}
  BY PromptFacts DEF Confirm, Loops
<1> QED BY <1>1, <1>2, ChangeFollowed

LEMMA DissolveOthersFollowed ==
  ASSUME PromptState, NEW p \in Procs, DissolveOthers(p)
  PROVE  FollowedAll' /\ FreshAll' /\ OneAtATime
<1> DEFINE part == current[p[1]]
           w == Waiting("dissolving", part, part.nodes, Nobody, p[1])
<1>1. /\ Whole(current, part) /\ part \in Partition /\ part.leader = p[1]
      /\ proc[p].pc \in Uses /\ proc \in ProcTable /\ inbox \in Box /\ p[1] \in Nodes
  BY DoneIsWhole, PromptFacts DEF DissolveOthers, Loops
<1>2. part.id \in Ids /\ Holds(proc, current, p, part.id)
  BY <1>1, PromptFacts
<1>3. AskAll(p, w, inbox) /\ current' = current /\ unused' = unused
  BY DEF DissolveOthers
<1>4. /\ w \in Waits /\ w.answer = "yes" /\ w.pc = "dissolving" /\ w.part = part
      /\ w.todo = part.nodes
  BY <1>1, WaitingType, ProcsFacts DEF Waiting, Partition
<1> HIDE DEF w
<1>5. HeldBy(current, p, w)
  <2>1. \A n \in Nodes : In(current, n, part.id) =>
          current[n] = part /\ (n = p[1] \/ Later(p, w, n))
    BY <1>1, <1>4, WholeIsIn DEF Later
  <2> QED BY <1>1, <1>4, <2>1 DEF HeldBy, AsksOthers, Loops
<1>6. HeldBy(current, p, proc'[p])
  BY <1>1, <1>3, <1>4, <1>5, AskAllHeldBy
<1>7. /\ proc' = [proc EXCEPT ![p] = proc'[p]] /\ proc'[p].pc = "dissolving"
      /\ \A x : SameMail(inbox, inbox', x)
  BY <1>1, <1>3, <1>4, AskAllFacts, AskAllMail
<1>8. \A q \in Procs \ {p} : proc'[q] = proc[q]
  BY <1>7, MoveAlone
<1> HIDE DEF part
<1> QED BY <1>1, <1>2, <1>3, <1>6, <1>7, <1>8, OneMovesFollowed DEF Uses

(* A step that holds no partition and lets none go. *)
LEMMA NothingFollowed ==
  ASSUME PromptState, \A x : SameMail(inbox, inbox', x), current' = current, unused' = unused,
         \A q \in Procs : \A x : SameHolder(proc, current, proc', current', q, x)
  PROVE  FollowedAll' /\ FreshAll' /\ OneAtATime
<1>1. proc \in ProcTable /\ current \in PartTable /\ unused \subseteq Ids
  BY PromptFacts DEF PromptState, TypeOK
<1>2. \A x : SameParts(current, current', x)
  BY DEF SameParts
<1>3. \A x : /\ Followed(inbox, proc, current, x) => Followed(inbox', proc', current', x)
             /\ Fresh(inbox, proc, current, x) => Fresh(inbox', proc', current', x)
  BY <1>1, <1>2, SameFollowed
<1>4. OneAtATime
  BY <1>2 DEF OneAtATime, Untouched
<1> QED BY <1>3, <1>4 DEF FollowedAll, FreshAll, PromptState, PromptInv

LEMMA EndPlanFollowed ==
  ASSUME PromptState, NEW p \in Procs, EndPlan(p)
  PROVE  FollowedAll' /\ FreshAll' /\ OneAtATime
<1>1. proc'[p] = Idle /\ \A q \in Procs \ {p} : proc'[q] = proc[q]
  BY MoveAlone DEF EndPlan
<1>2. Silent(proc[p]) /\ Silent(proc'[p])
  BY <1>1 DEF EndPlan, Done, Silent, Idle
<1>3. \A q \in Procs : \A x : SameHolder(proc, current, proc', current', q, x)
  BY <1>1, <1>2, SilentHolds DEF SameHolder
<1> QED BY <1>3, SameMailFacts, NothingFollowed DEF EndPlan

LEMMA DissolveSelfFollowed ==
  ASSUME PromptState, NEW p \in Procs, DissolveSelf(p)
  PROVE  FollowedAll' /\ FreshAll' /\ OneAtATime
<1> DEFINE part == current[p[1]]
           y == part.id
<1>1. /\ proc[p].pc = "dissolving" /\ Answered(p) /\ Left(p, proc[p].todo) = {}
      /\ current' = [current EXCEPT ![p[1]] = NoPartition] /\ inbox' = inbox /\ unused' = unused
  BY DEF DissolveSelf, Done
<1>2. proc'[p] = Idle /\ \A q \in Procs \ {p} : proc'[q] = proc[q]
  BY MoveAlone DEF DissolveSelf
<1>3. /\ y \in Ids /\ Holds(proc, current, p, y) /\ HeldBy(current, p, proc[p])
      /\ current \in PartTable /\ \A q \in Procs : q[1] \in Nodes
  BY <1>1, PromptFacts DEF Uses
<1>4. /\ Away(inbox, y) /\ \A q \in Procs \ {p} : ~Holds(proc, current, q, y)
  BY <1>3, HoldOf DEF PromptState, PromptInv
<1>5. \A n \in Nodes : In(current, n, y) => n = p[1]
  BY <1>1, <1>3 DEF HeldBy, Later, Answered, Left, Range
<1>6. /\ current'[p[1]] = NoPartition /\ \A n \in Nodes \ {p[1]} : current'[n] = current[n]
  BY <1>1, <1>3 DEF PartTable
<1>7. \A n \in Nodes : ~In(current', n, y)
  BY <1>5, <1>6 DEF In
<1>8. \A x : ~Holds(proc', current', p, x)
  BY <1>2, SilentHolds DEF Silent, Idle
<1>9. \A q \in Procs \ {p} : ~Holds(proc', current', q, y)
  BY <1>2, <1>3, <1>4, <1>7 DEF Holds
<1>10. Followed(inbox', proc', current', y)
  BY <1>1, <1>4, <1>7, <1>8, <1>9 DEF Followed, Loose, Vacant
<1>11. \A x \in Ids \ {y} : SameParts(current, current', x)
  BY <1>6 DEF SameParts, In
<1>12. \A x \in Ids \ {y} : \A q \in Procs : SameHolder(proc, current, proc', current', q, x)
  BY <1>1, <1>2, <1>8 DEF SameHolder, Holds, In
<1> HIDE DEF y
<1> QED BY <1>1, <1>3, <1>10, <1>11, <1>12, SameMailFacts, Used, StepFollowed

(* A partition goes out. *)
LEMMA IspMailed ==
  ASSUME NEW box \in Box, NEW f \in Nodes, NEW part \in Partition, NEW client,
         Away(box, part.id), Lasting(box, part.id), NEW procs, NEW cur,
         Vacant(procs, cur, part.id), Whole(cur, part), part.state = "Growing"
  PROVE  LET new == Sent(box, f, Isp(part, client))
         IN /\ Followed(new, procs, cur, part.id)
            /\ \A x : x # part.id => SameMail(box, new, x)
<1> DEFINE m == Isp(part, client)
           new == Sent(box, f, m)
<1>1. Grows(box, new, m)
  BY SentGrows
<1>2. m.type = "isp" /\ m.part = part /\ \A x : m # Dissolution(x)
  BY DEF Isp, Dissolution
<1>3. Sole(new, part.id, part)
  BY IspComes
<1> HIDE DEF m
<1>4. Lasting(new, part.id)
  BY <1>1, <1>2 DEF Grows, Lasting
<1>5. \A x : x # part.id => SameMail(box, new, x)
  BY <1>1, <1>2, GrowsSameMail DEF SameMail, Carries
<1> HIDE DEF new
<1>6. Followed(new, procs, cur, part.id)
  BY <1>3, <1>4 DEF Followed, Mailed
<1> QED BY <1>5, <1>6 DEF new, m

LEMMA TransmitFollowed ==
  ASSUME PromptState, NEW p \in Procs, Transmit(p)
  PROVE  FollowedAll' /\ FreshAll' /\ OneAtATime
<1> DEFINE part == current[p[1]]
           y == part.id
           f == proc[p].next
<1>1. /\ Whole(current, part) /\ part \in Partition /\ part.state = "Growing"
      /\ proc[p].pc = "growing" /\ proc[p].pc \in Uses
  BY DoneIsWhole DEF Transmit, Loops, Uses
<1>2. /\ proc[p] \in Waits /\ f \in Nodes /\ inbox \in Box
      /\ y \in Ids /\ Holds(proc, current, p, y)
  BY <1>1, PromptFacts DEF Loops, Waits
<1>3. /\ inbox' = Sent(inbox, f, Isp(part, p)) /\ current' = current /\ unused' = unused
      /\ proc' = [proc EXCEPT ![p] = [@ EXCEPT !.pc = "transmitting", !.asked = f,
                                               !.answer = "pending"]]
  BY DEF Transmit
<1>4. proc'[p].pc = "transmitting" /\ \A q \in Procs \ {p} : proc'[q] = proc[q]
  BY <1>2, <1>3, PromptFacts DEF ProcTable, Waits
<1>5. /\ Away(inbox, y) /\ Lasting(inbox, y)
      /\ \A q \in Procs \ {p} : ~Holds(proc, current, q, y)
  BY <1>2, HoldOf DEF PromptState, PromptInv
<1>6. \A x : ~Holds(proc', current', p, x)
  BY <1>4, SilentHolds DEF Silent
<1>7. Vacant(proc', current', y)
  BY <1>3, <1>4, <1>5, <1>6 DEF Vacant, Holds
<1>8. \A x \in Ids \ {y} : \A q \in Procs : SameHolder(proc, current, proc', current', q, x)
  BY <1>1, <1>4, <1>6 DEF SameHolder, Holds, In
<1> HIDE DEF part, f
<1>9. Followed(inbox', proc', current', y) /\ \A x : x # y => SameMail(inbox, inbox', x)
  BY <1>1, <1>2, <1>3, <1>5, <1>7, IspMailed
<1> QED BY <1>2, <1>3, <1>8, <1>9, Used, StepFollowed DEF SameParts

(* An ISP that a server takes. *)
LEMMA IspFacts ==
  ASSUME PromptState, NEW n \in Nodes, Receives(n, "isp")
  PROVE  LET m == Head(inbox[n])
         IN /\ m.type = "isp" /\ m.client \in Clients /\ Taken(n) \in Box
            /\ m.part \in Partition /\ m.part.id \in Ids /\ m.part.initiator \in Nodes
            /\ m.part.initiator \in Range(m.part.nodes)
            /\ Whole(current, m.part) /\ m.part.state = "Growing"
            /\ Away(Taken(n), m.part.id) /\ Lasting(Taken(n), m.part.id)
            /\ Vacant(proc, current, m.part.id) /\ m.part.id \notin unused
            /\ \A x : x # m.part.id => SameMail(inbox, Taken(n), x)
            /\ proc[Server(n)] = Idle
            /\ m.client # Nobody => proc[m.client].pc = "transmitting"
<1> DEFINE m == Head(inbox[n])
<1>1. /\ m.type = "isp" /\ m.client \in Clients /\ Taken(n) \in Box /\ inbox[n] # <<>>
      /\ Sound(m.part) /\ m.part \in Partition /\ m.part.id \in Ids
      /\ m.part.initiator \in Nodes /\ GoodRequest(proc, m)
      /\ proc[Server(n)] = Idle /\ inbox \in Box
  BY MessageFacts, PromptFacts DEF GoodMessage, Partition
<1>2. Carries(m, m.part.id) /\ \A x : x # m.part.id => ~Carries(m, x)
  BY <1>1 DEF Carries
<1>3. /\ Whole(current, m.part) /\ m.part.state = "Growing"
      /\ Away(Taken(n), m.part.id) /\ Lasting(Taken(n), m.part.id)
      /\ Vacant(proc, current, m.part.id)
  BY <1>1, <1>2, MailOf DEF PromptState, PromptInv
<1>4. m.part.id \notin unused
  <2>1. ~Away(inbox, m.part.id)
    BY <1>1, <1>2, TakenMail DEF Away
  <2> QED BY <2>1, Used
<1>5. \A x : x # m.part.id => SameMail(inbox, Taken(n), x)
  BY <1>1, <1>2, TakenSameMail
<1> QED BY <1>1, <1>3, <1>4, <1>5 DEF Sound, GoodRequest

LEMMA NobodyOutFollowed ==
  ASSUME PromptState, NEW n \in Nodes, NobodyOut(n)
  PROVE  FollowedAll' /\ FreshAll' /\ OneAtATime
<1> DEFINE m == Head(inbox[n])
           part == m.part
           y == part.id
<1>1. /\ part \in Partition /\ y \in Ids /\ Whole(current, part) /\ Away(Taken(n), y)
      /\ Vacant(proc, current, y) /\ y \notin unused
      /\ \A x : x # y => SameMail(inbox, Taken(n), x)
  BY IspFacts DEF NobodyOut
<1>2. inbox' = Taken(n) /\ UNCHANGED <<current, proc, unused>>
  BY DEF NobodyOut
<1> HIDE DEF part
<1>3. \A k, o \in Nodes : In(current, k, y) /\ In(current, o, y) => current[k] = current[o]
  BY <1>1, WholeIsIn
<1>4. Followed(inbox', proc', current', y)
  BY <1>1, <1>2, <1>3 DEF Followed, Loose
<1> QED BY <1>1, <1>2, <1>4, StepFollowed DEF SameParts, SameHolder

LEMMA ForwardFollowed ==
  ASSUME PromptState, NEW n \in Nodes, NEW f \in Nodes, Forward(n, f)
  PROVE  FollowedAll' /\ FreshAll' /\ OneAtATime
<1> DEFINE m == Head(inbox[n])
           part == m.part
           y == part.id
           c == m.client
<1>1. /\ part \in Partition /\ y \in Ids /\ Whole(current, part) /\ part.state = "Growing"
      /\ Away(Taken(n), y) /\ Lasting(Taken(n), y) /\ Taken(n) \in Box
      /\ Vacant(proc, current, y) /\ y \notin unused
      /\ \A x : x # y => SameMail(inbox, Taken(n), x)
      /\ c \in Clients /\ (c # Nobody => proc[c].pc = "transmitting")
  BY IspFacts DEF Forward
<1>2. /\ inbox' = Sent(Taken(n), f, Isp(part, Nobody)) /\ current' = current /\ unused' = unused
      /\ proc' = Replied(proc, c, "yes")
  BY DEF Forward
<1> HIDE DEF part, c
<1>3. \A q \in Procs : proc'[q] = proc[q] \/ (Silent(proc[q]) /\ Silent(proc'[q]))
  BY <1>1, <1>2, PromptFacts, SilentReply
<1>4. \A q \in Procs : \A x : SameHolder(proc, current, proc', current', q, x)
  BY <1>3, SilentHolds DEF SameHolder
<1>5. Vacant(proc', current', y)
  BY <1>1, <1>2, <1>4 DEF Vacant, SameHolder, Holds
<1>6. /\ Followed(inbox', proc', current', y)
      /\ \A x : x # y => SameMail(Taken(n), inbox', x)
  BY <1>1, <1>2, <1>5, IspMailed
<1>7. \A x : x # y => SameMail(inbox, inbox', x)
  BY <1>1, <1>6, SameMailFacts
<1> QED BY <1>1, <1>2, <1>4, <1>6, <1>7, StepFollowed DEF SameParts

LEMMA IspWhenFreeFollowed ==
  ASSUME PromptState, NEW n \in Nodes, IspWhenFree(n)
  PROVE  FollowedAll' /\ FreshAll' /\ OneAtATime
<1> DEFINE m == Head(inbox[n])
           p == Server(n)
           part == m.part
           y == part.id
           i == part.initiator
           v == [Waiting("validating", part, <<>>, m.client, i) EXCEPT !.answer = "pending"]
           r == [type |-> "valid", part |-> part, client |-> p]
<1>1. /\ part \in Partition /\ y \in Ids /\ Whole(current, part) /\ part.state = "Growing"
      /\ Away(Taken(n), y) /\ Lasting(Taken(n), y) /\ Taken(n) \in Box /\ i \in Nodes
      /\ Vacant(proc, current, y) /\ y \notin unused
      /\ \A x : x # y => SameMail(inbox, Taken(n), x)
      /\ proc[p] = Idle /\ p \in Procs
  BY IspFacts, ProcsFacts DEF IspWhenFree
<1>2. /\ inbox' = Sent(Taken(n), i, r) /\ current' = current /\ unused' = unused
      /\ proc' = [proc EXCEPT ![p] = v]
  BY DEF IspWhenFree
<1>3. /\ v.pc = "validating" /\ v.part = part /\ v.asked = i /\ v.answer = "pending"
  BY DEF Waiting
<1> HIDE DEF v
<1>4. proc'[p] = v /\ \A q \in Procs \ {p} : proc'[q] = proc[q]
  BY <1>1, <1>2, MoveAlone
<1>5. \A x : ~Carries(r, x) /\ r # Dissolution(x)
  BY DEF Carries, Dissolution
<1>6. Grows(Taken(n), inbox', r)
  BY <1>1, <1>2, SentGrows
<1> HIDE DEF r
<1>7. \A x : SameMail(Taken(n), inbox', x)
  BY <1>5, <1>6, GrowsSameMail DEF SameMail
<1>8. \A x \in Ids \ {y} : SameMail(inbox, inbox', x)
  BY <1>1, <1>7, SameMailFacts
<1>9. Holds(proc', current', p, y) /\ \A x \in Ids \ {y} : ~Holds(proc', current', p, x)
  BY <1>3, <1>4 DEF Holds, Uses, Loops
<1>10. \A x : ~Holds(proc, current, p, x)
  BY <1>1, SilentHolds DEF Silent, Idle
<1>11. HeldBy(current', p, proc'[p])
  BY <1>1, <1>2, <1>3, <1>4 DEF HeldBy, Loops
<1>12. \A q \in Procs \ {p} : ~Holds(proc', current', q, y)
  BY <1>1, <1>2, <1>4 DEF Vacant, Holds
<1> HIDE DEF part, p
<1>13. Followed(inbox', proc', current', y)
  BY <1>1, <1>7, <1>9, <1>11, <1>12, StillHeld DEF SameMail
<1>14. \A x \in Ids \ {y} : \A q \in Procs : SameHolder(proc, current, proc', current', q, x)
  BY <1>4, <1>9, <1>10 DEF SameHolder
<1> QED BY <1>1, <1>2, <1>8, <1>13, <1>14, StepFollowed DEF SameParts

LEMMA OverloadingFollowed ==
  ASSUME PromptState, NEW n \in Nodes, OverloadingDetected(n)
  PROVE  FollowedAll' /\ FreshAll' /\ OneAtATime
<1>1. PICK id \in unused :
        LET part == [id |-> id, leader |-> n, initiator |-> n, nodes |-> <<n>>,
                     state |-> "Growing", version |-> 0]
        IN /\ unused' = unused \ {id}
           /\ current' = [current EXCEPT ![n] = part]
           /\ inbox' \in IspSent(inbox, part)
  BY DEF OverloadingDetected
<1> DEFINE part == [id |-> id, leader |-> n, initiator |-> n, nodes |-> <<n>>,
                    state |-> "Growing", version |-> 0]
<1>2. /\ unused' = unused \ {id} /\ current' = [current EXCEPT ![n] = part]
      /\ inbox' \in IspSent(inbox, part) /\ proc' = proc /\ ~Booked(n)
  BY <1>1 DEF OverloadingDetected
<1>3. /\ inbox \in Box /\ current \in PartTable /\ id \in Ids /\ proc \in ProcTable
      /\ \A q \in Procs : q[1] \in Nodes
  BY PromptFacts DEF PromptState, TypeOK
<1>4. /\ part \in Partition /\ part.id = id /\ part.state = "Growing" /\ Range(part.nodes) = {n}
  <2> DEFINE ns == <<n>>
  <2>1. ns \in Seq(Nodes) /\ DOMAIN ns = {1} /\ ns[1] = n
    OBVIOUS
  <2>2. Range(ns) = {n}
    BY <2>1 DEF Range
  <2> HIDE DEF ns
  <2>3. [id |-> id, leader |-> n, initiator |-> n, nodes |-> ns,
         state |-> "Growing", version |-> 0] \in Partition
    BY <1>3, <2>1 DEF Partition, States
  <2> QED BY <2>2, <2>3 DEF ns
<1> HIDE DEF part
<1>5. Fresh(inbox, proc, current, id)
  BY DEF PromptState, PromptInv
<1>6. /\ current[n] = NoPartition /\ current'[n] = part
      /\ \A k \in Nodes \ {n} : current'[k] = current[k]
  BY <1>2, <1>3 DEF PartTable, Booked
<1>7. \A k \in Nodes : In(current', k, id) <=> k = n
  BY <1>4, <1>5, <1>6, NoPartitionIsNone DEF Fresh, In
<1>8. \A q \in Procs : q[1] = n => proc[q].pc \notin Uses
  BY <1>2 DEF PromptState, PromptInv, Kinds
<1>9. Vacant(proc', current', id)
  BY <1>2, <1>3, <1>5, <1>7, <1>8 DEF Vacant, Holds, Fresh
<1>10. Whole(current', part)
  BY <1>4, <1>6, <1>7 DEF Whole
<1>11. Away(inbox, id) /\ Lasting(inbox, id)
  BY <1>5 DEF Fresh
<1>12. Followed(inbox', proc', current', id) /\ \A x : x # id => SameMail(inbox, inbox', x)
  <2>1. CASE \E f \in Nodes : inbox' = Sent(inbox, f, Isp(part, Nobody))
    <3>1. PICK f \in Nodes : inbox' = Sent(inbox, f, Isp(part, Nobody))
      BY <2>1
    <3> QED BY <1>3, <1>4, <1>9, <1>10, <1>11, <3>1, IspMailed
  <2>2. CASE inbox' = inbox
    <3>1. Followed(inbox', proc', current', id)
      BY <1>7, <1>9, <1>11, <2>2 DEF Followed, Loose
    <3> QED BY <2>2, <3>1, SameMailFacts
  <2> QED BY <1>2, <2>1, <2>2 DEF IspSent
<1>13. \A x \in Ids \ {id} : SameParts(current, current', x)
  BY <1>4, <1>6 DEF SameParts, In
<1>14. \A x \in Ids \ {id} : \A q \in Procs : SameHolder(proc, current, proc', current', q, x)
  BY <1>2 DEF SameHolder
<1> QED BY <1>2, <1>12, <1>13, <1>14, StepFollowed

-----------------------------------------------------------------------------
(* The servers.  One that waits asks a node whose server is idle.            *)

LEMMA ServerIsIdle ==
  ASSUME PromptState, NEW n \in Nodes, proc[Server(n)].pc = "idle"
  PROVE  proc[Server(n)] = Idle
<1>1. proc[Server(n)] \in Process
  BY PromptFacts, ProcsFacts
<1> QED BY <1>1 DEF Process, Waits, Starting, Computing

LEMMA AskedServerIsIdle ==
  ASSUME PromptState, NEW n \in Nodes, proc[Server(n)] # Idle,
         proc[Server(n)].answer = "pending"
  PROVE  LET k == proc[Server(n)].asked
         IN /\ k \in Nodes /\ proc[Server(k)] = Idle
            /\ InBox(inbox, k, Wanted(Server(n), proc[Server(n)]))
<1> DEFINE p == Server(n)
           w == proc[p]
           k == w.asked
<1>1. /\ p \in Procs /\ p[1] = n /\ w.pc \in {"validating", "joining", "blocking"}
      /\ \A o \in Nodes : proc[Server(o)].pc \in {"idle", "validating", "joining", "blocking"}
  BY ProcsFacts, ServerIsIdle DEF Server, PromptState, PromptInv, Kinds
<1>2. w \in Waits /\ w.part \in Partition /\ k \in Nodes /\ GoodProcess(w)
  BY <1>1, PromptFacts DEF Loops, Waits, PromptState, MembersInv
<1>3. InBox(inbox, k, Wanted(p, w))
  BY <1>1 DEF PromptState, PromptInv, Requested, Asked, NotAsking
<1>4. /\ Holds(proc, current, p, w.part.id) /\ HeldBy(current, p, w) /\ w.part.id \in Ids
  BY <1>1, <1>2, PromptFacts DEF Loops, Uses
<1>5. \A q \in Procs \ {p} : ~Holds(proc, current, q, w.part.id)
  BY <1>1, <1>4, HoldOf DEF PromptState, PromptInv
<1>6. In(current, k, w.part.id) /\ k # n
  <2>1. CASE w.pc = "validating"
    <3>1. /\ Whole(current, w.part) /\ k = w.part.initiator
          /\ w.part.initiator \in Range(w.part.nodes)
      BY <1>2, <1>4, <2>1 DEF HeldBy, GoodProcess, Sound
    <3>2. ~Booked(n)
      BY <2>1 DEF PromptState, ValidatingIsFree
    <3> QED BY <1>2, <3>1, <3>2, WholeIsIn DEF In, Booked
  <2>2. CASE w.pc \in Loops
    <3>1. Spread(current, p, w) /\ k # n
      BY <1>1, <1>4, <2>2 DEF HeldBy, AsksOthers
    <3>2. Wanted(p, w) = [type |-> "set", part |-> w.part, client |-> p]
      BY <2>2 DEF Wanted, Request, Loops
    <3>3. k \in Range(w.part.nodes)
      BY <1>2, <1>3, <3>2 DEF InBox, PromptState, MembersInv, GoodBox, GoodMessage
    <3> QED BY <1>2, <3>1, <3>3 DEF Spread
  <2> QED BY <1>1, <2>1, <2>2 DEF Loops
<1>7. Server(k) \in Procs \ {p} /\ Server(k)[1] = k /\ Booked(k)
  BY <1>2, <1>6, ProcsFacts DEF Server, In, Booked
<1>8. proc[Server(k)].pc \notin {"joining", "blocking"}
  BY <1>5, <1>6, <1>7 DEF Holds, Uses, Loops
<1>9. proc[Server(k)].pc # "validating"
  BY <1>2, <1>7 DEF PromptState, ValidatingIsFree
<1>10. proc[Server(k)] = Idle
  BY <1>1, <1>2, <1>8, <1>9, ServerIsIdle
<1> QED BY <1>2, <1>3, <1>10

(* When every process waits or computes, nothing is under way. *)
LEMMA QuietIsSilent ==
  ASSUME PromptState, Quiet
  PROVE  /\ \A n \in Nodes : proc[Server(n)] = Idle /\ inbox[n] = <<>>
         /\ \A p \in Procs : proc[p].pc \in {"idle", "computing", "transmitting"}
<1>1. ASSUME NEW n \in Nodes
      PROVE  proc[Server(n)] = Idle
  <2> SUFFICES ASSUME proc[Server(n)] # Idle PROVE FALSE
    OBVIOUS
  <2>1. Server(n) \in Procs /\ Server(n)[1] = n
    BY ProcsFacts DEF Server
  <2>2. proc[Server(n)] # Computing
    BY DEF Computing, PromptState, PromptInv, Kinds
  <2>3. proc[Server(n)].answer = "pending"
    BY <2>1, <2>2 DEF Quiet, Answered
  <2> DEFINE k == proc[Server(n)].asked
  <2>4. /\ k \in Nodes /\ proc[Server(k)] = Idle
        /\ InBox(inbox, k, Wanted(Server(n), proc[Server(n)]))
    BY <2>3, AskedServerIsIdle
  <2> HIDE DEF k
  <2>5. Server(k) \in Procs /\ Server(k)[1] = k
    BY <2>4, ProcsFacts DEF Server
  <2>6. inbox[k] = <<>>
    BY <2>4, <2>5 DEF Quiet, Idle, Computing
  <2> QED BY <2>4, <2>6 DEF InBox
<1>2. ASSUME NEW n \in Nodes
      PROVE  inbox[n] = <<>>
  <2>1. Server(n) \in Procs /\ Server(n)[1] = n /\ proc[Server(n)] = Idle
    BY <1>1, ProcsFacts DEF Server
  <2> QED BY <2>1 DEF Quiet, Idle, Computing
<1>3. ASSUME NEW p \in Procs
      PROVE  proc[p].pc \in {"idle", "computing", "transmitting"}
  <2> SUFFICES ASSUME proc[p].pc \notin {"idle", "computing", "transmitting"} PROVE FALSE
    OBVIOUS
  <2>1. proc[p].answer = "pending" /\ proc[p].pc # "starting"
    <3>1. proc[p] \notin {Idle, Computing}
      BY DEF Idle, Computing
    <3>2. proc[p] \notin {Idle, Starting, Computing} /\ ~Answered(p)
      BY <3>1 DEF Quiet
    <3>3. proc[p] \in Waits
      BY <3>2, PromptFacts DEF Process
    <3> QED BY <3>2, <3>3 DEF Answered, Waits
  <2>2. proc[p].pc \notin NotAsking /\ proc[p] \in Waits
    BY <2>1, PcOf, PromptFacts, WaitsFacts DEF NotAsking, Loops
  <2>3. InBox(inbox, proc[p].asked, Wanted(p, proc[p])) /\ proc[p].asked \in Nodes
    BY <2>1, <2>2 DEF PromptState, PromptInv, Requested, Asked, Waits
  <2> QED BY <1>2, <2>3 DEF InBox
<1> QED BY <1>1, <1>2, <1>3

(* A partition that times out is not on its way, and no plan is computed for *)
(* it: its members only wait.                                                *)
LEMMA TimeoutIsLoose ==
  ASSUME PromptState, Prompt, NEW n \in Nodes, CheckTimeout(n)
  PROVE  /\ current[n] \in Partition /\ current[n].id \in Ids /\ In(current, n, current[n].id)
         /\ Loose(inbox, proc, current, current[n].id)
<1> DEFINE y == current[n].id
<1>1. /\ Booked(n) /\ current[n] \in Partition /\ y \in Ids /\ In(current, n, y)
  BY PromptFacts DEF CheckTimeout, PartTable, Booked, Partition, In
<1>2. /\ \A k \in Nodes : inbox[k] = <<>>
      /\ \A p \in Procs : proc[p].pc \in {"idle", "computing", "transmitting"}
  BY QuietIsSilent DEF CheckTimeout
<1>3. ~Mailed(inbox, proc, current, y)
  BY <1>2 DEF Mailed, Sole
<1>4. ~Held(inbox, proc, current, y)
  <2> SUFFICES ASSUME Held(inbox, proc, current, y) PROVE FALSE
    OBVIOUS
  <2>1. PICK p \in Procs : Holds(proc, current, p, y)
    BY DEF Held
  <2>2. proc[p].pc = "computing" /\ current[p[1]].id = y /\ p[1] \in Nodes
    BY <1>2, <2>1, PromptFacts DEF Holds, Uses, Loops, In
  <2>3. Whole(current, current[p[1]]) /\ current[p[1]] \in Partition
    BY <2>2, PlanIsWhole
  <2>4. n \in Range(current[p[1]].nodes)
    BY <1>1, <2>2, <2>3, WholeIsIn
  <2>5. p \in Plans
    BY <2>2, ServerOrPlan DEF PromptState, PromptInv, Kinds
  <2>6. snoozed[p[1]] = Range(current[p[1]].nodes)
    BY <2>2, <2>5 DEF PromptState, PromptInv, Planned
  <2> QED BY <2>2, <2>4, <2>6 DEF CheckTimeout, Snoozed
<1>5. Loose(inbox, proc, current, y)
  BY <1>1, <1>3, <1>4 DEF PromptState, PromptInv, Followed
<1> QED BY <1>1, <1>5

LEMMA TimeoutFollowed ==
  ASSUME PromptState, Prompt, NEW n \in Nodes, CheckTimeout(n)
  PROVE  FollowedAll' /\ FreshAll' /\ OneAtATime
<1> DEFINE part == current[n]
           y == part.id
           d == Dissolution(y)
<1>1. /\ part \in Partition /\ y \in Ids /\ In(current, n, y)
      /\ Loose(inbox, proc, current, y)
  BY TimeoutIsLoose
<1>2. /\ inbox' = SentAll(inbox, part.nodes, Nodes \ {n}, d) /\ proc' = proc
      /\ current' = [current EXCEPT ![n] = NoPartition] /\ unused' = unused
  BY DEF CheckTimeout
<1>3. /\ inbox \in Box /\ current \in PartTable /\ part.nodes \in Seq(Nodes)
      /\ \A q \in Procs : q[1] \in Nodes
  BY <1>1, PromptFacts DEF Partition
<1>4. /\ current'[n] = NoPartition /\ \A k \in Nodes \ {n} : current'[k] = current[k]
  BY <1>2, <1>3 DEF PartTable
<1>5. d \in Message /\ \A x : ~Carries(d, x) /\ (x # y => d # Dissolution(x))
  BY <1>1, MessageTypes, ProcsFacts DEF Dissolution, Carries
<1> HIDE DEF d, part, y
<1>6. Grows(inbox, inbox', d)
  BY <1>2, <1>3, <1>5, SentAllGrows
<1>7. Away(inbox, y) => Away(inbox', y)
  BY <1>5, <1>6, GrowsSameMail
<1>8. \A x : x # y => SameMail(inbox, inbox', x)
  BY <1>5, <1>6, GrowsSameMail DEF SameMail
<1>9. \A k \in Nodes : \A x : In(current', k, x) => In(current, k, x) /\ current'[k] = current[k]
  BY <1>4 DEF In
<1>10. Vacant(proc', current', y)
  BY <1>1, <1>2, <1>3, <1>9 DEF Loose, Vacant, Holds
<1>11. \A k, o \in Nodes : In(current', k, y) /\ In(current', o, y) => current'[k] = current'[o]
  BY <1>1, <1>9 DEF Loose
<1>12. Followed(inbox', proc', current', y)
  BY <1>1, <1>7, <1>10, <1>11 DEF Followed, Loose
<1>13. \A x \in Ids \ {y} : SameParts(current, current', x)
  BY <1>4 DEF SameParts, In, y, part
<1> QED BY <1>1, <1>2, <1>8, <1>12, <1>13, Used, StepFollowed DEF SameHolder

-----------------------------------------------------------------------------
(* What never happens when messages are prompt: blocked partitions do not    *)
(* meet, and a process finds the partition it uses.                          *)

LEMMA BlockedNeverMeet ==
  ASSUME PromptState, NEW n \in Nodes
  PROVE  ~DissolveBlocked(n) /\ ~Merge(n) /\ ~Merged(n)
<1>1. ~DissolveBlocked(n) /\ ~Merge(n)
  BY IspFacts DEF DissolveBlocked, Merge, BothBlocked
<1>2. ~Merged(n)
  BY DEF Merged, Done, PromptState, PromptInv, Kinds
<1> QED BY <1>1, <1>2

LEMMA NoneFails ==
  ASSUME PromptState, NEW p \in Procs
  PROVE  ~Fail(p)
<1>1. ~Booked(p[1]) => proc[p].pc \in {"idle", "validating", "transmitting"}
  BY PcOf, PromptFacts DEF Uses
<1> QED BY <1>1 DEF Fail, Done

-----------------------------------------------------------------------------
(* The requests under way.                                                   *)

LEMMA RequestState ==
  ASSUME PromptState
  PROVE  /\ inbox \in Box /\ proc \in ProcTable /\ Awaited(inbox, proc)
         /\ HeldAwaited(inbox, proc) /\ Requested(inbox, proc) /\ TypeOK
  BY PromptFacts DEF PromptState, PromptInv, Awaited

LEMMA NobodysRequested ==
  ASSUME NEW box, NEW new, NEW procs, Requested(box, procs), NEW m, Grows(box, new, m),
         m.client = Nobody, m.type \notin {"set", "valid"},
         \A p \in Procs : procs[p].pc \notin NotAsking => procs[p].asked \in Nodes
  PROVE  Requested(new, procs)
<1>1. \A n \in Nodes : \A i \in DOMAIN new[n] : GoodRequest(procs, new[n][i])
  BY DEF Requested, Grows, GoodRequest
<1>2. ASSUME NEW p \in Procs PROVE Asked(new, p, procs[p])
  BY DEF Requested, Grows, Asked, InBox
<1> QED BY <1>1, <1>2 DEF Requested

LEMMA AskedNodes ==
  ASSUME NEW procs \in ProcTable, NEW p \in Procs, procs[p].pc \notin NotAsking
  PROVE  procs[p].asked \in Nodes
<1>1. procs[p] \in Waits
  BY WaitsFacts DEF ProcTable, NotAsking
<1> QED BY <1>1 DEF Waits

LEMMA ReplyRequested ==
  ASSUME PromptState, NEW n \in Nodes,
         IsStillValid(n) \/ Dissolve(n) \/ SetCurrentPartition(n)
  PROVE  Requested(inbox', proc')
<1> DEFINE c == Head(inbox[n]).client
<1>1. /\ Receives(n, "valid") \/ Receives(n, "dissolve") \/ Receives(n, "set")
      /\ inbox' = Taken(n)
  BY DEF IsStillValid, Dissolve, SetCurrentPartition
<1>2. proc' = Replied(proc, c, "yes") \/ proc' = Replied(proc, c, "no")
  BY DEF IsStillValid, Dissolve, SetCurrentPartition
<1>3. \A a \in {"yes", "no"} : Requested(Taken(n), Replied(proc, c, a))
  BY <1>1, RequestState, TakenRequested
<1> QED BY <1>1, <1>2, <1>3

LEMMA NobodyOutRequested ==
  ASSUME PromptState, NEW n \in Nodes, NobodyOut(n)
  PROVE  Requested(inbox', proc')
  BY RequestState, TakenRequested DEF NobodyOut

LEMMA ForwardRequested ==
  ASSUME PromptState, NEW n \in Nodes, NEW f \in Nodes, Forward(n, f)
  PROVE  Requested(inbox', proc')
<1> DEFINE c == Head(inbox[n]).client
           m == Isp(Head(inbox[n]).part, Nobody)
<1>1. /\ inbox' = Sent(Taken(n), f, m) /\ proc' = Replied(proc, c, "yes")
      /\ Receives(n, "isp") /\ c \in Clients /\ Taken(n) \in Box /\ proc \in ProcTable
  BY IspFacts, RequestState DEF Forward
<1>2. Requested(Taken(n), proc') /\ proc' \in ProcTable
  BY <1>1, RequestState, TakenRequested, RepliedType
<1>3. m.client = Nobody /\ m.type = "isp"
  BY DEF Isp
<1> HIDE DEF m
<1>4. Grows(Taken(n), inbox', m)
  BY <1>1, SentGrows
<1> QED BY <1>2, <1>3, <1>4, AskedNodes, NobodysRequested

LEMMA IspWhenFreeRequested ==
  ASSUME PromptState, NEW n \in Nodes, IspWhenFree(n)
  PROVE  Requested(inbox', proc')
<1> DEFINE m == Head(inbox[n])
           p == Server(n)
           i == m.part.initiator
           v == [Waiting("validating", m.part, <<>>, m.client, i) EXCEPT !.answer = "pending"]
           r == [type |-> "valid", part |-> m.part, client |-> p]
           box == Taken(n)
<1>1. /\ inbox' = Sent(box, i, r) /\ proc' = [proc EXCEPT ![p] = v] /\ Receives(n, "isp")
  BY DEF IspWhenFree
<1>2. /\ m.client \in Clients /\ box \in Box /\ proc \in ProcTable /\ i \in Nodes
      /\ p \in Procs /\ p # Nobody /\ proc[p] = Idle
      /\ m.client # Nobody => proc[m.client].pc = "transmitting"
  BY <1>1, IspFacts, RequestState, ProcsFacts DEF Server, Nobody
<1>3. Requested(box, proc) /\ Free(box, proc, p) /\ HeldAwaited(box, proc)
  BY <1>1, RequestState, TakenRequested, MessageFacts
<1>4. /\ v.pc = "validating" /\ v.part = m.part /\ v.client = m.client /\ v.asked = i
      /\ Wanted(p, v) = r
  BY DEF Waiting, Wanted
<1>5. v.client \in Clients \ {p} /\ Transmits(proc, v)
  BY <1>2, <1>4 DEF Transmits, Idle
<1> HIDE DEF m, v, box
<1>6. r.client = p /\ r.type = "valid"
  OBVIOUS
<1>7. GoodRequest([proc EXCEPT ![p] = v], r)
  BY <1>2, <1>4, <1>6 DEF GoodRequest, ProcTable, NotAsking
<1> HIDE DEF p, r
<1>8. Grows(box, inbox', r) /\ InBox(inbox', i, r)
  <2> DEFINE last == Len(box[i]) + 1
  <2>1. Grows(box, inbox', r) /\ last \in DOMAIN inbox'[i] /\ inbox'[i][last] = r
    BY <1>1, <1>2, SentGrows
  <2> HIDE DEF last
  <2> QED BY <2>1 DEF InBox
<1>9. Asked(inbox', p, v)
  BY <1>4, <1>8 DEF Asked
<1> QED BY <1>1, <1>2, <1>3, <1>5, <1>7, <1>8, <1>9, MoveRequested

LEMMA JoinRequested ==
  ASSUME PromptState, NEW n \in Nodes, Join(n)
  PROVE  Requested(inbox', proc')
<1> DEFINE p == Server(n)
           c == proc[p].client
           part == Joined(n, proc[p].part)
           w == Waiting("joining", part, part.nodes, c, n)
<1>1. /\ p \in Procs /\ proc[p].pc = "validating" /\ proc[p].answer = "yes"
      /\ AskAll(p, w, inbox)
  BY ProcsFacts DEF Join, UpdateAll
<1>2. proc[p].part \in Partition /\ proc[p] # Idle
  BY <1>1, PromptFacts DEF Idle
<1>3. c \in Clients /\ c # p /\ (c # Nobody => proc[c].pc = "transmitting")
  BY <1>2, ClientFacts
<1>4. part \in Partition /\ part.nodes \in Seq(Nodes)
  BY <1>2, JoinedFacts DEF Partition
<1> HIDE DEF part, c
<1>5. w \in Waits /\ w.pc = "joining" /\ w.client = c
  BY <1>3, <1>4, WaitingType DEF Waiting
<1> HIDE DEF w
<1>6. Free(inbox, proc, p)
  BY <1>1, RequestState, AnsweredIsFree DEF Answered
<1>7. Transmits(proc, w)
  BY <1>3, <1>5 DEF Transmits
<1> HIDE DEF p
<1> QED BY <1>1, <1>3, <1>5, <1>6, <1>7, RequestState, AskAllRequested DEF Loops

LEMMA IspBackRequested ==
  ASSUME PromptState, NEW n \in Nodes, IspBack(n)
  PROVE  Requested(inbox', proc')
<1> DEFINE p == Server(n)
           c == Head(inbox[n]).client
           part == Changed(current[n], "Blocked")
           w == Waiting("blocking", part, part.nodes, c, n)
           box == Taken(n)
<1>1. p \in Procs /\ AskAll(p, w, box) /\ Receives(n, "isp") /\ Booked(n)
  BY ProcsFacts DEF IspBack, UpdateAll
<1>2. /\ c \in Clients /\ proc[p] = Idle /\ box \in Box /\ p # Nobody
      /\ c # Nobody => proc[c].pc = "transmitting"
  BY <1>1, IspFacts DEF Server, Nobody
<1>3. c # p
  BY <1>2 DEF Idle
<1>4. part \in Partition /\ part.nodes \in Seq(Nodes)
  BY <1>1, PromptFacts, PartitionIsBooked, ChangedFacts DEF PartTable, States, Partition
<1>5. Requested(box, proc) /\ Free(box, proc, p) /\ HeldAwaited(box, proc)
  BY <1>1, RequestState, TakenRequested, MessageFacts
<1> HIDE DEF part, c
<1>6. w \in Waits /\ w.pc = "blocking" /\ w.client = c
  BY <1>2, <1>4, WaitingType DEF Waiting
<1> HIDE DEF w
<1>7. Transmits(proc, w)
  BY <1>2, <1>6 DEF Transmits
<1> HIDE DEF p, box
<1> QED BY <1>1, <1>2, <1>3, <1>5, <1>6, <1>7, RequestState, AskAllRequested DEF Loops

LEMMA ServerIsNoPlan == \A n \in Nodes : Server(n) \notin Plans
  BY DEF Server, Plans

(* A server that goes idle, and then replies. *)
LEMMA EndsRequested ==
  ASSUME PromptState, NEW n \in Nodes, proc[Server(n)] # Idle, Answered(Server(n)),
         NEW procs \in ProcTable, NEW s \in Plans,
         LET idle == [proc EXCEPT ![Server(n)] = Idle]
         IN procs = idle \/ (proc[s] = Idle /\ procs = [idle EXCEPT ![s] = Starting]),
         inbox' = inbox, proc' = Replied(procs, proc[Server(n)].client, "yes")
  PROVE  Requested(inbox', proc')
<1> DEFINE p == Server(n)
           c == proc[p].client
           idle == [proc EXCEPT ![p] = Idle]
<1>1. /\ p \in Procs /\ p # Nobody /\ inbox \in Box /\ proc \in ProcTable
      /\ Awaited(inbox, proc) /\ HeldAwaited(inbox, proc) /\ Requested(inbox, proc)
  BY RequestState, ProcsFacts DEF Server, Nobody
<1>2. c \in Clients /\ c # p
  BY ClientFacts
<1>3. Free(inbox, proc, p)
  BY <1>1, AnsweredIsFree
<1>4. idle \in ProcTable /\ idle[p] = Idle /\ \A q \in Procs \ {p} : idle[q] = proc[q]
  BY <1>1, IdleTypes, SetProcType DEF ProcTable
<1>5. Requested(inbox, idle)
  BY <1>1, <1>3, MoveRequested DEF Asked, NotAsking, Idle
<1>6. Awaited(inbox, idle)
  BY <1>1, <1>3, IdleTypes, FreeChange
<1>7. ASSUME proc[s] = Idle, procs = [idle EXCEPT ![s] = Starting]
      PROVE  Requested(inbox, procs) /\ Awaited(inbox, procs)
  <2>1. s \in Procs /\ s # Nobody /\ s # p
    BY ServerIsNoPlan, ProcsFacts DEF Plans, Server, Nobody
  <2> HIDE DEF idle
  <2>2. \A o \in Nodes : ~Asks(idle[s], o)
    BY <1>4, <1>7, <2>1 DEF Asks, Idle
  <2>3. Free(inbox, idle, s)
    BY <1>6, <2>1, <2>2, NotAskingIsFree
  <2>4. Asked(inbox, s, Starting)
    BY DEF Asked, NotAsking, Starting
  <2>5. Requested(inbox, procs)
    BY <1>1, <1>4, <1>5, <1>6, <1>7, <2>1, <2>3, <2>4, MoveRequested DEF Awaited
  <2>6. Awaited(inbox, procs)
    BY <1>1, <1>4, <1>6, <1>7, <2>1, <2>3, IdleTypes, FreeChange
  <2> QED BY <2>5, <2>6
<1> HIDE DEF idle
<1>8. Requested(inbox, procs) /\ HeldAwaited(inbox, procs)
  BY <1>5, <1>6, <1>7 DEF Awaited, idle
<1> HIDE DEF c, p
<1>9. Requested(inbox, Replied(procs, c, "yes"))
  BY <1>1, <1>2, <1>8, RepliedRequested DEF Requested
<1> QED BY <1>9 DEF c, p

LEMMA ServerEndsRequested ==
  ASSUME PromptState, NEW n \in Nodes,
         Refuse(n) \/ EndBlocking(n) \/ \E k \in 1..MaxPlans : StartPlan(n, k)
  PROVE  Requested(inbox', proc')
<1> DEFINE p == Server(n)
           idle == [proc EXCEPT ![p] = Idle]
<1>1. proc[p] # Idle /\ Answered(p) /\ inbox' = inbox
  <2>1. proc[p].pc # "idle" => proc[p] # Idle
    BY DEF Idle
  <2>2. CASE Refuse(n)
    BY <2>1, <2>2 DEF Refuse
  <2>3. CASE EndBlocking(n)
    BY <2>1, <2>3 DEF EndBlocking, Done
  <2>4. CASE \E k \in 1..MaxPlans : StartPlan(n, k)
    BY <2>1, <2>4 DEF StartPlan, Done
  <2> QED BY <2>2, <2>3, <2>4
<1>2. idle \in ProcTable
  BY PromptFacts, IdleTypes, SetProcType, ProcsFacts
<1>3. CASE Refuse(n) \/ EndBlocking(n)
  <2>1. proc' = Replied(idle, proc[p].client, "yes")
    BY <1>3 DEF Refuse, EndBlocking
  <2>2. <<n, 1>> \in Plans
    BY PlansAssumption DEF Plans
  <2> QED BY <1>1, <1>2, <2>1, <2>2, EndsRequested
<1>4. CASE \E k \in 1..MaxPlans : StartPlan(n, k)
  <2>1. PICK k \in 1..MaxPlans : StartPlan(n, k)
    BY <1>4
  <2> DEFINE s == <<n, k>>
             procs == [idle EXCEPT ![s] = Starting]
  <2>2. s \in Plans /\ s # p /\ s \in Procs
    BY ProcsFacts DEF Plans
  <2>3. [proc EXCEPT ![p] = Idle, ![s] = Starting] = procs
    OBVIOUS
  <2>4. proc[s] = Idle /\ proc' = Replied(procs, proc[p].client, "yes")
    BY <2>1, <2>3 DEF StartPlan
  <2>5. procs \in ProcTable
    BY <1>2, <2>2, IdleTypes, SetProcType
  <2> HIDE DEF s
  <2> QED BY <1>1, <2>2, <2>4, <2>5, EndsRequested
<1> QED BY <1>3, <1>4

LEMMA AskNextRequested ==
  ASSUME PromptState, NEW p \in Procs, AskNext(p)
  PROVE  Requested(inbox', proc')
<1> DEFINE w == proc[p]
<1>1. w \in Waits /\ w.pc \in Loops \cup {"dissolving"} /\ AskAll(p, w, inbox) /\ Answered(p)
  BY AskNextFacts DEF Answered
<1>2. Free(inbox, proc, p)
  BY <1>1, RequestState, AnsweredIsFree
<1>3. p \in Plans \/ (w.client # p /\ Transmits(proc, w))
  <2>1. CASE p \in Plans
    BY <2>1
  <2>2. CASE p = Server(p[1])
    <3>1. p[1] \in Nodes /\ w # Idle
      BY <1>1, ProcsFacts DEF Idle, Loops
    <3>2. w.client # p
      BY <2>2, <3>1, ClientFacts
    <3>3. Transmits(proc, w)
      BY <2>2, <3>1, RequestState DEF Requested
    <3> QED BY <3>2, <3>3
  <2> QED BY <2>1, <2>2, ServerOrPlan
<1> HIDE DEF w
<1> QED BY <1>1, <1>2, <1>3, RequestState, AskAllRequested

LEMMA PlanLoopRequested ==
  ASSUME PromptState, NEW p \in Plans,
         proc[p].pc \in {"starting", "computing"} \/ Answered(p),
         NEW pc \in (Loops \ {"blocking"}) \cup {"dissolving"}, NEW part \in Partition,
         NEW next \in Nodes, AskAll(p, Waiting(pc, part, part.nodes, Nobody, next), inbox)
  PROVE  Requested(inbox', proc')
<1> DEFINE w == Waiting(pc, part, part.nodes, Nobody, next)
<1>1. p \in Procs /\ Nobody \in Clients /\ part.nodes \in Seq(Nodes)
  BY ProcsFacts DEF Plans, Partition
<1>2. w \in Waits /\ w.pc = pc
  BY <1>1, WaitingType DEF Waiting, Loops
<1>3. Free(inbox, proc, p)
  BY <1>1, RequestState, AnsweredIsFree
<1> HIDE DEF w
<1>4. AskAll(p, w, inbox)
  BY DEF w
<1> QED BY <1>1, <1>2, <1>3, <1>4, RequestState, AskAllRequested

LEMMA PlanMoveRequested ==
  ASSUME PromptState, NEW p \in Plans,
         proc[p].pc \in {"starting", "computing"} \/ Answered(p),
         NEW v, v.pc \in NotAsking, proc' = [proc EXCEPT ![p] = v], inbox' = inbox
  PROVE  Requested(inbox', proc')
<1>1. p \in Procs
  BY ProcsFacts DEF Plans
<1>2. Free(inbox, proc, p)
  BY <1>1, RequestState, AnsweredIsFree
<1>3. Asked(inbox, p, v)
  BY DEF Asked
<1> QED BY <1>1, <1>2, <1>3, RequestState, MoveRequested

LEMMA RestAsksNothing == Idle.pc \in NotAsking /\ Computing.pc \in NotAsking
  BY DEF Idle, Computing, NotAsking

LEMMA NoSolutionRequested ==
  ASSUME PromptState, NEW p \in Plans, proc[p].pc \in {"starting", "computing"}, NoSolution(p)
  PROVE  Requested(inbox', proc')
<1> DEFINE part == Changed(current[p[1]], "Growing")
<1>1. p \in Procs /\ p[1] \in Nodes /\ Booked(p[1])
  BY ProcsFacts DEF Plans, NoSolution
<1>2. part \in Partition
  BY <1>1, PromptFacts, PartitionIsBooked, ChangedFacts DEF PartTable, States
<1>3. ASSUME NEW f \in FirstOut(p[1]), UpdateAll(p, "growing", part, inbox, Nobody, f)
      PROVE  Requested(inbox', proc')
  <2>1. f \in Nodes /\ AskAll(p, Waiting("growing", part, part.nodes, Nobody, f), inbox)
    BY <1>3 DEF FirstOut, UpdateAll
  <2> HIDE DEF part
  <2> QED BY <1>2, <2>1, PlanLoopRequested DEF Loops
<1>4. CASE proc' = [proc EXCEPT ![p] = Idle] /\ inbox' = inbox
  BY <1>4, RestAsksNothing, PlanMoveRequested
<1> QED BY <1>3, <1>4 DEF NoSolution

LEMMA ComputesRequested ==
  ASSUME PromptState, NEW p \in Plans, Compute(p) \/ Computed(p)
  PROVE  Requested(inbox', proc')
<1>1. proc[p].pc \in {"starting", "computing"}
  BY DEF Compute, Computed, Starting, Computing
<1>2. CASE NoSolution(p)
  BY <1>1, <1>2, NoSolutionRequested
<1>3. CASE proc' = [proc EXCEPT ![p] = Computing] /\ inbox' = inbox
  BY <1>1, <1>3, RestAsksNothing, PlanMoveRequested
<1>4. CASE Booked(p[1]) /\ UpdateAll(p, "finishing", Changed(current[p[1]], "Finishing"),
                                     inbox, Nobody, p[1])
  <2> DEFINE part == Changed(current[p[1]], "Finishing")
  <2>1. p[1] \in Nodes /\ AskAll(p, Waiting("finishing", part, part.nodes, Nobody, p[1]), inbox)
    BY <1>4, ProcsFacts DEF Plans, UpdateAll
  <2>2. part \in Partition
    BY <1>4, <2>1, PromptFacts, PartitionIsBooked, ChangedFacts DEF PartTable, States
  <2> HIDE DEF part
  <2> QED BY <1>1, <2>1, <2>2, PlanLoopRequested DEF Loops
<1>5. NoSolution(p) \/ (proc' = [proc EXCEPT ![p] = Computing] /\ inbox' = inbox)
      \/ (Booked(p[1]) /\ UpdateAll(p, "finishing", Changed(current[p[1]], "Finishing"),
                                    inbox, Nobody, p[1]))
  BY DEF Compute, Computed
<1> QED BY <1>2, <1>3, <1>4, <1>5

LEMMA TransmitRequested ==
  ASSUME PromptState, NEW p \in Plans, Transmit(p)
  PROVE  Requested(inbox', proc')
<1> DEFINE f == proc[p].next
           r == Isp(current[p[1]], p)
           v == [proc[p] EXCEPT !.pc = "transmitting", !.asked = f, !.answer = "pending"]
<1>1. /\ p \in Procs /\ proc[p].pc = "growing" /\ Answered(p)
      /\ inbox' = Sent(inbox, f, r) /\ proc' = [proc EXCEPT ![p] = v]
  BY ProcsFacts DEF Transmit, Done, Plans
<1>2. proc[p] \in Waits /\ f \in Nodes
  BY <1>1, PromptFacts DEF Loops, Waits
<1>3. v.pc = "transmitting"
  BY <1>2 DEF Waits
<1>4. Free(inbox, proc, p)
  BY <1>1, RequestState, AnsweredIsFree
<1>5. r.type = "isp" /\ r.client = p
  BY DEF Isp
<1> HIDE DEF v, r, f
<1>6. GoodRequest([proc EXCEPT ![p] = v], r)
  BY <1>1, <1>3, <1>5, RequestState DEF GoodRequest, ProcTable
<1>7. Grows(inbox, inbox', r)
  BY <1>1, <1>2, RequestState, SentGrows
<1>8. Asked(inbox', p, v)
  BY <1>3 DEF Asked, NotAsking
<1> QED BY <1>1, <1>4, <1>6, <1>7, <1>8, RequestState, MoveRequested

LEMMA PlanRequested ==
  ASSUME PromptState, NEW p \in Plans, PlanStep(p)
  PROVE  Requested(inbox', proc')
<1>1. p \in Procs /\ p[1] \in Nodes
  BY ProcsFacts DEF Plans
<1>2. CASE Compute(p) \/ Computed(p)
  BY <1>2, ComputesRequested
<1>3. CASE AskNext(p)
  BY <1>1, <1>3, AskNextRequested
<1>4. CASE Transmit(p)
  BY <1>4, TransmitRequested
<1>5. ASSUME NEW pc \in {"finishing", "confirming"}, Done(p, pc), Booked(p[1]),
             NEW pc2 \in {"confirming", "dissolving"},
             AskAll(p, Waiting(pc2, current[p[1]], current[p[1]].nodes, Nobody, p[1]), inbox)
      PROVE  Requested(inbox', proc')
  <2>1. current[p[1]] \in Partition /\ Answered(p)
    BY <1>1, <1>5, PromptFacts, PartitionIsBooked DEF PartTable, Done
  <2> QED BY <1>1, <1>5, <2>1, PlanLoopRequested DEF Loops
<1>6. CASE Confirm(p)
  BY <1>5, <1>6 DEF Confirm, UpdateAll
<1>7. CASE DissolveOthers(p)
  BY <1>5, <1>7 DEF DissolveOthers
<1>8. CASE DissolveSelf(p) \/ EndPlan(p)
  <2>1. Answered(p) /\ proc' = [proc EXCEPT ![p] = Idle] /\ inbox' = inbox
    BY <1>8 DEF DissolveSelf, EndPlan, Done
  <2> QED BY <2>1, RestAsksNothing, PlanMoveRequested
<1>9. ~Fail(p)
  BY <1>1, NoneFails
<1> QED BY <1>2, <1>3, <1>4, <1>6, <1>7, <1>8, <1>9 DEF PlanStep

LEMMA MonitorRequested ==
  ASSUME PromptState, NEW n \in Nodes, OverloadingDetected(n) \/ CheckTimeout(n)
  PROVE  Requested(inbox', proc')
<1>1. ASSUME NEW m, Grows(inbox, inbox', m), m.client = Nobody, m.type \notin {"set", "valid"},
             proc' = proc
      PROVE  Requested(inbox', proc')
  BY <1>1, RequestState, AskedNodes, NobodysRequested
<1>2. CASE OverloadingDetected(n)
  <2>1. PICK id \in unused :
          inbox' \in IspSent(inbox, [id |-> id, leader |-> n, initiator |-> n, nodes |-> <<n>>,
                                     state |-> "Growing", version |-> 0])
    BY <1>2 DEF OverloadingDetected
  <2> DEFINE part == [id |-> id, leader |-> n, initiator |-> n, nodes |-> <<n>>,
                      state |-> "Growing", version |-> 0]
             m == Isp(part, Nobody)
  <2>2. proc' = proc
    BY <1>2 DEF OverloadingDetected
  <2>3. inbox' \in IspSent(inbox, part)
    BY <2>1
  <2> HIDE DEF part
  <2>4. CASE inbox' = inbox
    BY <2>2, <2>4, RequestState
  <2>5. ASSUME NEW f \in Nodes, inbox' = Sent(inbox, f, m)
        PROVE  Requested(inbox', proc')
    <3>1. m.client = Nobody /\ m.type = "isp"
      BY DEF Isp
    <3> HIDE DEF m
    <3>2. Grows(inbox, inbox', m)
      BY <2>5, RequestState, SentGrows
    <3> QED BY <1>1, <2>2, <3>1, <3>2
  <2> QED BY <2>3, <2>4, <2>5 DEF IspSent
<1>3. CASE CheckTimeout(n)
  <2> DEFINE part == current[n]
             m == Dissolution(part.id)
  <2>1. /\ inbox' = SentAll(inbox, part.nodes, Nodes \ {n}, m) /\ proc' = proc /\ Booked(n)
    BY <1>3 DEF CheckTimeout
  <2>2. part \in Partition
    BY <2>1, PromptFacts, PartitionIsBooked DEF PartTable
  <2>3. part.nodes \in Seq(Nodes) /\ m \in Message
    BY <2>2, MessageTypes, ProcsFacts DEF Partition
  <2>4. m.client = Nobody /\ m.type = "dissolve"
    BY DEF Dissolution
  <2> HIDE DEF m, part
  <2>5. Grows(inbox, inbox', m)
    BY <2>1, <2>3, RequestState, SentAllGrows
  <2> QED BY <1>1, <2>1, <2>4, <2>5
<1> QED BY <1>2, <1>3

LEMMA ServerRequested ==
  ASSUME PromptState, NEW n \in Nodes, ServerStep(n)
  PROVE  Requested(inbox', proc')
<1>1. Server(n) \in Procs
  BY ProcsFacts
<1>2. CASE IsStillValid(n) \/ Dissolve(n) \/ SetCurrentPartition(n)
  BY <1>2, ReplyRequested
<1>3. CASE IspWhenFree(n) \/ Join(n)
  BY <1>3, IspWhenFreeRequested, JoinRequested
<1>4. CASE Refuse(n) \/ EndBlocking(n) \/ \E k \in 1..MaxPlans : StartPlan(n, k)
  BY <1>4, ServerEndsRequested
<1>5. CASE IspBack(n) \/ NobodyOut(n) \/ \E f \in Nodes : Forward(n, f)
  BY <1>5, IspBackRequested, NobodyOutRequested, ForwardRequested
<1>6. CASE AskNext(Server(n))
  BY <1>1, <1>6, AskNextRequested
<1> QED BY <1>1, <1>2, <1>3, <1>4, <1>5, <1>6, BlockedNeverMeet, NoneFails DEF ServerStep

LEMMA RequestedNext ==
  ASSUME PromptState, [Next]_vars
  PROVE  Requested(inbox, proc)'
<1>1. CASE UNCHANGED vars
  BY <1>1, RequestState DEF vars
<1>2. ASSUME NEW n \in Nodes, ServerStep(n) \/ OverloadingDetected(n) \/ CheckTimeout(n)
      PROVE  Requested(inbox', proc')
  BY <1>2, ServerRequested, MonitorRequested
<1>3. ASSUME NEW p \in Plans, PlanStep(p)
      PROVE  Requested(inbox', proc')
  BY <1>3, PlanRequested
<1> QED BY <1>1, <1>2, <1>3 DEF Next, Plans

LEMMA ServerFollowed ==
  ASSUME PromptState, NEW n \in Nodes, ServerStep(n)
  PROVE  FollowedAll' /\ FreshAll' /\ OneAtATime
<1>1. Server(n) \in Procs
  BY ProcsFacts
<1>2. CASE IsStillValid(n) \/ Dissolve(n) \/ SetCurrentPartition(n)
  BY <1>2, IsStillValidFollowed, DissolveFollowed, SetFollowed
<1>3. CASE IspWhenFree(n) \/ Join(n)
  BY <1>3, IspWhenFreeFollowed, JoinFollowed
<1>4. CASE Refuse(n) \/ EndBlocking(n) \/ \E k \in 1..MaxPlans : StartPlan(n, k)
  BY <1>4, ServerEndsFollowed, StartPlanFollowed
<1>5. CASE IspBack(n) \/ NobodyOut(n) \/ \E f \in Nodes : Forward(n, f)
  BY <1>5, IspBackFollowed, NobodyOutFollowed, ForwardFollowed
<1>6. CASE AskNext(Server(n))
  BY <1>1, <1>6, AskNextFollowed
<1> QED BY <1>1, <1>2, <1>3, <1>4, <1>5, <1>6, BlockedNeverMeet, NoneFails DEF ServerStep

LEMMA PlanFollowed ==
  ASSUME PromptState, NEW p \in Procs, PlanStep(p)
  PROVE  FollowedAll' /\ FreshAll' /\ OneAtATime
<1>1. CASE Compute(p) \/ Computed(p) \/ Transmit(p) \/ AskNext(p)
  BY <1>1, ComputeFollowed, ComputedFollowed, TransmitFollowed, AskNextFollowed
<1>2. CASE Confirm(p) \/ DissolveOthers(p) \/ DissolveSelf(p) \/ EndPlan(p)
  BY <1>2, ConfirmFollowed, DissolveOthersFollowed, DissolveSelfFollowed, EndPlanFollowed
<1> QED BY <1>1, <1>2, NoneFails DEF PlanStep

LEMMA FollowedNext ==
  ASSUME PromptState, Prompt, [Next]_vars
  PROVE  FollowedAll' /\ FreshAll' /\ OneAtATime
<1>1. CASE UNCHANGED vars
  BY <1>1, SameMailFacts, NothingFollowed DEF vars, SameHolder
<1>2. ASSUME NEW n \in Nodes, ServerStep(n) \/ OverloadingDetected(n) \/ CheckTimeout(n)
      PROVE  FollowedAll' /\ FreshAll' /\ OneAtATime
  BY <1>2, ServerFollowed, OverloadingFollowed, TimeoutFollowed
<1>3. ASSUME NEW p \in Nodes \X (1..MaxPlans), PlanStep(p)
      PROVE  FollowedAll' /\ FreshAll' /\ OneAtATime
  BY <1>3, ProcsFacts, PlanFollowed
<1> QED BY <1>1, <1>2, <1>3 DEF Next

-----------------------------------------------------------------------------
(* The processes, and the nodes they hold.                                   *)

ServerPcs == {"idle", "validating", "joining", "blocking"}
PlanPcs == {"idle", "starting", "computing", "growing", "transmitting", "finishing",
            "confirming", "dissolving"}

(* Of the processes of a node one at most uses its partition. *)
LEMMA AloneOnNode ==
  ASSUME PromptState, NEW p \in Procs, NEW q \in Procs, p[1] = q[1],
         proc[p].pc \in Uses, proc[q].pc \in Uses
  PROVE  p = q
<1>1. /\ current[p[1]].id \in Ids
      /\ Holds(proc, current, p, current[p[1]].id) /\ Holds(proc, current, q, current[p[1]].id)
  BY PromptFacts
<1> QED BY <1>1, HoldOf DEF PromptState, PromptInv

LEMMA KindsStep ==
  ASSUME PromptState, NEW P \in SUBSET Procs,
         \A q \in Procs \ P : /\ proc'[q].pc = proc[q].pc
                              /\ proc[q].pc \in Uses => current'[q[1]] = current[q[1]],
         \A p \in P : /\ p \in Plans => proc'[p].pc \in PlanPcs
                      /\ p \notin Plans => proc'[p].pc \in ServerPcs
                      /\ proc'[p].pc \in Uses => Booked(p[1])',
         \/ /\ snoozed' = snoozed
            /\ \A p \in P : proc[p].pc # "computing" /\ proc'[p].pc # "computing"
         \/ \E p \in Plans :
              /\ P = {p} /\ proc[p].pc \in Uses
              /\ \/ /\ proc'[p].pc = "computing"
                    /\ snoozed' = [snoozed EXCEPT ![p[1]] = Range(current'[p[1]].nodes)]
                 \/ /\ proc'[p].pc # "computing"
                    /\ snoozed' = [snoozed EXCEPT ![p[1]] = {}]
  PROVE  Kinds' /\ Planned'
<1>1. /\ \A n \in Nodes : Server(n) \in Procs /\ Server(n) \notin Plans
      /\ \A p \in Plans : p \in Procs /\ p[1] \in Nodes
      /\ snoozed \in [Nodes -> SUBSET Nodes]
  BY ProcsFacts, ServerIsNoPlan DEF Plans, PromptState, TypeOK
<1>2. Kinds
  BY DEF PromptState, PromptInv
<1>3. \A n \in Nodes : proc'[Server(n)].pc \in ServerPcs
  BY <1>1, <1>2 DEF Kinds, ServerPcs
<1>4. \A p \in Plans : proc'[p].pc \in PlanPcs
  BY <1>1, <1>2 DEF Kinds, PlanPcs
<1>5. \A p \in Procs : proc'[p].pc \in Uses => Booked(p[1])'
  BY <1>2 DEF Kinds, Booked
<1>6. Kinds'
  BY <1>3, <1>4, <1>5 DEF Kinds, ServerPcs, PlanPcs
<1>7. /\ \A p \in Plans : proc[p].pc = "computing" => snoozed[p[1]] = Range(current[p[1]].nodes)
      /\ \A n \in Nodes : snoozed[n] # {} => \E p \in Plans : p[1] = n /\ proc[p].pc = "computing"
  BY DEF PromptState, PromptInv, Planned
<1>8. CASE /\ snoozed' = snoozed
           /\ \A p \in P : proc[p].pc # "computing" /\ proc'[p].pc # "computing"
  <2>1. \A p \in Plans : /\ proc'[p].pc = "computing" <=> proc[p].pc = "computing"
                         /\ proc[p].pc = "computing" => current'[p[1]] = current[p[1]]
    BY <1>1, <1>8 DEF Uses
  <2> QED BY <1>6, <1>7, <1>8, <2>1 DEF Planned
<1>9. ASSUME NEW p \in Plans, P = {p}, proc[p].pc \in Uses,
             \/ /\ proc'[p].pc = "computing"
                /\ snoozed' = [snoozed EXCEPT ![p[1]] = Range(current'[p[1]].nodes)]
             \/ /\ proc'[p].pc # "computing"
                /\ snoozed' = [snoozed EXCEPT ![p[1]] = {}]
      PROVE  Planned'
  <2>1. \A q \in Plans : q # p =>
          /\ proc'[q].pc = "computing" <=> proc[q].pc = "computing"
          /\ proc[q].pc = "computing" => current'[q[1]] = current[q[1]] /\ q[1] # p[1]
    BY <1>1, <1>9, AloneOnNode DEF Uses
  <2>2. \A n \in Nodes : n # p[1] => snoozed'[n] = snoozed[n]
    BY <1>1, <1>9
  <2>3. snoozed'[p[1]] = IF proc'[p].pc = "computing" THEN Range(current'[p[1]].nodes) ELSE {}
    BY <1>1, <1>9
  <2>4. ASSUME NEW q \in Plans, proc'[q].pc = "computing"
        PROVE  snoozed'[q[1]] = Range(current'[q[1]].nodes)
    BY <1>1, <1>7, <2>1, <2>2, <2>3, <2>4
  <2>5. ASSUME NEW n \in Nodes, snoozed'[n] # {}
        PROVE  \E q \in Plans : q[1] = n /\ proc'[q].pc = "computing"
    <3>1. CASE n = p[1]
      BY <2>3, <2>5, <3>1
    <3>2. CASE n # p[1]
      <4>1. PICK q \in Plans : q[1] = n /\ proc[q].pc = "computing"
        BY <1>7, <2>2, <2>5, <3>2
      <4> QED BY <2>1, <3>2, <4>1
    <3> QED BY <3>1, <3>2
  <2> QED BY <2>4, <2>5 DEF Planned
<1> QED BY <1>6, <1>8, <1>9

(* A message that dissolves or sets the partition of a node comes from the   *)
(* holder of it, if it has one, on another node.                             *)
LEMMA MessagesLeaveHolders ==
  ASSUME PromptState, NEW n \in Nodes, Dissolve(n) \/ SetCurrentPartition(n),
         NEW q \in Procs, q[1] = n, proc[q].pc \in Uses
  PROVE  current' = current
<1> DEFINE m == Head(inbox[n])
           c == m.client
           y == current[n].id
<1>1. y \in Ids /\ Holds(proc, current, q, y) /\ Booked(n)
  BY PromptFacts
<1>2. \A p \in Procs : Holds(proc, current, p, y) => p = q
  BY <1>1, HoldOf DEF PromptState, PromptInv
<1>3. Lasting(inbox, y)
  BY <1>1, HoldOf DEF PromptState, PromptInv
<1>4. ASSUME c # Nobody, proc[c].pc \in Loops \cup {"dissolving"}, proc[c].part.id = y,
             Asks(proc[c], n), c \in Procs
      PROVE  FALSE
  <2>1. /\ proc[c].part = current[c[1]] /\ Holds(proc, current, c, current[c[1]].id)
        /\ HeldBy(current, c, proc[c])
    BY <1>4, PromptFacts DEF Uses
  <2>2. c = q
    BY <1>2, <1>4, <2>1
  <2> QED BY <1>4, <2>1, <2>2 DEF HeldBy, AsksOthers, Asks
<1>5. CASE Dissolve(n)
  <2>1. /\ m.type = "dissolve" /\ m \in Message /\ inbox[n] # <<>> /\ inbox \in Box
        /\ c # Nobody => c \in Procs /\ Asks(proc[c], n)
        /\ GoodRequest(proc, m)
    BY <1>5, MessageFacts, PromptFacts DEF Dissolve
  <2>2. m = [type |-> "dissolve", id |-> m.id, client |-> c]
    BY <2>1 DEF Message
  <2>3. current' = Dissolved(n, m.id)
    BY <1>5 DEF Dissolve
  <2>4. m.id # y
    <3> SUFFICES ASSUME m.id = y PROVE FALSE
      OBVIOUS
    <3>1. CASE c = Nobody
      <4>1. m = Dissolution(y)
        BY <2>2, <3>1 DEF Dissolution
      <4> QED BY <1>3, <2>1, <4>1, TakenMail DEF Lasting
    <3>2. CASE c # Nobody
      <4>1. proc[c].pc \notin NotAsking /\ m = Wanted(c, proc[c])
        BY <2>1, <3>2 DEF GoodRequest
      <4>2. proc[c].pc = "dissolving" /\ proc[c].part.id = y
        BY <2>1, <4>1 DEF Wanted, Request
      <4> QED BY <1>4, <2>1, <3>2, <4>2
    <3> QED BY <3>1, <3>2
  <2> QED BY <2>3, <2>4 DEF Dissolved
<1>6. CASE SetCurrentPartition(n)
  <2>1. /\ m.type = "set" /\ c # Nobody /\ c \in Procs /\ Asks(proc[c], n) /\ GoodRequest(proc, m)
    BY <1>6, MessageFacts DEF SetCurrentPartition, GoodRequest
  <2>2. m = Wanted(c, proc[c]) /\ proc[c].pc \notin NotAsking
    BY <2>1 DEF GoodRequest
  <2>3. m.part = proc[c].part /\ proc[c].pc \notin {"dissolving", "validating"}
    BY <2>1, <2>2 DEF Wanted, Request
  <2>4. proc[c].pc \in Loops
    BY <2>1, <2>2, <2>3, PcOf DEF NotAsking
  <2>5. m.part.id # y
    BY <1>4, <2>1, <2>3, <2>4
  <2>6. current' = Updated(n, m.part)
    BY <1>6 DEF SetCurrentPartition
  <2> QED BY <1>1, <2>5, <2>6 DEF Updated
<1> QED BY <1>5, <1>6

LEMMA MessagesKinds ==
  ASSUME PromptState, NEW n \in Nodes,
         \/ IsStillValid(n) \/ Dissolve(n) \/ SetCurrentPartition(n)
         \/ NobodyOut(n) \/ \E f \in Nodes : Forward(n, f)
  PROVE  Kinds' /\ Planned'
<1> DEFINE c == Head(inbox[n]).client
<1>1. c \in Clients /\ proc \in ProcTable
  BY MessageFacts, PromptFacts
     DEF IsStillValid, Dissolve, SetCurrentPartition, NobodyOut, Forward
<1>2. /\ proc' = proc \/ proc' = Replied(proc, c, "yes") \/ proc' = Replied(proc, c, "no")
      /\ snoozed' = snoozed
  BY DEF IsStillValid, Dissolve, SetCurrentPartition, NobodyOut, Forward
<1> HIDE DEF c
<1>3. \A q \in Procs : proc'[q].pc = proc[q].pc
  BY <1>1, <1>2, ReplyKeepsPc
<1>4. \A q \in Procs : proc[q].pc \in Uses => current'[q[1]] = current[q[1]]
  <2>1. CASE IsStillValid(n) \/ NobodyOut(n) \/ \E f \in Nodes : Forward(n, f)
    <3>1. current' = current
      BY <2>1 DEF IsStillValid, NobodyOut, Forward
    <3> QED BY <3>1
  <2>2. CASE Dissolve(n) \/ SetCurrentPartition(n)
    <3>1. \A k \in Nodes \ {n} : current'[k] = current[k]
      BY <2>2, PromptFacts
         DEF Dissolve, SetCurrentPartition, Dissolved, Updated, PartTable
    <3> QED BY <2>2, <3>1, ProcsFacts, MessagesLeaveHolders
  <2> QED BY <2>1, <2>2
<1>5. {} \in SUBSET Procs
  OBVIOUS
<1> QED BY <1>2, <1>3, <1>4, <1>5, KindsStep

LEMMA OneMovesKinds ==
  ASSUME PromptState, NEW p \in Procs,
         \A q \in Procs \ {p} : /\ proc'[q].pc = proc[q].pc
                                /\ proc[q].pc \in Uses => current'[q[1]] = current[q[1]],
         p \in Plans => proc'[p].pc \in PlanPcs, p \notin Plans => proc'[p].pc \in ServerPcs,
         proc'[p].pc \in Uses => Booked(p[1])',
         snoozed' = snoozed, proc[p].pc # "computing", proc'[p].pc # "computing"
  PROVE  Kinds' /\ Planned'
<1>1. {p} \in SUBSET Procs
  OBVIOUS
<1> QED BY <1>1, KindsStep

LEMMA UpdateKinds ==
  ASSUME PromptState, NEW p \in Procs, NEW pc \in Loops, NEW part \in Partition,
         NEW client \in Clients, NEW next \in Nodes, NEW box \in Box,
         UpdateAll(p, pc, part, box, client, next),
         \A q \in Procs \ {p} : q[1] = p[1] => proc[q].pc \notin Uses
  PROVE  /\ \A q \in Procs \ {p} : /\ proc'[q].pc = proc[q].pc
                                   /\ proc[q].pc \in Uses => current'[q[1]] = current[q[1]]
         /\ proc'[p].pc = pc /\ Booked(p[1])'
<1>1. proc \in ProcTable /\ current \in PartTable /\ \A q \in Procs : q[1] \in Nodes
  BY PromptFacts
<1>2. /\ proc'[p].pc = pc /\ \A q \in Procs \ {p} : proc'[q] = proc[q]
      /\ current' = [current EXCEPT ![p[1]] = part]
  BY <1>1, UpdateAllFrame DEF PartTable, Loops
<1> QED BY <1>1, <1>2, NoPartitionIsNone DEF PartTable, Booked

LEMMA ServerLoopsKinds ==
  ASSUME PromptState, NEW n \in Nodes, Join(n) \/ IspBack(n) \/ IspWhenFree(n)
  PROVE  Kinds' /\ Planned'
<1> DEFINE p == Server(n)
<1>1. /\ p \in Procs /\ p[1] = n /\ p \notin Plans /\ snoozed' = snoozed
      /\ proc[p].pc # "computing" /\ inbox \in Box
  BY ProcsFacts, ServerIsNoPlan, PromptFacts
     DEF Server, Join, IspBack, IspWhenFree, PromptState, PromptInv, Kinds
<1>2. CASE Join(n)
  <2> DEFINE part == Joined(n, proc[p].part)
             c == proc[p].client
  <2>1. proc[p].pc = "validating" /\ UpdateAll(p, "joining", part, inbox, c, n)
    BY <1>2 DEF Join
  <2>2. part \in Partition /\ c \in Clients
    BY <1>1, <2>1, PromptFacts, JoinedFacts DEF Waits
  <2>3. \A q \in Procs \ {p} : q[1] = n => proc[q].pc \notin Uses
    <3>1. ~Booked(n)
      BY <2>1 DEF PromptState, ValidatingIsFree
    <3> QED BY <3>1 DEF PromptState, PromptInv, Kinds
  <2> HIDE DEF p, part, c
  <2> QED BY <1>1, <2>1, <2>2, <2>3, UpdateKinds, OneMovesKinds DEF Loops, ServerPcs
<1>3. CASE IspBack(n)
  <2> DEFINE m == Head(inbox[n])
             part == Changed(current[n], "Blocked")
             c == m.client
  <2>1. UpdateAll(p, "blocking", part, Taken(n), c, n) /\ Booked(n) /\ m.part.initiator = n
    BY <1>3 DEF IspBack
  <2>2. /\ c \in Clients /\ Taken(n) \in Box /\ Whole(current, m.part)
        /\ m.part.initiator \in Range(m.part.nodes) /\ Vacant(proc, current, m.part.id)
    BY <1>3, IspFacts DEF IspBack
  <2>3. part \in Partition
    BY <2>1, PromptFacts, PartitionIsBooked, ChangedFacts DEF PartTable, States
  <2>4. \A q \in Procs \ {p} : q[1] = n => proc[q].pc \notin Uses
    <3>1. current[n] = m.part
      BY <2>1, <2>2 DEF Whole
    <3>2. In(current, n, m.part.id)
      BY <2>1, <3>1 DEF In, Booked
    <3> QED BY <2>2, <3>2 DEF Vacant, Holds
  <2> HIDE DEF p, part, c
  <2> QED BY <1>1, <2>1, <2>2, <2>3, <2>4, UpdateKinds, OneMovesKinds DEF Loops, ServerPcs
<1>4. CASE IspWhenFree(n)
  <2> DEFINE m == Head(inbox[n])
             v == [Waiting("validating", m.part, <<>>, m.client, m.part.initiator)
                     EXCEPT !.answer = "pending"]
  <2>1. proc' = [proc EXCEPT ![p] = v] /\ current' = current
    BY <1>4 DEF IspWhenFree
  <2>2. v.pc = "validating"
    BY DEF Waiting
  <2> HIDE DEF v, p
  <2>3. proc'[p] = v /\ \A q \in Procs \ {p} : proc'[q] = proc[q]
    BY <1>1, <2>1, MoveAlone
  <2> QED BY <1>1, <2>1, <2>2, <2>3, OneMovesKinds DEF ServerPcs, Uses, Loops
<1> QED BY <1>2, <1>3, <1>4

LEMMA ServerEndsKinds ==
  ASSUME PromptState, NEW n \in Nodes,
         Refuse(n) \/ EndBlocking(n) \/ \E k \in 1..MaxPlans : StartPlan(n, k)
  PROVE  Kinds' /\ Planned'
<1> DEFINE p == Server(n)
           c == proc[p].client
           idle == [proc EXCEPT ![p] = Idle]
<1>1. /\ p \in Procs /\ p # Nobody /\ p \notin Plans /\ p[1] = n /\ snoozed' = snoozed
      /\ current' = current /\ proc[p] # Idle /\ proc[p].pc # "computing" /\ proc \in ProcTable
  <2>1. p \in Procs /\ p # Nobody /\ p \notin Plans /\ p[1] = n /\ proc \in ProcTable
    BY ProcsFacts, ServerIsNoPlan, PromptFacts DEF Server, Nobody
  <2>2. /\ proc[p].pc \in {"validating", "blocking", "joining"}
        /\ snoozed' = snoozed /\ current' = current
    BY DEF Refuse, EndBlocking, StartPlan, Done
  <2> QED BY <2>1, <2>2 DEF Idle
<1>2. c \in Clients /\ c # p
  BY <1>1, ClientFacts
<1>3. idle \in ProcTable /\ idle[p] = Idle /\ \A q \in Procs \ {p} : idle[q] = proc[q]
  BY <1>1, IdleTypes, SetProcType DEF ProcTable
<1> HIDE DEF c
<1>4. CASE Refuse(n) \/ EndBlocking(n)
  <2>1. proc' = Replied(idle, c, "yes")
    BY <1>4 DEF Refuse, EndBlocking, c
  <2> HIDE DEF idle, p
  <2>2. \A q \in Procs : proc'[q].pc = idle[q].pc
    BY <1>2, <1>3, <2>1, ReplyKeepsPc
  <2>3. proc'[p].pc = "idle" /\ \A q \in Procs \ {p} : proc'[q].pc = proc[q].pc
    BY <1>1, <1>3, <2>2 DEF Idle
  <2> QED BY <1>1, <2>3, OneMovesKinds DEF ServerPcs, Uses, Loops
<1>5. ASSUME NEW k \in 1..MaxPlans, StartPlan(n, k)
      PROVE  Kinds' /\ Planned'
  <2> DEFINE s == <<n, k>>
             procs == [idle EXCEPT ![s] = Starting]
  <2>1. s \in Procs /\ s # p /\ s \in Plans /\ s[1] = n
    BY ProcsFacts DEF Plans
  <2>2. [proc EXCEPT ![p] = Idle, ![s] = Starting] = procs
    OBVIOUS
  <2>3. proc[s] = Idle /\ proc' = Replied(procs, c, "yes") /\ Done(p, "joining")
    BY <1>5, <2>2 DEF StartPlan, c
  <2>4. Booked(n)
    BY <1>1, <2>3, PromptFacts DEF Done, Uses, Loops
  <2> HIDE DEF s, p, idle
  <2>5. /\ procs \in ProcTable /\ procs[s] = Starting
        /\ \A q \in Procs \ {s} : procs[q] = idle[q]
    BY <1>3, <2>1, IdleTypes, SetProcType DEF ProcTable
  <2> HIDE DEF procs
  <2>6. \A q \in Procs : proc'[q].pc = procs[q].pc
    BY <1>2, <2>3, <2>5, ReplyKeepsPc
  <2>7. /\ proc'[p].pc = "idle" /\ proc'[s].pc = "starting" /\ proc[s].pc = "idle"
        /\ \A q \in Procs \ {p, s} : proc'[q].pc = proc[q].pc
    BY <1>1, <1>3, <2>1, <2>3, <2>5, <2>6 DEF Idle, Starting
  <2>8. {p, s} \in SUBSET Procs /\ Booked(n)'
    BY <1>1, <2>1, <2>4 DEF Booked
  <2> QED BY <1>1, <2>1, <2>7, <2>8, KindsStep DEF ServerPcs, PlanPcs, Uses, Loops
<1> QED BY <1>4, <1>5

LEMMA AskNextKinds ==
  ASSUME PromptState, NEW p \in Procs, AskNext(p)
  PROVE  Kinds' /\ Planned'
<1>1. /\ proc[p] \in Waits /\ AskAll(p, proc[p], inbox) /\ inbox \in Box /\ proc \in ProcTable
  BY AskNextFacts, PromptFacts
<1>2. \A q \in Procs : proc'[q].pc = proc[q].pc
  BY <1>1, AskAllFrame
<1>3. current' = current /\ snoozed' = snoozed /\ {} \in SUBSET Procs
  BY DEF AskNext
<1> QED BY <1>2, <1>3, KindsStep

LEMMA AloneInUse ==
  ASSUME PromptState, NEW p \in Procs, proc[p].pc \in Uses
  PROVE  \A q \in Procs \ {p} : q[1] = p[1] => proc[q].pc \notin Uses
  BY AloneOnNode

LEMMA ComputesKinds ==
  ASSUME PromptState, NEW p \in Plans, Compute(p) \/ Computed(p)
  PROVE  Kinds' /\ Planned'
<1> DEFINE own == current[p[1]]
<1>1. /\ p \in Procs /\ p[1] \in Nodes /\ {p} \in SUBSET Procs /\ inbox \in Box
      /\ proc[p].pc \in {"starting", "computing"} /\ proc[p].pc \in Uses
      /\ Booked(p[1]) /\ own \in Partition /\ Nobody \in Clients
      /\ Compute(p) => proc[p].pc = "starting"
  <2>1. p \in Procs /\ Nobody \in Clients
    BY ProcsFacts DEF Plans
  <2>2. proc[p].pc \in {"starting", "computing"} /\ (Compute(p) => proc[p].pc = "starting")
    BY DEF Compute, Computed, Starting, Computing
  <2> QED BY <2>1, <2>2, PromptFacts DEF Uses
<1>2. \A q \in Procs \ {p} : q[1] = p[1] => proc[q].pc \notin Uses
  BY <1>1, AloneInUse
<1>3. ASSUME NEW pc \in {"growing", "finishing"}, NEW state \in States, NEW f \in Nodes,
             UpdateAll(p, pc, Changed(own, state), inbox, Nobody, f)
      PROVE  /\ \A q \in Procs \ {p} : /\ proc'[q].pc = proc[q].pc
                                       /\ proc[q].pc \in Uses => current'[q[1]] = current[q[1]]
             /\ proc'[p].pc \in PlanPcs /\ proc'[p].pc # "computing" /\ Booked(p[1])'
  <2> DEFINE part == Changed(own, state)
  <2>1. part \in Partition /\ pc \in Loops /\ UpdateAll(p, pc, part, inbox, Nobody, f)
    BY <1>1, <1>3, ChangedFacts DEF Loops
  <2> HIDE DEF part
  <2>2. /\ \A q \in Procs \ {p} : /\ proc'[q].pc = proc[q].pc
                                  /\ proc[q].pc \in Uses => current'[q[1]] = current[q[1]]
        /\ proc'[p].pc = pc /\ Booked(p[1])'
    BY <1>1, <1>2, <2>1, UpdateKinds
  <2> QED BY <1>3, <2>2 DEF PlanPcs
<1>4. ASSUME NEW v \in {Idle, Computing}, proc' = [proc EXCEPT ![p] = v], current' = current
      PROVE  /\ \A q \in Procs \ {p} : /\ proc'[q].pc = proc[q].pc
                                       /\ proc[q].pc \in Uses => current'[q[1]] = current[q[1]]
             /\ proc'[p] = v /\ proc'[p].pc \in PlanPcs /\ Booked(p[1])'
  <2>1. proc'[p] = v /\ \A q \in Procs \ {p} : proc'[q] = proc[q]
    BY <1>1, <1>4, MoveAlone
  <2> QED BY <1>1, <1>4, <2>1 DEF Idle, Computing, PlanPcs, Booked
<1>5. ASSUME NoSolution(p)
      PROVE  /\ \A q \in Procs \ {p} : /\ proc'[q].pc = proc[q].pc
                                       /\ proc[q].pc \in Uses => current'[q[1]] = current[q[1]]
             /\ proc'[p].pc \in PlanPcs /\ proc'[p].pc # "computing" /\ Booked(p[1])'
  <2>1. CASE \E f \in FirstOut(p[1]) :
               UpdateAll(p, "growing", Changed(own, "Growing"), inbox, Nobody, f)
    BY <1>3, <2>1 DEF FirstOut, States
  <2>2. CASE proc' = [proc EXCEPT ![p] = Idle] /\ UNCHANGED <<current, inbox>>
    <3>1. Idle.pc # "computing"
      BY DEF Idle
    <3> QED BY <1>4, <2>2, <3>1
  <2> QED BY <1>5, <2>1, <2>2 DEF NoSolution
<1>6. CASE Compute(p)
  <2>1. CASE NoSolution(p) /\ snoozed' = snoozed
    <3>1. proc[p].pc # "computing"
      BY <1>1, <1>6
    <3> QED BY <1>1, <1>5, <2>1, <3>1, OneMovesKinds
  <2>2. CASE /\ proc' = [proc EXCEPT ![p] = Computing] /\ current' = current
             /\ snoozed' = [snoozed EXCEPT ![p[1]] = Range(own.nodes)]
    <3>1. Computing.pc = "computing"
      BY DEF Computing
    <3> QED BY <1>1, <1>4, <2>2, <3>1, KindsStep
  <2> QED BY <1>6, <2>1, <2>2 DEF Compute
<1>7. CASE Computed(p)
  <2>1. /\ \A q \in Procs \ {p} : /\ proc'[q].pc = proc[q].pc
                                  /\ proc[q].pc \in Uses => current'[q[1]] = current[q[1]]
        /\ proc'[p].pc \in PlanPcs /\ proc'[p].pc # "computing" /\ Booked(p[1])'
    BY <1>1, <1>3, <1>5, <1>7 DEF Computed, States
  <2>2. snoozed' = [snoozed EXCEPT ![p[1]] = {}]
    BY <1>7 DEF Computed
  <2> QED BY <1>1, <2>1, <2>2, KindsStep
<1> QED BY <1>6, <1>7

LEMMA PlanKinds ==
  ASSUME PromptState, NEW p \in Plans, PlanStep(p)
  PROVE  Kinds' /\ Planned'
<1> DEFINE own == current[p[1]]
<1>1. /\ p \in Procs /\ p[1] \in Nodes /\ inbox \in Box /\ proc \in ProcTable
      /\ current \in PartTable /\ Nobody \in Clients
  BY ProcsFacts, PromptFacts DEF Plans
<1>2. CASE Compute(p) \/ Computed(p)
  BY <1>2, ComputesKinds
<1>3. CASE AskNext(p)
  BY <1>1, <1>3, AskNextKinds
<1>4. CASE Transmit(p)
  <2> DEFINE v == [proc[p] EXCEPT !.pc = "transmitting", !.asked = proc[p].next,
                                  !.answer = "pending"]
  <2>1. /\ proc[p].pc = "growing" /\ proc' = [proc EXCEPT ![p] = v] /\ current' = current
        /\ snoozed' = snoozed
    BY <1>4 DEF Transmit, Done
  <2>2. v.pc = "transmitting"
    BY <1>1, <2>1, PromptFacts DEF Loops, Waits
  <2> HIDE DEF v
  <2>3. proc'[p] = v /\ \A q \in Procs \ {p} : proc'[q] = proc[q]
    BY <1>1, <2>1, MoveAlone
  <2> QED BY <1>1, <2>1, <2>2, <2>3, OneMovesKinds DEF PlanPcs, Uses, Loops
<1>5. CASE Confirm(p)
  <2>1. /\ UpdateAll(p, "confirming", own, inbox, Nobody, p[1]) /\ Booked(p[1])
        /\ proc[p].pc = "finishing" /\ snoozed' = snoozed
    BY <1>5 DEF Confirm, Done
  <2>2. own \in Partition /\ proc[p].pc \in Uses /\ "confirming" \in Loops
    BY <1>1, <2>1, PartitionIsBooked DEF PartTable, Uses, Loops
  <2>3. \A q \in Procs \ {p} : q[1] = p[1] => proc[q].pc \notin Uses
    BY <1>1, <2>2, AloneInUse
  <2> HIDE DEF own
  <2>4. /\ \A q \in Procs \ {p} : /\ proc'[q].pc = proc[q].pc
                                  /\ proc[q].pc \in Uses => current'[q[1]] = current[q[1]]
        /\ proc'[p].pc = "confirming" /\ Booked(p[1])'
    BY <1>1, <2>1, <2>2, <2>3, UpdateKinds
  <2> QED BY <1>1, <2>1, <2>4, OneMovesKinds DEF PlanPcs
<1>6. CASE DissolveOthers(p)
  <2> DEFINE w == Waiting("dissolving", own, own.nodes, Nobody, p[1])
  <2>1. /\ AskAll(p, w, inbox) /\ Booked(p[1]) /\ proc[p].pc = "confirming"
        /\ snoozed' = snoozed /\ current' = current
    BY <1>6 DEF DissolveOthers, Done
  <2>2. own \in Partition /\ own.nodes \in Seq(Nodes)
    BY <1>1, <2>1, PartitionIsBooked DEF PartTable, Partition
  <2>3. w \in Waits /\ w.pc = "dissolving"
    BY <1>1, <2>2, WaitingType DEF Waiting
  <2> HIDE DEF w
  <2>4. proc'[p].pc = "dissolving" /\ \A q \in Procs \ {p} : proc'[q] = proc[q]
    BY <1>1, <2>1, <2>3, AskAllFrame
  <2>5. Booked(p[1])'
    BY <2>1 DEF Booked
  <2> QED BY <1>1, <2>1, <2>4, <2>5, OneMovesKinds DEF PlanPcs
<1>7. CASE DissolveSelf(p) \/ EndPlan(p)
  <2>1. /\ proc' = [proc EXCEPT ![p] = Idle] /\ snoozed' = snoozed
        /\ proc[p].pc \in {"dissolving", "transmitting"}
    BY <1>7 DEF DissolveSelf, EndPlan, Done
  <2>2. proc'[p].pc = "idle" /\ \A q \in Procs \ {p} : proc'[q] = proc[q]
    <3>1. proc'[p] = Idle /\ \A q \in Procs \ {p} : proc'[q] = proc[q]
      BY <1>1, <2>1, MoveAlone
    <3> QED BY <3>1 DEF Idle
  <2>3. \A q \in Procs \ {p} : proc[q].pc \in Uses => current'[q[1]] = current[q[1]]
    <3>1. CASE EndPlan(p)
      BY <3>1 DEF EndPlan
    <3>2. CASE DissolveSelf(p)
      <4>1. proc[p].pc \in Uses /\ current' = [current EXCEPT ![p[1]] = NoPartition]
        BY <3>2 DEF DissolveSelf, Done, Uses
      <4>2. \A q \in Procs \ {p} : q[1] = p[1] => proc[q].pc \notin Uses
        BY <1>1, <4>1, AloneInUse
      <4> QED BY <1>1, <4>1, <4>2, ProcsFacts DEF PartTable
    <3> QED BY <1>7, <3>1, <3>2
  <2> QED BY <1>1, <2>1, <2>2, <2>3, OneMovesKinds DEF PlanPcs, Uses, Loops
<1>8. ~Fail(p)
  BY <1>1, NoneFails
<1> QED BY <1>2, <1>3, <1>4, <1>5, <1>6, <1>7, <1>8 DEF PlanStep

LEMMA MonitorKinds ==
  ASSUME PromptState, Prompt, NEW n \in Nodes, OverloadingDetected(n) \/ CheckTimeout(n)
  PROVE  Kinds' /\ Planned'
<1>1. /\ current \in PartTable /\ {} \in SUBSET Procs /\ \A q \in Procs : q[1] \in Nodes
      /\ proc' = proc /\ snoozed' = snoozed
  BY PromptFacts DEF OverloadingDetected, CheckTimeout
<1>2. \A k \in Nodes \ {n} : current'[k] = current[k]
  BY <1>1 DEF OverloadingDetected, CheckTimeout, PartTable
<1>3. \A q \in Procs : q[1] = n => proc[q].pc \notin Uses
  <2>1. CASE OverloadingDetected(n)
    BY <2>1 DEF OverloadingDetected, PromptState, PromptInv, Kinds
  <2>2. CASE CheckTimeout(n)
    <3>1. In(current, n, current[n].id) /\ Vacant(proc, current, current[n].id)
      BY <2>2, TimeoutIsLoose DEF Loose
    <3> QED BY <3>1 DEF Vacant, Holds
  <2> QED BY <2>1, <2>2
<1> QED BY <1>1, <1>2, <1>3, KindsStep

LEMMA KindsNext ==
  ASSUME PromptState, Prompt, [Next]_vars
  PROVE  Kinds' /\ Planned'
<1>1. CASE UNCHANGED vars
  BY <1>1 DEF vars, PromptState, PromptInv, Kinds, Planned, Booked
<1>2. ASSUME NEW n \in Nodes, ServerStep(n)
      PROVE  Kinds' /\ Planned'
  <2>1. Server(n) \in Procs
    BY ProcsFacts
  <2>2. CASE \/ IsStillValid(n) \/ Dissolve(n) \/ SetCurrentPartition(n)
             \/ NobodyOut(n) \/ \E f \in Nodes : Forward(n, f)
    BY <2>2, MessagesKinds
  <2>3. CASE Join(n) \/ IspBack(n) \/ IspWhenFree(n)
    BY <2>3, ServerLoopsKinds
  <2>4. CASE Refuse(n) \/ EndBlocking(n) \/ \E k \in 1..MaxPlans : StartPlan(n, k)
    BY <2>4, ServerEndsKinds
  <2>5. CASE AskNext(Server(n))
    BY <2>1, <2>5, AskNextKinds
  <2> QED BY <1>2, <2>1, <2>2, <2>3, <2>4, <2>5, BlockedNeverMeet, NoneFails DEF ServerStep
<1>3. ASSUME NEW n \in Nodes, OverloadingDetected(n) \/ CheckTimeout(n)
      PROVE  Kinds' /\ Planned'
  BY <1>3, MonitorKinds
<1>4. ASSUME NEW p \in Plans, PlanStep(p)
      PROVE  Kinds' /\ Planned'
  BY <1>4, PlanKinds
<1> QED BY <1>1, <1>2, <1>3, <1>4 DEF Next, Plans

-----------------------------------------------------------------------------
(* The members.                                                              *)

Distinct(part) ==
  \A i, j \in DOMAIN part.nodes : part.nodes[i] = part.nodes[j] => i = j

LEMMA DistinctStep ==
  ASSUME PromptState,
         \A n \in Nodes : \/ current'[n] = current[n] \/ current'[n] = NoPartition
                          \/ Distinct(current'[n])
  PROVE  MembersAreDistinct'
<1>1. \A n \in Nodes : current[n] # NoPartition => Distinct(current[n])
  BY DEF PromptState, PromptInv, MembersAreDistinct, Distinct, Booked
<1> QED BY <1>1 DEF MembersAreDistinct, Distinct, Booked

LEMMA DistinctHere ==
  ASSUME PromptState, NEW n \in Nodes, Booked(n)
  PROVE  Distinct(current[n])
  BY DEF PromptState, PromptInv, MembersAreDistinct, Distinct

LEMMA UpdateDistinct ==
  ASSUME PromptState, NEW p \in Procs, NEW pc, NEW part, NEW box, NEW client, NEW next,
         UpdateAll(p, pc, part, box, client, next), Distinct(part)
  PROVE  MembersAreDistinct'
<1>1. current' = [current EXCEPT ![p[1]] = part] /\ current \in PartTable /\ p[1] \in Nodes
  BY PromptFacts DEF UpdateAll
<1>2. \A n \in Nodes : current'[n] = current[n] \/ current'[n] = part
  BY <1>1 DEF PartTable
<1> QED BY <1>2, DistinctStep

LEMMA JoinDistinct ==
  ASSUME PromptState, NEW n \in Nodes, Join(n)
  PROVE  MembersAreDistinct'
<1> DEFINE p == Server(n)
           old == proc[p].part
           part == Joined(n, old)
<1>1. p \in Procs /\ p[1] = n /\ proc[p].pc = "validating"
  BY ProcsFacts DEF Join, Server
<1>2. /\ old \in Partition /\ HeldBy(current, p, proc[p]) /\ GoodProcess(proc[p])
  BY <1>1, PromptFacts DEF PromptState, MembersInv
<1>3. Whole(current, old) /\ ~Booked(n) /\ old.initiator \in Range(old.nodes)
  BY <1>1, <1>2 DEF HeldBy, PromptState, ValidatingIsFree, GoodProcess, Sound
<1>4. n \notin Range(old.nodes)
  BY <1>2, <1>3, WholeIsIn DEF In, Booked
<1>5. Distinct(old)
  <2>1. old.initiator \in Nodes
    BY <1>2 DEF Partition
  <2>2. current[old.initiator] = old /\ Booked(old.initiator)
    BY <1>2, <1>3, <2>1, WholeIsIn DEF In, Booked
  <2> QED BY <2>1, <2>2, DistinctHere
<1>6. part.nodes = <<n>> \o old.nodes /\ old.nodes \in Seq(Nodes)
  BY <1>2, JoinedFacts DEF Partition
<1>7. UpdateAll(p, "joining", part, inbox, proc[p].client, n)
  BY DEF Join
<1> HIDE DEF old, part, p
<1>8. Distinct(part)
  <2> DEFINE ns == <<n>> \o old.nodes
  <2>1. \A i \in DOMAIN ns : /\ i = 1 => ns[i] = n
                             /\ i # 1 => /\ i \in Int /\ i - 1 \in DOMAIN old.nodes
                                         /\ ns[i] = old.nodes[i - 1]
    BY <1>6
  <2>a. \A k \in DOMAIN old.nodes : old.nodes[k] # n
    BY <1>4 DEF Range
  <2> HIDE DEF ns
  <2>2. ASSUME NEW i \in DOMAIN ns, NEW j \in DOMAIN ns, ns[i] = ns[j]
        PROVE  i = j
    <3> \A k \in DOMAIN ns : ns[k] = n <=> k = 1
      BY <2>a, <2>1
    <3>1. CASE i = 1 \/ j = 1
      BY <2>2, <3>1
    <3>2. CASE i # 1 /\ j # 1
      <4>1. i \in Int /\ j \in Int /\ i - 1 = j - 1
        BY <1>5, <2>1, <2>2, <3>2 DEF Distinct
      <4> QED BY <4>1
    <3> QED BY <3>1, <3>2
  <2> QED BY <1>6, <2>2 DEF Distinct, ns
<1> QED BY <1>1, <1>7, <1>8, UpdateDistinct

LEMMA SetDistinct ==
  ASSUME PromptState, NEW n \in Nodes, SetCurrentPartition(n)
  PROVE  MembersAreDistinct'
<1> DEFINE m == Head(inbox[n])
           c == m.client
<1>1. /\ m.type = "set" /\ c # Nobody /\ c \in Procs /\ GoodRequest(proc, m)
      /\ current \in PartTable
  BY MessageFacts, PromptFacts DEF SetCurrentPartition, GoodRequest
<1>2. m = Wanted(c, proc[c]) /\ proc[c].pc \notin NotAsking
  BY <1>1 DEF GoodRequest
<1>3. m.part = proc[c].part /\ proc[c].pc \notin {"dissolving", "validating"}
  BY <1>1, <1>2 DEF Wanted, Request
<1>4. proc[c].pc \in Loops
  BY <1>1, <1>2, <1>3, PcOf DEF NotAsking
<1>5. m.part = current[c[1]] /\ c[1] \in Nodes /\ Booked(c[1])
  BY <1>1, <1>3, <1>4, PromptFacts DEF Uses
<1>6. Distinct(m.part)
  BY <1>5, DistinctHere
<1>7. current' = Updated(n, m.part)
  BY DEF SetCurrentPartition
<1>8. \A k \in Nodes : current'[k] = current[k] \/ current'[k] = m.part
  BY <1>1, <1>7 DEF Updated, PartTable
<1> QED BY <1>6, <1>8, DistinctStep

LEMMA ChangedDistinct ==
  ASSUME PromptState, NEW p \in Procs, NEW pc, NEW box, NEW client, NEW next,
         Booked(p[1]), NEW state \in States,
         UpdateAll(p, pc, Changed(current[p[1]], state), box, client, next)
  PROVE  MembersAreDistinct'
<1>1. current[p[1]] \in Partition /\ Distinct(current[p[1]])
  BY PromptFacts, PartitionIsBooked, DistinctHere DEF PartTable
<1>2. Distinct(Changed(current[p[1]], state))
  BY <1>1, ChangedFacts DEF Distinct
<1> QED BY <1>2, UpdateDistinct

LEMMA DistinctNext ==
  ASSUME PromptState, [Next]_vars
  PROVE  MembersAreDistinct'
<1>1. ASSUME current' = current
      PROVE  MembersAreDistinct'
  BY <1>1, DistinctStep
<1>2. ASSUME NEW n \in Nodes,
             \/ current' = [current EXCEPT ![n] = NoPartition]
             \/ \E id : current' = Dissolved(n, id)
      PROVE  MembersAreDistinct'
  <2>1. current' = current \/ current' = [current EXCEPT ![n] = NoPartition]
    BY <1>2 DEF Dissolved
  <2>2. \A k \in Nodes : current'[k] = current[k] \/ current'[k] = NoPartition
    BY <2>1, PromptFacts DEF PartTable
  <2> QED BY <2>2, DistinctStep
<1>3. \A p \in Procs : p[1] \in Nodes
  BY ProcsFacts
<1>4. ASSUME NEW n \in Nodes, ServerStep(n)
      PROVE  MembersAreDistinct'
  <2>1. Server(n) \in Procs /\ Server(n)[1] = n
    BY ProcsFacts DEF Server
  <2>2. CASE \/ IsStillValid(n) \/ IspWhenFree(n) \/ Refuse(n) \/ EndBlocking(n)
             \/ NobodyOut(n) \/ (\E f \in Nodes : Forward(n, f)) \/ AskNext(Server(n))
             \/ \E k \in 1..MaxPlans : StartPlan(n, k)
    BY <1>1, <2>2 DEF IsStillValid, IspWhenFree, Refuse, EndBlocking, NobodyOut, Forward,
                      AskNext, StartPlan
  <2>3. CASE Dissolve(n)
    BY <1>2, <2>3 DEF Dissolve
  <2>4. CASE Join(n) \/ SetCurrentPartition(n)
    BY <2>4, JoinDistinct, SetDistinct
  <2>5. CASE IspBack(n)
    BY <2>1, <2>5, ChangedDistinct DEF IspBack, States
  <2> QED BY <1>4, <2>1, <2>2, <2>3, <2>4, <2>5, BlockedNeverMeet, NoneFails DEF ServerStep
<1>5. ASSUME NEW n \in Nodes, OverloadingDetected(n)
      PROVE  MembersAreDistinct'
  <2>1. PICK id : current' = [current EXCEPT ![n] =
                                [id |-> id, leader |-> n, initiator |-> n, nodes |-> <<n>>,
                                 state |-> "Growing", version |-> 0]]
    BY <1>5 DEF OverloadingDetected
  <2> DEFINE part == [id |-> id, leader |-> n, initiator |-> n, nodes |-> <<n>>,
                      state |-> "Growing", version |-> 0]
  <2>2. Distinct(part)
    BY DEF Distinct
  <2> HIDE DEF part
  <2>3. \A k \in Nodes : current'[k] = current[k] \/ current'[k] = part
    BY <2>1, PromptFacts DEF PartTable, part
  <2> QED BY <2>2, <2>3, DistinctStep
<1>6. ASSUME NEW n \in Nodes, CheckTimeout(n)
      PROVE  MembersAreDistinct'
  BY <1>2, <1>6 DEF CheckTimeout
<1>7. ASSUME NEW p \in Plans, PlanStep(p)
      PROVE  MembersAreDistinct'
  <2>1. p \in Procs /\ p[1] \in Nodes
    BY ProcsFacts DEF Plans
  <2>2. CASE AskNext(p) \/ Transmit(p) \/ DissolveOthers(p) \/ EndPlan(p)
    BY <1>1, <2>2 DEF AskNext, Transmit, DissolveOthers, EndPlan
  <2>3. CASE NoSolution(p)
    BY <1>1, <2>1, <2>3, ChangedDistinct DEF NoSolution, States
  <2>4. CASE Compute(p) \/ Computed(p)
    BY <1>1, <2>1, <2>3, <2>4, ChangedDistinct DEF Compute, Computed, States
  <2>5. CASE Confirm(p)
    BY <2>1, <2>5, DistinctHere, UpdateDistinct DEF Confirm
  <2>6. CASE DissolveSelf(p)
    BY <1>2, <2>1, <2>6 DEF DissolveSelf
  <2> QED BY <1>7, <2>1, <2>2, <2>4, <2>5, <2>6, NoneFails DEF PlanStep
<1> QED BY <1>1, <1>4, <1>5, <1>6, <1>7 DEF Next, Plans, vars

-----------------------------------------------------------------------------
(* The invariant.                                                            *)

LEMMA PromptInit == Init => PromptState
<1> SUFFICES ASSUME Init PROVE PromptState
  OBVIOUS
<1>1. /\ \A n \in Nodes : ~Booked(n) /\ current[n] = NoPartition
      /\ \A n \in Nodes : inbox[n] = <<>> /\ snoozed[n] = {}
      /\ \A p \in Procs : proc[p] = Idle
      /\ \A n \in Nodes : proc[Server(n)] = Idle
  BY ProcsFacts DEF Init, Booked
<1>2. Idle.pc = "idle" /\ Silent(Idle)
  BY DEF Idle, Silent
<1>3. TypeOK /\ ValidatingIsFree /\ MembersInv /\ Awaited(inbox, proc)
  BY <1>1, <1>2, TypeInit, MembersInit, AwaitedInit DEF ValidatingIsFree
<1>4. Requested(inbox, proc)
  BY <1>1, <1>2 DEF Requested, Asked, NotAsking, Transmits
<1>5. ASSUME NEW x
      PROVE  /\ Followed(inbox, proc, current, x) /\ Fresh(inbox, proc, current, x)
  <2>1. Away(inbox, x) /\ Lasting(inbox, x)
    BY <1>1 DEF Away, Lasting
  <2>2. Vacant(proc, current, x)
    BY <1>1, <1>2, SilentHolds DEF Vacant
  <2>3. \A n \in Nodes : ~In(current, n, x)
    BY <1>1 DEF In
  <2> QED BY <2>1, <2>2, <2>3 DEF Followed, Loose, Fresh
<1>6. Kinds
  BY <1>1, <1>2, ProcsFacts DEF Kinds, Plans, Uses, Loops
<1>7. Planned
  BY <1>1, <1>2, ProcsFacts DEF Planned, Plans
<1>8. MembersAreDistinct
  BY <1>1 DEF MembersAreDistinct
<1> QED BY <1>3, <1>4, <1>5, <1>6, <1>7, <1>8 DEF PromptState, PromptInv

LEMMA PromptNext ==
  ASSUME PromptState, Prompt, [Next]_vars
  PROVE  PromptState'
<1>1. TypeOK' /\ ValidatingIsFree' /\ MembersInv' /\ Awaited(inbox, proc)'
  BY TypeNext, FreeNext, MembersNext, AwaitedNext DEF PromptState
<1>2. Requested(inbox, proc)'
  BY RequestedNext
<1>3. FollowedAll' /\ FreshAll' /\ OneAtATime
  BY FollowedNext
<1>4. Kinds' /\ Planned'
  BY KindsNext
<1>5. MembersAreDistinct'
  BY DistinctNext
<1> QED BY <1>1, <1>2, <1>3, <1>4, <1>5 DEF PromptState, PromptInv, FollowedAll, FreshAll

LEMMA PromptCorrect ==
  ASSUME Prompt
  PROVE  Spec => []PromptState
<1>1. PromptState /\ [Next]_vars => PromptState'
  BY PromptNext
<1> QED BY <1>1, PromptInit, PTL DEF Spec

-----------------------------------------------------------------------------
(* The partitions as Partitions describes them.                              *)

Deciding == {"joining", "starting", "computing", "growing"}
PartitionVars == <<Members, Open, InPlan, unused>>

LEMMA MembersFacts ==
  /\ \A x \in Ids : \A n \in Nodes : n \in Members[x] <=> In(current, n, x)
  /\ \A x \in Ids : \A n \in Nodes : n \in Members'[x] <=> In(current', n, x)
  /\ Members = [x \in Ids |-> {n \in Nodes : In(current, n, x)}]
  /\ Members' = [x \in Ids |-> {n \in Nodes : In(current', n, x)}]
  BY DEF Members, Booked, In

LEMMA HoldingFacts ==
  ASSUME NEW x \in Ids, NEW p \in Procs
  PROVE  /\ Holding(p, x) <=> \/ proc[p].pc = "validating" /\ proc[p].part.id = x
                              \/ proc[p].pc \in Deciding /\ In(current, p[1], x)
         /\ Holding(p, x)' <=> \/ proc'[p].pc = "validating" /\ proc'[p].part.id = x
                               \/ proc'[p].pc \in Deciding /\ In(current', p[1], x)
         /\ Holding(p, x) => Holds(proc, current, p, x)
         /\ Holding(p, x)' => Holds(proc', current', p, x)
<1>1. p[1] \in Nodes
  BY ProcsFacts
<1> QED BY <1>1, MembersFacts DEF Holding, Deciding, Holds, Uses, Loops

LEMMA OpenFacts ==
  ASSUME NEW x \in Ids
  PROVE  /\ x \in Open <=> ~Away(inbox, x) \/ \E p \in Procs : Holding(p, x)
         /\ x \in Open' <=> ~Away(inbox', x) \/ \E p \in Procs : Holding(p, x)'
         /\ x \in InPlan <=> \E p \in Procs : proc[p].pc = "computing" /\ In(current, p[1], x)
         /\ x \in InPlan' <=> \E p \in Procs : proc'[p].pc = "computing" /\ In(current', p[1], x)
         /\ x \in InPlan => x \in Open
         /\ x \in InPlan' => x \in Open'
<1>1. x \in Open <=> ~Away(inbox, x) \/ \E p \in Procs : Holding(p, x)
  BY DEF Open, Away, Carries
<1>2. x \in Open' <=> ~Away(inbox', x) \/ \E p \in Procs : Holding(p, x)'
  BY DEF Open, Away, Carries
<1>3. /\ x \in InPlan <=> \E p \in Procs : proc[p].pc = "computing" /\ In(current, p[1], x)
      /\ x \in InPlan' <=> \E p \in Procs : proc'[p].pc = "computing" /\ In(current', p[1], x)
  BY ProcsFacts, MembersFacts DEF InPlan
<1> QED BY <1>1, <1>2, <1>3, HoldingFacts DEF Deciding

(* Where x is neither sent nor held, before and after, it is closed. *)
LEMMA ClosedFacts ==
  ASSUME NEW x \in Ids
  PROVE  /\ Away(inbox, x) /\ (\A p \in Procs : ~Holding(p, x)) => x \notin Open /\ x \notin InPlan
         /\ Away(inbox, x) /\ Vacant(proc, current, x) => x \notin Open /\ x \notin InPlan
         /\ Away(inbox', x) /\ Vacant(proc', current', x) => x \notin Open' /\ x \notin InPlan'
<1>1. /\ Vacant(proc, current, x) => \A p \in Procs : ~Holding(p, x)
      /\ Vacant(proc', current', x) => \A p \in Procs : ~Holding(p, x)'
  BY HoldingFacts DEF Vacant
<1> QED BY <1>1, OpenFacts

LEMMA SetsAreOfIds ==
  Open \subseteq Ids /\ Open' \subseteq Ids /\ InPlan \subseteq Ids /\ InPlan' \subseteq Ids
  BY DEF Open, InPlan

LEMMA UntouchedKeeps ==
  ASSUME PromptState, NEW x \in Ids, Untouched(x)
  PROVE  /\ Members'[x] = Members[x]
         /\ x \in Open' <=> x \in Open
         /\ x \in InPlan' <=> x \in InPlan
<1>1. /\ \A n \in Nodes : In(current', n, x) <=> In(current, n, x)
      /\ \A p \in Procs : p[1] \in Nodes
  BY ProcsFacts DEF Untouched, SameParts, In
<1>2. Members'[x] = Members[x]
  BY <1>1, MembersFacts
<1>3. Away(inbox', x) <=> Away(inbox, x)
  <2>1. Away(inbox, x) => Away(inbox', x)
    BY DEF Untouched, SameMail
  <2>2. ASSUME ~Away(inbox, x)
        PROVE  ~Away(inbox', x)
    <3>1. Mailed(inbox, proc, current, x)
      BY <2>2 DEF PromptState, PromptInv, Followed, Loose, Held
    <3>2. PICK part : Sole(inbox, x, part)
      BY <3>1 DEF Mailed
    <3>3. Sole(inbox', x, part)
      BY <3>2 DEF Untouched, SameMail
    <3> QED BY <3>3 DEF Sole, Away
  <2> QED BY <2>1, <2>2
<1>4. ASSUME NEW p \in Procs
      PROVE  /\ Holding(p, x)' <=> Holding(p, x)
             /\ proc'[p].pc = "computing" /\ In(current', p[1], x)
                  <=> proc[p].pc = "computing" /\ In(current, p[1], x)
  <2>1. CASE proc'[p] = proc[p]
    BY <1>1, <2>1, HoldingFacts
  <2>2. CASE ~Holds(proc, current, p, x) /\ ~Holds(proc', current', p, x)
    BY <1>1, <2>2, HoldingFacts DEF Holds, Uses
  <2> QED BY <2>1, <2>2 DEF Untouched, SameHolder
<1> QED BY <1>2, <1>3, <1>4, OpenFacts

(* What a step does to one partition, the others staying as they are. *)
LEMMA OnePartition ==
  ASSUME PromptState, OneAtATime
  PROVE  \E y : \A x \in Ids \ {y} :
           /\ Members'[x] = Members[x]
           /\ x \in Open' <=> x \in Open
           /\ x \in InPlan' <=> x \in InPlan
  BY UntouchedKeeps DEF OneAtATime

(* Its members stay, and it is not opened: whatever happens in between is a  *)
(* plan that begins or ends, or the partition that is closed.                *)
LEMMA MembersStayed ==
  ASSUME PromptState, OneAtATime, Members' = Members, unused' = unused, Open' \subseteq Open
  PROVE  [Reservation!Next]_PartitionVars
<1>1. PICK y : \A x \in Ids \ {y} : (x \in Open' <=> x \in Open) /\ (x \in InPlan' <=> x \in InPlan)
  BY OnePartition
<1>2. \A x \in Ids : (x \in InPlan => x \in Open) /\ (x \in InPlan' => x \in Open')
  BY OpenFacts
<1>3. CASE y \notin Ids \/ y \notin Open
  <2>1. Open' = Open /\ InPlan' = InPlan
    BY <1>1, <1>2, <1>3, SetsAreOfIds
  <2> QED BY <2>1 DEF PartitionVars
<1>4. CASE y \in Ids /\ y \in Open /\ y \notin InPlan
  <2>1. CASE y \in Open'
    <3>1. Open' = Open
      BY <1>1, <2>1, SetsAreOfIds
    <3>2. CASE y \in InPlan'
      <4>1. InPlan' = InPlan \cup {y}
        BY <1>1, <3>2, SetsAreOfIds
      <4>2. Reservation!Plan(y)
        BY <1>4, <3>1, <4>1 DEF Reservation!Plan
      <4> QED BY <1>4, <4>2 DEF Reservation!Next
    <3>3. CASE y \notin InPlan'
      <4>1. InPlan' = InPlan
        BY <1>1, <1>4, <3>3, SetsAreOfIds
      <4> QED BY <3>1, <4>1 DEF PartitionVars
    <3> QED BY <3>2, <3>3
  <2>2. CASE y \notin Open'
    <3>1. Open' = Open \ {y} /\ InPlan' = InPlan
      BY <1>1, <1>2, <1>4, <2>2, SetsAreOfIds
    <3>2. Reservation!Close(y)
      BY <1>4, <3>1 DEF Reservation!Close
    <3> QED BY <1>4, <3>2 DEF Reservation!Next
  <2> QED BY <2>1, <2>2
<1>5. CASE y \in Ids /\ y \in InPlan
  <2>1. Open' \in {Open, Open \ {y}}
    BY <1>1, SetsAreOfIds
  <2>2. CASE y \in InPlan'
    <3>1. InPlan' = InPlan /\ Open' = Open
      BY <1>1, <1>2, <1>5, <2>2, SetsAreOfIds
    <3> QED BY <3>1 DEF PartitionVars
  <2>3. CASE y \notin InPlan'
    <3>1. InPlan' = InPlan \ {y}
      BY <1>1, <2>3, SetsAreOfIds
    <3>2. Reservation!EndPlan(y)
      BY <1>5, <2>1, <3>1 DEF Reservation!EndPlan
    <3> QED BY <1>5, <3>2 DEF Reservation!Next
  <2> QED BY <2>2, <2>3
<1> QED BY <1>3, <1>4, <1>5

(* No process takes a partition up that was not sent to it, or that another  *)
(* one did not decide on.                                                    *)
LEMMA NothingOpens ==
  ASSUME PromptState,
         \A n \in Nodes : \A x \in Ids : In(current', n, x) => In(current, n, x),
         \A x \in Ids : Away(inbox, x) => Away(inbox', x) \/ x \in Open,
         \A p \in Procs : \/ Alike(proc'[p], proc[p])
                          \/ proc'[p].pc \notin Deciding \cup {"validating"}
                          \/ proc'[p].pc \in Deciding /\ proc[p].pc \in Deciding
                          \/ \A x \in Ids : Holding(p, x)' => x \in Open
  PROVE  Open' \subseteq Open
<1> SUFFICES ASSUME NEW x \in Ids, x \in Open' PROVE x \in Open
  BY SetsAreOfIds
<1>1. CASE ~Away(inbox', x)
  BY <1>1, OpenFacts
<1>2. ASSUME NEW p \in Procs, Holding(p, x)'
      PROVE  x \in Open
  <2>1. p[1] \in Nodes
    BY ProcsFacts
  <2>2. CASE \/ Alike(proc'[p], proc[p])
             \/ proc'[p].pc \in Deciding /\ proc[p].pc \in Deciding
    <3>1. Holding(p, x)
      BY <1>2, <2>1, <2>2, HoldingFacts DEF Alike, Deciding
    <3> QED BY <3>1, OpenFacts
  <2>3. proc'[p].pc \in Deciding \cup {"validating"}
    BY <1>2, HoldingFacts
  <2> QED BY <1>2, <2>2, <2>3
<1> QED BY <1>1, <1>2, OpenFacts

(* A step that opens nothing and that no node joins or leaves. *)
LEMMA QuietStep ==
  ASSUME PromptState, OneAtATime, unused' = unused,
         \A n \in Nodes : \A x \in Ids : In(current', n, x) <=> In(current, n, x),
         \A x \in Ids : Away(inbox, x) => Away(inbox', x) \/ x \in Open,
         \A p \in Procs : \/ Alike(proc'[p], proc[p])
                          \/ proc'[p].pc \notin Deciding \cup {"validating"}
                          \/ proc'[p].pc \in Deciding /\ proc[p].pc \in Deciding
                          \/ \A x \in Ids : Holding(p, x)' => x \in Open
  PROVE  [Reservation!Next]_PartitionVars
<1>1. Members' = Members
  BY MembersFacts
<1>2. Open' \subseteq Open
  BY NothingOpens
<1> QED BY <1>1, <1>2, MembersStayed

(* The node of y that leaves it, once y is closed. *)
LEMMA NodeLeaves ==
  ASSUME PromptState, OneAtATime, unused' = unused, NEW n \in Nodes, NEW y \in Ids,
         In(current, n, y), current' = [current EXCEPT ![n] = NoPartition],
         y \notin Open, y \notin Open'
  PROVE  [Reservation!Next]_PartitionVars
<1>1. current \in PartTable
  BY PromptFacts
<1>2. \A k \in Nodes : \A x \in Ids :
        In(current', k, x) <=> In(current, k, x) /\ ~(k = n /\ x = y)
  BY <1>1 DEF PartTable, In
<1>3. Members' = [Members EXCEPT ![y] = @ \ {n}] /\ n \in Members[y] /\ n \notin Members'[y]
  BY <1>2, MembersFacts
<1>4. PICK z : \A x \in Ids \ {z} : /\ Members'[x] = Members[x]
                                    /\ x \in Open' <=> x \in Open
                                    /\ x \in InPlan' <=> x \in InPlan
  BY OnePartition
<1>5. z = y
  BY <1>3, <1>4
<1>6. y \notin InPlan /\ y \notin InPlan'
  BY OpenFacts
<1>7. Open' = Open /\ InPlan' = InPlan
  BY <1>4, <1>5, <1>6, SetsAreOfIds
<1>8. Reservation!Leave(n, y)
  BY <1>3, <1>7 DEF Reservation!Leave
<1> QED BY <1>8 DEF Reservation!Next

(* One action after the other.                                               *)

LEMMA MessagesReserve ==
  ASSUME PromptState, OneAtATime, NEW n \in Nodes, IsStillValid(n) \/ SetCurrentPartition(n)
  PROVE  [Reservation!Next]_PartitionVars
<1> DEFINE c == Head(inbox[n]).client
<1>1. PICK type \in {"valid", "set"} : Receives(n, type)
  BY DEF IsStillValid, SetCurrentPartition
<1>2. /\ c \in Clients /\ \A x : SameMail(inbox, Taken(n), x)
  BY <1>1, MessageFacts
<1>3. /\ inbox' = Taken(n) /\ unused' = unused
      /\ \E a \in {"yes", "no"} : proc' = Replied(proc, c, a)
  BY DEF IsStillValid, SetCurrentPartition
<1>4. \A p \in Procs : Alike(proc'[p], proc[p])
  BY <1>2, <1>3, ReplyOthers, PromptFacts
<1>5. \A x \in Ids : \A k \in Nodes : In(current', k, x) <=> In(current, k, x)
  <2>1. CASE IsStillValid(n)
    BY <2>1 DEF IsStillValid, In
  <2>2. CASE SetCurrentPartition(n)
    BY <2>2, SetFacts
  <2> QED BY <2>1, <2>2
<1> QED BY <1>2, <1>3, <1>4, <1>5, QuietStep DEF SameMail

(* A node is told of a dissolution by a timeout, which lost the partition,   *)
(* or by the plan that carried it out.                                       *)
LEMMA DissolveReserves ==
  ASSUME PromptState, OneAtATime, NEW n \in Nodes, Dissolve(n)
  PROVE  [Reservation!Next]_PartitionVars
<1> DEFINE m == Head(inbox[n])
           c == m.client
           y == m.id
<1>1. /\ m.type = "dissolve" /\ m \in Message /\ c \in Clients /\ inbox[n] # <<>>
      /\ \A x : SameMail(inbox, Taken(n), x)
      /\ c # Nobody => c \in Procs
      /\ GoodRequest(proc, m) /\ inbox \in Box /\ proc \in ProcTable
  BY MessageFacts, PromptFacts DEF Dissolve
<1>2. y \in Ids /\ m = [type |-> "dissolve", id |-> y, client |-> c]
  BY <1>1 DEF Message
<1>3. /\ inbox' = Taken(n) /\ proc' = Replied(proc, c, "yes") /\ current' = Dissolved(n, y)
      /\ unused' = unused
  BY DEF Dissolve
<1>4. \A p \in Procs : Alike(proc'[p], proc[p])
  BY <1>1, <1>3, ReplyOthers
<1>5. Away(inbox, y) /\ \A p \in Procs : ~Holding(p, y)
  <2>1. CASE c = Nobody
    <3>1. m = Dissolution(y)
      BY <1>2, <2>1 DEF Dissolution
    <3>2. Loose(inbox, proc, current, y)
      BY <1>1, <1>2, <3>1, DissolutionOf DEF PromptState, PromptInv
    <3> QED BY <1>2, <3>2, HoldingFacts DEF Loose, Vacant
  <2>2. CASE c # Nobody
    <3>1. c \in Procs /\ proc[c].pc \notin NotAsking /\ m = Wanted(c, proc[c])
      BY <1>1, <2>2 DEF GoodRequest
    <3>2. proc[c].pc = "dissolving" /\ y = proc[c].part.id
      BY <1>1, <3>1 DEF Wanted, Request
    <3>3. Holds(proc, current, c, y)
      BY <3>1, <3>2, PromptFacts DEF Uses
    <3>4. Away(inbox, y) /\ \A q \in Procs \ {c} : ~Holds(proc, current, q, y)
      BY <1>2, <3>1, <3>3, HoldOf DEF PromptState, PromptInv
    <3> QED BY <1>2, <3>1, <3>2, <3>4, HoldingFacts DEF Deciding
  <2> QED BY <2>1, <2>2
<1>6. \A k \in Nodes : \A x \in Ids : In(current', k, x) => In(current, k, x)
  BY <1>3, PromptFacts DEF Dissolved, PartTable, In
<1>7. Open' \subseteq Open
  BY <1>1, <1>3, <1>4, <1>6, NothingOpens DEF SameMail
<1>8. y \notin Open /\ y \notin Open'
  BY <1>2, <1>5, <1>7, ClosedFacts
<1> HIDE DEF m
<1>9. CASE current' = current
  BY <1>1, <1>3, <1>4, <1>9, QuietStep DEF SameMail
<1>10. CASE current' # current
  <2>1. In(current, n, y) /\ current' = [current EXCEPT ![n] = NoPartition]
    BY <1>3, <1>10 DEF Dissolved, In, Booked
  <2> QED BY <1>2, <1>3, <1>8, <2>1, NodeLeaves
<1> QED BY <1>9, <1>10

LEMMA IspWhenFreeReserves ==
  ASSUME PromptState, OneAtATime, NEW n \in Nodes, IspWhenFree(n)
  PROVE  [Reservation!Next]_PartitionVars
<1> DEFINE m == Head(inbox[n])
           p == Server(n)
           r == [type |-> "valid", part |-> m.part, client |-> p]
           w == Waiting("validating", m.part, <<>>, m.client, m.part.initiator)
           v == [w EXCEPT !.answer = "pending"]
<1>1. /\ Taken(n) \in Box /\ m.part.id \in Ids /\ m.part.initiator \in Nodes
      /\ inbox \in Box /\ inbox[n] # <<>> /\ m.type = "isp"
  BY IspFacts, PromptFacts DEF IspWhenFree, Receives
<1>2. m.part.id \in Open
  <2>1. ~Away(inbox, m.part.id)
    BY <1>1, TakenMail DEF Away, Carries
  <2> QED BY <1>1, <2>1, OpenFacts
<1>3. /\ inbox' = Sent(Taken(n), m.part.initiator, r) /\ proc' = [proc EXCEPT ![p] = v]
      /\ current' = current /\ unused' = unused
  BY DEF IspWhenFree
<1>4. v.pc = "validating" /\ v.part = m.part
  BY DEF Waiting
<1> HIDE DEF v, w
<1>5. p \in Procs /\ proc'[p] = v /\ \A q \in Procs \ {p} : proc'[q] = proc[q]
  BY <1>3, ProcsFacts, MoveAlone
<1> HIDE DEF p
<1>6. \A x : ~Carries(r, x)
  BY DEF Carries
<1>7. Grows(Taken(n), inbox', r)
  BY <1>1, <1>3, SentGrows
<1> HIDE DEF r
<1>8. \A x \in Ids : Away(inbox, x) => Away(inbox', x)
  BY <1>1, <1>6, <1>7, TakenSameMail, GrowsSameMail
<1>9. \A x \in Ids : Holding(p, x)' => x \in Open
  BY <1>2, <1>4, <1>5, HoldingFacts DEF Deciding
<1> HIDE DEF m
<1> QED BY <1>3, <1>5, <1>8, <1>9, QuietStep DEF Alike

(* The node joins: it is in no partition, and the ISP is its own to decide.  *)
LEMMA JoinReserves ==
  ASSUME PromptState, OneAtATime, NEW n \in Nodes, Join(n)
  PROVE  [Reservation!Next]_PartitionVars
<1>1. PICK p \in Procs : p = Server(n) /\ p[1] = n /\ proc[p].pc = "validating"
  BY ProcsFacts DEF Join, Server
<1> DEFINE old == proc[p].part
           part == Joined(n, old)
<1>2. /\ proc[p] \in Waits /\ old \in Partition /\ old.id \in Ids
      /\ Holds(proc, current, p, old.id) /\ HeldBy(current, p, proc[p])
  BY <1>1, PromptFacts
<1>3. PICK y \in Ids : y = old.id
  BY <1>2
<1>4. /\ proc[p].client \in Clients /\ ~Booked(n)
      /\ current \in PartTable /\ proc \in ProcTable /\ inbox \in Box
  BY <1>1, <1>2, PromptFacts DEF Waits, PromptState, ValidatingIsFree
<1>5. part \in Partition /\ part.id = y
  BY <1>2, <1>3, JoinedFacts
<1>6. \A q \in Procs \ {p} : ~Holds(proc, current, q, y)
  BY <1>2, <1>3, HoldOf DEF PromptState, PromptInv
<1>7. y \in Open /\ y \notin InPlan
  <2>1. Holding(p, y)
    BY <1>1, <1>3, HoldingFacts
  <2>2. ASSUME NEW q \in Procs, proc[q].pc = "computing", In(current, q[1], y)
        PROVE  FALSE
    BY <1>1, <1>6, <2>2 DEF Holds, Uses
  <2> QED BY <2>1, <2>2, OpenFacts
<1>8. UpdateAll(p, "joining", part, inbox, proc[p].client, n) /\ unused' = unused
  BY <1>1 DEF Join
<1> HIDE DEF part, old
<1>9. /\ proc'[p].pc = "joining" /\ \A q \in Procs \ {p} : proc'[q] = proc[q]
      /\ current' = [current EXCEPT ![n] = part]
  BY <1>1, <1>4, <1>5, <1>8, UpdateAllFrame DEF PartTable
<1>10. /\ \A k \in Nodes : \A x \in Ids :
            In(current', k, x) <=> In(current, k, x) \/ (k = n /\ x = y)
       /\ \A x \in Ids : ~In(current, n, x)
  BY <1>4, <1>5, <1>9, NoPartitionIsNone DEF PartTable, In, Booked
<1>11. /\ Members' = [Members EXCEPT ![y] = @ \cup {n}] /\ Reservation!Free(n)
       /\ n \in Members'[y] /\ n \notin Members[y]
  <2>1. Members' = [Members EXCEPT ![y] = @ \cup {n}]
    <3> DEFINE before == [x \in Ids |-> {k \in Nodes : In(current, k, x)}]
               after == [x \in Ids |-> {k \in Nodes : In(current', k, x)}]
    <3>1. \A x \in Ids : after[x] = IF x = y THEN before[x] \cup {n} ELSE before[x]
      BY <1>10
    <3>2. Members = before /\ Members' = after
      BY MembersFacts
    <3> QED BY <3>1, <3>2
  <2>2. \A x \in Ids : n \notin Members[x]
    BY <1>10, MembersFacts
  <2>3. n \in Members'[y]
    BY <1>10, MembersFacts
  <2> QED BY <2>1, <2>2, <2>3 DEF Reservation!Free
<1>12. PICK z : \A x \in Ids \ {z} : /\ Members'[x] = Members[x]
                                     /\ x \in Open' <=> x \in Open
                                     /\ x \in InPlan' <=> x \in InPlan
  BY OnePartition
<1>13. z = y
  BY <1>11, <1>12
<1>14. y \in Open'
  <2>1. Holding(p, y)'
    BY <1>1, <1>9, <1>10, HoldingFacts DEF Deciding
  <2> QED BY <2>1, OpenFacts
<1>15. y \notin InPlan'
  <2> SUFFICES ASSUME NEW q \in Procs, proc'[q].pc = "computing", In(current', q[1], y)
               PROVE  FALSE
    BY OpenFacts
  <2>1. q # p /\ proc[q].pc = "computing" /\ q[1] \in Nodes
    BY <1>9, ProcsFacts
  <2>2. Booked(q[1]) /\ q[1] # n
    BY <1>4, <2>1, PromptFacts DEF Uses
  <2>3. In(current, q[1], y)
    BY <1>10, <2>1, <2>2
  <2> QED BY <1>6, <2>1, <2>3 DEF Holds, Uses
<1>16. Open' = Open /\ InPlan' = InPlan
  BY <1>7, <1>12, <1>13, <1>14, <1>15, SetsAreOfIds
<1>17. Reservation!Join(n, y)
  BY <1>7, <1>8, <1>11, <1>16 DEF Reservation!Join
<1> QED BY <1>17 DEF Reservation!Next

(* The others decide on what they hold, send it or let it go.                *)
LEMMA EndsReserve ==
  ASSUME PromptState, OneAtATime, NEW n \in Nodes,
         Refuse(n) \/ EndBlocking(n) \/ \E k \in 1..MaxPlans : StartPlan(n, k)
  PROVE  [Reservation!Next]_PartitionVars
<1>1. PICK p \in Procs : p = Server(n) /\ p[1] = n /\ proc[p] # Idle
  <2>1. Server(n) \in Procs /\ Server(n)[1] = n
    BY ProcsFacts DEF Server
  <2>2. proc[Server(n)].pc \in {"validating", "blocking", "joining"}
    BY DEF Refuse, EndBlocking, StartPlan, Done
  <2> QED BY <2>1, <2>2 DEF Idle
<1> DEFINE c == proc[p].client
<1>2. c \in Clients /\ proc \in ProcTable
  BY <1>1, ClientFacts, PromptFacts
<1>3. current' = current /\ inbox' = inbox /\ unused' = unused
  BY DEF Refuse, EndBlocking, StartPlan
<1>4. CASE Refuse(n) \/ EndBlocking(n)
  <2> DEFINE procs == [proc EXCEPT ![p] = Idle]
  <2>1. proc' = Replied(procs, c, "yes")
    BY <1>1, <1>4 DEF Refuse, EndBlocking
  <2>2. procs \in ProcTable /\ procs[p] = Idle /\ \A q \in Procs \ {p} : procs[q] = proc[q]
    BY <1>2, IdleTypes DEF ProcTable
  <2> HIDE DEF procs, c
  <2>3. \A q \in Procs : Alike(proc'[q], procs[q])
    BY <1>2, <2>1, <2>2, ReplyOthers
  <2>4. \A q \in Procs : Alike(proc'[q], proc[q]) \/ proc'[q].pc = "idle"
    BY <2>2, <2>3 DEF Alike, Idle
  <2> QED BY <1>3, <2>4, QuietStep DEF Deciding
<1>5. ASSUME NEW k \in 1..MaxPlans, StartPlan(n, k)
      PROVE  [Reservation!Next]_PartitionVars
  <2> DEFINE s == <<n, k>>
             procs == [proc EXCEPT ![p] = Idle, ![s] = Starting]
  <2>1. proc' = Replied(procs, c, "yes") /\ proc[p].pc = "joining"
    BY <1>1, <1>5 DEF StartPlan, Done
  <2>2. s \in Procs /\ s # p /\ s[1] = n
    BY <1>1, ProcsFacts
  <2>3. /\ procs \in ProcTable /\ procs[p] = Idle /\ procs[s] = Starting
        /\ \A q \in Procs \ {p, s} : procs[q] = proc[q]
    BY <1>2, <2>2, IdleTypes DEF ProcTable
  <2> HIDE DEF procs, c, s
  <2>4. \A q \in Procs : Alike(proc'[q], procs[q])
    BY <1>2, <2>1, <2>3, ReplyOthers
  <2>5. ASSUME NEW x \in Ids, Holding(s, x)'
        PROVE  x \in Open
    <3>1. In(current, n, x)
      BY <1>3, <2>2, <2>3, <2>4, <2>5, HoldingFacts DEF Alike, Starting, Deciding
    <3>2. Holding(p, x)
      BY <1>1, <2>1, <3>1, HoldingFacts DEF Deciding
    <3> QED BY <3>2, OpenFacts
  <2>6. \A q \in Procs : q = s \/ Alike(proc'[q], proc[q]) \/ proc'[q].pc = "idle"
    BY <2>3, <2>4 DEF Alike, Idle
  <2> QED BY <1>3, <2>5, <2>6, QuietStep DEF Deciding
<1> QED BY <1>4, <1>5

(* p changes, with its node, the version of the partition it has, and asks   *)
(* the others to.                                                            *)
LEMMA UpdateReserves ==
  ASSUME PromptState, OneAtATime, NEW p \in Procs, NEW part \in Partition, NEW box \in Box,
         NEW client \in Clients, NEW next \in Nodes, NEW pc \in Loops,
         UpdateAll(p, pc, part, box, client, next), unused' = unused,
         Booked(p[1]), part.id = current[p[1]].id,
         \A x \in Ids : Away(inbox, x) => Away(box, x),
         pc \in Deciding => proc[p].pc \in Deciding
  PROVE  [Reservation!Next]_PartitionVars
<1> DEFINE w == Waiting(pc, part, part.nodes, client, next)
<1>1. /\ proc \in ProcTable /\ current \in PartTable /\ p[1] \in Nodes
  BY PromptFacts
<1>2. w \in Waits
  BY WaitingType DEF Partition, Loops
<1>3. AskAll(p, w, box) /\ current' = [current EXCEPT ![p[1]] = part]
  BY DEF UpdateAll
<1> HIDE DEF w
<1>4. \A x : SameMail(box, inbox', x)
  BY <1>1, <1>2, <1>3, AskAllMail
<1>5. proc'[p].pc = pc /\ \A q \in Procs \ {p} : proc'[q] = proc[q]
  BY <1>1, UpdateAllFrame DEF PartTable, Loops
<1>6. \A k \in Nodes : \A x \in Ids : In(current', k, x) <=> In(current, k, x)
  BY <1>1, <1>3, NoPartitionIsNone DEF PartTable, In, Booked
<1>7. \A x \in Ids : Away(inbox, x) => Away(inbox', x)
  BY <1>4 DEF SameMail
<1>8. \A q \in Procs : \/ Alike(proc'[q], proc[q])
                       \/ proc'[q].pc \notin Deciding \cup {"validating"}
                       \/ proc'[q].pc \in Deciding /\ proc[q].pc \in Deciding
  BY <1>5 DEF Alike, Loops
<1> QED BY <1>6, <1>7, <1>8, QuietStep

LEMMA IspBackReserves ==
  ASSUME PromptState, OneAtATime, NEW n \in Nodes, IspBack(n)
  PROVE  [Reservation!Next]_PartitionVars
<1>1. PICK p \in Procs : p = Server(n) /\ p[1] = n
  BY ProcsFacts DEF Server
<1> DEFINE m == Head(inbox[n])
           part == Changed(current[n], "Blocked")
<1>2. /\ m.client \in Clients /\ Taken(n) \in Box /\ inbox \in Box /\ inbox[n] # <<>>
      /\ Booked(n) /\ current[n] \in Partition
  BY IspFacts, PromptFacts DEF IspBack, Receives, PartTable, Booked
<1>3. part \in Partition /\ part.id = current[n].id
  BY <1>2, ChangedFacts DEF States
<1>4. UpdateAll(p, "blocking", part, Taken(n), m.client, n) /\ unused' = unused
  BY <1>1 DEF IspBack
<1>5. \A x \in Ids : Away(inbox, x) => Away(Taken(n), x)
  BY <1>2, TakenSameMail
<1> HIDE DEF part, m
<1>6. "blocking" \in Loops \ Deciding
  BY DEF Loops, Deciding
<1> QED BY <1>1, <1>2, <1>3, <1>4, <1>5, <1>6, UpdateReserves

LEMMA ForwardReserves ==
  ASSUME PromptState, OneAtATime, NEW n \in Nodes,
         NobodyOut(n) \/ \E f \in Nodes : Forward(n, f)
  PROVE  [Reservation!Next]_PartitionVars
<1> DEFINE m == Head(inbox[n])
<1>1. /\ Taken(n) \in Box /\ m.part.id \in Ids /\ m.client \in Clients /\ m.type = "isp"
      /\ inbox \in Box /\ inbox[n] # <<>> /\ proc \in ProcTable
  BY IspFacts, PromptFacts DEF NobodyOut, Forward, Receives
<1>2. m.part.id \in Open
  <2>1. ~Away(inbox, m.part.id)
    BY <1>1, TakenMail DEF Away, Carries
  <2> QED BY <1>1, <2>1, OpenFacts
<1>3. current' = current /\ unused' = unused
  BY DEF NobodyOut, Forward
<1> HIDE DEF m
<1>4. \A p \in Procs : Alike(proc'[p], proc[p])
  BY <1>1, ReplyOthers DEF NobodyOut, Forward, Alike, m
<1>5. ASSUME NEW x \in Ids, Away(inbox, x), x \notin Open
      PROVE  Away(inbox', x)
  <2>1. Away(Taken(n), x)
    BY <1>1, <1>5, TakenSameMail
  <2>2. ASSUME NEW f \in Nodes, Forward(n, f)
        PROVE  Away(inbox', x)
    <3> DEFINE isp == Isp(m.part, Nobody)
    <3>1. inbox' = Sent(Taken(n), f, isp)
      BY <2>2 DEF Forward, m
    <3>2. ~Carries(isp, x)
      BY <1>2, <1>5 DEF Carries, Isp
    <3> HIDE DEF isp
    <3> QED BY <1>1, <2>1, <3>1, <3>2, SentGrows, GrowsSameMail
  <2> QED BY <2>1, <2>2 DEF NobodyOut
<1> QED BY <1>3, <1>4, <1>5, QuietStep

LEMMA AskNextReserves ==
  ASSUME PromptState, OneAtATime, NEW p \in Procs, AskNext(p)
  PROVE  [Reservation!Next]_PartitionVars
<1>1. /\ proc[p] \in Waits /\ proc[p].pc \in Loops \cup {"dissolving"}
      /\ AskAll(p, proc[p], inbox) /\ inbox \in Box /\ proc \in ProcTable
  BY AskNextFacts, PromptFacts
<1>2. current' = current /\ unused' = unused
  BY DEF AskNext
<1>3. /\ proc' = [proc EXCEPT ![p] = proc'[p]] /\ proc'[p].pc = proc[p].pc
      /\ proc'[p].part = proc[p].part /\ \A x : SameMail(inbox, inbox', x)
  BY <1>1, AskAllFacts, AskAllMail
<1>4. \A q \in Procs : Alike(proc'[q], proc[q])
  BY <1>1, <1>3 DEF ProcTable, Alike
<1> QED BY <1>2, <1>3, <1>4, QuietStep DEF SameMail

(* The plans. *)
LEMMA NoSolutionReserves ==
  ASSUME PromptState, OneAtATime, NEW p \in Procs, proc[p].pc \in {"starting", "computing"},
         NoSolution(p), unused' = unused
  PROVE  [Reservation!Next]_PartitionVars
<1> DEFINE old == current[p[1]]
           part == Changed(old, "Growing")
<1>1. old \in Partition /\ Booked(p[1]) /\ inbox \in Box /\ Nobody \in Clients
  BY PlanIsWhole, PromptFacts, ProcsFacts DEF NoSolution
<1>2. part \in Partition /\ part.id = old.id
  BY <1>1, ChangedFacts DEF States
<1> HIDE DEF part
<1>3. ASSUME NEW f \in FirstOut(p[1]), UpdateAll(p, "growing", part, inbox, Nobody, f)
      PROVE  [Reservation!Next]_PartitionVars
  <2>1. f \in Nodes /\ "growing" \in Loops \cap Deciding /\ proc[p].pc \in Deciding
    BY DEF FirstOut, Loops, Deciding
  <2> QED BY <1>1, <1>2, <1>3, <2>1, UpdateReserves
<1>4. CASE proc' = [proc EXCEPT ![p] = Idle] /\ UNCHANGED <<current, inbox>>
  <2>1. proc'[p] = Idle /\ \A q \in Procs \ {p} : proc'[q] = proc[q]
    BY <1>4, MoveAlone
  <2>2. proc'[p].pc = "idle"
    BY <2>1 DEF Idle
  <2> QED BY <1>4, <2>1, <2>2, QuietStep DEF Alike, Deciding
<1> QED BY <1>3, <1>4 DEF NoSolution, part

LEMMA ComputeReserves ==
  ASSUME PromptState, OneAtATime, NEW p \in Procs, Compute(p) \/ Computed(p)
  PROVE  [Reservation!Next]_PartitionVars
<1>1. proc[p].pc \in {"starting", "computing"} /\ unused' = unused
  BY DEF Compute, Computed, Starting, Computing
<1>2. CASE NoSolution(p)
  BY <1>1, <1>2, NoSolutionReserves
<1>3. CASE proc' = [proc EXCEPT ![p] = Computing] /\ UNCHANGED <<current, inbox>>
  <2>1. proc'[p] = Computing /\ \A q \in Procs \ {p} : proc'[q] = proc[q]
    BY <1>3, MoveAlone
  <2>2. proc'[p].pc = "computing"
    BY <2>1 DEF Computing
  <2> QED BY <1>1, <1>3, <2>1, <2>2, QuietStep DEF Alike, Deciding
<1>4. ASSUME Booked(p[1]), UpdateAll(p, "finishing", Changed(current[p[1]], "Finishing"),
                                     inbox, Nobody, p[1])
      PROVE  [Reservation!Next]_PartitionVars
  <2> DEFINE part == Changed(current[p[1]], "Finishing")
  <2>1. /\ current[p[1]] \in Partition /\ inbox \in Box /\ Nobody \in Clients
        /\ p[1] \in Nodes
    BY <1>1, PlanIsWhole, PromptFacts, ProcsFacts
  <2>2. part \in Partition /\ part.id = current[p[1]].id
    BY <2>1, ChangedFacts DEF States
  <2>3. "finishing" \in Loops \ Deciding
    BY DEF Loops, Deciding
  <2>4. UpdateAll(p, "finishing", part, inbox, Nobody, p[1])
    BY <1>4
  <2> HIDE DEF part
  <2> QED BY <1>1, <1>4, <2>1, <2>2, <2>3, <2>4, UpdateReserves
<1> QED BY <1>2, <1>3, <1>4 DEF Compute, Computed

LEMMA TransmitReserves ==
  ASSUME PromptState, OneAtATime, NEW p \in Procs, Transmit(p)
  PROVE  [Reservation!Next]_PartitionVars
<1> DEFINE part == current[p[1]]
           isp == Isp(part, p)
           f == proc[p].next
<1>1. /\ proc[p].pc = "growing" /\ current' = current /\ unused' = unused
      /\ inbox' = Sent(inbox, f, isp)
      /\ proc' = [proc EXCEPT ![p] = [@ EXCEPT !.pc = "transmitting", !.asked = f,
                                               !.answer = "pending"]]
  BY DEF Transmit, Done
<1>2. /\ proc[p] \in Waits /\ f \in Nodes /\ inbox \in Box /\ part.id \in Ids
      /\ In(current, p[1], part.id)
  BY <1>1, PromptFacts DEF Loops, Uses, Waits, In, Booked
<1>3. proc'[p].pc = "transmitting" /\ \A q \in Procs \ {p} : proc'[q] = proc[q]
  BY <1>1, <1>2, PromptFacts DEF ProcTable, Waits
<1>4. part.id \in Open
  <2>1. Holding(p, part.id)
    BY <1>1, <1>2, HoldingFacts DEF Deciding
  <2> QED BY <1>2, <2>1, OpenFacts
<1>5. \A x : x # part.id => ~Carries(isp, x)
  BY DEF Carries, Isp
<1> HIDE DEF isp, f
<1>6. \A x \in Ids : Away(inbox, x) => Away(inbox', x) \/ x \in Open
  BY <1>1, <1>2, <1>4, <1>5, SentGrows, GrowsSameMail
<1> QED BY <1>1, <1>3, <1>6, QuietStep DEF Alike, Deciding

LEMMA LastStepsReserve ==
  ASSUME PromptState, OneAtATime, NEW p \in Procs,
         Confirm(p) \/ DissolveOthers(p) \/ EndPlan(p)
  PROVE  [Reservation!Next]_PartitionVars
<1>1. CASE Confirm(p)
  <2>1. /\ Booked(p[1]) /\ proc[p].pc = "finishing" /\ unused' = unused
        /\ UpdateAll(p, "confirming", current[p[1]], inbox, Nobody, p[1])
    BY <1>1 DEF Confirm, Done
  <2>2. /\ current[p[1]] \in Partition /\ inbox \in Box /\ Nobody \in Clients
        /\ p[1] \in Nodes
    BY <2>1, PromptFacts, ProcsFacts DEF Loops, Uses
  <2>3. "confirming" \in Loops \ Deciding
    BY DEF Loops, Deciding
  <2> QED BY <2>1, <2>2, <2>3, UpdateReserves
<1>2. CASE DissolveOthers(p)
  <2> DEFINE part == current[p[1]]
             w == Waiting("dissolving", part, part.nodes, Nobody, p[1])
  <2>1. /\ part \in Partition /\ inbox \in Box /\ proc \in ProcTable /\ p[1] \in Nodes
    BY <1>2, DoneIsWhole, PromptFacts DEF DissolveOthers, Loops
  <2>2. w \in Waits /\ w.pc = "dissolving"
    BY <2>1, WaitingType, ProcsFacts DEF Waiting, Partition
  <2>3. AskAll(p, w, inbox) /\ current' = current /\ unused' = unused
    BY <1>2 DEF DissolveOthers
  <2> HIDE DEF w
  <2>4. /\ proc' = [proc EXCEPT ![p] = proc'[p]] /\ proc'[p].pc = "dissolving"
        /\ \A x : SameMail(inbox, inbox', x)
    BY <2>1, <2>2, <2>3, AskAllFacts, AskAllMail
  <2>5. \A q \in Procs \ {p} : proc'[q] = proc[q]
    BY <2>4, MoveAlone
  <2> QED BY <2>3, <2>4, <2>5, QuietStep DEF SameMail, Alike, Deciding
<1>3. CASE EndPlan(p)
  <2>1. proc'[p] = Idle /\ \A q \in Procs \ {p} : proc'[q] = proc[q]
    BY <1>3, MoveAlone DEF EndPlan
  <2>2. proc'[p].pc = "idle"
    BY <2>1 DEF Idle
  <2> QED BY <1>3, <2>1, <2>2, QuietStep DEF EndPlan, Alike, Deciding
<1> QED BY <1>1, <1>2, <1>3

(* A node leaves a partition that its plan has dissolved on the others ...   *)
LEMMA DissolveSelfReserves ==
  ASSUME PromptState, OneAtATime, NEW p \in Procs, DissolveSelf(p)
  PROVE  [Reservation!Next]_PartitionVars
<1>1. /\ proc[p].pc = "dissolving" /\ inbox' = inbox /\ unused' = unused
      /\ current' = [current EXCEPT ![p[1]] = NoPartition]
  BY DEF DissolveSelf, Done
<1>2. PICK y \in Ids : y = current[p[1]].id /\ Holds(proc, current, p, y)
  BY <1>1, PromptFacts DEF Uses
<1>3. Away(inbox, y) /\ \A q \in Procs \ {p} : ~Holds(proc, current, q, y)
  BY <1>2, HoldOf DEF PromptState, PromptInv
<1>4. \A q \in Procs : ~Holding(q, y)
  BY <1>1, <1>3, HoldingFacts DEF Deciding
<1>5. proc'[p].pc = "idle" /\ \A q \in Procs \ {p} : proc'[q] = proc[q]
  <2>1. proc'[p] = Idle /\ \A q \in Procs \ {p} : proc'[q] = proc[q]
    BY MoveAlone DEF DissolveSelf
  <2> QED BY <2>1 DEF Idle
<1>6. \A k \in Nodes : \A x \in Ids : In(current', k, x) => In(current, k, x)
  BY <1>1, PromptFacts DEF PartTable, In
<1>7. Open' \subseteq Open
  BY <1>1, <1>5, <1>6, NothingOpens DEF Alike, Deciding
<1>8. y \notin Open /\ y \notin Open'
  BY <1>3, <1>4, <1>7, ClosedFacts
<1>9. p[1] \in Nodes /\ In(current, p[1], y)
  BY <1>1, <1>2, PromptFacts DEF Uses, In, Booked
<1> QED BY <1>1, <1>8, <1>9, NodeLeaves

(* ... or that nobody has, when it times out ...                             *)
LEMMA TimeoutReserves ==
  ASSUME PromptState, Prompt, OneAtATime, NEW n \in Nodes, CheckTimeout(n)
  PROVE  [Reservation!Next]_PartitionVars
<1>1. PICK y \in Ids : /\ y = current[n].id /\ In(current, n, y) /\ current[n] \in Partition
                       /\ Loose(inbox, proc, current, y)
  BY TimeoutIsLoose
<1> DEFINE d == Dissolution(y)
           ns == current[n].nodes
<1>2. /\ inbox' = SentAll(inbox, ns, Nodes \ {n}, d) /\ proc' = proc /\ unused' = unused
      /\ current' = [current EXCEPT ![n] = NoPartition]
  BY <1>1 DEF CheckTimeout
<1>3. inbox \in Box /\ ns \in Seq(Nodes) /\ d \in Message /\ \A x : ~Carries(d, x)
  BY <1>1, PromptFacts, MessageTypes, ProcsFacts DEF Partition, Dissolution, Carries
<1> HIDE DEF d, ns
<1>4. \A x \in Ids : Away(inbox, x) => Away(inbox', x)
  BY <1>2, <1>3, SentAllGrows, GrowsSameMail
<1>5. \A k \in Nodes : \A x \in Ids : In(current', k, x) => In(current, k, x)
  BY <1>2, PromptFacts DEF PartTable, In
<1>6. Open' \subseteq Open
  BY <1>2, <1>4, <1>5, NothingOpens DEF Alike
<1>7. y \notin Open /\ y \notin Open'
  BY <1>1, <1>6, ClosedFacts DEF Loose
<1> QED BY <1>1, <1>2, <1>7, NodeLeaves

(* ... and a free one starts a partition. *)
LEMMA OverloadingReserves ==
  ASSUME PromptState, OneAtATime, NEW n \in Nodes, OverloadingDetected(n)
  PROVE  [Reservation!Next]_PartitionVars
<1>1. PICK id \in unused :
        LET part == [id |-> id, leader |-> n, initiator |-> n, nodes |-> <<n>>,
                     state |-> "Growing", version |-> 0]
        IN /\ unused' = unused \ {id}
           /\ current' = [current EXCEPT ![n] = part]
           /\ inbox' \in IspSent(inbox, part)
  BY DEF OverloadingDetected
<1> DEFINE part == [id |-> id, leader |-> n, initiator |-> n, nodes |-> <<n>>,
                    state |-> "Growing", version |-> 0]
<1>2. unused' = unused \ {id} /\ current' = [current EXCEPT ![n] = part]
      /\ proc' = proc /\ ~Booked(n)
  BY <1>1 DEF OverloadingDetected
<1>3. /\ id \in Ids /\ current \in PartTable /\ Fresh(inbox, proc, current, id)
  BY PromptFacts DEF PromptState, PromptInv, TypeOK
<1>4. part.id = id /\ part # NoPartition
  BY DEF NoPartition
<1> HIDE DEF part
<1>5. /\ \A k \in Nodes : \A x \in Ids :
            In(current', k, x) <=> In(current, k, x) \/ (k = n /\ x = id)
      /\ \A x \in Ids : ~In(current, n, x)
      /\ \A k \in Nodes : ~In(current, k, id)
  BY <1>2, <1>3, <1>4 DEF PartTable, In, Booked, Fresh
<1>6. /\ Members' = [Members EXCEPT ![id] = {n}] /\ Reservation!Free(n)
      /\ n \in Members'[id] /\ n \notin Members[id]
  <2> DEFINE before == [x \in Ids |-> {k \in Nodes : In(current, k, x)}]
             after == [x \in Ids |-> {k \in Nodes : In(current', k, x)}]
  <2>1. \A x \in Ids : after[x] = IF x = id THEN {n} ELSE before[x]
    BY <1>3, <1>5
  <2>2. Members = before /\ Members' = after
    BY MembersFacts
  <2>3. Members' = [Members EXCEPT ![id] = {n}]
    BY <1>3, <2>1, <2>2
  <2>4. \A x \in Ids : n \notin Members[x]
    BY <1>5, MembersFacts
  <2>5. n \in Members'[id]
    BY <1>3, <1>5, MembersFacts
  <2> QED BY <1>3, <2>3, <2>4, <2>5 DEF Reservation!Free
<1>7. PICK z : \A x \in Ids \ {z} : /\ Members'[x] = Members[x]
                                    /\ x \in Open' <=> x \in Open
                                    /\ x \in InPlan' <=> x \in InPlan
  BY OnePartition
<1>8. z = id
  BY <1>3, <1>6, <1>7
<1>9. id \notin Open /\ id \notin InPlan
  BY <1>3, ClosedFacts DEF Fresh
<1>10. id \notin InPlan'
  <2> SUFFICES ASSUME NEW q \in Procs, proc'[q].pc = "computing", In(current', q[1], id)
               PROVE  FALSE
    BY <1>3, OpenFacts
  <2>1. q[1] \in Nodes /\ Booked(q[1])
    BY <1>2, PromptFacts DEF Uses
  <2> QED BY <1>2, <1>3, <1>5, <2>1
<1>11. InPlan' = InPlan /\ Open' \in {Open, Open \cup {id}}
  BY <1>7, <1>8, <1>9, <1>10, SetsAreOfIds
<1>12. Reservation!Start(n, id)
  BY <1>2, <1>6, <1>11 DEF Reservation!Start
<1> QED BY <1>3, <1>12 DEF Reservation!Next

LEMMA PartitionsNext ==
  ASSUME PromptState, Prompt, [Next]_vars
  PROVE  [Reservation!Next]_PartitionVars
<1>1. OneAtATime
  BY FollowedNext
<1>2. ASSUME NEW n \in Nodes, ServerStep(n)
      PROVE  [Reservation!Next]_PartitionVars
  <2>1. Server(n) \in Procs
    BY ProcsFacts
  <2>2. CASE IsStillValid(n) \/ Dissolve(n) \/ SetCurrentPartition(n)
    BY <1>1, <2>2, MessagesReserve, DissolveReserves
  <2>3. CASE IspWhenFree(n) \/ Join(n) \/ IspBack(n)
    BY <1>1, <2>3, IspWhenFreeReserves, JoinReserves, IspBackReserves
  <2>4. CASE Refuse(n) \/ EndBlocking(n) \/ \E k \in 1..MaxPlans : StartPlan(n, k)
    BY <1>1, <2>4, EndsReserve
  <2>5. CASE NobodyOut(n) \/ \E f \in Nodes : Forward(n, f)
    BY <1>1, <2>5, ForwardReserves
  <2>6. CASE AskNext(Server(n))
    BY <1>1, <2>1, <2>6, AskNextReserves
  <2> QED BY <1>2, <2>1, <2>2, <2>3, <2>4, <2>5, <2>6, BlockedNeverMeet, NoneFails
          DEF ServerStep
<1>3. ASSUME NEW p \in Procs, PlanStep(p)
      PROVE  [Reservation!Next]_PartitionVars
  <2>1. CASE Compute(p) \/ Computed(p) \/ AskNext(p) \/ Transmit(p)
    BY <1>1, <2>1, ComputeReserves, AskNextReserves, TransmitReserves
  <2>2. CASE Confirm(p) \/ DissolveOthers(p) \/ DissolveSelf(p) \/ EndPlan(p)
    BY <1>1, <2>2, LastStepsReserve, DissolveSelfReserves
  <2> QED BY <1>3, <2>1, <2>2, NoneFails DEF PlanStep
<1>4. CASE UNCHANGED vars
  BY <1>4 DEF vars, PartitionVars, Members, Open, InPlan, Holding, Booked
<1>5. ASSUME NEW n \in Nodes, OverloadingDetected(n) \/ CheckTimeout(n)
      PROVE  [Reservation!Next]_PartitionVars
  BY <1>1, <1>5, OverloadingReserves, TimeoutReserves
<1> QED BY <1>2, <1>3, <1>4, <1>5, ProcsFacts DEF Next

-----------------------------------------------------------------------------
(* What it is for.                                                           *)

LEMMA SnoozedByPlan ==
  ASSUME PromptState, NEW n \in Nodes, snoozed[n] # {}
  PROVE  /\ Booked(n) /\ current[n].leader = n /\ Range(current[n].nodes) = snoozed[n]
         /\ \A m \in snoozed[n] : m \in Nodes /\ current[m] = current[n]
<1>1. PICK p \in Plans : p[1] = n /\ proc[p].pc = "computing"
  BY DEF PromptState, PromptInv, Planned
<1>2. p \in Procs
  BY ProcsFacts DEF Plans
<1>3. snoozed[n] = Range(current[n].nodes)
  BY <1>1 DEF PromptState, PromptInv, Planned
<1>4. Whole(current, current[n]) /\ current[n].leader = n /\ current[n] \in Partition
  BY <1>1, <1>2, PlanIsWhole
<1>5. Booked(n)
  BY <1>4, NoPartitionIsNone DEF Booked
<1>6. Range(current[n].nodes) \subseteq Nodes
  BY <1>4 DEF Partition, Range
<1> QED BY <1>3, <1>4, <1>5, <1>6 DEF Whole

(* When messages are prompt, two agents never compute and apply plans for    *)
(* partitions that share a node.                                             *)
THEOREM PlansShareNoNode ==
  ASSUME Prompt
  PROVE  Spec => []PlansAreDisjoint
<1>1. PromptState => PlansAreDisjoint
  <2> SUFFICES ASSUME PromptState, NEW m \in Nodes, NEW n \in Nodes, m # n,
                      NEW x \in snoozed[m] \cap snoozed[n]
               PROVE  FALSE
    BY DEF PlansAreDisjoint
  <2>1. current[x] = current[m] /\ current[m].leader = m
    BY SnoozedByPlan
  <2>2. current[x] = current[n] /\ current[n].leader = n
    BY SnoozedByPlan
  <2> QED BY <2>1, <2>2
<1> QED BY <1>1, PromptCorrect, PTL

(* While a plan is computed and applied, the agent leads the partition it    *)
(* was asked for, and all the members have the same version of it.           *)
THEOREM PlansKeepTheirMembers ==
  ASSUME Prompt
  PROVE  Spec => []PlanHoldsItsMembers
<1>1. PromptState => PlanHoldsItsMembers
  BY SnoozedByPlan DEF PlanHoldsItsMembers
<1> QED BY <1>1, PromptCorrect, PTL

(* A plan application process finds a partition that its node leads each     *)
(* time it uses currentPartition: none of its uses raises an exception.      *)
THEOREM PlansLead ==
  ASSUME Prompt
  PROVE  Spec => []PlanLeadsItsPartition
<1>1. PromptState => PlanLeadsItsPartition
  <2> SUFFICES ASSUME PromptState, NEW p \in Plans, proc[p].pc \notin {"idle", "transmitting"}
               PROVE  Booked(p[1]) /\ current[p[1]].leader = p[1]
    BY DEF PlanLeadsItsPartition, Plans
  <2>1. p \in Procs
    BY ProcsFacts DEF Plans
  <2>2. proc[p].pc \in Uses \ {"joining", "blocking"}
    BY DEF PromptState, PromptInv, Kinds, Uses, Loops
  <2>3. HeldBy(current, p, proc[p]) /\ Booked(p[1])
    BY <2>1, <2>2, PromptFacts
  <2> QED BY <2>2, <2>3 DEF HeldBy, Uses, Loops
<1> QED BY <1>1, PromptCorrect, PTL

(* Two nodes that have the same version of a partition agree on everything.  *)
THEOREM VersionsCorrect ==
  ASSUME Prompt
  PROVE  Spec => []VersionsAgree
<1>1. PromptState => VersionsAgree
  <2> SUFFICES ASSUME PromptState, NEW m \in Nodes, NEW n \in Nodes, Booked(m), Booked(n),
                      current[m].id = current[n].id, current[m].version = current[n].version
               PROVE  current[m] = current[n]
    BY DEF VersionsAgree
  <2> DEFINE x == current[m].id
  <2>1. /\ current[m] \in Partition /\ current[n] \in Partition /\ x \in Ids
        /\ current \in PartTable /\ proc \in ProcTable
    BY PromptFacts, PartitionIsBooked DEF PartTable, Partition
  <2>2. In(current, m, x) /\ In(current, n, x)
    BY DEF In, Booked
  <2>3. Followed(inbox, proc, current, x)
    BY <2>1 DEF PromptState, PromptInv
  <2> HIDE DEF x
  <2>4. CASE Loose(inbox, proc, current, x)
    BY <2>2, <2>4 DEF Loose
  <2>5. ASSUME NEW part \in Partition, Whole(current, part), part.id = x
        PROVE  current[m] = current[n]
    BY <2>2, <2>5, WholeIsIn
  <2>6. CASE Mailed(inbox, proc, current, x)
    <3>1. PICK part \in Partition : Sole(inbox, x, part) /\ Whole(current, part)
      BY <2>6 DEF Mailed
    <3>2. part.id = x
      BY <3>1 DEF Sole, Carries
    <3> QED BY <2>5, <3>1, <3>2
  <2>7. CASE Held(inbox, proc, current, x)
    <3>1. PICK p \in Procs : Holds(proc, current, p, x) /\ HeldBy(current, p, proc[p])
      BY <2>7 DEF Held
    <3> DEFINE w == proc[p]
    <3>2. /\ w.pc \in Loops \cup {"validating", "dissolving"} =>
               w.part \in Partition /\ w.part.id = x
          /\ w.pc \in Uses => current[p[1]] \in Partition /\ current[p[1]].id = x
      BY <2>1, <3>1, HeldParts
    <3>3. CASE w.pc = "validating"
      BY <2>5, <3>1, <3>2, <3>3 DEF HeldBy
    <3>4. CASE w.pc \in {"starting", "computing"}
      BY <2>5, <3>1, <3>2, <3>4 DEF HeldBy, Uses
    <3>5. CASE w.pc \in Loops
      <4>1. Spread(current, p, w) /\ w.part.id = x /\ w.part \in Partition
        BY <3>1, <3>2, <3>5 DEF HeldBy
      <4>2. /\ m \in Range(w.part.nodes) /\ n \in Range(w.part.nodes)
            /\ current[m] = w.part \/ current[m].version < w.part.version
            /\ current[n] = w.part \/ current[n].version < w.part.version
        BY <2>2, <4>1 DEF Spread
      <4>3. current[m].version \in Nat
        BY <2>1 DEF Partition
      <4>4. CASE current[m] = w.part \/ current[n] = w.part
        BY <4>2, <4>3, <4>4
      <4> QED BY <4>1, <4>2, <4>4 DEF Spread
    <3>6. CASE w.pc = "dissolving"
      <4>1. current[p[1]].id = x
        BY <3>2, <3>6 DEF Uses
      <4> QED BY <2>2, <3>1, <3>6, <4>1 DEF HeldBy
    <3> QED BY <3>1, <3>3, <3>4, <3>5, <3>6 DEF Holds, Uses
  <2> QED BY <2>3, <2>4, <2>6, <2>7 DEF Followed
<1> QED BY <1>1, PromptCorrect, PTL

(* No set of servers wait for each other: the one a server asks is idle, and *)
(* will take the request.                                                    *)
THEOREM NoServersWaitInACircle ==
  ASSUME Prompt
  PROVE  Spec => []NoCircularWait
<1>1. PromptState => NoCircularWait
  <2> SUFFICES ASSUME PromptState, NEW S \in (SUBSET Nodes) \ {{}},
                      \A n \in S : LET w == proc[Server(n)]
                                   IN w # Idle /\ w.answer = "pending" /\ w.asked \in S
               PROVE  FALSE
    BY DEF NoCircularWait
  <2>1. PICK n \in S : TRUE
    OBVIOUS
  <2>2. n \in Nodes
    OBVIOUS
  <2>3. proc[Server(proc[Server(n)].asked)] = Idle
    BY <2>1, <2>2, AskedServerIsIdle
  <2> QED BY <2>1, <2>3
<1> QED BY <1>1, PromptCorrect, PTL

(* No node is twice in a partition: only a node out of it joins it.          *)
THEOREM MembersAreOnce ==
  ASSUME Prompt
  PROVE  Spec => []MembersAreDistinct
<1>1. PromptState => MembersAreDistinct
  BY DEF PromptState, PromptInv
<1> QED BY <1>1, PromptCorrect, PTL

(* A partition is sent while it grows, and is not sent any more once it is   *)
(* blocked, so that two partitions are never merged.                         *)
THEOREM BlockedStay ==
  ASSUME Prompt
  PROVE  Spec => []BlockedIspsStay
<1>1. PromptState => BlockedIspsStay
  <2> SUFFICES ASSUME PromptState, NEW n \in Nodes, NEW i \in DOMAIN inbox[n],
                      inbox[n][i].type = "isp"
               PROVE  inbox[n][i].part.state = "Growing"
    BY DEF BlockedIspsStay
  <2> DEFINE m == inbox[n][i]
             x == m.part.id
  <2>1. m \in Message /\ m.part \in Partition /\ x \in Ids /\ Carries(m, x)
    <3>1. m \in Message
      BY PromptFacts, ClientTypes
    <3> QED BY <3>1 DEF Message, Partition, Carries
  <2>2. Followed(inbox, proc, current, x) /\ ~Away(inbox, x)
    BY <2>1 DEF PromptState, PromptInv, Away
  <2>3. PICK part \in Partition : Sole(inbox, x, part) /\ part.state = "Growing"
    BY <2>2 DEF Followed, Loose, Held, Mailed
  <2>4. m.part = part
    BY <2>1, <2>3 DEF Sole
  <2> QED BY <2>3, <2>4
<1> QED BY <1>1, PromptCorrect, PTL

(* When messages are prompt, the agents keep what Partitions promises: nodes *)
(* are reserved in two phases, and stay as they are during a plan.           *)
THEOREM PartitionsAreReserved ==
  ASSUME Prompt
  PROVE  Spec => ReservesInTwoPhases
<1>1. Init => Reservation!Init
  <2> SUFFICES ASSUME Init PROVE Reservation!Init
    OBVIOUS
  <2>1. /\ \A n \in Nodes : current[n] = NoPartition /\ inbox[n] = <<>>
        /\ \A p \in Procs : proc[p].pc = "idle"
    BY DEF Init, Idle
  <2>2. Members = [x \in Ids |-> {}]
    BY <2>1, MembersFacts DEF In
  <2>3. Open = {} /\ InPlan = {}
    BY <2>1 DEF Open, InPlan, Holding
  <2> QED BY <2>2, <2>3 DEF Init, Reservation!Init
<1>2. PromptState /\ [Next]_vars => [Reservation!Next]_PartitionVars
  BY PartitionsNext
<1> QED BY <1>1, <1>2, PromptCorrect, PTL
        DEF Spec, ReservesInTwoPhases, Reservation!Spec, PartitionVars

===============================================================================
