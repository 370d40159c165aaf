----------------------------- MODULE EventQueues -----------------------------
(***************************************************************************)
(* The injector's queues of events (injector/Injector.java): the           *)
(* constructor draws the loads, the faults of the hosts and the            *)
(* suspensions of the VMs, each queue in the order of its own clock, sorts *)
(* and merges them; main2 plays the result.                                *)
(*                                                                         *)
(* Times are quarters of a second: the comparators that round a difference *)
(* of times to an integer see the same as with the code's real times.      *)
(* What playing an event does to the infrastructure is in Infrastructure;  *)
(* here a host is down or up, a VM asleep or awake.                        *)
(***************************************************************************)
EXTENDS Integers, Sequences, SequencesExt, FiniteSets

CONSTANTS
  Hosts, VMs,      (* what the events are about                              *)
  Services,        (* the service nodes of Snooze, the leader's first        *)
  Modes,           (* how the faults are generated, see FaultModes           *)
  Duration,        (* simulator.duration                                     *)
  CrashDuration,   (* simulator.crashduration: of outages and suspensions    *)
  GLFaultPeriod,   (* snooze.glf-period, in the mode "leader"                *)
  GMFaultPeriod,   (* snooze.gmf-period                                      *)
  MaxDraws         (* bound: random draws of all the queues together         *)

(* generateFaultQueue, or generateSnoozeFaultQueue without and with faults   *)
(* of the leader.                                                            *)
FaultModes == {"random", "managers", "leader"}

ASSUME NamesAssumption == Hosts \cap VMs = {} /\ Services \in Seq(Hosts)
ASSUME ModesAssumption ==
  Modes \subseteq FaultModes /\ ("leader" \in Modes => Services # <<>>)
ASSUME DurationsAssumption ==
  /\ {Duration, CrashDuration, MaxDraws} \subseteq Nat \ {0}
  /\ {GLFaultPeriod, GMFaultPeriod} \subseteq 1..(Duration - 1)

VARIABLES
  mode,        (* which of the two methods generates the faults             *)
  stage,       (* the queue that is being generated, then "playing"         *)
  currentTime, (* of the queue that is being generated                      *)
  loadQueue, faultQueue, vmQueue,
  evtQueue,    (* what is left of the merged queue                          *)
  clock,       (* Msg.getClock                                              *)
  off,         (* the hosts and VMs that the events played have turned off  *)
  gaveUp,      (* an event met a VM that was not in the state it expects    *)
  drawn        (* history: what was drawn, <<time, host or VM>>             *)

queues == <<loadQueue, faultQueue, vmQueue>>
vars   == <<mode, stage, currentTime, queues, evtQueue, clock, off, gaveUp, drawn>>

Stages == {"loads", "leader faults", "faults", "fluctuations", "playing"}

(* An event is about a host or a VM; state is TRUE for a host that is turned *)
(* on or a VM that is resumed, and of no use for a load.                     *)
Events == [time : Nat, what : Hosts \cup VMs, kind : {"load", "switch"}, state : BOOLEAN]

LoadEvent(t, v)     == [time |-> t, what |-> v, kind |-> "load", state |-> TRUE]
Switch(t, x, state) == [time |-> t, what |-> x, kind |-> "switch", state |-> state]

TypeOK ==
  /\ mode \in Modes
  /\ stage \in Stages
  /\ currentTime \in Nat
  /\ {loadQueue, faultQueue, vmQueue, evtQueue} \subseteq Seq(Events)
  /\ \A i \in DOMAIN faultQueue : faultQueue[i].time < Duration
  /\ clock \in Nat
  /\ off \subseteq Hosts \cup VMs
  /\ gaveUp \in BOOLEAN
  /\ drawn \subseteq Nat \X (Hosts \cup VMs)

-----------------------------------------------------------------------------
(* Sorting: java.util sorts fewer than 32 elements by extending the initial  *)
(* run by binary insertion.                                                  *)

(* The comparators. *)
CompareExactly(e, f) == e.time - f.time
CompareOneSided(e, f) == IF e.time > f.time THEN 1 ELSE 0
CompareRounded(e, f) == (e.time - f.time + 2) \div 4

Compare(by, e, f) == IF by = "exact" THEN CompareExactly(e, f) ELSE CompareRounded(e, f)

(* The length of the ascending, or strictly descending, run at the start. *)
RunLength(q, by) ==
  LET falls(i) == Compare(by, q[i], q[i - 1]) < 0
  IN CHOOSE n \in 2..Len(q) :
       /\ \A i \in 2..n : falls(i) = falls(2)
       /\ n < Len(q) => falls(n + 1) # falls(2)

(* The initial run, in ascending order. *)
FirstRun(q, by) ==
  LET run == SubSeq(q, 1, RunLength(q, by))
  IN IF Compare(by, q[2], q[1]) < 0 THEN Reverse(run) ELSE run

(* How binarySort finds where to insert e into q: from left to right.        *)
Search(q, e, by) ==
  LET search[s \in (0..Len(q)) \X (0..Len(q))] ==
        LET left == s[1]  right == s[2]  mid == (left + right) \div 2
        IN IF left >= right THEN left
           ELSE IF Compare(by, e, q[mid + 1]) < 0 THEN search[<<left, mid>>]
                ELSE search[<<mid + 1, right>>]
  IN search

InsertionPoint(q, e, by) == Search(q, e, by)[<<0, Len(q)>>]
Inserted(q, e, by) == InsertAt(q, InsertionPoint(q, e, by) + 1, e)

(* The first k elements of q, from n of them which are sorted.               *)
Insertions(q, n, sorted, by) ==
  LET done[k \in n..Len(q)] ==
        IF k = n THEN sorted ELSE Inserted(done[k - 1], q[k], by)
  IN done

Sorted(q, by) ==
  IF Len(q) < 2 THEN q
  ELSE Insertions(q, RunLength(q, by), FirstRun(q, by), by)[Len(q)]

-----------------------------------------------------------------------------
Init ==
  /\ mode \in Modes
  /\ stage = "loads"
  /\ currentTime = 0
  /\ loadQueue = <<>> /\ faultQueue = <<>> /\ vmQueue = <<>> /\ evtQueue = <<>>
  /\ clock = 0
  /\ off = {}
  /\ gaveUp = FALSE
  /\ drawn = {}

(* The clock of a queue advances by an exponential law: by any amount.       *)
Draw(t) ==
  /\ t > currentTime
  /\ currentTime' = t
  /\ Len(loadQueue) + Cardinality(drawn) < MaxDraws
  /\ UNCHANGED <<mode, stage, evtQueue, clock, off, gaveUp>>

(* The loops of generateSnoozeFaultQueue have a period.                      *)
Advance(period) ==
  /\ currentTime + period < Duration
  /\ currentTime' = currentTime + period
  /\ UNCHANGED <<mode, stage, evtQueue, clock, off, gaveUp>>

(* generateLoadQueue *)
DrawLoad(t, v) ==
  /\ stage = "loads"
  /\ Draw(t)
  /\ loadQueue' = Append(loadQueue, LoadEvent(t, v))
  /\ UNCHANGED <<faultQueue, vmQueue, drawn>>

(* ifStillOffUpdate and ifStillSuspendedUpdate look from the end of the      *)
(* queue for a host or VM that is turned on again, but not further than an   *)
(* event that turns something on before the current time.                    *)
AnyToTurnOn(q, x, t) == {i \in DOMAIN q : q[i].state /\ q[i].what = x}
ToTurnOn(q, x, t) ==
  {i \in DOMAIN q :
     /\ q[i].state /\ q[i].what = x
     /\ \A j \in i..Len(q) : q[j].state => q[j].time >= t}

Postponed(q, x, t) ==
  IF ToTurnOn(q, x, t) = {} THEN Append(q, Switch(t, x, FALSE))
  ELSE RemoveAt(q, CHOOSE i \in ToTurnOn(q, x, t) : \A j \in ToTurnOn(q, x, t) : j <= i)

(* The host is only turned on again if that falls into the simulation.       *)
AlwaysBack(t, h) == <<Switch(t + CrashDuration, h, TRUE)>>
Back(t, h) == IF t + CrashDuration < Duration THEN <<Switch(t + CrashDuration, h, TRUE)>>
                                              ELSE <<>>

Fault(t, h) ==
  /\ faultQueue' = Postponed(faultQueue, h, t) \o Back(t, h)
  /\ drawn' = drawn \cup {<<t, h>>}
  /\ UNCHANGED <<loadQueue, vmQueue>>

(* generateFaultQueue *)
DrawFault(t, h) ==
  /\ stage = "faults" /\ mode = "random"
  /\ Draw(t)
  /\ Fault(t, h)

(* generateSnoozeFaultQueue: first the leader, then one of the service nodes *)
(* at each period.  If the leader has faults of its own there is one node    *)
(* less to choose from, which is the last one and not the leader's.          *)
DrawLeaderFault ==
  /\ stage = "leader faults"
  /\ Advance(GLFaultPeriod)
  /\ Fault(currentTime', Head(Services))

DrawManagerFault(index) ==
  /\ stage = "faults" /\ mode # "random"
  /\ mode = "leader" => index < Len(Services)
  /\ Advance(GMFaultPeriod)
  /\ Fault(currentTime', Services[index])

(* generateVMFluctuationQueue *)
DrawFluctuation(t, v) ==
  /\ stage = "fluctuations"
  /\ Draw(t)
  /\ vmQueue' = Append(Postponed(vmQueue, v, t), Switch(t + CrashDuration, v, TRUE))
  /\ drawn' = drawn \cup {<<t, v>>}
  /\ UNCHANGED <<loadQueue, faultQueue>>

(* The next queue is generated; the one of the faults is sorted.            *)
NextQueue ==
  /\ \/ /\ stage = "loads"
        /\ stage' = IF mode = "leader" THEN "leader faults" ELSE "faults"
        /\ UNCHANGED queues
     \/ /\ stage = "leader faults" /\ stage' = "faults"
        /\ currentTime + GLFaultPeriod >= Duration
        /\ UNCHANGED queues
     \/ /\ stage = "faults" /\ stage' = "fluctuations"
        /\ mode # "random" => currentTime + GMFaultPeriod >= Duration
        /\ faultQueue' = Sorted(faultQueue, "exact")
        /\ UNCHANGED <<loadQueue, vmQueue>>
  /\ currentTime' = 0
  /\ UNCHANGED <<mode, evtQueue, clock, off, gaveUp, drawn>>

(* mergeQueues *)
Merge ==
  /\ stage = "fluctuations" /\ stage' = "playing"
  /\ vmQueue' = Sorted(vmQueue, "rounded")
  /\ evtQueue' = Sorted(loadQueue \o faultQueue \o vmQueue', "rounded")
  /\ UNCHANGED <<mode, currentTime, loadQueue, faultQueue, clock, off, gaveUp, drawn>>

(* main2 plays the first event unless its time is past the duration; it does *)
(* not wait for an event that is late.                                       *)
Play ==
  LET e == Head(evtQueue)
  IN /\ stage = "playing"
     /\ evtQueue # <<>>
     /\ e.time < Duration
     /\ clock' = IF e.time > clock THEN e.time ELSE clock
     /\ evtQueue' = Tail(evtQueue)
     /\ off' = IF e.kind = "load" THEN off
               ELSE IF e.state THEN off \ {e.what} ELSE off \cup {e.what}
     /\ gaveUp' = (gaveUp \/ (e.kind = "switch" /\ e.what \in VMs /\ (e.what \in off <=> ~e.state)))
     /\ UNCHANGED <<mode, stage, currentTime, queues, drawn>>

Next ==
  \/ \E t \in 1..(Duration - 1) :
       \/ \E v \in VMs : DrawLoad(t, v) \/ DrawFluctuation(t, v)
       \/ \E h \in Hosts : DrawFault(t, h)
  \/ DrawLeaderFault
  \/ \E i \in DOMAIN Services : DrawManagerFault(i)
  \/ NextQueue
  \/ Merge
  \/ Play

Spec == Init /\ [][Next]_vars

-----------------------------------------------------------------------------
(* Whether x should be off at time t: one of its outages covers t. *)
Out(x, t) == \E d \in drawn : d[2] = x /\ d[1] <= t /\ t < d[1] + CrashDuration

(* What the events of q up to time t make of x: the last of them turns it off. *)
UpTo(q, x, t) == {i \in DOMAIN q : q[i].what = x /\ q[i].kind = "switch" /\ q[i].time <= t}
LastOf(q, x, t) ==
  \E i \in UpTo(q, x, t) : ~q[i].state /\ \A j \in UpTo(q, x, t) : j <= i

(* At any time of the simulation the queue of the faults, once sorted, has   *)
(* turned off exactly the hosts that a fault struck less than the duration   *)
(* of an outage ago, however faults overlap and run past the end             *)
(* (ifStillOffUpdate: "we should remove the next On event and postpone it"). *)
(* The leader is not counted if it has faults of its own: the loop over the  *)
(* managers ("only consider GMs") draws for it as well.                      *)
FaultsAsDrawn ==
  stage \in {"fluctuations", "playing"} =>
    \A h \in Hosts, t \in 0..(Duration - 1) :
      (mode = "leader" => h # Head(Services)) => (LastOf(faultQueue, h, t) <=> Out(h, t))

(* The event i of q is the first about its host or VM, and turns it off, or  *)
(* does the contrary of the one before.                                      *)
Alternates(q, i) ==
  LET others == {j \in DOMAIN q : j # i /\ q[j].what = q[i].what}
  IN \/ ~q[i].state /\ \A j \in others : j > i
     \/ \E j \in others :
          /\ j < i /\ q[j].state # q[i].state /\ q[j].time < q[i].time
          /\ \A k \in others : k <= j \/ k > i

(* In the order in which they were generated the events of a VM alternate,   *)
(* from a suspension, in increasing time, and suspend it when they should    *)
(* (ifStillSuspendedUpdate).                                                 *)
FluctuationsAlternate ==
  stage = "fluctuations" =>
    /\ \A i \in DOMAIN vmQueue : Alternates(vmQueue, i)
    /\ \A v \in VMs, t \in 0..(Duration - 1) : LastOf(vmQueue, v, t) <=> Out(v, t)

(* If everything happens at whole seconds, as the length of an outage always *)
(* does (getCrashDuration is an int) and times drawn by a law need not, then *)
(* whenever the injector has played what is due exactly the hosts and VMs    *)
(* are off that should be, and no event finds its VM in the wrong state      *)
(* (mergeQueues, main2).                                                     *)
WholeSeconds ==
  /\ CrashDuration % 4 = 0
  /\ \A d \in drawn : d[1] % 4 = 0
  /\ \A i \in DOMAIN loadQueue : loadQueue[i].time % 4 = 0
PlayedAsDrawn ==
  stage = "playing" /\ mode # "leader" /\ WholeSeconds =>
    /\ ~gaveUp
    /\ (evtQueue # <<>> => Head(evtQueue).time > clock)
         => off = {x \in Hosts \cup VMs : Out(x, clock)}

-----------------------------------------------------------------------------
(* What comments and messages of the source say, and the code does not do.   *)

(* XVM.suspend: "You are trying to suspend ... that is an already suspended  *)
(* VM." The injector alone suspends VMs and alternates its events.           *)
NoGiveUp == ~gaveUp

=============================================================================
