------------------------------- MODULE FirstFit -------------------------------
(***************************************************************************)
(* How LazyFirstFitDecreased and OptimisticFirstFitDecreased compute a plan *)
(* (scheduling/centralized/ffd): VMs are taken out of the overloaded hosts, *)
(* sorted, and each is put back on the first host that has room for it.     *)
(* No time passes meanwhile: a behaviour is one computation, over a         *)
(* configuration that does not change.  The demand that XHost keeps for     *)
(* itself is taken to be right, which InfrastructureProofs shows when no    *)
(* host stops.                                                              *)
(***************************************************************************)
EXTENDS Integers, Sequences, SequencesExt, Sums

CONSTANTS
  NbHosts,      (* the hosting hosts, in the order of their collection      *)
  NbVMs,        (* the running VMs, in the order of their names             *)
  Loads,        (* the CPU demands of a VM                                  *)
  RamSizes,     (* the memory sizes of a VM                                 *)
  CPUCapacity,  (* of every host                                            *)
  MemSize,      (* of every host                                            *)
  Teams         (* the sets of hosts a scheduler may have to check          *)

ASSUME FirstFitAssumption ==
  /\ NbHosts \in Nat \ {0} /\ NbVMs \in Nat
  /\ Loads \subseteq Nat /\ RamSizes \subseteq Nat
  /\ CPUCapacity \in Nat /\ MemSize \in Nat
  /\ Teams \subseteq SUBSET (1..NbHosts)

Hosts == 1..NbHosts
VMs == 1..NbVMs

VARIABLES
  given,        (* what the computation is about, and its settings          *)
  overloaded,   (* the overloaded hosts still to be relieved                *)
  toSchedule,   (* the VMs taken out, in the order of the TreeSet           *)
  predicted,    (* the CPU and memory demand expected of each host          *)
  migrations,   (* the plan so far                                          *)
  state         (* ComputingResult.state, once there is a result            *)

vars == <<given, overloaded, toSchedule, predicted, migrations, state>>

Demand == [cpu : Int, mem : Int]
Given == [lazy : BOOLEAN, useLoad : BOOLEAN, hostsToCheck : Teams,
          at : [VMs -> Hosts], load : [VMs -> Loads], ram : [VMs -> RamSizes]]

TypeOK ==
  /\ given \in Given
  /\ overloaded \subseteq given.hostsToCheck
  /\ toSchedule \in Seq(VMs)
  /\ predicted \in [Hosts -> Demand]
  /\ migrations \subseteq [vm : VMs, dest : Hosts]
  /\ state \in {"none", "SUCCESS", "RECONFIGURATION_FAILED", "NO_RECONFIGURATION_NEEDED"}

-----------------------------------------------------------------------------
(* What a set of VMs asks of its host, given the configuration g: the sum of  *)
(* their demands.                                                            *)
DemandOf(g, vms) ==
  [cpu |-> Cardinality(Units(g.load, vms)), mem |-> Cardinality(Units(g.ram, vms))]
Runnings(g, h) == {v \in VMs : g.at[v] = h}
Fits(d) == d.cpu <= CPUCapacity /\ d.mem <= MemSize

Plus(d, v) == [cpu |-> d.cpu + given.load[v], mem |-> d.mem + given.ram[v]]
MinusCPU(d, v) == [cpu |-> d.cpu - given.load[v], mem |-> d.mem]
Minus(d, v) == [cpu |-> d.cpu - given.load[v], mem |-> d.mem - given.ram[v]]

Overloaded(g) == {h \in g.hostsToCheck : ~Fits(DemandOf(g, Runnings(g, h)))}

Init ==
  /\ given \in Given
  /\ overloaded = Overloaded(given)
  /\ toSchedule = <<>>
  /\ predicted = [h \in Hosts |-> DemandOf(given, Runnings(given, h))]
  /\ migrations = {}
  /\ state = "none"

(* XVMComparator(decreasing): getLoad and getCPUDemand are the same field.   *)
Compare(v, w) ==
  CASE given.load[v] # given.load[w] /\ given.useLoad  -> (-given.load[v]) - given.load[w]
    [] given.load[v] # given.load[w] /\ ~given.useLoad -> given.load[w] - given.load[v]
    [] given.load[v] = given.load[w] /\ given.ram[v] # given.ram[w] -> given.ram[w] - given.ram[v]
    [] OTHER -> v - w

(* TreeSet.add: the search ends next to both neighbours of the new element,  *)
(* each of which it was compared with, and no two VMs compare equal.  The     *)
(* result is the sorted set if the comparator is an order; if it is not, it  *)
(* may depend on the shape of the tree, and any of these places is possible. *)
Added(q, v) ==
  {InsertAt(q, i, v) : i \in {j \in 1..(Len(q) + 1) :
     /\ j > 1 => Compare(v, q[j - 1]) > 0
     /\ j <= Len(q) => Compare(v, q[j]) < 0}}

TakenOut == Range(toSchedule)

(* The overloaded hosts are relieved one after the other. *)
Current(h) == h \in overloaded /\ \A v \in TakenOut : given.at[v] \notin overloaded \ {h}

(* Lazy takes VMs out until the CPU demand expected of the host fits; it     *)
(* looks at the memory that the host uses now, so that a host short of       *)
(* memory is emptied.  Optimistic empties every host.                        *)
KeepsTakingForCPU(h) == given.lazy => predicted[h].cpu > CPUCapacity
KeepsTaking(h) ==
  given.lazy => \/ predicted[h].cpu > CPUCapacity
                \/ DemandOf(given, Runnings(given, h)).mem > MemSize

TakeOut(h, v) ==
  /\ Current(h)
  /\ given.at[v] = h /\ v \notin TakenOut
  /\ KeepsTaking(h)
  /\ toSchedule' \in Added(toSchedule, v)
  /\ predicted' = IF given.lazy THEN [predicted EXCEPT ![h] = Minus(@, v)] ELSE predicted
  /\ UNCHANGED <<given, overloaded, migrations, state>>

Relieved(h) ==
  /\ Current(h)
  /\ Runnings(given, h) \subseteq TakenOut \/ ~KeepsTaking(h)
  /\ overloaded' = overloaded \ {h}
  /\ predicted' = IF given.lazy THEN predicted
                  ELSE [predicted EXCEPT ![h] = [cpu |-> 0, mem |-> 0]]
  /\ UNCHANGED <<given, toSchedule, migrations, state>>

(* The hosts that have room: any host of the infrastructure, checked or not, *)
(* on or off.                                                                *)
RoomAsDetected(v) == {h \in Hosts : Fits(predicted[h])}
Room(v) == {h \in Hosts : Fits(Plus(predicted[h], v))}

Place ==
  LET v == Head(toSchedule)
  IN /\ state = "none" /\ overloaded = {} /\ toSchedule # <<>>
     /\ \E dest \in Room(v) :
          /\ \A h \in Room(v) : dest <= h
          /\ predicted' = [predicted EXCEPT ![dest] = Plus(@, v)]
          /\ migrations' = migrations \cup
               (IF given.at[v] = dest THEN {} ELSE {[vm |-> v, dest |-> dest]})
     /\ toSchedule' = Tail(toSchedule)
     /\ UNCHANGED <<given, overloaded, state>>

(* The first VM without room ends the computation; what has been planned     *)
(* before is carried out all the same, and called a success.                 *)
Conclude ==
  /\ state = "none" /\ overloaded = {}
  /\ toSchedule # <<>> => Room(Head(toSchedule)) = {}
  /\ state' = CASE migrations # {} -> "SUCCESS"
                [] migrations = {} /\ toSchedule # <<>> -> "RECONFIGURATION_FAILED"
                [] OTHER -> "NO_RECONFIGURATION_NEEDED"
  /\ UNCHANGED <<given, overloaded, toSchedule, predicted, migrations>>

Next ==
  \/ \E h \in Hosts : Relieved(h) \/ \E v \in VMs : TakeOut(h, v)
  \/ Place
  \/ Conclude
  \/ state # "none" /\ UNCHANGED vars

Spec == Init /\ [][Next]_vars

-----------------------------------------------------------------------------
(* The VMs a host has once the plan so far is carried out: those not placed  *)
(* stay where they are.                                                      *)
PlannedAt(v) ==
  LET to == {m.dest : m \in {n \in migrations : n.vm = v}}
  IN IF to = {} THEN given.at[v] ELSE CHOOSE h \in to : TRUE
After(h) == {v \in VMs : PlannedAt(v) = h}

(* The demand predicted of a host is the one of the VMs that stay on it and  *)
(* of those it is to receive: the VMs taken out and not placed yet count     *)
(* nowhere, and those put back on their own host count once.                 *)
PredictionsExact ==
  /\ TypeOK
  /\ overloaded = {} => \A h \in Hosts : predicted[h] = DemandOf(given, After(h) \ TakenOut)

(* A plan that finds room for every VM it took out leaves no host of those   *)
(* it checked overloaded, whichever the order the VMs were placed in.        *)
PlanIsViable ==
  state # "none" /\ toSchedule = <<>> =>
    \A h \in given.hostsToCheck : Fits(DemandOf(given, After(h)))

(* A host that is not overloaded is not made so by the plan, even if the     *)
(* computation stopped half way: only the hosts VMs were taken out of may    *)
(* receive one of another host and keep what they had.                       *)
SaneHostsStaySane ==
  \A h \in Hosts : Fits(DemandOf(given, Runnings(given, h))) => Fits(DemandOf(given, After(h)))

=============================================================================
