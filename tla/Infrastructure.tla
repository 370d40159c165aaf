--------------------------- MODULE Infrastructure ---------------------------
(***************************************************************************)
(* The simulated infrastructure: the hosts, the virtual machines, the      *)
(* processes that migrate them and the global collections the simulator    *)
(* keeps about them (simulation/SimulatorManager.java,                     *)
(* configuration/XHost.java, configuration/XVM.java and                    *)
(* scheduling/AbstractScheduler.relocateVM).                               *)
(*                                                                         *)
(* SimGrid processes are cooperative: a process runs alone until a call    *)
(* that lets simulated time pass.  Each such stretch is one action.  The   *)
(* only operation here that blocks is the live migration, which is hence   *)
(* split into RelocateVM (up to vm.migrate) and one of CompleteMigration,  *)
(* LoseMigration and FailMigration (from vm.migrate on); everything else   *)
(* can happen in between.                                                  *)
(*                                                                         *)
(* Some operators are preceded by a faulty variant with the same           *)
(* parameters, which no action uses: put in the place of the right one, it *)
(* makes a property of the module fail.                                    *)
(***************************************************************************)
EXTENDS Integers, FiniteSets, Sums

CONSTANTS
  Hosts,        (* the hosting nodes                                       *)
  VMs,          (* the virtual machines                                    *)
  Loads,        (* the CPU demands a LoadEvent may set                     *)
  MeanLoad,     (* load.mean: the demand every VM gets before injection    *)
  Capacity,     (* hostingnodes.cpucapacity, the same for every host       *)
  Crashes,      (* whether the injector plays FaultEvents                  *)
  IdleTurnOff,  (* hosts.turn_off: the scheduler stops the empty hosts     *)
  Suspensions   (* vms.suspend: the injector plays VMSuspendResumeEvents   *)

ASSUME NodesAssumption == IsFiniteSet(Hosts) /\ IsFiniteSet(VMs)
ASSUME LoadsAssumption == Loads \subseteq Nat /\ MeanLoad \in Loads
ASSUME CapacityAssumption == Capacity \in Nat
ASSUME SettingsAssumption == {Crashes, IdleTurnOff, Suspensions} \subseteq BOOLEAN

VARIABLES
  off,             (* XHost.off (sgHostsOff is this set, sgHostsOn the rest) *)
  hosted,          (* XHost.hostedVMs                                        *)
  cpuDemand,       (* XHost.currentCPUDemand, cached: the part of each VM    *)
  onGoingMigration,(* XHost.onGoingMigration, one flag for all migrations    *)
  violated,        (* the "PM" state of the trace is one of the violations   *)
  location,        (* XVM.host                                               *)
  load,            (* XVM.currentLoadDemand                                  *)
  isMigrating,     (* XVM.isMigrating                                        *)
  isSuspended,     (* XVM.isSuspended                                        *)
  vmsOn,           (* SimulatorManager.sgVMsOn                               *)
  vmsOff,          (* SimulatorManager.sgVMsOff                              *)
  vmsToSuspend,    (* SimulatorManager.sgVMsToSuspend                        *)
  move,            (* the planned or running migration of each VM            *)
  asked,           (* the VMs whose last played event is a suspension        *)
  exit             (* why System.exit was called, "none" while it was not    *)

hostVars == <<off, hosted, cpuDemand, onGoingMigration, violated>>
vmVars   == <<location, load, isMigrating, isSuspended>>
mapVars  == <<vmsOn, vmsOff, vmsToSuspend>>
vars     == <<hostVars, vmVars, mapVars, move, asked, exit>>

NoMove == [pc |-> "none"]
(* A move is "planned" from the computation of the plan until its process   *)
(* runs on the source; vm.migrate then blocks, first "copying" the memory of *)
(* the running VM, then with the VM "paused" for the rest of it.  "cut"      *)
(* records that the destination went down meanwhile.                         *)
Move == [pc : {"planned", "copying", "paused"}, src : Hosts, dst : Hosts, cut : BOOLEAN]

ExitReasons == {"none", "wrong object", "double migration",
                "suspend of a VM that is not on",
                "resume of a VM that is not off", "resume of a VM not postponed"}

TypeOK ==
  /\ off \subseteq Hosts
  /\ hosted \in [Hosts -> SUBSET VMs]
  /\ cpuDemand \in [Hosts -> [VMs -> Int]]
  /\ onGoingMigration \in [Hosts -> BOOLEAN]
  /\ violated \in [Hosts -> BOOLEAN]
  /\ location \in [VMs -> Hosts]
  /\ load \in [VMs -> Loads]
  /\ isMigrating \in [VMs -> BOOLEAN]
  /\ isSuspended \in [VMs -> BOOLEAN]
  /\ vmsOn \subseteq VMs /\ vmsOff \subseteq VMs /\ vmsToSuspend \subseteq VMs
  /\ move \in [VMs -> Move \cup {NoMove}]
  /\ asked \subseteq VMs
  /\ exit \in ExitReasons

-----------------------------------------------------------------------------
(* XHost.computeCPUDemand: the demand of the VMs of a host, VM by VM.  The   *)
(* code keeps the sum; keeping the parts loses nothing and lets a wrong part *)
(* be seen even when another one hides it in the sum.                        *)
ComputeCPUDemand(vms, loads) == [v \in VMs |-> IF v \in vms THEN loads[v] ELSE 0]

(* XHost.isViable, of a cached demand. *)
IsViable(demand) == Total(demand, VMs) <= Capacity

(* The tests by which updateVM, suspendVM and resumeVM note in the trace that *)
(* a violation starts or ends.                                               *)
ViolationStarts(before, after) == IsViable(before) /\ ~IsViable(after)
NeverViableAgain(before, after) == FALSE
ViolationEnds(before, after) == ~IsViable(before) /\ IsViable(after)

InFlight(v) == move[v].pc \in {"copying", "paused"}

(* System.exit: the simulator stops in the middle of the operation. *)
Exit(reason) ==
  /\ exit' = reason
  /\ UNCHANGED <<hostVars, vmVars, mapVars, move, asked>>

(* The placements configureHostsAndVMs can build: round robin, a host takes  *)
(* one more VM as long as its mean load fits and it holds less than its      *)
(* share.  Memory may make it stop earlier.                                  *)
InitialPlacement ==
  {p \in [VMs -> Hosts] :
     \A h \in Hosts :
       LET n == Cardinality({v \in VMs : p[v] = h})
       IN /\ (n - 1) * Cardinality(Hosts) < Cardinality(VMs)
          /\ n * MeanLoad <= Capacity}

(* Main turns the hosts off that are not needed, if the settings ask for it. *)
InitiallyOff == IF IdleTurnOff THEN {h \in Hosts : hosted[h] = {}} ELSE {}

Init ==
  /\ location \in InitialPlacement
  /\ hosted = [h \in Hosts |-> {v \in VMs : location[v] = h}]
  /\ off = InitiallyOff
  /\ load = [v \in VMs |-> MeanLoad]
  /\ cpuDemand = [h \in Hosts |-> ComputeCPUDemand(hosted[h], load)]
  /\ onGoingMigration = [h \in Hosts |-> FALSE]
  /\ violated = [h \in Hosts |-> FALSE]
  /\ isMigrating = [v \in VMs |-> FALSE]
  /\ isSuspended = [v \in VMs |-> FALSE]
  /\ vmsOn = VMs /\ vmsOff = {} /\ vmsToSuspend = {}
  /\ move = [v \in VMs |-> NoMove]
  /\ asked = {}
  /\ exit = "none"

-----------------------------------------------------------------------------
(* SimulatorManager.updateVM                                                 *)

(* XVM.setLoad *)
AddLoad(v, l) == load' = [load EXCEPT ![v] = @ + l]
SetLoad(v, l) == load' = [load EXCEPT ![v] = l]

(* The cached demand of the host of v, once v asks for l. *)
DemandAddedTo(v, l) == [cpuDemand[location[v]] EXCEPT ![v] = @ + l]
AdjustedDemand(v, l) == [cpuDemand[location[v]] EXCEPT ![v] = @ - load[v] + l]

(* A running VM: the cached demand of the host it is located on is adjusted, *)
(* and the trace notes a violation that starts or ends, on running hosts     *)
(* only.                                                                     *)
UpdateRunningVM(v, l) ==
  LET h      == location[v]
      before == cpuDemand[h]
      after  == AdjustedDemand(v, l)
  IN /\ ~isSuspended[v] /\ move[v].pc # "paused"
     /\ SetLoad(v, l)
     /\ cpuDemand' = [cpuDemand EXCEPT ![h] = after]
     /\ violated' = [violated EXCEPT ![h] =
                       IF h \in off THEN @
                       ELSE (@ \/ ViolationStarts(before, after))
                            /\ ~ViolationEnds(before, after)]
     /\ UNCHANGED <<off, hosted, onGoingMigration, location, isMigrating,
                    isSuspended, mapVars, move, asked, exit>>

(* A VM that does not run - suspended, or paused by the last phase of its    *)
(* live migration - only has its load changed.                               *)
UpdatePausedVM(v, l) ==
  /\ isSuspended[v] \/ move[v].pc = "paused"
  /\ SetLoad(v, l)
  /\ UNCHANGED <<hostVars, location, isMigrating, isSuspended, mapVars, move,
                 asked, exit>>

UpdateVM(v, l) == l # load[v] /\ (UpdateRunningVM(v, l) \/ UpdatePausedVM(v, l))

-----------------------------------------------------------------------------
(* SimulatorManager.suspendVM and resumeVM, played by the injector on the    *)
(* host XVM.getLocation names.  The events of one VM alternate.              *)

(* XVM.suspend does not touch a VM that is migrating. *)
NeverPostponed(v) == FALSE
MustPostpone(v) == isMigrating[v]

(* XVM.suspend says 0: the VM leaves its host and the running VMs. *)
SuspendNow(v) ==
  LET h == location[v]
  IN /\ ~MustPostpone(v) /\ ~isSuspended[v]
     /\ v \in vmsOn \cup vmsToSuspend
     /\ isSuspended' = [isSuspended EXCEPT ![v] = TRUE]
     /\ hosted' = [hosted EXCEPT ![h] = @ \ {v}]
     /\ cpuDemand' = [cpuDemand EXCEPT ![h] = ComputeCPUDemand(hosted'[h], load)]
     /\ violated' = [violated EXCEPT ![h] =
                       @ /\ ~ViolationEnds(cpuDemand[h], cpuDemand'[h])]
     /\ vmsOn' = vmsOn \ {v}
     /\ vmsToSuspend' = IF v \in vmsOn THEN vmsToSuspend ELSE vmsToSuspend \ {v}
     /\ vmsOff' = vmsOff \cup {v}
     /\ asked' = asked \cup {v}
     /\ UNCHANGED <<off, onGoingMigration, location, load, isMigrating, move, exit>>

(* XVM.suspend says 1: the VM is migrating, the suspension is postponed. *)
ForgetSuspension(v) ==
  /\ MustPostpone(v)
  /\ vmsOn' = vmsOn \ {v}
  /\ asked' = asked \cup {v}
  /\ UNCHANGED <<hostVars, vmVars, vmsToSuspend, vmsOff, move, exit>>
PostponeSuspension(v) ==
  /\ MustPostpone(v)
  /\ vmsOn' = vmsOn \ {v}
  /\ vmsToSuspend' = vmsToSuspend \cup {v}
  /\ asked' = asked \cup {v}
  /\ UNCHANGED <<hostVars, vmVars, vmsOff, move, exit>>

SuspendVM(v) ==
  /\ Suspensions
  /\ v \notin asked
  /\ \/ SuspendNow(v)
     \/ PostponeSuspension(v)
     \/ /\ ~MustPostpone(v)
        /\ isSuspended[v] \/ v \notin vmsOn \cup vmsToSuspend
        /\ Exit("suspend of a VM that is not on")

(* XVM.resume says 0: the VM is back on the host it was located on. *)
ResumeSuspended(v) ==
  LET h == location[v]
  IN /\ isSuspended[v]
     /\ v \in vmsOff
     /\ isSuspended' = [isSuspended EXCEPT ![v] = FALSE]
     /\ hosted' = [hosted EXCEPT ![h] = @ \cup {v}]
     /\ cpuDemand' = [cpuDemand EXCEPT ![h] = ComputeCPUDemand(hosted'[h], load)]
     /\ violated' = [violated EXCEPT ![h] =
                       @ \/ ViolationStarts(cpuDemand[h], cpuDemand'[h])]
     /\ vmsOff' = vmsOff \ {v}
     /\ vmsOn' = vmsOn \cup {v}
     /\ asked' = asked \ {v}
     /\ UNCHANGED <<off, onGoingMigration, location, load, isMigrating,
                    vmsToSuspend, move, exit>>

(* XVM.resume says 1: the VM was only waiting to be suspended. *)
CancelWithoutTurningOn(v) ==
  /\ ~isSuspended[v]
  /\ v \in vmsToSuspend
  /\ vmsToSuspend' = vmsToSuspend \ {v}
  /\ asked' = asked \ {v}
  /\ UNCHANGED <<hostVars, vmVars, vmsOn, vmsOff, move, exit>>
CancelPostponed(v) ==
  /\ ~isSuspended[v]
  /\ v \in vmsToSuspend
  /\ vmsToSuspend' = vmsToSuspend \ {v}
  /\ vmsOn' = vmsOn \cup {v}
  /\ asked' = asked \ {v}
  /\ UNCHANGED <<hostVars, vmVars, vmsOff, move, exit>>

ResumeVM(v) ==
  /\ Suspensions
  /\ v \in asked
  /\ \/ ResumeSuspended(v)
     \/ CancelPostponed(v)
     \/ isSuspended[v] /\ v \notin vmsOff /\ Exit("resume of a VM that is not off")
     \/ ~isSuspended[v] /\ v \notin vmsToSuspend /\ Exit("resume of a VM not postponed")

-----------------------------------------------------------------------------
(* SimulatorManager.turnOff and turnOn                                       *)

(* SimGrid kills the processes of a host that stops - the migrations that    *)
(* leave it, in the middle of their call - and cuts the ones that reach it.  *)
Interrupted(h) ==
  [v \in VMs |-> IF InFlight(v) /\ move[v].src = h THEN NoMove ELSE
                IF InFlight(v) /\ move[v].dst = h THEN [move[v] EXCEPT !.cut = TRUE]
                                                ELSE move[v]]

(* turnOff refuses a host whose flag is up.  The VMs of the host are counted *)
(* off but stay on its list.                                                 *)
TurnOff(h) ==
  /\ ~onGoingMigration[h]
  /\ h \notin off
  /\ off' = off \cup {h}
  /\ vmsOn' = vmsOn \ hosted[h]
  /\ vmsOff' = vmsOff \cup hosted[h]
  /\ move' = Interrupted(h)
  /\ UNCHANGED <<hosted, cpuDemand, onGoingMigration, violated, vmVars,
                 vmsToSuspend, asked, exit>>

(* What turnOn does to the hosts and to the collections, if h is off. *)
SwitchOn(h) ==
  LET back == IF h \in off THEN hosted[h] ELSE {}
  IN /\ off' = off \ {h}
     /\ vmsOff' = vmsOff \ back
     /\ vmsOn' = vmsOn \cup back

(* A FaultEvent that stops, or starts again, a host. *)
Crash(h) == Crashes /\ TurnOff(h)

Recover(h) ==
  /\ Crashes
  /\ h \in off
  /\ SwitchOn(h)
  /\ UNCHANGED <<hosted, cpuDemand, onGoingMigration, violated, vmVars,
                 vmsToSuspend, move, asked, exit>>

(* checkAndReconfigure stops the hosts without VMs once a plan is applied. *)
TurnOffIdle(h) == IdleTurnOff /\ hosted[h] = {} /\ TurnOff(h)

-----------------------------------------------------------------------------
(* Migrations                                                                *)

(* A planner decides to move a VM of the list of a host; time passes before  *)
(* the plan is applied (checkAndReconfigure sleeps for the computation, the  *)
(* actions of the plan are started one after the other).                     *)
PlanMove(v, s, d) ==
  /\ v \in hosted[s]
  /\ s # d
  /\ move[v] = NoMove
  /\ move' = [move EXCEPT ![v] =
                [pc |-> "planned", src |-> s, dst |-> d, cut |-> FALSE]]
  /\ UNCHANGED <<hostVars, vmVars, mapVars, asked, exit>>

(* Entropy drops the move of a VM that does not run any more. *)
SkipMove(v) ==
  /\ move[v].pc = "planned"
  /\ isSuspended[v]
  /\ move' = [move EXCEPT ![v] = NoMove]
  /\ UNCHANGED <<hostVars, vmVars, mapVars, asked, exit>>

(* The destination is switched on, the process of relocateVM starts on the   *)
(* source and runs SimulatorManager.migrateVM until vm.migrate blocks.  It   *)
(* does nothing if the source is off.                                        *)
RelocateVM(v) ==
  LET s == move[v].src
      d == move[v].dst
  IN /\ move[v].pc = "planned"
     /\ \/ /\ s \in off
           /\ SwitchOn(d)
           /\ move' = [move EXCEPT ![v] = NoMove]
           /\ UNCHANGED <<hosted, cpuDemand, onGoingMigration, violated, vmVars,
                          vmsToSuspend, asked, exit>>
        \/ /\ s \notin off
           /\ v \in hosted[s]
           /\ ~isMigrating[v]
           /\ SwitchOn(d)
           /\ onGoingMigration' = [onGoingMigration EXCEPT ![s] = TRUE, ![d] = TRUE]
           /\ isMigrating' = [isMigrating EXCEPT ![v] = TRUE]
           /\ move' = [move EXCEPT ![v].pc = "copying"]
           /\ UNCHANGED <<hosted, cpuDemand, violated, location, load,
                          isSuspended, vmsToSuspend, asked, exit>>
        \/ s \notin off /\ v \notin hosted[s] /\ Exit("wrong object")
        \/ s \notin off /\ v \in hosted[s] /\ isMigrating[v] /\ Exit("double migration")

(* SimGrid pauses the VM to copy what is left of its memory. *)
PauseMigration(v) ==
  /\ move[v].pc = "copying"
  /\ move' = [move EXCEPT ![v].pc = "paused"]
  /\ UNCHANGED <<hostVars, vmVars, mapVars, asked, exit>>

(* The lists of both hosts once the VM has arrived. *)
ListedTwice(v) == [hosted EXCEPT ![move[v].dst] = @ \cup {v}]
ListedAfter(v) == [hosted EXCEPT ![move[v].src] = @ \ {v}, ![move[v].dst] = @ \cup {v}]

(* The flags of both hosts once the migration is over, well or not. *)
Lowered(v) == [onGoingMigration EXCEPT ![move[v].src] = FALSE, ![move[v].dst] = FALSE]

(* A suspension was postponed during the migration. *)
NotMarked(v) == FALSE
Marked(v) == v \in vmsToSuspend

(* vm.migrate returns and both hosts are up: the VM changes lists and the    *)
(* flags of both hosts are lowered.  A suspension postponed meanwhile is     *)
(* done at once, on the destination.                                         *)
CompleteMigration(v) ==
  LET s       == move[v].src
      d       == move[v].dst
      arrived == ListedAfter(v)
      demand  == [cpuDemand EXCEPT ![s] = ComputeCPUDemand(arrived[s], load),
                                   ![d] = ComputeCPUDemand(arrived[d], load)]
      left    == IF Marked(v) THEN [arrived EXCEPT ![d] = @ \ {v}] ELSE arrived
  IN /\ move[v].pc = "paused"
     /\ ~move[v].cut
     /\ location' = [location EXCEPT ![v] = d]
     /\ isMigrating' = [isMigrating EXCEPT ![v] = FALSE]
     /\ isSuspended' = [isSuspended EXCEPT ![v] = Marked(v)]
     /\ hosted' = left
     /\ cpuDemand' = IF Marked(v)
                     THEN [demand EXCEPT ![d] = ComputeCPUDemand(left[d], load)]
                     ELSE demand
     /\ onGoingMigration' = Lowered(v)
     /\ violated' = [violated EXCEPT
                       ![s] = @ /\ ~IsViable(demand[s]),
                       ![d] = IF IsViable(demand[d]) THEN @ ELSE ~IsViable(cpuDemand'[d])]
     /\ vmsToSuspend' = IF Marked(v) THEN vmsToSuspend \ {v} ELSE vmsToSuspend
     /\ vmsOn' = IF Marked(v) THEN vmsOn \ {v} ELSE vmsOn
     /\ vmsOff' = IF Marked(v) THEN vmsOff \cup {v} ELSE vmsOff
     /\ move' = [move EXCEPT ![v] = NoMove]
     /\ UNCHANGED <<off, load, asked, exit>>

(* vm.migrate returns, but the destination was turned off before the process *)
(* could run again: XHost.migrate gives up and leaves the lists and the      *)
(* flags as they are, although XVM.migrate has moved the VM.                 *)
LoseMigration(v) ==
  /\ move[v].pc = "paused"
  /\ move[v].dst \in off
  /\ location' = [location EXCEPT ![v] = move[v].dst]
  /\ isMigrating' = [isMigrating EXCEPT ![v] = FALSE]
  /\ move' = [move EXCEPT ![v] = NoMove]
  /\ UNCHANGED <<hostVars, load, isSuspended, mapVars, asked, exit>>

(* vm.migrate throws: both flags are lowered, XVM.isMigrating is not. *)
FailMigration(v) ==
  /\ InFlight(v)
  /\ move[v].cut
  /\ onGoingMigration' = Lowered(v)
  /\ move' = [move EXCEPT ![v] = NoMove]
  /\ UNCHANGED <<off, hosted, cpuDemand, violated, vmVars, mapVars, asked, exit>>

EndMigration(v) == CompleteMigration(v) \/ LoseMigration(v) \/ FailMigration(v)

-----------------------------------------------------------------------------
Next ==
  /\ exit = "none"
  /\ \/ \E v \in VMs :
          \/ \E l \in Loads : UpdateVM(v, l)
          \/ SuspendVM(v)
          \/ ResumeVM(v)
          \/ \E s, d \in Hosts : PlanMove(v, s, d)
          \/ SkipMove(v)
          \/ RelocateVM(v)
          \/ PauseMigration(v)
          \/ EndMigration(v)
     \/ \E h \in Hosts : Crash(h) \/ Recover(h) \/ TurnOffIdle(h)

Spec == Init /\ [][Next]_vars

(* A live migration copies a finite memory: it ends, unless the simulator    *)
(* stops first.                                                              *)
Fairness ==
  \A v \in VMs : WF_vars(exit = "none" /\ (PauseMigration(v) \/ EndMigration(v)))

-----------------------------------------------------------------------------
(* Safety.  In which settings each property holds is the matter of the runs  *)
(* and of InfrastructureProofs.                                              *)

(* A VM under migration stays on the list of its source, which stays up, and *)
(* is protected by its own flag, whatever stops, starts, suspends or moves   *)
(* meanwhile (XHost.migrate between the lookup of the VM and                 *)
(* hostedVMs.remove; XVM.isMigrating).                                       *)
MigrationHeld ==
  \A v \in VMs : InFlight(v) =>
    /\ v \in hosted[move[v].src]
    /\ move[v].src \notin off
    /\ isMigrating[v]

(* A VM is on the list of exactly one host, except that a suspended one is   *)
(* on none, whatever interrupts a migration (XHost.migrate moves a VM from   *)
(* one list to the other in two calls, suspendVM and resumeVM use the list   *)
(* of the host XVM.getLocation names).                                       *)
HostedOnce ==
  \A v \in VMs :
    /\ isSuspended[v] <=> \A h \in Hosts : v \notin hosted[h]
    /\ \A h, k \in Hosts : v \in hosted[h] /\ v \in hosted[k] => h = k

(* The three collections of the simulator share the VMs out: off are those   *)
(* that are suspended or on a stopped host, marked for suspension are only   *)
(* VMs whose migration will end, the others are on (turnOn, turnOff,         *)
(* suspendVM, resumeVM and migrateVM each update them in pieces).            *)
CollectionsExact ==
  /\ vmsOff = {v \in VMs : isSuspended[v] \/ \E h \in off : v \in hosted[h]}
  /\ \A v \in vmsToSuspend : InFlight(v)
  /\ vmsToSuspend \cap vmsOff = {}
  /\ vmsOn = VMs \ (vmsOff \cup vmsToSuspend)

(* The cached demand of a host is what computeCPUDemand would return, but    *)
(* for the VMs paused by a migration, whose changes of load it misses until  *)
(* they arrive (updateVM's "simple hack" against the recomputations).        *)
DemandExact ==
  \A h \in Hosts, v \in VMs :
    move[v].pc # "paused" => cpuDemand[h][v] = ComputeCPUDemand(hosted[h], load)[v]

(* The trace shows a violation on a host exactly while its demand exceeds    *)
(* its capacity: the start and the end are noted by updateVM, suspendVM,     *)
(* resumeVM and migrateVM, each from a before and an after of its own.  It   *)
(* holds as long as no load changes while its VM is paused by a migration:   *)
(* a recomputation reveals such a change where no start or end is looked for.*)
TraceExact ==
  \A h \in Hosts \ off : violated[h] <=> ~IsViable(cpuDemand[h])

(* A host whose flag is up takes part in a migration: turnOff, which refuses *)
(* it, will not refuse it forever.                                           *)
FlagsHeld ==
  \A h \in Hosts : onGoingMigration[h] =>
    \E v \in VMs : InFlight(v) /\ h \in {move[v].src, move[v].dst}

(* Whatever the migrations did meanwhile, a VM is suspended or marked if and *)
(* only if the last event the injector played for it asked for it.           *)
RequestsHonoured ==
  \A v \in VMs : v \in asked <=> isSuspended[v] \/ v \in vmsToSuspend

(* No operation meets a state the program gives up on: neither the second    *)
(* migration of a VM nor a collection that does not hold the VM expected.    *)
(* Only a plan that a suspension made stale can stop the simulator.          *)
OnlyStaleMoves == exit \in {"none", "wrong object"}

(* Without suspensions nothing stops the simulator: a plan is carried out    *)
(* whatever the loads and the other migrations do.                           *)
NoExit == exit = "none"

(* The list of a stopped host is frozen: neither a migration that was under  *)
(* way nor a suspension changes it until the host is started again           *)
(* (SimulatorManager.turnOff: "The VMs are still referenced on the node").   *)
StoppedHostsFrozen ==
  [][\A h \in off : hosted'[h] = hosted[h]]_vars

-----------------------------------------------------------------------------
(* Liveness.                                                                 *)

(* A VM marked for suspension does not stay so: its migration ends and it is *)
(* suspended on arrival, or the suspension is cancelled (migrateVM, "Patch   *)
(* to handle postponed suspend").                                            *)
PostponedResolved ==
  \A v \in VMs : v \in vmsToSuspend ~> v \notin vmsToSuspend \/ exit # "none"

-----------------------------------------------------------------------------
(* What comments and assertions of the source say, and the code does not do. *)

(* XHost.migrate: "Ugly patch to prevent migration crash when a node is      *)
(* turned off", and turnOff: "WE ARE NOT GOING TO TURN OFF HOST ... BECAUSE  *)
(* THERE IS AN ON-GOING MIGRATION".  The two hosts of a migration stay on as *)
(* long as it lasts.                                                         *)
MovingHostsStayOn ==
  \A v \in VMs : InFlight(v) => {move[v].src, move[v].dst} \cap off = {}

(* XVM.migrate: "You are trying to migrate (a VM) twice... it is impossible !" *)
(* A VM has at most one move here, so it is never migrated twice at a time,  *)
(* and the program should never say that it is.                              *)
NoDoubleMigration == exit # "double migration"

=============================================================================
