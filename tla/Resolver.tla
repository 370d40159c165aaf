------------------------------- MODULE Resolver -------------------------------
(***************************************************************************)
(* The centralized scheduler at work on the infrastructure, and the end of  *)
(* the simulation: CentralizedResolver.main, the part of AbstractScheduler  *)
(* and of the planners (Entropy2RP, BtrPlaceRP, FirstFitDecreased) that     *)
(* carries a plan out, and Injector.main2.                                  *)
(*                                                                         *)
(* A pass of the resolver plans, sleeps for the time the computation took,  *)
(* starts one process per migration, waits until the count of migrations is *)
(* back to 0 and stops the hosts left empty.  Planning, starting and        *)
(* stopping let no time pass: they are phases of their own here, in which   *)
(* nothing else happens, so that each step is one of Infrastructure.        *)
(***************************************************************************)
EXTENDS Infrastructure

CONSTANT Planners   (* the kinds of planners simulator.implementation may name *)

ASSUME PlannersAssumption == Planners \subseteq {"entropy", "btrplace", "ffd"}
ASSUME VMsAssumption == IsFiniteSet(VMs)

VARIABLES
  planner,          (* the implementation chosen                              *)
  phase,            (* where the resolver is                                  *)
  first,            (* the actions of the plan whose start moment is 0        *)
  after,            (* Dependencies: the actions an action still waits for    *)
  toVisit,          (* sortedActions the loop has not come to                 *)
  ready,            (* the actions to start now                               *)
  toTidy,           (* the hosts the loop of checkAndReconfigure looks at     *)
  ongoing,          (* AbstractScheduler.ongoingMigrations                    *)
  rpAborted,        (* AbstractScheduler.rpAborted                            *)
  goal,             (* where the plan of the pass wants each VM it moves      *)
  dropped,          (* the VMs whose action was passed over, for the proofs   *)
  endOfInjection,   (* SimulatorManager.isEndOfInjection                      *)
  schedulerActive,  (* SimulatorManager.isSchedulerActive                     *)
  finalized,        (* finalizeSimulation was called                          *)
  forced            (* BtrPlace has ended the simulation, with code 42        *)

passVars == <<first, after, toVisit, ready, toTidy, ongoing, rpAborted, goal, dropped>>
endVars  == <<endOfInjection, schedulerActive, finalized, forced>>
resolverVars == <<planner, phase, passVars, endVars>>
allVars  == <<vars, resolverVars>>

(* Phases in which the resolver does not let time pass. *)
Instant == {"planning", "launching", "tidying"}
Phases  == Instant \cup {"sleeping", "computing", "waiting", "ended"}

Planned == {v \in VMs : move[v].pc = "planned"}
UnderWay == {v \in VMs : InFlight(v)}

ResolverTypeOK ==
  /\ TypeOK
  /\ planner \in Planners
  /\ phase \in Phases
  /\ first \subseteq VMs
  /\ after \in [VMs -> SUBSET VMs]
  /\ toVisit \subseteq VMs /\ ready \subseteq VMs /\ toTidy \subseteq Hosts
  /\ ongoing \in Nat
  /\ rpAborted \in BOOLEAN
  /\ goal \in [VMs -> SUBSET Hosts]
  /\ dropped \subseteq VMs
  /\ endOfInjection \in BOOLEAN /\ schedulerActive \in BOOLEAN
  /\ finalized \in BOOLEAN /\ forced \in BOOLEAN

ResolverInit ==
  /\ Init
  /\ planner \in Planners
  /\ phase = "sleeping"
  /\ first = {}
  /\ after = [v \in VMs |-> {}]
  /\ toVisit = {} /\ ready = {} /\ toTidy = {}
  /\ ongoing = 0
  /\ rpAborted = FALSE
  /\ goal = [v \in VMs |-> {}]
  /\ dropped = {}
  /\ endOfInjection = FALSE
  /\ schedulerActive = TRUE
  /\ finalized = FALSE
  /\ forced = FALSE

-----------------------------------------------------------------------------
(* CentralizedResolver.main: a new scheduler, with a count of its own, for   *)
(* every pass, as long as the injection goes on.                             *)

StartPass ==
  /\ phase = "sleeping"
  /\ ~endOfInjection
  /\ phase' = "planning"
  /\ first' = {}
  /\ ongoing' = 0
  /\ rpAborted' = FALSE
  /\ goal' = [v \in VMs |-> {}]
  /\ dropped' = {}
  /\ UNCHANGED <<vars, planner, after, toVisit, ready, toTidy, endVars>>

EndLoop ==
  /\ phase = "sleeping"
  /\ endOfInjection
  /\ phase' = "ended"
  /\ schedulerActive' = FALSE
  /\ UNCHANGED <<vars, planner, passVars, endOfInjection, finalized, forced>>

(* computeReconfigurationPlan: any set of migrations of VMs that are on the  *)
(* list of a host.  Those of Entropy may have to follow others; the ones     *)
(* that follow none have the start moment 0.                                 *)
PlanAction(v, s, d) ==
  /\ phase = "planning"
  /\ PlanMove(v, s, d)
  /\ \E before \in SUBSET Planned :
       /\ planner # "entropy" => before = {}
       /\ after' = [after EXCEPT ![v] = before]
       /\ first' = IF before = {} THEN first \cup {v} ELSE first
  /\ goal' = [goal EXCEPT ![v] = {d}]
  /\ UNCHANGED <<planner, phase, toVisit, ready, toTidy, ongoing, rpAborted, dropped, endVars>>

EndPlanning ==
  /\ phase = "planning"
  /\ phase' = "computing"
  /\ UNCHANGED <<vars, planner, passVars, endVars>>

(* The computation time is over: a plan, if there is one, is applied.        *)
EndComputation ==
  /\ phase = "computing"
  /\ toVisit' = Planned
  /\ phase' = IF Planned = {} THEN "sleeping" ELSE "launching"
  /\ UNCHANGED <<vars, planner, first, after, ready, toTidy,
                 ongoing, rpAborted, goal, dropped, endVars>>

(* The loop over the actions, in the order of the names of their VMs, which  *)
(* is any order: one whose start moment is 0 is started, and then those that *)
(* waited for it alone.  That the loop has come to an action is what frees   *)
(* the others, not that this action has ended, or has been started at all.   *)
FirstOnly(v) == first \cap {v}
Freed(v) == (first \cap {v}) \cup {w \in VMs : after[w] = {v}}

VisitAction(v) ==
  /\ phase = "launching"
  /\ ready = {}
  /\ v \in toVisit
  /\ toVisit' = toVisit \ {v}
  /\ after' = [w \in VMs |-> after[w] \ {v}]
  /\ ready' = IF rpAborted THEN {} ELSE Freed(v)
  /\ UNCHANGED <<vars, planner, phase, first, toTidy,
                 ongoing, rpAborted, goal, dropped, endVars>>

(* Entropy starts no migration of a VM that does not run; the others do not  *)
(* look.                                                                     *)
Passed(v) == planner = "entropy" /\ isSuspended[v]

(* The process of relocateVM counts its migration before it blocks.  It does *)
(* nothing, and reports nothing, if the source is off.                       *)
Flagged == ongoing' = 1
Counted == ongoing' = ongoing + 1

StartAction(v) ==
  /\ phase = "launching"
  /\ v \in ready
  /\ ready' = ready \ {v}
  /\ \/ Passed(v) /\ SkipMove(v)
     \/ ~Passed(v) /\ RelocateVM(v)
  /\ IF InFlight(v)' THEN Counted /\ UNCHANGED dropped
                     ELSE UNCHANGED ongoing /\ dropped' = dropped \cup {v}
  /\ UNCHANGED <<planner, phase, first, after, toVisit, toTidy, rpAborted, goal, endVars>>

EndLaunch ==
  /\ phase = "launching"
  /\ toVisit = {} /\ ready = {}
  /\ phase' = "waiting"
  /\ UNCHANGED <<vars, planner, passVars, endVars>>

(* The count is 0 again: the hosts left without VMs are stopped if the       *)
(* settings ask for it, and the pass is over.                                *)
EndWait ==
  /\ phase = "waiting"
  /\ ongoing = 0
  /\ phase' = "tidying"
  /\ toTidy' = IF IdleTurnOff THEN Hosts \ off ELSE {}
  /\ UNCHANGED <<vars, planner, first, after, toVisit, ready,
                 ongoing, rpAborted, goal, dropped, endVars>>

Tidy(h) ==
  /\ phase = "tidying"
  /\ h \in toTidy
  /\ toTidy' = toTidy \ {h}
  /\ \/ TurnOffIdle(h)
     \/ (hosted[h] # {} \/ onGoingMigration[h]) /\ UNCHANGED vars
  /\ UNCHANGED <<planner, phase, first, after, toVisit, ready,
                 ongoing, rpAborted, goal, dropped, endVars>>

EndPass ==
  /\ phase = "tidying"
  /\ toTidy = {}
  /\ phase' = "sleeping"
  /\ UNCHANGED <<vars, planner, passVars, endVars>>

(* BtrPlace waits for a plan a hundred seconds at a time; if the injection   *)
(* is over by then it stops the simulator.  Entropy and FFD only say so.     *)
SayOnly ==
  /\ planner = "btrplace"
  /\ phase = "waiting"
  /\ ongoing # 0
  /\ endOfInjection
  /\ UNCHANGED allVars
WatchDog ==
  /\ planner = "btrplace"
  /\ phase = "waiting"
  /\ ongoing # 0
  /\ endOfInjection
  /\ forced' = TRUE
  /\ UNCHANGED <<vars, planner, phase, passVars, endOfInjection, schedulerActive, finalized>>

ResolverStep ==
  \/ StartPass \/ EndLoop \/ EndPlanning \/ EndComputation \/ EndLaunch
  \/ EndWait \/ EndPass \/ WatchDog
  \/ \E v \in VMs : VisitAction(v) \/ StartAction(v)
  \/ \E v \in VMs, s, d \in Hosts : PlanAction(v, s, d)
  \/ \E h \in Hosts : Tidy(h)

-----------------------------------------------------------------------------
(* The processes of relocateVM, which go on when vm.migrate returns or       *)
(* throws.  One that is killed with its host takes nothing off the count.    *)

SayNothing(aborts) == UNCHANGED rpAborted
Report(aborts) == rpAborted' = (rpAborted \/ aborts)

CopyStep(v) ==
  /\ phase \notin Instant
  /\ PauseMigration(v)
  /\ UNCHANGED resolverVars

EndOfProcess(v) ==
  /\ phase \notin Instant
  /\ \/ CompleteMigration(v) /\ UNCHANGED rpAborted
     \/ (LoseMigration(v) \/ FailMigration(v)) /\ Report(TRUE)
  /\ ongoing' = ongoing - 1
  /\ UNCHANGED <<planner, phase, first, after, toVisit, ready, toTidy, goal, dropped, endVars>>

-----------------------------------------------------------------------------
(* Injector.main2                                                            *)

InjectorEvent ==
  /\ ~endOfInjection
  /\ phase \notin Instant
  /\ \/ \E v \in VMs, l \in Loads : UpdateVM(v, l)
     \/ \E v \in VMs : SuspendVM(v) \/ ResumeVM(v)
     \/ \E h \in Hosts : Crash(h) \/ Recover(h)
  /\ UNCHANGED resolverVars

EndInjection ==
  /\ ~endOfInjection
  /\ phase \notin Instant
  /\ endOfInjection' = TRUE
  /\ UNCHANGED <<vars, planner, phase, passVars, schedulerActive, finalized, forced>>

Finalize ==
  /\ endOfInjection
  /\ ~schedulerActive
  /\ ~finalized
  /\ finalized' = TRUE
  /\ UNCHANGED <<vars, planner, phase, passVars, endOfInjection, schedulerActive, forced>>

-----------------------------------------------------------------------------
Running == exit = "none" /\ ~forced

ResolverNext ==
  /\ Running
  /\ \/ ResolverStep
     \/ \E v \in VMs : CopyStep(v) \/ EndOfProcess(v)
     \/ InjectorEvent \/ EndInjection \/ Finalize

ResolverSpec == ResolverInit /\ [][ResolverNext]_allVars

(* Computations and migrations end, the injection reaches its duration and   *)
(* no process is kept from running.                                          *)
FairResolverSpec ==
  /\ ResolverSpec
  /\ WF_allVars(Running /\ ResolverStep)
  /\ WF_allVars(Running /\ (EndInjection \/ Finalize))
  /\ \A v \in VMs : WF_allVars(Running /\ (CopyStep(v) \/ EndOfProcess(v)))

-----------------------------------------------------------------------------
(* Safety                                                                    *)

(* Whenever a pass ends without having seen a failure, every VM of its plan  *)
(* is where the plan wants it, or its action was passed over when its turn   *)
(* came: Entropy found the VM suspended, or relocateVM the source off.  Only *)
(* that is left out of the SUCCESS checkAndReconfigure returns: a migration  *)
(* that was started and did not arrive is never part of one, although hosts  *)
(* stop, VMs are suspended and processes are killed meanwhile.               *)
SuccessIsTrue ==
  phase = "tidying" /\ ~rpAborted =>
    \A v \in VMs : goal[v] \subseteq {location[v]} \/ v \in dropped

(* Once the loop over the actions is over, none is left to start: releasing  *)
(* the dependencies action by action reaches every one of them               *)
(* (applyReconfigurationPlanLogically, "Launch new feasible actions").       *)
EveryActionStarts == phase = "waiting" => Planned = {}

(* The check that Entropy makes just before it starts a migration is enough: *)
(* a VM suspended, and maybe resumed, during the computation never makes     *)
(* XHost.migrate give up (Entropy2RP.instantiateAndStart, isRunning).        *)
EntropyChecksFirst == planner = "entropy" => exit # "wrong object"

(* The count never forgets a migration under way, and is exact as long as no *)
(* host has been stopped by a FaultEvent (incOngoingMigrations and           *)
(* decOngoingMigrations are called by different processes).                  *)
CountCovers ==
  /\ ongoing >= Cardinality(UnderWay)
  /\ ~Crashes => ongoing = Cardinality(UnderWay)

(* AbstractScheduler.ongoingMigrations: "Number of ongoing migrations."      *)
CountExact == ongoing = Cardinality(UnderWay)

(* checkAndReconfigure: "representing the success or failure of the          *)
(* algorithm loop", and main: "Reconfiguration OK".  A pass that reports     *)
(* SUCCESS has carried its whole plan out.  This is so without faults and    *)
(* suspensions; with them an action passed over is not reported.             *)
PlanCarriedOut ==
  phase = "tidying" /\ ~rpAborted => \A v \in VMs : goal[v] \subseteq {location[v]}

-----------------------------------------------------------------------------
(* What a pass promises: see Reconfiguration.                                *)

Stage ==
  CASE phase \in {"sleeping", "planning", "computing", "tidying"} -> "idle"
    [] phase = "launching" -> "launching"
    [] phase = "waiting" -> "waiting"
    [] phase = "ended" -> "over"

R == INSTANCE Reconfiguration WITH stage <- Stage, moving <- UnderWay

(* Migrations take place only while the pass that planned them applies its   *)
(* plan, and the simulation is finalized when none is left: the list of      *)
(* every VM is up to date when the next pass reads it.                       *)
RefinesReconfiguration == R!Spec

(* Liveness.                                                                 *)

(* A migration that was killed with its host is still counted.               *)
Ghost == ongoing > Cardinality(UnderWay)

(* Once the injection is over the simulation ends, well or with an error,    *)
(* unless Entropy or FFD wait for a migration that is not there any more;    *)
(* BtrPlace gives up by its watch dog (Injector.main2 waits for              *)
(* isSchedulerActive, the resolver for ongoingMigrations).                   *)
LoopEnds ==
  endOfInjection ~> \/ finalized \/ ~Running
                    \/ planner # "btrplace" /\ Ghost

=============================================================================
