--------------------------- MODULE ResolverProofs ---------------------------
(***************************************************************************)
(* Theorems about Resolver, for any hosts, VMs, loads and settings: what    *)
(* holds of the infrastructure holds of it under the resolver, the count of *)
(* migrations covers them, every action of a plan starts, a pass that       *)
(* reports success has brought every VM it moved where the plan wants it -  *)
(* and its whole plan is carried out if nothing disturbs it -, and passes   *)
(* do not overlap.                                                          *)
(***************************************************************************)
EXTENDS Resolver, InfrastructureProofs, FiniteSetTheorems

-----------------------------------------------------------------------------
(* The resolver is one of the schedulers Infrastructure allows.              *)

LEMMA StepOfInfrastructure == [ResolverNext]_allVars => [Next]_vars
<1> SUFFICES ASSUME ResolverNext PROVE [Next]_vars
  BY DEF allVars
<1>0. exit = "none"
  BY DEF ResolverNext, Running
<1>1. CASE StartPass \/ EndLoop \/ EndPlanning \/ EndComputation \/ EndLaunch
           \/ EndWait \/ EndPass \/ WatchDog \/ EndInjection \/ Finalize
  BY <1>1 DEF StartPass, EndLoop, EndPlanning, EndComputation, EndLaunch, EndWait,
              EndPass, WatchDog, EndInjection, Finalize
<1>2. ASSUME NEW v \in VMs, VisitAction(v) \/ StartAction(v) PROVE [Next]_vars
  BY <1>0, <1>2 DEF VisitAction, StartAction, Next
<1>3. ASSUME NEW v \in VMs, NEW s \in Hosts, NEW d \in Hosts, PlanAction(v, s, d)
      PROVE  [Next]_vars
  BY <1>0, <1>3 DEF PlanAction, Next
<1>4. ASSUME NEW h \in Hosts, Tidy(h) PROVE [Next]_vars
  BY <1>0, <1>4 DEF Tidy, Next
<1>5. ASSUME NEW v \in VMs, CopyStep(v) \/ EndOfProcess(v) PROVE [Next]_vars
  BY <1>0, <1>5 DEF CopyStep, EndOfProcess, EndMigration, Next
<1>6. CASE InjectorEvent
  BY <1>0, <1>6 DEF InjectorEvent, Next
<1> QED BY <1>1, <1>2, <1>3, <1>4, <1>5, <1>6 DEF ResolverNext, ResolverStep

(* Under the resolver the infrastructure does nothing Infrastructure does    *)
(* not allow: its theorems hold of every run of a centralized scheduler      *)
(* (CentralizedResolver.main).                                               *)
THEOREM ResolverIsInfrastructure == ResolverSpec => Spec
<1>1. ResolverInit => Init
  BY DEF ResolverInit
<1>2. [ResolverNext]_allVars => [Next]_vars
  BY StepOfInfrastructure
<1> QED BY <1>1, <1>2, PTL DEF ResolverSpec, Spec

-----------------------------------------------------------------------------
(* A planned VM is on the list of its source, or suspended there: nothing    *)
(* but its own move takes it away.                                           *)
PlannedHeld ==
  \A v \in Planned : \/ v \in hosted[move[v].src]
                     \/ isSuspended[v] /\ location[v] = move[v].src

LEMMA PlannedHeldStep == TypeOK /\ PlannedHeld /\ [Next]_vars => PlannedHeld'
<1> SUFFICES ASSUME TypeOK, PlannedHeld, [Next]_vars, NEW v \in VMs, move'[v].pc = "planned"
             PROVE  \/ v \in hosted'[move'[v].src]
                    \/ isSuspended'[v] /\ location'[v] = move'[v].src
  BY DEF PlannedHeld, Planned
<1> DEFINE Held == v \in hosted[move[v].src] \/ (isSuspended[v] /\ location[v] = move[v].src)
<1>0. move[v].pc = "planned" => Held /\ move[v].src \in Hosts
  BY MoveTypes DEF PlannedHeld, Planned
<1>1. ASSUME UNCHANGED <<hosted, isSuspended, location>>, move'[v] = move[v]
      PROVE  Held'
  BY <1>0, <1>1
<1>2. ASSUME NEW w \in VMs, NEW l \in Loads, UpdateVM(w, l)
      PROVE  Held'
  BY <1>1, <1>2 DEF UpdateVM, UpdateRunningVM, UpdatePausedVM, hostVars
<1>3. ASSUME NEW w \in VMs, SuspendVM(w) \/ ResumeVM(w)
      PROVE  Held'
  <2>1. CASE SuspendNow(w)
    BY <1>0, <2>1 DEF SuspendNow, TypeOK
  <2>2. CASE ResumeSuspended(w)
    BY <1>0, <2>2 DEF ResumeSuspended, TypeOK
  <2>3. CASE PostponeSuspension(w) \/ CancelPostponed(w)
    BY <1>1, <2>3 DEF PostponeSuspension, CancelPostponed, hostVars, vmVars
  <2>4. CASE \E r \in ExitReasons : Exit(r)
    BY <1>1, <2>4 DEF Exit, hostVars, vmVars
  <2> QED BY <1>3, <2>1, <2>2, <2>3, <2>4 DEF SuspendVM, ResumeVM, ExitReasons
<1>4. ASSUME NEW w \in VMs, NEW s \in Hosts, NEW d \in Hosts, PlanMove(w, s, d)
      PROVE  Held'
  BY <1>0, <1>4 DEF PlanMove, hostVars, vmVars, TypeOK
<1>5. ASSUME NEW w \in VMs, SkipMove(w) \/ PauseMigration(w)
      PROVE  Held'
  <2>1. w # v
    BY <1>5 DEF SkipMove, PauseMigration, NoMove, TypeOK, Move
  <2> QED BY <1>1, <1>5, <2>1 DEF SkipMove, PauseMigration, hostVars, vmVars, TypeOK
<1>6. ASSUME NEW w \in VMs, RelocateVM(w)
      PROVE  Held'
  <2>1. CASE UNCHANGED <<move, hosted, isSuspended, location>>
    BY <1>1, <2>1
  <2>2. CASE move' = [move EXCEPT ![w] = NoMove] \/ move' = [move EXCEPT ![w].pc = "copying"]
    <3>1. w # v
      <4>1. move[w] \in Move
        BY <1>6, MoveTypes DEF RelocateVM
      <4>2. CASE move' = [move EXCEPT ![w] = NoMove]
        BY <4>2 DEF NoMove, TypeOK
      <4>3. CASE move' = [move EXCEPT ![w].pc = "copying"]
        BY <4>1, <4>3, RelocatedMoves
      <4> QED BY <2>2, <4>2, <4>3
    <3>2. UNCHANGED <<hosted, isSuspended, location>>
      BY <1>6 DEF RelocateVM, Exit, hostVars, vmVars
    <3> QED BY <1>1, <2>2, <3>1, <3>2 DEF TypeOK
  <2> QED BY <1>6, <2>1, <2>2 DEF RelocateVM, Exit, hostVars, vmVars
<1>7. ASSUME NEW w \in VMs, EndMigration(w)
      PROVE  Held'
  <2>1. move' = [move EXCEPT ![w] = NoMove]
    BY <1>7 DEF EndMigration, CompleteMigration, LoseMigration, FailMigration
  <2>2. w # v
    BY <2>1 DEF NoMove, TypeOK
  <2>3. move'[v] = move[v]
    BY <2>1, <2>2 DEF TypeOK
  <2>4. isSuspended'[v] = isSuspended[v] /\ location'[v] = location[v]
    BY <1>7, <2>2 DEF EndMigration, CompleteMigration, LoseMigration, FailMigration, TypeOK, vmVars
  <2>5. \A h \in Hosts : v \in hosted[h] => v \in hosted'[h]
    <3>1. CASE CompleteMigration(w)
      BY <2>2, <3>1 DEF CompleteMigration, ListedAfter, Marked, TypeOK
    <3>2. CASE LoseMigration(w) \/ FailMigration(w)
      BY <3>2 DEF LoseMigration, FailMigration, hostVars
    <3> QED BY <1>7, <3>1, <3>2 DEF EndMigration
  <2> QED BY <1>0, <2>3, <2>4, <2>5
<1>8. ASSUME NEW h \in Hosts, TurnOff(h)
      PROVE  Held'
  <2>1. ~InFlight(v)
    <3>1. InFlight(v) => InFlight(v)' \/ move'[v] = NoMove
      <4> SUFFICES ASSUME InFlight(v), ~InFlight(v)' PROVE move'[v] = NoMove
        OBVIOUS
      <4>1. move[v].src = h
        BY <1>8, InterruptedMoves
      <4> QED BY <1>8, <4>1 DEF TurnOff, Interrupted
    <3> QED BY <3>1 DEF InFlight, NoMove
  <2>2. move'[v] = move[v]
    BY <1>8, <2>1, InterruptedMoves
  <2> QED BY <1>1, <1>8, <2>2 DEF TurnOff, vmVars
<1>9. ASSUME NEW h \in Hosts, Recover(h)
      PROVE  Held'
  BY <1>1, <1>9 DEF Recover, vmVars
<1>10. CASE UNCHANGED vars
  BY <1>1, <1>10 DEF vars, hostVars, vmVars
<1> QED
  BY <1>2, <1>3, <1>4, <1>5, <1>6, <1>7, <1>8, <1>9, <1>10 DEF Next, Crash, TurnOffIdle

-----------------------------------------------------------------------------
(* What the steps of Infrastructure do to the sets the resolver is about.    *)

(* A VM that has a move keeps its destination. *)
SameDestinations ==
  \A v \in VMs : move[v].pc # "none" /\ move'[v].pc # "none" => move'[v].dst = move[v].dst

LEMMA Unmoved ==
  ASSUME UNCHANGED move
  PROVE  Planned' = Planned /\ UnderWay' = UnderWay /\ SameDestinations
  BY DEF Planned, UnderWay, InFlight, SameDestinations

LEMMA EventEffects ==
  ASSUME NEW v \in VMs, NEW l \in Loads, NEW h \in Hosts,
         UpdateVM(v, l) \/ SuspendVM(v) \/ ResumeVM(v) \/ Recover(h)
  PROVE  /\ Planned' = Planned /\ UnderWay' = UnderWay /\ SameDestinations
         /\ location' = location
         /\ exit' # "wrong object" \/ exit' = exit
<1>1. move' = move /\ location' = location /\ (exit' # "wrong object" \/ exit' = exit)
  BY DEF UpdateVM, UpdateRunningVM, UpdatePausedVM, SuspendVM, SuspendNow, PostponeSuspension,
         ResumeVM, ResumeSuspended, CancelPostponed, Recover, Exit, vmVars
<1> QED BY <1>1, Unmoved

LEMMA TurnOffEffects ==
  ASSUME TypeOK, NEW h \in Hosts, TurnOff(h)
  PROVE  /\ Planned' = Planned /\ UnderWay' \subseteq UnderWay /\ SameDestinations
         /\ location' = location /\ exit' = exit
<1>1. \A v \in VMs : /\ InFlight(v)' => InFlight(v) /\ move'[v].dst = move[v].dst
                     /\ ~InFlight(v) => move'[v] = move[v]
  BY InterruptedMoves
<1>2. \A v \in VMs : InFlight(v) /\ ~InFlight(v)' => move'[v] = NoMove
  <2> SUFFICES ASSUME NEW v \in VMs, InFlight(v), ~InFlight(v)' PROVE move'[v] = NoMove
    OBVIOUS
  <2>1. move[v].src = h
    BY InterruptedMoves
  <2> QED BY <2>1 DEF TurnOff, Interrupted
<1>3. \A v \in VMs : (move'[v].pc = "planned") <=> (move[v].pc = "planned")
  <2> TAKE v \in VMs
  <2>1. CASE InFlight(v)
    BY <1>2, <2>1 DEF InFlight, NoMove
  <2>2. CASE ~InFlight(v)
    BY <1>1, <2>2
  <2> QED BY <2>1, <2>2
<1>4. SameDestinations
  <2> SUFFICES ASSUME NEW v \in VMs, move'[v].pc # "none" PROVE move'[v].dst = move[v].dst
    BY DEF SameDestinations
  <2>1. InFlight(v) => InFlight(v)'
    BY <1>2 DEF NoMove
  <2> QED BY <1>1, <2>1
<1> QED BY <1>1, <1>3, <1>4 DEF Planned, UnderWay, InFlight, TurnOff, vmVars

LEMMA PlanEffects ==
  ASSUME TypeOK, NEW v \in VMs, NEW s \in Hosts, NEW d \in Hosts, PlanMove(v, s, d)
  PROVE  /\ v \notin Planned /\ Planned' = Planned \cup {v}
         /\ UnderWay' = UnderWay /\ SameDestinations
         /\ location' = location /\ exit' = exit /\ move'[v].dst = d
<1>1. \A w \in VMs : move'[w] = IF w = v THEN [pc |-> "planned", src |-> s, dst |-> d, cut |-> FALSE]
                                        ELSE move[w]
  BY DEF PlanMove, TypeOK
<1>2. move[v].pc = "none"
  BY DEF PlanMove, NoMove
<1>3. location' = location /\ exit' = exit
  BY DEF PlanMove, vmVars
<1> QED BY <1>1, <1>2, <1>3 DEF Planned, UnderWay, InFlight, SameDestinations

LEMMA SkipEffects ==
  ASSUME TypeOK, NEW v \in VMs, SkipMove(v)
  PROVE  /\ v \in Planned /\ Planned' = Planned \ {v}
         /\ UnderWay' = UnderWay /\ SameDestinations /\ ~InFlight(v)'
         /\ location' = location /\ exit' = exit
<1>1. \A w \in VMs : move'[w] = IF w = v THEN NoMove ELSE move[w]
  BY DEF SkipMove, TypeOK
<1>2. move[v].pc = "planned" /\ location' = location /\ exit' = exit
  BY DEF SkipMove, vmVars
<1> QED BY <1>1, <1>2 DEF NoMove, Planned, UnderWay, InFlight, SameDestinations

(* The process that is started leaves its VM planned only if it stops the    *)
(* simulator.                                                                *)
LEMMA RelocateEffects ==
  ASSUME TypeOK, exit = "none", NEW v \in VMs, RelocateVM(v)
  PROVE  /\ exit' = exit => Planned' = Planned \ {v}
         /\ Planned \ {v} \subseteq Planned' /\ Planned' \subseteq Planned
         /\ UnderWay' = UnderWay \cup (IF InFlight(v)' THEN {v} ELSE {})
         /\ v \in Planned /\ v \notin UnderWay
         /\ SameDestinations
         /\ location' = location
         /\ exit' = "wrong object" => v \in Planned /\ v \notin hosted[move[v].src]
<1>1. move[v] \in Move /\ v \in Planned /\ v \notin UnderWay /\ location' = location
  BY MoveTypes DEF RelocateVM, Exit, vmVars, Planned, UnderWay, InFlight
<1>2. CASE /\ move' = [move EXCEPT ![v] = NoMove] \/ move' = [move EXCEPT ![v].pc = "copying"]
           /\ exit' = exit
  <2>1. \A w \in VMs : w # v => move'[w] = move[w]
    BY <1>2 DEF TypeOK
  <2>2. move'[v] = NoMove \/ (move'[v].pc \in {"copying", "paused"} /\ move'[v].dst = move[v].dst)
    BY <1>1, <1>2, RelocatedMoves DEF TypeOK
  <2>3. move'[v].pc # "planned" /\ (move'[v].pc # "none" => move'[v].dst = move[v].dst)
    BY <2>2 DEF NoMove
  <2>4. Planned' = Planned \ {v}
    BY <2>1, <2>3 DEF Planned
  <2>5. UnderWay' = UnderWay \cup (IF InFlight(v)' THEN {v} ELSE {})
    BY <1>1, <2>1 DEF UnderWay, InFlight
  <2>6. SameDestinations
    BY <2>1, <2>3 DEF SameDestinations
  <2> QED BY <1>1, <1>2, <2>3, <2>4, <2>5, <2>6
<1>3. CASE Exit("wrong object") /\ v \notin hosted[move[v].src]
  <2>1. ~InFlight(v)' /\ exit' # exit
    BY <1>1, <1>3 DEF Exit, InFlight, UnderWay
  <2> QED BY <1>1, <1>3, <2>1, Unmoved DEF Exit
<1>4. CASE Exit("double migration")
  <2>1. ~InFlight(v)' /\ exit' # exit /\ exit' # "wrong object"
    BY <1>1, <1>4 DEF Exit, InFlight, UnderWay
  <2> QED BY <1>1, <1>4, <2>1, Unmoved DEF Exit
<1> QED BY <1>2, <1>3, <1>4 DEF RelocateVM

LEMMA PauseEffects ==
  ASSUME TypeOK, NEW v \in VMs, PauseMigration(v)
  PROVE  /\ Planned' = Planned /\ UnderWay' = UnderWay /\ SameDestinations
         /\ location' = location /\ exit' = exit
<1>1. move[v] \in Move /\ move[v].pc = "copying" /\ location' = location /\ exit' = exit
  BY MoveTypes DEF PauseMigration, vmVars
<1>2. \A w \in VMs : w # v => move'[w] = move[w]
  BY DEF PauseMigration, TypeOK
<1>3. move'[v].pc = "paused" /\ move'[v].dst = move[v].dst
  BY <1>1, RelocatedMoves DEF PauseMigration, TypeOK
<1> QED BY <1>1, <1>2, <1>3 DEF Planned, UnderWay, InFlight, SameDestinations

LEMMA EndEffects ==
  ASSUME TypeOK, NEW v \in VMs, EndMigration(v)
  PROVE  /\ Planned' = Planned
         /\ v \in UnderWay /\ UnderWay' = UnderWay \ {v} /\ SameDestinations
         /\ \A w \in VMs \ {v} : location'[w] = location[w]
         /\ CompleteMigration(v) => location'[v] = move[v].dst
         /\ exit' = exit
<1>1. InFlight(v) /\ move' = [move EXCEPT ![v] = NoMove] /\ exit' = exit
  BY DEF EndMigration, CompleteMigration, LoseMigration, FailMigration, InFlight
<1>2. \A w \in VMs : move'[w] = IF w = v THEN NoMove ELSE move[w]
  BY <1>1 DEF TypeOK
<1>3. /\ \A w \in VMs \ {v} : location'[w] = location[w]
      /\ CompleteMigration(v) => location'[v] = move[v].dst
  BY DEF EndMigration, CompleteMigration, LoseMigration, FailMigration, TypeOK, vmVars
<1> QED BY <1>1, <1>2, <1>3 DEF NoMove, Planned, UnderWay, InFlight, SameDestinations

-----------------------------------------------------------------------------
(* Steps that are not part of the work on a plan.                            *)

Background ==
  /\ Planned' = Planned /\ UnderWay' \subseteq UnderWay /\ SameDestinations
  /\ location' = location
  /\ exit' # "wrong object" \/ exit' = exit
  /\ UnderWay' # UnderWay => Crashes \/ phase = "tidying"
  /\ UNCHANGED <<planner, phase, first, after, toVisit, ready, ongoing, rpAborted,
               goal, dropped>>

LEMMA BackgroundSteps ==
  ASSUME TypeOK,
         \/ InjectorEvent \/ EndInjection \/ Finalize \/ WatchDog
         \/ \E v \in VMs : CopyStep(v)
         \/ \E h \in Hosts : Tidy(h)
  PROVE  Background
<1>1. CASE EndInjection \/ Finalize \/ WatchDog
  BY <1>1, Unmoved DEF EndInjection, Finalize, WatchDog, Background, vars, vmVars, passVars
<1>2. ASSUME NEW v \in VMs, CopyStep(v) PROVE Background
  BY <1>2, PauseEffects DEF CopyStep, Background, resolverVars, passVars
<1>3. ASSUME NEW h \in Hosts, Tidy(h) PROVE Background
  <2>1. CASE UNCHANGED vars
    BY <1>3, <2>1, Unmoved DEF Tidy, Background, vars, vmVars
  <2>2. CASE TurnOff(h)
    BY <1>3, <2>2, TurnOffEffects DEF Tidy, Background
  <2> QED BY <1>3, <2>1, <2>2 DEF Tidy, TurnOffIdle
<1>4. ASSUME NEW h \in Hosts, Crash(h), InjectorEvent PROVE Background
  BY <1>4, TurnOffEffects DEF Crash, InjectorEvent, Background, resolverVars, passVars
<1>5. ASSUME NEW v \in VMs, NEW l \in Loads, NEW h \in Hosts, InjectorEvent,
             UpdateVM(v, l) \/ SuspendVM(v) \/ ResumeVM(v) \/ Recover(h)
      PROVE  Background
  BY <1>5, EventEffects DEF InjectorEvent, Background, resolverVars, passVars
<1>6. CASE InjectorEvent
  <2>1. MeanLoad \in Loads
    BY LoadsAssumption DEF LoadsAssumption
  <2>2. \A v \in VMs : location[v] \in Hosts
    BY DEF TypeOK
  <2>3. (\E v \in VMs : SuspendVM(v) \/ ResumeVM(v)) => Background
    BY <1>5, <1>6, <2>1, <2>2
  <2>4. (\E v \in VMs, l \in Loads : UpdateVM(v, l)) => Background
    BY <1>5, <1>6, <2>2
  <2>5. ASSUME NEW h \in Hosts, Recover(h) PROVE Background
    <3>1. UNCHANGED <<move, location, exit>>
      BY <2>5 DEF Recover, vmVars
    <3> QED BY <1>6, <3>1, Unmoved DEF InjectorEvent, Background, resolverVars, passVars
  <2> QED BY <1>4, <1>6, <2>3, <2>4, <2>5 DEF InjectorEvent
<1> QED BY <1>1, <1>2, <1>3, <1>6

-----------------------------------------------------------------------------
(* The phases of a pass.                                                     *)

(* Nothing migrates outside the application of a plan. *)
AtRest == phase \notin {"launching", "waiting"} => UnderWay = {}

(* An action of the plan is reached by the loop that starts them: it may     *)
(* start now, or it waits only for actions the loop has still to come to, or *)
(* the loop comes to it and it waits for none.                               *)
Reachable(v) ==
  \/ v \in ready
  \/ after[v] # {} /\ after[v] \subseteq toVisit
  \/ v \in first \cap toVisit

PlanInv ==
  /\ phase \in {"sleeping", "waiting", "tidying", "ended"} => Planned = {}
  /\ phase \in {"planning", "computing"} =>
       \A v \in Planned : after[v] \subseteq Planned /\ (after[v] = {} => v \in first)
  /\ phase = "launching" /\ exit = "none" => \A v \in Planned : Reachable(v)
  /\ phase \in {"planning", "computing", "launching"} => ~rpAborted
  /\ phase = "tidying" => ongoing = 0

(* While no failure is reported, the count covers the migrations under way   *)
(* and those that were killed: the actions of the plan that were started and *)
(* have not brought their VM to its destination.                             *)
Pending ==
  {v \in VMs : \/ InFlight(v)
               \/ v \notin Planned \cup dropped /\ ~(goal[v] \subseteq {location[v]})}

GoalInv ==
  /\ \A v \in Planned \cup UnderWay : goal[v] = {move[v].dst}
  /\ ~rpAborted => ongoing >= Cardinality(Pending)

PassInv ==
  /\ ResolverTypeOK /\ PlannedHeld /\ AtRest /\ PlanInv
  /\ CountCovers /\ GoalInv /\ EntropyChecksFirst

LEMMA FiniteVMs ==
  ASSUME NEW S \in SUBSET VMs
  PROVE  IsFiniteSet(S) /\ Cardinality(S) \in Nat
  BY VMsAssumption, FS_Subset, FS_CardinalityType DEF VMsAssumption

LEMMA PassInit == ResolverInit => PassInv
<1> SUFFICES ASSUME ResolverInit PROVE PassInv
  OBVIOUS
<1>1. Planned = {} /\ UnderWay = {} /\ TypeOK
  BY TypeInit DEF ResolverInit, Init, Planned, UnderWay, InFlight, NoMove
<1>2. Pending = {}
  BY <1>1 DEF Pending, UnderWay, ResolverInit
<1>3. Cardinality({}) = 0
  BY FS_EmptySet
<1>4. ResolverTypeOK
  BY <1>1 DEF ResolverTypeOK, ResolverInit, Phases, Instant
<1> QED
  BY <1>1, <1>2, <1>3, <1>4
  DEF PassInv, PlannedHeld, AtRest, PlanInv, CountCovers, GoalInv, EntropyChecksFirst,
      ResolverInit, Init

(* The parts of PassInv that need an argument for every action. *)
Parts == AtRest /\ PlanInv /\ CountCovers /\ GoalInv /\ EntropyChecksFirst

LEMMA BackgroundParts ==
  ASSUME PassInv, exit = "none", Background
  PROVE  Parts'
<1>1. AtRest'
  BY DEF PassInv, Background, AtRest
<1>2. PlanInv'
  BY DEF PassInv, Background, PlanInv, Reachable
<1>3. CountCovers'
  <2>1. UnderWay \in SUBSET VMs /\ UnderWay' \in SUBSET UnderWay
    BY DEF Background, UnderWay
  <2>2. Cardinality(UnderWay') <= Cardinality(UnderWay)
    BY <2>1, FiniteVMs, FS_Subset
  <2>3. Cardinality(UnderWay) \in Nat /\ Cardinality(UnderWay') \in Nat /\ ongoing \in Nat
    BY <2>1, FiniteVMs DEF PassInv, ResolverTypeOK
  <2>4. ~Crashes => UnderWay' = UnderWay
    BY <2>1 DEF PassInv, AtRest, Background
  <2>5. ongoing' = ongoing /\ ongoing >= Cardinality(UnderWay)
        /\ (~Crashes => ongoing = Cardinality(UnderWay))
    BY DEF PassInv, CountCovers, Background
  <2>6. ongoing' >= Cardinality(UnderWay')
    BY <2>2, <2>3, <2>5
  <2> QED BY <2>4, <2>5, <2>6 DEF CountCovers
<1>4. GoalInv'
  <2>1. \A v \in (Planned \cup UnderWay)' : goal'[v] = {move'[v].dst}
    BY DEF PassInv, GoalInv, Background, SameDestinations, Planned, UnderWay, InFlight
  <2>2. Pending \in SUBSET VMs /\ Pending' \in SUBSET Pending
    BY DEF Background, Pending, UnderWay
  <2>3. Cardinality(Pending') <= Cardinality(Pending)
    BY <2>2, FiniteVMs, FS_Subset
  <2>4. Cardinality(Pending) \in Nat /\ Cardinality(Pending') \in Nat /\ ongoing \in Nat
    BY <2>2, FiniteVMs DEF PassInv, ResolverTypeOK
  <2>5. ongoing' = ongoing /\ rpAborted' = rpAborted
        /\ (~rpAborted => ongoing >= Cardinality(Pending))
    BY DEF PassInv, GoalInv, Background
  <2>6. ~rpAborted => ongoing' >= Cardinality(Pending')
    BY <2>3, <2>4, <2>5
  <2> QED BY <2>1, <2>5, <2>6 DEF GoalInv
<1>5. EntropyChecksFirst'
  BY DEF PassInv, Background, EntropyChecksFirst
<1> QED BY <1>1, <1>2, <1>3, <1>4, <1>5 DEF Parts

(* A step of the resolver that leaves the infrastructure and the count alone. *)
LEMMA SameCounts ==
  ASSUME PassInv, UNCHANGED <<vars, planner, ongoing, rpAborted,
               goal, dropped>>
  PROVE  /\ Planned' = Planned /\ UnderWay' = UnderWay
         /\ CountCovers' /\ GoalInv' /\ EntropyChecksFirst'
<1>1. UNCHANGED <<move, location, exit>> /\ Planned' = Planned /\ UnderWay' = UnderWay
  BY Unmoved DEF vars, vmVars
<1>2. Pending' = Pending
  BY <1>1 DEF Pending, InFlight
<1> QED BY <1>1, <1>2 DEF PassInv, CountCovers, GoalInv, EntropyChecksFirst

LEMMA StartPassParts == ASSUME PassInv, StartPass PROVE Parts'
<1>1. UNCHANGED <<move, location, exit>> /\ Planned' = Planned /\ UnderWay' = UnderWay
  BY Unmoved DEF StartPass, vars, vmVars
<1>2. UnderWay = {} /\ Planned = {}
  BY DEF StartPass, PassInv, AtRest, PlanInv
<1>3. Pending' = {}
  BY <1>1, <1>2 DEF Pending, UnderWay, InFlight, StartPass
<1>4. ongoing' = Cardinality(UnderWay') /\ ongoing' >= Cardinality(Pending')
  BY <1>1, <1>2, <1>3, FS_EmptySet DEF StartPass
<1>5. ongoing' >= Cardinality(UnderWay')
  BY <1>1, <1>2, FS_EmptySet DEF StartPass
<1>6. AtRest' /\ PlanInv'
  BY <1>1, <1>2 DEF AtRest, PlanInv, StartPass
<1>7. CountCovers' /\ GoalInv' /\ EntropyChecksFirst'
  BY <1>1, <1>2, <1>4, <1>5
  DEF CountCovers, GoalInv, PassInv, EntropyChecksFirst, StartPass
<1> QED BY <1>6, <1>7 DEF Parts

LEMMA PlanActionParts ==
  ASSUME PassInv, NEW v \in VMs, NEW s \in Hosts, NEW d \in Hosts, PlanAction(v, s, d)
  PROVE  Parts'
<1>1. /\ v \notin Planned /\ Planned' = Planned \cup {v}
      /\ UnderWay' = UnderWay /\ SameDestinations
      /\ location' = location /\ exit' = exit /\ move'[v].dst = d
  BY PlanEffects DEF PlanAction, PassInv, ResolverTypeOK
<1>2. PlanInv'
  <2>1. PICK before \in SUBSET Planned :
          /\ after' = [after EXCEPT ![v] = before]
          /\ first' = IF before = {} THEN first \cup {v} ELSE first
    BY DEF PlanAction
  <2>2. \A w \in VMs : after'[w] = IF w = v THEN before ELSE after[w]
    BY <2>1 DEF PassInv, ResolverTypeOK
  <2>3. Planned \subseteq VMs /\ phase = "planning" /\ phase' = "planning" /\ rpAborted' = rpAborted
    BY DEF Planned, PlanAction
  <2> QED BY <1>1, <2>1, <2>2, <2>3 DEF PassInv, PlanInv
<1>3. AtRest' /\ CountCovers' /\ EntropyChecksFirst'
  BY <1>1 DEF PlanAction, PassInv, AtRest, CountCovers, EntropyChecksFirst
<1>4. GoalInv'
  <2>1. goal' = [goal EXCEPT ![v] = {d}] /\ UNCHANGED <<ongoing, rpAborted, dropped>>
    BY DEF PlanAction
  <2>2. \A w \in VMs : goal'[w] = IF w = v THEN {d} ELSE goal[w]
    BY <2>1 DEF PassInv, ResolverTypeOK
  <2>3. \A w \in (Planned \cup UnderWay)' : goal'[w] = {move'[w].dst}
    BY <1>1, <2>2 DEF PassInv, GoalInv, SameDestinations, Planned, UnderWay, InFlight
  <2>4. Pending \in SUBSET VMs /\ Pending' \in SUBSET Pending
    BY <1>1, <2>1, <2>2 DEF Pending, UnderWay
  <2>5. Cardinality(Pending') <= Cardinality(Pending)
    BY <2>4, FiniteVMs, FS_Subset
  <2>6. Cardinality(Pending) \in Nat /\ Cardinality(Pending') \in Nat /\ ongoing \in Nat
    BY <2>4, FiniteVMs DEF PassInv, ResolverTypeOK
  <2>7. ~rpAborted => ongoing >= Cardinality(Pending)
    BY DEF PassInv, GoalInv
  <2>8. ~rpAborted' => ongoing' >= Cardinality(Pending')
    BY <2>1, <2>5, <2>6, <2>7
  <2> QED BY <2>3, <2>8 DEF GoalInv
<1> QED BY <1>2, <1>3, <1>4 DEF Parts

LEMMA EndComputationParts == ASSUME PassInv, EndComputation PROVE Parts'
<1>1. /\ Planned' = Planned /\ UnderWay' = UnderWay
      /\ CountCovers' /\ GoalInv' /\ EntropyChecksFirst'
  BY SameCounts DEF EndComputation
<1>2. AtRest'
  BY <1>1 DEF PassInv, AtRest, EndComputation
<1>3. PlanInv'
  BY <1>1 DEF PassInv, PlanInv, EndComputation, Reachable
<1> QED BY <1>1, <1>2, <1>3 DEF Parts

LEMMA VisitActionParts == ASSUME PassInv, NEW v \in VMs, VisitAction(v), exit = "none" PROVE Parts'
<1>1. /\ Planned' = Planned /\ UnderWay' = UnderWay
      /\ CountCovers' /\ GoalInv' /\ EntropyChecksFirst'
  BY SameCounts DEF VisitAction
<1>2. AtRest'
  BY <1>1 DEF PassInv, AtRest, VisitAction
<1>3. ASSUME NEW w \in Planned PROVE Reachable(w)'
  <2>1. Reachable(w) /\ w \in VMs /\ ready = {} /\ ~rpAborted
    BY <1>3 DEF PassInv, PlanInv, VisitAction, Planned
  <2>2. after'[w] = after[w] \ {v} /\ toVisit' = toVisit \ {v} /\ first' = first
    BY <2>1 DEF VisitAction
  <2>3. ready' = (first \cap {v}) \cup {u \in VMs : after[u] = {v}}
    BY <2>1 DEF VisitAction, Freed
  <2>4. CASE after[w] # {} /\ after[w] \subseteq toVisit
    BY <2>1, <2>2, <2>3, <2>4 DEF Reachable
  <2>5. CASE w \in first \cap toVisit
    BY <2>1, <2>2, <2>3, <2>5 DEF Reachable
  <2> QED BY <2>1, <2>4, <2>5 DEF Reachable
<1>4. PlanInv'
  BY <1>1, <1>3 DEF PassInv, PlanInv, VisitAction
<1> QED BY <1>1, <1>2, <1>4 DEF Parts

LEMMA PhaseParts ==
  ASSUME PassInv, exit = "none",
         EndLoop \/ EndPlanning \/ EndLaunch \/ EndWait \/ EndPass
  PROVE  Parts'
<1>1. /\ UNCHANGED <<vars, planner, first, after, toVisit, ready, ongoing, rpAborted,
               goal, dropped>>
      /\ Planned' = Planned /\ UnderWay' = UnderWay
      /\ CountCovers' /\ GoalInv' /\ EntropyChecksFirst'
  <2>1. UNCHANGED <<vars, planner, first, after, toVisit, ready, ongoing, rpAborted,
               goal, dropped>>
    BY DEF EndLoop, EndPlanning, EndLaunch, EndWait, EndPass, passVars
  <2> QED BY <2>1, SameCounts
<1>2. CASE EndLoop \/ EndPlanning \/ EndPass
  BY <1>1, <1>2 DEF PassInv, Parts, AtRest, PlanInv, EndLoop, EndPlanning, EndPass
<1>3. CASE EndLaunch
  <2>1. Planned = {}
    BY <1>3 DEF PassInv, PlanInv, Reachable, EndLaunch
  <2> QED BY <1>1, <1>3, <2>1 DEF PassInv, Parts, AtRest, PlanInv, EndLaunch
<1>4. CASE EndWait
  <2>1. UnderWay \in SUBSET VMs /\ ongoing = 0 /\ ongoing >= Cardinality(UnderWay)
    BY <1>4 DEF UnderWay, PassInv, CountCovers, EndWait
  <2>2. Cardinality(UnderWay) = 0
    BY <2>1, FiniteVMs
  <2>3. UnderWay = {}
    BY <2>1, <2>2, FiniteVMs, FS_EmptySet
  <2> QED BY <1>1, <1>4, <2>3 DEF PassInv, Parts, AtRest, PlanInv, EndWait
<1> QED BY <1>2, <1>3, <1>4

LEMMA StartActionParts ==
  ASSUME PassInv, NEW v \in VMs, StartAction(v), exit = "none"
  PROVE  Parts'
<1>0. /\ TypeOK /\ phase = "launching" /\ phase' = "launching" /\ ~rpAborted
      /\ UNCHANGED <<planner, first, after, toVisit, rpAborted, goal>>
      /\ ready' = ready \ {v}
      /\ SkipMove(v) \/ (~Passed(v) /\ RelocateVM(v))
      /\ IF InFlight(v)' THEN ongoing' = ongoing + 1 /\ UNCHANGED dropped
                         ELSE UNCHANGED ongoing /\ dropped' = dropped \cup {v}
  BY DEF StartAction, Counted, PassInv, PlanInv, ResolverTypeOK
<1>1. /\ exit' = exit => Planned' = Planned \ {v}
      /\ Planned \ {v} \subseteq Planned' /\ Planned' \subseteq Planned
      /\ UnderWay' = UnderWay \cup (IF InFlight(v)' THEN {v} ELSE {})
      /\ v \in Planned /\ (InFlight(v)' => v \notin UnderWay)
      /\ SameDestinations /\ location' = location
      /\ exit' = "wrong object" =>
           ~Passed(v) /\ v \in Planned /\ v \notin hosted[move[v].src]
  <2>1. CASE SkipMove(v)
    BY <1>0, <2>1, SkipEffects
  <2>2. CASE ~Passed(v) /\ RelocateVM(v)
    BY <1>0, <2>2, RelocateEffects
  <2> QED BY <1>0, <2>1, <2>2
<1>2. AtRest' /\ PlanInv'
  <2>1. ASSUME exit' = "none", NEW w \in Planned' PROVE Reachable(w)'
    BY <1>0, <1>1, <2>1 DEF PassInv, PlanInv, Reachable
  <2> QED BY <1>0, <2>1 DEF AtRest, PlanInv
<1>3. CountCovers'
  <2> DEFINE n == Cardinality(UnderWay)
  <2>1. UnderWay \in SUBSET VMs /\ n \in Nat /\ ongoing \in Nat
    BY FiniteVMs DEF UnderWay, PassInv, ResolverTypeOK
  <2>2. ongoing >= n /\ (~Crashes => ongoing = n)
    BY DEF PassInv, CountCovers
  <2>3. CASE InFlight(v)'
    <3>1. Cardinality(UnderWay') = n + 1
      BY <1>1, <2>1, <2>3, FiniteVMs, FS_AddElement
    <3> HIDE DEF n
    <3>2. ongoing' >= Cardinality(UnderWay') /\ (~Crashes => ongoing' = Cardinality(UnderWay'))
      BY <1>0, <2>1, <2>2, <2>3, <3>1
    <3> QED BY <3>2 DEF CountCovers
  <2>4. CASE ~InFlight(v)'
    BY <1>0, <1>1, <2>2, <2>4 DEF CountCovers
  <2> QED BY <2>3, <2>4
<1>4. GoalInv'
  <2> DEFINE n == Cardinality(Pending)
  <2>1. Pending \in SUBSET VMs /\ n \in Nat /\ ongoing \in Nat
    BY FiniteVMs DEF Pending, PassInv, ResolverTypeOK
  <2>2. ongoing >= n
    BY <1>0 DEF PassInv, GoalInv
  <2>3. \A w \in (Planned \cup UnderWay)' : goal'[w] = {move'[w].dst}
    <3>1. \A w \in (Planned \cup UnderWay)' :
             w \in Planned \cup UnderWay /\ w \in VMs /\ move[w].pc # "none" /\ move'[w].pc # "none"
      BY <1>1 DEF Planned, UnderWay, InFlight
    <3> QED BY <1>0, <1>1, <3>1 DEF PassInv, GoalInv, SameDestinations
  <2>4. Pending' \in SUBSET (Pending \cup (IF InFlight(v)' THEN {v} ELSE {}))
    <3>1. dropped \subseteq dropped'
      BY <1>0
    <3>2. v \in UnderWay' \/ v \in dropped'
      BY <1>0 DEF UnderWay
    <3> QED BY <1>0, <1>1, <3>1, <3>2 DEF Pending, UnderWay
  <2>5. CASE InFlight(v)'
    <3>1. Cardinality(Pending \cup {v}) <= n + 1 /\ IsFiniteSet(Pending \cup {v})
      BY <2>1, FiniteVMs, FS_AddElement
    <3>2. Cardinality(Pending') <= Cardinality(Pending \cup {v})
      BY <2>4, <2>5, <3>1, FS_Subset
    <3>3. Cardinality(Pending') \in Nat /\ Cardinality(Pending \cup {v}) \in Nat
      BY <2>1, <2>4, <2>5, FiniteVMs
    <3> HIDE DEF n
    <3>4. ongoing' >= Cardinality(Pending')
      BY <1>0, <2>1, <2>2, <2>5, <3>1, <3>2, <3>3
    <3> QED BY <2>3, <3>4 DEF GoalInv
  <2>6. CASE ~InFlight(v)'
    <3>1. Cardinality(Pending') <= n /\ Cardinality(Pending') \in Nat
      BY <2>1, <2>4, <2>6, FiniteVMs, FS_Subset
    <3> HIDE DEF n
    <3>2. ongoing' >= Cardinality(Pending')
      BY <1>0, <2>1, <2>2, <2>6, <3>1
    <3> QED BY <2>3, <3>2 DEF GoalInv
  <2> QED BY <2>5, <2>6
<1>5. EntropyChecksFirst'
  <2> SUFFICES ASSUME planner = "entropy", exit' = "wrong object" PROVE FALSE
    BY <1>0 DEF EntropyChecksFirst
  <2>1. v \in Planned /\ v \notin hosted[move[v].src] /\ ~isSuspended[v]
    BY <1>1 DEF Passed
  <2> QED BY <2>1 DEF PassInv, PlannedHeld
<1> QED BY <1>2, <1>3, <1>4, <1>5 DEF Parts

LEMMA EndOfProcessParts ==
  ASSUME PassInv, NEW v \in VMs, EndOfProcess(v), exit = "none"
  PROVE  Parts' /\ ongoing' \in Nat
<1>0. /\ TypeOK /\ EndMigration(v)
      /\ UNCHANGED <<planner, phase, first, after, toVisit, ready, goal, dropped>>
      /\ ongoing' = ongoing - 1
      /\ ~rpAborted' => ~rpAborted /\ CompleteMigration(v)
      /\ phase \notin Instant
  <2>1. TypeOK /\ EndMigration(v) /\ phase \notin Instant
    BY DEF EndOfProcess, EndMigration, PassInv, ResolverTypeOK
  <2>2. /\ UNCHANGED <<planner, phase, first, after, toVisit, ready, goal, dropped>>
        /\ ongoing' = ongoing - 1
    BY DEF EndOfProcess
  <2>3. ~rpAborted' => ~rpAborted /\ CompleteMigration(v)
    BY Zenon DEF EndOfProcess, Report
  <2> QED BY <2>1, <2>2, <2>3
<1>1. /\ Planned' = Planned
      /\ v \in UnderWay /\ UnderWay' = UnderWay \ {v} /\ SameDestinations
      /\ \A w \in VMs \ {v} : location'[w] = location[w]
      /\ CompleteMigration(v) => location'[v] = move[v].dst
      /\ exit' = exit
  BY <1>0, EndEffects
<1>2. phase = "waiting"
  BY <1>0, <1>1 DEF PassInv, AtRest, Instant
<1>3. AtRest' /\ PlanInv' /\ EntropyChecksFirst'
  BY <1>0, <1>1, <1>2 DEF PassInv, AtRest, PlanInv, EntropyChecksFirst
<1>4. CountCovers' /\ ongoing' \in Nat
  <2> DEFINE n == Cardinality(UnderWay)
  <2>1. UnderWay \in SUBSET VMs /\ n \in Nat /\ ongoing \in Nat
    BY FiniteVMs DEF UnderWay, PassInv, ResolverTypeOK
  <2>2. ongoing >= n /\ (~Crashes => ongoing = n)
    BY DEF PassInv, CountCovers
  <2>3. Cardinality(UnderWay') = n - 1 /\ Cardinality(UnderWay') \in Nat
    <3>1. UnderWay' \in SUBSET VMs
      BY <1>1, <2>1
    <3> QED BY <1>1, <2>1, <3>1, FiniteVMs, FS_RemoveElement
  <2> HIDE DEF n
  <2>4. /\ ongoing' >= Cardinality(UnderWay') /\ ongoing' \in Nat
        /\ ~Crashes => ongoing' = Cardinality(UnderWay')
    BY <1>0, <2>1, <2>2, <2>3
  <2> QED BY <2>4 DEF CountCovers
<1>5. GoalInv'
  <2>1. \A w \in (Planned \cup UnderWay)' : goal'[w] = {move'[w].dst}
    BY <1>0, <1>1 DEF PassInv, GoalInv, SameDestinations, Planned, UnderWay, InFlight
  <2>2. ASSUME ~rpAborted' PROVE ongoing' >= Cardinality(Pending')
    <3> DEFINE n == Cardinality(Pending)
    <3>1. Pending \in SUBSET VMs /\ n \in Nat /\ ongoing \in Nat /\ v \in Pending
      BY <1>1, FiniteVMs DEF Pending, UnderWay, PassInv, ResolverTypeOK
    <3>2. ongoing >= n
      BY <1>0, <2>2 DEF PassInv, GoalInv
    <3>3. location'[v] = move[v].dst /\ goal[v] = {move[v].dst}
      BY <1>0, <1>1, <2>2 DEF PassInv, GoalInv
    <3>4. Pending' \in SUBSET (Pending \ {v})
      BY <1>0, <1>1, <3>3 DEF Pending, UnderWay
    <3>5. Cardinality(Pending \ {v}) = n - 1 /\ IsFiniteSet(Pending \ {v})
      BY <3>1, FiniteVMs, FS_RemoveElement
    <3>6. Cardinality(Pending') <= Cardinality(Pending \ {v}) /\ Cardinality(Pending') \in Nat
      BY <3>1, <3>4, <3>5, FiniteVMs, FS_Subset
    <3> HIDE DEF n
    <3> QED BY <1>0, <3>1, <3>2, <3>5, <3>6
  <2> QED BY <2>1, <2>2 DEF GoalInv
<1> QED BY <1>3, <1>4, <1>5 DEF Parts

LEMMA ResolverTypeStep ==
  ASSUME PassInv, ResolverNext, TypeOK'
  PROVE  ResolverTypeOK'
<1> USE DEF ResolverTypeOK, Phases, Instant
<1>1. ResolverTypeOK
  BY DEF PassInv
<1>2. CASE StartPass
  BY <1>1, <1>2 DEF StartPass, endVars
<1>11. CASE EndLoop \/ EndPlanning \/ EndLaunch \/ EndPass \/ WatchDog
  BY <1>1, <1>11 DEF EndLoop, EndPlanning, EndLaunch, EndPass, WatchDog, passVars, endVars
<1>3. CASE EndComputation \/ EndWait \/ EndInjection \/ Finalize
  BY <1>1, <1>3 DEF EndComputation, EndWait, EndInjection, Finalize, passVars, endVars, Planned
<1>4. ASSUME NEW v \in VMs, NEW s \in Hosts, NEW d \in Hosts, PlanAction(v, s, d)
      PROVE  ResolverTypeOK'
  BY <1>1, <1>4 DEF PlanAction, Planned, endVars
<1>5. ASSUME NEW v \in VMs, VisitAction(v) PROVE ResolverTypeOK'
  BY <1>1, <1>5 DEF VisitAction, Freed, endVars
<1>6. ASSUME NEW v \in VMs, StartAction(v) PROVE ResolverTypeOK'
  <2>1. dropped' \subseteq VMs /\ ongoing' \in Nat
    BY <1>1, <1>6 DEF StartAction, Counted
  <2> QED BY <1>1, <1>6, <2>1 DEF StartAction, endVars
<1>7. ASSUME NEW h \in Hosts, Tidy(h) PROVE ResolverTypeOK'
  BY <1>1, <1>7 DEF Tidy, endVars
<1>8. ASSUME NEW v \in VMs, CopyStep(v) PROVE ResolverTypeOK'
  BY <1>1, <1>8 DEF CopyStep, resolverVars, passVars, endVars
<1>9. ASSUME NEW v \in VMs, EndOfProcess(v) PROVE ResolverTypeOK'
  <2>1. ongoing' \in Nat
    BY <1>9, EndOfProcessParts DEF ResolverNext, Running
  <2>2. rpAborted' \in BOOLEAN
    BY <1>1, <1>9 DEF EndOfProcess, Report
  <2> QED BY <1>1, <1>9, <2>1, <2>2 DEF EndOfProcess, endVars
<1>10. CASE InjectorEvent
  BY <1>1, <1>10 DEF InjectorEvent, resolverVars, passVars, endVars
<1> QED
  BY <1>2, <1>3, <1>4, <1>5, <1>6, <1>7, <1>8, <1>9, <1>10, <1>11 DEF ResolverNext, ResolverStep

LEMMA PassStep == PassInv /\ [ResolverNext]_allVars => PassInv'
<1> SUFFICES ASSUME PassInv, [ResolverNext]_allVars PROVE PassInv'
  OBVIOUS
<1>1. [Next]_vars /\ TypeOK /\ PlannedHeld
  BY StepOfInfrastructure DEF PassInv, ResolverTypeOK
<1>2. TypeOK' /\ PlannedHeld'
  BY <1>1, TypeStep, PlannedHeldStep
<1>3. CASE ResolverNext
  <2>0. exit = "none"
    BY <1>3 DEF ResolverNext, Running
  <2>1. ASSUME NEW v \in VMs, VisitAction(v) \/ StartAction(v) \/ EndOfProcess(v) PROVE Parts'
    BY <2>0, <2>1, VisitActionParts, StartActionParts, EndOfProcessParts
  <2>2. ASSUME NEW v \in VMs, NEW s \in Hosts, NEW d \in Hosts, PlanAction(v, s, d) PROVE Parts'
    BY <2>2, PlanActionParts
  <2>3. ASSUME \/ InjectorEvent \/ EndInjection \/ Finalize \/ WatchDog
               \/ \E v \in VMs : CopyStep(v)
               \/ \E h \in Hosts : Tidy(h)
        PROVE  Parts'
    BY <1>1, <2>0, <2>3, BackgroundSteps, BackgroundParts
  <2>4. ASSUME EndLoop \/ EndPlanning \/ EndLaunch \/ EndWait \/ EndPass PROVE Parts'
    BY <2>0, <2>4, PhaseParts
  <2>5. ASSUME StartPass \/ EndComputation PROVE Parts'
    BY <2>5, StartPassParts, EndComputationParts
  <2>6. ResolverStep => Parts'
    BY <2>1, <2>2, <2>3, <2>4, <2>5 DEF ResolverStep
  <2>7. Parts'
    BY <1>3, <2>1, <2>3, <2>6 DEF ResolverNext
  <2> QED BY <1>2, <1>3, <2>7, ResolverTypeStep DEF PassInv, Parts
<1>4. CASE UNCHANGED allVars
  <2>1. /\ Planned' = Planned /\ UnderWay' = UnderWay
        /\ CountCovers' /\ GoalInv' /\ EntropyChecksFirst'
    BY <1>4, SameCounts DEF allVars, resolverVars, passVars
  <2>2. ResolverTypeOK'
    BY <1>2, <1>4 DEF PassInv, ResolverTypeOK, allVars, resolverVars, passVars, endVars
  <2>3. AtRest' /\ PlanInv'
    BY <1>4, <2>1
    DEF PassInv, AtRest, PlanInv, Reachable, allVars, vars, resolverVars, passVars
  <2> QED BY <1>2, <2>1, <2>2, <2>3 DEF PassInv
<1> QED BY <1>3, <1>4 DEF allVars

LEMMA PassInvariant == ResolverSpec => []PassInv
<1> QED BY PassInit, PassStep, PTL DEF ResolverSpec

-----------------------------------------------------------------------------
(* What a pass of the resolver does, in every setting.                       *)

(* Every variable of the resolver keeps its type: the count of migrations    *)
(* never falls below 0 (AbstractScheduler.decOngoingMigrations).             *)
THEOREM ResolverTypeCorrect == ResolverSpec => []ResolverTypeOK
<1>1. PassInv => ResolverTypeOK
  BY DEF PassInv
<1> QED BY <1>1, PassInvariant, PTL

(* Once the loop over the actions is over, none is left to start, in         *)
(* whatever order it has come to them (applyReconfigurationPlanLogically).   *)
THEOREM EveryActionIsStarted == ResolverSpec => []EveryActionStarts
<1>1. PassInv => EveryActionStarts
  BY DEF PassInv, PlanInv, EveryActionStarts
<1> QED BY <1>1, PassInvariant, PTL

(* The count covers the migrations under way, and is exact if no FaultEvent  *)
(* stops a host (AbstractScheduler.relocateVM).                              *)
THEOREM MigrationsAreCounted == ResolverSpec => []CountCovers
<1>1. PassInv => CountCovers
  BY DEF PassInv
<1> QED BY <1>1, PassInvariant, PTL

(* A pass that ends without having seen a failure has brought every VM of    *)
(* its plan where the plan wants it, but for those whose action was passed   *)
(* over when its turn came (checkAndReconfigure, SUCCESS).                   *)
THEOREM SuccessesAreTrue == ResolverSpec => []SuccessIsTrue
<1>1. PassInv => SuccessIsTrue
  <2> SUFFICES ASSUME PassInv, phase = "tidying", ~rpAborted
               PROVE  \A v \in VMs : goal[v] \subseteq {location[v]} \/ v \in dropped
    BY DEF SuccessIsTrue
  <2>1. Pending \in SUBSET VMs /\ ongoing = 0 /\ ongoing >= Cardinality(Pending)
    BY DEF Pending, PassInv, PlanInv, GoalInv
  <2>2. Cardinality(Pending) = 0
    BY <2>1, FiniteVMs
  <2>3. Pending = {}
    BY <2>1, <2>2, FiniteVMs, FS_EmptySet
  <2>4. Planned = {}
    BY DEF PassInv, PlanInv
  <2> QED BY <2>3, <2>4 DEF Pending
<1> QED BY <1>1, PassInvariant, PTL

(* Which passes carry their whole plan out: those where no action is passed  *)
(* over, because no VM was suspended and no source is off.                   *)

(* Without FaultEvents only hosts without VMs are stopped. *)
OffAreEmpty == \A h \in off : hosted[h] = {}

Frozen == \A h \in off : hosted'[h] = hosted[h]

LEMMA OffAreEmptyStep ==
  ASSUME ~Crashes, TypeOK, OffAreEmpty, [Next]_vars, [Frozen]_vars
  PROVE  OffAreEmpty'
<1>1. ASSUME NEW v \in VMs, RelocateVM(v) PROVE off' \subseteq off
  BY <1>1 DEF RelocateVM, SwitchOn, Exit, hostVars
<1>2. ASSUME NEW v \in VMs, EndMigration(v) \/ PauseMigration(v) PROVE off' = off
  BY <1>2 DEF EndMigration, CompleteMigration, LoseMigration, FailMigration, PauseMigration, hostVars
<1>3. ASSUME NEW v \in VMs, SuspendVM(v) \/ ResumeVM(v) PROVE off' = off
  BY <1>3 DEF SuspendVM, SuspendNow, PostponeSuspension, ResumeVM, ResumeSuspended,
              CancelPostponed, Exit, hostVars
<1>4. ASSUME NEW v \in VMs, NEW l \in Loads, UpdateVM(v, l) PROVE off' = off
  BY <1>4 DEF UpdateVM, UpdateRunningVM, UpdatePausedVM, hostVars
<1>5. ASSUME NEW v \in VMs, NEW s \in Hosts, NEW d \in Hosts, PlanMove(v, s, d)
      PROVE  off' = off
  BY <1>5 DEF PlanMove, hostVars
<1>6. ASSUME NEW h \in Hosts, TurnOffIdle(h) PROVE OffAreEmpty'
  BY <1>6 DEF TurnOffIdle, TurnOff, OffAreEmpty
<1>7. ASSUME off' \subseteq off PROVE OffAreEmpty'
  BY <1>7 DEF OffAreEmpty, Frozen, vars, hostVars
<1>8. CASE UNCHANGED vars
  BY <1>7, <1>8 DEF vars, hostVars
<1>9. ASSUME NEW v \in VMs, SkipMove(v) PROVE off' = off
  BY <1>9 DEF SkipMove, hostVars
<1> QED
  BY <1>1, <1>2, <1>3, <1>4, <1>5, <1>6, <1>7, <1>8, <1>9 DEF Next, Crash, Recover

(* Nothing is passed over, and nothing but the start of a migration can stop *)
(* the simulator.                                                            *)
NothingDropped ==
  /\ exit = "none" => dropped = {}
  /\ phase # "launching" => exit = "none"

LEMMA NothingDroppedStep ==
  ASSUME ~Suspensions, ~Crashes, PassInv, StopInv, OffAreEmpty, NothingDropped,
         [ResolverNext]_allVars
  PROVE  NothingDropped'
<1>1. ASSUME NEW v \in VMs, StartAction(v), exit = "none" PROVE NothingDropped'
  <2>1. phase' = "launching" /\ move[v].pc = "planned" /\ v \in Planned /\ ~isSuspended[v]
    BY <1>1 DEF StartAction, SkipMove, RelocateVM, Planned, StopInv
  <2>2. move[v].src \notin off
    BY <2>1 DEF PassInv, PlannedHeld, OffAreEmpty
  <2>3. RelocateVM(v)
    BY <1>1, <2>1 DEF StartAction, SkipMove
  <2>4. exit' # "none" \/ move' = [move EXCEPT ![v].pc = "copying"]
    BY <2>2, <2>3 DEF RelocateVM, Exit
  <2>5. exit' # "none" \/ InFlight(v)'
    <3>1. move[v] \in Move
      BY <2>1, MoveTypes DEF PassInv, ResolverTypeOK
    <3> QED BY <2>4, <3>1 DEF InFlight, Move, TypeOK, PassInv, ResolverTypeOK
  <2>6. CASE InFlight(v)'
    BY <1>1, <2>1, <2>6 DEF StartAction, NothingDropped
  <2>7. CASE exit' # "none"
    BY <2>1, <2>7 DEF NothingDropped
  <2> QED BY <2>5, <2>6, <2>7
<1>2. ASSUME dropped' \in {dropped, {}}, exit' = exit, exit = "none" PROVE NothingDropped'
  BY <1>2 DEF NothingDropped
<1>3. ASSUME exit = "none", StartPass \/ EndLoop \/ EndPlanning \/ EndComputation \/ EndLaunch
             \/ EndWait \/ EndPass \/ WatchDog \/ EndInjection \/ Finalize
      PROVE  NothingDropped'
  BY <1>2, <1>3 DEF StartPass, EndLoop, EndPlanning, EndComputation, EndLaunch, EndWait,
       EndPass, WatchDog, EndInjection, Finalize, vars, passVars
<1>4. ASSUME exit = "none", NEW v \in VMs, VisitAction(v) \/ CopyStep(v) \/ EndOfProcess(v)
      PROVE  NothingDropped'
  BY <1>2, <1>4 DEF VisitAction, CopyStep, EndOfProcess, PauseMigration, CompleteMigration,
       LoseMigration, FailMigration, vars, resolverVars, passVars
<1>5. ASSUME exit = "none", NEW v \in VMs, NEW s \in Hosts, NEW d \in Hosts, PlanAction(v, s, d)
      PROVE  NothingDropped'
  BY <1>2, <1>5 DEF PlanAction, PlanMove
<1>6. ASSUME exit = "none", NEW h \in Hosts, Tidy(h) PROVE NothingDropped'
  BY <1>2, <1>6 DEF Tidy, TurnOffIdle, TurnOff, vars
<1>7. ASSUME exit = "none", InjectorEvent PROVE NothingDropped'
  <2>1. dropped' = dropped
    BY <1>7 DEF InjectorEvent, resolverVars, passVars
  <2>2. exit' = exit
    BY <1>7 DEF InjectorEvent, UpdateVM, UpdateRunningVM, UpdatePausedVM, SuspendVM, ResumeVM,
         Crash, Recover
  <2> QED BY <1>2, <1>7, <2>1, <2>2
<1>8. CASE UNCHANGED allVars
  BY <1>8 DEF NothingDropped, allVars, vars, resolverVars, passVars
<1>9. CASE ResolverNext
  <2>1. exit = "none"
    BY <1>9 DEF ResolverNext, Running
  <2> QED BY <1>1, <1>3, <1>4, <1>5, <1>6, <1>7, <1>9, <2>1 DEF ResolverNext, ResolverStep
<1> QED BY <1>8, <1>9

(* Where no FaultEvent and no suspension comes between the computation of a  *)
(* plan and its application, a pass that reports success has carried out     *)
(* every action of its plan, whatever the loads do (checkAndReconfigure,     *)
(* SUCCESS).                                                                 *)
THEOREM UndisturbedPlansAreCarriedOut ==
  ASSUME ~Suspensions, ~Crashes
  PROVE  ResolverSpec => []PlanCarriedOut
<1>1. ResolverInit => OffAreEmpty /\ NothingDropped
  BY InitialHosted DEF ResolverInit, OffAreEmpty, NothingDropped, Init
<1>2. TypeOK /\ OffAreEmpty /\ [Next]_vars /\ [Frozen]_vars => OffAreEmpty'
  BY OffAreEmptyStep
<1>3. Spec => []TypeOK /\ []StopInv /\ [][Frozen]_vars
  BY StopInvariant, StoppedFrozen, PTL DEF StoppedHostsFrozen, Frozen
<1>4. ResolverSpec => []OffAreEmpty
  BY <1>1, <1>2, <1>3, ResolverIsInfrastructure, PTL DEF ResolverSpec, Spec
<1>5. PassInv /\ StopInv /\ OffAreEmpty /\ NothingDropped /\ [ResolverNext]_allVars
        => NothingDropped'
  BY NothingDroppedStep
<1>6. SuccessIsTrue /\ NothingDropped => PlanCarriedOut
  BY DEF SuccessIsTrue, NothingDropped, PlanCarriedOut
<1>7. ResolverSpec => []StopInv
  BY <1>3, ResolverIsInfrastructure, PTL
<1>8. ResolverSpec => []NothingDropped
  BY <1>1, <1>4, <1>5, <1>7, PassInvariant, PTL DEF ResolverSpec
<1> QED BY <1>6, <1>8, SuccessesAreTrue, PTL

(* The check Entropy makes before it starts a migration keeps XHost.migrate  *)
(* from giving up (Entropy2RP.instantiateAndStart).                          *)
THEOREM EntropyNeverGivesUp == ResolverSpec => []EntropyChecksFirst
<1>1. PassInv => EntropyChecksFirst
  BY DEF PassInv
<1> QED BY <1>1, PassInvariant, PTL

-----------------------------------------------------------------------------
(* A pass implements Reconfiguration.                                        *)

LEMMA StageOf ==
  ASSUME ResolverTypeOK
  PROVE  /\ phase \in {"sleeping", "planning", "computing", "tidying"} => Stage = "idle"
         /\ phase = "launching" => Stage = "launching"
         /\ phase = "waiting" => Stage = "waiting"
         /\ phase = "ended" => Stage = "over"
  BY DEF Stage

LEMMA ReconfigurationStep ==
  ASSUME PassInv, PassInv', [ResolverNext]_allVars
  PROVE  [R!Next]_<<Stage, UnderWay>>
<1> USE DEF R!Next
<1>1. ResolverTypeOK /\ ResolverTypeOK' /\ TypeOK
  BY DEF PassInv, ResolverTypeOK
<1>2. /\ phase' \in {"sleeping", "planning", "computing", "tidying"} => Stage' = "idle"
      /\ phase' = "launching" => Stage' = "launching"
      /\ phase' = "waiting" => Stage' = "waiting"
      /\ phase' = "ended" => Stage' = "over"
  BY <1>1 DEF Stage
<1>3. ASSUME UNCHANGED vars PROVE UnderWay' = UnderWay
  BY <1>3, Unmoved DEF vars
<1>4. ASSUME StartPass \/ EndPlanning \/ EndPass PROVE [R!Next]_<<Stage, UnderWay>>
  BY <1>1, <1>2, <1>3, <1>4, StageOf DEF StartPass, EndPlanning, EndPass
<1>5. ASSUME EndLoop PROVE [R!Next]_<<Stage, UnderWay>>
  BY <1>1, <1>2, <1>3, <1>5, StageOf DEF EndLoop, R!Retire
<1>6. ASSUME EndComputation PROVE [R!Next]_<<Stage, UnderWay>>
  BY <1>1, <1>2, <1>3, <1>6, StageOf DEF EndComputation, R!Begin
<1>7. ASSUME EndLaunch PROVE [R!Next]_<<Stage, UnderWay>>
  BY <1>1, <1>2, <1>3, <1>7, StageOf DEF EndLaunch, R!Wait
<1>8. ASSUME EndWait PROVE [R!Next]_<<Stage, UnderWay>>
  <2>1. UnderWay' = {} /\ UnderWay' = UnderWay
    BY <1>3, <1>8 DEF PassInv, AtRest, EndWait
  <2> QED BY <1>1, <1>2, <1>8, <2>1, StageOf DEF EndWait, R!Close
<1>9. ASSUME NEW v \in VMs, VisitAction(v) PROVE [R!Next]_<<Stage, UnderWay>>
  BY <1>1, <1>2, <1>3, <1>9, StageOf DEF VisitAction
<1>10. ASSUME NEW v \in VMs, StartAction(v), exit = "none"
       PROVE  [R!Next]_<<Stage, UnderWay>>
  <2>1. UnderWay' = UnderWay \/ (v \notin UnderWay /\ UnderWay' = UnderWay \cup {v})
    <3>1. CASE SkipMove(v)
      BY <1>1, <3>1, SkipEffects
    <3>2. CASE RelocateVM(v)
      BY <1>1, <1>10, <3>2, RelocateEffects
    <3> QED BY <1>10, <3>1, <3>2 DEF StartAction
  <2> QED BY <1>1, <1>2, <1>10, <2>1, StageOf DEF StartAction, R!Start
<1>11. ASSUME NEW v \in VMs, NEW s \in Hosts, NEW d \in Hosts, PlanAction(v, s, d)
       PROVE  [R!Next]_<<Stage, UnderWay>>
  <2>1. UnderWay' = UnderWay
    BY <1>1, <1>11, PlanEffects DEF PlanAction
  <2> QED BY <1>1, <1>2, <1>11, <2>1, StageOf DEF PlanAction
(* Migrations that end, well or not. *)
<1>12. ASSUME phase' = phase, UnderWay' \subseteq UnderWay, phase # "launching"
       PROVE  [R!Next]_<<Stage, UnderWay>>
  <2>1. Stage' = Stage
    BY <1>1, <1>2, <1>12, StageOf DEF ResolverTypeOK, Phases, Instant
  <2>2. CASE phase = "waiting"
    BY <1>1, <1>12, <2>1, <2>2, StageOf DEF R!Finish
  <2>3. CASE phase # "waiting"
    BY <1>12, <2>1, <2>3 DEF PassInv, AtRest
  <2> QED BY <2>2, <2>3
<1>13. ASSUME NEW v \in VMs, EndOfProcess(v) PROVE [R!Next]_<<Stage, UnderWay>>
  BY <1>1, <1>12, <1>13, EndEffects DEF EndOfProcess, EndMigration, Instant
<1>14. ASSUME \/ InjectorEvent \/ EndInjection \/ Finalize \/ WatchDog
              \/ \E v \in VMs : CopyStep(v)
              \/ \E h \in Hosts : Tidy(h)
       PROVE  [R!Next]_<<Stage, UnderWay>>
  <2>1. phase # "launching" \/ UnderWay' = UnderWay
    <3>1. CASE EndInjection \/ Finalize \/ WatchDog
      BY <1>3, <3>1 DEF EndInjection, Finalize, WatchDog
    <3>2. CASE InjectorEvent \/ (\E v \in VMs : CopyStep(v)) \/ (\E h \in Hosts : Tidy(h))
      BY <3>2 DEF InjectorEvent, CopyStep, Tidy, Instant
    <3> QED BY <1>14, <3>1, <3>2
  <2>2. phase' = phase /\ UnderWay' \subseteq UnderWay
    BY <1>1, <1>14, BackgroundSteps DEF Background
  <2>3. CASE UnderWay' = UnderWay
    BY <1>1, <1>2, <2>2, <2>3, StageOf DEF ResolverTypeOK, Phases, Instant
  <2> QED BY <1>12, <2>1, <2>2, <2>3
<1>15. CASE ResolverNext
  <2>1. exit = "none"
    BY <1>15 DEF ResolverNext, Running
  <2>2. ASSUME ResolverStep PROVE [R!Next]_<<Stage, UnderWay>>
    BY <1>4, <1>5, <1>6, <1>7, <1>8, <1>9, <1>10, <1>11, <1>14, <2>1, <2>2 DEF ResolverStep
  <2> QED BY <1>13, <1>14, <1>15, <2>2 DEF ResolverNext
<1>16. CASE UNCHANGED allVars
  <2>1. phase' = phase /\ UNCHANGED vars
    BY <1>16 DEF allVars, resolverVars
  <2> QED BY <1>1, <1>2, <1>3, <2>1, StageOf DEF ResolverTypeOK, Phases, Instant
<1> QED BY <1>15, <1>16

(* Every pass of the resolver is one of Reconfiguration: migrations take     *)
(* place only while the pass that planned them applies its plan, and none is *)
(* left when the next one reads the configuration or the simulation is       *)
(* finalized (AbstractScheduler.checkAndReconfigure).                        *)
THEOREM PassesImplementReconfiguration == ResolverSpec => RefinesReconfiguration
<1>1. ResolverInit => R!Init
  <2> SUFFICES ASSUME ResolverInit PROVE R!Init
    OBVIOUS
  <2>1. ResolverTypeOK /\ AtRest /\ phase = "sleeping"
    BY PassInit DEF PassInv, ResolverInit
  <2> QED BY <2>1, StageOf DEF R!Init, AtRest
<1>2. PassInv /\ PassInv' /\ [ResolverNext]_allVars => [R!Next]_<<Stage, UnderWay>>
  BY ReconfigurationStep
<1> QED BY <1>1, <1>2, PassInvariant, PTL DEF ResolverSpec, RefinesReconfiguration, R!Spec

=============================================================================
