------------------------ MODULE InfrastructureProofs ------------------------
(***************************************************************************)
(* Theorems about Infrastructure, for any hosts, VMs, loads and capacity.  *)
(* Those about an inductive invariant IInv are laid out alike: Init implies *)
(* it, every action of Next preserves it, PTL concludes.                   *)
(***************************************************************************)
EXTENDS InfrastructureTrace, SumsProofs

-----------------------------------------------------------------------------
(* Types, in every setting.                                                  *)

(* The moves a step leaves or makes are moves. *)
LEMMA MoveTypes ==
  ASSUME TypeOK
  PROVE  /\ \A v \in VMs : move[v] \in Move \cup {NoMove}
         /\ \A v \in VMs : move[v].pc # "none" =>
              /\ move[v] \in Move
              /\ move[v].src \in Hosts /\ move[v].dst \in Hosts
         /\ \A v \in VMs : InFlight(v) => move[v] \in Move
  BY DEF TypeOK, Move, NoMove, InFlight

LEMMA InterruptedType ==
  ASSUME TypeOK, NEW h \in Hosts
  PROVE  Interrupted(h) \in [VMs -> Move \cup {NoMove}]
<1> SUFFICES ASSUME NEW v \in VMs
             PROVE  Interrupted(h)[v] \in Move \cup {NoMove}
  BY DEF Interrupted
<1>1. CASE InFlight(v) /\ move[v].dst = h /\ move[v].src # h
  <2>1. move[v] \in Move
    BY <1>1, MoveTypes
  <2>2. [move[v] EXCEPT !.cut = TRUE] \in Move
    BY <2>1 DEF Move
  <2> QED BY <1>1, <2>2 DEF Interrupted
<1>2. CASE ~(InFlight(v) /\ move[v].dst = h /\ move[v].src # h)
  BY <1>2 DEF Interrupted, TypeOK
<1> QED BY <1>1, <1>2

LEMMA DemandType ==
  ASSUME NEW vms, NEW loads \in [VMs -> Loads]
  PROVE  ComputeCPUDemand(vms, loads) \in [VMs -> Int]
<1>1. \A v \in VMs : loads[v] \in Nat
  BY LoadsAssumption DEF LoadsAssumption
<1> QED BY <1>1 DEF ComputeCPUDemand

LEMMA TypeInit == Init => TypeOK
<1> SUFFICES ASSUME Init PROVE TypeOK
  OBVIOUS
<1>1. location \in [VMs -> Hosts]
  BY DEF Init, InitialPlacement
<1>2. load \in [VMs -> Loads]
  BY LoadsAssumption DEF LoadsAssumption, Init
<1>3. cpuDemand \in [Hosts -> [VMs -> Int]]
  BY <1>2, DemandType DEF Init
<1> QED BY <1>1, <1>2, <1>3 DEF Init, InitiallyOff, TypeOK, ExitReasons

(* One lemma per action. *)
LEMMA TypeUpdateVM ==
  ASSUME TypeOK, NEW v \in VMs, NEW l \in Loads, UpdateVM(v, l)
  PROVE  TypeOK'
<1>1. load' \in [VMs -> Loads]
  BY DEF TypeOK, UpdateVM, UpdateRunningVM, UpdatePausedVM, SetLoad
<1>2. CASE UpdateRunningVM(v, l)
  <2>0. load[v] \in Nat /\ l \in Nat
    BY LoadsAssumption DEF LoadsAssumption, TypeOK
  <2>1. AdjustedDemand(v, l) \in [VMs -> Int]
    <3>1. cpuDemand[location[v]] \in [VMs -> Int]
      BY DEF TypeOK
    <3>2. cpuDemand[location[v]][v] - load[v] + l \in Int
      BY <2>0, <3>1
    <3> QED BY <3>1, <3>2 DEF AdjustedDemand
  <2>2. cpuDemand' \in [Hosts -> [VMs -> Int]]
    BY <1>2, <2>1 DEF TypeOK, UpdateRunningVM
  <2>3. violated' \in [Hosts -> BOOLEAN]
    BY <1>2, Zenon DEF TypeOK, UpdateRunningVM
  <2> QED BY <1>1, <1>2, <2>2, <2>3 DEF TypeOK, UpdateRunningVM, mapVars
<1>3. CASE UpdatePausedVM(v, l)
  BY <1>1, <1>3 DEF TypeOK, UpdatePausedVM, mapVars, hostVars
<1> QED BY <1>2, <1>3 DEF UpdateVM

LEMMA TypeExit ==
  ASSUME TypeOK, NEW r \in ExitReasons, Exit(r)
  PROVE  TypeOK'
  BY DEF TypeOK, Exit, hostVars, vmVars, mapVars

LEMMA TypeSuspendVM ==
  ASSUME TypeOK, NEW v \in VMs, SuspendVM(v)
  PROVE  TypeOK'
<1>1. CASE SuspendNow(v)
  <2>1. hosted' \in [Hosts -> SUBSET VMs]
    BY <1>1 DEF TypeOK, SuspendNow
  <2>2. cpuDemand' \in [Hosts -> [VMs -> Int]]
    BY <1>1, DemandType DEF TypeOK, SuspendNow
  <2>3. violated' \in [Hosts -> BOOLEAN]
    BY <1>1, Zenon DEF TypeOK, SuspendNow
  <2>4. isSuspended' \in [VMs -> BOOLEAN]
    BY <1>1 DEF TypeOK, SuspendNow
  <2> QED BY <1>1, <2>1, <2>2, <2>3, <2>4 DEF TypeOK, SuspendNow
<1>2. CASE PostponeSuspension(v)
  BY <1>2 DEF TypeOK, PostponeSuspension, hostVars, vmVars
<1>3. CASE Exit("suspend of a VM that is not on")
  BY <1>3, TypeExit DEF ExitReasons
<1> QED BY <1>1, <1>2, <1>3 DEF SuspendVM

LEMMA TypeResumeVM ==
  ASSUME TypeOK, NEW v \in VMs, ResumeVM(v)
  PROVE  TypeOK'
<1>1. CASE ResumeSuspended(v)
  <2>1. hosted' \in [Hosts -> SUBSET VMs]
    BY <1>1 DEF TypeOK, ResumeSuspended
  <2>2. cpuDemand' \in [Hosts -> [VMs -> Int]]
    BY <1>1, DemandType DEF TypeOK, ResumeSuspended
  <2>3. violated' \in [Hosts -> BOOLEAN]
    BY <1>1, Zenon DEF TypeOK, ResumeSuspended
  <2>4. isSuspended' \in [VMs -> BOOLEAN]
    BY <1>1 DEF TypeOK, ResumeSuspended
  <2> QED BY <1>1, <2>1, <2>2, <2>3, <2>4 DEF TypeOK, ResumeSuspended
<1>2. CASE CancelPostponed(v)
  BY <1>2 DEF TypeOK, CancelPostponed, hostVars, vmVars
<1>3. CASE \E r \in ExitReasons : Exit(r)
  BY <1>3, TypeExit
<1> QED BY <1>1, <1>2, <1>3 DEF ResumeVM, ExitReasons

LEMMA TypeTurnOff ==
  ASSUME TypeOK, NEW h \in Hosts, TurnOff(h)
  PROVE  TypeOK'
  BY InterruptedType DEF TypeOK, TurnOff, vmVars

LEMMA TypeRecover ==
  ASSUME TypeOK, NEW h \in Hosts, Recover(h)
  PROVE  TypeOK'
  BY DEF TypeOK, Recover, SwitchOn, vmVars

LEMMA TypePlanMove ==
  ASSUME TypeOK, NEW v \in VMs, NEW s \in Hosts, NEW d \in Hosts, PlanMove(v, s, d)
  PROVE  TypeOK'
  BY DEF TypeOK, PlanMove, Move, hostVars, vmVars, mapVars

LEMMA TypeSkipMove ==
  ASSUME TypeOK, NEW v \in VMs, SkipMove(v)
  PROVE  TypeOK'
  BY DEF TypeOK, SkipMove, hostVars, vmVars, mapVars

LEMMA TypeRelocateVM ==
  ASSUME TypeOK, NEW v \in VMs, RelocateVM(v)
  PROVE  TypeOK'
<1> DEFINE s == move[v].src
           d == move[v].dst
<1>0. /\ s \in Hosts /\ d \in Hosts
      /\ move[v] \in Move
  BY MoveTypes DEF RelocateVM
<1>1. CASE s \in off /\ SwitchOn(d) /\ move' = [move EXCEPT ![v] = NoMove]
           /\ UNCHANGED <<hosted, cpuDemand, onGoingMigration, violated, vmVars,
                          vmsToSuspend, asked, exit>>
  BY <1>0, <1>1 DEF TypeOK, SwitchOn, vmVars
<1>2. CASE /\ SwitchOn(d)
           /\ onGoingMigration' = [onGoingMigration EXCEPT ![s] = TRUE, ![d] = TRUE]
           /\ isMigrating' = [isMigrating EXCEPT ![v] = TRUE]
           /\ move' = [move EXCEPT ![v].pc = "copying"]
           /\ UNCHANGED <<hosted, cpuDemand, violated, location, load,
                          isSuspended, vmsToSuspend, asked, exit>>
  <2>1. [move[v] EXCEPT !.pc = "copying"] \in Move
    BY <1>0 DEF Move
  <2>2. move' \in [VMs -> Move \cup {NoMove}]
    BY <1>2, <2>1 DEF TypeOK
  <2>3. onGoingMigration' \in [Hosts -> BOOLEAN] /\ isMigrating' \in [VMs -> BOOLEAN]
    BY <1>2 DEF TypeOK
  <2> QED BY <1>0, <1>2, <2>2, <2>3 DEF TypeOK, SwitchOn
<1>3. CASE \E r \in ExitReasons : Exit(r)
  BY <1>3, TypeExit
<1> QED BY <1>1, <1>2, <1>3 DEF RelocateVM, ExitReasons

LEMMA TypePauseMigration ==
  ASSUME TypeOK, NEW v \in VMs, PauseMigration(v)
  PROVE  TypeOK'
<1>1. move[v] \in Move
  BY MoveTypes DEF PauseMigration
<1>2. [move[v] EXCEPT !.pc = "paused"] \in Move
  BY <1>1 DEF Move
<1>3. move' \in [VMs -> Move \cup {NoMove}]
  BY <1>2 DEF TypeOK, PauseMigration
<1> QED BY <1>3 DEF TypeOK, PauseMigration, hostVars, vmVars, mapVars

LEMMA TypeEndMigration ==
  ASSUME TypeOK, NEW v \in VMs, EndMigration(v)
  PROVE  TypeOK'
<1>0. move[v].src \in Hosts /\ move[v].dst \in Hosts
  BY MoveTypes DEF EndMigration, CompleteMigration, LoseMigration, FailMigration, InFlight
<1>1. move' \in [VMs -> Move \cup {NoMove}]
  BY DEF TypeOK, EndMigration, CompleteMigration, LoseMigration, FailMigration
<1>2. Lowered(v) \in [Hosts -> BOOLEAN]
  BY <1>0 DEF Lowered, TypeOK
<1>3. CASE CompleteMigration(v)
  <2> DEFINE s == move[v].src
             d == move[v].dst
             arrived == ListedAfter(v)
             demand == [cpuDemand EXCEPT ![s] = ComputeCPUDemand(arrived[s], load),
                                         ![d] = ComputeCPUDemand(arrived[d], load)]
             left == IF Marked(v) THEN [arrived EXCEPT ![d] = @ \ {v}] ELSE arrived
  <2>1. arrived \in [Hosts -> SUBSET VMs]
    BY <1>0 DEF TypeOK, ListedAfter
  <2>2. left \in [Hosts -> SUBSET VMs]
    BY <1>0, <2>1
  <2>3. /\ ComputeCPUDemand(arrived[s], load) \in [VMs -> Int]
        /\ ComputeCPUDemand(arrived[d], load) \in [VMs -> Int]
        /\ ComputeCPUDemand(left[d], load) \in [VMs -> Int]
    BY DemandType DEF TypeOK
  <2>4. demand \in [Hosts -> [VMs -> Int]]
    BY <2>3 DEF TypeOK
  <2>5. cpuDemand' \in [Hosts -> [VMs -> Int]]
    <3> HIDE DEF demand, left
    <3> cpuDemand' = IF Marked(v)
                     THEN [demand EXCEPT ![d] = ComputeCPUDemand(left[d], load)]
                     ELSE demand
      BY <1>3 DEF CompleteMigration, demand, left
    <3> QED BY <2>3, <2>4
  <2>6. violated' \in [Hosts -> BOOLEAN]
    <3> HIDE DEF demand, left
    <3>1. violated' = [violated EXCEPT
                       ![s] = @ /\ ~IsViable(demand[s]),
                       ![d] = IF IsViable(demand[d]) THEN @ ELSE ~IsViable(cpuDemand'[d])]
      BY <1>3 DEF CompleteMigration, demand
    <3> QED BY <3>1, Zenon DEF TypeOK
  <2>7. hosted' \in [Hosts -> SUBSET VMs]
    BY <1>3, <2>2 DEF CompleteMigration
  <2>8. isSuspended' \in [VMs -> BOOLEAN]
    BY <1>3 DEF CompleteMigration, TypeOK, Marked
  <2> QED BY <1>0, <1>1, <1>2, <1>3, <2>5, <2>6, <2>7, <2>8
       DEF TypeOK, CompleteMigration
<1>4. CASE LoseMigration(v)
  BY <1>0, <1>1, <1>4 DEF TypeOK, LoseMigration, hostVars, mapVars
<1>5. CASE FailMigration(v)
  BY <1>1, <1>2, <1>5 DEF TypeOK, FailMigration, vmVars, mapVars
<1> QED BY <1>3, <1>4, <1>5 DEF EndMigration

LEMMA TypeStep == TypeOK /\ [Next]_vars => TypeOK'
<1> SUFFICES ASSUME TypeOK, [Next]_vars PROVE TypeOK'
  OBVIOUS
<1>1. ASSUME NEW v \in VMs, NEW l \in Loads, UpdateVM(v, l) PROVE TypeOK'
  BY <1>1, TypeUpdateVM
<1>2. ASSUME NEW v \in VMs,
             SuspendVM(v) \/ ResumeVM(v) \/ SkipMove(v) \/ RelocateVM(v)
               \/ PauseMigration(v) \/ EndMigration(v)
      PROVE  TypeOK'
  BY <1>2, TypeSuspendVM, TypeResumeVM, TypeSkipMove, TypeRelocateVM,
     TypePauseMigration, TypeEndMigration
<1>3. ASSUME NEW v \in VMs, NEW s \in Hosts, NEW d \in Hosts, PlanMove(v, s, d)
      PROVE  TypeOK'
  BY <1>3, TypePlanMove
<1>4. ASSUME NEW h \in Hosts, Crash(h) \/ Recover(h) \/ TurnOffIdle(h) PROVE TypeOK'
  BY <1>4, TypeTurnOff, TypeRecover DEF Crash, TurnOffIdle
<1>5. CASE UNCHANGED vars
  BY <1>5 DEF TypeOK, vars, hostVars, vmVars, mapVars
<1> QED BY <1>1, <1>2, <1>3, <1>4, <1>5 DEF Next

(* Every variable keeps its type, whatever is played and planned. *)
THEOREM TypeCorrect == Spec => []TypeOK
<1>1. Init => TypeOK
  BY TypeInit
<1>2. TypeOK /\ [Next]_vars => TypeOK'
  BY TypeStep
<1> QED BY <1>1, <1>2, PTL DEF Spec

-----------------------------------------------------------------------------
(* Migrations, in every setting.  MigrationHeld is inductive together with   *)
(* the types.                                                                *)

(* Stopping a host leaves the other migrations where they are. *)
LEMMA InterruptedMoves ==
  ASSUME TypeOK, NEW h \in Hosts, NEW v \in VMs, TurnOff(h)
  PROVE  /\ InFlight(v)' => /\ InFlight(v)
                            /\ move[v].src # h
                            /\ move'[v].src = move[v].src
                            /\ move'[v].dst = move[v].dst
                            /\ move'[v].cut <=> (move[v].cut \/ move[v].dst = h)
                            /\ move'[v].pc = move[v].pc
         /\ ~InFlight(v)' => ~InFlight(v) \/ move[v].src = h
         /\ ~InFlight(v) => move'[v] = move[v]
<1>1. move'[v] = IF InFlight(v) /\ move[v].src = h THEN NoMove ELSE
                 IF InFlight(v) /\ move[v].dst = h THEN [move[v] EXCEPT !.cut = TRUE]
                                                 ELSE move[v]
  BY DEF TurnOff, Interrupted
<1>2. CASE InFlight(v) /\ move[v].src # h /\ move[v].dst = h
  <2>1. move[v] \in Move
    BY <1>2, MoveTypes
  <2>2. move'[v] = [pc |-> move[v].pc, src |-> move[v].src, dst |-> move[v].dst, cut |-> TRUE]
    BY <1>1, <1>2, <2>1 DEF Move
  <2> QED BY <1>2, <2>1, <2>2 DEF InFlight, Move
<1>3. CASE InFlight(v) /\ move[v].src # h /\ move[v].dst # h
  BY <1>1, <1>3, MoveTypes DEF InFlight, Move
<1>4. CASE InFlight(v) /\ move[v].src = h
  BY <1>1, <1>4 DEF InFlight, NoMove
<1>5. CASE ~InFlight(v)
  BY <1>1, <1>5 DEF InFlight
<1> QED BY <1>2, <1>3, <1>4, <1>5

(* What a step of a migration does to the moves. *)
LEMMA RelocatedMoves ==
  ASSUME TypeOK, NEW v \in VMs, NEW w \in VMs, move[v] \in Move,
         move' = [move EXCEPT ![v].pc = "copying"]
             \/ move' = [move EXCEPT ![v].pc = "paused"]
  PROVE  /\ move'[w].pc = IF w = v THEN move'[v].pc ELSE move[w].pc
         /\ move'[v].pc \in {"copying", "paused"}
         /\ move[w] \in Move => /\ move'[w].src = move[w].src
                                /\ move'[w].dst = move[w].dst
                                /\ move'[w].cut = move[w].cut
<1>1. CASE w = v
  <2>1. PICK p \in {"copying", "paused"} : move' = [move EXCEPT ![v].pc = p]
    OBVIOUS
  <2>2. move'[v] = [pc |-> p, src |-> move[v].src, dst |-> move[v].dst, cut |-> move[v].cut]
    BY <2>1 DEF TypeOK, Move
  <2> QED BY <1>1, <2>2
<1>2. CASE w # v
  <2>1. move'[w] = move[w]
    BY <1>2 DEF TypeOK
  <2>2. move'[v].pc \in {"copying", "paused"}
    BY DEF TypeOK, Move
  <2> QED BY <1>2, <2>1, <2>2
<1> QED BY <1>1, <1>2

LEMMA HeldStep == TypeOK /\ MigrationHeld /\ [Next]_vars => MigrationHeld'
<1> SUFFICES ASSUME TypeOK, MigrationHeld, [Next]_vars,
                    NEW w \in VMs, InFlight(w)'
             PROVE  /\ w \in hosted'[move'[w].src]
                    /\ move'[w].src \notin off'
                    /\ isMigrating'[w]
  BY DEF MigrationHeld, InFlight
<1>0. InFlight(w) => /\ w \in hosted[move[w].src]
                     /\ move[w].src \notin off
                     /\ isMigrating[w]
                     /\ move[w].src \in Hosts /\ move[w].dst \in Hosts
  BY MoveTypes DEF MigrationHeld, InFlight, Move
<1>1. ASSUME NEW v \in VMs, NEW l \in Loads, UpdateVM(v, l)
      PROVE  UNCHANGED <<move, hosted, off, isMigrating>>
  BY <1>1 DEF UpdateVM, UpdateRunningVM, UpdatePausedVM, hostVars
<1>2. ASSUME NEW v \in VMs, SuspendVM(v)
      PROVE  /\ UNCHANGED <<move, off, isMigrating>>
             /\ InFlight(w) => w \in hosted'[move[w].src]
  <2>1. CASE SuspendNow(v)
    <3>1. ~isMigrating[v]
      BY <2>1 DEF SuspendNow, MustPostpone
    <3> QED BY <1>0, <2>1, <3>1 DEF SuspendNow, TypeOK
  <2>2. CASE PostponeSuspension(v)
    BY <1>0, <2>2 DEF PostponeSuspension, hostVars, vmVars
  <2>3. CASE Exit("suspend of a VM that is not on")
    BY <1>0, <2>3 DEF Exit, hostVars, vmVars
  <2> QED BY <1>2, <2>1, <2>2, <2>3 DEF SuspendVM
<1>3. ASSUME NEW v \in VMs, ResumeVM(v)
      PROVE  /\ UNCHANGED <<move, off, isMigrating>>
             /\ InFlight(w) => w \in hosted'[move[w].src]
  <2>1. CASE ResumeSuspended(v)
    BY <1>0, <2>1 DEF ResumeSuspended, TypeOK
  <2>2. CASE CancelPostponed(v)
    BY <1>0, <2>2 DEF CancelPostponed, hostVars, vmVars
  <2>3. CASE \E r \in ExitReasons : Exit(r)
    BY <1>0, <2>3 DEF Exit, hostVars, vmVars
  <2> QED BY <1>3, <2>1, <2>2, <2>3 DEF ResumeVM, ExitReasons
<1>4. ASSUME NEW h \in Hosts, TurnOff(h)
      PROVE  /\ w \in hosted'[move'[w].src]
             /\ move'[w].src \notin off'
             /\ isMigrating'[w]
  BY <1>0, <1>4, InterruptedMoves DEF TurnOff, vmVars
<1>5. ASSUME NEW h \in Hosts, Recover(h)
      PROVE  UNCHANGED <<move, hosted, isMigrating>> /\ off' \subseteq off
  BY <1>5 DEF Recover, SwitchOn, vmVars
<1>6. ASSUME NEW v \in VMs, NEW s \in Hosts, NEW d \in Hosts, PlanMove(v, s, d)
      PROVE  UNCHANGED <<hosted, off, isMigrating>> /\ move'[w] = move[w]
  BY <1>6 DEF PlanMove, InFlight, TypeOK, hostVars, vmVars
<1>7. ASSUME NEW v \in VMs, SkipMove(v)
      PROVE  UNCHANGED <<hosted, off, isMigrating>> /\ move'[w] = move[w]
  BY <1>7 DEF SkipMove, InFlight, TypeOK, NoMove, hostVars, vmVars
<1>8. ASSUME NEW v \in VMs, RelocateVM(v)
      PROVE  /\ w \in hosted'[move'[w].src]
             /\ move'[w].src \notin off'
             /\ isMigrating'[w]
  <2> DEFINE s == move[v].src
             d == move[v].dst
  <2>0. move[v] \in Move /\ ~InFlight(v)
    BY <1>8, MoveTypes DEF RelocateVM, InFlight
  <2>1. CASE s \in off /\ SwitchOn(d) /\ move' = [move EXCEPT ![v] = NoMove]
             /\ UNCHANGED <<hosted, vmVars>>
    <3>1. w # v /\ move'[w] = move[w] /\ InFlight(w)
      BY <2>1 DEF InFlight, NoMove, TypeOK
    <3> QED BY <1>0, <2>1, <3>1 DEF SwitchOn, vmVars
  <2>2. CASE /\ s \notin off
             /\ v \in hosted[s]
             /\ SwitchOn(d)
             /\ isMigrating' = [isMigrating EXCEPT ![v] = TRUE]
             /\ move' = [move EXCEPT ![v].pc = "copying"]
             /\ UNCHANGED hosted
    <3>1. CASE w = v
      BY <2>0, <2>2, <3>1, RelocatedMoves DEF SwitchOn, TypeOK
    <3>2. CASE w # v
      <4>1. move'[w] = move[w] /\ InFlight(w)
        BY <2>2, <3>2 DEF InFlight, TypeOK
      <4> QED BY <1>0, <2>2, <3>2, <4>1 DEF SwitchOn, TypeOK
    <3> QED BY <3>1, <3>2
  <2>3. CASE \E r \in ExitReasons : Exit(r)
    BY <1>0, <2>3 DEF Exit, hostVars, vmVars, InFlight
  <2> QED BY <1>8, <2>1, <2>2, <2>3 DEF RelocateVM, ExitReasons
<1>9. ASSUME NEW v \in VMs, PauseMigration(v)
      PROVE  /\ UNCHANGED <<hosted, off, isMigrating>>
             /\ InFlight(w) /\ move'[w].src = move[w].src
  <2>1. move[v] \in Move
    BY <1>9, MoveTypes DEF PauseMigration
  <2>2. move' = [move EXCEPT ![v].pc = "paused"]
    BY <1>9 DEF PauseMigration
  <2>3. InFlight(w)
    BY <1>9, <2>1, <2>2, RelocatedMoves DEF PauseMigration, InFlight
  <2> QED BY <1>9, <2>1, <2>2, <2>3, RelocatedMoves, MoveTypes
       DEF PauseMigration, hostVars, vmVars
<1>10. ASSUME NEW v \in VMs, EndMigration(v)
       PROVE  /\ w \in hosted'[move'[w].src]
              /\ move'[w].src \notin off'
              /\ isMigrating'[w]
  <2>1. w # v /\ move'[w] = move[w] /\ InFlight(w)
    BY <1>10 DEF EndMigration, CompleteMigration, LoseMigration, FailMigration,
                 InFlight, NoMove, TypeOK
  <2>2. off' = off /\ isMigrating'[w] = isMigrating[w]
    BY <1>10, <2>1 DEF EndMigration, CompleteMigration, LoseMigration, FailMigration,
                       hostVars, vmVars, TypeOK
  <2>3. w \in hosted'[move[w].src]
    <3>0. move[v].src \in Hosts /\ move[v].dst \in Hosts
      BY <1>10, MoveTypes DEF EndMigration, CompleteMigration, LoseMigration,
                              FailMigration, InFlight
    <3>1. CASE CompleteMigration(v)
      BY <1>0, <2>1, <3>0, <3>1 DEF CompleteMigration, ListedAfter, TypeOK
    <3>2. CASE LoseMigration(v) \/ FailMigration(v)
      BY <1>0, <2>1, <3>2 DEF LoseMigration, FailMigration, hostVars
    <3> QED BY <1>10, <3>1, <3>2 DEF EndMigration
  <2> QED BY <1>0, <2>1, <2>2, <2>3
<1>11. CASE UNCHANGED vars
  BY <1>0, <1>11 DEF vars, hostVars, vmVars, InFlight
<1>12. ASSUME UNCHANGED <<move, off, isMigrating>>,
              InFlight(w) => w \in hosted'[move[w].src]
       PROVE  /\ w \in hosted'[move'[w].src]
              /\ move'[w].src \notin off'
              /\ isMigrating'[w]
  BY <1>0, <1>12 DEF InFlight
<1> QED BY <1>0, <1>1, <1>2, <1>3, <1>4, <1>5, <1>6, <1>7, <1>8, <1>9, <1>10,
           <1>11, <1>12 DEF Next, Crash, TurnOffIdle, InFlight

(* A migration under way keeps its VM on the list of a source that is up,    *)
(* and the VM protected against a suspension, whatever stops, is suspended   *)
(* or moves meanwhile.                                                       *)
THEOREM MigrationsHeld == Spec => []MigrationHeld
<1>1. Init => TypeOK /\ MigrationHeld
  <2>1. Init => \A v \in VMs : ~InFlight(v)
    BY DEF Init, InFlight, NoMove
  <2> QED BY <2>1, TypeInit DEF MigrationHeld
<1>2. TypeOK /\ MigrationHeld /\ [Next]_vars => (TypeOK /\ MigrationHeld)'
  BY TypeStep, HeldStep
<1> QED BY <1>1, <1>2, PTL DEF Spec

-----------------------------------------------------------------------------
(* Hosts that stop, without suspensions.                                     *)

(* What HostedOnce, CollectionsExact and StoppedHostsFrozen rest on when no  *)
(* VM is ever suspended: a VM is always on one list, and a migration that    *)
(* may still complete has both its hosts up.                                 *)
StopInv ==
  /\ vmsToSuspend = {}
  /\ \A v \in VMs : ~isSuspended[v]
  /\ \A v \in VMs : \E h \in Hosts : v \in hosted[h]
  /\ \A v \in VMs, h, k \in Hosts : v \in hosted[h] /\ v \in hosted[k] => h = k
  /\ vmsOff = {v \in VMs : \E h \in off : v \in hosted[h]}
  /\ vmsOn = VMs \ vmsOff
  /\ \A v \in VMs : InFlight(v) /\ ~move[v].cut => move[v].dst \notin off

LEMMA InitialHosted ==
  ASSUME Init
  PROVE  /\ \A v \in VMs, h \in Hosts : v \in hosted[h] <=> location[v] = h
         /\ \A v \in VMs : location[v] \in Hosts
         /\ \A h \in off : hosted[h] = {}
         /\ off \subseteq Hosts
<1>1. location \in [VMs -> Hosts]
  BY DEF Init, InitialPlacement
<1> QED BY <1>1 DEF Init, InitiallyOff

LEMMA StopInit == Init => StopInv
<1> SUFFICES ASSUME Init PROVE StopInv
  OBVIOUS
<1>1. \A v \in VMs : ~InFlight(v)
  BY DEF Init, InFlight, NoMove
<1>2. vmsOff = {v \in VMs : \E h \in off : v \in hosted[h]}
  BY InitialHosted DEF Init
<1> QED BY <1>1, <1>2, InitialHosted DEF Init, StopInv

LEMMA StopStep ==
  ASSUME ~Suspensions, TypeOK, MigrationHeld, StopInv, [Next]_vars
  PROVE  StopInv'
<1> USE DEF StopInv
<1>1. ASSUME NEW v \in VMs, NEW l \in Loads, UpdateVM(v, l) PROVE StopInv'
  BY <1>1 DEF UpdateVM, UpdateRunningVM, UpdatePausedVM, hostVars, mapVars, InFlight
<1>2. ASSUME NEW h \in Hosts, TurnOff(h) PROVE StopInv'
  <2>1. \A v \in VMs : InFlight(v)' /\ ~move'[v].cut => move'[v].dst \notin off'
    BY <1>2, InterruptedMoves DEF TurnOff
  <2>2. vmsOff' = {v \in VMs : \E k \in off' : v \in hosted'[k]}
    BY <1>2 DEF TurnOff, TypeOK
  <2>3. vmsOn' = VMs \ vmsOff'
    BY <1>2 DEF TurnOff, TypeOK
  <2> QED BY <1>2, <2>1, <2>2, <2>3 DEF TurnOff, vmVars
<1>3. ASSUME NEW h \in Hosts, SwitchOn(h), UNCHANGED hosted
      PROVE  /\ vmsOff' = {v \in VMs : \E k \in off' : v \in hosted'[k]}
             /\ vmsOn' = VMs \ vmsOff'
             /\ off' \subseteq off
  <2>1. CASE h \in off
    BY <1>3, <2>1 DEF SwitchOn, TypeOK
  <2>2. CASE h \notin off
    BY <1>3, <2>2 DEF SwitchOn, TypeOK
  <2> QED BY <2>1, <2>2
<1>4. ASSUME NEW h \in Hosts, Recover(h) PROVE StopInv'
  BY <1>3, <1>4 DEF Recover, vmVars, InFlight
<1>5. ASSUME NEW v \in VMs, NEW s \in Hosts, NEW d \in Hosts, PlanMove(v, s, d)
      PROVE  StopInv'
  <2>1. \A w \in VMs : InFlight(w)' => move'[w] = move[w] /\ InFlight(w)
    BY <1>5 DEF PlanMove, InFlight, TypeOK
  <2> QED BY <1>5, <2>1 DEF PlanMove, hostVars, vmVars, mapVars
<1>6. ASSUME NEW v \in VMs, SkipMove(v) PROVE StopInv'
  <2>1. \A w \in VMs : InFlight(w)' => move'[w] = move[w] /\ InFlight(w)
    BY <1>6 DEF SkipMove, InFlight, TypeOK, NoMove
  <2> QED BY <1>6, <2>1 DEF SkipMove, hostVars, vmVars, mapVars
<1>7. ASSUME NEW v \in VMs, RelocateVM(v) PROVE StopInv'
  <2> DEFINE s == move[v].src
             d == move[v].dst
  <2>0. move[v] \in Move /\ d \in Hosts
    BY <1>7, MoveTypes DEF RelocateVM
  <2>1. CASE SwitchOn(d) /\ move' = [move EXCEPT ![v] = NoMove]
             /\ UNCHANGED <<hosted, vmVars, vmsToSuspend>>
    <3>1. \A w \in VMs : InFlight(w)' => move'[w] = move[w] /\ InFlight(w)
      BY <2>1 DEF InFlight, TypeOK, NoMove
    <3> QED BY <1>3, <2>0, <2>1, <3>1 DEF vmVars
  <2>2. CASE /\ SwitchOn(d)
             /\ move' = [move EXCEPT ![v].pc = "copying"]
             /\ UNCHANGED <<hosted, isSuspended, vmsToSuspend>>
    <3>1. \A w \in VMs : w # v => move'[w] = move[w] /\ (InFlight(w)' <=> InFlight(w))
      BY <2>2 DEF InFlight, TypeOK
    <3>2. move'[v].dst = d
      BY <2>0, <2>2, RelocatedMoves
    <3>3. d \notin off'
      BY <2>2 DEF SwitchOn
    <3>4. \A w \in VMs : InFlight(w)' /\ ~move'[w].cut => move'[w].dst \notin off'
      BY <1>3, <2>0, <2>2, <3>1, <3>2, <3>3
    <3> QED BY <1>3, <2>0, <2>2, <3>4
  <2>3. CASE \E r \in ExitReasons : Exit(r)
    BY <2>3 DEF Exit, hostVars, vmVars, mapVars, InFlight
  <2> QED BY <1>7, <2>1, <2>2, <2>3 DEF RelocateVM, ExitReasons
<1>8. ASSUME NEW v \in VMs, PauseMigration(v) PROVE StopInv'
  <2>0. move[v] \in Move /\ InFlight(v)
    BY <1>8, MoveTypes DEF PauseMigration, InFlight
  <2>1. \A w \in VMs : w # v => move'[w] = move[w] /\ (InFlight(w)' <=> InFlight(w))
    BY <1>8 DEF PauseMigration, InFlight, TypeOK
  <2>2. move'[v].dst = move[v].dst /\ move'[v].cut = move[v].cut
    BY <1>8, <2>0, RelocatedMoves DEF PauseMigration
  <2> QED BY <1>8, <2>0, <2>1, <2>2 DEF PauseMigration, hostVars, vmVars, mapVars
<1>9. ASSUME NEW v \in VMs, EndMigration(v) PROVE StopInv'
  <2>0. /\ move[v].src \in Hosts /\ move[v].dst \in Hosts
        /\ InFlight(v)
        /\ ~InFlight(v)'
        /\ \A w \in VMs : w # v => move'[w] = move[w] /\ (InFlight(w)' <=> InFlight(w))
        /\ off' = off
    BY <1>9, MoveTypes DEF EndMigration, CompleteMigration, LoseMigration,
                           FailMigration, InFlight, TypeOK, NoMove, hostVars
  <2>1. CASE CompleteMigration(v)
    <3> DEFINE s == move[v].src
               d == move[v].dst
    <3>1. v \in hosted[s] /\ s \notin off /\ d \notin off
      BY <2>0, <2>1 DEF MigrationHeld, CompleteMigration
    <3>2. hosted' = [hosted EXCEPT ![s] = @ \ {v}, ![d] = @ \cup {v}]
      BY <2>1 DEF CompleteMigration, ListedAfter, Marked
    <3>3. UNCHANGED <<vmsOn, vmsOff>> /\ vmsToSuspend' = {}
      BY <2>1 DEF CompleteMigration, Marked
    <3>4. \A w \in VMs : ~isSuspended'[w]
      BY <2>1 DEF CompleteMigration, Marked, TypeOK
    <3>5. \A h \in Hosts : h \in off => hosted'[h] = hosted[h]
      BY <2>0, <3>1, <3>2 DEF TypeOK
    <3>6. \A w \in VMs, h \in Hosts :
            w \in hosted'[h] <=> IF w = v THEN h = d ELSE w \in hosted[h]
      <4> SUFFICES ASSUME NEW w \in VMs, NEW h \in Hosts
                   PROVE  w \in hosted'[h] <=> IF w = v THEN h = d ELSE w \in hosted[h]
        OBVIOUS
      <4>1. CASE h = d
        BY <2>0, <3>2, <4>1 DEF TypeOK
      <4>2. CASE h = s /\ h # d
        BY <2>0, <3>2, <4>2 DEF TypeOK
      <4>3. CASE h # s /\ h # d
        <5>1. hosted'[h] = hosted[h]
          BY <2>0, <3>2, <4>3 DEF TypeOK
        <5> QED BY <2>0, <3>1, <4>3, <5>1
      <4> QED BY <4>1, <4>2, <4>3
    <3>7. vmsOff' = {w \in VMs : \E h \in off' : w \in hosted'[h]}
      <4>1. \A w \in VMs :
              (\E h \in off' : w \in hosted'[h]) <=> (\E h \in off : w \in hosted[h])
        BY <2>0, <3>5 DEF TypeOK
      <4> QED BY <3>3, <4>1
    <3>8. \A w \in VMs : \E h \in Hosts : w \in hosted'[h]
      BY <2>0, <3>6
    <3>9. \A w \in VMs, h, k \in Hosts : w \in hosted'[h] /\ w \in hosted'[k] => h = k
      BY <3>6
    <3> QED BY <2>0, <3>3, <3>4, <3>7, <3>8, <3>9
  <2>2. CASE LoseMigration(v) \/ FailMigration(v)
    BY <2>0, <2>2 DEF LoseMigration, FailMigration, hostVars, vmVars, mapVars
  <2> QED BY <1>9, <2>1, <2>2 DEF EndMigration
<1>10. CASE UNCHANGED vars
  BY <1>10 DEF vars, hostVars, vmVars, mapVars, InFlight
<1> QED BY <1>1, <1>2, <1>4, <1>5, <1>6, <1>7, <1>8, <1>9, <1>10
     DEF Next, Crash, TurnOffIdle, SuspendVM, ResumeVM

LEMMA StopInvariant == ASSUME ~Suspensions PROVE Spec => [](TypeOK /\ MigrationHeld /\ StopInv)
<1>1. Init => TypeOK /\ MigrationHeld /\ StopInv
  <2>1. Init => \A v \in VMs : ~InFlight(v)
    BY DEF Init, InFlight, NoMove
  <2> QED BY <2>1, TypeInit, StopInit DEF MigrationHeld
<1>2. TypeOK /\ MigrationHeld /\ StopInv /\ [Next]_vars
        => (TypeOK /\ MigrationHeld /\ StopInv)'
  BY TypeStep, HeldStep, StopStep
<1> QED BY <1>1, <1>2, PTL DEF Spec

(* However hosts stop and start, without suspensions nothing but their start *)
(* makes the list of a stopped host change.                                  *)
THEOREM StoppedFrozen == ASSUME ~Suspensions PROVE Spec => StoppedHostsFrozen
<1>1. TypeOK /\ MigrationHeld /\ StopInv /\ [Next]_vars
        => [\A h \in off : hosted'[h] = hosted[h]]_vars
  <2> SUFFICES ASSUME TypeOK, MigrationHeld, StopInv, Next, NEW h \in off
               PROVE  hosted'[h] = hosted[h]
    OBVIOUS
  <2>1. ASSUME NEW v \in VMs, CompleteMigration(v) PROVE hosted'[h] = hosted[h]
    <3>1. InFlight(v) /\ ~move[v].cut /\ move[v].src \in Hosts /\ move[v].dst \in Hosts
      BY <2>1, MoveTypes DEF CompleteMigration, InFlight
    <3>2. h # move[v].src /\ h # move[v].dst
      BY <3>1 DEF MigrationHeld, StopInv
    <3>3. hosted' = ListedAfter(v)
      BY <2>1 DEF CompleteMigration, Marked, StopInv
    <3> QED BY <3>1, <3>2, <3>3 DEF ListedAfter, TypeOK
  <2>2. ASSUME NEW v \in VMs, RelocateVM(v) PROVE hosted'[h] = hosted[h]
    BY <2>2 DEF RelocateVM, Exit, hostVars
  <2> QED BY <2>1, <2>2
       DEF Next, UpdateVM, UpdateRunningVM, UpdatePausedVM, SuspendVM, ResumeVM, PlanMove,
           SkipMove, PauseMigration, EndMigration, LoseMigration, FailMigration,
           Crash, Recover, TurnOffIdle, TurnOff, hostVars
<1> QED BY <1>1, StopInvariant, PTL DEF Spec, StoppedHostsFrozen

-----------------------------------------------------------------------------
(* Suspensions, without hosts that stop.                                     *)

(* What the properties of the suspensions rest on when no host ever stops:   *)
(* the list a VM is on is the one of the host it is located on, and only the *)
(* VM of a migration under way is protected.                                 *)
Listed ==
  \A v \in VMs, h \in Hosts : v \in hosted[h] <=> ~isSuspended[v] /\ location[v] = h
OffAreSuspended == vmsOff = {v \in VMs : isSuspended[v]}
OthersAreOn == vmsOn = VMs \ (vmsOff \cup vmsToSuspend)
CalmMoves ==
  /\ \A v \in VMs : isMigrating[v] => InFlight(v)
  /\ \A v \in VMs : move[v].pc # "none" => ~move[v].cut
  /\ \A v \in vmsToSuspend : InFlight(v)

PlacementInv ==
  /\ off = {} /\ OnlyStaleMoves
  /\ Listed /\ RequestsHonoured /\ OffAreSuspended /\ OthersAreOn /\ CalmMoves

LEMMA PlacementInit == ~IdleTurnOff /\ Init => PlacementInv
<1> SUFFICES ASSUME ~IdleTurnOff, Init PROVE PlacementInv
  OBVIOUS
<1>1. \A v \in VMs : move[v].pc = "none" /\ ~InFlight(v)
  BY DEF Init, InFlight, NoMove
<1>2. OffAreSuspended
  BY DEF Init, InitiallyOff, OffAreSuspended
<1>3. Listed
  BY InitialHosted DEF Init, Listed
<1>4. CalmMoves
  BY <1>1 DEF Init, CalmMoves
<1> QED BY <1>2, <1>3, <1>4
     DEF Init, InitiallyOff, PlacementInv, OnlyStaleMoves, RequestsHonoured, OthersAreOn

(* A VM whose migration is under way is located on the source, and runs. *)
LEMMA LocatedOnSource ==
  ASSUME TypeOK, MigrationHeld, Listed, NEW v \in VMs, InFlight(v)
  PROVE  ~isSuspended[v] /\ location[v] = move[v].src
<1>1. move[v].src \in Hosts
  BY MoveTypes DEF InFlight
<1> QED BY <1>1 DEF MigrationHeld, Listed

(* A step that only changes the move of v leaves the others alone. *)
LEMMA OneMove ==
  ASSUME TypeOK, NEW v \in VMs, NEW m, move' = [move EXCEPT ![v] = m]
  PROVE  /\ move'[v] = m
         /\ \A w \in VMs : w # v => move'[w] = move[w] /\ (InFlight(w)' <=> InFlight(w))
  BY DEF TypeOK, InFlight

LEMMA PlacementUpdateVM ==
  ASSUME PlacementInv, NEW v \in VMs, NEW l \in Loads, UpdateVM(v, l)
  PROVE  PlacementInv'
<1>1. UNCHANGED <<off, hosted, location, isMigrating, isSuspended, mapVars, move, asked, exit>>
  BY DEF UpdateVM, UpdateRunningVM, UpdatePausedVM, hostVars
<1> QED BY <1>1
     DEF mapVars, PlacementInv, OnlyStaleMoves, Listed, RequestsHonoured,
         OffAreSuspended, OthersAreOn, CalmMoves, InFlight

LEMMA PlacementSuspendVM ==
  ASSUME TypeOK, MigrationHeld, PlacementInv, NEW v \in VMs, SuspendVM(v)
  PROVE  PlacementInv'
<1>0. v \notin asked /\ ~isSuspended[v] /\ v \notin vmsToSuspend /\ v \in vmsOn
  BY DEF SuspendVM, PlacementInv, RequestsHonoured, OffAreSuspended, OthersAreOn
<1>1. CASE SuspendNow(v)
  <2>1. /\ UNCHANGED <<off, location, isMigrating, move, exit>>
        /\ vmsToSuspend' = vmsToSuspend
        /\ vmsOn' = vmsOn \ {v} /\ vmsOff' = vmsOff \cup {v} /\ asked' = asked \cup {v}
    BY <1>0, <1>1 DEF SuspendNow
  <2>2. \A w \in VMs : isSuspended'[w] <=> w = v \/ isSuspended[w]
    BY <1>1 DEF SuspendNow, TypeOK
  <2>3. \A w \in VMs, h \in Hosts : w \in hosted'[h] <=> w \in hosted[h] /\ w # v
    <3>1. hosted' = [hosted EXCEPT ![location[v]] = @ \ {v}]
      BY <1>1 DEF SuspendNow
    <3>2. \A h \in Hosts : h # location[v] => v \notin hosted[h]
      BY DEF PlacementInv, Listed
    <3> QED BY <3>1, <3>2 DEF TypeOK
  <2>4. Listed'
    BY <2>1, <2>2, <2>3 DEF PlacementInv, Listed
  <2>5. RequestsHonoured'
    BY <2>1, <2>2 DEF PlacementInv, RequestsHonoured
  <2>6. OffAreSuspended'
    BY <2>1, <2>2 DEF PlacementInv, OffAreSuspended
  <2>7. OthersAreOn'
    BY <2>1 DEF PlacementInv, OthersAreOn
  <2>8. CalmMoves'
    BY <2>1 DEF PlacementInv, CalmMoves, InFlight
  <2> QED BY <2>1, <2>4, <2>5, <2>6, <2>7, <2>8 DEF PlacementInv, OnlyStaleMoves
<1>2. CASE PostponeSuspension(v)
  <2>1. /\ UNCHANGED <<hosted, off, vmVars, vmsOff, move, exit>>
        /\ vmsToSuspend' = vmsToSuspend \cup {v}
        /\ vmsOn' = vmsOn \ {v} /\ asked' = asked \cup {v}
        /\ isMigrating[v]
    BY <1>2 DEF PostponeSuspension, MustPostpone, hostVars
  <2>2. CalmMoves'
    BY <2>1 DEF PlacementInv, CalmMoves, InFlight, vmVars
  <2>3. RequestsHonoured'
    BY <2>1 DEF PlacementInv, RequestsHonoured, vmVars
  <2> QED BY <2>1, <2>2, <2>3
       DEF PlacementInv, Listed, OffAreSuspended, OthersAreOn, OnlyStaleMoves, vmVars
<1> QED BY <1>0, <1>1, <1>2 DEF SuspendVM

LEMMA PlacementResumeVM ==
  ASSUME TypeOK, MigrationHeld, PlacementInv, NEW v \in VMs, ResumeVM(v)
  PROVE  PlacementInv'
<1>0. isSuspended[v] \/ v \in vmsToSuspend
  BY DEF ResumeVM, PlacementInv, RequestsHonoured
<1>1. CASE ResumeSuspended(v)
  <2>0. isSuspended[v] /\ v \in vmsOff /\ v \notin vmsToSuspend /\ v \notin vmsOn
    BY <1>1, LocatedOnSource
    DEF ResumeSuspended, PlacementInv, OthersAreOn, CalmMoves
  <2>1. /\ UNCHANGED <<off, location, isMigrating, vmsToSuspend, move, exit>>
        /\ vmsOff' = vmsOff \ {v} /\ vmsOn' = vmsOn \cup {v} /\ asked' = asked \ {v}
    BY <1>1 DEF ResumeSuspended
  <2>2. \A w \in VMs : isSuspended'[w] <=> w # v /\ isSuspended[w]
    BY <1>1 DEF ResumeSuspended, TypeOK
  <2>3. \A w \in VMs, h \in Hosts :
          w \in hosted'[h] <=> w \in hosted[h] \/ (w = v /\ h = location[v])
    BY <1>1 DEF ResumeSuspended, TypeOK
  <2>4. Listed'
    <3> SUFFICES ASSUME NEW w \in VMs, NEW h \in Hosts
                 PROVE  w \in hosted'[h] <=> ~isSuspended'[w] /\ location'[w] = h
      BY DEF Listed
    <3>1. CASE w = v
      BY <2>0, <2>1, <2>2, <2>3, <3>1 DEF PlacementInv, Listed
    <3>2. CASE w # v
      BY <2>1, <2>2, <2>3, <3>2 DEF PlacementInv, Listed
    <3> QED BY <3>1, <3>2
  <2>5. RequestsHonoured'
    BY <2>0, <2>1, <2>2 DEF PlacementInv, RequestsHonoured
  <2>6. OffAreSuspended'
    BY <2>1, <2>2 DEF PlacementInv, OffAreSuspended
  <2>7. OthersAreOn'
    BY <2>0, <2>1 DEF PlacementInv, OthersAreOn
  <2>8. CalmMoves'
    BY <2>1 DEF PlacementInv, CalmMoves, InFlight
  <2> QED BY <2>1, <2>4, <2>5, <2>6, <2>7, <2>8 DEF PlacementInv, OnlyStaleMoves
<1>2. CASE CancelPostponed(v)
  <2>1. /\ UNCHANGED <<hosted, off, vmVars, vmsOff, move, exit>>
        /\ vmsToSuspend' = vmsToSuspend \ {v}
        /\ vmsOn' = vmsOn \cup {v} /\ asked' = asked \ {v}
        /\ ~isSuspended[v] /\ v \in vmsToSuspend
    BY <1>2 DEF CancelPostponed, hostVars
  <2>2. CalmMoves'
    BY <2>1 DEF PlacementInv, CalmMoves, InFlight, vmVars
  <2>3. RequestsHonoured'
    BY <2>1 DEF PlacementInv, RequestsHonoured, vmVars
  <2>4. OthersAreOn'
    BY <2>1 DEF PlacementInv, OthersAreOn, OffAreSuspended
  <2> QED BY <2>1, <2>2, <2>3, <2>4
       DEF PlacementInv, Listed, OffAreSuspended, OnlyStaleMoves, vmVars
<1> QED BY <1>0, <1>1, <1>2 DEF ResumeVM, PlacementInv, OffAreSuspended

LEMMA PlacementPlan ==
  ASSUME TypeOK, PlacementInv, NEW v \in VMs,
         SkipMove(v) \/ \E s, d \in Hosts : PlanMove(v, s, d)
  PROVE  PlacementInv'
<1>1. UNCHANGED <<off, hosted, location, isMigrating, isSuspended, mapVars, asked, exit>>
  BY DEF SkipMove, PlanMove, hostVars, vmVars
<1>2. ~InFlight(v)
  BY DEF SkipMove, PlanMove, InFlight, NoMove
<1>3. PICK m : /\ move' = [move EXCEPT ![v] = m]
               /\ m.pc \in {"none", "planned"}
               /\ m.pc # "none" => ~m.cut
  BY DEF SkipMove, PlanMove, NoMove
<1>4. CalmMoves'
  BY <1>1, <1>2, <1>3, OneMove DEF PlacementInv, CalmMoves, InFlight, mapVars
<1> QED BY <1>1, <1>4
     DEF mapVars, PlacementInv, OnlyStaleMoves, Listed, RequestsHonoured,
         OffAreSuspended, OthersAreOn

LEMMA PlacementRelocateVM ==
  ASSUME TypeOK, MigrationHeld, PlacementInv, NEW v \in VMs, RelocateVM(v)
  PROVE  PlacementInv'
<1> DEFINE s == move[v].src
           d == move[v].dst
<1>0. move[v] \in Move /\ ~InFlight(v) /\ s \notin off /\ ~isMigrating[v] /\ ~move[v].cut
  BY MoveTypes DEF RelocateVM, InFlight, PlacementInv, CalmMoves
<1>1. CASE /\ SwitchOn(d)
           /\ isMigrating' = [isMigrating EXCEPT ![v] = TRUE]
           /\ move' = [move EXCEPT ![v].pc = "copying"]
           /\ UNCHANGED <<hosted, location, isSuspended, vmsToSuspend, asked, exit>>
  <2>1. off' = {} /\ vmsOff' = vmsOff /\ vmsOn' = vmsOn
    BY <1>1 DEF SwitchOn, PlacementInv
  <2>2. \A w \in VMs : w # v => move'[w] = move[w] /\ (InFlight(w)' <=> InFlight(w))
    BY <1>1 DEF InFlight, TypeOK
  <2>3. InFlight(v)' /\ move'[v].cut = move[v].cut
    BY <1>0, <1>1, RelocatedMoves DEF InFlight
  <2>4. \A w \in VMs : w # v => isMigrating'[w] = isMigrating[w]
    BY <1>1 DEF TypeOK
  <2>5. \A w \in VMs : isMigrating'[w] => InFlight(w)'
    BY <2>2, <2>3, <2>4 DEF PlacementInv, CalmMoves
  <2>6. \A w \in VMs : move'[w].pc # "none" => ~move'[w].cut
    BY <1>0, <2>2, <2>3 DEF PlacementInv, CalmMoves
  <2>7. \A w \in vmsToSuspend' : InFlight(w)'
    BY <1>1, <2>2, <2>3 DEF PlacementInv, CalmMoves, TypeOK
  <2> QED BY <1>1, <2>1, <2>5, <2>6, <2>7
       DEF PlacementInv, OnlyStaleMoves, Listed, RequestsHonoured,
           OffAreSuspended, OthersAreOn, CalmMoves
<1>2. CASE Exit("wrong object")
  BY <1>2 DEF Exit, hostVars, vmVars, mapVars, InFlight, PlacementInv, OnlyStaleMoves,
              Listed, RequestsHonoured, OffAreSuspended, OthersAreOn, CalmMoves
<1> QED BY <1>0, <1>1, <1>2 DEF RelocateVM

LEMMA PlacementPauseMigration ==
  ASSUME TypeOK, PlacementInv, NEW v \in VMs, PauseMigration(v)
  PROVE  PlacementInv'
<1>0. move[v] \in Move /\ InFlight(v) /\ ~move[v].cut
  BY MoveTypes DEF PauseMigration, InFlight, PlacementInv, CalmMoves
<1>1. UNCHANGED <<off, hosted, location, isMigrating, isSuspended, mapVars, asked, exit>>
  BY DEF PauseMigration, hostVars, vmVars
<1>2. \A w \in VMs : w # v => move'[w] = move[w] /\ (InFlight(w)' <=> InFlight(w))
  BY DEF PauseMigration, InFlight, TypeOK
<1>3. InFlight(v)' /\ move'[v].cut = move[v].cut
  BY <1>0, RelocatedMoves DEF PauseMigration, InFlight
<1>4. \A w \in VMs : isMigrating'[w] => InFlight(w)'
  BY <1>1, <1>2, <1>3 DEF PlacementInv, CalmMoves
<1>5. \A w \in VMs : move'[w].pc # "none" => ~move'[w].cut
  BY <1>0, <1>2, <1>3 DEF PlacementInv, CalmMoves
<1>6. \A w \in vmsToSuspend' : InFlight(w)'
  BY <1>1, <1>2, <1>3 DEF PlacementInv, CalmMoves, TypeOK, mapVars
<1> QED BY <1>1, <1>4, <1>5, <1>6
     DEF mapVars, PlacementInv, OnlyStaleMoves, Listed, RequestsHonoured,
         OffAreSuspended, OthersAreOn, CalmMoves

(* Where the VMs are once a migration has completed. *)
LEMMA ListedAfterMigration ==
  ASSUME TypeOK, NEW v \in VMs, CompleteMigration(v), v \in hosted[move[v].src],
         \A h \in Hosts : v \in hosted[h] => h = move[v].src
  PROVE  \A w \in VMs, h \in Hosts :
           w \in hosted'[h] <=> IF w = v THEN h = move[v].dst /\ ~Marked(v)
                                         ELSE w \in hosted[h]
<1> DEFINE s == move[v].src
           d == move[v].dst
<1>0. s \in Hosts /\ d \in Hosts
  BY MoveTypes DEF CompleteMigration
<1> SUFFICES ASSUME NEW w \in VMs, NEW h \in Hosts
             PROVE  w \in hosted'[h] <=> IF w = v THEN h = d /\ ~Marked(v)
                                                  ELSE w \in hosted[h]
  OBVIOUS
<1>1. ListedAfter(v) \in [Hosts -> SUBSET VMs]
  BY <1>0 DEF ListedAfter, TypeOK
<1>2. w \in ListedAfter(v)[h] <=> IF w = v THEN h = d ELSE w \in hosted[h]
  <2>1. CASE h = d
    BY <1>0, <2>1 DEF ListedAfter, TypeOK
  <2>2. CASE h = s /\ h # d
    BY <1>0, <2>2 DEF ListedAfter, TypeOK
  <2>3. CASE h # s /\ h # d
    <3>1. ListedAfter(v)[h] = hosted[h]
      BY <1>0, <2>3 DEF ListedAfter, TypeOK
    <3> QED BY <2>3, <3>1
  <2> QED BY <2>1, <2>2, <2>3
<1>3. hosted' = IF Marked(v) THEN [ListedAfter(v) EXCEPT ![d] = @ \ {v}] ELSE ListedAfter(v)
  BY Zenon DEF CompleteMigration
<1>4. CASE Marked(v) /\ h = d
  <2>1. hosted'[h] = ListedAfter(v)[h] \ {v}
    BY <1>1, <1>3, <1>4
  <2> QED BY <1>2, <1>4, <2>1
<1>5. CASE ~(Marked(v) /\ h = d)
  <2>1. hosted'[h] = ListedAfter(v)[h]
    BY <1>1, <1>3, <1>5
  <2> QED BY <1>2, <1>5, <2>1
<1> QED BY <1>4, <1>5

LEMMA PlacementEndMigration ==
  ASSUME TypeOK, MigrationHeld, PlacementInv, NEW v \in VMs, EndMigration(v)
  PROVE  PlacementInv' /\ CompleteMigration(v)
<1> DEFINE s == move[v].src
           d == move[v].dst
<1>0. s \in Hosts /\ d \in Hosts /\ InFlight(v)
  BY MoveTypes DEF EndMigration, CompleteMigration, LoseMigration, FailMigration, InFlight
<1>1. CompleteMigration(v)
  BY <1>0 DEF EndMigration, LoseMigration, FailMigration, InFlight, PlacementInv, CalmMoves
<1>2. /\ location' = [location EXCEPT ![v] = d]
      /\ isMigrating' = [isMigrating EXCEPT ![v] = FALSE]
      /\ isSuspended' = [isSuspended EXCEPT ![v] = Marked(v)]
      /\ move' = [move EXCEPT ![v] = NoMove]
      /\ UNCHANGED <<off, asked, exit>>
  BY <1>1 DEF CompleteMigration
<1>3. /\ vmsToSuspend' = vmsToSuspend \ {v}
      /\ v \in vmsToSuspend => vmsOn' = vmsOn \ {v} /\ vmsOff' = vmsOff \cup {v}
      /\ v \notin vmsToSuspend => vmsOn' = vmsOn /\ vmsOff' = vmsOff
  BY <1>1 DEF CompleteMigration, Marked
<1>4. ~isSuspended[v] /\ v \notin vmsOff /\ location[v] = s
  BY <1>0, LocatedOnSource DEF PlacementInv, OffAreSuspended
<1>5. \A w \in VMs, h \in Hosts :
        w \in hosted'[h] <=> IF w = v THEN h = d /\ v \notin vmsToSuspend ELSE w \in hosted[h]
  <2>1. v \in hosted[s] /\ \A h \in Hosts : v \in hosted[h] => h = s
    BY <1>0, <1>4 DEF PlacementInv, Listed
  <2> QED BY <1>1, <2>1, ListedAfterMigration DEF Marked
<1>6. \A w \in VMs : isSuspended'[w] <=> IF w = v THEN v \in vmsToSuspend ELSE isSuspended[w]
  BY <1>2 DEF Marked, TypeOK
<1>7. /\ move'[v] = NoMove
      /\ \A w \in VMs : w # v => move'[w] = move[w] /\ (InFlight(w)' <=> InFlight(w))
  BY <1>2, OneMove
<1>8. Listed'
  BY <1>0, <1>2, <1>5, <1>6 DEF PlacementInv, Listed, TypeOK
<1>9. RequestsHonoured'
  BY <1>2, <1>3, <1>4, <1>6 DEF PlacementInv, RequestsHonoured
<1>10. OffAreSuspended'
  BY <1>3, <1>4, <1>6 DEF PlacementInv, OffAreSuspended
<1>11. OthersAreOn'
  BY <1>3, <1>4 DEF PlacementInv, OthersAreOn
<1>12. CalmMoves'
  <2>1. \A w \in VMs : isMigrating'[w] => w # v /\ isMigrating[w]
    BY <1>2 DEF TypeOK
  <2> QED BY <1>3, <1>7, <2>1 DEF PlacementInv, CalmMoves, NoMove, TypeOK
<1> QED BY <1>1, <1>2, <1>8, <1>9, <1>10, <1>11, <1>12 DEF PlacementInv, OnlyStaleMoves

LEMMA PlacementStep ==
  ASSUME ~Crashes, ~IdleTurnOff, TypeOK, MigrationHeld, PlacementInv, [Next]_vars
  PROVE  PlacementInv'
<1>1. CASE UNCHANGED vars
  BY <1>1 DEF vars, hostVars, vmVars, mapVars, PlacementInv, OnlyStaleMoves, Listed,
              RequestsHonoured, OffAreSuspended, OthersAreOn, CalmMoves, InFlight
<1>2. CASE Next
  BY <1>2, PlacementUpdateVM, PlacementSuspendVM, PlacementResumeVM, PlacementPlan,
     PlacementRelocateVM, PlacementPauseMigration, PlacementEndMigration
     DEF Next, Crash, Recover, TurnOffIdle
<1> QED BY <1>1, <1>2

(* The cached demand, in a form that survives the pause of a migration. *)
DemandInv ==
  \A h \in Hosts, v \in VMs :
    /\ v \notin hosted[h] => cpuDemand[h][v] = 0
    /\ v \in hosted[h] /\ move[v].pc # "paused" => cpuDemand[h][v] = load[v]

(* A host whose list changed gets its demand computed anew. *)
LEMMA Recomputed ==
  ASSUME NEW h, NEW w \in VMs, hosted'[h] \subseteq VMs,
         cpuDemand'[h] = ComputeCPUDemand(hosted'[h], load)
  PROVE  cpuDemand'[h][w] = IF w \in hosted'[h] THEN load[w] ELSE 0
  BY DEF ComputeCPUDemand

LEMMA DemandUpdateVM ==
  ASSUME TypeOK, PlacementInv, DemandInv, NEW v \in VMs, NEW l \in Loads, UpdateVM(v, l)
  PROVE  DemandInv'
<1> DEFINE g == location[v]
<1>1. UNCHANGED <<hosted, move>>
  BY DEF UpdateVM, UpdateRunningVM, UpdatePausedVM, hostVars
<1>2. load'[v] = l /\ \A w \in VMs : w # v => load'[w] = load[w]
  BY DEF UpdateVM, UpdateRunningVM, UpdatePausedVM, SetLoad, TypeOK
<1> SUFFICES ASSUME NEW h \in Hosts, NEW w \in VMs
             PROVE  /\ w \notin hosted[h] => cpuDemand'[h][w] = 0
                    /\ w \in hosted[h] /\ move[w].pc # "paused" => cpuDemand'[h][w] = load'[w]
  BY <1>1 DEF DemandInv
<1>3. CASE UpdateRunningVM(v, l)
  <2>1. v \in hosted[g] /\ g \in Hosts /\ move[v].pc # "paused"
    BY <1>3 DEF UpdateRunningVM, PlacementInv, Listed, TypeOK
  <2>2. cpuDemand' = [cpuDemand EXCEPT ![g] = AdjustedDemand(v, l)]
    BY <1>3 DEF UpdateRunningVM
  <2>3. cpuDemand[g] \in [VMs -> Int] /\ load[v] \in Nat /\ l \in Nat
    BY <2>1, LoadsAssumption DEF LoadsAssumption, TypeOK
  <2>4. AdjustedDemand(v, l)[v] = l
    <3>1. AdjustedDemand(v, l)[v] = cpuDemand[g][v] - load[v] + l
      BY <2>3 DEF AdjustedDemand
    <3>2. cpuDemand[g][v] = load[v]
      BY <2>1 DEF DemandInv
    <3> QED BY <2>3, <3>1, <3>2
  <2>5. CASE h = g /\ w = v
    <3>1. cpuDemand'[h][w] = l
      BY <2>1, <2>2, <2>4, <2>5 DEF TypeOK
    <3> QED BY <1>2, <2>1, <2>5, <3>1
  <2>6. CASE h = g /\ w # v
    <3>1. cpuDemand'[h][w] = cpuDemand[h][w]
      BY <2>1, <2>2, <2>3, <2>6 DEF TypeOK, AdjustedDemand
    <3> QED BY <1>2, <2>6, <3>1 DEF DemandInv
  <2>7. CASE h # g
    <3>1. cpuDemand'[h][w] = cpuDemand[h][w] /\ (w = v => w \notin hosted[h])
      BY <2>2, <2>7 DEF TypeOK, PlacementInv, Listed
    <3> QED BY <1>2, <3>1 DEF DemandInv
  <2> QED BY <2>5, <2>6, <2>7
<1>4. CASE UpdatePausedVM(v, l)
  <2>1. cpuDemand' = cpuDemand
    BY <1>4 DEF UpdatePausedVM, hostVars
  <2>2. v \notin hosted[h] \/ move[v].pc = "paused"
    BY <1>4 DEF UpdatePausedVM, PlacementInv, Listed
  <2> QED BY <1>2, <2>1, <2>2 DEF DemandInv
<1> QED BY <1>3, <1>4 DEF UpdateVM

LEMMA DemandSuspension ==
  ASSUME TypeOK, DemandInv, NEW v \in VMs, SuspendVM(v) \/ ResumeVM(v)
  PROVE  DemandInv'
<1>1. CASE SuspendNow(v) \/ ResumeSuspended(v)
  <2> DEFINE g == location[v]
  <2>1. /\ UNCHANGED <<move, load>>
        /\ cpuDemand' = [cpuDemand EXCEPT ![g] = ComputeCPUDemand(hosted'[g], load)]
        /\ g \in Hosts
    BY <1>1 DEF SuspendNow, ResumeSuspended, TypeOK
  <2>2. \A h \in Hosts : h # g => hosted'[h] = hosted[h]
    BY <1>1 DEF SuspendNow, ResumeSuspended, TypeOK
  <2>3. hosted'[g] \subseteq VMs
    BY <1>1, <2>1 DEF SuspendNow, ResumeSuspended, TypeOK
  <2> SUFFICES ASSUME NEW h \in Hosts, NEW w \in VMs
               PROVE  /\ w \notin hosted'[h] => cpuDemand'[h][w] = 0
                      /\ w \in hosted'[h] /\ move[w].pc # "paused" => cpuDemand'[h][w] = load[w]
    BY <2>1 DEF DemandInv
  <2>4. CASE h = g
    <3>1. cpuDemand'[g] = ComputeCPUDemand(hosted'[g], load)
      BY <2>1 DEF TypeOK
    <3> QED BY <2>3, <2>4, <3>1, Recomputed
  <2>5. CASE h # g
    BY <2>1, <2>2, <2>5 DEF DemandInv, TypeOK
  <2> QED BY <2>4, <2>5
<1>2. CASE UNCHANGED <<hosted, cpuDemand, move, load>>
  BY <1>2 DEF DemandInv
<1> QED BY <1>1, <1>2
     DEF SuspendVM, ResumeVM, PostponeSuspension, CancelPostponed, Exit, hostVars, vmVars

LEMMA DemandComplete ==
  ASSUME TypeOK, MigrationHeld, PlacementInv, DemandInv, NEW v \in VMs, CompleteMigration(v)
  PROVE  DemandInv'
<1> DEFINE s == move[v].src
           d == move[v].dst
           demand == [cpuDemand EXCEPT ![s] = ComputeCPUDemand(ListedAfter(v)[s], load),
                                       ![d] = ComputeCPUDemand(ListedAfter(v)[d], load)]
<1>0. /\ s \in Hosts /\ d \in Hosts /\ InFlight(v) /\ load' = load
      /\ v \in hosted[s] /\ \A h \in Hosts : v \in hosted[h] => h = s
  BY MoveTypes DEF CompleteMigration, InFlight, MigrationHeld, PlacementInv, Listed
<1>1. \A w \in VMs, h \in Hosts :
        w \in hosted'[h] <=> IF w = v THEN h = d /\ ~Marked(v) ELSE w \in hosted[h]
  BY <1>0, ListedAfterMigration
<1>2. cpuDemand' = IF Marked(v)
                   THEN [demand EXCEPT ![d] = ComputeCPUDemand(hosted'[d], load)]
                   ELSE demand
  <2>1. Marked(v) => hosted'[d] = [ListedAfter(v) EXCEPT ![d] = @ \ {v}][d]
    BY DEF CompleteMigration
  <2> QED BY <2>1 DEF CompleteMigration
<1>3. ~Marked(v) => hosted' = ListedAfter(v)
  BY DEF CompleteMigration
<1>4. ListedAfter(v) \in [Hosts -> SUBSET VMs]
  BY <1>0 DEF ListedAfter, TypeOK
<1>5. demand \in [Hosts -> [VMs -> Int]]
  <2>1. /\ ComputeCPUDemand(ListedAfter(v)[s], load) \in [VMs -> Int]
        /\ ComputeCPUDemand(ListedAfter(v)[d], load) \in [VMs -> Int]
    BY DemandType DEF TypeOK
  <2> QED BY <2>1 DEF TypeOK
<1>6. cpuDemand'[d] = ComputeCPUDemand(hosted'[d], load)
  <2>1. demand[d] = ComputeCPUDemand(ListedAfter(v)[d], load)
    BY <1>0 DEF TypeOK
  <2> HIDE DEF demand
  <2> QED BY <1>0, <1>2, <1>3, <1>5, <2>1
<1>7. ASSUME s # d PROVE cpuDemand'[s] = ComputeCPUDemand(ListedAfter(v)[s], load)
  <2>1. demand[s] = ComputeCPUDemand(ListedAfter(v)[s], load)
    BY <1>0, <1>7 DEF TypeOK
  <2> HIDE DEF demand
  <2> QED BY <1>0, <1>2, <1>5, <1>7, <2>1
<1>8. \A h \in Hosts : h # s /\ h # d => cpuDemand'[h] = cpuDemand[h]
  <2>1. \A h \in Hosts : h # s /\ h # d => demand[h] = cpuDemand[h]
    BY <1>0 DEF TypeOK
  <2> HIDE DEF demand
  <2> QED BY <1>0, <1>2, <1>5, <2>1
<1> HIDE DEF demand
<1> SUFFICES ASSUME NEW h \in Hosts, NEW w \in VMs
             PROVE  /\ w \notin hosted'[h] => cpuDemand'[h][w] = 0
                    /\ w \in hosted'[h] /\ move'[w].pc # "paused" => cpuDemand'[h][w] = load[w]
  BY <1>0 DEF DemandInv
<1>9. CASE h = d
  <2>1. hosted'[d] \subseteq VMs
    BY <1>0, TypeEndMigration DEF EndMigration, TypeOK
  <2> QED BY <1>6, <1>9, <2>1, Recomputed
<1>10. CASE h = s /\ s # d
  <2>1. cpuDemand'[h][w] = IF w \in ListedAfter(v)[s] THEN load[w] ELSE 0
    BY <1>7, <1>10 DEF ComputeCPUDemand
  <2>2. w \in ListedAfter(v)[s] <=> w # v /\ w \in hosted[s]
    BY <1>0, <1>10 DEF ListedAfter, TypeOK
  <2> QED BY <1>1, <1>10, <2>1, <2>2
<1>11. CASE h # s /\ h # d
  <2>1. w # v => move'[w] = move[w]
    BY DEF CompleteMigration, TypeOK
  <2> QED BY <1>0, <1>1, <1>8, <1>11, <2>1 DEF DemandInv
<1> QED BY <1>9, <1>10, <1>11

LEMMA DemandStep ==
  ASSUME ~Crashes, ~IdleTurnOff, TypeOK, MigrationHeld, PlacementInv, DemandInv, [Next]_vars
  PROVE  DemandInv'
<1>1. ASSUME UNCHANGED <<hosted, cpuDemand, load>>,
             \A w \in VMs : move[w].pc = "paused" => move'[w].pc = "paused"
      PROVE  DemandInv'
  BY <1>1 DEF DemandInv
<1>2. ASSUME NEW v \in VMs, SkipMove(v) \/ RelocateVM(v) \/ PauseMigration(v) PROVE DemandInv'
  <2>1. UNCHANGED <<hosted, cpuDemand, load>>
    BY <1>2 DEF SkipMove, RelocateVM, PauseMigration, Exit, hostVars, vmVars
  <2>2. \A w \in VMs : move[w].pc = "paused" => move'[w].pc = "paused"
    BY <1>2 DEF SkipMove, RelocateVM, PauseMigration, Exit, TypeOK
  <2> QED BY <1>1, <2>1, <2>2
<1>3. ASSUME NEW v \in VMs, NEW s \in Hosts, NEW d \in Hosts, PlanMove(v, s, d)
      PROVE  DemandInv'
  <2>1. \A w \in VMs : move[w].pc = "paused" => move'[w].pc = "paused"
    BY <1>3 DEF PlanMove, TypeOK, NoMove
  <2> QED BY <1>1, <1>3, <2>1 DEF PlanMove, hostVars, vmVars
<1>4. ASSUME NEW v \in VMs, EndMigration(v) PROVE DemandInv'
  BY <1>4, PlacementEndMigration, DemandComplete
<1>5. CASE UNCHANGED vars
  BY <1>5, <1>1 DEF vars, hostVars, vmVars
<1> QED BY <1>2, <1>3, <1>4, <1>5, DemandUpdateVM, DemandSuspension
     DEF Next, Crash, Recover, TurnOffIdle

LEMMA FlagsStep ==
  ASSUME ~Crashes, ~IdleTurnOff, TypeOK, MigrationHeld, PlacementInv, FlagsHeld, [Next]_vars
  PROVE  FlagsHeld'
<1> SUFFICES ASSUME NEW h \in Hosts, onGoingMigration'[h]
             PROVE  \E w \in VMs : InFlight(w)' /\ h \in {move'[w].src, move'[w].dst}
  BY DEF FlagsHeld, InFlight
<1>1. ASSUME UNCHANGED onGoingMigration, \A w \in VMs : InFlight(w) => move'[w] = move[w]
      PROVE  \E w \in VMs : InFlight(w)' /\ h \in {move'[w].src, move'[w].dst}
  BY <1>1 DEF FlagsHeld, InFlight
<1>2. ASSUME NEW v \in VMs, SuspendVM(v) \/ ResumeVM(v) \/ \E l \in Loads : UpdateVM(v, l)
      PROVE  \E w \in VMs : InFlight(w)' /\ h \in {move'[w].src, move'[w].dst}
  <2>1. UNCHANGED <<onGoingMigration, move>>
    BY <1>2 DEF SuspendVM, SuspendNow, PostponeSuspension, ResumeVM, ResumeSuspended,
                CancelPostponed, Exit, UpdateVM, UpdateRunningVM, UpdatePausedVM, hostVars
  <2> QED BY <1>1, <2>1
<1>8. ASSUME NEW v \in VMs, SkipMove(v) \/ \E s, d \in Hosts : PlanMove(v, s, d)
      PROVE  \E w \in VMs : InFlight(w)' /\ h \in {move'[w].src, move'[w].dst}
  <2>1. UNCHANGED onGoingMigration
    BY <1>8 DEF SkipMove, PlanMove, hostVars
  <2>2. \A w \in VMs : InFlight(w) => move'[w] = move[w]
    BY <1>8 DEF SkipMove, PlanMove, InFlight, TypeOK, NoMove
  <2> QED BY <1>1, <2>1, <2>2
<1>3. ASSUME NEW v \in VMs, NEW p \in {"copying", "paused"}, move[v] \in Move,
             move' = [move EXCEPT ![v].pc = p],
             onGoingMigration[h] \/ h \in {move[v].src, move[v].dst}
      PROVE  \E w \in VMs : InFlight(w)' /\ h \in {move'[w].src, move'[w].dst}
  <2>1. InFlight(v)' /\ move'[v].src = move[v].src /\ move'[v].dst = move[v].dst
    BY <1>3, RelocatedMoves DEF InFlight
  <2>2. \A w \in VMs : w # v => move'[w] = move[w] /\ (InFlight(w)' <=> InFlight(w))
    BY <1>3 DEF InFlight, TypeOK
  <2>3. CASE h \in {move[v].src, move[v].dst}
    BY <2>1, <2>3
  <2>4. CASE h \notin {move[v].src, move[v].dst}
    <3>1. PICK w \in VMs : InFlight(w) /\ h \in {move[w].src, move[w].dst}
      BY <1>3, <2>4 DEF FlagsHeld
    <3>2. w # v
      BY <2>4, <3>1
    <3> QED BY <2>2, <3>1, <3>2
  <2> QED BY <2>3, <2>4
<1>4. ASSUME NEW v \in VMs, RelocateVM(v)
      PROVE  \E w \in VMs : InFlight(w)' /\ h \in {move'[w].src, move'[w].dst}
  <2>1. move[v] \in Move /\ move[v].src \notin off
    BY <1>4, MoveTypes DEF RelocateVM, PlacementInv
  <2>2. CASE /\ onGoingMigration' = [onGoingMigration EXCEPT ![move[v].src] = TRUE,
                                                            ![move[v].dst] = TRUE]
             /\ move' = [move EXCEPT ![v].pc = "copying"]
    <3>1. onGoingMigration[h] \/ h \in {move[v].src, move[v].dst}
      BY <2>2 DEF TypeOK
    <3> QED BY <1>3, <2>1, <2>2, <3>1
  <2>3. CASE UNCHANGED <<onGoingMigration, move>>
    BY <1>1, <2>3
  <2> QED BY <1>4, <2>1, <2>2, <2>3 DEF RelocateVM, Exit, hostVars
<1>5. ASSUME NEW v \in VMs, PauseMigration(v)
      PROVE  \E w \in VMs : InFlight(w)' /\ h \in {move'[w].src, move'[w].dst}
  BY <1>3, <1>5, MoveTypes DEF PauseMigration, hostVars
<1>6. ASSUME NEW v \in VMs, EndMigration(v)
      PROVE  \E w \in VMs : InFlight(w)' /\ h \in {move'[w].src, move'[w].dst}
  <2>1. CompleteMigration(v)
    BY <1>6, PlacementEndMigration
  <2>2. /\ onGoingMigration' = [onGoingMigration EXCEPT ![move[v].src] = FALSE,
                                                       ![move[v].dst] = FALSE]
        /\ move' = [move EXCEPT ![v] = NoMove]
    BY <2>1 DEF CompleteMigration, Lowered
  <2>3. h \notin {move[v].src, move[v].dst} /\ onGoingMigration[h]
    BY <2>2 DEF TypeOK
  <2>4. PICK w \in VMs : InFlight(w) /\ h \in {move[w].src, move[w].dst}
    BY <2>3 DEF FlagsHeld
  <2>5. w # v
    BY <2>3, <2>4
  <2> QED BY <2>2, <2>4, <2>5, OneMove
<1>7. CASE UNCHANGED vars
  BY <1>1, <1>7 DEF vars, hostVars
<1> QED BY <1>2, <1>4, <1>5, <1>6, <1>7, <1>8 DEF Next, Crash, Recover, TurnOffIdle

CalmInv == TypeOK /\ MigrationHeld /\ PlacementInv /\ DemandInv /\ FlagsHeld

LEMMA CalmInvariant == ASSUME ~Crashes, ~IdleTurnOff PROVE Spec => []CalmInv
<1>1. Init => CalmInv
  <2> SUFFICES ASSUME Init PROVE CalmInv
    OBVIOUS
  <2>1. \A v \in VMs : ~InFlight(v)
    BY DEF Init, InFlight, NoMove
  <2>2. DemandInv
    BY DEF Init, DemandInv, ComputeCPUDemand
  <2>3. FlagsHeld
    BY DEF Init, FlagsHeld
  <2> QED BY <2>1, <2>2, <2>3, TypeInit, PlacementInit DEF CalmInv, MigrationHeld
<1>2. CalmInv /\ [Next]_vars => CalmInv'
  BY TypeStep, HeldStep, PlacementStep, DemandStep, FlagsStep DEF CalmInv
<1> QED BY <1>1, <1>2, PTL DEF Spec

-----------------------------------------------------------------------------
(* The theorems about the calm settings.                                     *)

(* The cached demand of a host is exact but for the VMs a migration pauses.  *)
THEOREM DemandIsExact ==
  ASSUME ~Crashes, ~IdleTurnOff PROVE Spec => []DemandExact
<1>1. CalmInv => DemandExact
  BY DEF CalmInv, DemandInv, DemandExact, ComputeCPUDemand
<1> QED BY <1>1, CalmInvariant, PTL

(* A raised flag is the one of a migration under way. *)
THEOREM FlagsAreHeld ==
  ASSUME ~Crashes, ~IdleTurnOff PROVE Spec => []FlagsHeld
<1>1. CalmInv => FlagsHeld
  BY DEF CalmInv
<1> QED BY <1>1, CalmInvariant, PTL

(* The VMs suspended or marked are those the injector asked to suspend, and  *)
(* only a stale plan may stop the simulator.                                 *)
THEOREM RequestsAreHonoured ==
  ASSUME ~Crashes, ~IdleTurnOff PROVE Spec => [](RequestsHonoured /\ OnlyStaleMoves)
<1>1. CalmInv => RequestsHonoured /\ OnlyStaleMoves
  BY DEF CalmInv, PlacementInv
<1> QED BY <1>1, CalmInvariant, PTL

(* Lists and collections are exact as long as stops and suspensions are not  *)
(* mixed: for want of suspensions by StopInv, for want of stops by           *)
(* PlacementInv.                                                             *)
THEOREM ListsAndCollections ==
  ASSUME ~((Crashes \/ IdleTurnOff) /\ Suspensions)
  PROVE  Spec => [](HostedOnce /\ CollectionsExact)
<1>1. TypeOK /\ StopInv => HostedOnce /\ CollectionsExact
  BY DEF StopInv, HostedOnce, CollectionsExact
<1>2. CalmInv => HostedOnce /\ CollectionsExact
  <2> SUFFICES ASSUME CalmInv PROVE HostedOnce /\ CollectionsExact
    OBVIOUS
  <2>1. HostedOnce
    BY DEF CalmInv, PlacementInv, Listed, HostedOnce, TypeOK
  <2>2. vmsOff = {v \in VMs : isSuspended[v] \/ \E h \in off : v \in hosted[h]}
    BY DEF CalmInv, PlacementInv, OffAreSuspended
  <2>3. vmsToSuspend \cap vmsOff = {}
    BY LocatedOnSource DEF CalmInv, PlacementInv, OffAreSuspended, CalmMoves, TypeOK
  <2> QED BY <2>1, <2>2, <2>3
       DEF CalmInv, PlacementInv, CollectionsExact, OthersAreOn, CalmMoves
<1>3. CASE ~Suspensions
  BY <1>1, <1>3, StopInvariant, PTL
<1>4. CASE ~Crashes /\ ~IdleTurnOff
  BY <1>2, <1>4, CalmInvariant, PTL
<1> QED BY <1>3, <1>4

-----------------------------------------------------------------------------
(* The trace of the violations, where nothing stops.                         *)

LEMMA DemandCounted ==
  ASSUME load \in [VMs -> Loads], NEW S \in SUBSET VMs
  PROVE  /\ Total(ComputeCPUDemand(S, load), VMs) = Cardinality(Units(load, S))
         /\ Cardinality(Units(load, S)) \in Nat
<1>1. load \in [VMs -> Nat] /\ IsFiniteSet(VMs)
  BY LoadsAssumption, NodesAssumption DEF LoadsAssumption, NodesAssumption
<1>2. Total([v \in VMs |-> IF v \in S THEN load[v] ELSE 0], VMs) = Cardinality(Units(load, S))
  BY <1>1, TotalOfPart
<1> QED BY <1>1, <1>2, UnitsAreFinite DEF ComputeCPUDemand

(* A host that can do with its VMs can do with less of them. *)
LEMMA ViableWithFewer ==
  ASSUME load \in [VMs -> Loads], NEW T \in SUBSET VMs, NEW S \in SUBSET T,
         IsViable(ComputeCPUDemand(T, load))
  PROVE  IsViable(ComputeCPUDemand(S, load))
<1>1. load \in [VMs -> Nat] /\ IsFiniteSet(VMs)
  BY LoadsAssumption, NodesAssumption DEF LoadsAssumption, NodesAssumption
<1>2. Cardinality(Units(load, S)) <= Cardinality(Units(load, T))
  BY <1>1, UnitsOfFewer
<1>3. Total(ComputeCPUDemand(T, load), VMs) <= Capacity
  BY DEF IsViable
<1>4. Total(ComputeCPUDemand(S, load), VMs) <= Capacity
  BY <1>2, <1>3, DemandCounted, CapacityAssumption DEF CapacityAssumption
<1> QED BY <1>4 DEF IsViable

LEMMA InitiallyViable ==
  ASSUME Init, NEW h \in Hosts
  PROVE  IsViable(cpuDemand[h])
<1> DEFINE S == {v \in VMs : location[v] = h}
<1>1. /\ load \in [VMs -> Loads] /\ MeanLoad \in Nat /\ Capacity \in Nat
      /\ \A v \in VMs : load[v] = MeanLoad
  BY LoadsAssumption, CapacityAssumption DEF LoadsAssumption, CapacityAssumption, Init
<1>2. cpuDemand[h] = ComputeCPUDemand(S, load)
  BY DEF Init
<1>3. Cardinality(S) * MeanLoad <= Capacity
  BY DEF Init, InitialPlacement
<1>4. S \in SUBSET VMs /\ IsFiniteSet(S)
  BY NodesAssumption, FS_Subset DEF NodesAssumption
<1> HIDE DEF S
<1>5. Cardinality(Units(load, S)) = Cardinality(S) * MeanLoad
  BY <1>1, <1>4, UnitsOfEqual
<1>6. Total(ComputeCPUDemand(S, load), VMs) <= Capacity
  BY <1>1, <1>3, <1>4, <1>5, DemandCounted
<1> QED BY <1>2, <1>6 DEF IsViable

(* The trace says of each host what a recomputation would. *)
Noted(h) ==
  /\ cpuDemand[h] = ComputeCPUDemand(hosted[h], load)
  /\ violated[h] <=> ~IsViable(cpuDemand[h])
AllNoted == \A h \in Hosts : Noted(h)

LEMMA NotedUpdateVM ==
  ASSUME TypeOK, PlacementInv, AllNoted, NoLoadChangeInPause,
         NEW v \in VMs, NEW l \in Loads, UpdateVM(v, l)
  PROVE  AllNoted'
<1>0. PICK g \in Hosts : g = location[v]
  BY DEF TypeOK
<1>1. hosted' = hosted /\ l # load[v]
  BY DEF UpdateVM, UpdateRunningVM, UpdatePausedVM, hostVars
<1>2. load' = [load EXCEPT ![v] = l]
  BY DEF UpdateVM, UpdateRunningVM, UpdatePausedVM, SetLoad
<1>3. \A h \in Hosts : v \notin hosted[h] =>
        ComputeCPUDemand(hosted[h], load') = ComputeCPUDemand(hosted[h], load)
  BY <1>2 DEF ComputeCPUDemand, TypeOK
<1>4. CASE UpdateRunningVM(v, l)
  <2>1. v \in hosted[g] /\ g \in Hosts /\ \A h \in Hosts \ {g} : v \notin hosted[h]
    BY <1>0, <1>4 DEF UpdateRunningVM, PlacementInv, Listed, TypeOK
  <2>2. cpuDemand[g] \in [VMs -> Int] /\ load[v] \in Nat /\ l \in Nat
    BY <2>1, LoadsAssumption DEF LoadsAssumption, TypeOK
  <2>3. AdjustedDemand(v, l) = ComputeCPUDemand(hosted[g], load')
    <3>1. cpuDemand[g] = ComputeCPUDemand(hosted[g], load)
      BY <2>1 DEF AllNoted, Noted
    <3>2. cpuDemand[g][v] = load[v]
      BY <2>1, <3>1 DEF ComputeCPUDemand
    <3>3. load[v] - load[v] + l = l
      BY <2>2
    <3>4. AdjustedDemand(v, l) = [cpuDemand[g] EXCEPT ![v] = l]
      BY <1>0, <2>2, <3>2, <3>3 DEF AdjustedDemand
    <3> QED BY <1>2, <2>1, <3>1, <3>4 DEF ComputeCPUDemand, TypeOK
  <2>4. cpuDemand'[g] = AdjustedDemand(v, l) /\ \A h \in Hosts \ {g} : cpuDemand'[h] = cpuDemand[h]
    BY <1>0, <1>4, <2>1 DEF UpdateRunningVM, TypeOK
  <2>5. /\ violated'[g] = ((violated[g] \/ ViolationStarts(cpuDemand[g], AdjustedDemand(v, l)))
                            /\ ~ViolationEnds(cpuDemand[g], AdjustedDemand(v, l)))
        /\ \A h \in Hosts \ {g} : violated'[h] = violated[h]
    BY <1>0, <1>4, <2>1 DEF UpdateRunningVM, TypeOK, PlacementInv
  <2>6. Noted(g)'
    <3>1. violated[g] <=> ~IsViable(cpuDemand[g])
      BY <2>1 DEF AllNoted, Noted
    <3>2. violated'[g] <=> ~IsViable(AdjustedDemand(v, l))
      BY <2>5, <3>1 DEF ViolationStarts, ViolationEnds
    <3> QED BY <1>1, <2>3, <2>4, <3>2 DEF Noted
  <2>7. ASSUME NEW h \in Hosts \ {g} PROVE Noted(h)'
    BY <1>1, <1>3, <2>1, <2>4, <2>5, <2>7 DEF AllNoted, Noted
  <2> QED BY <2>1, <2>6, <2>7 DEF AllNoted
<1>5. CASE UpdatePausedVM(v, l)
  <2>1. move[v].pc # "paused"
    BY <1>1, <1>2 DEF NoLoadChangeInPause, TypeOK
  <2>2. \A h \in Hosts : v \notin hosted[h]
    BY <1>5, <2>1 DEF UpdatePausedVM, PlacementInv, Listed
  <2>3. UNCHANGED <<cpuDemand, violated>>
    BY <1>5 DEF UpdatePausedVM, hostVars
  <2> QED BY <1>1, <1>3, <2>2, <2>3 DEF AllNoted, Noted
<1> QED BY <1>4, <1>5 DEF UpdateVM

(* A host whose list was changed, if the trace took it for what it is.       *)
LEMMA NotedAfter ==
  ASSUME TypeOK, AllNoted, load' = load, NEW g \in Hosts,
         hosted'[g] \in SUBSET VMs, cpuDemand'[g] = ComputeCPUDemand(hosted'[g], load),
         \/ /\ hosted'[g] \subseteq hosted[g]
            /\ violated'[g] <=> violated[g] /\ ~ViolationEnds(cpuDemand[g], cpuDemand'[g])
         \/ /\ hosted'[g] \subseteq hosted[g]
            /\ violated'[g] <=> violated[g] /\ ~IsViable(cpuDemand'[g])
         \/ /\ hosted[g] \subseteq hosted'[g]
            /\ violated'[g] <=> violated[g] \/ ViolationStarts(cpuDemand[g], cpuDemand'[g])
  PROVE  Noted(g)'
<1>1. /\ hosted[g] \in SUBSET VMs /\ load \in [VMs -> Loads]
      /\ cpuDemand[g] = ComputeCPUDemand(hosted[g], load)
      /\ violated[g] <=> ~IsViable(cpuDemand[g])
  BY DEF TypeOK, AllNoted, Noted
<1>2. /\ hosted'[g] \subseteq hosted[g] /\ IsViable(cpuDemand[g]) => IsViable(cpuDemand'[g])
      /\ hosted[g] \subseteq hosted'[g] /\ IsViable(cpuDemand'[g]) => IsViable(cpuDemand[g])
  BY <1>1, ViableWithFewer
<1>3. violated'[g] <=> ~IsViable(cpuDemand'[g])
  BY <1>1, <1>2 DEF ViolationStarts, ViolationEnds
<1> QED BY <1>3 DEF Noted

LEMMA NotedSuspension ==
  ASSUME TypeOK, AllNoted, NEW v \in VMs, SuspendVM(v) \/ ResumeVM(v)
  PROVE  AllNoted'
<1>1. CASE SuspendNow(v) \/ ResumeSuspended(v)
  <2>0. PICK g \in Hosts : g = location[v]
    BY DEF TypeOK
  <2>1. /\ load' = load /\ g \in Hosts
        /\ cpuDemand' = [cpuDemand EXCEPT ![g] = ComputeCPUDemand(hosted'[g], load)]
    BY <1>1, <2>0 DEF SuspendNow, ResumeSuspended, TypeOK
  <2>2. /\ cpuDemand'[g] = ComputeCPUDemand(hosted'[g], load)
        /\ \A h \in Hosts \ {g} : cpuDemand'[h] = cpuDemand[h]
    BY <2>1 DEF TypeOK
  <2>3. \A h \in Hosts \ {g} : hosted'[h] = hosted[h] /\ violated'[h] = violated[h]
    BY <1>1, <2>0 DEF SuspendNow, ResumeSuspended, TypeOK
  <2>4. ASSUME SuspendNow(v) PROVE Noted(g)'
    <3>1. /\ hosted'[g] = hosted[g] \ {v}
          /\ violated'[g] = (violated[g] /\ ~ViolationEnds(cpuDemand[g], cpuDemand'[g]))
      BY <2>0, <2>1, <2>4 DEF SuspendNow, TypeOK
    <3>2. hosted'[g] \in SUBSET VMs /\ hosted'[g] \subseteq hosted[g]
      BY <2>1, <3>1 DEF TypeOK
    <3> QED BY <2>1, <2>2, <3>1, <3>2, NotedAfter
  <2>5. ASSUME ResumeSuspended(v) PROVE Noted(g)'
    <3>1. /\ hosted'[g] = hosted[g] \cup {v}
          /\ violated'[g] = (violated[g] \/ ViolationStarts(cpuDemand[g], cpuDemand'[g]))
      BY <2>0, <2>1, <2>5 DEF ResumeSuspended, TypeOK
    <3>2. hosted'[g] \in SUBSET VMs /\ hosted[g] \subseteq hosted'[g]
      BY <2>1, <3>1 DEF TypeOK
    <3> QED BY <2>1, <2>2, <3>1, <3>2, NotedAfter
  <2>6. ASSUME NEW h \in Hosts \ {g} PROVE Noted(h)'
    BY <2>1, <2>2, <2>3 DEF AllNoted, Noted
  <2> QED BY <1>1, <2>1, <2>4, <2>5, <2>6 DEF AllNoted
<1>2. CASE UNCHANGED <<hosted, cpuDemand, load, violated>>
  BY <1>2 DEF AllNoted, Noted
<1> QED BY <1>1, <1>2
     DEF SuspendVM, ResumeVM, PostponeSuspension, CancelPostponed, Exit, hostVars, vmVars

LEMMA NotedComplete ==
  ASSUME TypeOK, MigrationHeld, PlacementInv, AllNoted, NEW v \in VMs, CompleteMigration(v)
  PROVE  AllNoted'
<1>0. PICK s \in Hosts, d \in Hosts : s = move[v].src /\ d = move[v].dst
  BY MoveTypes DEF CompleteMigration
<1> DEFINE arrived == ListedAfter(v)
           demand == [cpuDemand EXCEPT ![s] = ComputeCPUDemand(arrived[s], load),
                                       ![d] = ComputeCPUDemand(arrived[d], load)]
           left == IF Marked(v) THEN [arrived EXCEPT ![d] = @ \ {v}] ELSE arrived
<1>1. /\ load' = load /\ hosted' = left
      /\ cpuDemand' = IF Marked(v)
                      THEN [demand EXCEPT ![d] = ComputeCPUDemand(left[d], load)]
                      ELSE demand
      /\ violated' = [violated EXCEPT
                        ![s] = @ /\ ~IsViable(demand[s]),
                        ![d] = IF IsViable(demand[d]) THEN @ ELSE ~IsViable(cpuDemand'[d])]
  BY <1>0 DEF CompleteMigration
<1>2. /\ arrived \in [Hosts -> SUBSET VMs] /\ hosted \in [Hosts -> SUBSET VMs]
      /\ s # d => arrived[s] = hosted[s] \ {v}
      /\ hosted[d] \subseteq arrived[d] \cup {v} /\ (s # d => hosted[d] \subseteq arrived[d])
      /\ (s = d => v \in arrived[d])
      /\ \A h \in Hosts \ {s, d} : arrived[h] = hosted[h]
  BY <1>0 DEF ListedAfter, TypeOK
<1> HIDE DEF arrived
<1>3. /\ left \in [Hosts -> SUBSET VMs] /\ left[d] \subseteq arrived[d]
      /\ ~Marked(v) => left = arrived
      /\ \A h \in Hosts \ {d} : left[h] = arrived[h]
  BY <1>2
<1> HIDE DEF left
<1>4. /\ demand \in [Hosts -> [VMs -> Int]]
      /\ demand[d] = ComputeCPUDemand(arrived[d], load)
      /\ s # d => demand[s] = ComputeCPUDemand(arrived[s], load)
      /\ \A h \in Hosts \ {s, d} : demand[h] = cpuDemand[h]
  <2>1. \A h \in Hosts : ComputeCPUDemand(arrived[h], load) \in [VMs -> Int]
    BY <1>2, DemandType DEF TypeOK
  <2> QED BY <2>1 DEF TypeOK
<1> HIDE DEF demand
<1>5. /\ cpuDemand'[d] = ComputeCPUDemand(hosted'[d], load)
      /\ \A h \in Hosts \ {d} : cpuDemand'[h] = demand[h]
  BY <1>1, <1>3, <1>4
<1>6. Noted(d)'
  <2>1. /\ arrived[d] \in SUBSET VMs /\ load \in [VMs -> Loads]
        /\ hosted[d] \in SUBSET arrived[d] /\ left[d] \in SUBSET arrived[d]
    BY <1>2, <1>3 DEF TypeOK
  <2>2. violated[d] <=> ~IsViable(ComputeCPUDemand(hosted[d], load))
    BY DEF AllNoted, Noted
  <2>3. violated \in [Hosts -> BOOLEAN]
    BY DEF TypeOK
  <2>4. CASE IsViable(demand[d])
    <3>1. IsViable(ComputeCPUDemand(hosted[d], load)) /\ IsViable(ComputeCPUDemand(left[d], load))
      BY <1>4, <2>1, <2>4, ViableWithFewer
    <3>2. ~violated[d]
      BY <2>2, <3>1
    <3>3. ~violated'[d]
      BY <1>1, <2>3, <2>4, <3>2
    <3> QED BY <1>1, <1>5, <3>1, <3>3 DEF Noted
  <2>5. CASE ~IsViable(demand[d])
    <3>1. violated'[d] <=> ~IsViable(cpuDemand'[d])
      BY <1>1, <2>3, <2>5
    <3> QED BY <1>1, <1>5, <3>1 DEF Noted
  <2> QED BY <2>4, <2>5
<1>7. ASSUME s # d PROVE Noted(s)'
  <2>1. /\ hosted'[s] = arrived[s] /\ hosted'[s] \in SUBSET VMs /\ hosted'[s] \subseteq hosted[s]
        /\ cpuDemand'[s] = ComputeCPUDemand(hosted'[s], load)
    BY <1>1, <1>2, <1>3, <1>4, <1>5, <1>7
  <2>2. violated'[s] <=> violated[s] /\ ~IsViable(cpuDemand'[s])
    BY <1>1, <1>5, <1>7 DEF TypeOK
  <2> QED BY <1>1, <2>1, <2>2, NotedAfter
<1>8. ASSUME NEW h \in Hosts \ {s, d} PROVE Noted(h)'
  <2>1. /\ hosted'[h] = hosted[h] /\ cpuDemand'[h] = cpuDemand[h] /\ violated'[h] = violated[h]
    BY <1>1, <1>2, <1>3, <1>4, <1>5 DEF TypeOK
  <2> QED BY <1>1, <2>1 DEF AllNoted, Noted
<1> QED BY <1>6, <1>7, <1>8 DEF AllNoted

(* A calm step keeps the trace exact; a step that is not calm may not. *)
LEMMA NotedStep ==
  ASSUME ~Crashes, ~IdleTurnOff, TypeOK, MigrationHeld, PlacementInv, AllNoted,
         NoLoadChangeInPause, Next
  PROVE  AllNoted'
<1>1. CASE UNCHANGED <<hosted, cpuDemand, load, violated>>
  BY <1>1 DEF AllNoted, Noted
<1>2. ASSUME NEW v \in VMs, SkipMove(v) \/ RelocateVM(v) \/ PauseMigration(v) PROVE AllNoted'
  <2>1. UNCHANGED <<hosted, cpuDemand, load, violated>>
    BY <1>2 DEF SkipMove, RelocateVM, PauseMigration, Exit, hostVars, vmVars
  <2> QED BY <1>1, <2>1
<1>3. ASSUME NEW v \in VMs, NEW s \in Hosts, NEW d \in Hosts, PlanMove(v, s, d)
      PROVE  AllNoted'
  BY <1>1, <1>3 DEF PlanMove, hostVars, vmVars
<1>4. ASSUME NEW v \in VMs, EndMigration(v) PROVE AllNoted'
  BY <1>4, PlacementEndMigration, NotedComplete
<1> QED BY <1>2, <1>3, <1>4, NotedUpdateVM, NotedSuspension
     DEF Next, Crash, Recover, TurnOffIdle

(* Where no host stops, and as long as no load changes while its VM is       *)
(* paused by a migration, the trace shows a violation on a host exactly      *)
(* while its demand exceeds its capacity, although updateVM, suspendVM,      *)
(* resumeVM and migrateVM each look for the start and the end of violations  *)
(* in a way of their own (InfrastructureTrace!TraceExactWhenCalm).           *)
THEOREM TraceIsExactWhenCalm ==
  ASSUME ~Crashes, ~IdleTurnOff PROVE CalmSpec => []TraceExactWhenCalm
<1> DEFINE TraceInv == calm => AllNoted
<1>1. CalmInit => TraceInv
  <2>1. Init => AllNoted
    <3> SUFFICES ASSUME Init, NEW h \in Hosts PROVE Noted(h)
      BY DEF AllNoted
    <3>1. cpuDemand[h] = ComputeCPUDemand(hosted[h], load) /\ violated[h] = FALSE
      BY DEF Init
    <3> QED BY <3>1, InitiallyViable DEF Noted
  <2> QED BY <2>1 DEF CalmInit
<1>2. CalmInv /\ TraceInv /\ [CalmNext]_<<vars, calm>> => TraceInv'
  <2>1. CASE UNCHANGED <<vars, calm>>
    BY <2>1 DEF vars, hostVars, vmVars, AllNoted, Noted
  <2>2. ASSUME CalmInv, TraceInv, CalmNext, calm' PROVE AllNoted'
    <3>1. Next /\ NoLoadChangeInPause /\ AllNoted
      BY <2>2 DEF CalmNext
    <3> QED BY <2>2, <3>1, NotedStep DEF CalmInv
  <2> QED BY <2>1, <2>2
<1>3. TraceInv => TraceExactWhenCalm
  BY DEF AllNoted, Noted, TraceExactWhenCalm, TraceExact
<1>4. CalmSpec => Spec
  <2>1. CalmInit => Init
    BY DEF CalmInit
  <2>2. [CalmNext]_<<vars, calm>> => [Next]_vars
    BY DEF CalmNext
  <2> QED BY <2>1, <2>2, PTL DEF CalmSpec, Spec
<1> QED BY <1>1, <1>2, <1>3, <1>4, CalmInvariant, PTL DEF CalmSpec

-----------------------------------------------------------------------------
(* With neither: a plan is never stale.                                      *)

PlansInv == \A v \in VMs : move[v].pc # "none" => v \in hosted[move[v].src]

LEMMA PlansStep ==
  ASSUME ~Crashes, ~IdleTurnOff, ~Suspensions, CalmInv, PlansInv, NoExit, [Next]_vars
  PROVE  (PlansInv /\ NoExit)'
<1> USE DEF CalmInv
<1>1. ASSUME UNCHANGED <<hosted, exit>>,
             \A w \in VMs : move'[w].pc # "none" => move[w].pc # "none"
                                                    /\ move'[w].src = move[w].src
      PROVE  (PlansInv /\ NoExit)'
  BY <1>1 DEF PlansInv, NoExit
<1>2. ASSUME NEW v \in VMs, NEW l \in Loads, UpdateVM(v, l) PROVE (PlansInv /\ NoExit)'
  BY <1>1, <1>2 DEF UpdateVM, UpdateRunningVM, UpdatePausedVM, hostVars
<1>3. ASSUME NEW v \in VMs, NEW s \in Hosts, NEW d \in Hosts, PlanMove(v, s, d)
      PROVE  (PlansInv /\ NoExit)'
  <2>1. v \in hosted[s] /\ UNCHANGED <<hosted, exit>>
    BY <1>3 DEF PlanMove, hostVars
  <2>2. move'[v].src = s /\ \A w \in VMs : w # v => move'[w] = move[w]
    BY <1>3 DEF PlanMove, TypeOK
  <2> QED BY <2>1, <2>2 DEF PlansInv, NoExit
<1>4. ASSUME NEW v \in VMs, SkipMove(v) PROVE (PlansInv /\ NoExit)'
  <2>1. \A w \in VMs : move'[w].pc # "none" => move'[w] = move[w]
    BY <1>4 DEF SkipMove, NoMove, TypeOK
  <2> QED BY <1>1, <1>4, <2>1 DEF SkipMove, hostVars
<1>5. ASSUME NEW v \in VMs, RelocateVM(v) \/ PauseMigration(v) PROVE (PlansInv /\ NoExit)'
  <2>1. /\ move[v] \in Move /\ move[v].src \notin off /\ v \in hosted[move[v].src]
        /\ move[v].pc = "planned" => ~isMigrating[v]
    BY <1>5, MoveTypes
    DEF RelocateVM, PauseMigration, PlansInv, PlacementInv, CalmMoves, InFlight
  <2>2. PICK p \in {"copying", "paused"} : move' = [move EXCEPT ![v].pc = p]
    BY <1>5, <2>1 DEF RelocateVM, PauseMigration
  <2>3. UNCHANGED <<hosted, exit>>
    BY <1>5, <2>1 DEF RelocateVM, PauseMigration, hostVars
  <2>4. move'[v].src = move[v].src
    BY <2>1, <2>2, RelocatedMoves
  <2>5. \A w \in VMs : w # v => move'[w] = move[w]
    BY <2>2 DEF TypeOK
  <2> QED BY <1>1, <2>1, <2>3, <2>4, <2>5, MoveTypes DEF Move
<1>6. ASSUME NEW v \in VMs, EndMigration(v) PROVE (PlansInv /\ NoExit)'
  <2>1. CompleteMigration(v)
    BY <1>6, PlacementEndMigration
  <2>2. \A h \in Hosts : v \in hosted[h] => h = move[v].src
    BY <2>1, LocatedOnSource DEF CompleteMigration, InFlight, PlacementInv, Listed
  <2>3. \A w \in VMs, h \in Hosts : w # v => (w \in hosted'[h] <=> w \in hosted[h])
    BY <2>1, <2>2, ListedAfterMigration DEF MigrationHeld, CompleteMigration, InFlight
  <2>4. /\ move'[v].pc = "none" /\ exit' = exit
        /\ \A w \in VMs : w # v => move'[w] = move[w]
    BY <2>1 DEF CompleteMigration, TypeOK, NoMove
  <2> QED BY <2>3, <2>4, MoveTypes DEF PlansInv, NoExit
<1>7. CASE UNCHANGED vars
  BY <1>1, <1>7 DEF vars, hostVars
<1> QED BY <1>2, <1>3, <1>4, <1>5, <1>6, <1>7
     DEF Next, Crash, Recover, TurnOffIdle, SuspendVM, ResumeVM

(* Without suspensions and stops, no plan, load or migration makes the       *)
(* simulator give up.                                                        *)
THEOREM NothingExits ==
  ASSUME ~Crashes, ~IdleTurnOff, ~Suspensions PROVE Spec => []NoExit
<1>1. Init => PlansInv /\ NoExit
  <2>1. Init => \A v \in VMs : move[v].pc = "none"
    BY DEF Init, NoMove
  <2> QED BY <2>1 DEF Init, PlansInv, NoExit
<1>2. CalmInv /\ PlansInv /\ NoExit /\ [Next]_vars => (PlansInv /\ NoExit)'
  BY PlansStep
<1> QED BY <1>1, <1>2, CalmInvariant, PTL DEF Spec

=============================================================================
