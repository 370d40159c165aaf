# A TLA+ model of VMPlaceS

VMPlaceS simulates, on top of SimGrid, the algorithms that place virtual machines (VMs) on the
hosts of a data centre.  It injects load changes, VM suspensions and host faults into a simulated
infrastructure while a placement algorithm - centralized, hierarchical (Snooze) or distributed
(DVMS) - watches the hosts and migrates VMs away from those that are overloaded.

This directory holds TLA+ modules translated from the source under `src/`, the configurations with
which TLC checks them on small instances, and proofs, checked by TLAPS, of the theorems that hold
for every instance.  `PROJECT.json` lists the runs, the theorems, the lines each definition models
and the hazards of the code with the properties that watch them.

## 1. Inventory

Everything runs in SimGrid *processes*, which are cooperative: one runs at a time, until it calls
something that lets simulated time pass (a sleep, a receive, a live migration).  There are no data
races within such a stretch; there are many between two of them.

| component | state | operations | interacts through |
|---|---|---|---|
| **Infrastructure** (`SimulatorManager`, `XHost`, `XVM`, `AbstractScheduler.relocateVM`, the events' `play`) | hosts on and off, the VM list, cached demand and migration flag of each host; location, load, migrating and suspended flag of each VM; the collections `sgVMsOn`, `sgVMsOff`, `sgVMsToSuspend` | `updateVM`, `suspendVM`, `resumeVM`, `turnOn`, `turnOff`, `migrateVM` | direct calls from the injector and the schedulers; SimGrid kills processes of a host that stops |
| **Injector** | a queue of timed events | generate, sort and merge the queues; play the events; wait for the scheduler at the end | calls the infrastructure, `setEndOfInjection`, polls `isSchedulerActive` |
| **Scheduler loop** (`CentralizedResolver`, `AbstractScheduler`, `Entropy2RP`, `BtrPlaceRP`) | migrations under way, aborted flag, number of passes | compute a plan, sleep for the computation, start the migrations, wait for them, turn off empty hosts | reads the lists of the hosts, starts one process per migration |
| **FFD planners** | predicted demand of each host | choose VMs to move and where, apply in two phases | the same |
| **DVMS agent** (one per host) | current partition (leader, initiator, nodes, state, id, version), date of its last update | detect an overload, transmit a partition (ISP), accept, grow, block, merge or dissolve it, time out | mailboxes; blocking requests (`ask`) without time limit; a second process per plan; a periodic monitor, a timeout checker and a snoozer |
| **Snooze** | group leader, group managers, local controllers and the multicast service, each with tables of who is alive | join, election, promotion, heartbeats, dead-node detection | mailboxes shared between request kinds, time-limited receives, some direct method calls |
| **Trace** | a stack of states per host and variables | push, pop, set, write | called by all |
| configuration, entry points, standalone experiments, visualisation | - | - | not modelled |

What makes each correct, and hard:

* *Infrastructure*: every VM is on exactly one host, or suspended; the collections agree with the
  hosts; the cached demand agrees with the VMs; no event is forgotten; a host that migrates is not
  stopped; nothing stops the simulator.  Hard because a migration takes time while loads, faults and
  suspensions go on, and because each operation updates the redundant state in pieces.
* *Injector*: the events of one host or one VM alternate and are played in order.  Hard because
  overlapping faults are edited afterwards and the comparators round.
* *Scheduler loop*: a plan ends, the loop ends with the injection.  Hard because it counts on
  processes that a fault kills.
* *DVMS*: a node is in one partition; the members agree on it; a partition that cannot grow is given
  up; the servers do not wait for one another for ever.  Hard because of the blocking requests, the
  second process and the timeouts.
* *Snooze*: one leader at last; dead managers are noticed and their controllers join another; a
  promotion does not make two leaders.  Hard because of time limits and shared mailboxes.

## 2. Modules and plan

| module | models | proofs | runs |
|---|---|---|---|
| `Infrastructure`, `InfrastructureTrace` | hosts, VMs, migrations, collections, events; what the trace shows | `InfrastructureProofs` | `infra_suspend`, `infra_double_migration`, `infra_flag` |
| `Resolver` (extends `Infrastructure`) | the centralized scheduler, the application of a plan, the end of the simulation | `ResolverProofs` | `resolver`, `resolver_ghost` |
| `Reconfiguration` | what a pass promises; `Resolver` implements it | `ResolverProofs` | `resolver` |
| `FirstFit` | the computation of a plan by the First Fit Decreased planners | `FirstFitProofs` | `firstfit` |
| `Sums` | the sum of the demands on a host, used by `Infrastructure` and `FirstFit` | `SumsProofs` (lemmas) | |
| `EventQueues` | the injector's queues | `EventQueuesProofs` | `queues`, `queues_order` |
| `Dvms` | the agents of DVMS | `DvmsProofs`, `DvmsPromptProofs` | `dvms_prompt`, `dvms_late`, `dvms_live` |
| `Partitions` | what the partitions of DVMS promise; `Dvms` implements it when messages are prompt | `DvmsPromptProofs` | `dvms_prompt` |
| `SnoozeJoin` | how Snooze's controllers join managers, and lose them | `SnoozeJoinProofs` | `snooze_join` |

The modules beginning with `MC` give the instances their constants; each `.cfg` is one run.
`Resolver` composes the scheduler with the infrastructure: its steps are steps of `Infrastructure`
(`ResolverIsInfrastructure`), so that what is proved of the one holds of the other.

Left to do, in this order: the rounds of an election of Snooze (promotion, demotion, two leaders at
once) with `Multicast`'s tables; the scheduling loop of its managers, several of which may place VMs
on the same host; agents of DVMS whose host is stopped, and the core process of `TimeoutSnoozer`; what a VM
promises (running, migrating, to be suspended, suspended), refined by `Infrastructure`.

## 3. Infrastructure

`Infrastructure.tla` keeps, under the names of the code, the fields of `XHost` (`off`, `hosted`,
`cpuDemand`, `onGoingMigration`), of `XVM` (`location`, `load`, `isMigrating`, `isSuspended`) and of
`SimulatorManager` (`vmsOn`, `vmsOff`, `vmsToSuspend`).  Four more variables: `violated`, the state
the trace shows for a host; `move`, where each VM's migration is; `asked`, a history of what the
injector asked for last; and `exit`, why `System.exit` was called.

* **One action per operation**: `UpdateVM`, `SuspendVM`, `ResumeVM`, `Crash` and `TurnOffIdle`
  (both `turnOff`), `Recover` (`turnOn`), `PlanMove`, `SkipMove`, `RelocateVM`, `PauseMigration`,
  `EndMigration`.  Each is the whole stretch of code between two points where time passes.
* **A migration** is the only operation that blocks.  `PlanMove` is the decision; `RelocateVM` the
  start of the process on the source, up to `vm.migrate`; `PauseMigration` (external: SimGrid stops
  the VM for the last phase of the copy); `EndMigration` what follows `vm.migrate` - success, a
  destination that was turned off, or an exception.  The planner's `turnOn(dst)` and the start of the
  process happen in the same scheduling round, so they are one action.
* **A host that stops** kills the processes running on it: a migration that leaves it disappears in
  the middle (`Interrupted`); one that reaches it is cut and fails.
* **The demand** of a host is kept per VM instead of as a sum: that loses nothing and exposes errors
  that would cancel out.  Only `IsViable` adds it up (`Total`, in `Sums`).
* **At most one plan per VM** at a time: all VMs of a host are given to one scheduler, which waits
  for its migrations.  Schedulers of different partitions that share a host are not covered.
* `InitiallyOff`: with `hosts.turn_off`, the hosts `initHosts` leaves empty are turned off by `Main`
  before anything starts.
* Every call of `System.exit` is a value of `exit`; `Next` stops there, which is why the runs say
  `CHECK_DEADLOCK FALSE`.

Left out: memory, network and disk load, energy, load tracing, metrics of the trace other than
violations, `SimulatorManager`'s unused methods (`willItBeViableWith`, `swapHosts`...).

### Runs

Three settings are constants, as in the code's properties file: `Crashes` (`hostingnodes` faults),
`IdleTurnOff` (`hosts.turn_off`), `Suspensions` (VM fluctuation).

| run | instance | question |
|---|---|---|
| `infra_suspend` | 2 hosts, 3 VMs, 2 loads; suspensions; fairness | lists, collections, demands, postponed suspensions agree; a postponed suspension is resolved; the trace shows the real violations |
| `infra_double_migration` | 2 hosts, 2 VMs; crashes | expected violation, see below |
| `infra_flag` | the same | expected violation, see below |

Crashes and stops of idle hosts, alone and mixed with suspensions, are exercised by `resolver`
(section 4), which checks `MigrationHeld` in every setting at once.

*Bounds.*  A hazard here involves at most two migrations and two or three hosts (source, shared host,
destination), one VM that moves, one that shares the host, and one event that interferes.  Two
hosts, three VMs and two loads reach each.  There is no other bound: the state space is finite by
itself.

*Fairness.*  `FairCalmSpec` asks that a migration under way ends - a live migration copies a finite
memory and SimGrid's time advances - and nothing of the injector, the faults or the schedulers.

*Where properties stop holding.*  `HostedOnce` and `CollectionsExact` need that stops and
suspensions are not mixed; `DemandExact` and `RequestsHonoured` that no host stops.
`TraceExact` needs that no load changes during the paused phase of a migration: `updateVM` skips the
bookkeeping for a VM that is not running, and the recomputation at the end looks for the start of a
violation on the destination only.  `InfrastructureTrace` keeps in a history variable, `calm`, that no
such change has happened; `TraceExactWhenCalm` is `TraceExact` under it.

### Findings

`infra_double_migration`: a migration that throws leaves `XVM.isMigrating` set; the next migration of
that VM stops the simulator with "migrate twice".

`infra_flag`: `onGoingMigration` is there so that a host is not turned off during a migration, but it is
one boolean for all the migrations of a host.  Two VMs leave a host; the first to arrive lowers
the flag, and the next fault turns the host off in the middle of the other (`MovingHostsStayOn`).

Other things the model shows and no line of the code denies: for the same reason `suspend` may
postpone a suspension that no migration will ever carry out; a suspended VM leaves its
host empty, so that the host may be turned off, and the VM resumed there is counted as running; a VM
suspended between plan and application stops the simulator, unless the planner is Entropy.
`OnlyStaleMoves` does not deny that last one: it says that nothing else stops the simulator, and
`EntropyNeverGivesUp` that looking at the VM first, as Entropy does, is enough.

### Proofs

`InfrastructureProofs.tla`, for all finite sets of hosts and VMs, all loads and capacities:

| theorem | assuming | property |
|---|---|---|
| `TypeCorrect` | - | `TypeOK` |
| `MigrationsHeld` | - | `MigrationHeld` |
| `StoppedFrozen` | no suspensions | `StoppedHostsFrozen` (no run checks it) |
| `ListsAndCollections` | stops and suspensions not mixed | `HostedOnce`, `CollectionsExact` |
| `DemandIsExact`, `FlagsAreHeld`, `RequestsAreHonoured` | no host stops | `DemandExact`, `FlagsHeld` (no run checks it), `RequestsHonoured`, `OnlyStaleMoves` |
| `TraceIsExactWhenCalm` | no host stops | `TraceExactWhenCalm`, of `CalmSpec` |
| `NothingExits` | neither suspensions nor stops | `NoExit` (no run checks it) |

None of these invariants is inductive alone.  `MigrationHeld` is the first step: a migration under
way pins its VM to the list of a running source, so `CompleteMigration` and the suspension it may
carry out find the VM where they expect it; it needs only types, and is then available everywhere.
`PlacementInv` adds what connects lists, collections and requests (`Listed`, `RequestsHonoured`,
`OffAreSuspended`, `OthersAreOn`, `CalmMoves`: a VM that is not moving has no migrating flag).
`DemandInv` says of a VM paused by a migration that only its own part of the source's demand may be
stale.  `FlagsHeld` says that a raised flag has a migration behind it; it is kept because the end of a migration
lowers both flags, and it is the other direction that fails (`infra_flag`).
`PlansInv` says that without suspensions a planned move still finds its VM on its source.

`TraceIsExactWhenCalm` keeps `AllNoted`: the cached demand of each host is what computing it anew would
give, without the exception that `DemandExact` makes for a paused VM, and the trace shows a violation
exactly if that is over the capacity.  Each of `updateVM`, `suspendVM`, `resumeVM` and `migrateVM`
notes a start or an end from a before and an after of its own, which is right because moving a VM away
can only make a host viable and adding one only overload it.  That is a fact about sums
(`ViableWithFewer`), which rests on `SumsProofs`.

*Sums.*  A sum over a set is defined by recursion.  `Sums` counts instead: x
contributes `size[x]` pairs <<x, k>>, and the sum is the number of pairs.  Then the library's
theorems on cardinalities give what is needed: the sum over a set with one element more or fewer, over
equal sizes, and over a part (`UnitsOfMore`, `UnitsOfFewer`, `UnitsOfEqual`, `TotalOfPart`).

Only model-checked: `PostponedResolved`, a liveness property.

## 4. The centralized scheduler

`Resolver.tla` is `CentralizedResolver.main` with the part of `AbstractScheduler` and of the three
planners that carries a plan out, and the end of `Injector.main2`.  A pass goes through phases:

    sleeping -> planning -> computing -> launching -> waiting -> tidying -> sleeping ... -> ended

*Planning*, *launching* and *tidying* take no time in the code (`Instant`): during them only the
resolver moves.  While it sleeps, computes or waits, the injector plays events and migrations go on.
Each step of the resolver is one step of `Infrastructure`, or leaves it alone.

* A plan is any set of migrations of VMs from the hosts whose lists name them (the solvers are
  libraries; what First Fit finds is the matter of `FirstFit`).  With Entropy, actions depend on one another
  (`after`); `VisitAction` is the loop that releases them, in the order of the names, which is any.
* `ongoing` is `ongoingMigrations`, `rpAborted` the flag of that name.  Both fields are written by the migration processes
  (`StartAction`, `EndOfProcess`); a process killed with its host writes nothing.
* `goal` and `dropped` are histories of the pass: where its plan wants each VM, and which actions were
  passed over when their turn came.
* Only Entropy asks whether a VM runs before it starts the migration (`Passed`).
* BtrPlace gives up after the injection (`WatchDog`, `System.exit(42)`); the others only say so.
* `EndInjection` is the end of the event queue, `Finalize` that of the simulation.

`Reconfiguration.tla` is the abstract specification: a pass begins when nothing moves, its
migrations start while it launches, the pass ends when all are over, and nothing runs afterwards.
The refinement mapping reads `stage` off `phase` (`Stage`) and takes for `moving` the VMs under way.

### Runs

| run | instance | question |
|---|---|---|
| `resolver` | 2 hosts of capacity 1, 2 VMs, 1 load; crashes, idle turn-offs, suspensions; the three planners; fairness | passes do not overlap, a reported success has no migration that failed or was cut, every action is reached, the count covers the migrations, the simulation ends |
| `resolver_ghost` | the same with Entropy and crashes only | expected violation, see below |

*Bounds.*  Two migrations are enough for one to be killed or to fail while the other goes on, for one
to depend on the other, and for the two to exchange hosts.  Passes are not bounded.

*Fairness.*  Computations end, migrations end, the injection has a duration, SimGrid runs every
process that can go on; no fault or event has to happen.

`CountCovers` also says that the count is exact without crashes.  `resolver` has crashes, so that this half
says nothing there; the theorem `MigrationsAreCounted` covers it.

*Finding.*  `resolver_ghost`: a migration killed with its source stays in the count, which is documented as
the "Number of ongoing migrations"; Entropy and First Fit then wait for ever, and the injector with
them.  `LoopEnds` says that this is the only thing that keeps the simulation from ending.

*What a SUCCESS means.*  An action whose VM was suspended while the plan was computed (Entropy), or whose source
is off when its process runs (`relocateVM`), is passed over in silence: `rpAborted` stays down and
the pass reports SUCCESS, documented as "the success or failure of the algorithm loop", with VMs of its plan
where they were.  So `PlanCarriedOut` does not hold (as an invariant of `MCResolver_ghost.cfg` with
suspensions instead of crashes, TLC finds the pass), but when there are neither faults nor
suspensions it is a theorem.  What a SUCCESS does mean is `SuccessIsTrue`: each VM of the plan is where the plan
wants it, or its action was passed over.  A migration that was started and failed, was cut, or was
killed is never part of one.

### Proofs

`ResolverProofs.tla`, for all hosts, loads and settings, any of the planners, and any finite set of VMs:

| theorem | shows |
|---|---|
| `ResolverIsInfrastructure` | `ResolverSpec => Spec`: the theorems of `InfrastructureProofs` hold here |
| `ResolverTypeCorrect` | `ResolverTypeOK` |
| `EveryActionIsStarted` | `EveryActionStarts` |
| `MigrationsAreCounted` | `CountCovers`: never below the migrations under way, exact without crashes |
| `SuccessesAreTrue` | `SuccessIsTrue` |
| `UndisturbedPlansAreCarriedOut` | `PlanCarriedOut`, without crashes and suspensions (no run checks it) |
| `EntropyNeverGivesUp` | `EntropyChecksFirst` (no run checks it) |
| `PassesImplementReconfiguration` | `RefinesReconfiguration` |

The invariant is `PassInv`.  Its parts: `PlannedHeld`, a planned VM is still on the list of its
source or was suspended there, which nothing but its own move changes; `AtRest`, nothing moves
outside launching and waiting; `PlanInv`, an action not started yet is ready, or first and still to be
visited, or waits only for actions the loop has still to come to - coming to an action frees the
others, whether it could start or not, so that none is forgotten; `CountCovers`; `GoalInv`, while
`rpAborted` is not raised, the VMs of the plan that are neither still to be started, nor passed over, nor where
the plan wants them are at most as many as the count, killed migrations included.  `SuccessIsTrue`
follows from `GoalInv`: at the end of the wait the count is 0 and nothing is left to be
started.  `PlanCarriedOut` holds when nothing is passed over (`NothingDropped`): without suspensions
Entropy always finds the VM running, and without faults a host that is off has an empty list
(`OffAreEmpty`), so that no planned VM has it as its source.  The lemmas `...Effects` say once what a step of the infrastructure does to the
migrations; `BackgroundSteps` uses them for all that happens while the resolver waits.

Only model-checked: `LoopEnds`, a liveness property.

## 5. First Fit Decreased planners

`FirstFit.tla` is one computation of `LazyFirstFitDecreased` or `OptimisticFirstFitDecreased`: take VMs
out of the overloaded hosts (`TakeOut`, `Relieved`), put each on the first host with room
(`Place`), decide what the result is called (`Conclude`).  No time passes, so nothing else changes.
Hosts and VMs are numbered in the order in which the code goes through them.  The `TreeSet` of VMs is a sequence into which
a VM is inserted next to both of its neighbours: for a comparator that is an order this is the sorted
set; for one that is none, it is any place the tree may lead to.  Room is looked for on every host of
the infrastructure, those outside `hostsToCheck` or turned off included, as in the code.

| run | instance | question |
|---|---|---|
| `firstfit` | 3 hosts, 4 VMs, loads and memory 1 or 2, capacity 3, memory 4, three sets of hosts to check | predictions follow the plan; a full plan is viable; a plan cut short overloads no other host |

Every configuration of the VMs on the hosts is an initial state.  Four VMs on three hosts give plans
with several moves, VMs put back where they were, and computations that stop half way.

`PlanIsViable` does not depend on the order in which the VMs are placed; that is why it survives the
comparator described below.  `PredictionsExact` takes the cached demand of a host to be right, which
`InfrastructureProofs` shows when no host stops.  A plan cut short because a VM fits nowhere is
applied all the same and called a success; `SaneHostsStaySane` is what remains true of it.

*The comparator.*  With `useload`, documented as "sort the VMs by current load", it negates one of the two
loads only, so that the VM compared last comes first: VMs with different loads are placed in the reverse of the
order they were taken out in.  `Compare` follows the code in this; the properties hold all the same.

### Proofs

`FirstFitProofs.tla`, for any numbers of hosts and VMs, loads, sizes and capacities, lazy or optimistic, any
set of hosts to check:

| theorem | property |
|---|---|
| `Predictions` | `PredictionsExact` |
| `CompletePlansAreViable` | `PlanIsViable` |
| `NoHostIsMadeOverloaded` | `SaneHostsStaySane` |

The invariant is `Accounted`.  Its parts: a VM to be scheduled, or moved, comes from a host that was
overloaded when the computation began; no VM waits twice or is both waiting and in the plan; the predicted
demand of a host is that of the VMs planned there, less those taken out - except, with the optimistic
planner, of a host that is still to be relieved (`Settled`), whose VMs it takes out before it adjusts the
demand; and a host to check that is not overloaded any more, or was not when it began, has room for
what is predicted.  Nothing is assumed of the order in which VMs are taken out and placed: of the
sorted set the proof uses only that it holds each VM once (`Distinct`).  The demands are counted in the
units of `Sums`.

## 6. The injector's queues

`EventQueues.tla` is the construction of the queues by `Injector` and their play by `main2`.  The loads, the
faults of the hosts and the suspensions of the VMs are drawn one after the other, each with a clock of
its own that advances by any amount (the code draws exponential laws).  Then `NextQueue` sorts the
faults, `Merge` sorts and merges, and `Play` consumes.  `Modes` chooses between `generateFaultQueue`
and the two forms of `generateSnoozeFaultQueue`.

* Times are quarters of a second, so that the comparators that round a difference of times to a
  second do here what they do with the code's reals.
* `Sorted` is what `java.util` does with fewer than 32 elements - find the initial run, reverse it if
  it descends, insert the rest by binary search - because with a comparator that is no order the
  result depends on the algorithm.  Longer lists are cut into such runs and merged; the proofs use
  only that a sort rearranges its list, and puts it in the order of time if the comparator tells of any two
  events which is the earlier (`SortedRearranged`, `SortedAscending`).
* `Postponed` is `ifStillOffUpdate` and `ifStillSuspendedUpdate`: a fault that strikes a host that is still off
  takes its On event out and puts a later one in, unless that falls past the end.

| run | instance | question |
|---|---|---|
| `queues` | 2 hosts, 1 VM, two service nodes, all modes, duration 3.75 s, outages of 2 s, at most 4 random draws | faults and suspensions overlap and run past the end: each queue turns hosts and VMs off exactly when it should; events whole seconds apart are played so |
| `queues_order` | 1 host, 1 VM, 5 draws | expected violation, see below |

*Bounds.*  `MaxDraws` bounds the draws of all queues together; four let three outages of a host overlap,
end past the duration, or leave one event of another kind between them.  An outage lasts
more than half of the duration, so that one that begins in the second half runs past the end.

*Finding.*  `queues_order`: events less than half a second apart compare equal, which is not
transitive; a few of them make the sort put the next suspension of a VM before the resume of the last,
and the simulator exits.  `PlayedAsDrawn` says that this cannot happen when everything happens at whole
seconds (`WholeSeconds`).  In the mode `leader`, the loop over the managers also draws faults of the leader, whose events
then do not alternate; the properties leave that host out.

### Proofs

`EventQueuesProofs.tla`, for any hosts, VMs, durations, periods and number of draws:

| theorem | property |
|---|---|
| `TypeCorrect` | `TypeOK` |
| `FluctuationsAreInOrder` | `FluctuationsAlternate` |
| `FaultsAreAsDrawn` | `FaultsAsDrawn` |
| `EventsArePlayedAsDrawn` | `PlayedAsDrawn` |

*Sorting.*  What a sort returns is shown by induction: on the length of the interval for the binary
search (`SearchPlace`), on the number of elements inserted for the sort.  `InductionOnSet` states
induction with the set of the numbers that have the property, so that it needs no operator as a parameter; it
follows from the well-foundedness of < on the naturals, and defines the recursive functions too
(`Search`, `Insertions`).  Every sort returns a rearrangement of its list - that much holds for
the rounding comparator as well - and `SortedAscending` an ascending one if the comparator `Agrees` with the
order of times.  The exact one always does, the rounded one at whole seconds (`RoundedAgrees`).

`FluctuationsAlternate` is stated with the positions of the events: each event of a VM but a first
suspension follows, in strictly later time, one that does the contrary, with none of that VM in between.
The invariant, `FluctuationsInv`, adds to it (`Shape`) that the last event of a VM resumes it, that
the resumes of all VMs are in order of time, that no suspension is later than the clock of the queue and
no resume later than an outage after it; and (`AsDrawn`) that the queue has a VM suspended exactly
when one of the drawn suspensions covers the time.  The order of the resumes is what makes
`ifStillSuspendedUpdate` right: it looks from the end and gives up at the first event that turns something
on before the current time, so that it would overlook a resume behind such an event.  `PostponedRedrawn`
shows that either a suspension is added or the last resume is taken out, `RedrawnShape` and `RedrawnAsDrawn` that
the new resume then restores the invariant; that is also where the suspensions that last beyond the
duration are covered.

The assumption on `Services` says that faults of the leader are only generated when there is one: the
code takes its host from an array.

*The sorted queues.*  After a sort positions say nothing, so the argument is about the set of a host's
events (`Switches`), which a rearrangement keeps, and what the latest of them makes of it (`LeftOff`).
Where times increase this is what `LastOf` reads off the positions (`LastOfIsLeftOff`).

`FaultsInv` is to the faults what `FluctuationsInv` is to the suspensions, with two differences.  The On
event may be missing, when it would fall past the end; then a later fault strikes a host that is off to stay,
and adds a second Off event (`FaultShape`: between an On event and the one before there is an Off event, but
not the converse).  And there may be faults of the leader, drawn by both loops: `Tracked` are the other
hosts, for which the queue is as drawn whatever the leader's events are.  `StruckDrawn` is one fault:
whether it is appended or an On event is taken out, and whether the new On event falls into the
simulation or not, afterwards the events have the host off when they had, or during the new outage.

`PlayInv` says how the play goes on: for each host and VM, what it is now and the events to come together
put it off exactly during its outages from now on (`WillBeOff`); the events are in the order of
time, none is in the past, no two about one host or VM are at one time, and those of a VM do in turn the
contrary of the one before (`InTurn`), which is why no event meets a VM in the wrong state.  Playing an event
keeps the first (`PlayedLeft`) and the last (`PlayedInTurn`); the merge establishes them from the
three queues, a VM having no faults and a host no suspensions (`NamesAssumption`).

*What the proof corrected.*  `WholeSeconds` had only asked for whole seconds of what is drawn.
`RoundedAgrees` could not be applied to the On events, which come one `CrashDuration` later; with
outages of 5/4 s TLC finds a host that is turned on before an event of a VM that was due earlier.  The code
has no such outages, `getCrashDuration` returns an `int`, and the property now says so.

`FaultsInv` and `PlayInv` were checked by TLC on the instance of `queues` before they were proved.

## 7. DVMS

`Dvms.tla` models `DvmsActor` as `DVMSProcess` runs it, one per node.  A host that finds itself
overloaded (`OverloadingDetected`) makes a partition of itself and sends it, as an *ISP*, to a node
outside.  A free node asks the initiator whether the partition still exists (`IspWhenFree`), joins it
as its new leader, tells all members (`Join`) and starts a *plan application process* (`StartPlan`).
That process computes and applies a plan for the members (`Compute`, `Computed`); if there is one, it
announces the partition as finished, twice, and dissolves it (`Confirm`, `DissolveOthers`,
`DissolveSelf`); if not, the ISP goes to a further node (`NoSolution`, `Transmit`).  A booked node
passes an ISP on (`Forward`); back at its initiator it blocks the partition (`IspBack`); two blocked
ones are merged or dissolved (`Merge`, `Merged`, `DissolveBlocked`).  A member that has heard nothing
for 4.5 s gives the partition up (`CheckTimeout`).

State and code:

* `current[n]` is `DvmsActor.currentPartition`; a partition is the record of `DvmsModel`, with its
  leader, initiator, list of nodes, state, id and version.
* `inbox[n]` is the mailbox.  Each request carries the process that waits for its reply (its reply
  box), or `Nobody` when it was sent and not asked.
* `proc` says where each process is.  A server (`<<n, 0>>`) or a plan (`<<n, k>>`) only lets time pass
  inside `ask`, so its state is which loop it is in, what it still has to ask of whom, and whether the
  answer has come.  Each action goes from one `ask` to the next.  `AskAll` is the loop over the
  members that five places of the code share.
* A plan uses `currentPartition` of its node at each moment, while the server goes on; if the node has
  no partition any more, `Option.get` raises an exception: `Fail`.  In the server the loop of
  `DVMSProcess` catches it and sends no reply: `NobodyOut`.
* `snoozed[n]` stands for the snoozer of n: the nodes whose timeout it refreshes every two seconds
  while a plan is computed and applied.  Two plans of one node share it, as in the code.
* Whether an agent's own VMs are migrating (`isPerformingMigrations`), what the computation finds and
  which node `SimpleOverlay` draws are free choices.

`Partitions.tla` is the abstract specification: nodes are reserved in two phases, as locks are.  An open
partition takes nodes one by one and lets none go; a closed one lets them go and takes none; while a
plan is under way the partition stays as it is, and no node is in two.  Plans therefore
behave as if one had been carried out after the other.  The refinement mapping knows only identifiers and
nodes.  `Members` is who has the partition in `currentPartition`, whatever version; `Open` holds those whose
ISP is under way, or with which a process still decides how to go on (`Holding`); `InPlan` those whose
plan is being computed and applied.  The property is `ReservesInTwoPhases`.  The versions, loops and messages by
which the agents come to agree do not appear in it: what it leaves open is whether the order of these
messages lets a node into a partition, or out of it, at the wrong moment.

*Timeouts and `Prompt`.*  The code has no clock of its own beside SimGrid's.  A message takes
milliseconds, the computation and application of a plan seconds to minutes, the timeout 4.5 s.  With
`Prompt = TRUE`, a timeout is therefore reached only when every process is computing a plan or
waiting for an answer nobody is about to give (`Quiet`).  With `Prompt = FALSE` it may be reached at
any moment when nothing is being computed for the node.

### Runs

| run | instance | question |
|---|---|---|
| `dvms_prompt` | 3 nodes, 3 partitions, 2 plans per node, 3 timeouts, prompt | plans are disjoint, lead and hold their members, versions agree, no circular wait, members distinct; `Partitions` is implemented |
| `dvms_late` | 3 nodes, 4 identifiers, partitions of at least 3 nodes, 1 plan, 1 timeout, not prompt | members belong to their partition, every request has one process that awaits it, booked nodes keep their partition; blocked partitions meet and are merged |
| `dvms_live` | 3 nodes, 2 partitions, prompt, fairness, no symmetry | every node leaves its partition |

*Bounds.*  `Ids` bounds how many partitions are started, `MaxPlans` the plans a node runs at once,
`MaxTimeouts` the timeouts.  Two plans at once occur because a plan may wait for ever for a reply
(`NobodyOut`).  Three nodes let two partitions compete for the third.  With four
nodes, two partitions of at least three nodes and two timeouts, TLC finds the same properties to hold
(change the constants of `MCDvms_prompt.cfg`).  In `dvms_late` the fourth identifier is the one a
merge draws.  In `dvms_live` `MaxTimeouts` is the number of nodes times that of
partitions, which no behaviour exceeds.  The runs say `CHECK_DEADLOCK FALSE`: once the identifiers
are used up and every partition has ended, nothing is left to do.

*Fairness.*  SimGrid runs every process that can go on, which gives weak fairness of the servers and
of the plans; `TimeoutCheckerProcess` asks every second, which gives it for `CheckTimeout`.  Only
`Forward` needs more: an ISP that no node takes is drawn at random again and again, and in the end
reaches every node outside the partition.

*What depends on promptness.*  `TypeOK`, `MembersStay`, `RepliesAreAwaited` and
`BookedNodesKeepTheirPartition` hold whatever the timing.  An update that arrives after the partition was dissolved
books a free node for it again; TLC finds that `PartitionsEnd` holds then too, with two nodes and two
identifiers (`Prompt = FALSE` and `MaxTimeouts = 10`, which no behaviour reaches, in
`MCDvms_live.cfg`); with three nodes the graph is too large for a liveness check.  The properties of `dvms_prompt` do not: with
`Prompt = FALSE` in `MCDvms_prompt.cfg`, a single timeout is enough for each to fail - a member gives
the partition up while the leader goes on, is booked by another one, and a plan ends up applied to
nodes of two, or a node is twice in one partition, because it joins one that lists it already or because
two that overlap are merged.  A server may then even ask itself, and wait for ever.  The code nowhere claims to
withstand such delays, so these are no findings.  `BlockedIspsStay` says that, as long as messages
are prompt, `mergeWithThisPartition` is never called; it is proved, and TLC checks
instead that no closed partition takes a node (`ReservesInTwoPhases`).

### Proofs

`DvmsProofs.tla`, for any sets of nodes and identifiers, any bounds and minimum size, prompt or not:

| theorem | property |
|---|---|
| `TypeCorrect` | `TypeOK` |
| `PartitionsAreKept` | `BookedNodesKeepTheirPartition` |
| `MembersCorrect` | `MembersStay` |
| `RepliesCorrect` | `RepliesAreAwaited` |

`TypeCorrect` rests on lemmas about the operators the actions share (`SentAllType`, `AskAllType`,
`UpdateAllType`, `RepliedType`...), then has one lemma per action.  `PartitionsAreKept` needs one more
invariant: `ValidatingIsFree`, a node whose server waits for the answer of an initiator is in no
partition.  `Join` does not check that again, so the property is about what may happen in between:
the server handles no message (`ServerFrame`: other nodes' steps leave this one alone), and a plan
only changes a partition that its node has (`PlanFrame`).  The rest of the argument is that versions
only grow (`ChangedType`, `Updated`) and that a merge draws an identifier not used before.

`MembersStay` is about the partitions nodes are in, which they take from messages that may be long out
of date.  `MembersInv` therefore says of every partition in a mailbox, or kept by a process that waits,
what the property says of `current`: it is `Sound` - its leader is its first node, its initiator one of
them.  A message that sets a partition only goes to members of it (`GoodMessage`); a loop over the
members only asks members of what it sends (`GoodProcess`).  The loop of a merge reads
`currentPartition` again for each member, and a plan may replace it meanwhile; `MergeCovered` says that
what is left of the loop stays within the current one, because plans never change the nodes.

`RepliesAreAwaited` is proved from `Awaited`, stated of any mailboxes and processes so that the lemmas
can speak of the intermediate states within an action (a message is taken, a reply given, a request
sent).  A process that waits has one request out, in a mailbox (`MailAwaited`) or kept by the server
that took it (`HeldAwaited`); one that does not wait has none (`Free`).  `FreeChange` says that a
process without a request may go to any state, `RequestMail` and `AskAllAwaited` that it may send one,
`ServerReplies` that a reply makes the client free again; `HeldClient` that the client of a server that
itself asks others is still waiting for it.

`DvmsPromptProofs.tla`, which extends it, for any sets and bounds too but with `Prompt` assumed in
each theorem:

| theorem | property |
|---|---|
| `PlansShareNoNode` | `PlansAreDisjoint` |
| `PlansKeepTheirMembers` | `PlanHoldsItsMembers` |
| `PlansLead` | `PlanLeadsItsPartition` |
| `VersionsCorrect` | `VersionsAgree` |
| `NoServersWaitInACircle` | `NoCircularWait` |
| `MembersAreOnce` | `MembersAreDistinct` |
| `BlockedStay` | `BlockedIspsStay` |
| `PartitionsAreReserved` | `ReservesInTwoPhases` |

None of the invariants is inductive; all follow from one, `PromptState`, which is the invariants above
(`TypeOK`, `ValidatingIsFree`, `MembersInv`, `Awaited`) and `PromptInv`:

* `Followed`: a partition is in one place.  It is `Loose` - no ISP carries it and no process works on it,
  those of its nodes that still have it agree - or `Mailed` - one ISP carries it, it is growing, and
  exactly its members have the version the ISP carries - or `Held` by one process, which no ISP
  competes with.  The process that holds it knows what it has (`HeldBy`): while it validates, starts or
  computes, exactly the members have it (`Whole`); while it tells them one by one, those told have its version and the
  others all one older version (`Spread`); while it dissolves, those still to be told have it, perhaps.
* `Fresh`: an identifier not drawn yet is nowhere.
* `Requested`: each request in a mailbox is what the state of the process that sent it calls for
  (`GoodRequest`), a process that waits has its request in the mailbox of the node it asks, and a server that
  works on an ISP of a plan has that plan waiting in `transmitting`.
* `Kinds` and `Planned`: what servers do and what plan processes do, and that timeouts are snoozed
  for the members of the partition computed and for no other.

`Prompt` is used in one place, where a partition times out: `QuietIsSilent` shows that then no message and no
loop is under way, so that its partition is loose (`TimeoutIsLoose`) or being computed, and one that is
being computed is snoozed (`Planned`).  `RequestedNext`, `FollowedNext`, `KindsNext` and `DistinctNext`
prove one part of the invariant each, from one lemma per action; `SameFollowed` settles, in a step
about one identifier, all the others at once.
`NoServersWaitInACircle` is stronger than its property: the server asked is idle (`AskedServerIsIdle`).
`PromptInv` was checked by TLC on the instance of `dvms_prompt`, and on one of four nodes, before it was
proved.

`PartitionsAreReserved` is the refinement: in a state of `PromptState` every step of the agents is a
step of `Partitions` or changes nothing there.  The same lemmas, one per action, that preserve
`Followed` also give `OneAtATime`: a step touches one identifier at most, and leaves the members and the
process or ISP of any other as they are (`Untouched`, `OnePartition`).  For the one it touches,
`MembersStayed` covers the steps that change no members and open nothing (a plan begins or ends, the
partition closes), and `QuietStep` those in which processes only move on within the loops.
Members change in three places.  A server accepts an ISP: the partition is held by the server that asked
its initiator, so that it is open and no plan of it is under way.  An agent starts a
partition with an identifier not drawn yet (`Fresh`).  A node gives its partition up (`NodeLeaves`): its plan dissolves it, or it is
told so, or its timeout is reached; each time the invariant says that no ISP and no other process has the
partition, that is, that it is closed.

Only model-checked: `PartitionsEnd`, a liveness property.

## 8. Snooze

`SnoozeJoin.tla` follows the local controllers: how each finds the leader, is assigned a manager, joins it
and is recorded, how heartbeats reach it, and how it finds out that its manager is gone.

* A controller has two processes: `main` joins and then reads the mailbox `lcInbox`; `charge` sends the
  charge of the host and joins again when the manager is dead.  Both read replies from one mailbox,
  `joinMBox`, and tell the three kinds of replies apart by their class only (`Receive`, `Failed`).
* `record` is what `Multicast` knows of a controller, `lcInfo` what each manager does, `lcsJoined` the
  table of `LocalController` objects in `Test` through which beats are delivered.  `life` counts
  the objects a host has had: a restart makes a new one.
* `Beaten` is what the beats need to arrive: the manager runs and lists the controller, `Multicast` has
  recorded it with that manager, and `lcsJoined` holds the current object.
* A time limit expires (`Timeout`) when the reply is not on its way, or is one of the `late`
  messages that the bounds allow.  `TermGMMsg` is read before the beats fail, unless it is late.
* Messages to and from a node that has failed are lost.  The thread pools of a manager and of a leader
  outlive their main process, which is why a stopped one still answers.  `deadLCs` does not remove a
  controller stored by a join that is under way: three tries of a second end before the heartbeat timeout.
* An election is one step (`Elect`); which manager the leader assigns is any.

| run | instance | question |
|---|---|---|
| `snooze_join` | 3 service nodes; one controller with a restart and a failed node, or with a late message and a failed node; two controllers of which one restarts, without failed nodes | unless a message is late or a manager that lists it is promoted, one process of a controller joins at a time and replies answer what was asked; a controller that sends its charge is listed, and it settles in the end |

*Bounds.*  `Bounds` gives each behaviour its controllers, failures, restarts and late messages; the run
takes the three combinations above.  Three service nodes are a leader, the manager that fails or is
promoted, and one that takes over.  Two controllers with a late message or a failed node are too many states for the run; what
was to be proved has been checked there on its own, see below.

*Fairness.*  Processes run, requests are answered, beats are relayed, charges sent, elections held: weak fairness.
The two processes of a controller may compete for the messages of `lcInbox`; SimGrid serves the
receivers of a mailbox in their order, which is the strong fairness of `GetGL`.  Nothing has to fail.

`Joins` names four conditions that must hold from some time on for a controller to settle; TLC refutes the property without any one of them:

* *a leader is up*: managers look for a dead leader only after a message, so that if no manager has a
  controller nobody misses it;
* `InStep`: one reply left over in `joinMBox` makes every later answer one late, for ever;
* `Alone`: after a late message, or the promotion of a manager that lists it, both processes may join and
  take each other's replies;
* `Known`: `putJoinedLC` keeps the object of an entry that is already there; after a restart the beats go to
  the old object.

A controller that restarts and joins another manager also stays in the list of its first one
for ever, if that has no other controller: `deadLCs` runs after a message only.

*What a promoted manager does.*  `OneJoin` and `AnswersMatch` are about controllers that no promoted
manager lists (`Dismissed`).  Without that condition they fail: a controller whose
beats do not arrive, as after a restart, joins again in its charge process although its manager runs and
lists it; if that manager is promoted meanwhile, its `TermGMMsg` makes `main` join too, without
looking whether the other process does.  `gmDead` looks
(`joining`), `handleTermGM` does not.  This takes two controllers, a failed node and a restart, more
than the run has; it was found by trying to prove the properties, the preservation by `MainReads` being what
failed.  `JoinedIsListed` is about a controller that sends its charge: while a join is under
way, a manager that is about to forget the controller may take it off `lcsJoined` after it was put
there, and with two controllers, a failed node and a late message this happens.

### Proofs

`SnoozeJoinProofs.tla`, for any nodes, controllers, failures, restarts and late messages:

| theorem | property |
|---|---|
| `TypeCorrect` | `TypeOK` |
| `ListedWhileCharging` | `JoinedIsListed` |
| `OneJoinAtATime` | `OneJoin` |
| `RepliesComeFromTheOneAsked` | `AnswersMatch` |

`ListedWhileCharging` is proved from `EntriesKept`, which is the property and that an entry with managers has an
object.  The step that matters is `Charge`: `deadLCs` takes controllers off the table, but with the
manager's own name only, and not those that send it their charge.

The other two are proved from `CalmInv`, which says of a controller no promoted manager lists, while no
message was late: at most one of its processes joins, with `joining` raised, and no `TermGMMsg` is in its mailbox
(`OneProcess`); and at most one message is on its way, a request that will have a reply or a reply,
to or from the one that the process asked (`OneMessage`).  `CalmBefore` says that both conditions, once
lost, stay lost, because a promoted manager stays one and does not clear its list: so `CalmInv` need
only be kept by steps that begin in it.  A process gives up waiting only when no reply is on its way - a node
failed - or counts a late message; `RestartCalm` is about what the killed process leaves behind.  `CalmInv`
was checked by TLC on some fifteen million states, with two controllers and failed nodes, before it was proved.

Only model-checked: `Joins`, a liveness property.

## 9. Only model-checked

* Liveness: `PostponedResolved`, `LoopEnds`, `PartitionsEnd`, `Joins`.

Every other property that a passing run checks is also a theorem.

## 10. Not modelled

* The JavaScript under `docs/` (CodeMirror, a vendored editor, and its language modes): it shows code
  on the documentation pages and has no part in the simulator, which is written in Java and Scala under
  `src/main`.  All definitions are mapped there.
* Snooze: the rounds of an election, the scheduling loop of the managers, the monitoring.
* DVMS: agents whose host stops, messages nobody sends, the locality-based variant, the resolver that
  starts the processes, the core process of the snoozer (there is no clock in `Dvms`, and a refresh that
  is due arrives before the timeout).
* `ExampleReconfigurationPlanner`, a template for planners.
* Trace (but for the violations), configuration, entry points, the standalone experiments and the
  logging actor: input and output, without behaviour of interest.
