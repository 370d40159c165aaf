------------------------- MODULE InfrastructureTrace -------------------------
(***************************************************************************)
(* What the trace says of the violations, observed beside Infrastructure.  *)
(* A load that changes while its VM is paused by a migration is missed by  *)
(* the cached demand of its host, and so by the trace; calm remembers that *)
(* this has not happened.                                                  *)
(***************************************************************************)
EXTENDS Infrastructure

VARIABLE calm  (* no load has changed in the last, short phase of a migration *)

NoLoadChangeInPause ==
  \A v \in VMs : move[v].pc = "paused" => load'[v] = load[v]

CalmInit == Init /\ calm = TRUE
CalmNext == Next /\ calm' = (calm /\ NoLoadChangeInPause)

CalmSpec == CalmInit /\ [][CalmNext]_<<vars, calm>>

FairCalmSpec == CalmSpec /\ Fairness

(* As long as no load changes while its VM is paused by a migration, the     *)
(* trace shows a violation on a host exactly while its demand exceeds its    *)
(* capacity: updateVM, suspendVM, resumeVM and migrateVM each note a start   *)
(* or an end from a before and an after of their own.                        *)
TraceExactWhenCalm == calm => TraceExact

=============================================================================
