--------------------------- MODULE Reconfiguration ---------------------------
(***************************************************************************)
(* What a pass of a centralized scheduler promises to the rest of the      *)
(* simulator: a plan is read from a configuration in which nothing moves,  *)
(* its migrations start in one go, and the pass ends when all are over.    *)
(***************************************************************************)
CONSTANT VMs

VARIABLES
  stage,    (* what the scheduler does *)
  moving    (* the VMs that migrate    *)

Init == stage = "idle" /\ moving = {}

Begin == stage = "idle" /\ stage' = "launching" /\ UNCHANGED moving

Start(v) ==
  /\ stage = "launching"
  /\ v \notin moving
  /\ moving' = moving \cup {v}
  /\ UNCHANGED stage

Wait == stage = "launching" /\ stage' = "waiting" /\ UNCHANGED moving

(* Migrations end one by one, or together when a host stops. *)
Finish ==
  /\ stage = "waiting"
  /\ moving' \in SUBSET moving
  /\ UNCHANGED stage

Close == stage = "waiting" /\ moving = {} /\ stage' = "idle" /\ UNCHANGED moving

Retire == stage = "idle" /\ stage' = "over" /\ UNCHANGED moving

Next == Begin \/ (\E v \in VMs : Start(v)) \/ Wait \/ Finish \/ Close \/ Retire

Spec == Init /\ [][Next]_<<stage, moving>>

=============================================================================
