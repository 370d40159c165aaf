-------------------------- MODULE MCInfrastructure --------------------------
(***************************************************************************)
(* Infrastructure on a few hosts and VMs.  Loads are in units of the mean  *)
(* load of a VM; a host of capacity 2 takes two VMs at that load, and is   *)
(* overloaded as soon as one of them doubles its demand.                   *)
(***************************************************************************)
EXTENDS InfrastructureTrace, TLC

(* Neither hosts nor VMs are told apart by the code but for their names; no  *)
(* liveness property is checked under this symmetry.                         *)
Symmetric == Permutations(Hosts) \cup Permutations(VMs)

=============================================================================
