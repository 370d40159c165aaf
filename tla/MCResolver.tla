------------------------------ MODULE MCResolver ------------------------------
(* Resolver on a few hosts and VMs, with every planner and every kind of     *)
(* event.                                                                    *)
EXTENDS Resolver

=============================================================================
