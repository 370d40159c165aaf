------------------------------- MODULE MCDvms -------------------------------
(* Small instances of Dvms for TLC. *)
EXTENDS Dvms, TLC

(* Nodes and identifiers are interchangeable. *)
Symmetric == Permutations(Nodes) \cup Permutations(Ids)

=============================================================================
