------------------------------ MODULE MCFirstFit ------------------------------
(***************************************************************************)
(* FirstFit on identical hosts, as SimulatorManager.initHosts makes them.  *)
(***************************************************************************)
EXTENDS FirstFit

=============================================================================
