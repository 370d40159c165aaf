---------------------------- MODULE MCSnoozeJoin ----------------------------
(* Small instances of SnoozeJoin: a controller alone that comes back, or     *)
(* misses messages, while a service node fails; and two of them of which one *)
(* comes back.                                                               *)
EXTENDS SnoozeJoin

CONSTANTS l1, l2

RestartBound == [lcs |-> {l1}, crashes |-> 0, restarts |-> 1, late |-> 0]

FaultBounds == {[RestartBound EXCEPT !.crashes = 1],
                [RestartBound EXCEPT !.crashes = 1, !.restarts = 0, !.late = 1],
                [RestartBound EXCEPT !.lcs = {l1, l2}]}

=============================================================================
