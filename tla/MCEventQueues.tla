----------------------------- MODULE MCEventQueues -----------------------------
(* EventQueues with a few draws on two hosts, which are the service nodes of *)
(* Snooze, and one VM.                                                       *)
EXTENDS EventQueues

CONSTANTS h1, h2

OneService  == <<h1>>
TwoServices == <<h1, h2>>

=============================================================================
