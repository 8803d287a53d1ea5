------------------------- MODULE MCAgpsStateMachine -------------------------
(* Instances of AgpsStateMachine for TLC. *)
EXTENDS AgpsStateMachine

CONSTANTS c1, c2

TwoClients == {c1, c2}
=============================================================================
