------------------------------ MODULE MCMsgTask ------------------------------
(* A message task and three messages. *)
EXTENDS MsgTask, TLC

CONSTANTS m1, m2, m3

ThreeMsgs == {m1, m2, m3}
=============================================================================
