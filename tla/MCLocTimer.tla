------------------------------ MODULE MCLocTimer ------------------------------
(* Instances of LocTimer for TLC. *)
EXTENDS LocTimer

CONSTANTS t1, t2

TwoTimers == {t1, t2}
=============================================================================
