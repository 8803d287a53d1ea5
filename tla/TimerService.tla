----------------------------- MODULE TimerService -----------------------------
(***************************************************************************)
(* What loc_timer_start and loc_timer_stop promise: a started timer is     *)
(* either cancelled or times out, never both, and one of them happens.     *)
(***************************************************************************)
CONSTANT Timers

VARIABLE outcome   \* outcome[t]: "none", "pending", "cancelled", "fired"

TInit == outcome = [t \in Timers |-> "none"]

Begin(t) == /\ outcome[t] = "none"
            /\ outcome' = [outcome EXCEPT ![t] = "pending"]

Resolve(t) == /\ outcome[t] = "pending"
              /\ \E o \in {"cancelled", "fired"} : outcome' = [outcome EXCEPT ![t] = o]

TNext == \E t \in Timers : Begin(t) \/ Resolve(t)

\* Never both ...
TSafe == TInit /\ [][TNext]_outcome

\* ... and one of them.
TSpec == TSafe /\ \A t \in Timers : WF_outcome(Resolve(t))
=============================================================================
