------------------------- MODULE MCHalStateMachine -------------------------
(* Instances of HalStateMachine for TLC. *)
EXTENDS HalStateMachine

Plain == [zsl |-> FALSE, hint |-> FALSE, restart |-> FALSE]
Modes == {Plain, [Plain EXCEPT !.zsl = TRUE], [Plain EXCEPT !.hint = TRUE],
          [Plain EXCEPT !.restart = TRUE]}

\* All that an application calls for pictures and films.
AllCalls == ApiEvents \ {"OTHER", "STOP_CAPTURE_CHANNEL", "REG_FACE"}

\* One whose bursts are at worst abandoned by the deferred worker, and one whose
\* channels and live snapshots fail and whose pictures are single captures.
TwoDevices ==
  {[faults |-> {"pproc"}, single |-> FALSE],
   [faults |-> {"add", "start", "live"}, single |-> TRUE]}
=============================================================================
