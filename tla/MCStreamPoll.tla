----------------------------- MODULE MCStreamPoll -----------------------------
(* Instances of StreamPoll for TLC. *)
EXTENDS StreamPoll

CONSTANTS b1, b2, b3, b4

ThreeBufs == {b1, b2, b3}
FourBufs == {b1, b2, b3, b4}
LastBuf == {b4}
=============================================================================
