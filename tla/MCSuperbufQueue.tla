--------------------------- MODULE MCSuperbufQueue ---------------------------
(***************************************************************************)
(* Instances of SuperbufQueue for TLC.                                     *)
(***************************************************************************)
EXTENDS SuperbufQueue

Plain == [valid |-> TRUE, prep |-> "none", good |-> 0, crop1x |-> FALSE]

\* Metadata that only says whether it is valid.
MetaPlain == {Plain, [Plain EXCEPT !.valid = FALSE]}

\* Metadata of a capture: a future frame is needed (at a crop that is 1x) or
\* not, or the range of good frames comes.
MetaCapture == {Plain, [Plain EXCEPT !.prep = "need", !.crop1x = TRUE],
                [Plain EXCEPT !.prep = "dontneed"], [Plain EXCEPT !.good = 1]}

Counts == {[type |-> "REQ", n |-> 0], [type |-> "REQ", n |-> 2]}
Flushes == {[type |-> "FLUSH", idx |-> 0]}
Modes == [type : {"NOTIFY"}, mode : {"BURST", "CONTINUOUS"}]
\* Bracketing is only started: a cancelled request ends it too.
Brackets == [type : {"BRACKETING"}, start : {TRUE}]
Waits == [type : {"FLASH", "ZOOM"}, start : {TRUE}]

\* The streams other than the metadata stream are interchangeable.
StreamSymmetry == Permutations(Streams \ {MetaStream})

RequestsMatching == Counts \cup Flushes \cup Modes
RequestsCapture == Counts \cup Brackets \cup Waits
=============================================================================
