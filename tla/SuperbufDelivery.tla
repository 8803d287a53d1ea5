--------------------------- MODULE SuperbufDelivery ---------------------------
(***************************************************************************)
(* What a channel promises the HAL about the frames of its bundled         *)
(* streams: the HAL gets complete superbufs, one buffer of every stream    *)
(* with the same index, each at most once and in the order of their        *)
(* frames; a frame the channel does not hand over it gives back, and no    *)
(* frame the HAL holds is taken from it.                                   *)
(***************************************************************************)
EXTENDS Naturals

CONSTANTS Streams, MaxFrame

VARIABLES inside,  \* frames the channel holds
          given,   \* frames handed over and not yet returned
          newest   \* index of the newest superbuf handed over

dvars == <<inside, given, newest>>
Frames == Streams \X (1..MaxFrame)

DInit == inside = {} /\ given = {} /\ newest = 0

Arrive(b) == /\ b \notin inside \cup given
             /\ inside' = inside \cup {b}
             /\ UNCHANGED <<given, newest>>

\* The channel hands over the superbufs with the indices I and drops some frames.
Decide(I) ==
  /\ Streams \X I \subseteq inside
  /\ \A i \in I : i > newest
  /\ inside' \subseteq inside \ (Streams \X I)
  /\ given' = given \cup (Streams \X I)
  /\ newest' = IF I = {} THEN newest ELSE CHOOSE i \in I : \A j \in I : j <= i

TakeBack(b) == /\ b \in given
               /\ given' = given \ {b}
               /\ UNCHANGED <<inside, newest>>

DNext == \/ \E b \in Frames : Arrive(b) \/ TakeBack(b)
         \/ \E I \in SUBSET (1..MaxFrame) : Decide(I)

DSpec == DInit /\ [][DNext]_dvars
=============================================================================
