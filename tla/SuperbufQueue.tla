---------------------------- MODULE SuperbufQueue ----------------------------
(***************************************************************************)
(* The frame matching of a camera channel: the thread cmd_thread of        *)
(* mm_camera_channel.c takes buffers of the bundled streams and requests   *)
(* of the HAL from one command queue, groups the buffers of one frame in   *)
(* the superbuf queue, and hands matched superbufs to cb_thread, which     *)
(* calls the HAL.                                                          *)
(*                                                                         *)
(* One buffer is identified with the frame it carries, <<stream, index>>.  *)
(* Only cmd_thread touches the superbuf queue, so the processing of one    *)
(* command is one step; streams, HAL and cb_thread interleave with it.     *)
(***************************************************************************)
EXTENDS Integers, SequencesExt, FiniteSetsExt

CONSTANTS
  Streams,          \* the bundled streams
  MetaStream,       \* the metadata stream, if it is one of them
  MetaKinds,        \* what a metadata buffer may announce, see MetaKind
  NumBufs,          \* buffers registered per stream
  WaterMark, LookBack, PostFrameSkip, MaxUnmatched,  \* mm_camera_channel_attr_t
  FutureOffset,     \* max_future_frame_offset
  InitMode,         \* the notify mode the channel is configured with
  MallocCanFail,    \* whether malloc may return NULL
  Requests,         \* the API commands the HAL issues
  MaxFrame,         \* bound: last frame index the sensor delivers
  MaxCmds,          \* bound: length of the command queue
  MaxExpected       \* bound: cap of expected_frame_id

\* A metadata buffer: is_meta_valid, the prep_snapshot_done state, the distance
\* of good_frame_idx_range.min_frame_idx to this frame (0: no range), and
\* whether the crop of the snapshot stream is 1x.
MetaKind == [valid : BOOLEAN, prep : {"none", "need", "dontneed"},
             good : Nat, crop1x : BOOLEAN]

Request == [type : {"REQ"}, n : Nat]
             \cup [type : {"FLUSH"}, idx : Nat]
             \cup [type : {"NOTIFY"}, mode : {"BURST", "CONTINUOUS"}]
             \cup [type : {"BRACKETING", "FLASH", "ZOOM"}, start : BOOLEAN]

ASSUME ConstantsOK ==
  /\ Streams # {} /\ IsFiniteSet(Streams)
  /\ MetaKinds \subseteq MetaKind /\ MetaKinds # {}
  /\ NumBufs \in Nat \ {0}
  /\ {WaterMark, LookBack, PostFrameSkip, MaxUnmatched, FutureOffset} \subseteq Nat
  /\ InitMode \in {"BURST", "CONTINUOUS"}
  /\ MallocCanFail \in BOOLEAN
  /\ Requests \subseteq Request
  /\ {MaxFrame, MaxCmds, MaxExpected} \subseteq Nat

VARIABLES
  ch,        \* the state of the channel cmd_thread works on
  cmdQ,      \* cmd_thread.cmd_queue
  cbQ,       \* cb_thread.cmd_queue: superbufs on their way to the HAL
  held,      \* the frames the HAL holds
  free,      \* free[s]: buffers of s queued in the kernel
  last,      \* last[s]: index of the last frame s delivered
  lastSent   \* history: index of the last superbuf handed to cb_thread

vars == <<ch, cmdQ, cbQ, held, free, last, lastSent>>
-----------------------------------------------------------------------------
\* Nodes of the superbuf queue.  A slot whose frame_idx is 0 is empty; `have`
\* is the set of streams whose slot is filled (frame indices start at 1).
Node == [frame_idx : 1..MaxFrame, have : SUBSET Streams, matched : BOOLEAN]

BufsOf(node) == node.have \X {node.frame_idx}
BufsIn(q) == UNION {BufsOf(q[i]) : i \in DOMAIN q}
MatchedIn(q) == {i \in DOMAIN q : q[i].matched}

\* How many nodes at the head of q a matched-only dequeue can take in a row.
MatchedPrefix(q) ==
  Max({n \in 0..Len(q) : \A i \in 1..n : q[i].matched})

From(q, n) == SubSeq(q, n + 1, Len(q))

\* mm_channel_qbuf of the frames B: `done` collects what this command returns.
QBuf(c, B) == [c EXCEPT !.done = @ \cup B]

\* Mutated forms of DropHead: the buffers do not go back; match_cnt is not
\* decremented; it is decremented for unmatched nodes too.
DropHeadLeaks(c, n) ==
  [c EXCEPT !.queue = From(@, n),
            !.match_cnt = @ - Cardinality(MatchedIn(SubSeq(c.queue, 1, n)))]
DropHeadKeepsCount(c, n) ==
  QBuf([c EXCEPT !.queue = From(@, n)], BufsIn(SubSeq(c.queue, 1, n)))

\* n calls of mm_channel_superbuf_dequeue_internal, the buffers going back.
DropHead(c, n) ==
  LET gone == SubSeq(c.queue, 1, n)
  IN  QBuf([c EXCEPT !.queue = From(@, n),
                     !.match_cnt = @ - Cardinality(MatchedIn(gone))],
           BufsIn(gone))

Flush(c) == DropHead(c, Len(c.queue))
FlushMatched(c) == DropHead(c, MatchedPrefix(c.queue))

\* The loops `while (match_cnt > limit) dequeue a matched one`: a loop that
\* meets an unmatched head with match_cnt still above the limit never ends.
Trim(c, limit) ==
  LET excess == Max({0, c.match_cnt - limit})
      avail  == MatchedPrefix(c.queue)
  IN  IF c.notify_mode = "CONTINUOUS" THEN c
      ELSE [DropHead(c, Min({excess, avail})) EXCEPT !.spinning = @ \/ excess > avail]

Skip(c) == Trim(c, LookBack)
BufDoneOverflow(c) == Trim(c, WaterMark)

Cap(n) == Min({n, MaxExpected})
-----------------------------------------------------------------------------
BothValid(m) == m.prep # "none" /\ m.good > 0

\* mm_channel_handle_metadata for a metadata buffer m of frame f.
HandleMetadata(c, f, m) ==
  LET later(d) == [d EXCEPT !.expected = Cap(@ + FutureOffset)]
      prepared ==
        CASE m.prep = "need"     -> Flush([later(c) EXCEPT !.needLEDFlash = TRUE])
          [] m.prep = "dontneed" -> [c EXCEPT !.needLEDFlash = FALSE]
          [] m.prep = "none" /\ m.good = 0 /\ c.need3ABracketing -> later(FlushMatched(c))
          [] OTHER -> c
  IN  IF BothValid(m) THEN c
      ELSE IF c.isZoom1x /\ m.crop1x THEN [c EXCEPT !.isZoom1x = FALSE, !.expected = f + 1]
      ELSE IF c.isZoom1x THEN FlushMatched(later(c))
      ELSE IF m.good = 0 THEN prepared
      ELSE IF c.isFlashBracketing
           THEN [c EXCEPT !.expected = f + m.good, !.expectedNoLed = f + m.good + 1]
           ELSE [c EXCEPT !.expected = f + m.good, !.need3ABracketing = FALSE]

\* Mutated form of Complete: the loop over the slots leaves the last one out.
CompleteButOne(node) == Cardinality(node.have) + 1 >= Cardinality(Streams)

\* All slots of the node are filled.
Complete(node) == node.have = Streams

\* The node at pos receives the buffer of stream s; a complete one is matched
\* and the run of nodes from the oldest unmatched one up to it is released.
FillSlot(c, s, pos) ==
  LET q     == [c.queue EXCEPT ![pos].have = @ \cup {s}]
      older == {i \in 1..pos - 1 : ~q[i].matched /\ q[i].frame_idx < q[pos].frame_idx}
      first == Min(older \cup {pos})
  IN  IF ~Complete(q[pos]) THEN [c EXCEPT !.queue = q]
      ELSE QBuf([c EXCEPT
             !.queue = SubSeq(q, 1, first - 1)
                         \o <<[q[pos] EXCEPT !.matched = TRUE]>> \o From(q, pos),
             !.match_cnt = @ + 1,
             !.expected = IF c.isFlashBracketing THEN c.expectedNoLed
                          ELSE q[pos].frame_idx + PostFrameSkip,
             !.isFlashBracketing = FALSE], BufsIn(SubSeq(q, first, pos - 1)))

Unmatched(q) == DOMAIN q \ MatchedIn(q)
Older(q, f) == {i \in Unmatched(q) : q[i].frame_idx < f}
Newer(q, f) == {i \in Unmatched(q) : q[i].frame_idx > f}

\* Mutated form of InsertPlace: always at the tail.
InsertAtTail(q, f) == Len(q) + 1

\* In front of the first newer unmatched node, or at the tail.
InsertPlace(q, f) == IF Newer(q, f) = {} THEN Len(q) + 1 ELSE Min(Newer(q, f))

QueueFull(q) == MaxUnmatched < Cardinality(Unmatched(q))

\* Above max_unmatched_frames the oldest unmatched node makes place.
MakePlace(c, f) ==
  LET oldest == Min(Older(c.queue, f))
  IN  IF ~QueueFull(c.queue) THEN c
      ELSE QBuf([c EXCEPT !.queue = RemoveAt(@, oldest)], BufsOf(c.queue[oldest]))

\* The buffer of stream s opens a node for frame f; in a full queue a buffer
\* older than all unmatched ones is not queued.
OpenNode(c, s, f, allocated) ==
  LET d      == MakePlace(c, f)
      single == Cardinality(Streams) = 1
      node   == [frame_idx |-> f, have |-> {s}, matched |-> single]
  IN  IF QueueFull(c.queue) /\ Older(c.queue, f) = {} THEN QBuf(c, {<<s, f>>})
      ELSE IF ~allocated THEN QBuf(d, {<<s, f>>})
      ELSE [d EXCEPT !.queue = InsertAt(@, InsertPlace(@, f), node),
                     !.match_cnt = IF single THEN @ + 1 ELSE @,
                     !.expected = IF single THEN f + PostFrameSkip ELSE @]

\* mm_channel_superbuf_comp_and_enqueue.  A metadata buffer that announces both
\* kinds of range is neither queued nor given back.
CompAndEnqueue(c, b, allocated) ==
  LET s      == b.stream
      f      == b.idx
      isMeta == s = MetaStream
      d      == IF isMeta THEN HandleMetadata(c, f, b.meta) ELSE c
      same   == {i \in Unmatched(d.queue) : d.queue[i].frame_idx = f}
  IN  IF isMeta /\ BothValid(b.meta) THEN d
      ELSE IF (isMeta /\ ~b.meta.valid) \/ f < d.expected THEN QBuf(d, {<<s, f>>})
      ELSE IF same # {} THEN FillSlot(d, s, Min(same))
      ELSE OpenNode(d, s, f, allocated)
-----------------------------------------------------------------------------
\* Mutated form of ReqDataCb: a cancelled request leaves the flash on.
ReqDataCbKeepsFlash(c, n) ==
  LET d == Skip([c EXCEPT !.pending_cnt = n])
  IN  IF n > 0 /\ (d.needLEDFlash \/ d.need3ABracketing) /\ ~d.startZSl
      THEN [d EXCEPT !.startZSl = TRUE, !.needLEDFlash = FALSE] ELSE d

\* MM_CAMERA_CMD_TYPE_REQ_DATA_CB: the count overwrites the one still pending.
ReqDataCb(c, n) ==
  LET d == Skip([c EXCEPT !.pending_cnt = n])
  IN  CASE n > 0 /\ (d.needLEDFlash \/ d.need3ABracketing) /\ ~d.startZSl ->
             [d EXCEPT !.startZSl = TRUE, !.needLEDFlash = FALSE]
        [] n = 0 /\ d.startZSl ->
             [d EXCEPT !.startZSl = FALSE, !.needLEDFlash = FALSE,
                       !.need3ABracketing = FALSE]
        [] OTHER -> d

\* MM_CAMERA_CMD_TYPE_GENERAL
GeneralCmd(c, cmd) ==
  CASE cmd.type = "BRACKETING" -> [Flush(c) EXCEPT !.need3ABracketing = cmd.start]
    [] cmd.type = "FLASH"      -> [c EXCEPT !.isFlashBracketing = cmd.start]
    [] cmd.type = "ZOOM"       -> [c EXCEPT !.isZoom1x = cmd.start]

\* The part of mm_channel_process_stream_buf that depends on the command.
Handle(c, cmd, allocated) ==
  CASE cmd.type = "DATA"   -> CompAndEnqueue(c, cmd, allocated)
    [] cmd.type = "REQ"    -> ReqDataCb(c, cmd.n)
    [] cmd.type = "NOTIFY" -> [c EXCEPT !.notify_mode = cmd.mode]
    [] cmd.type = "FLUSH"  -> Flush([c EXCEPT !.expected = cmd.idx])
    [] OTHER               -> GeneralCmd(c, cmd)

\* Mutated form of DispatchCount: the last request is not served.
DispatchCountLate(c) ==
  IF c.notify_mode = "CONTINUOUS" THEN MatchedPrefix(c.queue)
  ELSE Min({MatchedPrefix(c.queue), Max({c.pending_cnt - 1, 0})})

\* How many matched superbufs the dispatch loop takes.
DispatchCount(c) ==
  IF c.notify_mode = "CONTINUOUS" THEN MatchedPrefix(c.queue)
  ELSE Min({MatchedPrefix(c.queue), c.pending_cnt})

\* The dispatch loop takes n superbufs; those in `lost` go back to the kernel
\* because the callback node could not be allocated.
Dispatch(c, n, lost) ==
  LET left == IF c.notify_mode = "BURST" THEN c.pending_cnt - n ELSE c.pending_cnt
      d    == [c EXCEPT !.queue = From(@, n), !.match_cnt = @ - n,
                        !.pending_cnt = left,
                        !.startZSl = @ /\ ~(c.notify_mode = "BURST" /\ n > 0 /\ left = 0)]
  IN  QBuf(d, BufsIn([i \in 1..n |-> IF i \in lost THEN c.queue[i]
                                     ELSE [c.queue[i] EXCEPT !.have = {}]]))

\* The elements of a set of numbers in ascending order.
Ascending(S) ==
  [i \in 1..Cardinality(S) |-> CHOOSE x \in S : Cardinality({y \in S : y <= x}) = i]

Superbufs(q) == [i \in DOMAIN q |-> [idx |-> q[i].frame_idx, have |-> q[i].have]]
-----------------------------------------------------------------------------
Init ==
  /\ ch = [queue |-> <<>>, match_cnt |-> 0, expected |-> 0, expectedNoLed |-> 0,
           pending_cnt |-> 0, notify_mode |-> InitMode, needLEDFlash |-> FALSE,
           need3ABracketing |-> FALSE, isFlashBracketing |-> FALSE,
           isZoom1x |-> FALSE, startZSl |-> FALSE, spinning |-> FALSE, done |-> {}]
  /\ cmdQ = <<>> /\ cbQ = <<>> /\ held = {}
  /\ free = [s \in Streams |-> NumBufs]
  /\ last = [s \in Streams |-> 0]
  /\ lastSent = 0

\* What a buffer of stream s may announce: only metadata buffers are read.
Announced(s) == IF s = MetaStream THEN MetaKinds ELSE {CHOOSE m \in MetaKinds : TRUE}

\* mm_stream_data_notify of stream s: the kernel fills a buffer with the next
\* frame (the sensor may have skipped some) and it is queued to cmd_thread.
StreamFrame(s) ==
  /\ free[s] > 0 /\ Len(cmdQ) < MaxCmds
  /\ \E f \in last[s] + 1..MaxFrame, m \in Announced(s) :
       /\ cmdQ' = Append(cmdQ, [type |-> "DATA", stream |-> s, idx |-> f, meta |-> m])
       /\ last' = [last EXCEPT ![s] = f]
  /\ free' = [free EXCEPT ![s] = @ - 1]
  /\ UNCHANGED <<ch, cbQ, held, lastSent>>

\* request_super_buf, cancel_super_buf_request (0), flush_super_buf_queue,
\* config_notify_mode and proc_general_cmd only queue a command.
ApiCommand(r) ==
  /\ Len(cmdQ) < MaxCmds
  /\ cmdQ' = Append(cmdQ, r)
  /\ UNCHANGED <<ch, cbQ, held, free, last, lastSent>>

GiveBack(B) == [s \in Streams |-> free[s] + Cardinality({b \in B : b[1] = s})]

\* cmd_thread processes the command at the head of its queue; after a flush it
\* returns at once.
ProcessStreamBuf ==
  /\ cmdQ # <<>> /\ ~ch.spinning
  /\ \E allocated \in {TRUE, ~MallocCanFail}, flush \in {Head(cmdQ).type = "FLUSH"} :
       LET c == IF flush THEN Handle(ch, Head(cmdQ), allocated)
                ELSE BufDoneOverflow(Handle(ch, Head(cmdQ), allocated))
           n == IF flush \/ c.spinning THEN 0 ELSE DispatchCount(c)
       IN  \E lost \in IF MallocCanFail THEN SUBSET (1..n) ELSE {{}} :
             LET sent == Ascending((1..n) \ lost)
                 d    == Dispatch(c, n, lost)
             IN  /\ ch' = [d EXCEPT !.done = {}]
                 /\ free' = GiveBack(d.done)
                 /\ cbQ' = cbQ \o Superbufs([i \in DOMAIN sent |-> c.queue[sent[i]]])
                 /\ lastSent' = IF lost = 1..n THEN lastSent
                                ELSE c.queue[Max((1..n) \ lost)].frame_idx
  /\ cmdQ' = Tail(cmdQ)
  /\ UNCHANGED <<held, last>>

\* cb_thread: mm_channel_dispatch_super_buf calls the HAL.
DispatchSuperBuf ==
  /\ cbQ # <<>>
  /\ held' = held \cup (Head(cbQ).have \X {Head(cbQ).idx})
  /\ cbQ' = Tail(cbQ)
  /\ UNCHANGED <<ch, cmdQ, free, last, lastSent>>

\* The HAL gives one buffer back (mm_channel_qbuf).
HalQBuf(b) ==
  /\ b \in held
  /\ held' = held \ {b}
  /\ free' = GiveBack({b})
  /\ UNCHANGED <<ch, cmdQ, cbQ, last, lastSent>>

Next ==
  \/ \E s \in Streams : StreamFrame(s)
  \/ \E r \in Requests : ApiCommand(r)
  \/ ProcessStreamBuf
  \/ DispatchSuperBuf
  \/ \E b \in held : HalQBuf(b)

Spec == Init /\ [][Next]_vars
-----------------------------------------------------------------------------
TypeOK ==
  /\ ch \in [queue : Seq(Node), match_cnt : Nat, expected : Nat, expectedNoLed : Nat,
             pending_cnt : Nat, notify_mode : {"BURST", "CONTINUOUS"},
             needLEDFlash : BOOLEAN, need3ABracketing : BOOLEAN,
             isFlashBracketing : BOOLEAN, isZoom1x : BOOLEAN, startZSl : BOOLEAN,
             spinning : BOOLEAN, done : {{}}]
  /\ Len(cmdQ) <= MaxCmds
  /\ held \subseteq Streams \X (1..MaxFrame)
  /\ free \in [Streams -> 0..NumBufs]
  /\ last \in [Streams -> 0..MaxFrame]
  /\ lastSent \in 0..MaxFrame

\* Where a frame that left the kernel can be: waiting for cmd_thread, in the
\* superbuf queue, on its way to the HAL, or with the HAL.
Queued == {<<cmdQ[i].stream, cmdQ[i].idx>> : i \in {j \in DOMAIN cmdQ : cmdQ[j].type = "DATA"}}
Sent == UNION {cbQ[i].have \X {cbQ[i].idx} : i \in DOMAIN cbQ}

\* No buffer is lost and none is given back twice: whatever way a frame takes
\* through matching, flushing, overflow and failed allocations, every buffer of
\* a stream is in the kernel or in exactly one of those places.
NoBufferLost ==
  /\ \A s \in Streams :
       free[s] + Cardinality({b \in Queued \cup BufsIn(ch.queue) \cup Sent \cup held : b[1] = s})
         = NumBufs
  /\ Queued \cap BufsIn(ch.queue) = {} /\ (Queued \cup BufsIn(ch.queue)) \cap Sent = {}
  /\ (Queued \cup BufsIn(ch.queue) \cup Sent) \cap held = {}

\* The superbuf queue keeps the order the loops over it rely on: matched nodes
\* come first, frame indices increase, and match_cnt counts the matched nodes
\* although three places change it.
QueueOrdered ==
  /\ TypeOK
  /\ \A i, j \in DOMAIN ch.queue : i < j =>
       /\ ch.queue[i].frame_idx < ch.queue[j].frame_idx
       /\ ch.queue[j].matched => ch.queue[i].matched
  /\ ch.match_cnt = Cardinality(MatchedIn(ch.queue))

\* The overflow and skip loops end: cmd_thread never spins with the lock of the
\* superbuf queue taken.
LoopsEnd == ~ch.spinning

\* Between commands no matched superbuf waits that a request or the continuous
\* mode is owed, and in burst mode no more than water_mark of them are kept.
NothingOwed ==
  /\ ch.pending_cnt > 0 \/ ch.notify_mode = "CONTINUOUS" => MatchedIn(ch.queue) = {}
  /\ ch.notify_mode = "BURST" => Cardinality(MatchedIn(ch.queue)) <= WaterMark

\* The snapshot flash that start_zsl_snapshot turned on is turned off with the
\* request it served, whichever way that request ends.
FlashOnlyForRequest == ch.startZSl => ch.pending_cnt > 0

\* Together the threads deliver what SuperbufDelivery promises the HAL, across
\* flushes, lowered frame ranges, overflow and failed allocations.
Delivery == INSTANCE SuperbufDelivery WITH
              inside <- Queued \cup BufsIn(ch.queue),
              given  <- Sent \cup held,
              newest <- lastSent
ImplementsDelivery == Delivery!DSpec
=============================================================================
