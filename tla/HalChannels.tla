---------------------------- MODULE HalChannels ----------------------------
(***************************************************************************)
(* The channel table of the camera HAL (m_channels of QCamera2HWI.cpp) and *)
(* the functions that the state machine calls to change it.  A channel is  *)
(* absent ("none"), created ("added"), streaming ("active"), or an object  *)
(* whose backend channel was deleted under it ("gone").                    *)
(*                                                                         *)
(* A function that can fail is the set of its outcomes: a code and the     *)
(* table it leaves.  Which steps may fail depends on the device.           *)
(***************************************************************************)
VARIABLE
  device   \* faults: the steps that may fail on it ("add", "addCapture", "start",
           \* "pproc", "advanced", "live"); single: its pictures are single
           \* snapshots, not bursts.  It stays the same.

Channels == {"ZSL", "PREVIEW", "VIDEO", "SNAPSHOT", "CAPTURE", "RAW"}
ChannelStates == {"none", "added", "active", "gone"}

NoChannel == [t \in Channels |-> "none"]

Result(rc, ch) == [rc |-> rc, ch |-> ch]
Fails(f, ch) == IF f \in device.faults THEN {Result("fail", ch)} ELSE {}

\* Goes on with F after the outcomes that are not failures; undoes with G after
\* those that are.
Then(R, F(_)) == UNION {IF r.rc = "ok" THEN F(r.ch) ELSE {r} : r \in R}
OnFailure(R, G(_)) ==
  {IF r.rc = "fail" THEN Result("fail", G(r.ch)) ELSE r : r \in R}
-----------------------------------------------------------------------------
(* One channel. *)

\* delChannel of every channel of T; the destructor stops a channel first.
Del(ch, T) == [t \in Channels |-> IF t \in T THEN "none" ELSE ch[t]]

\* delChannel without destroy: only the backend channel goes away.
Hollow(ch, t) == IF ch[t] = "none" THEN ch ELSE [ch EXCEPT ![t] = "gone"]

Stop(ch, T) ==
  [t \in Channels |-> IF t \in T /\ ch[t] = "active" THEN "added" ELSE ch[t]]

\* addPreviewChannel keeps an existing channel; the others replace theirs, and
\* addZSLChannel the preview channel too.
Replaces(t) == IF t = "ZSL" THEN {"ZSL", "PREVIEW"} ELSE {t}
Add(ch, t) ==
  IF t = "PREVIEW" /\ ch[t] # "none" THEN {Result("ok", ch)}
  ELSE LET c == Del(ch, Replaces(t))
       IN {Result("ok", [c EXCEPT ![t] = "added"])}
            \cup Fails(IF t = "CAPTURE" THEN "addCapture" ELSE "add", c)

Start(ch, t) ==
  IF ch[t] \in {"none", "gone"} THEN {Result("fail", ch)}
  ELSE {Result("ok", [ch EXCEPT ![t] = "active"])} \cup Fails("start", ch)
-----------------------------------------------------------------------------
(* Preview and recording. *)

PreviewChannel(zsl, hint) == IF zsl /\ ~hint THEN "ZSL" ELSE "PREVIEW"

PreparePreview(ch, zsl, hint) ==
  IF hint
  THEN Then(Add(ch, "SNAPSHOT"), LAMBDA c :
         OnFailure(Then(Add(c, "VIDEO"), LAMBDA d : Add(d, "PREVIEW")),
                   LAMBDA d : Del(d, {"SNAPSHOT", "VIDEO"})))
  ELSE Add(ch, PreviewChannel(zsl, hint))

StartPreview(ch, zsl, hint) == Start(ch, PreviewChannel(zsl, hint))

Unprepare(ch) == Del(ch, {"ZSL", "PREVIEW", "VIDEO", "SNAPSHOT"})

StopPreview(ch) == Unprepare(Stop(ch, {"ZSL", "PREVIEW"}))

\* Mutated form of BeginPreview: a preview that cannot start stays prepared.
BeginPreviewKeeps(ch, zsl, hint) ==
  Then(PreparePreview(ch, zsl, hint), LAMBDA c : StartPreview(c, zsl, hint))

\* What the state machine does to begin a preview: prepares it, starts it and
\* takes the preparation back when the start fails.
BeginPreview(ch, zsl, hint) ==
  Then(PreparePreview(ch, zsl, hint), LAMBDA c :
       OnFailure(StartPreview(c, zsl, hint), Unprepare))

\* Mutated form of StartRecording: the preview is not started again.
StartRecordingAlone(ch, hint) ==
  IF hint THEN Start(ch, "VIDEO")
  ELSE Then(PreparePreview(StopPreview(ch), FALSE, TRUE), LAMBDA c : Start(c, "VIDEO"))

\* Without the recording hint the preview is torn down and set up again for video.
StartRecording(ch, hint) ==
  IF hint THEN Start(ch, "VIDEO")
  ELSE Then(Then(PreparePreview(StopPreview(ch), FALSE, TRUE),
                 LAMBDA c : Start(c, "PREVIEW")),
            LAMBDA c : Start(c, "VIDEO"))
-----------------------------------------------------------------------------
(* Pictures. *)

\* takePicture in ZSL mode: the channel exists and the post-processor starts; a
\* bracketing step that fails leaves it running.
TakeZsl(ch) ==
  IF ch["ZSL"] = "none" THEN {Result("fail", ch)}
  ELSE {Result("ok", ch)} \cup Fails("pproc", ch) \cup Fails("advanced", ch)

\* A capture channel that cannot be added leaves a deferred allocation without a
\* channel, which its thread never marks as done: takePicture waits for ever.
AddCapture(ch, longshot) ==
  {IF r.rc = "ok" \/ longshot THEN r ELSE Result("hang", r.ch) : r \in Add(ch, "CAPTURE")}

\* takePicture of a JPEG or YUV picture: the preview channel is replaced.  A
\* failing bracketing step leaves the capture channel running.
TakeCapture(ch, longshot) ==
  Then(Then(AddCapture(Del(ch, {"PREVIEW"}), longshot), LAMBDA c :
            OnFailure(Start(c, "CAPTURE"), LAMBDA d : Del(d, {"CAPTURE"}))),
       LAMBDA c : {Result("ok", c)} \cup Fails("advanced", c))

\* takePicture of a raw picture.
TakeRaw(ch) ==
  Then(Add(Del(ch, {"PREVIEW"}), "RAW"), LAMBDA c :
       OnFailure(Start(c, "RAW") \cup Fails("pproc", c), LAMBDA d : Del(d, {"RAW"})))

\* What cancelPicture does to the channels: in ZSL mode the request is withdrawn,
\* otherwise the channel of the picture goes away.
EndPicture(ch, zsl, raw) ==
  IF zsl THEN ch ELSE Del(ch, {IF raw THEN "RAW" ELSE "CAPTURE"})

\* stopCaptureChannel; a raw picture keeps its channel.
StopCapture(ch, raw, destroy) ==
  IF raw THEN ch
  ELSE IF destroy THEN Hollow(ch, "CAPTURE") ELSE Stop(ch, {"CAPTURE"})
=============================================================================
