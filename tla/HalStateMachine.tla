-------------------------- MODULE HalStateMachine --------------------------
(***************************************************************************)
(* The state machine of the camera HAL: QCameraStateMachine.cpp with the   *)
(* functions of QCamera2HWI.cpp that it calls, and the three ways into it: *)
(* an API call waits for its result (lockAPI, processAPI, waitAPIResult),  *)
(* the callback thread waits for the end of a picture (processSyncEvt),    *)
(* and everybody else only leaves an event.                                *)
(*                                                                         *)
(* The thread takes API events before others, and handles one at a time;   *)
(* the result is posted with the last step of the handler.  A caller that  *)
(* was woken still has to take the lock back, and by then the thread may   *)
(* have posted the result of another event.                                *)
(***************************************************************************)
EXTENDS HalChannels, Naturals, Sequences, SequencesExt, FiniteSets

CONSTANTS
  Callers,      \* threads that call the HAL
  AppCalls,     \* the API events they use
  ParamChoices, \* the parameters they set: [zsl, hint, restart]
  Devices,      \* the devices it may run on
  Careful,      \* callers restart nothing during a picture, a film or a long shot,
                \* take long shots in ZSL mode only, and live snapshots outside it
  EarlyRestart, \* persist.camera.feature.restart
  MaxEvents     \* bound on the events that wait

States == {"PREVIEW_STOPPED", "PREVIEW_READY", "PREVIEWING", "PREPARE_SNAPSHOT",
           "PIC_TAKING", "RECORDING", "VIDEO_PIC_TAKING", "PREVIEW_PIC_TAKING"}
ApiEvents == {"OTHER", "SET_WINDOW", "CLEAR_WINDOW", "SET_PARAMS", "START_PREVIEW",
              "START_NODISPLAY_PREVIEW", "STOP_PREVIEW", "START_RECORDING",
              "STOP_RECORDING", "PREPARE_SNAPSHOT", "TAKE_PICTURE", "CANCEL_PICTURE",
              "LONGSHOT_ON", "LONGSHOT_OFF", "RELEASE", "STOP_CAPTURE_CHANNEL",
              "REG_FACE"}
AllFaults == {"add", "addCapture", "start", "pproc", "advanced", "live"}
Params == [zsl : BOOLEAN, hint : BOOLEAN, restart : BOOLEAN]

ASSUME HalAssumption ==
  /\ AppCalls \subseteq ApiEvents /\ ParamChoices \subseteq Params
  /\ Careful \in BOOLEAN /\ Devices \subseteq [faults : SUBSET AllFaults, single : BOOLEAN]
  /\ EarlyRestart \in BOOLEAN /\ MaxEvents \in Nat

VARIABLES
  m_state, thread,           \* thread: "runs", or "hangs" in a handler
  api_queue, evt_queue,
  waits, woken,              \* the event each caller waits for; those woken up
  m_apiResult,               \* event of the last result
  notifier, m_evtResult,     \* callback thread: "idle", "due", "waits"
  window, parm,              \* mPreviewWindow is set; the parameters
  m_channels,
  longshot, live,            \* mLongshotEnabled; the live snapshot thread
  pproc, reproc,             \* the post-processor runs; mReprocJob is outstanding
  armed                      \* its picture: "no", "job" to encode, "shot" to announce

sync == <<waits, woken, m_apiResult, notifier, m_evtResult>>
queues == <<api_queue, evt_queue>>
shot == <<longshot, live, pproc, armed, reproc>>
vars == <<device, m_state, thread, queues, sync, window, parm, m_channels, shot>>

NoEvent == "NONE"
NoParams == [zsl |-> FALSE, hint |-> FALSE, restart |-> FALSE]
Event(e, p) == [evt |-> e, parm |-> p]

Init ==
  /\ device \in Devices
  /\ m_state = "PREVIEW_STOPPED" /\ thread = "runs"
  /\ api_queue = <<>> /\ evt_queue = <<>>
  /\ waits = [c \in Callers |-> NoEvent] /\ woken = {} /\ m_apiResult = NoEvent
  /\ notifier = "idle" /\ m_evtResult = FALSE
  /\ window \in BOOLEAN
  /\ \E z, r \in BOOLEAN :
       parm = [zsl |-> z, zslNew |-> z, hint |-> FALSE, hintNew |-> FALSE,
               hintStr |-> FALSE, hintTmp |-> FALSE, raw |-> r]
  /\ m_channels = NoChannel
  /\ longshot = FALSE /\ live = "none"
  /\ pproc = FALSE /\ armed = "no" /\ reproc = FALSE

PicStates == {"PIC_TAKING", "VIDEO_PIC_TAKING", "PREVIEW_PIC_TAKING"}
IsCaptureRunning == m_state \in PicStates
-----------------------------------------------------------------------------
(* Parameters: a change is noted by updateParameters and takes effect when it is *)
(* committed.  The recording hint has two forms, the value in force and the text  *)
(* in the parameter map, which is what a new text is compared with.               *)

NeedRestart(p) ==
  \/ p.restart \/ p.zsl # parm.zslNew
  \/ p.hint # parm.hintStr /\ p.hint # parm.hint

Updated(p) ==
  [parm EXCEPT !.zslNew = p.zsl,
               !.hintNew = IF p.hint # parm.hintStr THEN p.hint ELSE @,
               !.hintTmp = @ \/ p.hint # parm.hintStr]

Committed(q) ==
  [q EXCEPT !.zsl = q.zslNew, !.hint = q.hintNew, !.hintTmp = FALSE,
            !.hintStr = IF q.hintTmp THEN q.hintNew ELSE @]
-----------------------------------------------------------------------------
(* Callers. *)

\* An entry point of camera_device_ops: processAPI under m_lock, then the wait,
\* which gives the lock up.
Call(c) ==
  /\ waits[c] = NoEvent
  /\ \E e \in AppCalls, p \in ParamChoices :
       /\ e # "SET_PARAMS" => p = CHOOSE q \in ParamChoices : TRUE
       /\ Careful /\ e = "SET_PARAMS" /\ (IsCaptureRunning \/ m_state = "RECORDING" \/ longshot)
            => ~NeedRestart(p)
       /\ Careful /\ e = "LONGSHOT_ON" => parm.zsl /\ ~parm.hint
       /\ Careful /\ e = "START_RECORDING" => ~longshot
       /\ Careful /\ e = "TAKE_PICTURE" => ~(parm.zsl /\ parm.hint)
       /\ e = "LONGSHOT_OFF" => longshot /\ Len(evt_queue) < MaxEvents
       /\ api_queue' = Append(api_queue, Event(e, IF e = "SET_PARAMS" THEN p ELSE NoParams))
       /\ waits' = [waits EXCEPT ![c] = e]
  /\ UNCHANGED <<device, m_state, thread, evt_queue, woken, m_apiResult, notifier, m_evtResult,
                 window, parm, m_channels, shot>>

\* waitAPIResult: back to sleep unless the last result is that of its own event.
Wake(c) ==
  /\ c \in woken
  /\ woken' = woken \ {c}
  /\ waits' = [waits EXCEPT ![c] = IF m_apiResult = @ THEN NoEvent ELSE @]
  /\ UNCHANGED <<device, m_state, thread, queues, m_apiResult, notifier, m_evtResult, window,
                 parm, m_channels, shot>>

\* Mutated form of SignalAPIResult: nobody is told when the state stays the same.
SignalAPIResultOnChange(e) ==
  /\ m_apiResult' = e
  /\ woken' = IF m_state' # m_state THEN {c \in Callers : waits[c] # NoEvent} ELSE woken
  /\ UNCHANGED <<waits, notifier, m_evtResult>>

\* signalAPIResult: the last result is replaced, and all that wait are woken.
SignalAPIResult(e) ==
  /\ m_apiResult' = e
  /\ woken' = {c \in Callers : waits[c] # NoEvent}
  /\ UNCHANGED <<waits, notifier, m_evtResult>>

\* Mutated form of SignalEvtResult: only the end of a picture is reported.
SignalEvtResultInPicture ==
  /\ m_evtResult' = (m_evtResult \/ m_state # m_state')
  /\ UNCHANGED <<waits, woken, m_apiResult, notifier>>

\* signalEvtResult.
SignalEvtResult == m_evtResult' = TRUE /\ UNCHANGED <<waits, woken, m_apiResult, notifier>>
-----------------------------------------------------------------------------
(* What handlers have in common. *)

Nothing == UNCHANGED <<m_state, thread, window, parm, m_channels, shot>>

\* A function that changes channels was called, and its outcome picks the state.
\* One that never ends takes the thread with it.
Outcome(R, ok, fail) ==
  \E r \in R :
    /\ m_channels' = r.ch
    /\ m_state' = IF r.rc = "ok" THEN ok ELSE fail
    /\ thread' = IF r.rc = "hang" THEN "hangs" ELSE thread
    /\ UNCHANGED window

Preview(R, ok, fail) ==
  /\ Outcome(R, ok, fail)
  /\ UNCHANGED shot

\* cancelPicture: waits for the deferred start of the post-processor, stops it and
\* ends the picture.
CancelPicture ==
  /\ ~reproc
  /\ pproc' = FALSE /\ armed' = "no"
  /\ m_channels' = EndPicture(m_channels, parm.zsl, parm.raw)
  /\ UNCHANGED <<live, reproc>>

\* Mutated form of CancelLive: the thread is not joined.
CancelLiveNoJoin(ch) ==
  /\ pproc' = FALSE /\ armed' = "no"
  /\ m_channels' = ch
  /\ UNCHANGED <<longshot, reproc, live>>

\* cancelLiveSnapshot, after which the channels are ch: joins the thread that starts
\* the live snapshot and stops the post-processor.
CancelLive(ch) ==
  /\ live # "runs" /\ live' = "none"
  /\ pproc' = FALSE /\ armed' = "no"
  /\ m_channels' = ch
  /\ UNCHANGED <<longshot, reproc>>

EndsLongshot(e) == e.evt = "LONGSHOT_OFF" /\ longshot /\ IsCaptureRunning

\* sendCommand, of which only the two long shot commands change anything; the
\* state afterwards is st.
SendCommand(e, st) ==
  /\ m_state' = st
  /\ IF EndsLongshot(e)
     THEN CancelPicture
     ELSE UNCHANGED <<m_channels, live, pproc, armed, reproc>>
  /\ longshot' = (e.evt = "LONGSHOT_ON" /\ (longshot \/ ~IsCaptureRunning))
  /\ UNCHANGED <<thread, window, parm>>
Commands == {"LONGSHOT_ON", "LONGSHOT_OFF"}

SetParams(p) ==
  /\ parm' = Committed(Updated(p))
  /\ UNCHANGED <<m_state, thread, window, m_channels, shot>>

\* Parameters that need a restart while the preview runs: it is set up again with
\* them, and a failure leads to the state st.
RestartPreview(p, st) ==
  /\ parm' = Committed(Updated(p))
  /\ Preview(BeginPreview(StopPreview(m_channels), parm'.zsl, parm'.hint), m_state, st)

\* startRecording, which turns the hint on.
Record(st) ==
  /\ parm' = IF parm.hint THEN parm ELSE Committed([parm EXCEPT !.hintNew = TRUE])
  /\ Preview(StartRecording(m_channels, parm.hint), st, m_state)

\* takeLiveSnapshot: only starts the thread.  (Bound: not while one that was
\* abandoned still starts its picture.)
TakeLive(st) ==
  /\ live # "runs"
  /\ m_state' = st /\ live' = "runs"
  /\ UNCHANGED <<thread, window, parm, m_channels, longshot, pproc, armed, reproc>>
-----------------------------------------------------------------------------
(* No preview. *)

StoppedAnswers ==
  {"OTHER", "STOP_PREVIEW", "START_RECORDING", "STOP_RECORDING", "PREPARE_SNAPSHOT",
   "TAKE_PICTURE", "CANCEL_PICTURE", "STOP_CAPTURE_CHANNEL", "REG_FACE"}

InStopped(e) ==
  \/ /\ e.evt \in {"SET_WINDOW", "CLEAR_WINDOW"}
     /\ window' = (e.evt = "SET_WINDOW")
     /\ UNCHANGED <<m_state, thread, parm, m_channels, shot>>
  \/ e.evt = "SET_PARAMS" /\ SetParams(e.parm)
  \/ /\ e.evt = "START_PREVIEW" /\ ~window
     /\ Preview(PreparePreview(m_channels, parm.zsl, parm.hint), "PREVIEW_READY", m_state)
     /\ UNCHANGED parm
  \/ /\ e.evt = "START_NODISPLAY_PREVIEW" \/ (e.evt = "START_PREVIEW" /\ window)
     /\ Preview(BeginPreview(m_channels, parm.zsl, parm.hint), "PREVIEWING", m_state)
     /\ UNCHANGED parm
  \/ /\ e.evt = "RELEASE"
     /\ Preview({Result("ok", NoChannel)}, m_state, m_state)
     /\ UNCHANGED parm
  \/ e.evt \in Commands /\ SendCommand(e, m_state)
  \/ e.evt \in StoppedAnswers /\ Nothing

ReadyAnswers ==
  {"OTHER", "START_PREVIEW", "START_NODISPLAY_PREVIEW", "START_RECORDING",
   "STOP_RECORDING", "PREPARE_SNAPSHOT", "TAKE_PICTURE", "CANCEL_PICTURE", "RELEASE",
   "STOP_CAPTURE_CHANNEL", "REG_FACE"}

\* A preview that is prepared and waits for its window.
InReady(e) ==
  \/ /\ e.evt = "SET_WINDOW" /\ window' = TRUE /\ UNCHANGED <<parm, shot, thread>>
     /\ \E r \in StartPreview(m_channels, parm.zsl, parm.hint) :
          /\ m_state' = IF r.rc = "ok" THEN "PREVIEWING" ELSE "PREVIEW_STOPPED"
          /\ m_channels' = IF r.rc = "ok" THEN r.ch ELSE Unprepare(r.ch)
  \/ /\ e.evt = "CLEAR_WINDOW" /\ window' = FALSE
     /\ UNCHANGED <<m_state, thread, parm, m_channels, shot>>
  \/ /\ e.evt = "SET_PARAMS" /\ NeedRestart(e.parm)
     /\ parm' = Committed(Updated(e.parm))
     /\ Preview(PreparePreview(Unprepare(m_channels), parm'.zsl, parm'.hint),
                m_state, "PREVIEW_STOPPED")
  \/ e.evt = "SET_PARAMS" /\ ~NeedRestart(e.parm) /\ SetParams(e.parm)
  \/ /\ e.evt = "STOP_PREVIEW"
     /\ Preview({Result("ok", Unprepare(m_channels))}, "PREVIEW_STOPPED", m_state)
     /\ UNCHANGED parm
  \/ e.evt \in Commands /\ SendCommand(e, m_state)
  \/ e.evt \in ReadyAnswers /\ Nothing
-----------------------------------------------------------------------------
(* Previewing. *)

PreviewingAnswers ==
  {"OTHER", "SET_WINDOW", "CLEAR_WINDOW", "START_PREVIEW", "START_NODISPLAY_PREVIEW",
   "CANCEL_PICTURE", "STOP_RECORDING", "RELEASE", "STOP_CAPTURE_CHANNEL",
   "REG_FACE"}

PreviewingControls(e) ==
  \/ e.evt = "SET_PARAMS" /\ NeedRestart(e.parm) /\ RestartPreview(e.parm, "PREVIEW_STOPPED")
  \/ e.evt = "SET_PARAMS" /\ ~NeedRestart(e.parm) /\ SetParams(e.parm)
  \/ /\ e.evt = "STOP_PREVIEW"
     /\ Preview({Result("ok", StopPreview(m_channels))}, "PREVIEW_STOPPED", m_state)
     /\ UNCHANGED parm
  \/ e.evt = "START_RECORDING" /\ Record("RECORDING")
  \/ /\ e.evt = "PREPARE_SNAPSHOT"
     /\ m_state' = "PREPARE_SNAPSHOT" \/ ("start" \in device.faults /\ m_state' = m_state)
     /\ UNCHANGED <<thread, window, parm, m_channels, shot>>
  \/ e.evt \in Commands /\ SendCommand(e, m_state)
  \/ e.evt \in PreviewingAnswers /\ Nothing

\* Where TAKE_PICTURE leads, and where its failure does.
Taking == IF parm.zsl \/ longshot THEN "PREVIEW_PIC_TAKING" ELSE "PIC_TAKING"
NotTaking == IF parm.zsl \/ longshot THEN "PREVIEWING" ELSE "PREVIEW_STOPPED"

\* A long shot counts no pictures: it ends with LONGSHOT_OFF.
Job == IF longshot THEN "no" ELSE "job"

\* TAKE_PICTURE: in ZSL mode, of a capture or of a raw picture with the preview
\* replaced, and of a live snapshot.  The deferred start of the post-processor is
\* queued once a capture streams, even if a later step fails.
TakePicture ==
  \/ /\ ~parm.hint /\ parm.zsl
     /\ Outcome(TakeZsl(m_channels), Taking, NotTaking)
     /\ pproc' \in {m_state' = Taking,
                   m_state' = Taking \/ ("advanced" \in device.faults /\ m_channels["ZSL"] # "none")}
     /\ armed' = IF pproc' THEN Job ELSE "no"
     /\ UNCHANGED <<longshot, live, reproc, parm>>
  \/ /\ ~parm.hint /\ ~parm.zsl /\ ~parm.raw
     /\ Outcome(TakeCapture(m_channels, longshot), Taking, NotTaking)
     /\ reproc' = (m_channels'["CAPTURE"] = "active")
     /\ UNCHANGED <<longshot, live, pproc, armed, parm>>
  \/ /\ ~parm.hint /\ ~parm.zsl /\ parm.raw
     /\ Outcome(TakeRaw(m_channels), Taking, NotTaking)
     /\ pproc' = (m_state' = Taking)
     /\ armed' = IF pproc' /\ ~longshot THEN "shot" ELSE "no"
     /\ UNCHANGED <<longshot, live, reproc, parm>>
  \/ parm.hint /\ TakeLive("PREVIEW_PIC_TAKING")

InPreviewing(e) ==
  \/ e.evt = "TAKE_PICTURE" /\ TakePicture
  \/ e.evt # "TAKE_PICTURE" /\ PreviewingControls(e)
-----------------------------------------------------------------------------
(* Taking a picture with the preview stopped. *)

PicTakingAnswers ==
  {"OTHER", "SET_WINDOW", "CLEAR_WINDOW", "TAKE_PICTURE", "PREPARE_SNAPSHOT",
   "START_RECORDING", "STOP_RECORDING", "START_PREVIEW", "START_NODISPLAY_PREVIEW",
   "RELEASE", "REG_FACE"}

\* Ends the picture and goes to st; the rest of the picture's state is kept.
EndsPicture(st) ==
  /\ CancelPicture /\ m_state' = st
  /\ UNCHANGED <<thread, window, parm, longshot>>

\* The encoder has its frames: the capture channel is stopped and, with the early
\* restart, the preview is set up and started again, whatever comes of it.
StopCaptureChannel ==
  LET c == StopCapture(m_channels, parm.raw, EarlyRestart) IN
  IF EarlyRestart
  THEN Preview(Then(PreparePreview(c, parm.zsl, parm.hint),
                    LAMBDA d : StartPreview(d, parm.zsl, parm.hint)), m_state, m_state)
  ELSE Preview({Result("ok", c)}, m_state, m_state)

InPicTaking(e) ==
  \/ e.evt = "SET_PARAMS" /\ SetParams(e.parm)
  \/ e.evt \in {"STOP_PREVIEW", "CANCEL_PICTURE"} /\ EndsPicture("PREVIEW_STOPPED")
  \/ e.evt = "STOP_CAPTURE_CHANNEL" /\ StopCaptureChannel /\ UNCHANGED parm
  \/ e.evt = "LONGSHOT_ON" /\ SendCommand(e, m_state)
  \/ e.evt = "LONGSHOT_OFF" /\ SendCommand(e, "PREVIEWING")
  \/ e.evt \in PicTakingAnswers /\ Nothing
-----------------------------------------------------------------------------
(* Recording. *)

RecordingAnswers ==
  {"OTHER", "SET_WINDOW", "CLEAR_WINDOW", "START_PREVIEW", "START_RECORDING",
   "PREPARE_SNAPSHOT", "CANCEL_PICTURE", "START_NODISPLAY_PREVIEW", "RELEASE",
   "STOP_CAPTURE_CHANNEL", "REG_FACE"}

\* Parameters that need a restart are refused while recording, after they were noted.
RefuseRestart(p) ==
  /\ parm' = IF NeedRestart(p) THEN Updated(p) ELSE Committed(Updated(p))
  /\ UNCHANGED <<m_state, thread, window, m_channels, shot>>

\* The channels once recording stopped, and the preview too.
StopRecording(ch) == Stop(ch, {"VIDEO"})
StopLive(ch) == Stop(ch, {"SNAPSHOT"})

InRecording(e) ==
  \/ e.evt = "SET_PARAMS" /\ RefuseRestart(e.parm)
  \/ e.evt \in Commands /\ SendCommand(e, m_state)
  \/ e.evt = "TAKE_PICTURE" /\ TakeLive("VIDEO_PIC_TAKING")
  \/ /\ e.evt = "STOP_RECORDING"
     /\ Preview({Result("ok", StopRecording(m_channels))}, "PREVIEWING", m_state)
     /\ UNCHANGED parm
  \/ /\ e.evt = "STOP_PREVIEW"
     /\ Preview({Result("ok", StopPreview(StopRecording(m_channels)))},
                "PREVIEW_STOPPED", m_state)
     /\ UNCHANGED parm
  \/ e.evt \in RecordingAnswers /\ Nothing

VideoPicTakingAnswers ==
  {"OTHER", "SET_WINDOW", "CLEAR_WINDOW", "START_RECORDING", "START_PREVIEW",
   "START_NODISPLAY_PREVIEW", "PREPARE_SNAPSHOT", "TAKE_PICTURE", "RELEASE",
   "STOP_CAPTURE_CHANNEL", "REG_FACE"}

\* Ends the live snapshot, after which the channels are ch, and goes to st.
EndsLive(ch, st) ==
  /\ CancelLive(ch) /\ m_state' = st
  /\ UNCHANGED <<thread, window, parm>>

InVideoPicTaking(e) ==
  \/ e.evt = "SET_PARAMS" /\ RefuseRestart(e.parm)
  \/ e.evt \in Commands /\ SendCommand(e, m_state)
  \/ e.evt = "CANCEL_PICTURE" /\ EndsLive(StopLive(m_channels), "RECORDING")
  \/ e.evt = "STOP_RECORDING"
     /\ EndsLive(StopRecording(StopLive(m_channels)), "PREVIEWING")
  \/ e.evt = "STOP_PREVIEW"
     /\ EndsLive(StopPreview(StopRecording(StopLive(m_channels))), "PREVIEW_STOPPED")
  \/ e.evt \in VideoPicTakingAnswers /\ Nothing
-----------------------------------------------------------------------------
(* Taking a picture while the preview runs: a ZSL picture or a long shot, or a live *)
(* snapshot with the recording hint.                                                *)

PreviewPicTakingAnswers ==
  {"OTHER", "SET_WINDOW", "CLEAR_WINDOW", "PREPARE_SNAPSHOT", "STOP_RECORDING",
   "START_PREVIEW", "START_NODISPLAY_PREVIEW", "TAKE_PICTURE", "RELEASE",
   "STOP_CAPTURE_CHANNEL", "REG_FACE"}

\* The picture ends as a live snapshot unless it is a ZSL picture or a long shot.
EndsPreviewPic ==
  IF parm.zsl \/ longshot THEN EndsPicture("PREVIEWING")
  ELSE EndsLive(StopLive(m_channels), "PREVIEWING")

StopsPreviewPic ==
  IF parm.zsl \/ longshot
  THEN /\ ~reproc /\ pproc' = FALSE /\ armed' = "no" /\ m_state' = "PREVIEW_STOPPED"
       /\ m_channels' = Unprepare(Stop(EndPicture(m_channels, parm.zsl, parm.raw),
                                       IF parm.zsl THEN {"ZSL"} ELSE {}))
       /\ UNCHANGED <<live, reproc, thread, window, parm, longshot>>
  ELSE EndsLive(Unprepare(Stop(StopLive(m_channels), {"PREVIEW"})), "PREVIEW_STOPPED")

InPreviewPicTaking(e) ==
  \/ e.evt = "SET_PARAMS" /\ NeedRestart(e.parm) /\ RestartPreview(e.parm, "PIC_TAKING")
  \/ e.evt = "SET_PARAMS" /\ ~NeedRestart(e.parm) /\ SetParams(e.parm)
  \/ e.evt = "LONGSHOT_ON" /\ SendCommand(e, m_state)
  \/ e.evt = "LONGSHOT_OFF" /\ SendCommand(e, "PREVIEWING")
  \/ e.evt = "CANCEL_PICTURE" /\ EndsPreviewPic
  \/ e.evt = "STOP_PREVIEW" /\ StopsPreviewPic
  \/ e.evt = "START_RECORDING" /\ ~parm.zsl /\ ~longshot /\ Record("VIDEO_PIC_TAKING")
  \/ e.evt = "START_RECORDING" /\ (parm.zsl \/ longshot) /\ Nothing
  \/ e.evt \in PreviewPicTakingAnswers /\ Nothing
-----------------------------------------------------------------------------
(* The thread. *)

\* One API event, handled according to the state.
Handle(e) ==
  \/ m_state = "PREVIEW_STOPPED" /\ InStopped(e)
  \/ m_state = "PREVIEW_READY" /\ InReady(e)
  \/ m_state = "PREVIEWING" /\ InPreviewing(e)
  \/ m_state = "PREPARE_SNAPSHOT" /\ Nothing
  \/ m_state = "PIC_TAKING" /\ InPicTaking(e)
  \/ m_state = "RECORDING" /\ InRecording(e)
  \/ m_state = "VIDEO_PIC_TAKING" /\ InVideoPicTaking(e)
  \/ m_state = "PREVIEW_PIC_TAKING" /\ InPreviewPicTaking(e)

\* The handlers that post no result: of an event that the state does not know, of a
\* flash that is being prepared, of one that never returns.
Silent(e) ==
  \/ e.evt = "STOP_CAPTURE_CHANNEL" /\ m_state # "PIC_TAKING"
  \/ e.evt = "REG_FACE" /\ m_state = "PREPARE_SNAPSHOT"
  \/ e.evt = "PREPARE_SNAPSHOT" /\ m_state = "PREVIEWING" /\ m_state' # m_state
  \/ thread' = "hangs"

ProcessApi ==
  /\ thread = "runs" /\ api_queue # <<>> /\ UNCHANGED device
  /\ LET e == Head(api_queue) IN
       /\ api_queue' = Tail(api_queue)
       /\ Handle(e)
       /\ evt_queue' = IF EndsLongshot(e) /\ m_state # "PREPARE_SNAPSHOT"
                       THEN Append(evt_queue, "SNAPSHOT_DONE") ELSE evt_queue
       /\ IF Silent(e) THEN UNCHANGED sync ELSE SignalAPIResult(e.evt)

\* EVT_SNAPSHOT_DONE ends the picture that is being taken, whichever it is.
SnapshotDone ==
  CASE m_state = "PIC_TAKING" ->
         EndsPicture(IF EarlyRestart THEN "PREVIEWING" ELSE "PREVIEW_STOPPED")
    [] m_state = "VIDEO_PIC_TAKING" -> EndsLive(StopLive(m_channels), "RECORDING")
    [] m_state = "PREVIEW_PIC_TAKING" -> EndsPreviewPic
    [] OTHER -> Nothing

\* QCAMERA_INTERNAL_EVT_PREP_SNAPSHOT_DONE: the flash is ready.
PrepSnapshotDone ==
  IF m_state = "PREPARE_SNAPSHOT"
  THEN /\ m_state' = "PREVIEWING"
       /\ UNCHANGED <<thread, window, parm, m_channels, shot>>
       /\ SignalAPIResult("PREPARE_SNAPSHOT")
  ELSE Nothing /\ UNCHANGED sync

\* The other events have their turn when no API event waits.
ProcessEvt ==
  /\ thread = "runs" /\ api_queue = <<>> /\ evt_queue # <<>>
  /\ evt_queue' = Tail(evt_queue) /\ UNCHANGED <<device, api_queue>>
  /\ \/ Head(evt_queue) = "SNAPSHOT_DONE" /\ SnapshotDone /\ SignalEvtResult
     \/ Head(evt_queue) = "PREP_SNAPSHOT_DONE" /\ PrepSnapshotDone
-----------------------------------------------------------------------------
(* The threads beside it. *)

kept == <<device, m_state, thread, window, parm, longshot>>

\* takeLiveSnapshot_internal: starts the post-processor and the snapshot channel; a
\* failure asks for the picture to be cancelled, and nobody waits for the result.
LiveSnapshot ==
  /\ live = "runs" /\ live' = "ended"
  /\ \/ "live" \in device.faults /\ UNCHANGED m_channels /\ pproc' \in {pproc, TRUE}
        /\ UNCHANGED armed /\ api_queue' = Append(api_queue, Event("CANCEL_PICTURE", NoParams))
     \/ \E r \in Start(m_channels, "SNAPSHOT") :
          /\ pproc' = TRUE /\ m_channels' = r.ch
          /\ armed' = IF r.rc = "ok" THEN "job" ELSE armed
          /\ api_queue' = IF r.rc = "ok" THEN api_queue
                          ELSE Append(api_queue, Event("CANCEL_PICTURE", NoParams))
  /\ UNCHANGED <<kept, evt_queue, sync, reproc>>

\* defferedWorkRoutine starts the post-processor for a capture channel; when that
\* fails it deletes the channel and says nothing.
DeferredStart ==
  /\ reproc /\ reproc' = FALSE
  /\ \/ pproc' = TRUE /\ armed' = (IF longshot THEN "no" ELSE "job") /\ UNCHANGED m_channels
     \/ /\ "pproc" \in device.faults /\ m_channels' = Del(m_channels, {"CAPTURE"})
        /\ UNCHANGED <<pproc, armed>>
  /\ UNCHANGED <<kept, queues, sync, live>>

\* The last frame of the picture is encoded.  A single capture has its channel
\* stopped first, since all frames are in.
Encode ==
  /\ armed = "job" /\ armed' = "shot"
  /\ api_queue' = IF device.single /\ ~parm.zsl /\ ~parm.hint /\ ~longshot
                  THEN Append(api_queue, Event("STOP_CAPTURE_CHANNEL", NoParams))
                  ELSE api_queue
  /\ UNCHANGED <<kept, evt_queue, sync, m_channels, live, pproc, reproc>>

\* cbNotifyRoutine counts the last snapshot, raises the event in processSyncEvt and
\* waits until it was handled.
NotifierCounts ==
  /\ notifier = "idle" /\ armed = "shot"
  /\ notifier' = "due" /\ armed' = "no"
  /\ UNCHANGED <<kept, queues, waits, woken, m_apiResult, m_evtResult, m_channels, live,
                 pproc, reproc>>

NotifierRaises ==
  /\ notifier = "due" /\ notifier' = "waits" /\ m_evtResult' = FALSE
  /\ evt_queue' = Append(evt_queue, "SNAPSHOT_DONE")
  /\ UNCHANGED <<kept, api_queue, waits, woken, m_apiResult, m_channels, live, pproc,
                 reproc, armed>>

NotifierWakes ==
  /\ notifier = "waits" /\ m_evtResult /\ notifier' = "idle"
  /\ UNCHANGED <<kept, queues, waits, woken, m_apiResult, m_evtResult, m_channels, live,
                 pproc, reproc, armed>>

PreviewStreams == "active" \in {m_channels["ZSL"], m_channels["PREVIEW"]}

\* Metadata of the preview says that the flash is ready.  (Bound: once for each
\* flash, which is when it matters.)
FlashReady ==
  /\ m_state = "PREPARE_SNAPSHOT" /\ PreviewStreams
  /\ ~Contains(evt_queue, "PREP_SNAPSHOT_DONE")
  /\ evt_queue' = Append(evt_queue, "PREP_SNAPSHOT_DONE")
  /\ UNCHANGED <<kept, api_queue, sync, m_channels, live, pproc, reproc, armed>>
-----------------------------------------------------------------------------
Next ==
  \/ \E c \in Callers : Call(c) \/ Wake(c)
  \/ ProcessApi \/ ProcessEvt
  \/ LiveSnapshot \/ DeferredStart \/ Encode
  \/ NotifierCounts \/ NotifierRaises \/ NotifierWakes \/ FlashReady

Spec == Init /\ [][Next]_vars

\* Every thread goes on while it can; nobody has to call.  Between two calls the
\* thread finds the API queue empty again and again: a caller must wake up and return
\* to its application before it can call.
Fairness ==
  /\ WF_vars(ProcessApi) /\ SF_vars(ProcessEvt)
  /\ WF_vars(LiveSnapshot) /\ WF_vars(DeferredStart) /\ WF_vars(Encode)
  /\ WF_vars(NotifierCounts) /\ WF_vars(NotifierRaises) /\ WF_vars(NotifierWakes)
  /\ WF_vars(FlashReady)
  /\ \A c \in Callers : WF_vars(Wake(c))

FairSpec == Spec /\ Fairness
-----------------------------------------------------------------------------
Parm == [zsl : BOOLEAN, zslNew : BOOLEAN, hint : BOOLEAN, hintNew : BOOLEAN,
         hintStr : BOOLEAN, hintTmp : BOOLEAN, raw : BOOLEAN]

\* The types; only threads that wait are woken.
TypeOK ==
  /\ device \in Devices
  /\ m_state \in States /\ thread \in {"runs", "hangs"}
  /\ api_queue \in Seq([evt : ApiEvents, parm : Params])
  /\ evt_queue \in Seq({"SNAPSHOT_DONE", "PREP_SNAPSHOT_DONE"})
  /\ waits \in [Callers -> ApiEvents \cup {NoEvent}]
  /\ woken \subseteq {c \in Callers : waits[c] # NoEvent}
  /\ m_apiResult \in ApiEvents \cup {NoEvent}
  /\ notifier \in {"idle", "due", "waits"} /\ m_evtResult \in BOOLEAN
  /\ window \in BOOLEAN /\ parm \in Parm
  /\ m_channels \in [Channels -> ChannelStates]
  /\ longshot \in BOOLEAN /\ live \in {"none", "runs", "ended"}
  /\ pproc \in BOOLEAN /\ reproc \in BOOLEAN /\ armed \in {"no", "job", "shot"}

\* A device on which at most the deferred worker fails.  (With single captures the
\* result of STOP_CAPTURE_CHANNEL may replace the one a caller waits for, and a
\* recording that cannot start has torn the preview down.)
Sound == device.faults \subseteq {"pproc"} /\ ~device.single

\* Whatever fails, a picture that is over and a preview that is stopped leave nothing
\* behind.  Outside a picture there is no capture or raw channel and the
\* post-processor is stopped; a live snapshot's channel does not stream, unless ZSL
\* mode is on too.  In the stopped state no channel exists at all (the comment
\* "preview is stopped" of QCameraStateMachine.h, and the ways in which every state is
\* left for it).
NothingLeft ==
  /\ m_state \notin PicStates =>
       /\ m_channels["CAPTURE"] = "none" /\ m_channels["RAW"] = "none" /\ ~pproc
       /\ ~parm.zsl => m_channels["SNAPSHOT"] # "active"
  /\ m_state = "PREVIEW_STOPPED" => m_channels = NoChannel

\* The states that say "previewing" or "recording" have the streams they speak of.
StatesStream ==
  /\ TypeOK
  /\ Sound /\ m_state \in {"PREVIEWING", "PREPARE_SNAPSHOT", "RECORDING", "VIDEO_PIC_TAKING"}
       => PreviewStreams
  /\ Sound /\ m_state \in {"RECORDING", "VIDEO_PIC_TAKING"} => m_channels["VIDEO"] = "active"

\* Every call returns: its result is posted, and it is still there when the caller
\* comes to look.
CallReturns == \A c \in Callers : (Sound /\ waits[c] # NoEvent) ~> waits[c] = NoEvent

\* The callback thread, which waits for the end of the picture, is never left waiting.
NotifierReturns == (Sound /\ notifier # "idle") ~> notifier = "idle"
=============================================================================
