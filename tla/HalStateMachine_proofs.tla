------------------------ MODULE HalStateMachine_proofs ------------------------
(***************************************************************************)
(* Proofs about the state machine of the camera HAL, for any calls, any    *)
(* parameters, any number of waiting events and any devices whose advanced *)
(* captures do not fail half-way: what a picture and a preview leave       *)
(* behind, and that the states have the streams they speak of.             *)
(***************************************************************************)
EXTENDS HalStateMachine, TLAPS
-----------------------------------------------------------------------------
\* One careful caller at a time, on a device whose advanced captures do not fail,
\* and no early restart: what the framework does (its clients hold a lock during a
\* call), and the conditions without which a picture does leave its channel behind.
Orderly ==
  /\ \A c, d \in Callers : c = d
  /\ Careful /\ ~EarlyRestart
  /\ \A d \in Devices : "advanced" \notin d.faults

\* Parameters in force are those noted last.
InForce == parm.zslNew = parm.zsl /\ parm.hintNew = parm.hint /\ parm.hintTmp = FALSE

\* The one call that may wait beside the events of other threads: its caller has
\* not been told of another event with its name.
App(e) == e.evt \notin {"CANCEL_PICTURE", "STOP_CAPTURE_CHANNEL"}
OneCall ==
  /\ \A i, j \in DOMAIN api_queue : App(api_queue[i]) /\ App(api_queue[j]) => i = j
  /\ \A c \in Callers, i \in DOMAIN api_queue : App(api_queue[i]) =>
       waits[c] = api_queue[i].evt /\ (c \in woken => m_apiResult # waits[c])

\* What is careful about a call is so until it is handled.
Busy == IsCaptureRunning \/ m_state = "RECORDING" \/ longshot
Fits(e) ==
  /\ e.evt = "SET_PARAMS" /\ Busy => ~NeedRestart(e.parm)
  /\ e.evt = "LONGSHOT_ON" => parm.zsl /\ ~parm.hint
  /\ e.evt = "START_RECORDING" => ~longshot
  /\ e.evt = "TAKE_PICTURE" => ~(parm.zsl /\ parm.hint)
  /\ e.evt = "LONGSHOT_OFF" => longshot
CallsFit == \A i \in DOMAIN api_queue : Fits(api_queue[i])

\* The parameters tell which picture is taken.
ShotStates == {"VIDEO_PIC_TAKING", "PREVIEW_PIC_TAKING"}
ModesFit ==
  /\ longshot => parm.zsl /\ ~parm.hint
  /\ m_state = "PIC_TAKING" => ~parm.zsl /\ ~parm.hint
  /\ m_state = "PREVIEW_PIC_TAKING" => (parm.zsl <=> ~parm.hint)
  /\ m_state = "RECORDING" => parm.hint
  /\ m_state = "VIDEO_PIC_TAKING" => parm.hint /\ ~parm.zsl

\* The threads that start the post-processor do so during their picture.
Working ==
  /\ live = "runs" => m_state \in ShotStates /\ parm.hint
  /\ reproc => m_state = "PIC_TAKING"
  /\ pproc => m_state \in PicStates

\* The channels that may exist, and the live snapshot's.
Prepared(z, h) == IF h THEN {"SNAPSHOT", "VIDEO", "PREVIEW"} ELSE {PreviewChannel(z, h)}
Allowed(st, p) ==
  IF st = "PREVIEW_STOPPED" THEN {}
  ELSE IF st = "PIC_TAKING" THEN {IF p.raw THEN "RAW" ELSE "CAPTURE"}
  ELSE Prepared(p.zsl, p.hint)
Exist(ch, st, p) ==
  /\ \A t \in Channels : ch[t] # "gone" /\ (ch[t] # "none" => t \in Allowed(st, p))
  /\ ch["SNAPSHOT"] = "active" => st \in ShotStates

\* On a sound device the states have their streams, and a preview that is ready
\* has its channel.
Streams(ch) == "active" \in {ch["ZSL"], ch["PREVIEW"]}
StreamStates == {"PREVIEWING", "PREPARE_SNAPSHOT", "RECORDING"} \cup ShotStates
Streaming(ch, st, p) ==
  /\ st \in StreamStates => Streams(ch)
  /\ st \in {"RECORDING", "VIDEO_PIC_TAKING"} => ch["VIDEO"] = "active"
  /\ st = "PREVIEW_READY" => ch[PreviewChannel(p.zsl, p.hint)] = "added"

ChannelsFit ==
  /\ Exist(m_channels, m_state, parm)
  /\ Sound => Streaming(m_channels, m_state, parm)

\* What handlers keep, and what the calls and results add to it.
HalTypes ==
  /\ m_state \in States /\ thread \in {"runs", "hangs"} /\ window \in BOOLEAN /\ parm \in Parm
  /\ m_channels \in [Channels -> ChannelStates]
  /\ longshot \in BOOLEAN /\ live \in {"none", "runs", "ended"}
  /\ pproc \in BOOLEAN /\ reproc \in BOOLEAN /\ armed \in {"no", "job", "shot"}
SyncTypes ==
  /\ device \in Devices
  /\ api_queue \in Seq([evt : ApiEvents, parm : Params])
  /\ evt_queue \in Seq({"SNAPSHOT_DONE", "PREP_SNAPSHOT_DONE"})
  /\ waits \in [Callers -> ApiEvents \cup {NoEvent}]
  /\ woken \subseteq {c \in Callers : waits[c] # NoEvent}
  /\ m_apiResult \in ApiEvents \cup {NoEvent}
  /\ notifier \in {"idle", "due", "waits"} /\ m_evtResult \in BOOLEAN

Core == HalTypes /\ InForce /\ ModesFit /\ Working /\ ChannelsFit
Inv == SyncTypes /\ Core /\ OneCall /\ CallsFit
-----------------------------------------------------------------------------
(* Channels. *)

Tables == [Channels -> ChannelStates]
PreparedChannels(z, h) == [t \in Channels |-> IF t \in Prepared(z, h) THEN "added" ELSE "none"]

\* A channel that does not exist is added, or nothing changes.
LEMMA Adds ==
  ASSUME NEW ch \in Tables, NEW t \in Channels \ {"CAPTURE"}, ch[t] = "none",
         t = "ZSL" => ch["PREVIEW"] = "none", NEW r \in Add(ch, t)
  PROVE  \/ r = Result("ok", [ch EXCEPT ![t] = "added"])
         \/ r = Result("fail", ch) /\ "add" \in device.faults
<1>1. Del(ch, Replaces(t)) = ch
  BY DEF Del, Replaces, Tables
<1>2. r \in {Result("ok", [ch EXCEPT ![t] = "added"])} \cup Fails("add", ch)
  BY <1>1 DEF Add
<1> QED
  BY <1>2 DEF Fails

\* A preview is prepared with all of its channels, or with none.
LEMMA Prepares ==
  ASSUME NEW z \in BOOLEAN, NEW h \in BOOLEAN, NEW r \in PreparePreview(NoChannel, z, h)
  PROVE  \/ r = Result("ok", PreparedChannels(z, h))
         \/ r = Result("fail", NoChannel) /\ "add" \in device.faults
<1>0. NoChannel \in Tables /\ \A t \in Channels : NoChannel[t] = "none"
  BY DEF NoChannel, Tables, ChannelStates
<1>1. CASE ~h
  <2>1. r \in Add(NoChannel, PreviewChannel(z, h)) /\ PreviewChannel(z, h) \in Channels \ {"CAPTURE"}
    BY <1>1 DEF PreparePreview, PreviewChannel, Channels
  <2>2. PreparedChannels(z, h) = [NoChannel EXCEPT ![PreviewChannel(z, h)] = "added"]
    BY <1>1 DEF PreparedChannels, Prepared, NoChannel
  <2> QED
    BY <1>0, <2>1, <2>2, Adds DEF Channels
<1>2. CASE h
  <2> DEFINE c1 == [NoChannel EXCEPT !["SNAPSHOT"] = "added"]
             c2 == [c1 EXCEPT !["VIDEO"] = "added"]
             c3 == [c2 EXCEPT !["PREVIEW"] = "added"]
             R1 == Add(NoChannel, "SNAPSHOT")
             R2 == Then(Add(c1, "VIDEO"), LAMBDA d : Add(d, "PREVIEW"))
  <2>1. c1 \in Tables /\ c2 \in Tables /\ c3 = PreparedChannels(z, h)
    BY <1>2 DEF Tables, NoChannel, Channels, ChannelStates, PreparedChannels, Prepared
  <2>2. c1["VIDEO"] = "none" /\ c2["PREVIEW"] = "none"
    BY DEF NoChannel, Channels
  <2>3. c2 = [c1 EXCEPT !["VIDEO"] = "added"] /\ c3 = [c2 EXCEPT !["PREVIEW"] = "added"]
        /\ c1 = [NoChannel EXCEPT !["SNAPSHOT"] = "added"]
    OBVIOUS
  <2>4. \A t \in Channels : /\ NoChannel[t] = "none"
                            /\ t \notin {"SNAPSHOT", "VIDEO"} => c1[t] = "none" /\ c2[t] = "none"
    BY DEF NoChannel, Channels
  <2> HIDE DEF c1, c2, c3
  <2>5. Del(c1, {"SNAPSHOT", "VIDEO"}) = NoChannel /\ Del(c2, {"SNAPSHOT", "VIDEO"}) = NoChannel
    BY <2>4 DEF Del, NoChannel
  <2>6. {"SNAPSHOT", "VIDEO", "PREVIEW"} \subseteq Channels \ {"CAPTURE"}
    BY DEF Channels
  <2>7. ASSUME NEW q \in R2
        PROVE  \/ q = Result("ok", c3)
               \/ "add" \in device.faults /\ (q = Result("fail", c1) \/ q = Result("fail", c2))
    <3>1. PICK a \in Add(c1, "VIDEO") : q \in IF a.rc = "ok" THEN Add(a.ch, "PREVIEW") ELSE {a}
      BY <2>7 DEF Then
    <3>2. a = Result("ok", c2) \/ (a = Result("fail", c1) /\ "add" \in device.faults)
      BY <2>1, <2>2, <2>3, <2>6, Adds
    <3>3. CASE a = Result("ok", c2)
      <4>1. q \in Add(c2, "PREVIEW")
        BY <3>1, <3>3 DEF Result
      <4>2. q = Result("ok", c3) \/ (q = Result("fail", c2) /\ "add" \in device.faults)
        BY <2>1, <2>2, <2>3, <2>6, <4>1, Adds
      <4> QED
        BY <4>2
    <3>4. CASE a = Result("fail", c1) /\ "add" \in device.faults
      BY <3>1, <3>4 DEF Result
    <3> QED
      BY <3>2, <3>3, <3>4
  <2>8. PICK a \in R1 : r \in IF a.rc = "ok"
                              THEN OnFailure(Then(Add(a.ch, "VIDEO"), LAMBDA d : Add(d, "PREVIEW")),
                                             LAMBDA d : Del(d, {"SNAPSHOT", "VIDEO"}))
                              ELSE {a}
    BY <1>2 DEF PreparePreview, Then
  <2>9. a = Result("ok", c1) \/ (a = Result("fail", NoChannel) /\ "add" \in device.faults)
    BY <1>0, <2>3, <2>6, Adds
  <2>10. CASE a = Result("ok", c1)
    <3>1. r \in OnFailure(R2, LAMBDA d : Del(d, {"SNAPSHOT", "VIDEO"}))
      BY <2>8, <2>10 DEF Result
    <3>2. PICK q \in R2 : r = IF q.rc = "fail" THEN Result("fail", Del(q.ch, {"SNAPSHOT", "VIDEO"})) ELSE q
      BY <3>1 DEF OnFailure
    <3>3. CASE q = Result("ok", c3)
      BY <2>1, <3>2, <3>3 DEF Result
    <3>4. CASE "add" \in device.faults /\ (q = Result("fail", c1) \/ q = Result("fail", c2))
      BY <2>5, <3>2, <3>4 DEF Result
    <3> QED
      BY <2>7, <3>3, <3>4
  <2>11. CASE a = Result("fail", NoChannel) /\ "add" \in device.faults
    BY <2>8, <2>11 DEF Result
  <2> QED
    BY <2>9, <2>10, <2>11
<1> QED
  BY <1>1, <1>2

\* A channel that exists is started, or nothing changes.
LEMMA Starts ==
  ASSUME NEW ch \in Tables, NEW t \in Channels, NEW r \in Start(ch, t)
  PROVE  \/ r = Result("ok", [ch EXCEPT ![t] = "active"]) /\ ch[t] \notin {"none", "gone"}
         \/ r = Result("fail", ch) /\ (ch[t] \in {"none", "gone"} \/ "start" \in device.faults)
  BY DEF Start, Fails

\* Channels of previews, films and live snapshots.
PreviewOnly(ch) == ch["CAPTURE"] = "none" /\ ch["RAW"] = "none"

\* Stopping channels ends their streams only.
LEMMA Stops ==
  ASSUME NEW ch \in Tables, NEW T
  PROVE  /\ Stop(ch, T) \in Tables
         /\ \A t \in Channels : /\ Stop(ch, T)[t] = "none" <=> ch[t] = "none"
                                /\ Stop(ch, T)[t] = "gone" <=> ch[t] = "gone"
                                /\ Stop(ch, T)[t] = "active" <=> ch[t] = "active" /\ t \notin T
<1>1. ASSUME NEW t \in Channels
      PROVE  /\ Stop(ch, T)[t] = IF t \in T /\ ch[t] = "active" THEN "added" ELSE ch[t]
             /\ ch[t] \in ChannelStates
  BY DEF Stop, Tables
<1>2. Stop(ch, T) \in Tables
  BY <1>1 DEF Stop, Tables, ChannelStates
<1> QED
  BY <1>1, <1>2

\* Taking a preparation back leaves nothing, also after streams were stopped.
LEMMA Unprepares ==
  ASSUME NEW ch \in Tables, PreviewOnly(ch)
  PROVE  /\ Unprepare(ch) = NoChannel /\ StopPreview(ch) = NoChannel
         /\ \A T : PreviewOnly(Stop(ch, T)) /\ Stop(ch, T) \in Tables
<1>0. "CAPTURE" \in Channels /\ "RAW" \in Channels
  BY DEF Channels
<1>1. ASSUME NEW d \in Tables, PreviewOnly(d) PROVE Unprepare(d) = NoChannel
  BY <1>1 DEF Unprepare, Del, NoChannel, PreviewOnly, Channels
<1>2. \A T : PreviewOnly(Stop(ch, T)) /\ Stop(ch, T) \in Tables
  BY <1>0, Stops DEF PreviewOnly
<1> QED
  BY <1>1, <1>2 DEF StopPreview

\* The channels of a preview that streams.
PreviewChannels(z, h) == [PreparedChannels(z, h) EXCEPT ![PreviewChannel(z, h)] = "active"]

\* They are channels, and one of them streams.
LEMMA PreparedTypes ==
  ASSUME NEW z \in BOOLEAN, NEW h \in BOOLEAN
  PROVE  /\ PreviewChannel(z, h) \in {"ZSL", "PREVIEW"}
         /\ PreviewChannel(z, h) \in Prepared(z, h) /\ Prepared(z, h) \subseteq Channels
         /\ PreparedChannels(z, h) \in Tables /\ PreparedChannels(z, h)[PreviewChannel(z, h)] = "added"
         /\ PreviewChannels(z, h) \in Tables /\ Streams(PreviewChannels(z, h))
         /\ PreviewOnly(PreparedChannels(z, h))
<1>1. PreviewChannel(z, h) \in {"ZSL", "PREVIEW"} /\ PreviewChannel(z, h) \in Prepared(z, h)
      /\ Prepared(z, h) \subseteq {"ZSL", "SNAPSHOT", "VIDEO", "PREVIEW"}
  BY DEF PreviewChannel, Prepared
<1>2. Prepared(z, h) \subseteq Channels /\ {"ZSL", "PREVIEW", "CAPTURE", "RAW"} \subseteq Channels
  BY <1>1 DEF Channels
<1>3. PreparedChannels(z, h) \in Tables
  BY DEF PreparedChannels, Tables, ChannelStates
<1>4. PreparedChannels(z, h)[PreviewChannel(z, h)] = "added" /\ PreviewOnly(PreparedChannels(z, h))
  BY <1>1, <1>2 DEF PreparedChannels, PreviewOnly
<1>5. PreviewChannels(z, h) \in Tables /\ PreviewChannels(z, h)[PreviewChannel(z, h)] = "active"
  BY <1>1, <1>2, <1>3 DEF PreviewChannels, Tables, ChannelStates
<1>6. Streams(PreviewChannels(z, h))
  BY <1>1, <1>5 DEF Streams
<1> QED
  BY <1>1, <1>2, <1>3, <1>4, <1>5, <1>6

\* A preview begins with all of its channels, or none is left.
LEMMA Begins ==
  ASSUME NEW z \in BOOLEAN, NEW h \in BOOLEAN, NEW r \in BeginPreview(NoChannel, z, h)
  PROVE  \/ r = Result("ok", PreviewChannels(z, h))
         \/ r = Result("fail", NoChannel) /\ ("add" \in device.faults \/ "start" \in device.faults)
<1> DEFINE c == PreparedChannels(z, h)
           F(d) == OnFailure(StartPreview(d, z, h), Unprepare)
<1>1. PICK a \in PreparePreview(NoChannel, z, h) : r \in IF a.rc = "ok" THEN F(a.ch) ELSE {a}
  BY DEF BeginPreview, Then
<1>2. CASE a = Result("ok", c)
  <2>1. r \in F(c)
    BY <1>1, <1>2 DEF Result
  <2>2. PICK q \in Start(c, PreviewChannel(z, h)) :
          r = IF q.rc = "fail" THEN Result("fail", Unprepare(q.ch)) ELSE q
    BY <2>1 DEF OnFailure, StartPreview
  <2>3. c \in Tables /\ PreviewChannel(z, h) \in Channels /\ c[PreviewChannel(z, h)] = "added"
        /\ Unprepare(c) = NoChannel
    BY PreparedTypes, Unprepares
  <2> HIDE DEF c
  <2>4. \/ q = Result("ok", [c EXCEPT ![PreviewChannel(z, h)] = "active"])
        \/ q = Result("fail", c) /\ "start" \in device.faults
    BY <2>3, Starts
  <2>5. PreviewChannels(z, h) = [c EXCEPT ![PreviewChannel(z, h)] = "active"]
    BY DEF PreviewChannels, c
  <2> QED
    BY <2>2, <2>3, <2>4, <2>5 DEF Result
<1>3. CASE a = Result("fail", NoChannel) /\ "add" \in device.faults
  BY <1>1, <1>3 DEF Result
<1> QED
  BY <1>2, <1>3, Prepares

\* The channels of a film.
FilmChannels == [PreviewChannels(FALSE, TRUE) EXCEPT !["VIDEO"] = "active"]

\* A film has the preview and the video stream.
LEMMA FilmTypes ==
  /\ FilmChannels \in Tables /\ Streams(FilmChannels) /\ FilmChannels["VIDEO"] = "active"
  /\ \A t \in Channels :
       FilmChannels[t] = IF t \in {"PREVIEW", "VIDEO"} THEN "active"
                         ELSE IF t = "SNAPSHOT" THEN "added" ELSE "none"
<1>1. PreparedChannels(FALSE, TRUE) \in Tables
  BY PreparedTypes
<1>2. \A t \in Channels :
        FilmChannels[t] = IF t \in {"PREVIEW", "VIDEO"} THEN "active"
                          ELSE IF t = "SNAPSHOT" THEN "added" ELSE "none"
  BY DEF FilmChannels, PreviewChannels, PreparedChannels, Prepared, PreviewChannel
<1>3. FilmChannels \in Tables
  BY <1>1 DEF FilmChannels, PreviewChannels, Tables, ChannelStates
<1>4. {"PREVIEW", "VIDEO"} \subseteq Channels
  BY DEF Channels
<1> QED
  BY <1>2, <1>3, <1>4 DEF Streams

\* Without the hint a film begins with its channels; what a failure leaves was
\* prepared for it.
LEMMA Records ==
  ASSUME NEW ch \in Tables, PreviewOnly(ch), NEW r \in StartRecording(ch, FALSE)
  PROVE  \/ r = Result("ok", FilmChannels)
         \/ /\ r.rc = "fail" /\ ("add" \in device.faults \/ "start" \in device.faults)
            /\ r.ch \in {NoChannel, PreparedChannels(FALSE, TRUE), PreviewChannels(FALSE, TRUE)}
<1> DEFINE c == PreparedChannels(FALSE, TRUE)
           d == PreviewChannels(FALSE, TRUE)
           R == Then(PreparePreview(NoChannel, FALSE, TRUE), LAMBDA x : Start(x, "PREVIEW"))
<1>1. StopPreview(ch) = NoChannel
  BY Unprepares
<1>2. PICK q \in R : r \in IF q.rc = "ok" THEN Start(q.ch, "VIDEO") ELSE {q}
  BY <1>1 DEF StartRecording, Then
<1>3. PICK a \in PreparePreview(NoChannel, FALSE, TRUE) :
        q \in IF a.rc = "ok" THEN Start(a.ch, "PREVIEW") ELSE {a}
  BY DEF Then
<1>4. a = Result("ok", c) \/ (a = Result("fail", NoChannel) /\ "add" \in device.faults)
  BY Prepares
<1>5. /\ c \in Tables /\ d \in Tables /\ d = [c EXCEPT !["PREVIEW"] = "active"]
      /\ d["VIDEO"] = "added" /\ "PREVIEW" \in Channels /\ "VIDEO" \in Channels
      /\ FilmChannels = [d EXCEPT !["VIDEO"] = "active"]
  BY PreparedTypes DEF PreviewChannels, PreviewChannel, PreparedChannels, Prepared, Channels,
       FilmChannels
<1> HIDE DEF c, d
<1>6. CASE a = Result("fail", NoChannel) /\ "add" \in device.faults
  <2>1. q = a
    BY <1>3, <1>6 DEF Result
  <2>2. r = a
    BY <1>2, <1>6, <2>1 DEF Result
  <2> QED
    BY <1>6, <2>2 DEF Result
<1>7. CASE a = Result("ok", c)
  <2>1. q \in Start(c, "PREVIEW")
    BY <1>3, <1>7 DEF Result
  <2>2. q = Result("ok", d) \/ (q = Result("fail", c) /\ (c["PREVIEW"] \in {"none", "gone"}
                                                        \/ "start" \in device.faults))
    BY <1>5, <2>1, Starts
  <2>3. c["PREVIEW"] = "added"
    BY PreparedTypes DEF PreviewChannel, c
  <2>4. CASE q = Result("ok", d)
    <3>1. r \in Start(d, "VIDEO")
      BY <1>2, <2>4 DEF Result
    <3>2. r = Result("ok", FilmChannels) \/ (r = Result("fail", d) /\ "start" \in device.faults)
      BY <1>5, <3>1, Starts
    <3>3. r = Result("fail", d) => r.rc = "fail" /\ r.ch = d
      BY DEF Result
    <3> QED
      BY <3>2, <3>3 DEF d
  <2>5. CASE q = Result("fail", c) /\ "start" \in device.faults
    <3>1. r = q
      BY <1>2, <2>5 DEF Result
    <3> QED
      BY <2>5, <3>1 DEF Result, c
  <2> QED
    BY <2>2, <2>3, <2>4, <2>5
<1> QED
  BY <1>4, <1>6, <1>7

\* One channel that streams, of a picture.
PictureChannel(t) == [NoChannel EXCEPT ![t] = "active"]

\* A capture has its channel, or there is none.
LEMMA Captures ==
  ASSUME NEW ch \in Tables, Del(ch, {"PREVIEW"}) = NoChannel, "advanced" \notin device.faults,
         NEW r \in TakeCapture(ch, FALSE)
  PROVE  \/ r = Result("ok", PictureChannel("CAPTURE"))
         \/ r.rc \in {"fail", "hang"} /\ r.ch = NoChannel
<1> DEFINE c == [NoChannel EXCEPT !["CAPTURE"] = "added"]
           F(x) == OnFailure(Start(x, "CAPTURE"), LAMBDA y : Del(y, {"CAPTURE"}))
           R == Then(AddCapture(NoChannel, FALSE), F)
<1>1. PICK q \in R : r \in IF q.rc = "ok" THEN {Result("ok", q.ch)} \cup Fails("advanced", q.ch) ELSE {q}
  BY DEF TakeCapture, Then
<1>2. r = IF q.rc = "ok" THEN Result("ok", q.ch) ELSE q
  BY <1>1 DEF Fails
<1>3. PICK a \in AddCapture(NoChannel, FALSE) : q \in IF a.rc = "ok" THEN F(a.ch) ELSE {a}
  BY DEF Then
<1>4. NoChannel \in Tables /\ c \in Tables /\ c["CAPTURE"] = "added" /\ "CAPTURE" \in Channels
      /\ Del(NoChannel, {"CAPTURE"}) = NoChannel /\ Del(c, {"CAPTURE"}) = NoChannel
      /\ [c EXCEPT !["CAPTURE"] = "active"] = PictureChannel("CAPTURE")
  BY DEF NoChannel, Tables, Channels, ChannelStates, Del, PictureChannel
<1>5. Add(NoChannel, "CAPTURE") = {Result("ok", c)} \cup Fails("addCapture", NoChannel)
  BY <1>4 DEF Add, Replaces
<1> HIDE DEF c
<1>6. a = Result("ok", c) \/ a = Result("hang", NoChannel)
  BY <1>5 DEF AddCapture, Fails, Result
<1>7. CASE a = Result("hang", NoChannel)
  <2>1. q = a
    BY <1>3, <1>7 DEF Result
  <2> QED
    BY <1>2, <1>7, <2>1 DEF Result
<1>8. CASE a = Result("ok", c)
  <2>1. q \in F(c)
    BY <1>3, <1>8 DEF Result
  <2>2. PICK b \in Start(c, "CAPTURE") :
          q = IF b.rc = "fail" THEN Result("fail", Del(b.ch, {"CAPTURE"})) ELSE b
    BY <2>1 DEF OnFailure
  <2>3. b = Result("ok", PictureChannel("CAPTURE")) \/ b = Result("fail", c)
    BY <1>4, Starts
  <2>4. q = Result("ok", PictureChannel("CAPTURE")) \/ q = Result("fail", NoChannel)
    BY <1>4, <2>2, <2>3 DEF Result
  <2> QED
    BY <1>2, <2>4 DEF Result
<1> QED
  BY <1>6, <1>7, <1>8

\* The same for a raw picture.
LEMMA Raws ==
  ASSUME NEW ch \in Tables, Del(ch, {"PREVIEW"}) = NoChannel, NEW r \in TakeRaw(ch)
  PROVE  \/ r = Result("ok", PictureChannel("RAW"))
         \/ r = Result("fail", NoChannel)
<1> DEFINE c == [NoChannel EXCEPT !["RAW"] = "added"]
           F(x) == OnFailure(Start(x, "RAW") \cup Fails("pproc", x), LAMBDA y : Del(y, {"RAW"}))
<1>1. PICK a \in Add(NoChannel, "RAW") : r \in IF a.rc = "ok" THEN F(a.ch) ELSE {a}
  BY DEF TakeRaw, Then
<1>2. NoChannel \in Tables /\ c \in Tables /\ NoChannel["RAW"] = "none" /\ "RAW" \in Channels
      /\ Del(c, {"RAW"}) = NoChannel /\ [c EXCEPT !["RAW"] = "active"] = PictureChannel("RAW")
  BY DEF NoChannel, Tables, Channels, ChannelStates, Del, PictureChannel
<1>3. c = [NoChannel EXCEPT !["RAW"] = "added"]
  OBVIOUS
<1> HIDE DEF c
<1>4. a = Result("ok", c) \/ a = Result("fail", NoChannel)
  BY <1>2, <1>3, Adds
<1>5. CASE a = Result("ok", c)
  <2>1. r \in F(c)
    BY <1>1, <1>5 DEF Result
  <2>2. PICK b \in Start(c, "RAW") \cup Fails("pproc", c) :
          r = IF b.rc = "fail" THEN Result("fail", Del(b.ch, {"RAW"})) ELSE b
    BY <2>1 DEF OnFailure
  <2>3. b = Result("ok", PictureChannel("RAW")) \/ b = Result("fail", c)
    BY <1>2, Starts DEF Fails
  <2> QED
    BY <1>2, <2>2, <2>3 DEF Result
<1>6. CASE a = Result("fail", NoChannel)
  BY <1>1, <1>6 DEF Result
<1> QED
  BY <1>4, <1>5, <1>6
-----------------------------------------------------------------------------
(* What handlers have in common. *)

\* Parameters that are set are in force, and the modes stay unless a restart is
\* needed.
LEMMA ParmsSet ==
  ASSUME parm \in Parm, InForce, NEW p \in Params, NEW q, q = Committed(Updated(p))
  PROVE  /\ q \in Parm /\ q.zslNew = q.zsl /\ q.hintNew = q.hint /\ q.hintTmp = FALSE
         /\ q.raw = parm.raw
         /\ ~NeedRestart(p) => q.zsl = parm.zsl /\ q.hint = parm.hint
<1>1. p.zsl \in BOOLEAN /\ p.hint \in BOOLEAN
  BY DEF Params
<1>2. Updated(p) = [parm EXCEPT !.zslNew = p.zsl,
                       !.hintNew = IF p.hint # parm.hintStr THEN p.hint ELSE parm.hint,
                       !.hintTmp = (p.hint # parm.hintStr)]
  BY DEF Updated, InForce, Parm
<1>3. PICK u \in Parm : /\ u = Updated(p) /\ u.zslNew = p.zsl /\ u.raw = parm.raw
                        /\ u.hintNew = IF p.hint # parm.hintStr THEN p.hint ELSE parm.hint
  BY <1>1, <1>2 DEF Parm
<1>4. q = [u EXCEPT !.zsl = u.zslNew, !.hint = u.hintNew, !.hintTmp = FALSE,
                    !.hintStr = IF u.hintTmp THEN u.hintNew ELSE u.hintStr]
  BY <1>3 DEF Committed
<1>5. q \in Parm /\ q.zslNew = u.zslNew /\ q.zsl = u.zslNew /\ q.hintNew = u.hintNew
      /\ q.hint = u.hintNew /\ q.hintTmp = FALSE /\ q.raw = u.raw
  BY <1>4 DEF Parm
<1>6. ~NeedRestart(p) => p.zsl = parm.zsl /\ (p.hint = parm.hintStr \/ p.hint = parm.hint)
  BY DEF NeedRestart, InForce
<1> QED
  BY <1>3, <1>5, <1>6

\* A film turns the hint on.
LEMMA HintSet ==
  ASSUME parm \in Parm, InForce, NEW q, q = Committed([parm EXCEPT !.hintNew = TRUE])
  PROVE  /\ q \in Parm /\ q.zslNew = q.zsl /\ q.hintNew = q.hint /\ q.hintTmp = FALSE
         /\ q.raw = parm.raw /\ q.zsl = parm.zsl /\ q.hint = TRUE
<1>0. [parm EXCEPT !.hintNew = TRUE] \in Parm
  BY DEF Parm
<1> DEFINE u == [parm EXCEPT !.hintNew = TRUE]
<1>1. u \in Parm /\ u.hintNew = TRUE /\ u.zslNew = parm.zsl /\ u.raw = parm.raw
  BY DEF Parm, InForce
<1>5. q = Committed(u)
  OBVIOUS
<1> HIDE DEF u
<1>2. q = [u EXCEPT !.zsl = u.zslNew, !.hint = u.hintNew, !.hintTmp = FALSE,
                    !.hintStr = IF u.hintTmp THEN u.hintNew ELSE u.hintStr]
  BY <1>5 DEF Committed
<1> QED
  BY <1>1, <1>2 DEF Parm

\* A step that keeps the modes and the channels.
LEMMA SameStep ==
  ASSUME Core, UNCHANGED <<device, m_state, m_channels, longshot, live, pproc, reproc>>,
         parm' \in Parm, InForce', parm'.zsl = parm.zsl, parm'.hint = parm.hint,
         parm'.raw = parm.raw, thread' \in {"runs", "hangs"}, window' \in BOOLEAN,
         armed' \in {"no", "job", "shot"}
  PROVE  Core'
<1>1. HalTypes'
  BY DEF Core, HalTypes
<1>2. ModesFit' /\ Working'
  BY DEF Core, ModesFit, Working
<1>3. ChannelsFit'
  BY DEF Core, ChannelsFit, Exist, Streaming, Allowed, Prepared, PreviewChannel, Sound
<1> QED
  BY <1>1, <1>2, <1>3 DEF Core

\* An event that changes nothing.
LEMMA NothingStep == ASSUME Core, device' = device, Nothing PROVE Core'
<1>1. InForce' /\ parm' = parm
  BY DEF Core, InForce, Nothing
<1> QED
  BY <1>1, SameStep DEF Nothing, shot, Core, HalTypes

\* Setting parameters that need no restart.
LEMMA SetStep ==
  ASSUME Core, device' = device, NEW p \in Params, SetParams(p), ~NeedRestart(p)
  PROVE  Core'
<1>1. parm' \in Parm /\ InForce' /\ parm'.zsl = parm.zsl /\ parm'.hint = parm.hint
      /\ parm'.raw = parm.raw
  <2>1. parm \in Parm /\ InForce /\ parm' = Committed(Updated(p))
    BY DEF Core, HalTypes, SetParams
  <2> QED
    BY <2>1, ParmsSet DEF InForce
<1> QED
  BY <1>1, SameStep DEF SetParams, shot, Core, HalTypes

\* A step that only changes the preview or a film.
LEMMA PreviewStep ==
  ASSUME Core, UNCHANGED <<device, shot>>, m_state \notin PicStates, m_state' \in States \ PicStates,
         parm' \in Parm, InForce', longshot => parm'.zsl /\ ~parm'.hint,
         m_state' = "RECORDING" => parm'.hint,
         m_channels' \in Tables, Exist(m_channels', m_state', parm'),
         Sound => Streaming(m_channels', m_state', parm'),
         thread' \in {"runs", "hangs"}, window' \in BOOLEAN
  PROVE  Core'
<1>1. HalTypes'
  BY DEF Core, HalTypes, shot, Tables
<1>2. ModesFit' /\ Working'
  BY DEF Core, ModesFit, Working, shot, PicStates, ShotStates
<1>3. ChannelsFit'
  BY DEF ChannelsFit, Sound
<1> QED
  BY <1>1, <1>2, <1>3 DEF Core

\* No channel is right in every state that needs none, and the channels of a
\* preview and of a film in theirs.
LEMMA Fitting ==
  ASSUME NEW p \in Parm, NEW st \in States
  PROVE  /\ NoChannel \in Tables /\ Exist(NoChannel, st, p)
         /\ st \notin StreamStates \cup {"PREVIEW_READY"} => Streaming(NoChannel, st, p)
         /\ \A z \in BOOLEAN : st \notin {"PREVIEW_STOPPED", "PIC_TAKING"} /\ (z = p.zsl \/ p.hint) =>
              /\ Exist(PreparedChannels(z, p.hint), st, p)
              /\ Exist(PreviewChannels(z, p.hint), st, p)
              /\ st = "PREVIEW_READY" => Streaming(PreparedChannels(z, p.hint), st, p)
              /\ st = "PREVIEWING" => Streaming(PreviewChannels(z, p.hint), st, p)
         /\ st \notin {"PREVIEW_STOPPED", "PIC_TAKING"} /\ p.hint =>
              /\ Exist(FilmChannels, st, p)
              /\ st # "PREVIEW_READY" => Streaming(FilmChannels, st, p)
<1>0. p.zsl \in BOOLEAN /\ p.hint \in BOOLEAN
  BY DEF Parm
<1>1. NoChannel \in Tables /\ \A t \in Channels : NoChannel[t] = "none"
  BY DEF NoChannel, Tables, ChannelStates
<1>2. Exist(NoChannel, st, p)
  BY <1>1 DEF Exist, Channels
<1>3. st \notin StreamStates \cup {"PREVIEW_READY"} => Streaming(NoChannel, st, p)
  BY DEF Streaming, StreamStates, ShotStates
<1>4. ASSUME NEW z \in BOOLEAN, st \notin {"PREVIEW_STOPPED", "PIC_TAKING"}, z = p.zsl \/ p.hint
      PROVE  /\ Exist(PreparedChannels(z, p.hint), st, p)
             /\ Exist(PreviewChannels(z, p.hint), st, p)
             /\ st = "PREVIEW_READY" => Streaming(PreparedChannels(z, p.hint), st, p)
             /\ st = "PREVIEWING" => Streaming(PreviewChannels(z, p.hint), st, p)
  <2>1. Prepared(z, p.hint) = Allowed(st, p) /\ PreviewChannel(z, p.hint) = PreviewChannel(p.zsl, p.hint)
    BY <1>0, <1>4 DEF Prepared, Allowed, PreviewChannel
  <2>2. \A t \in Channels :
          /\ PreparedChannels(z, p.hint)[t] = IF t \in Prepared(z, p.hint) THEN "added" ELSE "none"
          /\ t # PreviewChannel(z, p.hint) =>
               PreviewChannels(z, p.hint)[t] = PreparedChannels(z, p.hint)[t]
    BY DEF PreparedChannels, PreviewChannels
  <2>3. PreviewChannels(z, p.hint)[PreviewChannel(z, p.hint)] = "active"
    <3>1. PreviewChannel(z, p.hint) \in Channels
      BY <1>0, PreparedTypes
    <3> QED
      BY <3>1 DEF PreparedChannels, PreviewChannels
  <2>4. "SNAPSHOT" \in Channels /\ PreviewChannel(z, p.hint) # "SNAPSHOT"
        /\ PreviewChannel(z, p.hint) \in Prepared(z, p.hint)
    BY DEF Channels, PreviewChannel, Prepared
  <2>5. Exist(PreparedChannels(z, p.hint), st, p)
    BY <2>1, <2>2, <2>4 DEF Exist
  <2>6. Exist(PreviewChannels(z, p.hint), st, p)
    BY <2>1, <2>2, <2>3, <2>4 DEF Exist
  <2>7. PreparedChannels(z, p.hint)[PreviewChannel(z, p.hint)] = "added"
        /\ Streams(PreviewChannels(z, p.hint))
    BY <1>0, PreparedTypes
  <2> QED
    BY <2>1, <2>5, <2>6, <2>7 DEF Streaming, StreamStates, ShotStates
<1>5. ASSUME st \notin {"PREVIEW_STOPPED", "PIC_TAKING"}, p.hint
      PROVE  Exist(FilmChannels, st, p) /\ (st # "PREVIEW_READY" => Streaming(FilmChannels, st, p))
  <2>1. "SNAPSHOT" \in Channels
    BY DEF Channels
  <2>2. Exist(FilmChannels, st, p)
    BY <1>5, <2>1, FilmTypes DEF Exist, Allowed, Prepared
  <2> QED
    BY <2>2, FilmTypes DEF Streaming
<1> QED
  BY <1>1, <1>2, <1>3, <1>4, <1>5
-----------------------------------------------------------------------------
(* One event in each state. *)

ApiEvent == [evt : ApiEvents, parm : Params]

\* Outside the picture states only channels of previews exist, and none in the
\* stopped state.
LEMMA PreviewTable ==
  ASSUME Core
  PROVE  /\ m_channels \in Tables
         /\ m_state = "PREVIEW_STOPPED" => m_channels = NoChannel
         /\ m_state # "PIC_TAKING" => PreviewOnly(m_channels)
<1>1. m_channels \in Tables /\ m_channels = [t \in Channels |-> m_channels[t]]
  BY DEF Core, HalTypes, Tables
<1>2. ASSUME m_state = "PREVIEW_STOPPED" PROVE m_channels = NoChannel
  BY <1>1, <1>2 DEF Core, ChannelsFit, Exist, Allowed, NoChannel
<1>3. ASSUME m_state # "PIC_TAKING" PROVE PreviewOnly(m_channels)
  <2>1. "CAPTURE" \notin Allowed(m_state, parm) /\ "RAW" \notin Allowed(m_state, parm)
    BY <1>3 DEF Allowed, Prepared, PreviewChannel
  <2> QED
    BY <2>1 DEF Core, ChannelsFit, Exist, PreviewOnly, Channels
<1> QED
  BY <1>1, <1>2, <1>3

\* The two long shot commands: a long shot begins in ZSL mode, and ends a picture
\* that is being taken.
LEMMA CommandStep ==
  ASSUME Core, device' = device, NEW e \in ApiEvent, e.evt \in Commands, Fits(e), NEW st,
         SendCommand(e, st),
         \/ st = m_state /\ (e.evt = "LONGSHOT_OFF" => ~IsCaptureRunning)
         \/ st = "PREVIEWING" /\ e.evt = "LONGSHOT_OFF" /\ m_state \in {"PIC_TAKING", "PREVIEW_PIC_TAKING"}
  PROVE  Core'
<1>1. InForce' /\ parm' = parm /\ thread' = thread /\ window' = window /\ longshot' \in BOOLEAN
  BY DEF Core, InForce, SendCommand
<1>2. CASE ~EndsLongshot(e)
  <2>1. UNCHANGED <<m_channels, live, pproc, armed, reproc>> /\ m_state' = st
    BY <1>2 DEF SendCommand
  <2>2. st = m_state
    BY <1>2 DEF EndsLongshot, IsCaptureRunning, PicStates, Fits
  <2>3. longshot' => parm.zsl /\ ~parm.hint
    BY DEF SendCommand, Fits
  <2>4. HalTypes'
    BY <1>1, <2>1, <2>2 DEF Core, HalTypes
  <2>5. ModesFit' /\ Working'
    BY <1>1, <2>1, <2>2, <2>3 DEF Core, ModesFit, Working
  <2>6. ChannelsFit'
    BY <1>1, <2>1, <2>2 DEF Core, ChannelsFit, Sound
  <2> QED
    BY <1>1, <2>4, <2>5, <2>6 DEF Core
<1>3. CASE EndsLongshot(e)
  <2>1. /\ e.evt = "LONGSHOT_OFF" /\ longshot /\ IsCaptureRunning
        /\ m_state = "PREVIEW_PIC_TAKING" /\ st = "PREVIEWING" /\ parm.zsl /\ ~parm.hint
    BY <1>3 DEF EndsLongshot, Core, ModesFit, IsCaptureRunning, PicStates
  <2>2. /\ CancelPicture /\ m_state' = "PREVIEWING" /\ longshot' = FALSE
    BY <1>3, <2>1 DEF SendCommand
  <2>3. /\ ~reproc /\ pproc' = FALSE /\ armed' = "no" /\ live' = live /\ reproc' = reproc
        /\ m_channels' = m_channels
    BY <2>1, <2>2 DEF CancelPicture, EndPicture
  <2>4. HalTypes'
    BY <1>1, <2>2, <2>3 DEF Core, HalTypes, States
  <2>5. ModesFit' /\ Working'
    BY <1>1, <2>1, <2>2, <2>3 DEF Core, ModesFit, Working
  <2>6. "SNAPSHOT" \in Channels /\ "SNAPSHOT" \notin Allowed("PREVIEW_PIC_TAKING", parm)
    BY <2>1 DEF Channels, Allowed, Prepared, PreviewChannel
  <2>7. m_channels["SNAPSHOT"] # "active"
    BY <2>1, <2>6 DEF Core, ChannelsFit, Exist
  <2>8. ChannelsFit'
    BY <1>1, <2>1, <2>2, <2>3, <2>7
       DEF Core, ChannelsFit, Exist, Streaming, Allowed, Sound, StreamStates, ShotStates
  <2> QED
    BY <1>1, <2>4, <2>5, <2>8 DEF Core
<1> QED
  BY <1>2, <1>3

\* Channels are prepared and started in the stopped state.
LEMMA StoppedStep ==
  ASSUME Core, device' = device, m_state = "PREVIEW_STOPPED", NEW e \in ApiEvent, Fits(e),
         InStopped(e)
  PROVE  Core'
<1>0. /\ parm \in Parm /\ parm.zsl \in BOOLEAN /\ parm.hint \in BOOLEAN /\ InForce /\ window \in BOOLEAN
      /\ thread \in {"runs", "hangs"} /\ longshot \in BOOLEAN /\ m_channels = NoChannel /\ NoChannel \in Tables
      /\ longshot => parm.zsl /\ ~parm.hint
      /\ e.parm \in Params
  BY PreviewTable DEF Core, HalTypes, Parm, ModesFit, ApiEvent
<1>1. CASE e.evt \in {"SET_WINDOW", "CLEAR_WINDOW"} /\ window' = (e.evt = "SET_WINDOW")
           /\ UNCHANGED <<m_state, thread, parm, m_channels, shot>>
  <2>1. InForce' /\ window' \in BOOLEAN /\ parm' = parm
    BY <1>0, <1>1 DEF InForce
  <2> QED
    BY <1>0, <1>1, <2>1, SameStep DEF shot, Core, HalTypes
<1>2. CASE e.evt = "SET_PARAMS" /\ SetParams(e.parm)
  <2>1. CASE longshot
    <3>1. ~NeedRestart(e.parm)
      BY <1>2, <2>1 DEF Fits, Busy
    <3> QED
      BY <1>0, <1>2, <3>1, SetStep
  <2>2. CASE ~longshot
    <3>1. parm' = Committed(Updated(e.parm)) /\ UNCHANGED <<m_state, thread, window, m_channels, shot>>
      BY <1>2 DEF SetParams
    <3>2. parm' \in Parm /\ InForce'
      BY <1>0, <3>1, ParmsSet DEF InForce
    <3>3. m_state' \in States \ PicStates /\ m_state \notin PicStates
      BY <3>1 DEF States, PicStates
    <3>4. Exist(m_channels', m_state', parm') /\ Streaming(m_channels', m_state', parm')
      BY <1>0, <3>1, <3>2, <3>3, Fitting DEF StreamStates, ShotStates
    <3> QED
      BY <1>0, <2>2, <3>1, <3>2, <3>3, <3>4, PreviewStep
  <2> QED
    BY <2>1, <2>2 DEF Core, HalTypes
<1>3. CASE Preview(PreparePreview(m_channels, parm.zsl, parm.hint), "PREVIEW_READY", m_state)
           /\ UNCHANGED parm
  <2>1. PICK r \in PreparePreview(NoChannel, parm.zsl, parm.hint) :
             /\ m_channels' = r.ch /\ UNCHANGED <<window, shot>>
             /\ m_state' = IF r.rc = "ok" THEN "PREVIEW_READY" ELSE m_state
             /\ thread' = IF r.rc = "hang" THEN "hangs" ELSE thread
    BY <1>0, <1>3 DEF Preview, Outcome
  <2>2. \/ r = Result("ok", PreparedChannels(parm.zsl, parm.hint))
        \/ r = Result("fail", NoChannel)
    BY <1>0, Prepares
  <2>3. InForce' /\ parm' = parm
    BY <1>0, <1>3 DEF InForce
  <2>4. CASE r = Result("ok", PreparedChannels(parm.zsl, parm.hint))
    <3>1. m_channels' = PreparedChannels(parm.zsl, parm.hint) /\ m_state' = "PREVIEW_READY" /\ thread' = thread
      BY <2>1, <2>4 DEF Result
    <3>2. "PREVIEW_READY" \in States \ PicStates /\ m_state \notin PicStates
      BY DEF States, PicStates
    <3>3. Exist(m_channels', m_state', parm') /\ Streaming(m_channels', m_state', parm')
      BY <1>0, <2>3, <3>1, <3>2, Fitting
    <3>4. m_channels' \in Tables
      BY <1>0, <3>1, PreparedTypes
    <3> QED
      BY <1>0, <2>1, <2>3, <3>1, <3>2, <3>3, <3>4, PreviewStep
  <2>5. CASE r = Result("fail", NoChannel)
    <3>1. m_channels' = m_channels /\ m_state' = m_state /\ thread' = thread
      BY <1>0, <2>1, <2>5 DEF Result
    <3> QED
      BY <1>0, <2>1, <2>3, <3>1, SameStep DEF shot, Core, HalTypes
  <2> QED
    BY <2>2, <2>4, <2>5
<1>4. CASE Preview(BeginPreview(m_channels, parm.zsl, parm.hint), "PREVIEWING", m_state)
           /\ UNCHANGED parm
  <2>1. PICK r \in BeginPreview(NoChannel, parm.zsl, parm.hint) :
             /\ m_channels' = r.ch /\ UNCHANGED <<window, shot>>
             /\ m_state' = IF r.rc = "ok" THEN "PREVIEWING" ELSE m_state
             /\ thread' = IF r.rc = "hang" THEN "hangs" ELSE thread
    BY <1>0, <1>4 DEF Preview, Outcome
  <2>2. \/ r = Result("ok", PreviewChannels(parm.zsl, parm.hint))
        \/ r = Result("fail", NoChannel)
    BY <1>0, Begins
  <2>3. InForce' /\ parm' = parm
    BY <1>0, <1>4 DEF InForce
  <2>4. CASE r = Result("ok", PreviewChannels(parm.zsl, parm.hint))
    <3>1. m_channels' = PreviewChannels(parm.zsl, parm.hint) /\ m_state' = "PREVIEWING" /\ thread' = thread
      BY <2>1, <2>4 DEF Result
    <3>2. "PREVIEWING" \in States \ PicStates /\ m_state \notin PicStates
      BY DEF States, PicStates
    <3>3. Exist(m_channels', m_state', parm') /\ Streaming(m_channels', m_state', parm')
      BY <1>0, <2>3, <3>1, <3>2, Fitting
    <3>4. m_channels' \in Tables
      BY <1>0, <3>1, PreparedTypes
    <3> QED
      BY <1>0, <2>1, <2>3, <3>1, <3>2, <3>3, <3>4, PreviewStep
  <2>5. CASE r = Result("fail", NoChannel)
    <3>1. m_channels' = m_channels /\ m_state' = m_state /\ thread' = thread
      BY <1>0, <2>1, <2>5 DEF Result
    <3> QED
      BY <1>0, <2>1, <2>3, <3>1, SameStep DEF shot, Core, HalTypes
  <2> QED
    BY <2>2, <2>4, <2>5
<1>5. CASE Preview({Result("ok", NoChannel)}, m_state, m_state) /\ UNCHANGED parm
  <2>1. m_channels' = m_channels /\ UNCHANGED <<m_state, thread, window, shot, parm>>
    BY <1>0, <1>5 DEF Preview, Outcome, Result
  <2>2. InForce'
    BY <1>0, <2>1 DEF InForce
  <2> QED
    BY <1>0, <2>1, <2>2, SameStep DEF shot, Core, HalTypes
<1>6. CASE e.evt \in Commands /\ SendCommand(e, m_state)
  <2>1. ~IsCaptureRunning
    BY DEF IsCaptureRunning, PicStates
  <2> QED
    BY <1>6, <2>1, CommandStep
<1>7. CASE Nothing
  BY <1>7, NothingStep
<1> QED
  BY <1>1, <1>2, <1>3, <1>4, <1>5, <1>6, <1>7 DEF InStopped

\* What every step knows.
LEMMA Known ==
  ASSUME Core
  PROVE  /\ parm \in Parm /\ parm.zsl \in BOOLEAN /\ parm.hint \in BOOLEAN /\ parm.raw \in BOOLEAN
         /\ InForce /\ window \in BOOLEAN /\ thread \in {"runs", "hangs"} /\ longshot \in BOOLEAN
         /\ m_channels \in Tables /\ m_state \in States
         /\ longshot => parm.zsl /\ ~parm.hint
         /\ m_state \notin PicStates => ~pproc /\ ~reproc /\ live \in {"none", "ended"}
  BY DEF Core, HalTypes, Parm, ModesFit, Working, Tables, PicStates, ShotStates

\* Everything ends: no channel, and the preview stopped.
LEMMA Cleared ==
  ASSUME Core, device' = device, parm' \in Parm, InForce', longshot' \in BOOLEAN,
         longshot' => parm'.zsl /\ ~parm'.hint, m_channels' = NoChannel,
         m_state' = "PREVIEW_STOPPED", thread' \in {"runs", "hangs"}, window' \in BOOLEAN,
         live' \in {"none", "ended"}, pproc' = FALSE, reproc' = FALSE, armed' \in {"no", "job", "shot"}
  PROVE  Core'
<1>1. m_state' \in States
  BY DEF States
<1>2. NoChannel \in Tables /\ Exist(m_channels', m_state', parm') /\ Streaming(m_channels', m_state', parm')
  BY <1>1, Fitting DEF StreamStates, ShotStates
<1>3. HalTypes'
  BY <1>1, <1>2 DEF HalTypes, Tables
<1>4. ModesFit' /\ Working'
  BY DEF ModesFit, Working
<1> QED
  BY <1>2, <1>3, <1>4 DEF Core, ChannelsFit

\* The preview is stopped outside a picture.
LEMMA StopsStep ==
  ASSUME Core, device' = device, m_state \notin PicStates, UNCHANGED <<parm, shot>>, m_channels' = NoChannel,
         m_state' = "PREVIEW_STOPPED", thread' = thread, window' \in BOOLEAN
  PROVE  Core'
<1>1. InForce' /\ parm' \in Parm /\ longshot' \in BOOLEAN /\ (longshot' => parm'.zsl /\ ~parm'.hint)
      /\ live' \in {"none", "ended"} /\ pproc' = FALSE /\ reproc' = FALSE
  BY Known DEF InForce, shot, Core, HalTypes
<1>2. armed' \in {"no", "job", "shot"} /\ thread' \in {"runs", "hangs"}
  BY DEF shot, Core, HalTypes
<1> QED
  BY <1>1, <1>2, Cleared

\* A prepared preview starts, is prepared anew, or is taken back.
LEMMA ReadyStep ==
  ASSUME Core, device' = device, m_state = "PREVIEW_READY", NEW e \in ApiEvent, Fits(e), InReady(e)
  PROVE  Core'
<1>0. m_state \notin PicStates /\ PreviewOnly(m_channels) /\ e.parm \in Params
      /\ "PREVIEWING" \in States \ PicStates /\ "PREVIEW_STOPPED" \in States \ PicStates
      /\ "PREVIEW_READY" \in States \ PicStates
  BY PreviewTable DEF PicStates, ApiEvent, States
<1>1. CASE /\ window' = TRUE /\ UNCHANGED <<parm, shot, thread>>
           /\ \E r \in StartPreview(m_channels, parm.zsl, parm.hint) :
                /\ m_state' = IF r.rc = "ok" THEN "PREVIEWING" ELSE "PREVIEW_STOPPED"
                /\ m_channels' = IF r.rc = "ok" THEN r.ch ELSE Unprepare(r.ch)
  <2> DEFINE t == PreviewChannel(parm.zsl, parm.hint)
  <2>1. PICK r \in Start(m_channels, t) :
             /\ m_state' = IF r.rc = "ok" THEN "PREVIEWING" ELSE "PREVIEW_STOPPED"
             /\ m_channels' = IF r.rc = "ok" THEN r.ch ELSE Unprepare(r.ch)
    BY <1>1 DEF StartPreview
  <2>2. t \in {"ZSL", "PREVIEW"} /\ t \in Channels /\ t \in Allowed("PREVIEWING", parm)
        /\ Allowed("PREVIEWING", parm) = Allowed(m_state, parm)
    BY DEF PreviewChannel, Channels, Allowed, Prepared
  <2> HIDE DEF t
  <2>3. \/ r = Result("ok", [m_channels EXCEPT ![t] = "active"]) /\ m_channels[t] \notin {"none", "gone"}
        \/ r = Result("fail", m_channels)
    BY <2>2, Known, Starts
  <2>4. CASE r = Result("ok", [m_channels EXCEPT ![t] = "active"])
    <3>1. m_channels' = [m_channels EXCEPT ![t] = "active"] /\ m_state' = "PREVIEWING"
      BY <2>1, <2>4 DEF Result
    <3>2. m_channels' \in Tables /\ m_channels'[t] = "active"
          /\ \A u \in Channels : u # t => m_channels'[u] = m_channels[u]
      BY <2>2, <3>1, Known DEF Tables, ChannelStates
    <3>3. Exist(m_channels', m_state', parm')
      <4>1. Exist(m_channels, m_state, parm) /\ "SNAPSHOT" \in Channels /\ m_state \notin ShotStates
        BY DEF Core, ChannelsFit, Channels, ShotStates
      <4>2. \A u \in Channels : m_channels'[u] # "gone"
                                /\ (m_channels'[u] # "none" => u \in Allowed("PREVIEWING", parm))
        BY <2>2, <3>2, <4>1 DEF Exist
      <4>3. m_channels'["SNAPSHOT"] # "active"
        BY <2>2, <3>2, <4>1 DEF Exist
      <4> QED
        BY <1>1, <3>1, <4>2, <4>3 DEF Exist
    <3>4. Streaming(m_channels', m_state', parm')
      BY <2>2, <3>1, <3>2 DEF Streaming, Streams
    <3>5. InForce' /\ parm' \in Parm /\ thread' \in {"runs", "hangs"}
          /\ (longshot => parm'.zsl /\ ~parm'.hint)
      BY <1>1, Known DEF InForce
    <3> QED
      BY <1>0, <1>1, <3>1, <3>2, <3>3, <3>4, <3>5, PreviewStep
  <2>5. CASE r = Result("fail", m_channels)
    <3>1. m_channels' = NoChannel /\ m_state' = "PREVIEW_STOPPED"
      BY <1>0, <2>1, <2>5, Known, Unprepares DEF Result
    <3> QED
      BY <1>0, <1>1, <3>1, StopsStep
  <2> QED
    BY <2>3, <2>4, <2>5
<1>2. CASE window' = FALSE /\ UNCHANGED <<m_state, thread, parm, m_channels, shot>>
  <2>1. InForce' /\ window' \in BOOLEAN /\ parm' = parm
    BY <1>2, Known DEF InForce
  <2> QED
    BY <1>2, <2>1, SameStep DEF shot, Core, HalTypes
<1>3. CASE /\ e.evt = "SET_PARAMS" /\ NeedRestart(e.parm) /\ parm' = Committed(Updated(e.parm))
           /\ Preview(PreparePreview(Unprepare(m_channels), parm'.zsl, parm'.hint),
                      m_state, "PREVIEW_STOPPED")
  <2>1. parm' \in Parm /\ InForce' /\ ~longshot /\ parm'.zsl \in BOOLEAN /\ parm'.hint \in BOOLEAN
    <3>1. parm' \in Parm /\ InForce'
      BY <1>0, <1>3, Known, ParmsSet DEF InForce
    <3> QED
      BY <1>3, <3>1, Known DEF Fits, Busy, Parm
  <2>2. Unprepare(m_channels) = NoChannel
    BY <1>0, Known, Unprepares
  <2>3. PICK r \in PreparePreview(NoChannel, parm'.zsl, parm'.hint) :
             /\ m_channels' = r.ch /\ UNCHANGED <<window, shot>>
             /\ m_state' = IF r.rc = "ok" THEN m_state ELSE "PREVIEW_STOPPED"
             /\ thread' = IF r.rc = "hang" THEN "hangs" ELSE thread
    BY <1>3, <2>2 DEF Preview, Outcome
  <2>4. \/ r = Result("ok", PreparedChannels(parm'.zsl, parm'.hint))
        \/ r = Result("fail", NoChannel)
    BY <2>1, Prepares
  <2>5. CASE r = Result("ok", PreparedChannels(parm'.zsl, parm'.hint))
    <3>1. m_channels' = PreparedChannels(parm'.zsl, parm'.hint) /\ m_state' = "PREVIEW_READY" /\ thread' = thread
      BY <2>3, <2>5 DEF Result
    <3>2. Exist(m_channels', m_state', parm') /\ Streaming(m_channels', m_state', parm')
      BY <1>0, <2>1, <3>1, Fitting
    <3>3. m_channels' \in Tables
      BY <2>1, <3>1, PreparedTypes
    <3> QED
      BY <1>0, <2>1, <2>3, <3>1, <3>2, <3>3, Known, PreviewStep
  <2>6. CASE r = Result("fail", NoChannel)
    <3>1. m_channels' = NoChannel /\ m_state' = "PREVIEW_STOPPED" /\ thread' = thread
      BY <2>3, <2>6 DEF Result
    <3>2. Exist(m_channels', m_state', parm') /\ Streaming(m_channels', m_state', parm')
          /\ NoChannel \in Tables
      BY <1>0, <2>1, <3>1, Fitting DEF StreamStates, ShotStates
    <3> QED
      BY <1>0, <2>1, <2>3, <3>1, <3>2, Known, PreviewStep
  <2> QED
    BY <2>4, <2>5, <2>6
<1>4. CASE ~NeedRestart(e.parm) /\ SetParams(e.parm)
  BY <1>0, <1>4, SetStep
<1>5. CASE Preview({Result("ok", Unprepare(m_channels))}, "PREVIEW_STOPPED", m_state) /\ UNCHANGED parm
  <2>1. Unprepare(m_channels) = NoChannel
    BY <1>0, Known, Unprepares
  <2>2. m_channels' = NoChannel /\ m_state' = "PREVIEW_STOPPED" /\ UNCHANGED <<parm, shot, thread, window>>
    BY <1>5, <2>1 DEF Preview, Outcome, Result
  <2> QED
    BY <1>0, <2>2, Known, StopsStep
<1>6. CASE e.evt \in Commands /\ SendCommand(e, m_state)
  BY <1>0, <1>6, CommandStep DEF IsCaptureRunning
<1>7. CASE Nothing
  BY <1>7, NothingStep
<1> QED
  BY <1>1, <1>2, <1>3, <1>4, <1>5, <1>6, <1>7 DEF InReady

\* Recording starts with the hint set: the video channel of the preview is started.
LEMMA HintRecords ==
  ASSUME Core, parm.hint, m_state \in {"PREVIEWING", "PREVIEW_PIC_TAKING"},
         NEW r \in StartRecording(m_channels, parm.hint)
  PROVE  \/ /\ r.rc = "ok" /\ r.ch \in Tables /\ r.ch["VIDEO"] = "active"
            /\ \A t \in Channels \ {"VIDEO"} : r.ch[t] = m_channels[t]
         \/ r = Result("fail", m_channels)
<1>1. r \in Start(m_channels, "VIDEO") /\ "VIDEO" \in Channels
  BY DEF StartRecording, Channels
<1>2. \/ r = Result("ok", [m_channels EXCEPT !["VIDEO"] = "active"])
      \/ r = Result("fail", m_channels)
  BY <1>1, Known, Starts
<1>3. ASSUME r = Result("ok", [m_channels EXCEPT !["VIDEO"] = "active"])
      PROVE  r.rc = "ok" /\ r.ch = [m_channels EXCEPT !["VIDEO"] = "active"]
  BY <1>3 DEF Result
<1> QED
  BY <1>1, <1>2, <1>3, Known DEF Tables, ChannelStates

\* Parameters restart the preview.
LEMMA RestartStep ==
  ASSUME Core, device' = device, m_state = "PREVIEWING", NEW p \in Params, ~longshot,
         RestartPreview(p, "PREVIEW_STOPPED")
  PROVE  Core'
<1>1. parm' \in Parm /\ InForce' /\ parm'.zsl \in BOOLEAN /\ parm'.hint \in BOOLEAN
  <2>1. parm' = Committed(Updated(p))
    BY DEF RestartPreview
  <2>2. parm' \in Parm /\ InForce'
    BY <2>1, Known, ParmsSet DEF InForce
  <2> QED
    BY <2>2 DEF Parm
<1>2. StopPreview(m_channels) = NoChannel
  BY PreviewTable, Unprepares
<1>3. PICK r \in BeginPreview(NoChannel, parm'.zsl, parm'.hint) :
           /\ m_channels' = r.ch /\ UNCHANGED <<window, shot>>
           /\ m_state' = IF r.rc = "ok" THEN m_state ELSE "PREVIEW_STOPPED"
           /\ thread' = IF r.rc = "hang" THEN "hangs" ELSE thread
  BY <1>2 DEF RestartPreview, Preview, Outcome
<1>4. \/ r = Result("ok", PreviewChannels(parm'.zsl, parm'.hint))
      \/ r = Result("fail", NoChannel)
  BY <1>1, Begins
<1>5. "PREVIEWING" \in States \ PicStates /\ "PREVIEW_STOPPED" \in States \ PicStates
  BY DEF States, PicStates
<1>6. CASE r = Result("ok", PreviewChannels(parm'.zsl, parm'.hint))
  <2>1. m_channels' = PreviewChannels(parm'.zsl, parm'.hint) /\ m_state' = "PREVIEWING" /\ thread' = thread
    BY <1>3, <1>6 DEF Result
  <2>2. Exist(m_channels', m_state', parm') /\ Streaming(m_channels', m_state', parm')
    BY <1>1, <1>5, <2>1, Fitting
  <2>3. m_channels' \in Tables
    BY <1>1, <2>1, PreparedTypes
  <2> QED
    BY <1>1, <1>3, <1>5, <2>1, <2>2, <2>3, Known, PreviewStep
<1>7. CASE r = Result("fail", NoChannel)
  <2>1. m_channels' = NoChannel /\ m_state' = "PREVIEW_STOPPED" /\ thread' = thread
    BY <1>3, <1>7 DEF Result
  <2>2. Exist(m_channels', m_state', parm') /\ Streaming(m_channels', m_state', parm')
        /\ NoChannel \in Tables
    BY <1>1, <1>5, <2>1, Fitting DEF StreamStates, ShotStates
  <2> QED
    BY <1>1, <1>3, <1>5, <2>1, <2>2, Known, PreviewStep
<1> QED
  BY <1>4, <1>6, <1>7

\* A film starts from the preview.
LEMMA RecordStep ==
  ASSUME Core, device' = device, m_state = "PREVIEWING", ~longshot, Record("RECORDING")
  PROVE  Core'
<1>0. "RECORDING" \in States \ PicStates /\ "PREVIEWING" \in States \ PicStates /\ "SNAPSHOT" \in Channels
      /\ "VIDEO" \in Channels /\ m_channels["SNAPSHOT"] # "active"
  BY DEF States, PicStates, Channels, Core, ChannelsFit, Exist, ShotStates
<1>1. PICK r \in StartRecording(m_channels, parm.hint) :
           /\ m_channels' = r.ch /\ UNCHANGED <<window, shot>>
           /\ m_state' = IF r.rc = "ok" THEN "RECORDING" ELSE m_state
           /\ thread' = IF r.rc = "hang" THEN "hangs" ELSE thread
  BY DEF Record, Preview, Outcome
<1>2. CASE parm.hint
  <2>1. parm' = parm /\ InForce'
    BY <1>2, Known DEF Record, InForce
  <2>2. CASE /\ r.rc = "ok" /\ r.ch \in Tables /\ r.ch["VIDEO"] = "active"
             /\ \A t \in Channels \ {"VIDEO"} : r.ch[t] = m_channels[t]
    <3>1. m_state' = "RECORDING" /\ thread' = thread
      BY <1>1, <2>2
    <3>2. "VIDEO" \in Allowed("RECORDING", parm) /\ Allowed("RECORDING", parm) = Allowed(m_state, parm)
      BY <1>2 DEF Allowed, Prepared
    <3>3. Exist(m_channels, m_state, parm)
      BY DEF Core, ChannelsFit
    <3>4. Exist(m_channels', m_state', parm')
      BY <1>0, <1>1, <2>1, <2>2, <3>1, <3>2, <3>3 DEF Exist
    <3>5. Sound => Streaming(m_channels', m_state', parm')
      BY <1>1, <2>2, <3>1 DEF Core, ChannelsFit, Streaming, Streams, StreamStates, Channels
    <3> QED
      BY <1>0, <1>1, <1>2, <2>1, <2>2, <3>1, <3>4, <3>5, Known, PreviewStep
  <2>3. CASE r = Result("fail", m_channels)
    <3>1. m_channels' = m_channels /\ m_state' = m_state /\ thread' = thread
      BY <1>1, <2>3 DEF Result
    <3> QED
      BY <1>1, <2>1, <3>1, Known, SameStep DEF shot, Core, HalTypes
  <2> QED
    BY <1>1, <1>2, <2>2, <2>3, HintRecords
<1>3. CASE ~parm.hint
  <2>1. parm' = Committed([parm EXCEPT !.hintNew = TRUE])
    BY <1>3 DEF Record
  <2>2. parm' \in Parm /\ InForce' /\ parm'.hint
    BY <2>1, Known, HintSet DEF InForce
  <2>3. r \in StartRecording(m_channels, FALSE)
    BY <1>3, Known
  <2>4. \/ r = Result("ok", FilmChannels)
        \/ /\ r.rc = "fail" /\ ("add" \in device.faults \/ "start" \in device.faults)
           /\ r.ch \in {NoChannel, PreparedChannels(FALSE, TRUE), PreviewChannels(FALSE, TRUE)}
    BY <2>3, Known, PreviewTable, Records
  <2>5. CASE r = Result("ok", FilmChannels)
    <3>1. m_channels' = FilmChannels /\ m_state' = "RECORDING" /\ thread' = thread
      BY <1>1, <2>5 DEF Result
    <3>2. Exist(m_channels', m_state', parm') /\ Streaming(m_channels', m_state', parm')
      BY <1>0, <2>2, <3>1, Fitting
    <3> QED
      BY <1>0, <1>1, <2>2, <3>1, <3>2, FilmTypes, Known, PreviewStep
  <2>6. CASE /\ r.rc = "fail" /\ ("add" \in device.faults \/ "start" \in device.faults)
             /\ r.ch \in {NoChannel, PreparedChannels(FALSE, TRUE), PreviewChannels(FALSE, TRUE)}
    <3>1. m_channels' = r.ch /\ m_state' = "PREVIEWING" /\ thread' = thread
      BY <1>1, <2>6
    <3>2. ~Sound
      BY <2>6 DEF Sound
    <3>3. parm'.hint = TRUE
      BY <2>2 DEF Parm
    <3>4. Exist(r.ch, "PREVIEWING", parm')
      BY <1>0, <2>2, <2>6, <3>3, Fitting
    <3>5. r.ch \in Tables
      BY <2>6, PreparedTypes DEF NoChannel, Tables, ChannelStates
    <3> QED
      BY <1>0, <1>1, <2>2, <3>1, <3>2, <3>4, <3>5, Known, PreviewStep
  <2> QED
    BY <2>4, <2>5, <2>6
<1> QED
  BY <1>2, <1>3

\* The controls of a preview that streams.
LEMMA ControlsStep ==
  ASSUME Core, device' = device, m_state = "PREVIEWING", NEW e \in ApiEvent, Fits(e),
         PreviewingControls(e)
  PROVE  Core'
<1>0. m_state \notin PicStates /\ e.parm \in Params /\ PreviewOnly(m_channels)
  BY PreviewTable DEF PicStates, ApiEvent
<1>1. CASE e.evt = "SET_PARAMS" /\ NeedRestart(e.parm) /\ RestartPreview(e.parm, "PREVIEW_STOPPED")
  <2>1. ~longshot
    BY <1>1 DEF Fits, Busy
  <2> QED
    BY <1>0, <1>1, <2>1, RestartStep
<1>2. CASE ~NeedRestart(e.parm) /\ SetParams(e.parm)
  BY <1>0, <1>2, SetStep
<1>3. CASE Preview({Result("ok", StopPreview(m_channels))}, "PREVIEW_STOPPED", m_state) /\ UNCHANGED parm
  <2>1. StopPreview(m_channels) = NoChannel
    BY <1>0, Known, Unprepares
  <2>2. m_channels' = NoChannel /\ m_state' = "PREVIEW_STOPPED" /\ UNCHANGED <<parm, shot, thread, window>>
    BY <1>3, <2>1 DEF Preview, Outcome, Result
  <2> QED
    BY <1>0, <2>2, Known, StopsStep
<1>4. CASE e.evt = "START_RECORDING" /\ Record("RECORDING")
  <2>1. ~longshot
    BY <1>4 DEF Fits
  <2> QED
    BY <1>4, <2>1, RecordStep
<1>5. CASE /\ m_state' = "PREPARE_SNAPSHOT" \/ ("start" \in device.faults /\ m_state' = m_state)
           /\ UNCHANGED <<thread, window, parm, m_channels, shot>>
  <2>1. m_state' \in States \ PicStates /\ m_state' # "RECORDING" /\ m_state' \notin ShotStates
        /\ m_state' \in {"PREVIEWING", "PREPARE_SNAPSHOT"}
    BY <1>5 DEF States, PicStates, ShotStates
  <2>2. InForce' /\ parm' = parm /\ (longshot => parm'.zsl /\ ~parm'.hint)
    BY <1>5, Known DEF InForce
  <2>3. Exist(m_channels', m_state', parm') /\ (Sound => Streaming(m_channels', m_state', parm'))
    BY <1>5, <2>1, <2>2 DEF Core, ChannelsFit, Exist, Streaming, Allowed, StreamStates, ShotStates
  <2> QED
    BY <1>0, <1>5, <2>1, <2>2, <2>3, Known, PreviewStep
<1>6. CASE e.evt \in Commands /\ SendCommand(e, m_state)
  BY <1>0, <1>6, CommandStep DEF IsCaptureRunning
<1>7. CASE Nothing
  BY <1>7, NothingStep
<1> QED
  BY <1>1, <1>2, <1>3, <1>4, <1>5, <1>6, <1>7 DEF PreviewingControls

\* A picture begins from a preview without the hint: with the ZSL channel, or with
\* one of its own.
LEMMA PictureStep ==
  ASSUME Core, device' = device, m_state = "PREVIEWING", "advanced" \notin device.faults, ~parm.hint,
         TakePicture
  PROVE  Core'
<1>0. /\ m_state \notin PicStates /\ "PREVIEW_PIC_TAKING" \in States /\ "PREVIEWING" \in States
      /\ "PIC_TAKING" \in States /\ "PREVIEW_STOPPED" \in States
      /\ armed \in {"no", "job", "shot"} /\ parm' = parm /\ InForce' /\ pproc = FALSE /\ reproc = FALSE
      /\ live # "runs"
      /\ "SNAPSHOT" \in Channels
  <2>1. parm' = parm
    BY DEF TakePicture, TakeLive
  <2> QED
    BY <2>1, Known DEF PicStates, States, Core, HalTypes, InForce, Channels
<1>1. CASE /\ parm.zsl /\ Outcome(TakeZsl(m_channels), Taking, NotTaking)
           /\ pproc' \in {m_state' = Taking,
                          m_state' = Taking \/ ("advanced" \in device.faults /\ m_channels["ZSL"] # "none")}
           /\ armed' = IF pproc' THEN Job ELSE "no"
           /\ UNCHANGED <<longshot, live, reproc, parm>>
  <2>1. PICK r \in TakeZsl(m_channels) :
             /\ m_channels' = r.ch /\ UNCHANGED window
             /\ m_state' = IF r.rc = "ok" THEN Taking ELSE NotTaking
             /\ thread' = IF r.rc = "hang" THEN "hangs" ELSE thread
    BY <1>1 DEF Outcome
  <2>2. Taking = "PREVIEW_PIC_TAKING" /\ NotTaking = "PREVIEWING"
    BY <1>1 DEF Taking, NotTaking
  <2>3. r = Result("ok", m_channels) \/ r = Result("fail", m_channels)
    BY DEF TakeZsl, Fails
  <2>4. m_channels' = m_channels /\ m_state' \in {"PREVIEW_PIC_TAKING", "PREVIEWING"}
        /\ (thread' = thread)
    BY <2>1, <2>2, <2>3 DEF Result
  <2>5. pproc' = (m_state' = "PREVIEW_PIC_TAKING") /\ armed' \in {"no", "job", "shot"}
    BY <1>1, <2>2 DEF Job
  <2>6. HalTypes'
    BY <1>0, <1>1, <2>1, <2>4, <2>5 DEF Core, HalTypes
  <2>7. ModesFit' /\ Working'
    BY <1>0, <1>1, <2>4, <2>5 DEF Core, ModesFit, Working, PicStates
  <2>8. m_channels["SNAPSHOT"] # "active"
    BY <1>0 DEF Core, ChannelsFit, Exist, ShotStates
  <2>9. ChannelsFit'
    BY <1>0, <2>4, <2>8 DEF Core, ChannelsFit, Exist, Streaming, Allowed, Sound, StreamStates, ShotStates
  <2> QED
    BY <1>0, <2>6, <2>7, <2>9 DEF Core
<1>2. CASE ~parm.zsl /\ ~(parm.hint /\ TakeLive("PREVIEW_PIC_TAKING"))
  <2>1. ~longshot /\ Taking = "PIC_TAKING" /\ NotTaking = "PREVIEW_STOPPED"
    BY <1>2, Known DEF Taking, NotTaking
  <2>2. Del(m_channels, {"PREVIEW"}) = NoChannel
    <3>1. \A t \in Channels : m_channels[t] # "none" => t = "PREVIEW"
      BY <1>2 DEF Core, ChannelsFit, Exist, Allowed, Prepared, PreviewChannel
    <3> QED
      BY <3>1 DEF Del, NoChannel
  <2>3. ASSUME NEW t \in {"CAPTURE", "RAW"}, t = (IF parm.raw THEN "RAW" ELSE "CAPTURE"),
               m_channels' = PictureChannel(t), m_state' = "PIC_TAKING", thread' = thread, window' = window,
               UNCHANGED <<longshot, live, parm>>, pproc' \in BOOLEAN, reproc' \in BOOLEAN,
               armed' \in {"no", "job", "shot"}
        PROVE  Core'
    <3>1. t \in Channels /\ t # "SNAPSHOT"
      BY DEF Channels
    <3>2. /\ PictureChannel(t) \in Tables
          /\ \A u \in Channels : PictureChannel(t)[u] = IF u = t THEN "active" ELSE "none"
      BY <3>1 DEF PictureChannel, NoChannel, Tables, ChannelStates
    <3>3. Exist(m_channels', m_state', parm')
      BY <1>0, <2>3, <3>1, <3>2 DEF Exist, Allowed
    <3>4. Streaming(m_channels', m_state', parm')
      BY <2>3 DEF Streaming, StreamStates, ShotStates
    <3>5. HalTypes'
      BY <1>0, <2>3, <3>2 DEF Core, HalTypes, Tables
    <3>6. ModesFit' /\ Working'
      BY <1>0, <1>2, <2>1, <2>3 DEF Core, ModesFit, Working, PicStates
    <3> QED
      BY <1>0, <3>3, <3>4, <3>5, <3>6 DEF Core, ChannelsFit
  <2>4. ASSUME m_channels' = NoChannel, m_state' = "PREVIEW_STOPPED", thread' \in {"runs", "hangs"},
               window' = window, UNCHANGED <<longshot, live, parm>>, pproc' = FALSE, reproc' = FALSE,
               armed' \in {"no", "job", "shot"}
        PROVE  Core'
    BY <1>0, <2>1, <2>4, Known, Cleared
  <2>5. CASE /\ ~parm.raw /\ Outcome(TakeCapture(m_channels, longshot), Taking, NotTaking)
             /\ reproc' = (m_channels'["CAPTURE"] = "active")
             /\ UNCHANGED <<longshot, live, pproc, armed, parm>>
    <3>1. PICK r \in TakeCapture(m_channels, FALSE) :
               /\ m_channels' = r.ch /\ UNCHANGED window
               /\ m_state' = IF r.rc = "ok" THEN "PIC_TAKING" ELSE "PREVIEW_STOPPED"
               /\ thread' = IF r.rc = "hang" THEN "hangs" ELSE thread
      <4>1. longshot = FALSE
        BY <2>1, Known
      <4> QED
        BY <2>1, <2>5, <4>1 DEF Outcome
    <3>2. \/ r = Result("ok", PictureChannel("CAPTURE"))
          \/ r.rc \in {"fail", "hang"} /\ r.ch = NoChannel
      BY <2>2, Known, Captures
    <3>3. CASE r = Result("ok", PictureChannel("CAPTURE"))
      <4>1. m_channels' = PictureChannel("CAPTURE") /\ m_state' = "PIC_TAKING" /\ thread' = thread
        BY <3>1, <3>3 DEF Result
      <4>2. pproc' \in BOOLEAN /\ reproc' \in BOOLEAN /\ armed' = armed
        BY <1>0, <2>5
      <4> QED
        BY <1>0, <2>3, <2>5, <3>1, <4>1, <4>2
    <3>4. CASE r.rc \in {"fail", "hang"} /\ r.ch = NoChannel
      <4>1. m_channels' = NoChannel /\ m_state' = "PREVIEW_STOPPED" /\ thread' \in {"runs", "hangs"}
        BY <3>1, <3>4, Known
      <4>2. NoChannel["CAPTURE"] = "none"
        BY DEF NoChannel, Channels
      <4>3. pproc' = FALSE /\ reproc' = FALSE /\ armed' = armed
        BY <1>0, <2>5, <4>1, <4>2
      <4> QED
        BY <1>0, <2>4, <2>5, <3>1, <4>1, <4>3
    <3> QED
      BY <3>2, <3>3, <3>4
  <2>6. CASE /\ parm.raw /\ Outcome(TakeRaw(m_channels), Taking, NotTaking)
             /\ pproc' = (m_state' = Taking)
             /\ armed' = IF pproc' /\ ~longshot THEN "shot" ELSE "no"
             /\ UNCHANGED <<longshot, live, reproc, parm>>
    <3>1. PICK r \in TakeRaw(m_channels) :
               /\ m_channels' = r.ch /\ UNCHANGED window
               /\ m_state' = IF r.rc = "ok" THEN "PIC_TAKING" ELSE "PREVIEW_STOPPED"
               /\ thread' = IF r.rc = "hang" THEN "hangs" ELSE thread
      BY <2>1, <2>6 DEF Outcome
    <3>2. r = Result("ok", PictureChannel("RAW")) \/ r = Result("fail", NoChannel)
      BY <2>2, Known, Raws
    <3>3. CASE r = Result("ok", PictureChannel("RAW"))
      <4>1. m_channels' = PictureChannel("RAW") /\ m_state' = "PIC_TAKING" /\ thread' = thread
        BY <3>1, <3>3 DEF Result
      <4>2. pproc' \in BOOLEAN /\ reproc' \in BOOLEAN /\ armed' \in {"no", "job", "shot"}
        BY <1>0, <2>6
      <4> QED
        BY <1>0, <2>3, <2>6, <3>1, <4>1, <4>2
    <3>4. CASE r = Result("fail", NoChannel)
      <4>1. m_channels' = NoChannel /\ m_state' = "PREVIEW_STOPPED" /\ thread' = thread
        BY <3>1, <3>4 DEF Result
      <4>2. pproc' = FALSE /\ reproc' = FALSE /\ armed' \in {"no", "job", "shot"}
        BY <1>0, <2>1, <2>6, <4>1
      <4> QED
        BY <1>0, <2>4, <2>6, <3>1, <4>1, <4>2, Known
    <3> QED
      BY <3>2, <3>3, <3>4
  <2> QED
    BY <1>2, <2>5, <2>6 DEF TakePicture
<1> QED
  BY <1>1, <1>2 DEF TakePicture

\* A live snapshot begins beside a preview or a film with the hint.
LEMMA LiveStep ==
  ASSUME Core, device' = device, parm.hint, ~parm.zsl, NEW st, TakeLive(st),
         \/ m_state = "PREVIEWING" /\ st = "PREVIEW_PIC_TAKING"
         \/ m_state = "RECORDING" /\ st = "VIDEO_PIC_TAKING"
  PROVE  Core'
<1>1. m_state' = st /\ live' = "runs" /\ UNCHANGED <<thread, window, parm, m_channels, longshot, pproc, armed, reproc>>
      /\ InForce'
  BY Known DEF TakeLive, InForce
<1>2. HalTypes'
  BY <1>1 DEF Core, HalTypes, States
<1>3. ModesFit' /\ Working'
  BY <1>1 DEF Core, ModesFit, Working, PicStates, ShotStates
<1>4. ChannelsFit'
  BY <1>1 DEF Core, ChannelsFit, Exist, Streaming, Allowed, Sound, StreamStates, ShotStates
<1> QED
  BY <1>1, <1>2, <1>3, <1>4 DEF Core

\* A picture with the preview stopped ends without channels.
LEMMA EndsPictureStep ==
  ASSUME Core, device' = device, m_state = "PIC_TAKING", EndsPicture("PREVIEW_STOPPED")
  PROVE  Core'
<1>1. /\ ~reproc /\ pproc' = FALSE /\ armed' = "no" /\ m_state' = "PREVIEW_STOPPED"
      /\ m_channels' = EndPicture(m_channels, parm.zsl, parm.raw)
      /\ UNCHANGED <<live, reproc, thread, window, parm, longshot>>
  BY DEF EndsPicture, CancelPicture
<1>2. ~parm.zsl /\ live # "runs"
  BY DEF Core, ModesFit, Working, ShotStates
<1>3. m_channels' = NoChannel
  <2>1. \A t \in Channels : m_channels[t] # "none" => t = IF parm.raw THEN "RAW" ELSE "CAPTURE"
    BY DEF Core, ChannelsFit, Exist, Allowed
  <2>2. m_channels' = Del(m_channels, {IF parm.raw THEN "RAW" ELSE "CAPTURE"})
    BY <1>1, <1>2 DEF EndPicture
  <2> QED
    BY <2>1, <2>2 DEF Del, NoChannel
<1>4. live' \in {"none", "ended"} /\ reproc' = FALSE
  BY <1>1, <1>2 DEF Core, HalTypes
<1>5. InForce'
  BY <1>1, Known DEF InForce
<1> QED
  BY <1>1, <1>3, <1>4, <1>5, Known, Cleared

\* While a picture is taken its channel may be stopped, but not deleted.
LEMMA PicTakingStep ==
  ASSUME Core, device' = device, m_state = "PIC_TAKING", NEW e \in ApiEvent, Fits(e), ~EarlyRestart,
         InPicTaking(e)
  PROVE  Core'
<1>0. IsCaptureRunning /\ e.parm \in Params /\ ~longshot
  BY DEF IsCaptureRunning, PicStates, ApiEvent, Core, ModesFit
<1>1. CASE e.evt = "SET_PARAMS" /\ SetParams(e.parm)
  <2>1. ~NeedRestart(e.parm)
    BY <1>0, <1>1 DEF Fits, Busy
  <2> QED
    BY <1>0, <1>1, <2>1, SetStep
<1>2. CASE EndsPicture("PREVIEW_STOPPED")
  BY <1>2, EndsPictureStep
<1>3. CASE StopCaptureChannel /\ UNCHANGED parm
  <2> DEFINE c == StopCapture(m_channels, parm.raw, EarlyRestart)
  <2>1. m_channels' = c /\ UNCHANGED <<m_state, thread, window, shot, parm>>
    BY <1>3 DEF StopCaptureChannel, Preview, Outcome, Result
  <2>2. c = m_channels \/ c = Stop(m_channels, {"CAPTURE"})
    BY DEF StopCapture
  <2>3. /\ c \in Tables
        /\ \A t \in Channels : (c[t] = "none" <=> m_channels[t] = "none")
                               /\ (c[t] = "gone" <=> m_channels[t] = "gone")
                               /\ (c[t] = "active" => m_channels[t] = "active")
    BY <2>2, Known, Stops
  <2> HIDE DEF c
  <2>4. InForce' /\ HalTypes' /\ ModesFit' /\ Working'
    BY <2>1, <2>3 DEF Core, InForce, HalTypes, ModesFit, Working, shot, Tables
  <2>5. "SNAPSHOT" \in Channels
    BY DEF Channels
  <2>6. ChannelsFit'
    BY <2>1, <2>3, <2>5 DEF Core, ChannelsFit, Exist, Streaming, StreamStates, ShotStates
  <2> QED
    BY <2>4, <2>6 DEF Core
<1>4. CASE e.evt \in Commands /\ \/ e.evt = "LONGSHOT_ON" /\ SendCommand(e, m_state)
                                 \/ e.evt = "LONGSHOT_OFF" /\ SendCommand(e, "PREVIEWING")
  BY <1>0, <1>4, CommandStep
<1>5. CASE Nothing
  BY <1>5, NothingStep
<1> QED
  BY <1>1, <1>2, <1>3, <1>4, <1>5 DEF InPicTaking, Commands

\* A film takes live snapshots, and ends with or without its preview.
LEMMA RecordingStep ==
  ASSUME Core, device' = device, m_state = "RECORDING", NEW e \in ApiEvent, Fits(e), InRecording(e)
  PROVE  Core'
<1>0. /\ m_state \notin PicStates /\ e.parm \in Params /\ PreviewOnly(m_channels) /\ parm.hint /\ ~longshot
      /\ "PREVIEWING" \in States \ PicStates /\ {"ZSL", "PREVIEW"} \subseteq Channels
  BY PreviewTable DEF PicStates, ApiEvent, Core, ModesFit, States, Channels
<1>1. CASE e.evt = "SET_PARAMS" /\ RefuseRestart(e.parm)
  <2>1. ~NeedRestart(e.parm)
    BY <1>1 DEF Fits, Busy
  <2>2. SetParams(e.parm)
    BY <1>1, <2>1 DEF RefuseRestart, SetParams
  <2> QED
    BY <1>0, <2>1, <2>2, SetStep
<1>2. CASE e.evt \in Commands /\ SendCommand(e, m_state)
  BY <1>0, <1>2, CommandStep DEF IsCaptureRunning
<1>3. CASE e.evt = "TAKE_PICTURE" /\ TakeLive("VIDEO_PIC_TAKING")
  <2>1. ~parm.zsl
    BY <1>0, <1>3 DEF Fits
  <2> QED
    BY <1>0, <1>3, <2>1, LiveStep
<1>4. CASE Preview({Result("ok", StopRecording(m_channels))}, "PREVIEWING", m_state) /\ UNCHANGED parm
  <2> DEFINE c == Stop(m_channels, {"VIDEO"})
  <2>1. m_channels' = c /\ m_state' = "PREVIEWING" /\ UNCHANGED <<thread, window, shot, parm>>
    BY <1>4 DEF Preview, Outcome, Result, StopRecording
  <2>2. /\ c \in Tables
        /\ \A t \in Channels : (c[t] = "none" <=> m_channels[t] = "none")
                               /\ (c[t] = "gone" <=> m_channels[t] = "gone")
                               /\ (c[t] = "active" <=> m_channels[t] = "active" /\ t \notin {"VIDEO"})
    BY Known, Stops
  <2> HIDE DEF c
  <2>3. m_channels["SNAPSHOT"] # "active" /\ "SNAPSHOT" \in Channels
    BY DEF Core, ChannelsFit, Exist, ShotStates, Channels
  <2>4. Exist(c, "PREVIEWING", parm)
    BY <2>2, <2>3 DEF Core, ChannelsFit, Exist, Allowed
  <2>5. Sound => Streaming(c, "PREVIEWING", parm)
    BY <1>0, <2>2 DEF Core, ChannelsFit, Streaming, Streams, StreamStates, ShotStates
  <2>6. InForce'
    BY <2>1, Known DEF InForce
  <2> QED
    BY <1>0, <2>1, <2>2, <2>4, <2>5, <2>6, Known, PreviewStep
<1>5. CASE Preview({Result("ok", StopPreview(StopRecording(m_channels)))}, "PREVIEW_STOPPED", m_state)
           /\ UNCHANGED parm
  <2>1. StopPreview(StopRecording(m_channels)) = NoChannel
    <3>1. Stop(m_channels, {"VIDEO"}) \in Tables /\ PreviewOnly(Stop(m_channels, {"VIDEO"}))
      BY <1>0, Known, Unprepares
    <3> QED
      BY <3>1, Unprepares DEF StopRecording
  <2>2. m_channels' = NoChannel /\ m_state' = "PREVIEW_STOPPED" /\ UNCHANGED <<parm, shot, thread, window>>
    BY <1>5, <2>1 DEF Preview, Outcome, Result
  <2> QED
    BY <1>0, <2>2, Known, StopsStep
<1>6. CASE Nothing
  BY <1>6, NothingStep
<1> QED
  BY <1>1, <1>2, <1>3, <1>4, <1>5, <1>6 DEF InRecording

\* A live snapshot ends and leaves its film or preview, or the film ends with it.
LEMMA EndsLiveStep ==
  ASSUME Core, device' = device, m_state \in ShotStates, parm.hint, NEW T \in SUBSET {"SNAPSHOT", "VIDEO"},
         "SNAPSHOT" \in T, NEW st, EndsLive(Stop(m_channels, T), st),
         \/ st = "PREVIEWING"
         \/ st = "RECORDING" /\ m_state = "VIDEO_PIC_TAKING" /\ T = {"SNAPSHOT"}
  PROVE  Core'
<1> DEFINE c == Stop(m_channels, T)
<1>1. /\ live # "runs" /\ live' = "none" /\ pproc' = FALSE /\ armed' = "no" /\ m_channels' = c
      /\ m_state' = st /\ UNCHANGED <<longshot, reproc, thread, window, parm>>
  BY DEF EndsLive, CancelLive
<1>2. /\ c \in Tables
      /\ \A t \in Channels : (c[t] = "none" <=> m_channels[t] = "none")
                             /\ (c[t] = "gone" <=> m_channels[t] = "gone")
                             /\ (c[t] = "active" <=> m_channels[t] = "active" /\ t \notin T)
  BY Known, Stops
<1> HIDE DEF c
<1>3. {"SNAPSHOT", "ZSL", "PREVIEW", "VIDEO"} \subseteq Channels
  BY DEF Channels
<1>4. c["SNAPSHOT"] # "active" /\ (Streams(m_channels) => Streams(c))
  BY <1>2, <1>3 DEF Streams
<1>5. Exist(c, st, parm)
  BY <1>2, <1>4 DEF Core, ChannelsFit, Exist, Allowed, ShotStates
<1>6. Sound => Streaming(c, st, parm)
  BY <1>2, <1>3, <1>4 DEF Core, ChannelsFit, Streaming, StreamStates, ShotStates
<1>7. InForce'
  BY <1>1, Known DEF InForce
<1>8. HalTypes'
  BY <1>1, <1>2 DEF Core, HalTypes, States, Tables
<1>9. ModesFit' /\ Working'
  <2>1. ~reproc /\ ~longshot
    BY DEF Core, Working, ShotStates, ModesFit
  <2> QED
    BY <1>1, <2>1 DEF Core, ModesFit, Working
<1> QED
  BY <1>1, <1>5, <1>6, <1>7, <1>8, <1>9 DEF Core, ChannelsFit, Sound

\* A live snapshot ends together with the preview.
LEMMA StopsLiveStep ==
  ASSUME Core, device' = device, m_state \in ShotStates, ~longshot, EndsLive(NoChannel, "PREVIEW_STOPPED")
  PROVE  Core'
<1>1. /\ live' = "none" /\ pproc' = FALSE /\ armed' = "no" /\ m_channels' = NoChannel
      /\ m_state' = "PREVIEW_STOPPED" /\ UNCHANGED <<longshot, reproc, thread, window, parm>>
  BY DEF EndsLive, CancelLive
<1>2. reproc' = FALSE /\ InForce'
  BY <1>1, Known DEF Core, HalTypes, Working, ShotStates, InForce
<1> QED
  BY <1>1, <1>2, Known, Cleared

\* The states of a live snapshot in a film.
LEMMA VideoPicStep ==
  ASSUME Core, device' = device, m_state = "VIDEO_PIC_TAKING", NEW e \in ApiEvent, Fits(e),
         InVideoPicTaking(e)
  PROVE  Core'
<1>0. /\ IsCaptureRunning /\ e.parm \in Params /\ PreviewOnly(m_channels) /\ parm.hint /\ ~parm.zsl /\ ~longshot
      /\ m_state \in ShotStates
  BY PreviewTable DEF IsCaptureRunning, PicStates, ApiEvent, Core, ModesFit, ShotStates
<1>1. CASE e.evt = "SET_PARAMS" /\ RefuseRestart(e.parm)
  <2>1. ~NeedRestart(e.parm)
    BY <1>0, <1>1 DEF Fits, Busy
  <2>2. SetParams(e.parm)
    BY <1>1, <2>1 DEF RefuseRestart, SetParams
  <2> QED
    BY <1>0, <2>1, <2>2, SetStep
<1>2. CASE e.evt \in Commands /\ SendCommand(e, m_state)
  <2>1. FALSE
    BY <1>0, <1>2 DEF Fits, Commands
  <2> QED
    BY <2>1
<1>3. CASE EndsLive(StopLive(m_channels), "RECORDING")
  BY <1>0, <1>3, EndsLiveStep DEF StopLive
<1>4. Stop(m_channels, {"SNAPSHOT"}) \in Tables /\ PreviewOnly(Stop(m_channels, {"SNAPSHOT"}))
  BY <1>0, Known, Unprepares
<1>5. Stop(Stop(m_channels, {"SNAPSHOT"}), {"VIDEO"}) = Stop(m_channels, {"SNAPSHOT", "VIDEO"})
  BY DEF Stop
<1>6. CASE EndsLive(StopRecording(StopLive(m_channels)), "PREVIEWING")
  <2>1. EndsLive(Stop(m_channels, {"SNAPSHOT", "VIDEO"}), "PREVIEWING")
    BY <1>5, <1>6 DEF StopRecording, StopLive
  <2> QED
    BY <1>0, <2>1, EndsLiveStep
<1>7. CASE EndsLive(StopPreview(StopRecording(StopLive(m_channels))), "PREVIEW_STOPPED")
  <2>1. StopPreview(Stop(m_channels, {"SNAPSHOT", "VIDEO"})) = NoChannel
    <3>1. Stop(m_channels, {"SNAPSHOT", "VIDEO"}) \in Tables
          /\ PreviewOnly(Stop(m_channels, {"SNAPSHOT", "VIDEO"}))
      BY <1>0, Known, Unprepares
    <3> QED
      BY <3>1, Unprepares
  <2>2. EndsLive(NoChannel, "PREVIEW_STOPPED")
    BY <1>5, <1>7, <2>1 DEF StopRecording, StopLive
  <2> QED
    BY <1>0, <2>2, StopsLiveStep
<1>8. CASE Nothing
  BY <1>8, NothingStep
<1> QED
  BY <1>1, <1>2, <1>3, <1>6, <1>7, <1>8 DEF InVideoPicTaking

\* A picture beside the preview ends: a ZSL picture leaves the channels, a live
\* snapshot stops its own.
LEMMA EndsPreviewPicStep ==
  ASSUME Core, device' = device, m_state = "PREVIEW_PIC_TAKING", EndsPreviewPic
  PROVE  Core'
<1>1. CASE parm.zsl \/ longshot
  <2>1. parm.zsl /\ ~parm.hint /\ live # "runs"
    BY <1>1 DEF Core, ModesFit, Working
  <2>2. /\ ~reproc /\ pproc' = FALSE /\ armed' = "no" /\ m_state' = "PREVIEWING"
        /\ m_channels' = m_channels
        /\ UNCHANGED <<live, reproc, thread, window, parm, longshot>>
    BY <1>1, <2>1 DEF EndsPreviewPic, EndsPicture, CancelPicture, EndPicture
  <2>3. "SNAPSHOT" \in Channels /\ "SNAPSHOT" \notin Allowed("PREVIEW_PIC_TAKING", parm)
    BY <2>1 DEF Channels, Allowed, Prepared, PreviewChannel
  <2>4. m_channels["SNAPSHOT"] # "active"
    BY <2>3 DEF Core, ChannelsFit, Exist
  <2>5. ChannelsFit'
    BY <2>2, <2>4 DEF Core, ChannelsFit, Exist, Streaming, Allowed, Sound, StreamStates, ShotStates
  <2>6. HalTypes' /\ InForce'
    BY <2>2 DEF Core, HalTypes, States, InForce
  <2>7. ModesFit' /\ Working'
    BY <2>1, <2>2 DEF Core, ModesFit, Working
  <2> QED
    BY <2>5, <2>6, <2>7 DEF Core
<1>2. CASE ~(parm.zsl \/ longshot)
  <2>1. EndsLive(Stop(m_channels, {"SNAPSHOT"}), "PREVIEWING") /\ parm.hint /\ m_state \in ShotStates
    BY <1>2 DEF EndsPreviewPic, StopLive, Core, ModesFit, ShotStates
  <2> QED
    BY <2>1, EndsLiveStep
<1> QED
  BY <1>1, <1>2

\* The preview is stopped while a picture is taken beside it.
LEMMA StopsPreviewPicStep ==
  ASSUME Core, device' = device, m_state = "PREVIEW_PIC_TAKING", StopsPreviewPic
  PROVE  Core'
<1>0. PreviewOnly(m_channels) /\ m_channels \in Tables
  BY Known, PreviewTable
<1>1. CASE parm.zsl \/ longshot
  <2>1. parm.zsl /\ ~parm.hint /\ live \in {"none", "ended"}
    BY <1>1 DEF Core, ModesFit, Working, HalTypes
  <2>2. Unprepare(Stop(m_channels, {"ZSL"})) = NoChannel
    <3>1. Stop(m_channels, {"ZSL"}) \in Tables /\ PreviewOnly(Stop(m_channels, {"ZSL"}))
      BY <1>0, Unprepares
    <3> QED
      BY <3>1, Unprepares
  <2>3. /\ reproc' = FALSE /\ pproc' = FALSE /\ armed' = "no" /\ m_state' = "PREVIEW_STOPPED"
        /\ m_channels' = NoChannel
        /\ UNCHANGED <<live, thread, window, parm, longshot>>
    BY <1>1, <2>1, <2>2 DEF StopsPreviewPic, EndPicture, Core, HalTypes
  <2>4. InForce'
    BY <2>3, Known DEF InForce
  <2> QED
    BY <2>1, <2>3, <2>4, Known, Cleared
<1>2. CASE ~(parm.zsl \/ longshot)
  <2>1. Unprepare(Stop(Stop(m_channels, {"SNAPSHOT"}), {"PREVIEW"})) = NoChannel
    <3>1. Stop(m_channels, {"SNAPSHOT"}) \in Tables /\ PreviewOnly(Stop(m_channels, {"SNAPSHOT"}))
      BY <1>0, Unprepares
    <3> DEFINE c == Stop(m_channels, {"SNAPSHOT"})
    <3>2. c \in Tables /\ PreviewOnly(c)
      BY <3>1
    <3> HIDE DEF c
    <3>3. Stop(c, {"PREVIEW"}) \in Tables /\ PreviewOnly(Stop(c, {"PREVIEW"}))
      BY <3>2, Unprepares
    <3>4. Unprepare(Stop(c, {"PREVIEW"})) = NoChannel
      BY <3>3, Unprepares
    <3> QED
      BY <3>4 DEF c
  <2>2. EndsLive(NoChannel, "PREVIEW_STOPPED") /\ m_state \in ShotStates
    BY <1>2, <2>1 DEF StopsPreviewPic, StopLive, ShotStates
  <2> QED
    BY <1>2, <2>2, StopsLiveStep
<1> QED
  BY <1>1, <1>2

\* A film starts while a live snapshot is taken, with the hint set already.
LEMMA RecordsBesideStep ==
  ASSUME Core, device' = device, m_state = "PREVIEW_PIC_TAKING", ~parm.zsl, ~longshot,
         Record("VIDEO_PIC_TAKING")
  PROVE  Core'
<1>1. parm.hint /\ parm' = parm /\ InForce'
  BY Known DEF Record, Core, ModesFit, InForce
<1>2. PICK r \in StartRecording(m_channels, parm.hint) :
           /\ m_channels' = r.ch /\ UNCHANGED <<window, shot>>
           /\ m_state' = IF r.rc = "ok" THEN "VIDEO_PIC_TAKING" ELSE m_state
           /\ thread' = IF r.rc = "hang" THEN "hangs" ELSE thread
  BY DEF Record, Preview, Outcome
<1>3. CASE /\ r.rc = "ok" /\ r.ch \in Tables /\ r.ch["VIDEO"] = "active"
           /\ \A t \in Channels \ {"VIDEO"} : r.ch[t] = m_channels[t]
  <2>1. m_state' = "VIDEO_PIC_TAKING" /\ thread' = thread /\ m_channels' \in Tables
    BY <1>2, <1>3
  <2>2. "VIDEO" \in Allowed("VIDEO_PIC_TAKING", parm)
        /\ Allowed("VIDEO_PIC_TAKING", parm) = Allowed(m_state, parm)
    BY <1>1 DEF Allowed, Prepared
  <2>3. Exist(m_channels', m_state', parm')
    BY <1>1, <1>2, <1>3, <2>1, <2>2 DEF Core, ChannelsFit, Exist, ShotStates
  <2>4. Sound => Streaming(m_channels', m_state', parm')
    BY <1>2, <1>3, <2>1 DEF Core, ChannelsFit, Streaming, Streams, StreamStates, ShotStates, Channels
  <2>5. HalTypes'
    BY <1>1, <1>2, <2>1 DEF Core, HalTypes, shot, States, Tables
  <2>6. ModesFit' /\ Working'
    BY <1>1, <1>2, <2>1 DEF Core, ModesFit, Working, shot, PicStates, ShotStates
  <2> QED
    BY <1>1, <2>3, <2>4, <2>5, <2>6 DEF Core, ChannelsFit, Sound
<1>4. CASE r = Result("fail", m_channels)
  <2>1. m_channels' = m_channels /\ m_state' = m_state /\ thread' = thread
    BY <1>2, <1>4 DEF Result
  <2> QED
    BY <1>1, <1>2, <2>1, Known, SameStep DEF shot, Core, HalTypes
<1> QED
  BY <1>1, <1>2, <1>3, <1>4, HintRecords

\* Every event while a picture is taken beside the preview.
LEMMA PreviewPicStep ==
  ASSUME Core, device' = device, m_state = "PREVIEW_PIC_TAKING", NEW e \in ApiEvent, Fits(e),
         InPreviewPicTaking(e)
  PROVE  Core'
<1>0. IsCaptureRunning /\ e.parm \in Params
  BY DEF IsCaptureRunning, PicStates, ApiEvent
<1>1. CASE e.evt = "SET_PARAMS" /\ NeedRestart(e.parm) /\ RestartPreview(e.parm, "PIC_TAKING")
  <2>1. FALSE
    BY <1>0, <1>1 DEF Fits, Busy
  <2> QED
    BY <2>1
<1>2. CASE ~NeedRestart(e.parm) /\ SetParams(e.parm)
  BY <1>0, <1>2, SetStep
<1>3. CASE e.evt \in Commands /\ \/ e.evt = "LONGSHOT_ON" /\ SendCommand(e, m_state)
                                 \/ e.evt = "LONGSHOT_OFF" /\ SendCommand(e, "PREVIEWING")
  BY <1>3, CommandStep
<1>4. CASE EndsPreviewPic
  BY <1>4, EndsPreviewPicStep
<1>5. CASE StopsPreviewPic
  BY <1>5, StopsPreviewPicStep
<1>6. CASE ~parm.zsl /\ ~longshot /\ Record("VIDEO_PIC_TAKING")
  BY <1>6, RecordsBesideStep
<1>7. CASE Nothing
  BY <1>7, NothingStep
<1> QED
  BY <1>1, <1>2, <1>3, <1>4, <1>5, <1>6, <1>7 DEF InPreviewPicTaking, Commands
-----------------------------------------------------------------------------
(* The thread and the threads beside it. *)

\* Every API event that fits keeps what the states promise.
LEMMA HandleStep ==
  ASSUME Core, device' = device, NEW e \in ApiEvent, Fits(e), Handle(e), ~EarlyRestart,
         "advanced" \notin device.faults
  PROVE  Core'
<1>1. CASE m_state = "PREVIEW_STOPPED" /\ InStopped(e)
  BY <1>1, StoppedStep
<1>2. CASE m_state = "PREVIEW_READY" /\ InReady(e)
  BY <1>2, ReadyStep
<1>3. CASE m_state = "PREVIEWING" /\ InPreviewing(e)
  <2>1. CASE e.evt = "TAKE_PICTURE" /\ TakePicture
    <3>1. CASE ~parm.hint
      BY <1>3, <2>1, <3>1, PictureStep
    <3>2. CASE parm.hint
      <4>1. ~parm.zsl /\ TakeLive("PREVIEW_PIC_TAKING")
        BY <2>1, <3>2 DEF Fits, TakePicture
      <4> QED
        BY <1>3, <3>2, <4>1, LiveStep
    <3> QED
      BY <3>1, <3>2
  <2>2. CASE PreviewingControls(e)
    BY <1>3, <2>2, ControlsStep
  <2> QED
    BY <1>3, <2>1, <2>2 DEF InPreviewing
<1>4. CASE Nothing
  BY <1>4, NothingStep
<1>5. CASE m_state = "PIC_TAKING" /\ InPicTaking(e)
  BY <1>5, PicTakingStep
<1>6. CASE m_state = "RECORDING" /\ InRecording(e)
  BY <1>6, RecordingStep
<1>7. CASE m_state = "VIDEO_PIC_TAKING" /\ InVideoPicTaking(e)
  BY <1>7, VideoPicStep
<1>8. CASE m_state = "PREVIEW_PIC_TAKING" /\ InPreviewPicTaking(e)
  BY <1>8, PreviewPicStep
<1> QED
  BY <1>1, <1>2, <1>3, <1>4, <1>5, <1>6, <1>7, <1>8 DEF Handle

\* What the waiting calls were checked against stays: the parameters, the long shot,
\* and that nothing goes on that would forbid a restart.
StillCalm == parm' = parm /\ longshot' = longshot /\ (Busy' => Busy)

\* The events that other threads leave keep it so.
LEMMA InternalCalm ==
  ASSUME Core, NEW e, e.evt \in {"CANCEL_PICTURE", "STOP_CAPTURE_CHANNEL"}, Handle(e), ~EarlyRestart
  PROVE  StillCalm
<1>1. CASE Nothing
  BY <1>1 DEF Nothing, shot, StillCalm, Busy, IsCaptureRunning
<1>2. CASE m_state = "PIC_TAKING" /\ EndsPicture("PREVIEW_STOPPED")
  BY <1>2 DEF EndsPicture, StillCalm, Busy, IsCaptureRunning, PicStates
<1>3. CASE m_state = "PIC_TAKING" /\ StopCaptureChannel /\ UNCHANGED parm
  BY <1>3 DEF StopCaptureChannel, Preview, Outcome, shot, StillCalm, Busy, IsCaptureRunning, PicStates
<1>4. CASE m_state = "VIDEO_PIC_TAKING" /\ EndsLive(StopLive(m_channels), "RECORDING")
  BY <1>4 DEF EndsLive, CancelLive, StillCalm, Busy, IsCaptureRunning, PicStates
<1>5. CASE m_state = "PREVIEW_PIC_TAKING" /\ EndsPreviewPic
  BY <1>5 DEF EndsPreviewPic, EndsPicture, CancelPicture, EndsLive, CancelLive, StillCalm, Busy,
       IsCaptureRunning, PicStates
<1>6. m_state = "PREVIEW_STOPPED" /\ InStopped(e) => Nothing
  BY DEF InStopped, Commands
<1>7. m_state = "PREVIEW_READY" /\ InReady(e) => Nothing
  BY DEF InReady, Commands
<1>8. m_state = "PREVIEWING" /\ InPreviewing(e) => Nothing
  BY DEF InPreviewing, PreviewingControls, Commands
<1>9. m_state = "RECORDING" /\ InRecording(e) => Nothing
  BY DEF InRecording, Commands
<1>10. InPicTaking(e) => Nothing \/ EndsPicture("PREVIEW_STOPPED") \/ (StopCaptureChannel /\ UNCHANGED parm)
  BY DEF InPicTaking, PicTakingAnswers
<1>11. InVideoPicTaking(e) => Nothing \/ EndsLive(StopLive(m_channels), "RECORDING")
  BY DEF InVideoPicTaking, Commands
<1>12. InPreviewPicTaking(e) => Nothing \/ EndsPreviewPic
  BY DEF InPreviewPicTaking
<1> QED
  BY <1>1, <1>2, <1>3, <1>4, <1>5, <1>6, <1>7, <1>8, <1>9, <1>10, <1>11, <1>12 DEF Handle

\* A call that fits goes on to fit.
LEMMA FitStill ==
  ASSUME StillCalm, NEW x, Fits(x)
  PROVE  Fits(x)'
<1>1. NeedRestart(x.parm)' <=> NeedRestart(x.parm)
  BY DEF NeedRestart, StillCalm
<1> QED
  BY <1>1 DEF Fits, StillCalm

\* The calls go on to fit while the queue stays.
LEMMA QueueKept ==
  ASSUME OneCall, CallsFit, StillCalm, UNCHANGED <<api_queue, waits, woken, m_apiResult>>
  PROVE  OneCall' /\ CallsFit'
<1>1. OneCall'
  BY DEF OneCall, App
<1>2. ASSUME NEW i \in DOMAIN api_queue PROVE Fits(api_queue[i])'
  <2>1. PICK x : x = api_queue[i]
    OBVIOUS
  <2>2. Fits(x)
    BY <2>1 DEF CallsFit
  <2>3. Fits(x)'
    BY <2>2, FitStill
  <2> QED
    BY <2>1, <2>3 DEF Fits
<1> QED
  BY <1>1, <1>2 DEF CallsFit

\* Another thread leaves an event behind the calls.
LEMMA EventLeft ==
  ASSUME SyncTypes, OneCall, CallsFit, StillCalm, NEW x \in ApiEvent, ~App(x),
         api_queue' = Append(api_queue, x), UNCHANGED <<waits, woken, m_apiResult>>
  PROVE  OneCall' /\ CallsFit' /\ api_queue' \in Seq(ApiEvent)
<1>1. api_queue \in Seq(ApiEvent)
  BY DEF SyncTypes, ApiEvent
<1>2. api_queue' \in Seq(ApiEvent)
      /\ \A i \in DOMAIN api_queue' : \/ i \in DOMAIN api_queue /\ api_queue'[i] = api_queue[i]
                                      \/ api_queue'[i] = x
  BY <1>1
<1>3. OneCall'
  BY <1>2 DEF OneCall, App
<1>4. Fits(x)
  BY DEF App, Fits
<1>5. ASSUME NEW i \in DOMAIN api_queue' PROVE Fits(api_queue[i])'
  <2>1. PICK y : y = api_queue'[i]
    OBVIOUS
  <2>2. Fits(y)
    BY <1>2, <1>4, <2>1 DEF CallsFit
  <2>3. Fits(y)'
    BY <2>2, FitStill
  <2> QED
    BY <2>1, <2>3 DEF Fits
<1> QED
  BY <1>2, <1>3, <1>5 DEF CallsFit

\* Parts of Inv that a step of another thread may leave alone.
LEMMA CoreKept ==
  ASSUME Core, UNCHANGED <<device, m_state, thread, window, parm, longshot>>,
         live' \in {"none", "runs", "ended"}, live' = "runs" => live = "runs",
         reproc' \in BOOLEAN, reproc' => reproc, pproc' \in BOOLEAN, pproc' => m_state \in PicStates,
         armed' \in {"no", "job", "shot"}, m_channels' = m_channels
  PROVE  Core' /\ StillCalm
<1>1. HalTypes' /\ InForce' /\ ModesFit' /\ Working'
  BY DEF Core, HalTypes, InForce, ModesFit, Working
<1>2. ChannelsFit'
  BY DEF Core, ChannelsFit, Sound
<1>3. StillCalm
  BY DEF StillCalm, Busy, IsCaptureRunning
<1> QED
  BY <1>1, <1>2, <1>3 DEF Core

\* A careful caller waits for one event, which fits.
LEMMA CallStep ==
  ASSUME Inv, Orderly, NEW c \in Callers, Call(c)
  PROVE  Inv'
<1>1. PICK e \in AppCalls, p \in ParamChoices :
        /\ Careful /\ e = "SET_PARAMS" /\ (IsCaptureRunning \/ m_state = "RECORDING" \/ longshot)
             => ~NeedRestart(p)
        /\ Careful /\ e = "LONGSHOT_ON" => parm.zsl /\ ~parm.hint
        /\ Careful /\ e = "START_RECORDING" => ~longshot
        /\ Careful /\ e = "TAKE_PICTURE" => ~(parm.zsl /\ parm.hint)
        /\ e = "LONGSHOT_OFF" => longshot /\ Len(evt_queue) < MaxEvents
        /\ api_queue' = Append(api_queue, Event(e, IF e = "SET_PARAMS" THEN p ELSE NoParams))
        /\ waits' = [waits EXCEPT ![c] = e]
  BY DEF Call
<1>2. /\ waits[c] = NoEvent /\ UNCHANGED <<m_apiResult, woken>>
      /\ UNCHANGED <<device, m_state, thread, evt_queue, notifier, m_evtResult, window, parm, m_channels, shot>>
  BY DEF Call
<1> DEFINE x == Event(e, IF e = "SET_PARAMS" THEN p ELSE NoParams)
<1>3. x \in ApiEvent /\ x.evt = e /\ (e = "SET_PARAMS" => x.parm = p) /\ e \in ApiEvents /\ e # NoEvent
  BY HalAssumption DEF ApiEvent, Event, NoParams, Params, ApiEvents, NoEvent
<1>4. api_queue \in Seq(ApiEvent) /\ api_queue' = Append(api_queue, x)
  BY <1>1 DEF Inv, SyncTypes, ApiEvent
<1>5. Fits(x)
  BY <1>1, <1>3 DEF Orderly, Fits, Busy
<1> HIDE DEF x
<1>6. /\ api_queue' \in Seq(ApiEvent) /\ DOMAIN api_queue' = DOMAIN api_queue \cup {Len(api_queue) + 1}
      /\ \A i \in DOMAIN api_queue' : \/ i \in DOMAIN api_queue /\ api_queue'[i] = api_queue[i]
                                      \/ i = Len(api_queue) + 1 /\ api_queue'[i] = x
  BY <1>3, <1>4
<1>7. \A i \in DOMAIN api_queue : ~App(api_queue[i])
  <2>1. ASSUME NEW i \in DOMAIN api_queue PROVE api_queue[i].evt \in ApiEvents
    <3>1. api_queue[i] \in ApiEvent
      BY <1>4
    <3> QED
      BY <3>1 DEF ApiEvent
  <2> QED
    BY <1>2, <2>1 DEF Inv, OneCall, NoEvent, ApiEvents
<1>8. waits' = [waits EXCEPT ![c] = x.evt] /\ waits \in [Callers -> ApiEvents \cup {NoEvent}] /\ c \notin woken
  BY <1>1, <1>2, <1>3 DEF Inv, SyncTypes
<1>9. SyncTypes'
  BY <1>2, <1>3, <1>6, <1>8 DEF Inv, SyncTypes, ApiEvent
<1>10. OneCall'
  <2>1. \A i \in DOMAIN api_queue' : App(api_queue'[i]) => i = Len(api_queue) + 1 /\ api_queue'[i] = x
    BY <1>6, <1>7
  <2>2. ASSUME NEW d \in Callers, NEW i \in DOMAIN api_queue', App(api_queue'[i])
        PROVE  waits'[d] = api_queue'[i].evt /\ d \notin woken'
    <3>1. d = c /\ api_queue'[i] = x
      BY <2>1, <2>2 DEF Orderly
    <3> QED
      BY <1>2, <1>8, <3>1
  <2> QED
    BY <2>1, <2>2 DEF OneCall, App
<1>11. StillCalm /\ Core'
  BY <1>2, CoreKept DEF Inv, Core, HalTypes, Working, shot
<1>12. CallsFit'
  <2>1. ASSUME NEW i \in DOMAIN api_queue' PROVE Fits(api_queue[i])'
    <3>1. PICK y : y = api_queue'[i]
      OBVIOUS
    <3>2. Fits(y)
      BY <1>5, <1>6, <3>1 DEF Inv, CallsFit
    <3>3. Fits(y)'
      BY <1>11, <3>2, FitStill
    <3> QED
      BY <3>1, <3>3 DEF Fits
  <2> QED
    BY <2>1 DEF CallsFit
<1> QED
  BY <1>9, <1>10, <1>11, <1>12 DEF Inv

\* A caller whose event still waits was not told of it.
LEMMA WakeStep ==
  ASSUME Inv, Orderly, NEW c \in Callers, Wake(c)
  PROVE  Inv'
<1>1. /\ c \in woken /\ woken' = woken \ {c}
      /\ waits' = [waits EXCEPT ![c] = IF m_apiResult = waits[c] THEN NoEvent ELSE waits[c]]
      /\ UNCHANGED <<device, m_state, thread, queues, m_apiResult, notifier, m_evtResult, window,
                     parm, m_channels, shot>>
  BY DEF Wake
<1>2. Core' /\ StillCalm
  BY <1>1, CoreKept DEF Inv, Core, HalTypes, Working, shot
<1>3. SyncTypes'
  <2>1. waits \in [Callers -> ApiEvents \cup {NoEvent}] /\ woken \subseteq {d \in Callers : waits[d] # NoEvent}
    BY DEF Inv, SyncTypes
  <2>2. waits' \in [Callers -> ApiEvents \cup {NoEvent}] /\ \A d \in Callers : d # c => waits'[d] = waits[d]
    BY <1>1, <2>1
  <2>3. woken' \subseteq {d \in Callers : waits'[d] # NoEvent}
    BY <1>1, <2>1, <2>2
  <2> QED
    BY <1>1, <2>2, <2>3 DEF Inv, SyncTypes, queues
<1>4. OneCall'
  <2>1. api_queue' = api_queue
    BY <1>1 DEF queues
  <2>2. ASSUME NEW d \in Callers, NEW i \in DOMAIN api_queue, App(api_queue[i])
        PROVE  waits'[d] = api_queue[i].evt /\ (d \in woken' => m_apiResult' # waits'[d])
    <3>1. d = c /\ waits[c] = api_queue[i].evt /\ m_apiResult # waits[c]
      BY <1>1, <2>2 DEF Orderly, Inv, OneCall
    <3>2. waits'[c] = waits[c]
      BY <1>1, <3>1 DEF Inv, SyncTypes
    <3> QED
      BY <1>1, <3>1, <3>2
  <2> QED
    BY <2>1, <2>2 DEF Inv, OneCall, App
<1>5. CallsFit'
  <2>1. ASSUME NEW i \in DOMAIN api_queue' PROVE Fits(api_queue[i])'
    <3>1. PICK y : y = api_queue'[i]
      OBVIOUS
    <3>2. Fits(y)
      BY <1>1, <3>1 DEF Inv, CallsFit, queues
    <3>3. Fits(y)'
      BY <1>2, <3>2, FitStill
    <3> QED
      BY <3>1, <3>3 DEF Fits
  <2> QED
    BY <2>1 DEF CallsFit
<1> QED
  BY <1>2, <1>3, <1>4, <1>5 DEF Inv

\* The thread takes an API event: behind a call only events of other threads wait,
\* and the result of such an event is no call's.
LEMMA ApiStep ==
  ASSUME Inv, Orderly, ProcessApi
  PROVE  Inv'
<1> DEFINE e == Head(api_queue)
<1>1. /\ api_queue # <<>> /\ device' = device /\ api_queue' = Tail(api_queue) /\ Handle(e)
      /\ evt_queue' \in {evt_queue, Append(evt_queue, "SNAPSHOT_DONE")}
      /\ UNCHANGED sync \/ SignalAPIResult(e.evt)
  BY DEF ProcessApi
<1>2. api_queue \in Seq(ApiEvent)
  BY DEF Inv, SyncTypes, ApiEvent
<1>3. /\ e \in ApiEvent /\ e = api_queue[1] /\ 1 \in DOMAIN api_queue /\ api_queue' \in Seq(ApiEvent)
      /\ \A i \in DOMAIN api_queue' : i + 1 \in DOMAIN api_queue /\ i + 1 # 1 /\ i \in Nat
                                      /\ api_queue'[i] = api_queue[i + 1]
  BY <1>1, <1>2
<1> HIDE DEF e
<1>4. Fits(e) /\ Core
  BY <1>3 DEF Inv, CallsFit
<1>5. ~EarlyRestart /\ "advanced" \notin device.faults
  BY DEF Orderly, Inv, SyncTypes
<1>6. Core'
  BY <1>1, <1>3, <1>4, <1>5, HandleStep
<1>7. App(e) => \A i \in DOMAIN api_queue' : ~App(api_queue'[i])
  BY <1>3 DEF Inv, OneCall
<1>8. SyncTypes'
  <2>1. evt_queue' \in Seq({"SNAPSHOT_DONE", "PREP_SNAPSHOT_DONE"})
    BY <1>1 DEF Inv, SyncTypes
  <2>2. CASE UNCHANGED sync
    BY <1>1, <1>3, <2>1, <2>2 DEF Inv, SyncTypes, sync, ApiEvent
  <2>3. CASE SignalAPIResult(e.evt)
    BY <1>1, <1>3, <2>1, <2>3 DEF Inv, SyncTypes, SignalAPIResult, ApiEvent
  <2> QED
    BY <1>1, <2>2, <2>3
<1>9. OneCall'
  <2>1. \A i, j \in DOMAIN api_queue' : App(api_queue'[i]) /\ App(api_queue'[j]) => i = j
    <3> SUFFICES ASSUME NEW i \in DOMAIN api_queue', NEW j \in DOMAIN api_queue',
                        App(api_queue'[i]), App(api_queue'[j])
                 PROVE  i = j
      OBVIOUS
    <3>1. i + 1 = j + 1
      BY <1>3 DEF Inv, OneCall
    <3> QED
      BY <1>3, <3>1
  <2>2. ASSUME NEW c \in Callers, NEW i \in DOMAIN api_queue', App(api_queue'[i])
        PROVE  waits'[c] = api_queue'[i].evt /\ (c \in woken' => m_apiResult' # waits'[c])
    <3>1. waits[c] = api_queue'[i].evt /\ (c \in woken => m_apiResult # waits[c]) /\ waits' = waits
      BY <1>1, <1>3, <2>2 DEF Inv, OneCall, sync, SignalAPIResult
    <3>2. ~App(e)
      BY <1>7, <2>2
    <3>3. api_queue'[i].evt # e.evt
      BY <2>2, <3>2 DEF App
    <3> QED
      BY <1>1, <3>1, <3>3 DEF sync, SignalAPIResult
  <2> QED
    BY <2>1, <2>2 DEF OneCall, App
<1>10. CallsFit'
  <2>1. ASSUME NEW i \in DOMAIN api_queue' PROVE Fits(api_queue[i])'
    <3>1. PICK y : y = api_queue'[i]
      OBVIOUS
    <3>2. CASE App(e)
      <4>1. ~App(y)
        BY <1>7, <3>1, <3>2
      <4> QED
        BY <3>1, <4>1 DEF App, Fits
    <3>3. CASE ~App(e)
      <4>1. StillCalm
        BY <1>1, <1>4, <1>5, <3>3, InternalCalm DEF App
      <4>2. Fits(y)
        BY <1>3, <3>1 DEF Inv, CallsFit
      <4>3. Fits(y)'
        BY <4>1, <4>2, FitStill
      <4> QED
        BY <3>1, <4>3 DEF Fits
    <3> QED
      BY <3>2, <3>3
  <2> QED
    BY <2>1 DEF CallsFit
<1> QED
  BY <1>6, <1>8, <1>9, <1>10 DEF Inv

\* The end of a picture.
LEMMA SnapshotDoneStep ==
  ASSUME Core, device' = device, ~EarlyRestart, SnapshotDone
  PROVE  Core' /\ StillCalm
<1>1. CASE m_state = "PIC_TAKING"
  <2>1. EndsPicture("PREVIEW_STOPPED")
    BY <1>1 DEF SnapshotDone
  <2>2. StillCalm
    BY <1>1, <2>1 DEF EndsPicture, StillCalm, Busy, IsCaptureRunning, PicStates
  <2> QED
    BY <1>1, <2>1, <2>2, EndsPictureStep
<1>2. CASE m_state = "VIDEO_PIC_TAKING"
  <2>1. EndsLive(Stop(m_channels, {"SNAPSHOT"}), "RECORDING") /\ parm.hint /\ m_state \in ShotStates
    BY <1>2 DEF SnapshotDone, StopLive, Core, ModesFit, ShotStates
  <2>2. StillCalm
    BY <1>2, <2>1 DEF EndsLive, CancelLive, StillCalm, Busy, IsCaptureRunning, PicStates
  <2> QED
    BY <1>2, <2>1, <2>2, EndsLiveStep
<1>3. CASE m_state = "PREVIEW_PIC_TAKING"
  <2>1. EndsPreviewPic
    BY <1>3 DEF SnapshotDone
  <2>2. StillCalm
    BY <1>3, <2>1 DEF EndsPreviewPic, EndsPicture, CancelPicture, EndsLive, CancelLive, StillCalm, Busy,
         IsCaptureRunning, PicStates
  <2> QED
    BY <1>3, <2>1, <2>2, EndsPreviewPicStep
<1>4. CASE m_state \notin PicStates
  <2>1. Nothing
    BY <1>4 DEF SnapshotDone, PicStates
  <2>2. StillCalm
    BY <2>1 DEF Nothing, shot, StillCalm, Busy, IsCaptureRunning
  <2> QED
    BY <2>1, <2>2, NothingStep
<1> QED
  BY <1>1, <1>2, <1>3, <1>4 DEF PicStates

\* The flash is ready: the preview goes on.
LEMMA FlashDoneStep ==
  ASSUME Core, device' = device, PrepSnapshotDone
  PROVE  Core'
<1>1. CASE m_state = "PREPARE_SNAPSHOT"
  <2>1. m_state' = "PREVIEWING" /\ UNCHANGED <<thread, window, parm, m_channels, shot>>
    BY <1>1 DEF PrepSnapshotDone
  <2>2. HalTypes' /\ InForce'
    BY <2>1 DEF Core, HalTypes, InForce, shot, States
  <2>3. ModesFit' /\ Working'
    BY <1>1, <2>1 DEF Core, ModesFit, Working, shot, PicStates, ShotStates
  <2>4. ChannelsFit'
    BY <1>1, <2>1 DEF Core, ChannelsFit, Exist, Streaming, Allowed, Sound, StreamStates, ShotStates
  <2> QED
    BY <2>2, <2>3, <2>4 DEF Core
<1>2. CASE m_state # "PREPARE_SNAPSHOT"
  BY <1>2, NothingStep DEF PrepSnapshotDone
<1> QED
  BY <1>1, <1>2

\* The thread takes another event, while no API event waits.
LEMMA EvtStep ==
  ASSUME Inv, Orderly, ProcessEvt
  PROVE  Inv'
<1>1. /\ api_queue = <<>> /\ api_queue' = <<>> /\ evt_queue # <<>> /\ evt_queue' = Tail(evt_queue)
      /\ device' = device
  BY DEF ProcessEvt
<1>2. OneCall' /\ CallsFit' /\ api_queue' \in Seq(ApiEvent)
  BY <1>1 DEF OneCall, CallsFit, ApiEvent
<1>3. evt_queue' \in Seq({"SNAPSHOT_DONE", "PREP_SNAPSHOT_DONE"})
  BY <1>1 DEF Inv, SyncTypes
<1>4. CASE SnapshotDone /\ SignalEvtResult
  <2>1. Core'
    BY <1>1, <1>4, SnapshotDoneStep DEF Inv, Orderly
  <2>2. SyncTypes'
    BY <1>1, <1>2, <1>3, <1>4 DEF Inv, SyncTypes, SignalEvtResult, ApiEvent
  <2> QED
    BY <1>2, <2>1, <2>2 DEF Inv
<1>5. CASE PrepSnapshotDone
  <2>1. Core'
    BY <1>1, <1>5, FlashDoneStep DEF Inv
  <2>2. UNCHANGED sync \/ SignalAPIResult("PREPARE_SNAPSHOT")
    BY <1>5 DEF PrepSnapshotDone
  <2>3. "PREPARE_SNAPSHOT" \in ApiEvents
    BY DEF ApiEvents
  <2>4. SyncTypes'
    <3>1. CASE UNCHANGED sync
      BY <1>1, <1>2, <1>3, <3>1 DEF Inv, SyncTypes, sync, ApiEvent
    <3>2. CASE SignalAPIResult("PREPARE_SNAPSHOT")
      BY <1>1, <1>2, <1>3, <2>3, <3>2 DEF Inv, SyncTypes, SignalAPIResult, ApiEvent
    <3> QED
      BY <2>2, <3>1, <3>2
  <2> QED
    BY <1>2, <2>1, <2>4 DEF Inv
<1> QED
  BY <1>4, <1>5 DEF ProcessEvt

\* The cancellation that a failed live snapshot asks for, and the end of a capture.
Cancel == Event("CANCEL_PICTURE", NoParams)
StopsCapture == Event("STOP_CAPTURE_CHANNEL", NoParams)
LEMMA InternalEvents ==
  /\ Cancel \in ApiEvent /\ ~App(Cancel)
  /\ StopsCapture \in ApiEvent /\ ~App(StopsCapture)
  BY DEF Cancel, StopsCapture, ApiEvent, App, Event, ApiEvents, NoParams, Params

\* The live snapshot starts its channel, which the hint has prepared.
LEMMA LiveSnapshotStep ==
  ASSUME Inv, LiveSnapshot
  PROVE  Inv'
<1>1. /\ live = "runs" /\ live' = "ended" /\ UNCHANGED <<kept, evt_queue, sync, reproc>>
      /\ Core /\ m_state \in ShotStates /\ parm.hint /\ pproc \in BOOLEAN
      /\ armed \in {"no", "job", "shot"} /\ "SNAPSHOT" \in Channels
  BY DEF LiveSnapshot, Inv, Core, Working, HalTypes, Channels
<1>2. ShotStates \subseteq PicStates
  BY DEF ShotStates, PicStates
<1>3. StillCalm
  BY <1>1 DEF kept, StillCalm, Busy, IsCaptureRunning
<1>4. api_queue' \in {api_queue, Append(api_queue, Cancel)}
  BY DEF LiveSnapshot, Cancel
<1>5. OneCall' /\ CallsFit' /\ api_queue' \in Seq(ApiEvent)
  <2>1. CASE api_queue' = api_queue
    BY <1>1, <1>3, <2>1, QueueKept DEF Inv, SyncTypes, ApiEvent, sync
  <2>2. CASE api_queue' = Append(api_queue, Cancel)
    BY <1>1, <1>3, <2>2, EventLeft, InternalEvents DEF Inv, sync
  <2> QED
    BY <1>4, <2>1, <2>2
<1>6. SyncTypes'
  BY <1>1, <1>5 DEF Inv, SyncTypes, ApiEvent, sync, kept
<1>7. CASE UNCHANGED m_channels /\ pproc' \in {pproc, TRUE} /\ armed' \in {"no", "job", "shot"}
  <2>1. pproc' \in BOOLEAN
    BY <1>1, <1>7
  <2>2. Core'
    BY <1>1, <1>2, <1>7, <2>1, CoreKept DEF kept, Core, HalTypes
  <2> QED
    BY <1>5, <1>6, <2>2 DEF Inv
<1>8. CASE \E r \in Start(m_channels, "SNAPSHOT") :
             /\ pproc' = TRUE /\ m_channels' = r.ch /\ armed' = IF r.rc = "ok" THEN "job" ELSE armed
  <2>1. PICK r \in Start(m_channels, "SNAPSHOT") :
               /\ pproc' = TRUE /\ m_channels' = r.ch /\ armed' = IF r.rc = "ok" THEN "job" ELSE armed
    BY <1>8
  <2>2. \/ r = Result("ok", [m_channels EXCEPT !["SNAPSHOT"] = "active"])
        \/ r = Result("fail", m_channels)
    BY <1>1, Known, Starts
  <2>3. m_channels' = [m_channels EXCEPT !["SNAPSHOT"] = "active"] \/ m_channels' = m_channels
    BY <2>1, <2>2 DEF Result
  <2>4. m_channels \in Tables
    BY <1>1, Known
  <2>5. m_channels' \in Tables /\ \A t \in Channels \ {"SNAPSHOT"} : m_channels'[t] = m_channels[t]
    BY <2>3, <2>4 DEF Tables, ChannelStates
  <2>6. m_channels'["SNAPSHOT"] \in {"active", m_channels["SNAPSHOT"]}
    BY <1>1, <2>3, <2>4 DEF Tables
  <2>7. "SNAPSHOT" \in Allowed(m_state, parm)
    BY <1>1 DEF Allowed, Prepared, ShotStates
  <2>8. Exist(m_channels, m_state, parm)
    BY <1>1 DEF Core, ChannelsFit
  <2>9. Exist(m_channels', m_state, parm)
    BY <1>1, <2>5, <2>6, <2>7, <2>8 DEF Exist
  <2>10. Sound => Streaming(m_channels', m_state, parm)
    <3>1. m_state # "PREVIEW_READY"
      BY <1>1 DEF ShotStates
    <3>2. {"ZSL", "PREVIEW", "VIDEO"} \subseteq Channels \ {"SNAPSHOT"}
      BY DEF Channels
    <3> QED
      BY <1>1, <2>5, <3>1, <3>2 DEF Core, ChannelsFit, Streaming, Streams
  <2>11. HalTypes' /\ InForce'
    BY <1>1, <2>1, <2>5 DEF Core, HalTypes, InForce, kept, Tables
  <2>12. ModesFit' /\ Working'
    BY <1>1, <1>2, <2>1 DEF Core, ModesFit, Working, kept
  <2>13. Core'
    BY <1>1, <2>9, <2>10, <2>11, <2>12 DEF Core, ChannelsFit, kept, Sound
  <2> QED
    BY <1>5, <1>6, <2>13 DEF Inv
<1> QED
  BY <1>1, <1>7, <1>8 DEF LiveSnapshot

\* The deferred start of the post-processor, while its picture is taken.
LEMMA DeferredStep ==
  ASSUME Inv, DeferredStart
  PROVE  Inv'
<1>1. /\ reproc /\ reproc' = FALSE /\ UNCHANGED <<kept, queues, sync, live>> /\ Core
      /\ m_state = "PIC_TAKING" /\ "PIC_TAKING" \in PicStates /\ pproc \in BOOLEAN
      /\ armed \in {"no", "job", "shot"}
  BY DEF DeferredStart, Inv, Core, Working, HalTypes, PicStates
<1>2. SyncTypes'
  BY <1>1 DEF Inv, SyncTypes, sync, kept, queues
<1>3. StillCalm
  BY <1>1 DEF kept, StillCalm, Busy, IsCaptureRunning
<1>4. OneCall' /\ CallsFit'
  BY <1>1, <1>3, QueueKept DEF Inv, sync, queues
<1>5. CASE pproc' = TRUE /\ armed' = (IF longshot THEN "no" ELSE "job") /\ UNCHANGED m_channels
  <2>1. Core'
    BY <1>1, <1>5, CoreKept DEF kept, Core, HalTypes
  <2> QED
    BY <1>2, <1>4, <2>1 DEF Inv
<1>6. CASE m_channels' = Del(m_channels, {"CAPTURE"}) /\ UNCHANGED <<pproc, armed>>
  <2>1. m_channels \in Tables /\ Exist(m_channels, m_state, parm)
    BY <1>1, Known DEF Core, ChannelsFit
  <2>2. \A t \in Channels : m_channels'[t] = IF t = "CAPTURE" THEN "none" ELSE m_channels[t]
    BY <1>6 DEF Del
  <2>3. m_channels' \in Tables
    BY <1>6, <2>1 DEF Del, Tables, ChannelStates
  <2>4. Exist(m_channels', m_state, parm)
    BY <1>1, <2>1, <2>2 DEF Exist, Channels
  <2>5. Streaming(m_channels', m_state, parm)
    BY <1>1 DEF Streaming, StreamStates, ShotStates
  <2>6. HalTypes' /\ InForce'
    BY <1>1, <1>6, <2>3 DEF Core, HalTypes, InForce, kept, Tables
  <2>7. ModesFit' /\ Working'
    BY <1>1, <1>6 DEF Core, ModesFit, Working, kept
  <2>8. Core'
    BY <1>1, <2>4, <2>5, <2>6, <2>7 DEF Core, ChannelsFit, kept
  <2> QED
    BY <1>2, <1>4, <2>8 DEF Inv
<1> QED
  BY <1>5, <1>6 DEF DeferredStart

\* The encoder.
LEMMA EncodeStep ==
  ASSUME Inv, Encode
  PROVE  Inv'
<1>1. /\ armed' = "shot" /\ UNCHANGED <<kept, evt_queue, sync, m_channels, live, pproc, reproc>>
      /\ api_queue' \in {api_queue, Append(api_queue, StopsCapture)}
  BY DEF Encode, StopsCapture
<1>2. Core' /\ StillCalm
  BY <1>1, CoreKept DEF Inv, Core, HalTypes, Working, kept
<1>3. OneCall' /\ CallsFit' /\ api_queue' \in Seq(ApiEvent)
  <2>1. CASE api_queue' = api_queue
    BY <1>1, <1>2, <2>1, QueueKept DEF Inv, SyncTypes, ApiEvent, sync
  <2>2. CASE api_queue' = Append(api_queue, StopsCapture)
    BY <1>1, <1>2, <2>2, EventLeft, InternalEvents DEF Inv, sync
  <2> QED
    BY <1>1, <2>1, <2>2
<1>4. SyncTypes'
  BY <1>1, <1>3 DEF Inv, SyncTypes, ApiEvent, sync, kept
<1> QED
  BY <1>2, <1>3, <1>4 DEF Inv

\* The callback thread and the flash only leave events and wait.
LEMMA NotifierStep ==
  ASSUME Inv, NotifierCounts \/ NotifierRaises \/ NotifierWakes \/ FlashReady
  PROVE  Inv'
<1>1. /\ UNCHANGED <<kept, api_queue, waits, woken, m_apiResult, m_channels, live, pproc, reproc>>
      /\ armed' \in {armed, "no"} /\ notifier' \in {notifier, "idle", "due", "waits"}
      /\ m_evtResult' \in {m_evtResult, FALSE}
      /\ evt_queue' \in {evt_queue, Append(evt_queue, "SNAPSHOT_DONE"),
                         Append(evt_queue, "PREP_SNAPSHOT_DONE")}
  BY DEF NotifierCounts, NotifierRaises, NotifierWakes, FlashReady, queues, sync
<1>2. Core' /\ StillCalm
  BY <1>1, CoreKept DEF Inv, Core, HalTypes, Working, kept
<1>3. OneCall' /\ CallsFit'
  BY <1>1, <1>2, QueueKept DEF Inv
<1>4. evt_queue' \in Seq({"SNAPSHOT_DONE", "PREP_SNAPSHOT_DONE"})
  <2> DEFINE Evts == {"SNAPSHOT_DONE", "PREP_SNAPSHOT_DONE"}
  <2>1. evt_queue \in Seq(Evts) /\ "SNAPSHOT_DONE" \in Evts /\ "PREP_SNAPSHOT_DONE" \in Evts
    BY DEF Inv, SyncTypes
  <2> HIDE DEF Evts
  <2>2. evt_queue' \in Seq(Evts)
    BY <1>1, <2>1
  <2> QED
    BY <2>2 DEF Evts
<1>5. SyncTypes'
  BY <1>1, <1>4 DEF Inv, SyncTypes, kept
<1> QED
  BY <1>2, <1>3, <1>5 DEF Inv
-----------------------------------------------------------------------------
(* Theorems. *)

\* The invariant holds in every reachable state: the channels that exist and that
\* stream are those of the state, the threads that start the post-processor do so
\* in their picture, and the call that waits fits.
THEOREM StatesKept == ASSUME Orderly PROVE Spec => []Inv
<1>1. Init => Inv
  <2> SUFFICES ASSUME Init PROVE Inv
    OBVIOUS
  <2>1. PICK z \in BOOLEAN, r \in BOOLEAN :
          parm = [zsl |-> z, zslNew |-> z, hint |-> FALSE, hintNew |-> FALSE,
                  hintStr |-> FALSE, hintTmp |-> FALSE, raw |-> r]
    BY DEF Init
  <2>2. parm \in Parm /\ InForce
    BY <2>1 DEF Parm, InForce
  <2>3. m_state = "PREVIEW_STOPPED" /\ m_state \in States /\ m_channels = NoChannel
    BY DEF Init, States
  <2>4. NoChannel \in Tables /\ Exist(m_channels, m_state, parm) /\ Streaming(m_channels, m_state, parm)
    BY <2>2, <2>3, Fitting DEF StreamStates, ShotStates
  <2>5. HalTypes /\ ModesFit /\ Working
    BY <2>2, <2>3, <2>4 DEF Init, HalTypes, ModesFit, Working, Tables
  <2>6. SyncTypes
    <3>1. /\ device \in Devices /\ api_queue = <<>> /\ evt_queue = <<>> /\ woken = {}
          /\ waits = [c \in Callers |-> NoEvent] /\ m_apiResult = NoEvent
          /\ notifier = "idle" /\ m_evtResult = FALSE
      BY DEF Init
    <3>2. waits \in [Callers -> ApiEvents \cup {NoEvent}]
      BY <3>1
    <3>3. api_queue \in Seq([evt : ApiEvents, parm : Params])
          /\ evt_queue \in Seq({"SNAPSHOT_DONE", "PREP_SNAPSHOT_DONE"})
      BY <3>1
    <3> QED
      BY <3>1, <3>2, <3>3 DEF SyncTypes
  <2>7. OneCall /\ CallsFit
    BY DEF Init, OneCall, CallsFit
  <2> QED
    BY <2>2, <2>4, <2>5, <2>6, <2>7 DEF Inv, Core, ChannelsFit
<1>2. Inv /\ [Next]_vars => Inv'
  <2> SUFFICES ASSUME Inv, [Next]_vars PROVE Inv'
    OBVIOUS
  <2>1. CASE UNCHANGED vars
    <3>1. Core' /\ StillCalm
      BY <2>1, CoreKept DEF vars, shot, Inv, Core, HalTypes, Working
    <3>2. OneCall' /\ CallsFit'
      BY <2>1, <3>1, QueueKept DEF Inv, vars, sync, queues
    <3>3. SyncTypes'
      BY <2>1 DEF Inv, SyncTypes, vars, sync, queues
    <3> QED
      BY <3>1, <3>2, <3>3 DEF Inv
  <2>2. ASSUME NEW c \in Callers, Call(c) \/ Wake(c) PROVE Inv'
    BY <2>2, CallStep, WakeStep
  <2>3. CASE ProcessApi \/ ProcessEvt
    BY <2>3, ApiStep, EvtStep
  <2>4. CASE LiveSnapshot \/ DeferredStart \/ Encode
    BY <2>4, LiveSnapshotStep, DeferredStep, EncodeStep
  <2>5. CASE NotifierCounts \/ NotifierRaises \/ NotifierWakes \/ FlashReady
    BY <2>5, NotifierStep
  <2> QED
    BY <2>1, <2>2, <2>3, <2>4, <2>5 DEF Next
<1> QED
  BY <1>1, <1>2, PTL DEF Spec

\* The types of the state machine, its queues and its callers.
THEOREM TypeCorrect == ASSUME Orderly PROVE Spec => []TypeOK
<1>1. Inv => TypeOK
  BY DEF Inv, SyncTypes, Core, HalTypes, TypeOK
<1> QED
  BY <1>1, StatesKept, PTL

\* Whatever else fails, a picture that is over leaves no channel and no
\* post-processor behind, and a preview that is stopped leaves no channel at all.
THEOREM NothingIsLeft == ASSUME Orderly PROVE Spec => []NothingLeft
<1>1. Inv => NothingLeft
  <2> SUFFICES ASSUME Inv PROVE NothingLeft
    OBVIOUS
  <2>1. Core /\ (m_state = "PREVIEW_STOPPED" => m_channels = NoChannel)
        /\ (m_state # "PIC_TAKING" => PreviewOnly(m_channels))
    BY PreviewTable DEF Inv
  <2>2. m_state \notin PicStates => m_state # "PIC_TAKING" /\ m_state \notin ShotStates /\ ~pproc
    BY <2>1 DEF Core, Working, PicStates, ShotStates
  <2>3. m_channels["SNAPSHOT"] = "active" => m_state \in ShotStates
    BY <2>1 DEF Core, ChannelsFit, Exist
  <2> QED
    BY <2>1, <2>2, <2>3 DEF NothingLeft, PreviewOnly
<1> QED
  BY <1>1, StatesKept, PTL

\* On a sound device the states that say "previewing" or "recording" have the
\* streams they speak of.
THEOREM StatesHaveStreams == ASSUME Orderly PROVE Spec => []StatesStream
<1>1. Inv => StatesStream
  <2> SUFFICES ASSUME Inv PROVE StatesStream
    OBVIOUS
  <2>1. TypeOK /\ (Sound => Streaming(m_channels, m_state, parm))
    BY DEF Inv, SyncTypes, Core, HalTypes, TypeOK, ChannelsFit
  <2> QED
    BY <2>1 DEF StatesStream, Streaming, Streams, PreviewStreams, StreamStates, ShotStates
<1> QED
  BY <1>1, StatesKept, PTL
=============================================================================
