---------------------------- MODULE PostProcessor ----------------------------
(***************************************************************************)
(* The post-processor of the camera HAL (QCameraPostProc.cpp): frames of a *)
(* picture come from a channel's callback thread, may be reprocessed, are  *)
(* encoded by the data processing thread through the JPEG interface, and   *)
(* are released when the encoder's event reaches the state machine thread, *)
(* which also starts and stops the post-processor.                         *)
(***************************************************************************)
EXTENDS JpegJobs

CONSTANTS
  Pictures,  \* kinds of pictures taken: [capture, reproc : BOOLEAN]; a capture
             \* creates its session in start, other pictures in encodeData
  MaxStarts, \* bound on pictures taken
  Prompt     \* does the data processing thread keep up with start and stop?

ASSUME PostProcessorAssumption ==
  /\ Frames = 1..Cardinality(Frames)
  /\ Pictures \subseteq [capture : BOOLEAN, reproc : BOOLEAN]
  /\ MaxStarts \in Nat /\ Prompt \in BOOLEAN

VARIABLES
  pic,           \* the state machine thread: [at, kind]
  starts,        \* pictures taken so far
  cmds,          \* commands of m_dataProcTh
  proc,          \* the data processing thread: [at, frame]
  active,        \* its is_active
  inputPPQ, ongoingPPQ, inputJpegQ,
  ongoingJpegQ,  \* [frame, job]: the job id is 0 until start_job has returned
  jpegSession,   \* mJpegSessionId
  newSession,    \* mNewJpegSessionNeeded
  stopped,       \* sync_sem
  source,        \* the callback thread: 0, or the frame it has queued without a command
  reproc,        \* is there a reprocess channel (m_pReprocChannel)?
  reprocessed,   \* frames in the reprocess channel
  arrived,       \* number of frames that came
  channel,       \* frames whose channel exists
  released       \* frames given back, or let go with their channel

procVars == <<pic, starts, cmds, proc, active, inputPPQ, ongoingPPQ, inputJpegQ, ongoingJpegQ,
              jpegSession, newSession, stopped, source, reproc, reprocessed, arrived, channel,
              released>>
vars == <<procVars, jpegVars>>

Idle == [at |-> "idle", frame |-> 0]
NoPicture == [capture |-> FALSE, reproc |-> FALSE]

Init ==
  /\ JpegInit
  /\ pic = [at |-> "off", kind |-> NoPicture] /\ starts = 0
  /\ cmds = <<>> /\ proc = Idle /\ active = FALSE
  /\ inputPPQ = <<>> /\ ongoingPPQ = <<>> /\ inputJpegQ = <<>> /\ ongoingJpegQ = <<>>
  /\ jpegSession = 0 /\ newSession = TRUE /\ stopped = FALSE
  /\ source = 0 /\ reproc = FALSE /\ reprocessed = <<>> /\ arrived = 0 /\ channel = {} /\ released = {}

Send(c) == cmds' = Append(cmds, c)
SendFirst(c) == cmds' = <<c>> \o cmds
Release(F) == released' = released \cup F
-----------------------------------------------------------------------------
(* The state machine thread: start, stop, JPEG events, close. *)

\* Is the data processing thread past what the former calls asked of it?
Settled == Prompt => proc.at = "idle" /\ cmds = <<>> /\ events = <<>>

\* start: a capture has its session created here.
Start(kind) ==
  /\ pic.at = "off" /\ starts < MaxStarts /\ Settled
  /\ pic' = [at |-> "on", kind |-> kind]
  /\ starts' = starts + 1
  /\ Send("START")
  /\ reproc' = (reproc \/ kind.reproc)
  /\ IF kind.capture
     THEN /\ Inactive # {}
          /\ CreateSession(NewSession)
          /\ jpegSession' = NewSession
          /\ newSession' = FALSE
     ELSE UNCHANGED <<session, handle, jpegSession, newSession>>
  /\ UNCHANGED <<proc, active, inputPPQ, ongoingPPQ, inputJpegQ, ongoingJpegQ, stopped, source,
                 reprocessed, arrived, channel, released,
                 jobQueue, ongoingJobs, jobSem, jobLock, mgr, aborting, events>>

\* stop: the command goes before all others, and the caller waits for it.  The
\* camera is closed with a stop too.
Stop ==
  /\ \/ pic.at = "on" /\ pic' = [pic EXCEPT !.at = "stopping"]
     \/ pic.at = "off" /\ pic' = [pic EXCEPT !.at = "closing"]
  /\ Prompt => "START" \notin Range(cmds)
  /\ SendFirst("STOP")
  /\ UNCHANGED <<starts, proc, active, inputPPQ, ongoingPPQ, inputJpegQ, ongoingJpegQ,
                 jpegSession, newSession, stopped, source, reproc, reprocessed, arrived, channel,
                 released, jpegVars>>

\* The stop is done; the channel of a capture is stopped and deleted, and the
\* callback thread with it.
StopDone ==
  /\ pic.at \in {"stopping", "closing"} /\ stopped
  /\ stopped' = FALSE
  /\ IF pic.at = "closing" \/ pic.kind.capture
     THEN source = 0 /\ channel' = {} ELSE UNCHANGED channel
  /\ IF pic.at = "closing"
     THEN SendFirst("EXIT") /\ pic' = [pic EXCEPT !.at = "joining"]
     ELSE UNCHANGED cmds /\ pic' = [pic EXCEPT !.at = "off"]
  /\ UNCHANGED <<starts, proc, active, inputPPQ, ongoingPPQ, inputJpegQ, ongoingJpegQ,
                 jpegSession, newSession, source, reproc, reprocessed, arrived, released, jpegVars>>

\* matchJobId.
Ends(e, f) == e.job = f

\* processJpegEvt, in the states in which a picture is taken; a JPEG event of
\* another state is dropped.
JpegEvent ==
  /\ pic.at \in {"on", "off"} /\ events # <<>>
  /\ events' = Tail(events)
  /\ IF pic.at = "on"
     THEN LET f == Head(events).frame
          IN /\ ongoingJpegQ' =
                   Without(ongoingJpegQ, {k \in DOMAIN ongoingJpegQ : Ends(ongoingJpegQ[k], f)})
             /\ Release({e.frame : e \in {x \in Range(ongoingJpegQ) : Ends(x, f)}})
             /\ Send("NEXT")
     ELSE UNCHANGED <<ongoingJpegQ, released, cmds>>
  /\ UNCHANGED <<pic, starts, proc, active, inputPPQ, ongoingPPQ, inputJpegQ, jpegSession,
                 newSession, stopped, source, reproc, reprocessed, arrived, channel,
                 session, handle, jobQueue, ongoingJobs, jobSem, jobLock, mgr, aborting>>

\* deinit and mm_jpeg_close: with the data processing thread gone, every handle of
\* every session is aborted under job_lock.
CloseSessions ==
  /\ pic.at = "joining" /\ proc.at = "exited"
  /\ jobLock = "none" \/ aborting.at = "done"
  /\ LET open == {x \in Sessions \X HandleIds :
                     session[x[1]].active /\ handle[x[1]][x[2]].abort = "none"}
         h == CHOOSE x \in open : \A y \in open : x[1] < y[1] \/ (x[1] = y[1] /\ x[2] <= y[2])
     IN IF open = {}
        THEN /\ jobQueue' = Append(jobQueue, Exit)
             /\ jobSem' = jobSem + 1
             /\ jobLock' = "none" /\ aborting' = NoAbort
             /\ session' = [s \in Sessions |-> [session[s] EXCEPT !.active = FALSE]]
             /\ pic' = [pic EXCEPT !.at = "releasing"]
             /\ UNCHANGED ongoingJobs
        ELSE /\ jobQueue' = WithoutSession(jobQueue, h[1])
             /\ ongoingJobs' = WithoutSession(ongoingJobs, h[1])
             /\ BeginAbort(h[1], h[2])
             /\ UNCHANGED <<session, pic, jobSem>>
  /\ UNCHANGED <<starts, cmds, proc, active, inputPPQ, ongoingPPQ, inputJpegQ, ongoingJpegQ,
                 jpegSession, newSession, stopped, source, reproc, reprocessed, arrived,
                 channel, released, handle, mgr, events>>

\* mm_jpeg_jobmgr_thread_release joins the manager.
Close ==
  /\ pic.at = "releasing" /\ mgr.at = "exited"
  /\ pic' = [pic EXCEPT !.at = "closed"]
  /\ UNCHANGED <<starts, cmds, proc, active, inputPPQ, ongoingPPQ, inputJpegQ, ongoingJpegQ,
                 jpegSession, newSession, stopped, source, reproc, reprocessed, arrived,
                 channel, released, jpegVars>>
-----------------------------------------------------------------------------
(* The callback threads: processData and processPPData. *)

NewFrame ==
  /\ pic.at \in {"on", "stopping"} /\ source = 0 /\ arrived < Cardinality(Frames)
  /\ arrived' = arrived + 1
  /\ source' = arrived'
  /\ channel' = channel \cup {arrived'}
  /\ IF pic.kind.reproc
     THEN inputPPQ' = Append(inputPPQ, arrived') /\ UNCHANGED inputJpegQ
     ELSE inputJpegQ' = Append(inputJpegQ, arrived') /\ UNCHANGED inputPPQ
  /\ UNCHANGED <<pic, starts, cmds, proc, active, ongoingPPQ, ongoingJpegQ, jpegSession,
                 newSession, stopped, reproc, reprocessed, released, jpegVars>>

FrameSent ==
  /\ source # 0
  /\ source' = 0
  /\ Send("NEXT")
  /\ UNCHANGED <<pic, starts, proc, active, inputPPQ, ongoingPPQ, inputJpegQ, ongoingJpegQ,
                 jpegSession, newSession, stopped, reproc, reprocessed, arrived, channel,
                 released, jpegVars>>

\* A reprocessed frame belongs to the oldest job that waits for one.
Reprocessed ==
  /\ reprocessed # <<>> /\ ongoingPPQ # <<>>
  /\ reprocessed' = Tail(reprocessed)
  /\ ongoingPPQ' = Tail(ongoingPPQ)
  /\ inputJpegQ' = Append(inputJpegQ, Head(ongoingPPQ))
  /\ Send("NEXT")
  /\ UNCHANGED <<pic, starts, proc, active, inputPPQ, ongoingJpegQ, jpegSession, newSession,
                 stopped, source, reproc, arrived, channel, released, jpegVars>>
-----------------------------------------------------------------------------
(* The data processing thread. *)

Goto(at, f) == proc' = [at |-> at, frame |-> f]

\* The frames that a command drops when no picture is taken.
Dropped(q) == IF q = <<>> THEN {} ELSE {Head(q)}
Rest(q) == IF q = <<>> THEN <<>> ELSE Tail(q)

Command ==
  /\ proc.at = "idle" /\ cmds # <<>>
  /\ cmds' = Tail(cmds)
  /\ CASE Head(cmds) = "START" ->
            active' = TRUE
            /\ UNCHANGED <<proc, inputJpegQ, ongoingJpegQ, inputPPQ, released>>
       [] Head(cmds) = "STOP" ->
            active' = FALSE /\ Goto("cancel", 0)
            /\ UNCHANGED <<inputJpegQ, ongoingJpegQ, inputPPQ, released>>
       [] Head(cmds) = "EXIT" ->
            Goto("exited", 0)
            /\ UNCHANGED <<active, inputJpegQ, ongoingJpegQ, inputPPQ, released>>
       [] Head(cmds) = "NEXT" /\ ~active ->
            /\ inputJpegQ' = Rest(inputJpegQ) /\ inputPPQ' = Rest(inputPPQ)
            /\ Release(Dropped(inputJpegQ) \cup Dropped(inputPPQ))
            /\ UNCHANGED <<proc, active, ongoingJpegQ>>
       [] Head(cmds) = "NEXT" /\ active /\ inputJpegQ # <<>> ->
            /\ inputJpegQ' = Tail(inputJpegQ)
            /\ ongoingJpegQ' = Append(ongoingJpegQ, [frame |-> Head(inputJpegQ), job |-> 0])
            /\ Goto("encode", Head(inputJpegQ))
            /\ UNCHANGED <<active, inputPPQ, released>>
       [] OTHER ->
            Goto("reproc", 0) /\ UNCHANGED <<active, inputJpegQ, ongoingJpegQ, inputPPQ, released>>
  /\ UNCHANGED <<pic, starts, ongoingPPQ, jpegSession, newSession, stopped, source, reproc,
                 reprocessed, arrived, channel, jpegVars>>

\* Mutated form of TakenBack: the oldest ongoing job.
TakenBackOldest(q) == Tail(q)

\* The job that encodeData refused is the last one.
TakenBack(q) == Front(q)

\* encodeData: a frame whose channel is gone is refused; the first frame creates
\* the session, unless start has.
Encode ==
  /\ proc.at = "encode"
  /\ \/ /\ proc.frame \notin channel \/ "encode" \in Faults
        /\ ongoingJpegQ' = TakenBack(ongoingJpegQ)
        /\ Release({proc.frame})
        /\ Goto("reproc", 0)
        /\ UNCHANGED <<session, handle, jpegSession, newSession>>
     \/ /\ proc.frame \in channel
        /\ IF newSession
           THEN /\ Inactive # {}
                /\ CreateSession(NewSession)
                /\ jpegSession' = NewSession
                /\ newSession' = FALSE
           ELSE UNCHANGED <<session, handle, jpegSession, newSession>>
        /\ Goto("start", proc.frame)
        /\ UNCHANGED <<ongoingJpegQ, released>>
  /\ UNCHANGED <<pic, starts, cmds, active, inputPPQ, ongoingPPQ, inputJpegQ, stopped, source,
                 reproc, reprocessed, arrived, channel,
                 jobQueue, ongoingJobs, jobSem, jobLock, mgr, aborting, events>>

EncodeStarts ==
  /\ proc.at = "start"
  /\ StartJob(proc.frame, jpegSession)
  /\ Goto("store", proc.frame)
  /\ UNCHANGED <<pic, starts, cmds, active, inputPPQ, ongoingPPQ, inputJpegQ, ongoingJpegQ,
                 jpegSession, newSession, stopped, source, reproc, reprocessed, arrived,
                 channel, released, session, handle, ongoingJobs, jobLock, mgr, aborting, events>>

\* The job id is stored once start_job has returned.
EncodeStores ==
  /\ proc.at = "store"
  /\ ongoingJpegQ' = [k \in DOMAIN ongoingJpegQ |->
       IF ongoingJpegQ[k].frame = proc.frame THEN [ongoingJpegQ[k] EXCEPT !.job = proc.frame]
       ELSE ongoingJpegQ[k]]
  /\ Goto("reproc", 0)
  /\ UNCHANGED <<pic, starts, cmds, active, inputPPQ, ongoingPPQ, inputJpegQ, jpegSession,
                 newSession, stopped, source, reproc, reprocessed, arrived, channel, released,
                 jpegVars>>

\* The same command also sends a frame to the reprocess channel, if there are both.
Reprocess ==
  /\ proc.at = "reproc"
  /\ Goto("idle", 0)
  /\ inputPPQ' = Rest(inputPPQ)
  /\ \/ /\ inputPPQ = <<>>
        /\ UNCHANGED <<ongoingPPQ, reprocessed, released>>
     \/ /\ inputPPQ # <<>> /\ reproc
        /\ ongoingPPQ' = Append(ongoingPPQ, Head(inputPPQ))
        /\ reprocessed' = Append(reprocessed, Head(inputPPQ))
        /\ UNCHANGED released
     \/ /\ inputPPQ # <<>> /\ (~reproc \/ "reproc" \in Faults)
        /\ Release({Head(inputPPQ)})
        /\ UNCHANGED <<ongoingPPQ, reprocessed>>
  /\ UNCHANGED <<pic, starts, cmds, active, inputJpegQ, ongoingJpegQ, jpegSession, newSession,
                 stopped, source, reproc, arrived, channel, jpegVars>>
-----------------------------------------------------------------------------
(* The data processing thread, STOP. *)

\* abort_job of an ongoing JPEG job; 0 is not a job id.
CancelJob(e) ==
  \/ /\ e.job # 0 /\ ~Queued(jobQueue, e.job) /\ Queued(ongoingJobs, e.job)
     /\ ongoingJobs' = WithoutFrame(ongoingJobs, e.job)
     /\ BeginAbort((CHOOSE j \in Range(ongoingJobs) : OfFrame(j, e.job)).session, 1)
     /\ Goto("cancelWait", e.frame)
     /\ UNCHANGED <<jobQueue, released>>
  \/ /\ e.job = 0 \/ Queued(jobQueue, e.job) \/ ~Queued(ongoingJobs, e.job)
     /\ jobQueue' = WithoutFrame(jobQueue, e.job)
     /\ Release({e.frame})
     /\ UNCHANGED <<proc, ongoingJobs, jobLock, aborting>>

Cancel ==
  /\ proc.at = "cancel"
  /\ IF ongoingJpegQ = <<>>
     THEN /\ Goto("destroy", 0)
          /\ UNCHANGED <<ongoingJpegQ, jobQueue, ongoingJobs, jobLock, aborting, released>>
     ELSE /\ jobLock = "none"
          /\ ongoingJpegQ' = Tail(ongoingJpegQ)
          /\ CancelJob(Head(ongoingJpegQ))
  /\ UNCHANGED <<pic, starts, cmds, active, inputPPQ, ongoingPPQ, inputJpegQ, jpegSession,
                 newSession, stopped, source, reproc, reprocessed, arrived, channel,
                 session, handle, jobSem, mgr, events>>

\* The abort is over, and the frame of the job is released.
CancelWait ==
  /\ proc.at = "cancelWait" /\ aborting.at = "done"
  /\ jobLock' = "none" /\ aborting' = NoAbort
  /\ Release({proc.frame})
  /\ Goto("cancel", 0)
  /\ UNCHANGED <<pic, starts, cmds, active, inputPPQ, ongoingPPQ, inputJpegQ, ongoingJpegQ,
                 jpegSession, newSession, stopped, source, reproc, reprocessed, arrived,
                 channel, session, handle, jobQueue, ongoingJobs, jobSem, mgr, events>>

\* destroy_session: its jobs go, and its handles are aborted.
Destroy ==
  /\ proc.at = "destroy"
  /\ IF jpegSession = 0
     THEN /\ Goto("flush", 0)
          /\ UNCHANGED <<jobQueue, ongoingJobs, jobLock, aborting>>
     ELSE /\ jobLock = "none"
          /\ jobQueue' = WithoutSession(jobQueue, jpegSession)
          /\ ongoingJobs' = WithoutSession(ongoingJobs, jpegSession)
          /\ BeginAbort(jpegSession, 1)
          /\ Goto("destroyWait", 0)
  /\ UNCHANGED <<pic, starts, cmds, active, inputPPQ, ongoingPPQ, inputJpegQ, ongoingJpegQ,
                 jpegSession, newSession, stopped, source, reproc, reprocessed, arrived,
                 channel, released, session, handle, jobSem, mgr, events>>

\* The handles are freed once their components are idle.
DestroyIdles == proc.at = "destroyWait" /\ DestroyBusy /\ UNCHANGED procVars

DestroyWait ==
  /\ proc.at = "destroyWait" /\ aborting.at = "done"
  /\ \A i \in HandleIds : Destroyable(handle[jpegSession][i])
  /\ session' = [session EXCEPT ![jpegSession] = [active |-> FALSE, free |-> <<>>]]
  /\ handle' = [handle EXCEPT ![jpegSession] = [i \in HandleIds |-> NoHandle]]
  /\ jobLock' = "none" /\ aborting' = NoAbort
  /\ jobSem' = jobSem + 1
  /\ jpegSession' = 0
  /\ Goto("flush", 0)
  /\ UNCHANGED <<pic, starts, cmds, active, inputPPQ, ongoingPPQ, inputJpegQ, ongoingJpegQ,
                 newSession, stopped, source, reproc, reprocessed, arrived, channel, released,
                 jobQueue, ongoingJobs, mgr, events>>

\* The reprocess channel and the queues go; then the caller of stop is let go.
Flush ==
  /\ proc.at = "flush"
  /\ reproc' = FALSE /\ reprocessed' = <<>>
  /\ ongoingPPQ' = <<>> /\ inputJpegQ' = <<>> /\ inputPPQ' = <<>>
  /\ Release(Range(ongoingPPQ) \cup Range(inputJpegQ) \cup Range(inputPPQ))
  /\ stopped' = TRUE
  /\ Goto("flag", 0)
  /\ UNCHANGED <<pic, starts, cmds, active, ongoingJpegQ, jpegSession, newSession, source,
                 arrived, channel, jpegVars>>

\* Only then is the next picture told to create a session.
Flag ==
  /\ proc.at = "flag"
  /\ newSession' = TRUE
  /\ Goto("idle", 0)
  /\ UNCHANGED <<pic, starts, cmds, active, inputPPQ, ongoingPPQ, inputJpegQ, ongoingJpegQ,
                 jpegSession, stopped, source, reproc, reprocessed, arrived, channel,
                 released, jpegVars>>

Proc ==
  \/ Command \/ Encode \/ EncodeStarts \/ EncodeStores \/ Reprocess
  \/ Cancel \/ CancelWait \/ Destroy \/ DestroyIdles \/ DestroyWait \/ Flush \/ Flag
-----------------------------------------------------------------------------
Jpeg(A) == A /\ UNCHANGED procVars

Next ==
  \/ \E k \in Pictures : Start(k)
  \/ Stop \/ StopDone \/ JpegEvent \/ CloseSessions \/ Close
  \/ NewFrame \/ FrameSent \/ Reprocessed
  \/ Proc
  \/ Jpeg(Mgr) \/ Jpeg(Abort)
  \/ \E s \in Sessions, i \in HandleIds : Jpeg(Component(s, i))

Spec == Init /\ [][Next]_vars

\* Every thread and every component runs.
FairSpec ==
  /\ Spec
  /\ WF_vars(StopDone) /\ WF_vars(JpegEvent) /\ WF_vars(CloseSessions \/ Close)
  /\ WF_vars(FrameSent) /\ WF_vars(Reprocessed)
  /\ WF_vars(Proc) /\ WF_vars(Jpeg(Mgr)) /\ WF_vars(Jpeg(Abort))
  /\ \A s \in Sessions, i \in HandleIds : WF_vars(Jpeg(Component(s, i)))
-----------------------------------------------------------------------------
(* Properties. *)

\* The queues hold frames that came, no more jobs are ongoing than the bound
\* (mm_jpeg_jobmgr_thread), and the job lock is held by whom the threads' places
\* say.
TypeOK ==
  /\ pic \in [at : {"off", "on", "stopping", "closing", "joining", "releasing", "closed"},
              kind : Pictures \cup {NoPicture}]
  /\ cmds \in Seq({"START", "STOP", "NEXT", "EXIT"})
  /\ {inputPPQ, ongoingPPQ, inputJpegQ, reprocessed} \subseteq Seq(1..arrived)
  /\ ongoingJpegQ \in Seq([frame : 1..arrived, job : 0..arrived])
  /\ released \subseteq 1..arrived /\ channel \subseteq 1..arrived
  /\ jpegSession \in Sessions \cup {0}
  /\ handle \in [Sessions -> [HandleIds ->
        [abort : {"none", "init", "done"}, encoding : BOOLEAN, failed : BOOLEAN,
         frame : 0..arrived,
         omx : {"none", "exec", "half", "busy", "flushing", "idling", "idle"}]]]
  /\ jobSem \in Nat /\ Len(ongoingJobs) <= MaxOngoing
  /\ (jobLock = "mgr") = (mgr.at \in {"empty", "fill"})
  /\ (jobLock = "client") = (aborting.at # "none")

\* Of the handles of an active session, each is in session_handle_q once and then
\* encodes nothing, or has one ongoing job, or was aborted: no handle is lost to an
\* error, and none is given two jobs (mm_jpegenc_job_done).
Waiting(s, i) == Cardinality({k \in DOMAIN session[s].free : session[s].free[k] = i})
Working(s, i) ==
  Cardinality({k \in DOMAIN ongoingJobs : /\ OfSession(ongoingJobs[k], s)
                                          /\ OfFrame(ongoingJobs[k], handle[s][i].frame)})
HandlesAccounted ==
  /\ TypeOK
  /\ \A s \in Sessions, i \in HandleIds : session[s].active /\ handle[s][i].abort = "none" =>
       IF handle[s][i].encoding THEN Waiting(s, i) = 0
       ELSE Waiting(s, i) = 1 \/ (Waiting(s, i) = 0 /\ Working(s, i) = 1)

\* A frame that came is in one place: a queue, the hand of the thread that aborts
\* it, or given back; none is lost and none is given back twice, through errors of
\* encodeData and the reprocess channel, events and stops (QCameraPostProc.cpp).
Places(f) ==
  Cardinality({k \in DOMAIN inputPPQ : inputPPQ[k] = f})
  + Cardinality({k \in DOMAIN ongoingPPQ : ongoingPPQ[k] = f})
  + Cardinality({k \in DOMAIN inputJpegQ : inputJpegQ[k] = f})
  + Cardinality({k \in DOMAIN ongoingJpegQ : ongoingJpegQ[k].frame = f})
  + (IF proc.at = "cancelWait" /\ proc.frame = f THEN 1 ELSE 0)
  + (IF f \in released THEN 1 ELSE 0)
FramesAccounted == \A f \in 1..arrived : Places(f) = 1

\* A caller that stops the post-processor or closes the camera returns: the abort
\* it waits for is always answered (mm_jpeg_session_abort, mm_jpeg_close).
StopReturns == (pic.at \notin {"on", "off", "closed"}) ~> (pic.at \in {"off", "closed"})

\* A job that was started is done, fails, or is aborted; it is not left in a queue
\* (mm_jpeg_jobmgr_thread drops posts of its semaphore).
JobsEnd ==
  \A f \in Frames : (Queued(jobQueue, f) \/ Queued(ongoingJobs, f))
                      ~> ~(Queued(jobQueue, f) \/ Queued(ongoingJobs, f))

\* Both together: neither a stop nor a job waits for ever for the other.
WorkEnds == StopReturns /\ JobsEnd
=============================================================================
