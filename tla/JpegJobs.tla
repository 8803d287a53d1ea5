------------------------------ MODULE JpegJobs ------------------------------
(***************************************************************************)
(* The job manager of the JPEG encoder interface (mm_jpeg.c): sessions     *)
(* with a chain of OMX handles, the queue of jobs to do, the queue of      *)
(* ongoing jobs, the manager thread and its semaphore, abort and destroy,  *)
(* and the callbacks of the OMX components.                                *)
(*                                                                         *)
(* A job is named by the frame it encodes.  A callback reports it to the   *)
(* HAL, which queues it as an event.  The client's calls are made by the   *)
(* post-processor, one at a time (g_intf_lock).                            *)
(***************************************************************************)
EXTENDS Naturals, SequencesExt, FiniteSets

CONSTANTS
  Frames,      \* frames to encode
  Sessions,    \* session slots, 1..n
  Handles,     \* OMX handles of a session (MM_JPEG_CONCURRENT_SESSIONS_COUNT)
  MaxOngoing,  \* NUM_MAX_JPEG_CNCURRENT_JOBS
  Faults       \* what may fail: "empty", "fill", "error", "encode", "reproc"

ASSUME JpegAssumption ==
  /\ Handles \in Nat \ {0} /\ MaxOngoing \in Nat \ {0}
  /\ Sessions = 1..Cardinality(Sessions)

VARIABLES
  session,      \* per slot: is it active, and session_handle_q
  handle,       \* per slot and handle: abort_state, encoding, was there an error, its
                \* job, the component
  jobQueue,     \* job_mgr.job_queue
  ongoingJobs,  \* ongoing_job_q
  jobSem,       \* job_mgr.job_sem
  jobLock,      \* who holds job_lock: "none", "mgr", "client"
  mgr,          \* the manager thread
  aborting,     \* where the client is in mm_jpeg_session_abort
  events        \* JPEG events on their way to the HAL's state machine

jpegVars == <<session, handle, jobQueue, ongoingJobs, jobSem, jobLock, mgr, aborting, events>>

HandleIds == 1..Handles
Job(f, s) == [type |-> "job", frame |-> f, session |-> s]
Exit == [type |-> "exit"]

\* A component is absent, executing, has its input ("half"), works on a job
\* ("busy"), was told to go idle with a job ("flushing") or without ("idling"),
\* or is idle.
NoHandle ==
  [abort |-> "none", encoding |-> FALSE, failed |-> FALSE, frame |-> 0, omx |-> "none"]
AtWait == [at |-> "wait", session |-> 0, handle |-> 0]
NoAbort == [at |-> "none", session |-> 0, handle |-> 0]

JpegInit ==
  /\ session = [s \in Sessions |-> [active |-> FALSE, free |-> <<>>]]
  /\ handle = [s \in Sessions |-> [i \in HandleIds |-> NoHandle]]
  /\ jobQueue = <<>> /\ ongoingJobs = <<>> /\ jobSem = 0 /\ jobLock = "none"
  /\ mgr = AtWait /\ aborting = NoAbort /\ events = <<>>
-----------------------------------------------------------------------------
(* Sessions and jobs. *)

Inactive == {s \in Sessions : ~session[s].active}
NewSession == Min(Inactive)

\* Takes the first slot and configures every handle until it executes.
CreateSession(s) ==
  /\ session' = [session EXCEPT ![s] = [active |-> TRUE, free |-> [i \in HandleIds |-> i]]]
  /\ handle' = [handle EXCEPT ![s] = [i \in HandleIds |-> [NoHandle EXCEPT !.omx = "exec"]]]

StartJob(f, s) ==
  /\ jobQueue' = Append(jobQueue, Job(f, s))
  /\ jobSem' = jobSem + 1

OfFrame(j, f) == j.type = "job" /\ j.frame = f
OfSession(j, s) == j.type = "job" /\ j.session = s
Queued(q, f) == \E k \in DOMAIN q : OfFrame(q[k], f)

\* The queue q without the nodes at the places D.
Without(q, D) ==
  LET kept[n \in 0..Len(q)] ==
        IF n = 0 THEN <<>> ELSE IF n \in D THEN kept[n - 1] ELSE Append(kept[n - 1], q[n])
  IN kept[Len(q)]

WithoutFrame(q, f) == Without(q, {k \in DOMAIN q : OfFrame(q[k], f)})
WithoutSession(q, s) == Without(q, {k \in DOMAIN q : OfSession(q[k], s)})

Report(f, status) == events' = Append(events, [frame |-> f, status |-> status])

\* Mutated form of JobDone: the manager is not woken.
JobDoneSilent(s, i) ==
  /\ ongoingJobs' = WithoutFrame(ongoingJobs, handle[s][i].frame)
  /\ session' = [session EXCEPT ![s].free = Append(@, i)]
  /\ UNCHANGED jobSem

JobDone(s, i) ==
  /\ ongoingJobs' = WithoutFrame(ongoingJobs, handle[s][i].frame)
  /\ session' = [session EXCEPT ![s].free = Append(@, i)]
  /\ jobSem' = jobSem + 1

\* A job ends with a callback of this status, its component in the state omx.
EndJob(s, i, status, omx) ==
  /\ Report(handle[s][i].frame, status)
  /\ JobDone(s, i)
  /\ handle' = [handle EXCEPT ![s][i].encoding = FALSE, ![s][i].omx = omx]
-----------------------------------------------------------------------------
(* The manager thread. *)

Room == Len(ongoingJobs) < MaxOngoing

\* A post that comes while the bound is reached is swallowed.
MgrWait ==
  /\ mgr.at = "wait" /\ jobSem > 0
  /\ jobSem' = jobSem - 1
  /\ mgr' = [mgr EXCEPT !.at = IF Room THEN "take" ELSE "wait"]
  /\ UNCHANGED <<session, handle, jobQueue, ongoingJobs, jobLock, aborting, events>>

\* The head of the queue; a job whose session has no handle left stays there.
MgrTake ==
  /\ mgr.at = "take" /\ jobLock = "none"
  /\ \/ /\ IF jobQueue = <<>> THEN TRUE
           ELSE Head(jobQueue).type = "job" /\ session[Head(jobQueue).session].free = <<>>
        /\ mgr' = AtWait
        /\ UNCHANGED <<session, handle, jobQueue, ongoingJobs, jobLock>>
     \/ /\ jobQueue # <<>> /\ Head(jobQueue) = Exit
        /\ jobQueue' = Tail(jobQueue)
        /\ mgr' = [mgr EXCEPT !.at = "exited"]
        /\ UNCHANGED <<session, handle, ongoingJobs, jobLock>>
     \/ /\ jobQueue # <<>> /\ Head(jobQueue).type = "job"
        /\ LET j == Head(jobQueue)
               q == session[j.session].free
           IN /\ q # <<>>
              /\ session' = [session EXCEPT ![j.session].free = Tail(@)]
              /\ handle' = [handle EXCEPT ![j.session][Head(q)] =
                              [@ EXCEPT !.abort = "none", !.encoding = FALSE, !.frame = j.frame]]
              /\ ongoingJobs' = Append(ongoingJobs, j)
              /\ mgr' = [at |-> "empty", session |-> j.session, handle |-> Head(q)]
        /\ jobQueue' = Tail(jobQueue)
        /\ jobLock' = "mgr"
  /\ UNCHANGED <<jobSem, aborting, events>>

\* OMX_EmptyThisBuffer.  A component that does not execute refuses the buffer; an
\* abort leaves such handles in session_handle_q, where the next job finds them.
Executes(h) == h.omx \in {"exec", "half"}

MgrEmpty ==
  /\ mgr.at = "empty"
  /\ LET s == mgr.session
         i == mgr.handle
     IN \/ /\ Executes(handle[s][i])
           /\ handle' = [handle EXCEPT ![s][i].encoding = TRUE, ![s][i].omx = "half"]
           /\ mgr' = [mgr EXCEPT !.at = "fill"]
           /\ UNCHANGED <<session, ongoingJobs, jobSem, jobLock, events>>
        \/ /\ "empty" \in Faults \/ ~Executes(handle[s][i])
           /\ EndJob(s, i, "error", handle[s][i].omx)
           /\ mgr' = AtWait /\ jobLock' = "none"
  /\ UNCHANGED <<jobQueue, aborting>>

\* OMX_FillThisBuffer; a component that has raised an error meanwhile takes the
\* buffer and does nothing with it.
MgrFill ==
  /\ mgr.at = "fill"
  /\ LET s == mgr.session
         i == mgr.handle
     IN \/ /\ handle' = [handle EXCEPT ![s][i].omx = IF @ = "half" THEN "busy" ELSE @]
           /\ UNCHANGED <<session, ongoingJobs, jobSem, events>>
        \/ /\ "fill" \in Faults /\ handle[s][i].omx = "half"
           /\ EndJob(s, i, "error", "half")
  /\ mgr' = AtWait /\ jobLock' = "none"
  /\ UNCHANGED <<jobQueue, aborting>>
-----------------------------------------------------------------------------
(* The components' callbacks. *)

\* A component without its job goes on executing, or on its way to idle.
Jobless(h) == IF h.omx = "flushing" THEN "idling" ELSE "exec"

\* mm_jpeg_fbd: the picture is done, unless its session is being aborted.
Delivered(s, i) ==
  LET h == handle[s][i]
  IN IF h.abort = "none" THEN EndJob(s, i, "done", Jobless(h))
     ELSE /\ handle' = [handle EXCEPT ![s][i].omx = Jobless(h)]
          /\ UNCHANGED <<session, ongoingJobs, jobSem, events>>

FillBufferDone(s, i) ==
  /\ handle[s][i].omx \in {"busy", "flushing"}
  /\ Delivered(s, i)
  /\ UNCHANGED <<jobQueue, jobLock, mgr, aborting>>

\* Mutated form of ErrorRaised: a job that has ended is ended again.
ErrorRaisedTwice(s, i) == EndJob(s, i, "error", Jobless(handle[s][i]))

\* mm_jpeg_event_handler, an error: it is kept, and ends the job that is being encoded.
ErrorRaised(s, i) ==
  LET h == handle[s][i]
  IN /\ handle' = [handle EXCEPT ![s][i] =
                      [h EXCEPT !.failed = TRUE, !.encoding = FALSE, !.omx = Jobless(h)]]
     /\ IF h.encoding THEN Report(h.frame, "error") /\ JobDone(s, i)
        ELSE UNCHANGED <<session, ongoingJobs, jobSem, events>>

ErrorEvent(s, i) ==
  /\ "error" \in Faults
  /\ handle[s][i].omx \in {"half", "busy", "flushing"} /\ handle[s][i].abort = "none"
  /\ ErrorRaised(s, i)
  /\ UNCHANGED <<jobQueue, jobLock, mgr, aborting>>

\* Mutated form of Aborted: an abort is not told of an event.
AbortedSilently(h) == h.abort

\* mm_jpeg_event_handler: any event ends the wait of an abort.
Aborted(h) == IF h.abort = "init" THEN "done" ELSE h.abort

\* An error that reaches an abort before the component is idle.
ErrorInAbort(s, i) ==
  /\ "error" \in Faults
  /\ handle[s][i].omx = "flushing" /\ handle[s][i].abort = "init"
  /\ handle' = [handle EXCEPT ![s][i].abort = Aborted(handle[s][i]), ![s][i].omx = "idling"]
  /\ UNCHANGED <<session, jobQueue, ongoingJobs, jobSem, jobLock, mgr, aborting, events>>

\* The command to go idle is complete.
IdleComplete(s, i) ==
  /\ handle[s][i].omx = "idling"
  /\ handle' = [handle EXCEPT ![s][i].omx = "idle", ![s][i].abort = Aborted(handle[s][i])]
  /\ UNCHANGED <<session, jobQueue, ongoingJobs, jobSem, jobLock, mgr, aborting, events>>

Component(s, i) ==
  FillBufferDone(s, i) \/ ErrorEvent(s, i) \/ ErrorInAbort(s, i) \/ IdleComplete(s, i)
-----------------------------------------------------------------------------
(* Abort: the handles of a session, one after the other, under job_lock. *)

BeginAbort(s, i) ==
  /\ jobLock' = "client"
  /\ aborting' = [at |-> "next", session |-> s, handle |-> i]

AbortedOn ==
  aborting' = IF aborting.handle = Handles THEN [aborting EXCEPT !.at = "done"]
              ELSE [aborting EXCEPT !.at = "next", !.handle = @ + 1]

\* A handle that was aborted before ends the walk; one that encodes is told to go
\* idle and waited for.
AbortNext ==
  /\ aborting.at = "next"
  /\ LET s == aborting.session
         i == aborting.handle
     IN \/ /\ handle[s][i].abort # "none"
           /\ aborting' = [aborting EXCEPT !.at = "done"]
           /\ UNCHANGED handle
        \/ /\ handle[s][i].abort = "none" /\ handle[s][i].encoding
           /\ handle' = [handle EXCEPT ![s][i].abort = "init", ![s][i].omx = "flushing"]
           /\ aborting' = [aborting EXCEPT !.at = "wait"]
        \/ /\ handle[s][i].abort = "none" /\ ~handle[s][i].encoding
           /\ handle' = [handle EXCEPT ![s][i].abort = "done"]
           /\ AbortedOn
  /\ UNCHANGED <<session, jobQueue, ongoingJobs, jobSem, jobLock, mgr, events>>

AbortWait ==
  /\ aborting.at = "wait"
  /\ handle[aborting.session][aborting.handle].abort # "init"
  /\ handle' = [handle EXCEPT ![aborting.session][aborting.handle].abort = "done"]
  /\ AbortedOn
  /\ UNCHANGED <<session, jobQueue, ongoingJobs, jobSem, jobLock, mgr, events>>

\* session_destroy: a component that still encodes is told to go idle.
DestroyBusy ==
  /\ aborting.at = "done"
  /\ \E i \in HandleIds :
       /\ handle[aborting.session][i].omx = "busy"
       /\ handle' = [handle EXCEPT ![aborting.session][i].omx = "flushing"]
  /\ UNCHANGED <<session, jobQueue, ongoingJobs, jobSem, jobLock, mgr, aborting, events>>

\* A component without a job is idle as soon as it is told; one that had an
\* error is not waited for.
Destroyable(h) == h.failed \/ h.omx \in {"idle", "exec", "half"}

Mgr == MgrWait \/ MgrTake \/ MgrEmpty \/ MgrFill
Abort == AbortNext \/ AbortWait
=============================================================================
