----------------------------- MODULE StreamPoll ------------------------------
(***************************************************************************)
(* A stream of a camera channel and the threads that share its buffers:    *)
(*                                                                         *)
(*   api     a HAL thread inside mm_channel_start, mm_channel_stop and     *)
(*           mm_channel_release (under ch_lock, so there is one of it);    *)
(*   poll    the data poll thread of the channel (mm_camera_thread.c),     *)
(*           which calls mm_stream_data_notify;                            *)
(*   cmd     cmd_thread of the stream, which calls the data callback;      *)
(*   super   the channel's cmd_thread and cb_thread and the HAL behind     *)
(*           them, which hold the buffers of a bundled stream;             *)
(*   kernel  the V4L2 driver, which fills queued buffers.                  *)
(*                                                                         *)
(* A critical section of buf_lock or of the poll thread's mutex is one     *)
(* step.  A step of the poll thread that reaches released memory or a      *)
(* thread that is gone sets `fault` and is its last.                       *)
(***************************************************************************)
EXTENDS Integers, Sequences, FiniteSets

CONSTANTS
  Bufs,             \* the buffers of the stream
  NoBuf,            \* no buffer
  InitHeld,         \* buffers the HAL keeps at first (initial_reg_flag 0)
  Bundled,          \* is_bundled
  HasCb,            \* whether a data callback is registered
  RunsDry,          \* whether the driver fills its last buffer too
  BufOpsCanFail,    \* whether cache operations and VIDIOC_QBUF may fail
  StartCanFail,     \* whether buffer registration and STREAMON may fail
  Spurious,         \* whether pthread_cond_wait may return unsignalled
  MaxSessions       \* bound: how often the channel is started

ASSUME StreamPollAssumption ==
  /\ InitHeld \subseteq Bufs /\ IsFiniteSet(Bufs) /\ NoBuf \notin Bufs
  /\ {Bundled, HasCb, RunsDry, BufOpsCanFail, StartCanFail, Spurious} \subseteq BOOLEAN
  /\ MaxSessions \in Nat \ {0}

VARIABLES
  apc,        \* where the api thread is
  sessions,
  sstate,     \* stream state: "CFG", "BUFFED", "REG", "ACTIVE"
  streaming,  \* STREAMON was done
  queued,     \* buffers the driver may fill
  filled,     \* filled buffers, in the order VIDIOC_DQBUF returns them
  refcnt,     \* buf_status[b].buf_refcnt
  count,      \* queued_buffer_count
  entry,      \* the poll entry of the stream is set
  pollset,    \* the poll thread polls the fd of the stream
  pipe,       \* commands in the pipe of the poll thread
  woken,      \* sig_done was called since the api thread waits
  ppc, pbuf,  \* where the poll thread is, and the buffer it has
  cmdQ,       \* cmdQ[b]: how often b waits in the queue of cmd_thread
  dispatched, \* buffers whose callback cmd_thread has called
  cmdAlive, superAlive,  \* the stream's cmd_thread, the channel's threads
  super,      \* buffers with the channel's threads and the HAL behind them
  app,        \* app[b]: references the data callback has not given back
  fault

apiVars == <<apc, sessions, sstate, streaming>>
pollVars == <<entry, pollset, pipe, woken>>
bufVars == <<queued, filled, refcnt, count>>
cmdVars == <<cmdQ, dispatched, cmdAlive>>
useVars == <<super, app, superAlive>>
vars == <<apiVars, pollVars, bufVars, cmdVars, useVars, ppc, pbuf, fault>>

B2N(p) == IF p THEN 1 ELSE 0
Allocated == sstate # "CFG"
Filled == {filled[i] : i \in DOMAIN filled}
KernelBufs == queued \cup Filled

Init ==
  /\ apc = "idle" /\ sessions = 0 /\ sstate = "CFG" /\ streaming = FALSE
  /\ queued = {} /\ filled = <<>> /\ refcnt = [b \in Bufs |-> 0] /\ count = 0
  /\ entry = FALSE /\ pollset = FALSE /\ pipe = <<>> /\ woken = FALSE
  /\ ppc = "poll" /\ pbuf = NoBuf
  /\ cmdQ = [b \in Bufs |-> 0] /\ dispatched = {} /\ cmdAlive = FALSE
  /\ super = {} /\ app = [b \in Bufs |-> 0] /\ superAlive = FALSE
  /\ fault = FALSE
-----------------------------------------------------------------------------
(* The api thread. *)

ApiAt(from, to) == /\ apc = from /\ apc' = to /\ ~fault

\* mm_channel_start: the channel's threads are launched, the buffers allocated.
\* A stop erases the bundle, so the HAL restarts only channels without one.
GetBuf ==
  /\ ApiAt("idle", "reg") /\ sessions < IF Bundled THEN 1 ELSE MaxSessions
  /\ sessions' = sessions + 1
  /\ sstate' = "BUFFED" /\ superAlive' = Bundled
  /\ UNCHANGED <<streaming, bufVars, pollVars, cmdVars, super, app, ppc, pbuf, fault>>

\* mm_stream_reg_buf: buffers the HAL does not hold are queued to the kernel, the
\* first one puts the fd into the poll thread.  VIDIOC_QBUF of a buffer b may
\* fail: those before it stay queued and the state stays BUFFED.
RegBuf ==
  /\ apc = "reg" /\ ~fault
  /\ \E Q \in SUBSET (Bufs \ InitHeld), ok \in {TRUE, ~StartCanFail}, counted \in BOOLEAN :
       /\ ok <=> Q = Bufs \ InitHeld
       /\ count' = Cardinality(Q) + B2N(~ok /\ counted)
       /\ queued' = Q
       /\ refcnt' = IF ok THEN [b \in Bufs |-> B2N(b \in InitHeld)] ELSE refcnt
       /\ app' = IF ok THEN [b \in Bufs |-> B2N(b \in InitHeld)] ELSE app
       /\ sstate' = IF ok THEN "REG" ELSE sstate
       /\ apc' = IF ok THEN "launch" ELSE "failed"
  /\ entry' = (entry \/ count' > 0)
  /\ pipe' = IF count' > 0 THEN Append(pipe, "ASYNC") ELSE pipe
  /\ UNCHANGED <<sessions, streaming, filled, pollset, woken, cmdVars, super, superAlive, ppc, pbuf, fault>>

\* MM_STREAM_EVT_START launches cmd_thread when there is a callback.
Launch ==
  /\ ApiAt("launch", "streamon")
  /\ cmdAlive' = HasCb /\ sstate' = "ACTIVE"
  /\ UNCHANGED <<sessions, streaming, bufVars, pollVars, cmdQ, dispatched, useVars, ppc, pbuf, fault>>

\* mm_stream_streamon
StreamOn ==
  /\ ApiAt("streamon", "running")
  /\ streaming' = TRUE
  /\ UNCHANGED <<sessions, sstate, bufVars, pollVars, cmdVars, useVars, ppc, pbuf, fault>>

\* Mutated form of DelPollFd: the caller does not wait.
DelPollFdNoWait(next, wait) ==
  /\ entry' = FALSE
  /\ pipe' = IF entry THEN Append(pipe, "SYNC") ELSE pipe
  /\ woken' = FALSE
  /\ apc' = next

\* mm_camera_poll_thread_del_poll_fd, synchronous: an entry that is no longer the
\* stream's own is left alone and there is nothing to wait for.
DelPollFd(next, wait) ==
  /\ entry' = FALSE
  /\ pipe' = IF entry THEN Append(pipe, "SYNC") ELSE pipe
  /\ woken' = FALSE
  /\ apc' = IF entry THEN wait ELSE next

\* A failed STREAMON, and mm_stream_streamoff when the HAL stops the channel.
StreamOnFails ==
  /\ apc = "streamon" /\ ~fault /\ StartCanFail
  /\ DelPollFd("onfailed", "onfailwait")
  /\ UNCHANGED <<sessions, sstate, streaming, bufVars, pollset, cmdVars, useVars, ppc, pbuf, fault>>

StopChannel ==
  /\ apc = "running" /\ ~fault
  /\ DelPollFd("streamoff", "stopwait")
  /\ UNCHANGED <<sessions, sstate, streaming, bufVars, pollset, cmdVars, useVars, ppc, pbuf, fault>>

\* pthread_cond_wait in mm_camera_poll_sig, called once, not in a loop.
SigWait ==
  /\ woken \/ Spurious
  /\ \/ ApiAt("stopwait", "streamoff")
     \/ ApiAt("onfailwait", "onfailed")
  /\ UNCHANGED <<sessions, sstate, streaming, bufVars, pollVars, cmdVars, useVars, ppc, pbuf, fault>>

\* VIDIOC_STREAMOFF: the kernel gives up all buffers.
StreamOff ==
  /\ ApiAt("streamoff", "release")
  /\ streaming' = FALSE
  /\ queued' = {} /\ filled' = <<>>
  /\ UNCHANGED <<sessions, sstate, refcnt, count, pollVars, cmdVars, useVars, ppc, pbuf, fault>>

\* mm_camera_cmd_thread_release: cmd_thread drains its queue and is joined.
ReleaseCmdThread ==
  /\ \/ ApiAt("release", "unreg")
     \/ ApiAt("onfailed", "unreg")
  /\ \A b \in Bufs : cmdQ[b] = 0
  /\ dispatched = {}
  /\ cmdAlive' = FALSE /\ sstate' = "REG"
  /\ UNCHANGED <<sessions, streaming, bufVars, pollVars, cmdQ, dispatched, useVars, ppc, pbuf, fault>>

\* mm_stream_unreg_buf
UnregBuf ==
  /\ ApiAt("unreg", "put")
  /\ sstate' = "BUFFED"
  /\ queued' = {} /\ filled' = <<>> /\ refcnt' = [b \in Bufs |-> 0]
  /\ UNCHANGED <<sessions, streaming, count, pollVars, cmdVars, useVars, ppc, pbuf, fault>>

\* The channel's threads are joined, then mm_stream_deinit_bufs frees the buffers
\* (the HAL has returned its own by then).  After a failed registration the
\* stream is in a state that ignores STOP and UNREG_BUF, so this is all.
PutBuf ==
  /\ \/ ApiAt("put", "idle")
     \/ ApiAt("failed", "idle")
  /\ sstate' = "CFG" /\ superAlive' = FALSE /\ super' = {}
  /\ app' = [b \in Bufs |-> 0]
  /\ UNCHANGED <<sessions, streaming, bufVars, pollVars, cmdVars, ppc, pbuf, fault>>
-----------------------------------------------------------------------------
(* The poll thread. *)

PollAt(from) == ppc = from /\ ~fault

\* Mutated form of Signals: the wrong kind of command is confirmed.
SignalsAsync(cmd) == cmd = "ASYNC"

\* mm_camera_poll_sig_done is called for synchronous commands.
Signals(cmd) == cmd = "SYNC"

\* mm_camera_poll_proc_pipe: whenever the pipe is readable only it is served.
ProcPipe ==
  /\ PollAt("poll") /\ pipe # <<>>
  /\ pollset' = entry
  /\ woken' = (woken \/ Signals(Head(pipe)))
  /\ pipe' = Tail(pipe)
  /\ UNCHANGED <<apiVars, bufVars, cmdVars, useVars, entry, ppc, pbuf, fault>>

\* poll() returns with the fd readable.
PollReturns ==
  /\ PollAt("poll") /\ pipe = <<>> /\ pollset /\ streaming /\ filled # <<>>
  /\ ppc' = "notify"
  /\ UNCHANGED <<apiVars, bufVars, cmdVars, useVars, pollVars, pbuf, fault>>

\* mm_stream_data_notify: the entry may be gone and the state is checked once;
\* then VIDIOC_DQBUF, which fails when the stream was turned off meanwhile.
DqBuf ==
  /\ PollAt("notify")
  /\ IF entry /\ sstate = "ACTIVE" /\ streaming
     THEN filled' = Tail(filled) /\ pbuf' = Head(filled) /\ ppc' = "count"
     ELSE ppc' = "poll" /\ UNCHANGED <<filled, pbuf>>
  /\ UNCHANGED <<apiVars, queued, refcnt, count, cmdVars, useVars, pollVars, fault>>

\* Mutated form of CountDown: polling of an empty queue goes on.
CountDownKeepsPolling == count' = count - 1 /\ UNCHANGED <<entry, pipe>>

\* queued_buffer_count-- under buf_lock; at 0 the fd leaves the poll thread.
CountDown ==
  /\ count' = count - 1
  /\ entry' = (entry /\ count' # 0)
  /\ pipe' = IF entry /\ count' = 0 THEN Append(pipe, "ASYNC") ELSE pipe

\* The rest of mm_stream_read_msm_frame; a failed cache operation drops the buffer.
ReadFrame ==
  /\ PollAt("count")
  /\ IF ~Allocated
     THEN fault' = TRUE /\ UNCHANGED <<count, entry, pipe, ppc, pbuf>>
     ELSE /\ CountDown
          /\ \/ ppc' = "account" /\ pbuf' = pbuf
             \/ BufOpsCanFail /\ ppc' = "poll" /\ pbuf' = NoBuf
          /\ fault' = fault
  /\ UNCHANGED <<apiVars, queued, filled, refcnt, cmdVars, useVars, pollset, woken>>

\* Mutated form of NewRefs: cmd_thread has no reference of its own.
NewRefsSuperOnly == B2N(Bundled)

\* The references a new frame starts with: the superbuf path and cmd_thread.
NewRefs == B2N(Bundled) + B2N(HasCb)

\* mm_stream_data_notify updates buf_status under buf_lock.
Account ==
  /\ PollAt("account")
  /\ IF Allocated
     THEN /\ refcnt' = [refcnt EXCEPT ![pbuf] = @ + NewRefs]
          /\ ppc' = "handover" /\ fault' = fault
     ELSE fault' = TRUE /\ UNCHANGED <<refcnt, ppc>>
  /\ UNCHANGED <<apiVars, queued, filled, count, cmdVars, useVars, pollVars, pbuf>>

\* mm_stream_handle_rcvd_buf queues the buffer to both threads.
HandleRcvdBuf ==
  /\ PollAt("handover")
  /\ IF (Bundled => superAlive) /\ (HasCb => cmdAlive)
     THEN /\ super' = IF Bundled THEN super \cup {pbuf} ELSE super
          /\ cmdQ' = [cmdQ EXCEPT ![pbuf] = @ + B2N(HasCb)]
          /\ ppc' = "poll" /\ pbuf' = NoBuf /\ fault' = fault
     ELSE fault' = TRUE /\ UNCHANGED <<super, cmdQ, ppc, pbuf>>
  /\ UNCHANGED <<apiVars, bufVars, pollVars, app, superAlive, dispatched, cmdAlive>>
-----------------------------------------------------------------------------
(* The other threads. *)

\* The driver fills a queued buffer; it may be one that keeps its last buffer.
Fill(b) ==
  /\ ~fault /\ streaming /\ b \in queued
  /\ RunsDry \/ queued # {b}
  /\ queued' = queued \ {b} /\ filled' = Append(filled, b)
  /\ UNCHANGED <<apiVars, refcnt, count, pollVars, cmdVars, useVars, ppc, pbuf, fault>>

\* Mutated forms of BufDone: the buffer is queued although it is still
\* referenced; the fd is not added to the poll thread again.
BufDoneEarly(b) ==
  /\ refcnt[b] > 0
  /\ refcnt' = [refcnt EXCEPT ![b] = @ - 1]
  /\ count' = count + 1 /\ queued' = queued \cup {b}
  /\ entry' = TRUE
  /\ pipe' = IF count = 0 THEN Append(pipe, "ASYNC") ELSE pipe
BufDoneNoPoll(b) ==
  /\ refcnt' = [refcnt EXCEPT ![b] = @ - 1]
  /\ IF refcnt[b] = 1 THEN count' = count + 1 /\ queued' = queued \cup {b}
     ELSE UNCHANGED <<queued, count>>
  /\ UNCHANGED <<entry, pipe>>

\* mm_stream_buf_done with mm_stream_qbuf: the last reference gives the buffer to
\* the kernel, and the first queued buffer adds the fd to the poll thread.
BufDone(b) ==
  /\ refcnt' = [refcnt EXCEPT ![b] = IF @ = 0 THEN 0 ELSE @ - 1]
  /\ IF refcnt[b] # 1 THEN UNCHANGED <<queued, count, entry, pipe>>
     ELSE \/ /\ count' = count + 1
             /\ entry' = (entry \/ count = 0)
             /\ pipe' = IF count = 0 THEN Append(pipe, "ASYNC") ELSE pipe
             /\ \/ queued' = queued \cup {b}
                \/ BufOpsCanFail /\ queued' = queued
          \/ BufOpsCanFail /\ UNCHANGED <<queued, count, entry, pipe>>

\* mm_stream_dispatch_app_data calls the callback with a reference of its own ...
Callback ==
  /\ cmdAlive /\ ~fault /\ dispatched = {}
  /\ \E b \in Bufs : /\ cmdQ[b] > 0
                     /\ cmdQ' = [cmdQ EXCEPT ![b] = @ - 1]
                     /\ refcnt' = [refcnt EXCEPT ![b] = @ + 1]
                     /\ app' = [app EXCEPT ![b] = @ + 1]
                     /\ dispatched' = {b}
  /\ UNCHANGED <<apiVars, queued, filled, count, pollVars, super, superAlive, cmdAlive, ppc, pbuf, fault>>

\* ... and gives back the one it got from the poll thread, in any stream state.
CallbackDone ==
  /\ ~fault
  /\ \E b \in dispatched : BufDone(b)
  /\ dispatched' = {}
  /\ UNCHANGED <<apiVars, filled, pollset, woken, useVars, cmdQ, cmdAlive, ppc, pbuf, fault>>

\* mm_channel_qbuf, by the HAL or by the channel's threads: the event QBUF, which
\* only a stream in ACTIVE acts on.  The HAL calls it from its data callbacks, so
\* not before the stream is on.
QBufEvent(b) ==
  IF sstate = "ACTIVE" THEN BufDone(b) ELSE UNCHANGED <<queued, refcnt, count, entry, pipe>>

AppQBuf(b) ==
  /\ ~fault /\ app[b] > 0 /\ apc \notin {"launch", "streamon"}
  /\ app' = [app EXCEPT ![b] = @ - 1]
  /\ QBufEvent(b)
  /\ UNCHANGED <<apiVars, filled, pollset, woken, cmdVars, super, superAlive, ppc, pbuf, fault>>

SuperQBuf(b) ==
  /\ ~fault /\ b \in super
  /\ super' = super \ {b}
  /\ QBufEvent(b)
  /\ UNCHANGED <<apiVars, filled, pollset, woken, cmdVars, app, superAlive, ppc, pbuf, fault>>
-----------------------------------------------------------------------------
Api == \/ GetBuf \/ RegBuf \/ Launch \/ StreamOn \/ StreamOnFails \/ SigWait
       \/ StreamOff \/ ReleaseCmdThread \/ UnregBuf \/ PutBuf
Poll == ProcPipe \/ PollReturns \/ DqBuf \/ ReadFrame \/ Account \/ HandleRcvdBuf
Cmd == Callback \/ CallbackDone

\* The channel is left idle, or a fault ended the run.
Terminated == (fault \/ apc = "idle") /\ UNCHANGED vars

Next == \/ Api \/ StopChannel \/ Poll \/ Cmd
        \/ \E b \in Bufs : Fill(b) \/ AppQBuf(b) \/ SuperQBuf(b)
        \/ Terminated

Spec == Init /\ [][Next]_vars

\* Threads run when they can.  The camera keeps filling buffers, and a HAL that
\* got a buffer gives it back; nobody has to stop the channel.
FairSpec == /\ Spec /\ WF_vars(Api) /\ WF_vars(Poll) /\ WF_vars(Cmd)
            /\ \A b \in Bufs : /\ WF_vars(Fill(b))
                               /\ WF_vars(AppQBuf(b)) /\ WF_vars(SuperQBuf(b))
-----------------------------------------------------------------------------
ApiTypes ==
  /\ apc \in {"idle", "reg", "failed", "launch", "streamon", "onfailwait", "onfailed",
              "running", "stopwait", "streamoff", "release", "unreg", "put"}
  /\ sessions \in 0..MaxSessions
  /\ sstate \in {"CFG", "BUFFED", "REG", "ACTIVE"} /\ streaming \in BOOLEAN
PollTypes ==
  /\ entry \in BOOLEAN /\ pollset \in BOOLEAN /\ woken \in BOOLEAN /\ fault \in BOOLEAN
  /\ pipe \in Seq({"SYNC", "ASYNC"})
  /\ ppc \in {"poll", "notify", "count", "account", "handover"}
  /\ pbuf \in Bufs \cup {NoBuf}
BufTypes ==
  /\ queued \subseteq Bufs /\ filled \in Seq(Bufs)
  /\ refcnt \in [Bufs -> Nat] /\ count \in Nat
UserTypes ==
  /\ cmdQ \in [Bufs -> Nat] /\ dispatched \subseteq Bufs /\ cmdAlive \in BOOLEAN
  /\ super \subseteq Bufs /\ app \in [Bufs -> Nat] /\ superAlive \in BOOLEAN
TypeOK == ApiTypes /\ PollTypes /\ BufTypes /\ UserTypes

\* The references to b that somebody has and will give back.
Users(b) == B2N(b \in super) + cmdQ[b] + B2N(b \in dispatched) + app[b]
              + (IF ppc = "handover" /\ pbuf = b THEN NewRefs ELSE 0)

\* buf_refcnt of every buffer is the number of its users, whatever the poll
\* thread, cmd_thread, the callback and the superbuf path do in between.
RefcntExact == sstate = "ACTIVE" => \A b \in Bufs : refcnt[b] = Users(b)

\* A buffer the camera may write to is used by nobody.
KernelExclusive ==
  streaming => \A b \in KernelBufs : Users(b) = 0 /\ pbuf # b

\* queued_buffer_count, which is not updated together with the kernel's queue, is
\* right again when no frame is being read, and decides the poll entry.
QueuedCountExact ==
  apc = "running" => /\ count = Cardinality(KernelBufs) + B2N(ppc = "count")
                     /\ entry <=> count > 0

\* The fd of a stopped stream is not polled, and the poll thread is not in
\* mm_stream_data_notify: a synchronous call returns when its command is done.
SyncMeansDone == apc = "streamoff" => ~entry /\ ~pollset /\ ppc = "poll"

\* mm_channel_stop: "since all streams are stopped, we are safe to release all
\* buffers allocated in stream".  The poll thread never meets released memory or
\* a joined thread.
SafeToRelease == ~fault

\* A frame the camera has filled reaches its users unless the channel is stopped.
FrameDelivered ==
  \A b \in Bufs : b \in Filled ~> (b \notin Filled \/ apc # "running")

\* A stop, which waits for the poll thread and joins cmd_thread, comes to its end.
StopEnds == (apc = "stopwait") ~> (apc = "idle")
=============================================================================
