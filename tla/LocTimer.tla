------------------------------- MODULE LocTimer -------------------------------
(***************************************************************************)
(* The timers of gps/utils/LocTimer.cpp.  A client starts and stops        *)
(* one-shot timers (loc_timer_start, loc_timer_stop).  All timers of a     *)
(* clock are in one heap, which only the MsgTask thread touches; the       *)
(* kernel timer (timerfd) is set for the soonest of them, and the thread   *)
(* of LocTimerPollTask waits for it with epoll.                            *)
(*                                                                         *)
(*   client   starts and stops, under the lock of the timer;               *)
(*   poll     LocTimerContainer::expire disarms the timerfd, takes it out  *)
(*            of epoll and sends MsgTimerExpire;                           *)
(*   task     handles MsgTimerPush, MsgTimerRemove and MsgTimerExpire in   *)
(*            the order they were sent, and calls the callbacks.           *)
(*                                                                         *)
(* There are two objects per timer: the client's (LocTimerWrapper, which   *)
(* is a LocTimer) and the one in the heap (LocTimerDelegate).              *)
(***************************************************************************)
EXTENDS Integers, Sequences

CONSTANTS
  Timers,      \* the timers, one loc_timer_start each
  NoTimer,     \* no timer
  Delays,      \* timeouts, in ticks
  TicksPerSec, \* ticks of the clock in a second
  LateStop,    \* whether a client may stop a timer that is just expiring
  MaxTime      \* bound: no timeout is later

ASSUME LocTimerAssumption ==
  /\ NoTimer \notin Timers /\ Delays \subseteq Nat
  /\ TicksPerSec \in Nat \ {0} /\ MaxTime \in Nat /\ LateStop \in BOOLEAN

VARIABLES
  now,         \* CLOCK_BOOTTIME
  app,         \* app[t]: where the client is with t
  wrapper,     \* wrapper[t]: "none", "live", "dying" (mCb NULL), "freed"
  mTimer,      \* mTimer[t]: LocTimer::mTimer is set
  delegate,    \* delegate[t]: "none", "live", "freed"
  mClient,     \* mClient[t]: the delegate's mClient is set
  futureTime,  \* futureTime[t]: mFutureTime
  heap, top,   \* the timers in the heap and the one on top of it
  msgs,        \* the queue of the MsgTask
  armed,       \* time the timerfd is set to, -1 if it is disarmed
  polled,      \* the timerfd is in epoll
  ppc,         \* where the poll thread is
  tpc, cur,    \* where the MsgTask thread is, with which timer
  nowE,        \* the time MsgTimerExpire read
  wmutex,      \* LocTimerWrapper::mMutex: who holds it
  outcome,     \* history: "none", "pending", "cancelled", "fired"
  fault        \* the MsgTask thread used a client object that is gone

clientVars == <<app, wrapper, mTimer, wmutex, outcome>>
delegateVars == <<delegate, mClient, futureTime>>
heapVars == <<heap, top>>
kernelVars == <<armed, polled>>
taskVars == <<tpc, cur, nowE>>
vars == <<now, clientVars, delegateVars, heapVars, kernelVars, msgs, ppc, taskVars, fault>>

Init ==
  /\ now = 0
  /\ app = [t \in Timers |-> "new"] /\ wrapper = [t \in Timers |-> "none"]
  /\ mTimer = [t \in Timers |-> FALSE] /\ wmutex = NoTimer
  /\ delegate = [t \in Timers |-> "none"] /\ mClient = [t \in Timers |-> FALSE]
  /\ futureTime = [t \in Timers |-> 0]
  /\ heap = {} /\ top = NoTimer
  /\ msgs = <<>> /\ armed = -1 /\ polled = FALSE /\ ppc = "wait"
  /\ tpc = "idle" /\ cur = NoTimer /\ nowE = 0
  /\ outcome = [t \in Timers |-> "none"] /\ fault = FALSE

Msg(type, t) == [type |-> type, timer |-> t]

\* LocTimerDelegate::ranks compares whole seconds.
Sec(time) == time \div TicksPerSec
OutRanks(s, t) == Sec(futureTime[s]) < Sec(futureTime[t])
-----------------------------------------------------------------------------
(* The client. *)

\* loc_timer_start: LocTimer::start takes the timer's lock and the time ...
Start(t) ==
  /\ app[t] = "new" /\ ~fault
  /\ \E d \in Delays : /\ now + d <= MaxTime
                       /\ futureTime' = [futureTime EXCEPT ![t] = now + d]
  /\ app' = [app EXCEPT ![t] = "starting"]
  /\ wrapper' = [wrapper EXCEPT ![t] = "live"]
  /\ delegate' = [delegate EXCEPT ![t] = "live"]
  /\ mClient' = [mClient EXCEPT ![t] = TRUE]
  /\ outcome' = [outcome EXCEPT ![t] = "pending"]
  /\ UNCHANGED <<now, mTimer, wmutex, heapVars, kernelVars, msgs, ppc, taskVars, fault>>

\* ... the delegate adds itself to the container, and the lock is released.
Add(t) ==
  /\ app[t] = "starting" /\ ~fault
  /\ msgs' = Append(msgs, Msg("push", t))
  /\ mTimer' = [mTimer EXCEPT ![t] = TRUE]
  /\ app' = [app EXCEPT ![t] = "running"]
  /\ UNCHANGED <<now, wrapper, wmutex, outcome, delegateVars, heapVars, kernelVars, ppc, taskVars, fault>>

\* Mutated form of Stop: the delegate is not removed.
StopNotRemoved(t, result) ==
  /\ mTimer' = [mTimer EXCEPT ![t] = FALSE]
  /\ mClient' = [mClient EXCEPT ![t] = @ /\ ~mTimer[t]] /\ msgs' = msgs
  /\ outcome' = [outcome EXCEPT ![t] = IF mTimer[t] THEN result ELSE @]

\* LocTimer::stop under the lock of the timer, with destroyLocked; whoever finds
\* mTimer set decides what becomes of the timer.
Stop(t, result) ==
  /\ mTimer' = [mTimer EXCEPT ![t] = FALSE]
  /\ mClient' = [mClient EXCEPT ![t] = @ /\ ~mTimer[t]]
  /\ msgs' = IF mTimer[t] THEN Append(msgs, Msg("remove", t)) ELSE msgs
  /\ outcome' = [outcome EXCEPT ![t] = IF mTimer[t] THEN result ELSE @]

\* loc_timer_stop calls destroy, which deletes the wrapper under mMutex: its
\* destructors clear mCb and stop the timer ...  The handle is valid until the
\* callback has returned.
StopBegin(t) ==
  /\ app[t] = "running" /\ ~fault /\ wmutex = NoTimer
  /\ LateStop \/ cur # t
  /\ wmutex' = t
  /\ app' = [app EXCEPT ![t] = "stopping"]
  /\ wrapper' = [wrapper EXCEPT ![t] = "dying"]
  /\ Stop(t, "cancelled")
  /\ UNCHANGED <<now, delegate, futureTime, heapVars, kernelVars, ppc, taskVars, fault>>

\* ... and its memory is released.
StopEnd(t) ==
  /\ app[t] = "stopping" /\ ~fault
  /\ app' = [app EXCEPT ![t] = "stopped"]
  /\ wrapper' = [wrapper EXCEPT ![t] = "freed"]
  /\ wmutex' = NoTimer
  /\ UNCHANGED <<now, mTimer, outcome, delegateVars, heapVars, kernelVars, msgs, ppc, taskVars, fault>>
-----------------------------------------------------------------------------
(* The kernel timer and the poll thread. *)

Tick ==
  /\ now < MaxTime /\ ~fault
  /\ now' = now + 1
  /\ UNCHANGED <<clientVars, delegateVars, heapVars, kernelVars, msgs, ppc, taskVars, fault>>

\* epoll_wait returns when the timerfd has expired.
PollReturns ==
  /\ ppc = "wait" /\ polled /\ armed # -1 /\ armed <= now /\ ~fault
  /\ ppc' = "disarm"
  /\ UNCHANGED <<now, clientVars, delegateVars, heapVars, kernelVars, msgs, taskVars, fault>>

\* LocTimerContainer::expire
Disarm ==
  /\ ppc = "disarm" /\ ~fault
  /\ armed' = -1 /\ ppc' = "unpoll"
  /\ UNCHANGED <<now, clientVars, delegateVars, heapVars, polled, msgs, taskVars, fault>>

RemovePoll ==
  /\ ppc = "unpoll" /\ ~fault
  /\ polled' = FALSE /\ ppc' = "send"
  /\ UNCHANGED <<now, clientVars, delegateVars, heapVars, armed, msgs, taskVars, fault>>

SendExpire ==
  /\ ppc = "send" /\ ~fault
  /\ msgs' = Append(msgs, Msg("expire", NoTimer)) /\ ppc' = "wait"
  /\ UNCHANGED <<now, clientVars, delegateVars, heapVars, kernelVars, taskVars, fault>>
-----------------------------------------------------------------------------
(* The MsgTask thread. *)

\* Mutated form of UpdateSoonestTime: the timerfd is set, but not polled again.
UpdateSoonestNoPoll(newTop, priorTop) ==
  IF newTop = priorTop THEN UNCHANGED kernelVars
  ELSE IF newTop = NoTimer THEN polled' = FALSE /\ armed' = -1
  ELSE IF priorTop = NoTimer \/ OutRanks(newTop, priorTop)
       THEN armed' = futureTime[newTop] /\ UNCHANGED polled
  ELSE UNCHANGED kernelVars

\* LocTimerContainer::updateSoonestTime
UpdateSoonestTime(newTop, priorTop) ==
  IF newTop = priorTop THEN UNCHANGED kernelVars
  ELSE IF newTop = NoTimer THEN polled' = FALSE /\ armed' = -1
  ELSE IF priorTop = NoTimer \/ OutRanks(newTop, priorTop)
       THEN polled' = TRUE /\ armed' = futureTime[newTop]
  ELSE UNCHANGED kernelVars

\* A timer that no timer of S outranks can be on top of a heap of S.
Tops(S) == IF S = {} THEN {NoTimer} ELSE {t \in S : \A s \in S : ~OutRanks(s, t)}

\* LocHeap::push replaces the top only by a timer that outranks it.
PushTimer(t) ==
  /\ heap' = heap \cup {t}
  /\ top' = IF top = NoTimer \/ OutRanks(t, top) THEN t ELSE top
  /\ UpdateSoonestTime(top', top)

\* LocHeap::remove and LocHeap::pop
Without(t) ==
  /\ heap' = heap \ {t}
  /\ top' \in IF t = top THEN Tops(heap \ {t}) ELSE {top}

\* Mutated form of RemoveTimer: the timer stays in the heap.
RemoveTimerKeeps(t) == UNCHANGED <<heap, top, kernelVars>>

\* The top is compared with what was removed, which is nothing when the timer
\* had been popped before.
RemoveTimer(t) ==
  /\ Without(t)
  /\ IF top = (IF t \in heap THEN t ELSE NoTimer)
     THEN UpdateSoonestTime(top', NoTimer) ELSE UNCHANGED kernelVars

Push ==
  /\ tpc = "idle" /\ msgs # <<>> /\ ~fault /\ Head(msgs).type = "push"
  /\ PushTimer(Head(msgs).timer)
  /\ msgs' = Tail(msgs)
  /\ UNCHANGED <<now, clientVars, delegateVars, ppc, taskVars, fault>>

\* MsgTimerRemove: all timers are deleted here.
Remove ==
  /\ tpc = "idle" /\ msgs # <<>> /\ ~fault /\ Head(msgs).type = "remove"
  /\ RemoveTimer(Head(msgs).timer)
  /\ delegate' = [delegate EXCEPT ![Head(msgs).timer] = "freed"]
  /\ msgs' = Tail(msgs)
  /\ UNCHANGED <<now, clientVars, mClient, futureTime, ppc, taskVars, fault>>

\* The loop of MsgTimerExpire takes the next timer, if it may, and ends otherwise.
Take(may) ==
  IF heap # {} /\ may
  THEN /\ Without(top) /\ cur' = top /\ tpc' = "expire"
       /\ UNCHANGED kernelVars
  ELSE /\ UpdateSoonestTime(top, NoTimer) /\ cur' = NoTimer /\ tpc' = "idle"
       /\ UNCHANGED heapVars

\* MsgTimerExpire pops the first timer whatever its time is.
Expire ==
  /\ tpc = "idle" /\ msgs # <<>> /\ ~fault /\ Head(msgs).type = "expire"
  /\ Take(TRUE)
  /\ nowE' = now
  /\ msgs' = Tail(msgs)
  /\ UNCHANGED <<now, clientVars, delegateVars, ppc, fault>>

\* popIfOutRanks
Due == Sec(futureTime[top]) <= Sec(nowE)

\* LocTimerDelegate::expire reads mClient without a lock ...
ReadClient ==
  /\ tpc = "expire" /\ ~fault
  /\ IF mClient[cur] THEN tpc' = "stop" /\ UNCHANGED <<cur, heapVars, kernelVars>>
     ELSE Take(Due)
  /\ UNCHANGED <<now, clientVars, delegateVars, msgs, ppc, nowE, fault>>

\* ... and calls stop of that client.  Its lock is taken while it starts.
StopClient ==
  /\ tpc = "stop" /\ ~fault /\ app[cur] # "starting"
  /\ IF wrapper[cur] = "freed"
     THEN fault' = TRUE /\ UNCHANGED <<mTimer, mClient, msgs, outcome, tpc, cur, heapVars, kernelVars>>
     ELSE /\ Stop(cur, "fired")
          /\ IF mTimer[cur] THEN tpc' = "callback" /\ UNCHANGED <<cur, heapVars, kernelVars>>
             ELSE Take(Due)
          /\ fault' = fault
  /\ UNCHANGED <<now, app, wrapper, wmutex, delegate, futureTime, ppc, nowE>>

\* LocTimerWrapper::timeOutCallback reads mCb and calls it ...
TimeOutCallback ==
  /\ tpc = "callback" /\ ~fault
  /\ fault' = (wrapper[cur] = "freed")
  /\ tpc' = IF fault' THEN tpc ELSE IF wrapper[cur] = "live" THEN "incallback" ELSE "destroy"
  /\ UNCHANGED <<now, clientVars, delegateVars, heapVars, kernelVars, msgs, ppc, cur, nowE>>

\* ... the callback returns, and with it the handle becomes invalid.
CallbackReturns ==
  /\ tpc = "incallback" /\ ~fault
  /\ app' = [app EXCEPT ![cur] = IF @ = "running" THEN "stopped" ELSE @]
  /\ tpc' = "destroy"
  /\ UNCHANGED <<now, wrapper, mTimer, wmutex, outcome, delegateVars, heapVars, kernelVars, msgs, ppc, cur, nowE, fault>>

\* LocTimerWrapper::destroy of the MsgTask thread.
DestroyWrapper ==
  /\ tpc = "destroy" /\ ~fault /\ wmutex = NoTimer
  /\ IF wrapper[cur] = "freed"
     THEN fault' = TRUE /\ UNCHANGED <<wrapper, tpc, cur, heapVars, kernelVars>>
     ELSE /\ wrapper' = [wrapper EXCEPT ![cur] = "freed"]
          /\ Take(Due) /\ fault' = fault
  /\ UNCHANGED <<now, app, mTimer, wmutex, outcome, delegateVars, msgs, ppc, nowE>>
-----------------------------------------------------------------------------
Task == \/ Push \/ Remove \/ Expire \/ ReadClient \/ StopClient
        \/ TimeOutCallback \/ CallbackReturns \/ DestroyWrapper
Poll == PollReturns \/ Disarm \/ RemovePoll \/ SendExpire

\* Nothing is left to be done, or a fault ended the run.
Finished ==
  /\ fault \/ /\ now = MaxTime /\ msgs = <<>> /\ tpc = "idle" /\ ppc = "wait"
              /\ \A t \in Timers : app[t] \in {"new", "running", "stopped"}
  /\ UNCHANGED vars

Next == \/ \E t \in Timers : Start(t) \/ Add(t) \/ StopBegin(t) \/ StopEnd(t)
        \/ Tick \/ Poll \/ Task \/ Finished

Spec == Init /\ [][Next]_vars

\* Time passes and threads run; a client finishes a call it is in, but nobody has
\* to start or stop a timer.
FairSpec == /\ Spec /\ WF_vars(Tick) /\ WF_vars(Poll) /\ WF_vars(Task)
            /\ \A t \in Timers : WF_vars(Add(t)) /\ WF_vars(StopEnd(t))
-----------------------------------------------------------------------------
TypeOK ==
  /\ now \in 0..MaxTime
  /\ app \in [Timers -> {"new", "starting", "running", "stopping", "stopped"}]
  /\ wrapper \in [Timers -> {"none", "live", "dying", "freed"}]
  /\ mTimer \in [Timers -> BOOLEAN] /\ wmutex \in Timers \cup {NoTimer}
  /\ delegate \in [Timers -> {"none", "live", "freed"}] /\ mClient \in [Timers -> BOOLEAN]
  /\ futureTime \in [Timers -> 0..MaxTime]
  /\ heap \subseteq Timers /\ top \in heap \cup {NoTimer}
  /\ msgs \in Seq([type : {"push", "remove", "expire"}, timer : Timers \cup {NoTimer}])
  /\ armed \in -1..MaxTime /\ polled \in BOOLEAN /\ fault \in BOOLEAN
  /\ ppc \in {"wait", "disarm", "unpoll", "send"}
  /\ tpc \in {"idle", "expire", "stop", "callback", "incallback", "destroy"}
  /\ cur \in Timers \cup {NoTimer} /\ nowE \in 0..MaxTime
  /\ outcome \in [Timers -> {"none", "pending", "cancelled", "fired"}]

\* "All timers are deleted here, and only here": a delegate that the heap, a
\* message or the loop of MsgTimerExpire still refers to is alive, a delegate is
\* deleted once, and no thread uses a client object that another one has deleted,
\* as long as clients leave timers alone that are just expiring.  No delegate is
\* left behind either: one of a timer that is over is still on its way to its deletion.
ObjectsLive ==
  /\ TypeOK
  /\ ~fault
  /\ \A t \in heap \cup ({cur} \ {NoTimer}) : delegate[t] = "live"
  /\ \A i \in DOMAIN msgs : msgs[i].timer # NoTimer =>
       /\ delegate[msgs[i].timer] = "live"
       /\ \A j \in DOMAIN msgs : msgs[i] = msgs[j] => i = j
  /\ \A t \in Timers : outcome[t] \in {"cancelled", "fired"} /\ delegate[t] # "freed" =>
       t = cur \/ t \in heap \/ \E i \in DOMAIN msgs : msgs[i].timer = t

\* No timeout is lost between the three threads: when no message, no expiry and
\* no update of the kernel is under way, the timerfd is polled and set no later
\* than (the second of) every timer in the heap.
SoonestArmed ==
  msgs = <<>> /\ tpc = "idle" /\ ppc = "wait" =>
    \A t \in heap : polled /\ armed # -1 /\ Sec(armed) <= Sec(futureTime[t])

\* Every timer is cancelled or fires, not both, and one of them happens: a stop
\* that came too late does not cancel, and an expiry that came too late does not
\* call back.
Service == INSTANCE TimerService
ImplementsService == Service!TSpec

=============================================================================
