-------------------------------- MODULE MsgTask --------------------------------
(***************************************************************************)
(* The message task of gps/utils: a queue (msg_q.cpp over linked_list.cpp) *)
(* and the thread that handles what is in it (MsgTask.cpp), run by a       *)
(* LocThread (LocThread.cpp).  The adapters, the timers and the LocApi of  *)
(* the gps HAL do all their work in such a thread.                         *)
(*                                                                         *)
(*   owner    constructs the MsgTask, and destroys it: unblock the queue,  *)
(*            take mThread, stop and join a joinable thread, drop the      *)
(*            LocThreadDelegate;                                           *)
(*   thread   threadMain: run() until it fails or mRunnable is cleared,    *)
(*            delete the MsgTask, drop the delegate;                       *)
(*   senders  clients, while the owner has not begun to destroy the task,  *)
(*            and the handlers of messages, on the thread, at any time.    *)
(*                                                                         *)
(* destroy may read mThread of a MsgTask that the thread has deleted.      *)
(* Nothing can be said of the program after that, and the model stops      *)
(* (fault).                                                                *)
(***************************************************************************)
EXTENDS Naturals, Sequences

CONSTANT Msgs   \* the messages, each sent at most once

VARIABLES
  msgList,     \* msg_list, the oldest element (p_tail) first
  unblocked,   \* the queue is unblocked: nothing is sent or received any more
  task,        \* the MsgTask and its queue: "none", "live", "freed"
  mThread,     \* MsgTask::mThread is set
  mRunnable,   \* LocThreadDelegate::mRunnable is set
  mJoinable,   \* LocThreadDelegate::mJoinable
  mRefCount,   \* LocThreadDelegate::mRefCount
  delegate,    \* the LocThreadDelegate: "none", "live", "freed"
  tpc,         \* where the thread is
  runnable,    \* what threadMain read from mRunnable
  msg,         \* the message run() has received, as a sequence of at most one
  opc,         \* where the owner is
  accepted,    \* history: the messages that entered the queue, in that order
  handled,     \* history: the messages whose proc() was called, in that order
  flushed,     \* history: the messages flushed when the task was deleted
  refused,     \* history: the messages that were not taken (and are leaked)
  fault        \* destroy read a MsgTask that had been deleted

queueVars == <<msgList, unblocked>>
delegateVars == <<mRunnable, mJoinable, mRefCount, delegate>>
history == <<accepted, handled, flushed, refused>>
taskVars == <<queueVars, task, mThread, delegateVars, tpc, runnable, msg, opc, history, fault>>

TaskInit ==
  /\ msgList = <<>> /\ unblocked = FALSE
  /\ task = "none" /\ mThread = FALSE
  /\ mRunnable = FALSE /\ mJoinable = FALSE /\ mRefCount = 0 /\ delegate = "none"
  /\ tpc = "none" /\ runnable = FALSE /\ msg = <<>>
  /\ opc = "new"
  /\ accepted = <<>> /\ handled = <<>> /\ flushed = <<>> /\ refused = {}
  /\ fault = FALSE
-----------------------------------------------------------------------------
(* The queue. *)

Sent == {accepted[i] : i \in DOMAIN accepted} \cup refused

\* pthread_cond_signal and pthread_cond_broadcast: only the thread ever waits.
Wake == tpc' = IF tpc = "waiting" THEN "woken" ELSE tpc

\* Mutated forms of Accept: the new element takes the wrong end of the list;
\* nobody is signalled.
AcceptAtTail(m) ==
  /\ msgList' = <<m>> \o msgList /\ accepted' = Append(accepted, m)
  /\ Wake /\ UNCHANGED refused
AcceptSilently(m) ==
  /\ msgList' = Append(msgList, m) /\ accepted' = Append(accepted, m)
  /\ UNCHANGED <<tpc, refused>>

\* linked_list_add makes m the new head; the tail is taken first.
Accept(m) ==
  /\ msgList' = Append(msgList, m) /\ accepted' = Append(accepted, m)
  /\ Wake /\ UNCHANGED refused

\* An unblocked queue takes nothing, and sendMsg ignores what msg_q_snd returns.
Refuse(m) == refused' = refused \cup {m} /\ UNCHANGED <<msgList, accepted, tpc>>

\* sendMsg: msg_q_snd under list_mutex.
SendMsg(m) ==
  /\ ~fault /\ m \notin Sent
  /\ opc = "running" \/ tpc = "proc"
  /\ IF unblocked THEN Refuse(m) ELSE Accept(m)
  /\ UNCHANGED <<unblocked, task, mThread, delegateVars, runnable, msg, opc, handled, flushed, fault>>

\* linked_list_remove takes the tail.
Remove == msg' = <<Head(msgList)>> /\ msgList' = Tail(msgList)

\* delete (MsgTask): ~MsgTask flushes the queue and destroys it.
DeleteTask ==
  /\ task' = "freed" /\ flushed' = msgList /\ msgList' = <<>>
  /\ UNCHANGED <<accepted, handled, refused>>
-----------------------------------------------------------------------------
(* The LocThreadDelegate. *)

\* Mutated form of Drop: the delegate goes with the first reference.
DropFirst ==
  /\ mRefCount' = mRefCount - 1
  /\ delegate' = "freed"

\* LocThreadDelegate::destroy: the last reference deletes the delegate.
Drop ==
  /\ mRefCount' = mRefCount - 1
  /\ delegate' = IF mRefCount = 1 THEN "freed" ELSE delegate

\* LocThread::start: the delegate is constructed as if the thread existed ...
Launch(joinable) ==
  /\ mRunnable' = TRUE /\ mJoinable' = joinable /\ mRefCount' = 2 /\ delegate' = "live"
  /\ tpc' = "start" /\ mThread' = TRUE

\* ... and when pthread_create fails, LocThreadDelegate::create destroys it and
\* MsgTask deletes the LocThread.
LaunchFails ==
  /\ mRunnable' = FALSE /\ mJoinable' = FALSE /\ mRefCount' = 0 /\ delegate' = "freed"
  /\ mThread' = FALSE /\ UNCHANGED tpc
-----------------------------------------------------------------------------
(* The owner. *)

\* MsgTask::MsgTask.  The thread cannot end before the queue is unblocked, so that
\* isRunning() in LocThreadDelegate::create tells whether there is a thread.
Create ==
  /\ opc = "new"
  /\ LaunchFails \/ \E joinable \in BOOLEAN : Launch(joinable)
  /\ task' = "live" /\ opc' = "running"
  /\ UNCHANGED <<queueVars, runnable, msg, history, fault>>

\* Mutated form of Unblock: a waiting thread is not woken.
UnblockSilently == unblocked' = TRUE /\ UNCHANGED tpc

\* msg_q_unblock, under list_mutex.
Unblock == unblocked' = TRUE /\ Wake

\* MsgTask::destroy unblocks the queue ...
Destroy ==
  /\ opc = "running"
  /\ Unblock
  /\ opc' = "unblocked"
  /\ UNCHANGED <<msgList, task, mThread, delegateVars, runnable, msg, history, fault>>

\* ... and takes mThread.  bye() of a detached thread goes straight to destroy.
TakeThread ==
  /\ opc = "unblocked" /\ task = "live" /\ mThread /\ ~fault
  /\ mThread' = FALSE
  /\ opc' = IF mJoinable THEN "stop" ELSE "drop"
  /\ UNCHANGED <<queueVars, task, delegateVars, tpc, runnable, msg, history, fault>>

\* Without a thread, destroy deletes the task itself.
DeleteThis ==
  /\ opc = "unblocked" /\ task = "live" /\ ~mThread /\ ~fault
  /\ DeleteTask /\ opc' = "done"
  /\ UNCHANGED <<unblocked, mThread, delegateVars, tpc, runnable, msg, fault>>

\* The thread woken by msg_q_unblock has deleted the task already.
ReadFreed ==
  /\ opc = "unblocked" /\ task = "freed" /\ ~fault
  /\ fault' = TRUE
  /\ UNCHANGED <<queueVars, task, mThread, delegateVars, tpc, runnable, msg, opc, history>>

\* LocThreadDelegate::stop clears mRunnable, ends the loop and joins.
StopThread ==
  /\ opc = "stop" /\ ~fault
  /\ mRunnable' = FALSE /\ mJoinable' = FALSE /\ opc' = "join"
  /\ UNCHANGED <<queueVars, task, mThread, mRefCount, delegate, tpc, runnable, msg, history, fault>>

Join ==
  /\ opc = "join" /\ tpc = "gone" /\ ~fault
  /\ opc' = "drop"
  /\ UNCHANGED <<queueVars, task, mThread, delegateVars, tpc, runnable, msg, history, fault>>

OwnerDrop ==
  /\ opc = "drop" /\ ~fault
  /\ Drop /\ opc' = "done"
  /\ UNCHANGED <<queueVars, task, mThread, mRunnable, mJoinable, tpc, runnable, msg, history, fault>>
-----------------------------------------------------------------------------
(* The thread. *)

\* threadMain reads mRunnable; without one it leaves the task alone.
ThreadMain ==
  /\ tpc = "start" /\ ~fault
  /\ runnable' = mRunnable
  /\ tpc' = IF mRunnable THEN "loop" ELSE "drop"
  /\ UNCHANGED <<queueVars, task, mThread, delegateVars, msg, opc, history, fault>>

\* while (isRunning() && run())
Loop ==
  /\ tpc = "loop" /\ ~fault
  /\ tpc' = IF mRunnable THEN "rcv" ELSE "end"
  /\ UNCHANGED <<queueVars, task, mThread, delegateVars, runnable, msg, opc, history, fault>>

\* msg_q_rcv refuses a caller that finds the queue unblocked; one that waits still
\* gets the message that is there.
CanReceive == msgList # <<>> /\ (tpc = "rcv" => ~unblocked)
MustWait == msgList = <<>> /\ ~unblocked

Receive ==
  /\ tpc \in {"rcv", "woken"} /\ ~fault
  /\ CanReceive
  /\ Remove /\ tpc' = "proc" /\ handled' = Append(handled, Head(msgList))
  /\ UNCHANGED <<unblocked, task, mThread, delegateVars, runnable, opc, accepted, flushed, refused, fault>>

Wait ==
  /\ tpc \in {"rcv", "woken"} /\ ~fault
  /\ MustWait
  /\ tpc' = "waiting"
  /\ UNCHANGED <<queueVars, task, mThread, delegateVars, runnable, msg, opc, history, fault>>

\* run() returns false.
ReceiveFails ==
  /\ tpc \in {"rcv", "woken"} /\ ~fault
  /\ ~CanReceive /\ ~MustWait
  /\ tpc' = "end"
  /\ UNCHANGED <<queueVars, task, mThread, delegateVars, runnable, msg, opc, history, fault>>

\* pthread_cond_wait may return without a signal.
WakeUp ==
  /\ tpc = "waiting" /\ ~fault
  /\ tpc' = "woken"
  /\ UNCHANGED <<queueVars, task, mThread, delegateVars, runnable, msg, opc, history, fault>>

\* proc() has returned, and run() deletes the message.
ProcReturns ==
  /\ tpc = "proc" /\ ~fault
  /\ msg' = <<>> /\ tpc' = "loop"
  /\ UNCHANGED <<queueVars, task, mThread, delegateVars, runnable, opc, history, fault>>

End ==
  /\ tpc = "end" /\ ~fault
  /\ mRunnable' = FALSE /\ tpc' = "delete"
  /\ UNCHANGED <<queueVars, task, mThread, mJoinable, mRefCount, delegate, runnable, msg, opc, history, fault>>

DeleteRunnable ==
  /\ tpc = "delete" /\ ~fault
  /\ DeleteTask /\ tpc' = "drop"
  /\ UNCHANGED <<unblocked, mThread, delegateVars, runnable, msg, opc, fault>>

ThreadDrop ==
  /\ tpc = "drop" /\ ~fault
  /\ Drop /\ tpc' = "gone"
  /\ UNCHANGED <<queueVars, task, mThread, mRunnable, mJoinable, runnable, msg, opc, history, fault>>
-----------------------------------------------------------------------------
Owner == TakeThread \/ DeleteThis \/ ReadFreed \/ StopThread \/ Join \/ OwnerDrop
Thread == \/ ThreadMain \/ Loop \/ Receive \/ Wait \/ ReceiveFails \/ ProcReturns \/ End
          \/ DeleteRunnable \/ ThreadDrop

TaskNext == Create \/ Destroy \/ Owner \/ Thread \/ WakeUp \/ \E m \in Msgs : SendMsg(m)

TaskSpec == TaskInit /\ [][TaskNext]_taskVars

\* The kernel runs both threads, and handlers return.  Nobody has to send or to
\* destroy the task.
TaskFairSpec == TaskSpec /\ WF_taskVars(Owner) /\ WF_taskVars(Thread)
-----------------------------------------------------------------------------
TaskTypeOK ==
  /\ msgList \in Seq(Msgs) /\ unblocked \in BOOLEAN
  /\ task \in {"none", "live", "freed"} /\ mThread \in BOOLEAN
  /\ mRunnable \in BOOLEAN /\ mJoinable \in BOOLEAN /\ mRefCount \in 0..2
  /\ delegate \in {"none", "live", "freed"}
  /\ tpc \in {"none", "start", "loop", "rcv", "waiting", "woken", "proc", "end", "delete", "drop", "gone"}
  /\ runnable \in BOOLEAN /\ msg \in Seq(Msgs)
  /\ opc \in {"new", "running", "unblocked", "stop", "join", "drop", "done"}
  /\ accepted \in Seq(Msgs) /\ handled \in Seq(Msgs) /\ flushed \in Seq(Msgs)
  /\ refused \subseteq Msgs
  /\ fault \in BOOLEAN

\* Where run() and the handlers use the MsgTask and its queue, where the thread
\* uses the delegate, and where the owner does.
UsesTask == {"loop", "rcv", "waiting", "woken", "proc", "end", "delete"}
ThreadUsesDelegate == UsesTask \cup {"start", "drop"}
OwnerUsesDelegate == {"stop", "join", "drop"}

\* What is still used is there: the MsgTask, with its mutex and condition variable,
\* as long as the thread runs in it or clients may send to it, and the LocThreadDelegate until both the
\* thread and the owner have dropped it, whoever comes last (LocThread.cpp,
\* destroy, with the two references of the constructor and bye()).
LiveWhenUsed ==
  /\ tpc \in UsesTask \/ opc = "running" => task = "live"
  /\ tpc \in ThreadUsesDelegate => delegate = "live"
  /\ opc \in OwnerUsesDelegate => delegate = "live"
  /\ delegate = "live" => tpc \in ThreadUsesDelegate \/ opc # "done"

\* Messages are handled once each and in the order they were sent, whether the
\* thread was waiting or busy, and none disappears between the queue and its
\* handler; what is left when the task is deleted is the tail of what was sent
\* (msg_q_snd, msg_q_rcv, linked_list_add, linked_list_remove).
HandledInOrder ==
  /\ accepted = handled \o flushed \o msgList
  /\ task # "freed" => flushed = <<>>

\* A message in the queue does not stay there while the thread serves it: it is
\* handled, or flushed with the queue (the while loop of msg_q_rcv and the signal
\* of msg_q_snd lose no wakeup).
Served ==
  \A m \in Msgs :
    (\E i \in DOMAIN msgList : msgList[i] = m) /\ tpc \in UsesTask
      ~> ~ \E i \in DOMAIN msgList : msgList[i] = m

\* MsgTask::destroy ends, with the thread gone and the delegate deleted, and with
\* the task deleted too unless the thread found mRunnable cleared when it started.
DestroyEnds ==
  opc = "unblocked" ~>
    \/ fault
    \/ /\ opc = "done" /\ tpc \in {"none", "gone"} /\ delegate = "freed"
       /\ task = "live" => tpc = "gone" /\ ~runnable

\* Both together: neither a message nor the end of the task is left waiting.
TaskProgress == Served /\ DestroyEnds
=============================================================================
