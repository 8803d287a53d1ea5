----------------------------- MODULE CameraObject -----------------------------
(***************************************************************************)
(* The camera object of the mm-camera library and the calls that threads   *)
(* of the HAL make on it by its handle (mm_camera_interface.c, mm_camera.c)*)
(* down to the message that a map or unmap call exchanges with the camera  *)
(* daemon.                                                                 *)
(*                                                                         *)
(*   clients   threads of the HAL, which share handles; a handle may be    *)
(*             stale.  A call takes g_intf_lock, finds the object, takes   *)
(*             its cam_lock and only then gives g_intf_lock back; a call   *)
(*             on a channel does the same with cam_lock and ch_lock;       *)
(*   poll      the event poll thread of an object: mm_camera_event_notify; *)
(*   evt       its event thread: mm_camera_dispatch_app_event;             *)
(*   daemon    external: it answers the messages, or dies.                 *)
(*                                                                         *)
(* There is one camera.  Handles are the numbers in which they are         *)
(* generated; an object is named by its handle.                            *)
(***************************************************************************)
EXTENDS Naturals, Sequences, FiniteSets

CONSTANTS
  Clients,      \* threads that make calls
  NoOne,        \* no thread
  NumSlots,     \* MM_CAMERA_CHANNEL_MAX
  MaxOpens,     \* bound: how many camera objects are created
  MaxChannels,  \* bound: how many channels are added
  MaxCalls      \* bound: how many calls are made

ASSUME CameraAssumption ==
  /\ IsFiniteSet(Clients) /\ Clients \cap {NoOne, "idle", "gone", "died"} = {}
  /\ {NumSlots, MaxOpens, MaxChannels, MaxCalls} \subseteq Nat \ {0}

VARIABLES
  intfLock,   \* the owner of g_intf_lock
  table,      \* g_cam_ctrl.cam_obj[0], or NoHandle
  cam,        \* cam[h]: the object with handle h
  thread,     \* thread[c]: where client c is in its call
  made,       \* how many calls were begun
  given,      \* given[h]: opens that returned handle h less the closes begun
  channels,   \* how many channel handles were generated
  alive       \* external: the daemon is there

vars == <<intfLock, table, cam, thread, made, given, channels, alive>>

NoHandle == 0
Cams == 1..MaxOpens
Chans == 1..MaxChannels
Slots == 1..NumSlots

\* The calls under cam_lock only: parameters, focus and the like; registration;
\* map and unmap; adding a channel.  Those on a channel: an event for it, map and
\* unmap of a stream's buffer, deleting it, and qbuf.
CamOps == {"query", "register", "map", "add"}
ChanOps == {"channel", "smap", "delete", "qbuf"}

Unused == [hdl |-> NoHandle, used |-> FALSE, lock |-> NoOne]
NoObject ==
  [state |-> "none", ref |-> 0, lock |-> NoOne, msgLock |-> NoOne, cbLock |-> FALSE,
   slot |-> [i \in Slots |-> Unused], sock |-> <<>>, events |-> <<>>, poll |-> "gone",
   rcvd |-> NoOne, evq |-> <<>>, evt |-> "gone", reg |-> {}, told |-> {}]
Idle == [pc |-> "idle", op |-> "none", cam |-> NoHandle, chan |-> NoHandle, slot |-> 0]

Init ==
  /\ intfLock = NoOne /\ table = NoHandle
  /\ cam = [h \in Cams |-> NoObject]
  /\ thread = [c \in Clients |-> Idle]
  /\ made = 0
  /\ given = [h \in Cams |-> 0]
  /\ channels = 0 /\ alive = TRUE

At(c, pc) == thread[c].pc = pc
Goto(c, pc) == thread' = [thread EXCEPT ![c].pc = pc]
Return(c) == thread' = [thread EXCEPT ![c] = Idle]
Known == {h \in Cams : cam[h].state # "none"}      \* handles that were generated

\* The call on a channel of h that c is in, or is going to be in.
OnChannel(c, h) == thread[c].cam = h /\ thread[c].op \in ChanOps \cup {"add"}
-----------------------------------------------------------------------------
(* The calls begin.  What the callers are assumed to keep to is in MayCall  *)
(* and MayClose: the HAL's state machine adds, starts, stops and deletes    *)
(* channels one after the other and before it closes the camera.            *)

MayCall(op, h, ch) ==
  CASE op \in {"query", "register", "map"} -> ch = NoHandle
    [] op = "add" -> /\ ch = NoHandle /\ given[h] > 0 /\ channels < MaxChannels
                     /\ \A d \in Clients : thread[d].op \notin {"add", "delete"}
    [] op = "delete" -> /\ given[h] > 0 /\ ch # NoHandle
                        /\ \A d \in Clients : /\ thread[d].op \notin {"add", "delete"}
                                              /\ thread[d].chan # ch
    [] OTHER -> /\ given[h] > 0 /\ ch # NoHandle
                /\ \A d \in Clients : thread[d].op = "delete" => thread[d].chan # ch

MayClose(h) ==
  /\ given[h] > 0
  /\ given[h] = 1 => /\ \A d \in Clients : ~OnChannel(d, h)
                     /\ \A i \in Slots : ~cam[h].slot[i].used

Begin(c, op, h, ch) ==
  /\ At(c, "idle") /\ made < MaxCalls
  /\ made' = made + 1
  /\ thread' = [thread EXCEPT ![c] = [pc |-> "enter", op |-> op, cam |-> h, chan |-> ch,
                                      slot |-> 0]]
  /\ UNCHANGED <<intfLock, table, cam, channels, alive>>

BeginOpen(c) == Begin(c, "open", NoHandle, NoHandle) /\ UNCHANGED given
BeginClose(c, h) ==
  /\ MayClose(h) /\ Begin(c, "close", h, NoHandle)
  /\ given' = [given EXCEPT ![h] = @ - 1]
BeginCall(c, op, h, ch) == MayCall(op, h, ch) /\ Begin(c, op, h, ch) /\ UNCHANGED given
-----------------------------------------------------------------------------
(* camera_open, which holds g_intf_lock all the time.                       *)

OpenFirst(c) ==
  LET h == Cardinality(Known) + 1
  IN  /\ At(c, "enter") /\ thread[c].op = "open" /\ intfLock = NoOne
      /\ table = NoHandle /\ h \in Cams /\ alive
      /\ cam' = [cam EXCEPT ![h] = [NoObject EXCEPT !.state = "live", !.ref = 1,
                                                    !.poll = "idle", !.evt = "idle"]]
      /\ table' = h
      /\ given' = [given EXCEPT ![h] = @ + 1]
      /\ Return(c)
      /\ UNCHANGED <<intfLock, made, channels, alive>>

\* mm_camera_open finds no device or no socket.
OpenFails(c) ==
  /\ At(c, "enter") /\ thread[c].op = "open" /\ intfLock = NoOne
  /\ table = NoHandle
  /\ Return(c)
  /\ UNCHANGED <<intfLock, table, cam, made, given, channels, alive>>

\* Mutated form of Referenced: an object that was opened already is not referenced again.
NotReferenced(o) == o

\* The object that was opened already gets another reference.
Referenced(o) == [o EXCEPT !.ref = @ + 1]

OpenAgain(c) ==
  /\ At(c, "enter") /\ thread[c].op = "open" /\ intfLock = NoOne
  /\ table # NoHandle
  /\ cam' = [cam EXCEPT ![table] = Referenced(@)]
  /\ thread' = [thread EXCEPT ![c].pc = "opened", ![c].cam = table]
  /\ UNCHANGED <<intfLock, table, made, given, channels, alive>>

\* Without g_intf_lock, the handle is read through the table once more.
OpenReturns(c) ==
  /\ At(c, "opened")
  /\ given' = IF table \in Cams THEN [given EXCEPT ![table] = @ + 1] ELSE given
  /\ Return(c)
  /\ UNCHANGED <<intfLock, table, cam, made, channels, alive>>
-----------------------------------------------------------------------------
(* From the handle to the locked object.                                    *)

\* mm_camera_util_get_camera_by_handler does not find the object.
Refused(c) ==
  /\ At(c, "enter") /\ thread[c].op # "open" /\ intfLock = NoOne
  /\ table # thread[c].cam
  /\ Return(c)
  /\ UNCHANGED <<intfLock, table, cam, made, given, channels, alive>>

\* Mutated form of AfterFind: g_intf_lock is given back before cam_lock is taken.
AfterFindUnlocked(c) == NoOne

\* Who has g_intf_lock when c has found the object and waits for its cam_lock.
AfterFind(c) == c

\* The object is found; c waits for cam_lock next.
Find(c) ==
  /\ At(c, "enter") /\ thread[c].op \notin {"open", "close"} /\ intfLock = NoOne
  /\ table = thread[c].cam
  /\ intfLock' = AfterFind(c)
  /\ Goto(c, "found")
  /\ UNCHANGED <<table, cam, made, given, channels, alive>>

\* mm_camera_intf_close: the last reference empties the table as well.
FindToClose(c) ==
  LET h == thread[c].cam
      last == cam[h].ref = 1
  IN  /\ At(c, "enter") /\ thread[c].op = "close" /\ intfLock = NoOne /\ table = h
      /\ cam' = [cam EXCEPT ![h].ref = @ - 1,
                            ![h].state = IF last THEN "closing" ELSE @]
      /\ IF last THEN table' = NoHandle /\ intfLock' = c /\ Goto(c, "found")
                 ELSE Return(c) /\ UNCHANGED <<table, intfLock>>
      /\ UNCHANGED <<made, given, channels, alive>>

\* cam_lock is taken before g_intf_lock is given back.
TakeCamLock(c) ==
  LET h == thread[c].cam
  IN  /\ At(c, "found") /\ cam[h].lock = NoOne
      /\ cam' = [cam EXCEPT ![h].lock = c]
      /\ intfLock' = IF intfLock = c THEN NoOne ELSE intfLock
      /\ Goto(c, "cam")
      /\ UNCHANGED <<table, made, given, channels, alive>>
-----------------------------------------------------------------------------
(* With cam_lock.  A call that is done gives it back.                       *)

\* A call that is a few ioctls on the control node.
Query(c) ==
  /\ At(c, "cam") /\ thread[c].op = "query"
  /\ cam' = [cam EXCEPT ![thread[c].cam].lock = NoOne]
  /\ Return(c)
  /\ UNCHANGED <<intfLock, table, made, given, channels, alive>>

\* mm_camera_register_event_notify, with cb_lock; c stands for its user data.
Register(c) ==
  LET h == thread[c].cam
  IN  /\ At(c, "cam") /\ thread[c].op = "register" /\ ~cam[h].cbLock
      /\ cam' = [cam EXCEPT ![h].reg = @ \cup {c}, ![h].lock = NoOne]
      /\ Return(c)
      /\ UNCHANGED <<intfLock, table, made, given, channels, alive>>

FreeSlots(h) == {i \in Slots : ~cam[h].slot[i].used}
First(S) == CHOOSE i \in S : \A j \in S : i <= j

\* mm_camera_add_channel: the first slot that is not used.
AddChannel(c) ==
  LET h == thread[c].cam
  IN  /\ At(c, "cam") /\ thread[c].op = "add"
      /\ IF FreeSlots(h) = {}
         THEN cam' = [cam EXCEPT ![h].lock = NoOne] /\ UNCHANGED channels
         ELSE /\ cam' = [cam EXCEPT ![h].lock = NoOne,
                           ![h].slot[First(FreeSlots(h))] =
                              [hdl |-> channels + 1, used |-> TRUE, lock |-> NoOne]]
              /\ channels' = channels + 1
      /\ Return(c)
      /\ UNCHANGED <<intfLock, table, made, given, alive>>

\* mm_camera_util_get_channel_by_handler
SlotsOf(h, ch) == {i \in Slots : cam[h].slot[i].hdl = ch}

FindChannel(c) ==
  LET h == thread[c].cam
      found == SlotsOf(h, thread[c].chan)
      unlocked == [cam EXCEPT ![h].lock = NoOne]
  IN  /\ At(c, "cam") /\ thread[c].op \in ChanOps
      /\ CASE found = {} -> cam' = unlocked /\ Return(c)
           [] found # {} /\ thread[c].op = "qbuf" ->
                /\ cam' = unlocked
                /\ thread' = [thread EXCEPT ![c].pc = "qbuf", ![c].slot = First(found)]
           [] OTHER ->
                /\ cam' = cam
                /\ thread' = [thread EXCEPT ![c].pc = "slot", ![c].slot = First(found)]
      /\ UNCHANGED <<intfLock, table, made, given, channels, alive>>

\* ch_lock is taken before cam_lock is given back.
TakeChLock(c) ==
  LET h == thread[c].cam
  IN  /\ At(c, "slot") /\ cam[h].slot[thread[c].slot].lock = NoOne
      /\ cam' = [cam EXCEPT ![h].slot[thread[c].slot].lock = c, ![h].lock = NoOne]
      /\ Goto(c, "chan")
      /\ UNCHANGED <<intfLock, table, made, given, channels, alive>>
-----------------------------------------------------------------------------
(* With ch_lock: mm_channel_fsm_fn, which gives it back.                    *)

ChannelEvent(c) ==
  LET h == thread[c].cam
  IN  /\ At(c, "chan") /\ thread[c].op = "channel"
      /\ cam' = [cam EXCEPT ![h].slot[thread[c].slot].lock = NoOne]
      /\ Return(c)
      /\ UNCHANGED <<intfLock, table, made, given, channels, alive>>

\* MM_CHANNEL_EVT_DELETE, in the state stopped.
DeleteEvent(c) ==
  LET h == thread[c].cam
  IN  /\ At(c, "chan") /\ thread[c].op = "delete"
      /\ cam' = [cam EXCEPT ![h].slot[thread[c].slot] = [@ EXCEPT !.used = FALSE,
                                                                  !.lock = NoOne]]
      /\ Goto(c, "wipe")
      /\ UNCHANGED <<intfLock, table, made, given, channels, alive>>

\* mm_camera_del_channel destroys the lock and clears the slot, with no lock.
WipeSlot(c) ==
  /\ At(c, "wipe")
  /\ cam' = [cam EXCEPT ![thread[c].cam].slot[thread[c].slot] = Unused]
  /\ Return(c)
  /\ UNCHANGED <<intfLock, table, made, given, channels, alive>>

\* mm_channel_qbuf, with no lock of the object or the channel.
Qbuf(c) ==
  /\ At(c, "qbuf")
  /\ Return(c)
  /\ UNCHANGED <<intfLock, table, cam, made, given, channels, alive>>
-----------------------------------------------------------------------------
(* mm_camera_util_sendmsg, with cam_lock (map) or ch_lock (smap).           *)

\* Mutated form of MsgLocked: a message may follow another one.
NeverMsgLocked(h) == FALSE

\* Another thread's message and its answer are one operation.
MsgLocked(h) == cam[h].msgLock # NoOne

TakeMsgLock(c) ==
  LET h == thread[c].cam
  IN  /\ \/ At(c, "cam") /\ thread[c].op = "map"
         \/ At(c, "chan") /\ thread[c].op = "smap"
      /\ ~MsgLocked(h)
      /\ cam' = [cam EXCEPT ![h].msgLock = c]
      /\ Goto(c, "send")
      /\ UNCHANGED <<intfLock, table, made, given, channels, alive>>

\* Mutated form of Unlocked: the lock that the call was made with is kept.
UnlockedMsgOnly(o, c) == [o EXCEPT !.msgLock = NoOne]

\* The object when c gives back msg_lock and the lock its call was made with.
Unlocked(o, c) ==
  IF thread[c].op = "map" THEN [o EXCEPT !.msgLock = NoOne, !.lock = NoOne]
  ELSE [o EXCEPT !.msgLock = NoOne, !.slot[thread[c].slot].lock = NoOne]

\* The message is in the socket; the wait is a step of its own.
Send(c) ==
  LET h == thread[c].cam
  IN  /\ At(c, "send")
      /\ cam' = [cam EXCEPT ![h].sock = Append(@, c)]
      /\ Goto(c, "wait")
      /\ UNCHANGED <<intfLock, table, made, given, channels, alive>>

SendFails(c) ==
  LET h == thread[c].cam
  IN  /\ At(c, "send")
      /\ cam' = [cam EXCEPT ![h] = Unlocked(@, c)]
      /\ Return(c)
      /\ UNCHANGED <<intfLock, table, made, given, channels, alive>>

\* Mutated form of Reset: the event that was received is kept.
ResetNothing(o) == o

\* The event is consumed.
Reset(o) == [o EXCEPT !.rcvd = NoOne]

\* mm_camera_util_wait_for_event takes the status and the call is done.
TakeStatus(c) ==
  LET h == thread[c].cam
  IN  /\ At(c, "wait") /\ cam[h].rcvd # NoOne
      /\ cam' = [cam EXCEPT ![h] = Unlocked(Reset(@), c)]
      /\ Return(c)
      /\ UNCHANGED <<intfLock, table, made, given, channels, alive>>
-----------------------------------------------------------------------------
(* The last close: mm_camera_close with cam_lock, then free.                *)

\* The events are unsubscribed; if that fails, they still come.
Unsubscribe(c) ==
  LET h == thread[c].cam
  IN  /\ At(c, "cam") /\ thread[c].op = "close"
      /\ \E left \in {<<>>, cam[h].events} : cam' = [cam EXCEPT ![h].events = left]
      /\ Goto(c, "poll")
      /\ UNCHANGED <<intfLock, table, made, given, channels, alive>>

\* Mutated form of PollEnds: the poll thread is not joined.
PollEndsUnjoined(h) == TRUE

\* The poll thread reads its pipe between two events.
PollEnds(h) == cam[h].poll = "idle"

JoinPoll(c) ==
  LET h == thread[c].cam
  IN  /\ At(c, "poll") /\ PollEnds(h)
      /\ cam' = [cam EXCEPT ![h].poll = IF @ = "idle" THEN "gone" ELSE @]
      /\ Goto(c, "evt")
      /\ UNCHANGED <<intfLock, table, made, given, channels, alive>>

\* The event thread ends with the command that was queued last.
JoinEvt(c) ==
  LET h == thread[c].cam
  IN  /\ At(c, "evt") /\ cam[h].evt = "idle" /\ cam[h].evq = <<>>
      /\ cam' = [cam EXCEPT ![h].evt = "gone"]
      /\ Goto(c, "destroy")
      /\ UNCHANGED <<intfLock, table, made, given, channels, alive>>

\* msg_lock, cb_lock and evt_lock are destroyed, and cam_lock is given back.
Destroy(c) ==
  LET h == thread[c].cam
  IN  /\ At(c, "destroy")
      /\ cam' = [cam EXCEPT ![h].state = "destroyed", ![h].lock = NoOne]
      /\ Goto(c, "free")
      /\ UNCHANGED <<intfLock, table, made, given, channels, alive>>

Free(c) ==
  /\ At(c, "free")
  /\ cam' = [cam EXCEPT ![thread[c].cam].state = "freed"]
  /\ Return(c)
  /\ UNCHANGED <<intfLock, table, made, given, channels, alive>>
-----------------------------------------------------------------------------
(* The threads of an object, and the daemon.                                *)

\* VIDIOC_DQEVENT
ReadEvent(h) ==
  /\ cam[h].poll = "idle" /\ cam[h].events # <<>>
  /\ cam' = [cam EXCEPT ![h].poll = Head(cam[h].events), ![h].events = Tail(@)]
  /\ UNCHANGED <<intfLock, table, thread, made, given, channels, alive>>

\* The rest of mm_camera_event_notify: the status is stored and the waiter woken
\* up, or the event goes to the event thread.
HandleEvent(h) ==
  /\ cam[h].poll \notin {"idle", "gone"}
  /\ cam' = [cam EXCEPT ![h] =
               IF @.poll = "died"
               THEN [@ EXCEPT !.evq = Append(cam[h].evq, "died"), !.poll = "idle"]
               ELSE [@ EXCEPT !.rcvd = cam[h].poll, !.poll = "idle"]]
  /\ UNCHANGED <<intfLock, table, thread, made, given, channels, alive>>

\* Mutated form of DispatchFree: the event thread waits for cam_lock.
DispatchFreeOfCam(h) == cam[h].lock = NoOne

\* What the event thread waits for before it calls back; nothing else has cb_lock
\* between two steps.
DispatchFree(h) == TRUE

\* mm_camera_dispatch_app_event takes cb_lock and calls every client that has registered.
Dispatch(h) ==
  /\ cam[h].evt = "idle" /\ cam[h].evq # <<>> /\ DispatchFree(h)
  /\ cam' = [cam EXCEPT ![h].evt = "calls", ![h].cbLock = TRUE, ![h].evq = Tail(@)]
  /\ UNCHANGED <<intfLock, table, thread, made, given, channels, alive>>

Called(h) ==
  /\ cam[h].evt = "calls"
  /\ cam' = [cam EXCEPT ![h].evt = "idle", ![h].cbLock = FALSE, ![h].told = cam[h].reg]
  /\ UNCHANGED <<intfLock, table, thread, made, given, channels, alive>>

Subscribed(h) == cam[h].poll # "gone"

\* External: the daemon answers the message of a client.
Answer(h) ==
  /\ alive /\ cam[h].sock # <<>>
  /\ cam' = [cam EXCEPT ![h].sock = Tail(@),
                        ![h].events = IF Subscribed(h) THEN Append(@, Head(cam[h].sock)) ELSE @]
  /\ UNCHANGED <<intfLock, table, thread, made, given, channels, alive>>

\* External: the daemon dies, and the kernel tells every open camera.
Die ==
  /\ alive
  /\ alive' = FALSE
  /\ cam' = [h \in Cams |-> IF Subscribed(h)
                            THEN [cam[h] EXCEPT !.events = Append(@, "died")] ELSE cam[h]]
  /\ UNCHANGED <<intfLock, table, thread, made, given, channels>>
-----------------------------------------------------------------------------
(* A client goes on with its call. *)
Step(c) ==
  \/ OpenFirst(c) \/ OpenFails(c) \/ OpenAgain(c) \/ OpenReturns(c)
  \/ Refused(c) \/ Find(c) \/ FindToClose(c) \/ TakeCamLock(c)
  \/ Query(c) \/ Register(c) \/ AddChannel(c) \/ FindChannel(c) \/ TakeChLock(c)
  \/ ChannelEvent(c) \/ DeleteEvent(c) \/ WipeSlot(c) \/ Qbuf(c)
  \/ TakeMsgLock(c) \/ Send(c) \/ SendFails(c) \/ TakeStatus(c)
  \/ Unsubscribe(c) \/ JoinPoll(c) \/ JoinEvt(c) \/ Destroy(c) \/ Free(c)

\* A thread of an object goes on, or the daemon.
Work(h) == ReadEvent(h) \/ HandleEvent(h) \/ Dispatch(h) \/ Called(h) \/ Answer(h)

Next ==
  \/ \E c \in Clients :
       \/ BeginOpen(c)
       \/ \E h \in Known : BeginClose(c, h)
       \/ \E h \in Known, ch \in 0..channels, op \in CamOps \cup ChanOps :
            BeginCall(c, op, h, ch)
       \/ Step(c)
  \/ \E h \in Cams : Work(h)
  \/ Die

Spec == Init /\ [][Next]_vars

\* The threads run, and the daemon answers as long as it lives.  As the calls are bounded,
\* no thread goes on for ever, and fairness of them all together is fairness of each.
FairSpec == Spec /\ WF_vars((\E c \in Clients : Step(c)) \/ (\E h \in Cams : Work(h)))
-----------------------------------------------------------------------------
(* Properties. *)

TypeOK ==
  /\ intfLock \in Clients \cup {NoOne}
  /\ table \in {NoHandle} \cup Cams
  /\ \A h \in Cams :
       /\ cam[h].state \in {"none", "live", "closing", "destroyed", "freed"}
       /\ {cam[h].lock, cam[h].msgLock, cam[h].rcvd} \subseteq Clients \cup {NoOne}
       /\ cam[h].ref \in Nat /\ given[h] \in Nat
  /\ channels \in 0..MaxChannels /\ alive \in BOOLEAN

\* Where a call uses the object it found, and where it uses a channel of it.
UsesObject == {"found", "cam", "slot", "chan", "wipe", "qbuf", "send", "wait", "poll", "evt",
               "destroy"}
UsesChannel(c) == \/ thread[c].pc \in {"slot", "chan", "qbuf"} /\ thread[c].op \in ChanOps
                  \/ thread[c].pc \in {"send", "wait"} /\ thread[c].op = "smap"

\* A call that has found an object, or a channel, has it until it is done, whoever closes
\* the camera meanwhile; camera_open returns the object that it referenced; a handle that
\* was opened and not closed is good; and the threads of an object end before it does.
ObjectsKept ==
  /\ TypeOK
  /\ \A c \in Clients :
       LET t == thread[c]
       IN  /\ t.pc \in UsesObject => cam[t.cam].state \in {"live", "closing"}
           /\ UsesChannel(c) => /\ cam[t.cam].slot[t.slot].hdl = t.chan
                                /\ cam[t.cam].slot[t.slot].used
           /\ t.pc = "opened" => table = t.cam
  /\ \A h \in Cams :
       /\ given[h] > 0 => cam[h].state = "live" /\ table = h
       /\ cam[h].state \in {"destroyed", "freed"} =>
            /\ cam[h].poll = "gone" /\ cam[h].evt = "gone" /\ cam[h].evq = <<>>
            /\ cam[h].msgLock = NoOne /\ ~cam[h].cbLock

\* The clients whose messages, or answers to them, are under way, in any place.
UnderWay(h) ==
  LET o == cam[h]
      Sent == {i \in 1..Len(o.sock) : o.sock[i] \in Clients}
      Come == {i \in 1..Len(o.events) : o.events[i] \in Clients}
  IN  {<<"sock", i, o.sock[i]>> : i \in Sent} \cup {<<"event", i, o.events[i]>> : i \in Come}
        \cup {<<"poll", 0, p>> : p \in {o.poll} \cap Clients}
        \cup {<<"rcvd", 0, p>> : p \in {o.rcvd} \cap Clients}

\* Answers carry no identity, so that there must be one at a time: the message that is
\* under way is that of the thread that waits with msg_lock, whichever lock it came with,
\* and whoever waits is owed the answer to its own message, unless the daemon has died.
AnswersMatched ==
  \A h \in Cams :
    /\ \A m \in UnderWay(h) : m[3] = cam[h].msgLock /\ At(m[3], "wait")
    /\ Cardinality(UnderWay(h)) <= 1
    /\ \A c \in Clients : At(c, "wait") /\ thread[c].cam = h =>
                            Cardinality(UnderWay(h)) = 1

\* As long as the daemon lives the calls come to their end (all of them, as they are
\* bounded), however map calls, closes and channel calls with their four kinds of locks
\* and two joins meet.
CallsEnd == (\E c \in Clients : ~At(c, "idle")) ~> ((\A c \in Clients : At(c, "idle")) \/ ~alive)

\* The death of the daemon is on its way to the callbacks.
DeathComes(h) ==
  LET o == cam[h]
  IN  \/ o.poll = "died" \/ o.evq # <<>> \/ o.evt = "calls"
      \/ \E i \in 1..Len(o.events) : o.events[i] = "died"

\* A client that has registered is told of the daemon's death, though other calls hang
\* with cam_lock for an answer that will not come; only a close may be before it.
DeathTold ==
  \A c \in Clients :
    (table # NoHandle /\ DeathComes(table) /\ c \in cam[table].reg)
      ~> (table = NoHandle \/ c \in cam[table].told)
=============================================================================
