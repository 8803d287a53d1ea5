------------------------- MODULE CameraObject_proofs -------------------------
(***************************************************************************)
(* Proofs about CameraObject, for any number of clients, channels, opens   *)
(* and calls.                                                              *)
(***************************************************************************)
EXTENDS CameraObject, FiniteSetTheorems, WellFoundedInduction, TLAPS

Ops == {"none", "open", "close"} \cup CamOps \cup ChanOps
Pcs == {"idle", "enter", "opened", "free"} \cup UsesObject
Nobody == Clients \cup {NoOne}

SlotType == [hdl : 0..MaxChannels, used : BOOLEAN, lock : Nobody]
ObjectType ==
  [state : {"none", "live", "closing", "destroyed", "freed"}, ref : Nat, lock : Nobody,
   msgLock : Nobody, cbLock : BOOLEAN, slot : [Slots -> SlotType], sock : Seq(Clients),
   events : Seq(Clients \cup {"died"}), poll : Clients \cup {"idle", "gone", "died"},
   rcvd : Nobody, evq : Seq({"died"}), evt : {"idle", "calls", "gone"},
   reg : SUBSET Clients, told : SUBSET Clients]
ThreadType == [pc : Pcs, op : Ops, cam : 0..MaxOpens, chan : 0..MaxChannels, slot : 0..NumSlots]

Types ==
  /\ intfLock \in Nobody /\ table \in {NoHandle} \cup Cams
  /\ cam \in [Cams -> ObjectType] /\ thread \in [Clients -> ThreadType]
  /\ made \in Nat /\ given \in [Cams -> Nat] /\ channels \in 0..MaxChannels
  /\ alive \in BOOLEAN

\* What a call can be at each place, and that it is about an object there was.
Formed(t) ==
  /\ t.pc = "idle" => t = Idle
  /\ t.pc # "idle" => t.op # "none"
  /\ t.op = "open" => t.pc \in {"enter", "opened"} /\ (t.pc = "enter" => t.cam = NoHandle)
  /\ t.pc = "opened" => t.op = "open"
  /\ t.pc \in {"poll", "evt", "destroy", "free"} => t.op = "close"
  /\ t.op = "close" => t.pc \in {"enter", "found", "cam", "poll", "evt", "destroy", "free"}
  /\ t.pc \in {"slot", "chan", "wipe", "qbuf"} => t.op \in ChanOps /\ t.slot \in Slots
  /\ t.pc = "wipe" => t.op = "delete"
  /\ t.pc \in {"send", "wait"} => t.op \in {"map", "smap"}
  /\ t.pc \in {"send", "wait"} /\ t.op = "smap" => t.slot \in Slots
  /\ t.op \in ChanOps => t.chan # NoHandle
  /\ t.pc \notin {"idle", "enter"} => t.cam \in Cams
  /\ t.pc = "enter" /\ t.op # "open" => t.cam \in Cams

Shape ==
  \A c \in Clients :
    /\ Formed(thread[c])
    /\ thread[c].cam # NoHandle => cam[thread[c].cam].state # "none"

\* Handles are generated one after the other.
Handles == \E n \in 0..MaxOpens : Known = 1..n

\* The references to h that are not in given: an open that has not returned, and a
\* close that has not found the object yet.
Owing(t) == t.pc = "opened" \/ (t.pc = "enter" /\ t.op = "close")
Pending(h) == {c \in Clients : Owing(thread[c]) /\ thread[c].cam = h}

\* An object is in the table as long as it is referenced, and its count is right.
Counted ==
  \A h \in Cams : /\ table = h <=> cam[h].state = "live"
                  /\ cam[h].state = "live" <=> cam[h].ref > 0
                  /\ cam[h].ref = given[h] + Cardinality(Pending(h))

\* A handle that is not given out has no channels and no calls on them.
OfChannel(t) == t.op \in ChanOps \cup {"add"}
Guarded ==
  \A h \in Cams : given[h] = 0 =>
    /\ \A d \in Clients : OfChannel(thread[d]) => thread[d].cam # h
    /\ \A i \in Slots : ~cam[h].slot[i].used

\* g_intf_lock, from the table to cam_lock.
Finding ==
  \A c \in Clients : thread[c].pc = "found" =>
    /\ intfLock = c
    /\ thread[c].op # "close" => table = thread[c].cam

\* The places where cam_lock is held.
Holds(t) == \/ t.pc \in {"cam", "slot", "poll", "evt", "destroy"}
            \/ t.pc \in {"send", "wait"} /\ t.op = "map"
InUse(o) == o.state \in {"live", "closing"}

Holding ==
  \A c \in Clients : Holds(thread[c]) =>
    cam[thread[c].cam].lock = c /\ InUse(cam[thread[c].cam])

\* The close that empties the table is the only one there is.
Closes(t) == t.op = "close" /\ t.pc # "enter"
Closing ==
  /\ \A c \in Clients : Closes(thread[c]) =>
       cam[thread[c].cam].state = IF thread[c].pc = "free" THEN "destroyed" ELSE "closing"
  /\ \A c, d \in Clients :
       Closes(thread[c]) /\ Closes(thread[d]) /\ thread[c].cam = thread[d].cam => c = d

\* The threads of an object end one after the other before it does.
Ended(o) == o.evt = "gone" /\ o.evq = <<>>
Ends(o) ==
  /\ o.state \in {"destroyed", "freed"} => o.poll = "gone" /\ Ended(o)
  /\ o.cbLock <=> o.evt = "calls"
  /\ o.state = "live" => o.poll # "gone"
Ending ==
  /\ \A c \in Clients :
       /\ thread[c].pc \in {"evt", "destroy"} => cam[thread[c].cam].poll = "gone"
       /\ thread[c].pc = "destroy" => Ended(cam[thread[c].cam])
       /\ Holds(thread[c]) /\ thread[c].op # "close" => cam[thread[c].cam].poll # "gone"
  /\ \A h \in Cams : Ends(cam[h])

\* msg_lock is held from the message to its answer.
Asks(t) == t.pc \in {"send", "wait"}
Messages ==
  /\ \A c \in Clients : Asks(thread[c]) => cam[thread[c].cam].msgLock = c
  /\ \A h \in Cams : cam[h].msgLock # NoOne =>
       Asks(thread[cam[h].msgLock]) /\ thread[cam[h].msgLock].cam = h

\* Channels are added and deleted one after the other; a call on a channel has it until
\* it is done, and a slot that is not used is empty or about to be wiped.
Changes(t) == t.op \in {"add", "delete"}
Uses(t) == \/ t.pc \in {"slot", "chan", "qbuf"} /\ t.op \in ChanOps
           \/ t.pc \in {"send", "wait"} /\ t.op = "smap"
Wipes(t, h, i) == t.pc = "wipe" /\ t.cam = h /\ t.slot = i
Alone ==
  /\ \A c, d \in Clients : Changes(thread[c]) /\ Changes(thread[d]) => c = d
  /\ \A c, d \in Clients :
       thread[c].op = "delete" /\ thread[d].chan = thread[c].chan => c = d
  /\ \A c \in Clients : thread[c].op = "add" => channels < MaxChannels
Channels ==
  /\ \A c \in Clients :
       LET s == cam[thread[c].cam].slot[thread[c].slot]
       IN  /\ Uses(thread[c]) => s.hdl = thread[c].chan /\ s.used
           /\ thread[c].pc = "wipe" => ~s.used
  /\ \A h \in Cams, i \in Slots :
       LET s == cam[h].slot[i]
       IN  s.hdl # NoHandle /\ ~s.used =>
             \E d \in Clients : Wipes(thread[d], h, i) /\ thread[d].chan = s.hdl

\* Where the answer for d may be, and that there is none.
NoneIn(e) == \A i \in DOMAIN e : e[i] = "died"
OneIn(e, d) == \E i \in DOMAIN e : e[i] = d /\ \A j \in DOMAIN e : j # i => e[j] = "died"
Quiet(o) == o.sock = <<>> /\ NoneIn(o.events) /\ o.poll \notin Clients /\ o.rcvd = NoOne
Owed(o, d) ==
  \/ o.sock = <<d>> /\ NoneIn(o.events) /\ o.poll \notin Clients /\ o.rcvd = NoOne
  \/ o.sock = <<>> /\ OneIn(o.events, d) /\ o.poll \notin Clients /\ o.rcvd = NoOne
  \/ o.sock = <<>> /\ NoneIn(o.events) /\ o.poll = d /\ o.rcvd = NoOne
  \/ o.sock = <<>> /\ NoneIn(o.events) /\ o.poll \notin Clients /\ o.rcvd = d
Waits(t, h) == t.pc = "wait" /\ t.cam = h
Answers ==
  \A h \in Cams : /\ (\A c \in Clients : ~Waits(thread[c], h)) => Quiet(cam[h])
                  /\ \A c \in Clients : Waits(thread[c], h) => Owed(cam[h], c)

Inv == /\ Types /\ Shape /\ Handles /\ Counted /\ Guarded /\ Finding /\ Holding /\ Closing
       /\ Ending /\ Messages /\ Alone /\ Channels /\ Answers
-----------------------------------------------------------------------------
(* One step of a thread.  Client c goes on, its record becomes t, and the   *)
(* object h becomes o; what each part of the invariant asks of that.        *)

Turn(c, t) == thread' = [thread EXCEPT ![c] = t]
Put(h, o) == cam' = [cam EXCEPT ![h] = o]

Moved(c, t, h, o) ==
  /\ c \in Clients /\ h \in Cams /\ t \in ThreadType /\ o \in ObjectType
  /\ Turn(c, t) /\ Put(h, o)

ShapeStep(c, t, h, o) ==
  /\ Formed(t)
  /\ t.cam # NoHandle => cam[t.cam].state # "none"
  /\ cam[h].state # "none" => o.state # "none"

GuardStep(c, t, h, o) ==
  /\ \A g \in Cams : given[g] > 0 => given'[g] > 0
  /\ OfChannel(t) => (OfChannel(thread[c]) /\ t.cam = thread[c].cam) \/ given[t.cam] > 0
  /\ \A i \in Slots : o.slot[i].used => cam[h].slot[i].used \/ given[h] > 0

FindStep(c, t) ==
  /\ t.pc = "found" => intfLock' = c /\ (t.op # "close" => table' = t.cam)
  /\ (intfLock' = intfLock /\ table' = table) \/ intfLock \in {NoOne, c}

HoldStep(c, t, h, o) ==
  /\ Holds(t) => t.cam = h /\ o.lock = c /\ InUse(o)
  /\ \/ o.lock = cam[h].lock /\ InUse(o)
     \/ cam[h].lock \in {NoOne, c}
     \/ ~InUse(cam[h])

CloseStep(c, t, h, o) ==
  LET same == Closes(thread[c]) /\ thread[c].cam = h
  IN  /\ Closes(t) => /\ t.cam = h
                      /\ o.state = IF t.pc = "free" THEN "destroyed" ELSE "closing"
                      /\ same \/ cam[h].state = "live"
      /\ o.state = cam[h].state \/ same \/ cam[h].state \in {"none", "live"}

EndStep(c, t, h, o) ==
  /\ t.pc \in {"evt", "destroy"} => t.cam = h /\ o.poll = "gone"
  /\ t.pc = "destroy" => t.cam = h /\ Ended(o)
  /\ Holds(t) /\ t.op # "close" => t.cam = h /\ o.poll # "gone"
  /\ o.poll = "gone" => cam[h].poll = "gone" \/ cam[h].lock = c
  /\ Ends(o)
  /\ \/ cam[h].state = "none"
     \/ (cam[h].poll = "gone" => o.poll = "gone") /\ (Ended(cam[h]) => Ended(o))

MessageStep(c, t, h, o) ==
  /\ Asks(t) => t.cam = h /\ o.msgLock = c
  /\ Asks(thread[c]) => thread[c].cam = h
  /\ o.msgLock = cam[h].msgLock \/ cam[h].msgLock \in {NoOne, c} \/ cam[h].state = "none"
  /\ o.msgLock = c => Asks(t)
  /\ o.msgLock \in {cam[h].msgLock, NoOne, c}

AloneStep(c, t) ==
  /\ Changes(t) => Changes(thread[c]) \/ \A d \in Clients : d # c => ~Changes(thread[d])
  /\ t.op = "delete" => \/ thread[c].op = "delete" /\ t.chan = thread[c].chan
                        \/ \A d \in Clients : d # c => thread[d].chan # t.chan
  /\ \/ t.chan \in {NoHandle, thread[c].chan}
     \/ \A d \in Clients : thread[d].op = "delete" => thread[d].chan # t.chan
  /\ t.op = "add" => channels' < MaxChannels
  /\ channels' = channels \/ Changes(thread[c])

ChannelStep(c, t, h, o) ==
  /\ Uses(t) => t.cam = h /\ o.slot[t.slot].hdl = t.chan /\ o.slot[t.slot].used
  /\ t.pc = "wipe" => t.cam = h /\ ~o.slot[t.slot].used
  /\ thread[c].pc = "wipe" => thread[c].cam = h
  /\ cam[h].state = "none" \/
     \A i \in Slots :
       \/ o.slot[i].hdl = cam[h].slot[i].hdl /\ o.slot[i].used = cam[h].slot[i].used
       \/ ~cam[h].slot[i].used /\ (o.slot[i].used => Changes(thread[c]))
       \/ thread[c].op = "delete" /\ cam[h].slot[i].hdl = thread[c].chan /\ ~o.slot[i].used
  /\ \A i \in Slots :
       o.slot[i].hdl # NoHandle /\ ~o.slot[i].used =>
         \/ Wipes(t, h, i) /\ t.chan = o.slot[i].hdl
         \/ /\ cam[h].slot[i].hdl = o.slot[i].hdl /\ ~cam[h].slot[i].used
            /\ ~Wipes(thread[c], h, i)

\* The steps that leave the counts, the messages and the handles alone.
Uncounted(c, t, h, o) ==
  /\ given' = given /\ table' = table
  /\ o.ref = cam[h].ref /\ (o.state = "live" <=> cam[h].state = "live")
  /\ o.state = "none" <=> cam[h].state = "none"
  /\ ~Owing(thread[c]) /\ ~Owing(t)

Unasked(c, t, h, o) ==
  /\ thread[c].pc # "wait" /\ t.pc # "wait"
  /\ o.sock = cam[h].sock /\ o.events = cam[h].events /\ o.rcvd = cam[h].rcvd
  /\ o.poll = cam[h].poll \/ {o.poll, cam[h].poll} \subseteq {"idle", "gone"}

\* What another client, or another object, is after the step.
LEMMA After ==
  ASSUME Types, NEW c, NEW t, NEW h, NEW o, Moved(c, t, h, o)
  PROVE  /\ thread'[c] = t
         /\ \A d \in Clients : d # c => thread'[d] = thread[d]
         /\ cam'[h] = o
         /\ \A g \in Cams : g # h => cam'[g] = cam[g]
BY SMT DEF Types, Moved, Turn, Put

LEMMA ShapeKept ==
  ASSUME Types, Shape, NEW c, NEW t, NEW h, NEW o, Moved(c, t, h, o), ShapeStep(c, t, h, o)
  PROVE  Shape'
<1>1. ASSUME NEW d \in Clients PROVE Formed(thread'[d])
  BY <1>1, After DEF Shape, ShapeStep
<1>2. ASSUME NEW d \in Clients, thread'[d].cam # NoHandle
      PROVE  cam'[thread'[d].cam].state # "none"
  <2>1. thread'[d].cam \in Cams
    BY <1>2, SMT DEF Types, Moved, Turn, ThreadType, Cams, NoHandle
  <2>2. cam[thread'[d].cam].state # "none"
    BY <1>2, After DEF Shape, ShapeStep
  <2>3. QED BY <2>1, <2>2, After DEF ShapeStep
<1>3. QED BY <1>1, <1>2 DEF Shape, Formed

LEMMA GuardKept ==
  ASSUME Types, Guarded, NEW c, NEW t, NEW h, NEW o, Moved(c, t, h, o), given' \in [Cams -> Nat],
         GuardStep(c, t, h, o)
  PROVE  Guarded'
<1> SUFFICES ASSUME NEW g \in Cams, given'[g] = 0
             PROVE  /\ \A d \in Clients : OfChannel(thread'[d]) => thread'[d].cam # g
                    /\ \A i \in Slots : ~cam'[g].slot[i].used
  BY DEF Guarded, OfChannel
<1>1. given[g] = 0 /\ ~(given[g] > 0)
  BY SMT DEF Types, GuardStep
<1>2. ASSUME NEW d \in Clients, OfChannel(thread'[d]) PROVE thread'[d].cam # g
  BY <1>1, <1>2, After DEF Guarded, GuardStep
<1>3. ASSUME NEW i \in Slots PROVE ~cam'[g].slot[i].used
  BY <1>1, After DEF Guarded, GuardStep
<1>4. QED BY <1>2, <1>3

LEMMA FindKept ==
  ASSUME Types, Finding, NEW c, NEW t, NEW h, NEW o, Moved(c, t, h, o), FindStep(c, t)
  PROVE  Finding'
<1> SUFFICES ASSUME NEW d \in Clients, thread'[d].pc = "found"
             PROVE  intfLock' = d /\ (thread'[d].op # "close" => table' = thread'[d].cam)
  BY DEF Finding
<1>1. CASE d = c BY <1>1, After DEF FindStep
<1>2. CASE d # c
  <2>1. thread'[d] = thread[d] /\ intfLock = d BY <1>2, After DEF Finding
  <2>2. intfLock' = intfLock /\ table' = table
    BY <1>2, <2>1, CameraAssumption DEF FindStep
  <2>3. QED BY <2>1, <2>2 DEF Finding
<1>3. QED BY <1>1, <1>2

LEMMA HoldKept ==
  ASSUME Types, Shape, Holding, NEW c, NEW t, NEW h, NEW o, Moved(c, t, h, o),
         HoldStep(c, t, h, o)
  PROVE  Holding'
<1> SUFFICES ASSUME NEW d \in Clients, Holds(thread'[d])
             PROVE  cam'[thread'[d].cam].lock = d /\ InUse(cam'[thread'[d].cam])
  BY DEF Holding, Holds, InUse
<1>1. CASE d = c BY <1>1, After DEF HoldStep
<1>2. CASE d # c
  <2>1. thread'[d] = thread[d] BY <1>2, After
  <2>2. cam[thread[d].cam].lock = d /\ InUse(cam[thread[d].cam]) BY <2>1 DEF Holding
  <2>3. thread[d].cam \in Cams
    BY <2>1, SMT DEF Shape, Formed, Holds
  <2>4. CASE thread[d].cam = h
    <3>1. cam[h].lock \notin {NoOne, c} /\ InUse(cam[h])
      BY <1>2, <2>2, <2>4, CameraAssumption
    <3>2. o.lock = cam[h].lock /\ InUse(o) BY <3>1 DEF HoldStep
    <3>3. QED BY <2>1, <2>2, <2>4, <3>2, After
  <2>5. CASE thread[d].cam # h BY <2>1, <2>2, <2>3, <2>5, After
  <2>6. QED BY <2>4, <2>5
<1>3. QED BY <1>1, <1>2

LEMMA CloseKept ==
  ASSUME Types, Shape, Closing, NEW c, NEW t, NEW h, NEW o, Moved(c, t, h, o),
         CloseStep(c, t, h, o)
  PROVE  Closing'
<1>1. ASSUME NEW d \in Clients, Closes(thread[d]) PROVE thread[d].cam \in Cams
  BY <1>1, SMT DEF Shape, Formed, Closes, Idle
<1>2. ASSUME NEW d \in Clients, Closes(thread[d]), thread[d].cam = h, d # c
      PROVE  o.state = cam[h].state /\ ~Closes(t)
  <2>1. cam[h].state \notin {"none", "live"}
    BY <1>2 DEF Closing
  <2>2. ~(Closes(thread[c]) /\ thread[c].cam = h)
    BY <1>2 DEF Closing, Moved
  <2>3. QED BY <2>1, <2>2 DEF CloseStep
<1>3. ASSUME NEW d \in Clients, Closes(thread'[d])
      PROVE  cam'[thread'[d].cam].state = IF thread'[d].pc = "free" THEN "destroyed"
                                                                   ELSE "closing"
  <2>1. CASE d = c BY <1>3, <2>1, After DEF CloseStep
  <2>2. CASE d # c
    <3>1. thread'[d] = thread[d] BY <2>2, After
    <3>2. CASE thread[d].cam = h BY <1>2, <1>3, <2>2, <3>1, <3>2, After DEF Closing
    <3>3. CASE thread[d].cam # h BY <1>1, <1>3, <3>1, <3>3, After DEF Closing
    <3>4. QED BY <3>2, <3>3
  <2>3. QED BY <2>1, <2>2
<1>4. ASSUME NEW d \in Clients, NEW e \in Clients, Closes(thread'[d]), Closes(thread'[e]),
             thread'[d].cam = thread'[e].cam
      PROVE  d = e
  <2>1. CASE d # c /\ e # c BY <1>4, <2>1, After DEF Closing
  <2>2. CASE d = c /\ e # c BY <1>2, <1>4, <2>2, After DEF CloseStep
  <2>3. CASE d # c /\ e = c BY <1>2, <1>4, <2>3, After DEF CloseStep
  <2>4. QED BY <2>1, <2>2, <2>3
<1>5. QED BY <1>3, <1>4 DEF Closing, Closes

LEMMA EndKept ==
  ASSUME Types, Shape, Closing, Holding, Ending, NEW c, NEW t, NEW h, NEW o, Moved(c, t, h, o),
         EndStep(c, t, h, o)
  PROVE  Ending'
<1>1. ASSUME NEW d \in Clients, d # c, thread[d].pc \in {"evt", "destroy"}
      PROVE  /\ thread'[d] = thread[d]
             /\ thread[d].cam \in Cams
             /\ cam[thread[d].cam].state # "none"
  <2>1. Closes(thread[d])
    BY <1>1, SMT DEF Shape, Formed, Closes
  <2>2. thread[d].cam \in Cams
    BY <1>1, SMT DEF Shape, Formed
  <2>3. cam[thread[d].cam].state # "none" BY <2>1 DEF Closing
  <2>4. QED BY <1>1, <2>2, <2>3, After
<1>2. ASSUME NEW d \in Clients, thread'[d].pc \in {"evt", "destroy"}
      PROVE  cam'[thread'[d].cam].poll = "gone"
  <2>1. CASE d = c BY <1>2, <2>1, After DEF EndStep
  <2>2. CASE d # c BY <1>1, <1>2, <2>2, After DEF Ending, EndStep
  <2>3. QED BY <2>1, <2>2
<1>3. ASSUME NEW d \in Clients, thread'[d].pc = "destroy"
      PROVE  Ended(cam'[thread'[d].cam])
  <2>1. CASE d = c BY <1>3, <2>1, After DEF EndStep
  <2>2. CASE d # c BY <1>1, <1>3, <2>2, After DEF Ending, EndStep
  <2>3. QED BY <2>1, <2>2
<1>4. ASSUME NEW d \in Clients, Holds(thread'[d]), thread'[d].op # "close"
      PROVE  cam'[thread'[d].cam].poll # "gone"
  <2>1. CASE d = c BY <1>4, <2>1, After DEF EndStep
  <2>2. CASE d # c
    <3>1. thread'[d] = thread[d] BY <2>2, After
    <3>2. thread[d].cam \in Cams BY <1>4, <3>1, SMT DEF Shape, Formed, Holds
    <3>3. cam[thread[d].cam].poll # "gone" BY <1>4, <3>1 DEF Ending
    <3>4. cam[thread[d].cam].lock # c BY <1>4, <2>2, <3>1 DEF Holding
    <3>5. QED BY <3>1, <3>2, <3>3, <3>4, After DEF EndStep
  <2>3. QED BY <2>1, <2>2
<1>5. ASSUME NEW g \in Cams PROVE Ends(cam'[g])
  BY After DEF Ending, EndStep
<1>6. QED BY <1>2, <1>3, <1>4, <1>5 DEF Ending, Ends, Ended, Holds

LEMMA MessageKept ==
  ASSUME Types, Shape, Messages, NEW c, NEW t, NEW h, NEW o, Moved(c, t, h, o),
         MessageStep(c, t, h, o)
  PROVE  Messages'
<1>1. ASSUME NEW d \in Clients, Asks(thread[d])
      PROVE  /\ thread[d].cam \in Cams /\ cam[thread[d].cam].state # "none"
             /\ cam[thread[d].cam].msgLock = d
  <2>1. thread[d].cam \in Cams
    BY <1>1, SMT DEF Shape, Formed, Asks
  <2>2. thread[d].cam # NoHandle
    BY <2>1, SMT DEF Cams, NoHandle
  <2>3. QED BY <1>1, <2>1, <2>2 DEF Shape, Messages
<1>2. ASSUME NEW d \in Clients, Asks(thread'[d]) PROVE cam'[thread'[d].cam].msgLock = d
  <2>1. CASE d = c BY <1>2, <2>1, After DEF MessageStep
  <2>2. CASE d # c
    <3>1. thread'[d] = thread[d] BY <2>2, After
    <3>2. CASE thread[d].cam = h
      <4>1. cam[h].msgLock = d /\ cam[h].state # "none" BY <1>1, <1>2, <3>1, <3>2
      <4>2. o.msgLock = d
        BY <2>2, <4>1, CameraAssumption DEF MessageStep
      <4>3. QED BY <3>1, <3>2, <4>2, After
    <3>3. CASE thread[d].cam # h BY <1>1, <1>2, <3>1, <3>3, After
    <3>4. QED BY <3>2, <3>3
  <2>3. QED BY <2>1, <2>2
<1>3. ASSUME NEW g \in Cams, cam'[g].msgLock # NoOne
      PROVE  Asks(thread'[cam'[g].msgLock]) /\ thread'[cam'[g].msgLock].cam = g
  <2>1. CASE cam'[g].msgLock = c /\ g = h BY <2>1, After DEF MessageStep, Moved
  <2>2. CASE cam'[g].msgLock # c /\ g = h
    <3>1. cam[h].msgLock = o.msgLock /\ o.msgLock # NoOne
      BY <1>3, <2>2, After DEF MessageStep
    <3>2. cam[h].msgLock \in Clients
      BY <3>1, SMT DEF Types, Moved, ObjectType, Nobody
    <3>3. QED BY <2>2, <3>1, <3>2, After DEF Messages
  <2>3. CASE g # h
    <3>1. cam'[g] = cam[g] BY <2>3, After
    <3>2. cam[g].msgLock \in Clients
      BY <1>3, <3>1, SMT DEF Types, ObjectType, Nobody
    <3>3. Asks(thread[cam[g].msgLock]) /\ thread[cam[g].msgLock].cam = g
      BY <1>3, <3>1 DEF Messages
    <3>4. cam[g].msgLock # c BY <2>3, <3>3 DEF MessageStep
    <3>5. QED BY <3>1, <3>2, <3>3, <3>4, After
  <2>4. QED BY <2>1, <2>2, <2>3
<1>4. QED BY <1>2, <1>3 DEF Messages, Asks

LEMMA AloneKept ==
  ASSUME Types, Shape, Alone, NEW c, NEW t, NEW h, NEW o, Moved(c, t, h, o), AloneStep(c, t)
  PROVE  Alone'
<1>1. ASSUME NEW d \in Clients, NEW e \in Clients, Changes(thread'[d]), Changes(thread'[e])
      PROVE  d = e
  <2>1. CASE d # c /\ e # c BY <1>1, <2>1, After DEF Alone
  <2>2. CASE d = c /\ e # c BY <1>1, <2>2, After DEF Alone, AloneStep
  <2>3. CASE d # c /\ e = c BY <1>1, <2>3, After DEF Alone, AloneStep
  <2>4. QED BY <2>1, <2>2, <2>3
<1>2. ASSUME NEW d \in Clients, thread[d].op = "delete" PROVE thread[d].chan # NoHandle
  BY <1>2, SMT DEF Shape, Formed, ChanOps
<1>3. ASSUME NEW d \in Clients, NEW e \in Clients, thread'[d].op = "delete",
             thread'[e].chan = thread'[d].chan
      PROVE  d = e
  <2>1. CASE d # c /\ e # c BY <1>3, <2>1, After DEF Alone
  <2>2. CASE d = c /\ e # c BY <1>3, <2>2, After DEF Alone, AloneStep
  <2>3. CASE d # c /\ e = c BY <1>2, <1>3, <2>3, After DEF Alone, AloneStep
  <2>4. QED BY <2>1, <2>2, <2>3
<1>4. ASSUME NEW d \in Clients, thread'[d].op = "add" PROVE channels' < MaxChannels
  <2>1. CASE d = c BY <1>4, <2>1, After DEF AloneStep
  <2>2. CASE d # c
    <3>1. thread'[d] = thread[d] /\ channels < MaxChannels BY <1>4, <2>2, After DEF Alone
    <3>2. Changes(thread[d]) BY <1>4, <3>1 DEF Changes
    <3>3. channels' = channels BY <2>2, <3>2 DEF Alone, AloneStep, Moved
    <3>4. QED BY <3>1, <3>3
  <2>3. QED BY <2>1, <2>2
<1>5. QED BY <1>1, <1>3, <1>4 DEF Alone, Changes

LEMMA ChannelKept ==
  ASSUME Types, Shape, Alone, Channels, NEW c, NEW t, NEW h, NEW o, Moved(c, t, h, o),
         ChannelStep(c, t, h, o)
  PROVE  Channels'
<1>1. ASSUME NEW d \in Clients, Uses(thread[d]) \/ thread[d].pc = "wipe"
      PROVE  /\ thread[d].cam \in Cams /\ thread[d].slot \in Slots
             /\ cam[thread[d].cam].state # "none"
  <2>1. thread[d].cam \in Cams /\ thread[d].slot \in Slots
    BY <1>1, SMT DEF Shape, Formed, Uses
  <2>2. thread[d].cam # NoHandle
    BY <2>1, SMT DEF Cams, NoHandle
  <2>3. QED BY <2>1, <2>2 DEF Shape
<1>2. ASSUME NEW d \in Clients, thread[d].pc = "wipe" PROVE Changes(thread[d])
  BY <1>2 DEF Shape, Formed, Changes
<1>3. ASSUME NEW d \in Clients, Uses(thread'[d])
      PROVE  /\ cam'[thread'[d].cam].slot[thread'[d].slot].hdl = thread'[d].chan
             /\ cam'[thread'[d].cam].slot[thread'[d].slot].used
  <2>1. CASE d = c BY <1>3, <2>1, After DEF ChannelStep
  <2>2. CASE d # c
    <3>1. thread'[d] = thread[d] BY <2>2, After
    <3>2. /\ cam[thread[d].cam].slot[thread[d].slot].hdl = thread[d].chan
          /\ cam[thread[d].cam].slot[thread[d].slot].used
      BY <1>3, <3>1 DEF Channels
    <3>3. CASE thread[d].cam = h
      <4>1. ~(thread[c].op = "delete" /\ thread[d].chan = thread[c].chan)
        BY <2>2 DEF Alone, Moved
      <4>2. /\ o.slot[thread[d].slot].hdl = cam[h].slot[thread[d].slot].hdl
            /\ o.slot[thread[d].slot].used = cam[h].slot[thread[d].slot].used
        BY <1>1, <1>3, <3>1, <3>2, <3>3, <4>1 DEF ChannelStep
      <4>3. QED BY <3>1, <3>2, <3>3, <4>2, After
    <3>4. CASE thread[d].cam # h BY <1>1, <1>3, <3>1, <3>2, <3>4, After
    <3>5. QED BY <3>3, <3>4
  <2>3. QED BY <2>1, <2>2
<1>4. ASSUME NEW d \in Clients, thread'[d].pc = "wipe"
      PROVE  ~cam'[thread'[d].cam].slot[thread'[d].slot].used
  <2>1. CASE d = c BY <1>4, <2>1, After DEF ChannelStep
  <2>2. CASE d # c
    <3>1. thread'[d] = thread[d] BY <2>2, After
    <3>2. ~cam[thread[d].cam].slot[thread[d].slot].used
      BY <1>4, <3>1 DEF Channels
    <3>3. CASE thread[d].cam = h
      <4>1. ~Changes(thread[c]) BY <1>2, <1>4, <2>2, <3>1 DEF Alone, Moved
      <4>2. ~o.slot[thread[d].slot].used
        BY <1>1, <1>4, <3>1, <3>2, <3>3, <4>1 DEF ChannelStep
      <4>3. QED BY <3>1, <3>3, <4>2, After
    <3>4. CASE thread[d].cam # h BY <1>1, <1>4, <3>1, <3>2, <3>4, After
    <3>5. QED BY <3>3, <3>4
  <2>3. QED BY <2>1, <2>2
<1>5. ASSUME NEW g \in Cams, NEW i \in Slots,
             cam'[g].slot[i].hdl # NoHandle, ~cam'[g].slot[i].used
      PROVE  \E d \in Clients : Wipes(thread'[d], g, i) /\ thread'[d].chan = cam'[g].slot[i].hdl
  <2>1. CASE g = h /\ Wipes(t, h, i) /\ t.chan = o.slot[i].hdl
    BY <2>1, After DEF Moved
  <2>2. CASE /\ g = h /\ cam[h].slot[i].hdl = o.slot[i].hdl /\ ~cam[h].slot[i].used
             /\ ~Wipes(thread[c], h, i)
    <3>1. PICK d \in Clients : Wipes(thread[d], h, i) /\ thread[d].chan = cam[h].slot[i].hdl
      BY <1>5, <2>2, After DEF Channels
    <3>2. QED BY <2>2, <3>1, After
  <2>3. CASE g # h
    <3>1. PICK d \in Clients : Wipes(thread[d], g, i) /\ thread[d].chan = cam[g].slot[i].hdl
      BY <1>5, <2>3, After DEF Channels
    <3>2. d # c BY <2>3, <3>1 DEF Wipes, ChannelStep
    <3>3. QED BY <2>3, <3>1, <3>2, After
  <2>4. CASE g = h BY <1>5, <2>1, <2>2, <2>4, After DEF ChannelStep
  <2>5. QED BY <2>3, <2>4
<1>6. QED BY <1>3, <1>4, <1>5 DEF Channels, Uses, Wipes

LEMMA HandlesKept ==
  ASSUME Types, Handles, NEW c, NEW t, NEW h, NEW o, Moved(c, t, h, o),
         cam[h].state = "none" <=> o.state = "none"
  PROVE  Handles'
<1>1. ASSUME NEW g \in Cams PROVE cam'[g].state = "none" <=> cam[g].state = "none"
  BY After
<1>2. Known' = Known BY <1>1 DEF Known
<1>3. QED BY <1>2 DEF Handles

LEMMA CountKept ==
  ASSUME Types, Counted, NEW c, NEW t, NEW h, NEW o, Moved(c, t, h, o),
         Uncounted(c, t, h, o)
  PROVE  Counted'
<1>1. ASSUME NEW d \in Clients, NEW g
      PROVE  Owing(thread'[d]) /\ thread'[d].cam = g <=> Owing(thread[d]) /\ thread[d].cam = g
  BY After DEF Uncounted, Moved
<1>2. ASSUME NEW g \in Cams PROVE Pending(g)' = Pending(g)
  BY <1>1 DEF Pending, Owing
<1>3. ASSUME NEW g \in Cams
      PROVE  /\ cam'[g].ref = cam[g].ref
             /\ cam'[g].state = "live" <=> cam[g].state = "live"
  BY After DEF Uncounted
<1>4. ASSUME NEW g \in Cams
      PROVE  /\ table' = g <=> cam'[g].state = "live"
             /\ cam'[g].state = "live" <=> cam'[g].ref > 0
  <2>1. table = g <=> cam[g].state = "live" BY DEF Counted
  <2>2. cam[g].state = "live" <=> cam[g].ref > 0 BY DEF Counted
  <2>3. QED BY <1>3, <2>1, <2>2 DEF Uncounted
<1>5. ASSUME NEW g \in Cams PROVE cam'[g].ref = given'[g] + Cardinality(Pending(g)')
  <2>1. cam[g].ref = given[g] + Cardinality(Pending(g)) BY DEF Counted
  <2>2. QED BY <1>2, <1>3, <2>1 DEF Uncounted
<1>6. QED BY <1>4, <1>5 DEF Counted, Pending, Owing

LEMMA AnswerKept ==
  ASSUME Types, Answers, NEW c, NEW t, NEW h, NEW o, Moved(c, t, h, o),
         Unasked(c, t, h, o)
  PROVE  Answers'
<1>1. ASSUME NEW d \in Clients, NEW g PROVE Waits(thread'[d], g) <=> Waits(thread[d], g)
  BY After DEF Unasked, Moved, Waits
<1>2. Quiet(cam[h]) => Quiet(o)
  BY CameraAssumption DEF Unasked, Quiet
<1>3. ASSUME NEW d \in Clients, Owed(cam[h], d) PROVE Owed(o, d)
  BY <1>3, CameraAssumption DEF Unasked, Owed
<1>4. ASSUME NEW g \in Cams, \A d \in Clients : ~Waits(thread'[d], g) PROVE Quiet(cam'[g])
  BY <1>1, <1>2, <1>4, After DEF Answers
<1>5. ASSUME NEW g \in Cams, NEW d \in Clients, Waits(thread'[d], g) PROVE Owed(cam'[g], d)
  BY <1>1, <1>3, <1>5, After DEF Answers
<1>6. QED BY <1>4, <1>5 DEF Answers, Waits, Quiet, Owed, NoneIn, OneIn

Scalars ==
  /\ intfLock \in Nobody /\ table \in {NoHandle} \cup Cams
  /\ made \in Nat /\ given \in [Cams -> Nat] /\ channels \in 0..MaxChannels
  /\ alive \in BOOLEAN

\* A step that keeps what every other client relies on.
Kept(c, t, h, o) ==
  /\ Moved(c, t, h, o)
  /\ ShapeStep(c, t, h, o) /\ FindStep(c, t) /\ HoldStep(c, t, h, o)
  /\ CloseStep(c, t, h, o) /\ EndStep(c, t, h, o) /\ MessageStep(c, t, h, o)
  /\ AloneStep(c, t) /\ ChannelStep(c, t, h, o)

LEMMA StepKept ==
  ASSUME Inv, NEW c, NEW t, NEW h, NEW o, Kept(c, t, h, o), Scalars',
         Handles', Counted', Guarded', Answers'
  PROVE  Inv'
<1>1. Moved(c, t, h, o) BY DEF Kept
<1>2. Types'
  <2>1. cam' \in [Cams -> ObjectType] /\ thread' \in [Clients -> ThreadType]
    BY <1>1 DEF Inv, Types, Moved, Turn, Put
  <2>2. QED BY <2>1 DEF Types, Scalars, ObjectType, ThreadType, SlotType, Nobody, Cams, Ops,
                        Pcs, NoHandle
<1>3. Shape' BY <1>1, ShapeKept DEF Inv, Kept
<1>4. Finding' BY <1>1, FindKept DEF Inv, Kept
<1>5. Holding' BY <1>1, HoldKept DEF Inv, Kept
<1>6. Closing' BY <1>1, CloseKept DEF Inv, Kept
<1>7. Ending' BY <1>1, EndKept DEF Inv, Kept
<1>8. Messages' BY <1>1, MessageKept DEF Inv, Kept
<1>9. Alone' BY <1>1, AloneKept DEF Inv, Kept
<1>10. Channels' BY <1>1, ChannelKept DEF Inv, Kept
<1>11. QED BY <1>2, <1>3, <1>4, <1>5, <1>6, <1>7, <1>8, <1>9, <1>10 DEF Inv

\* A step that neither counts nor asks.
LEMMA PlainKept ==
  ASSUME Inv, NEW c, NEW t, NEW h, NEW o, Kept(c, t, h, o), Scalars',
         GuardStep(c, t, h, o), Uncounted(c, t, h, o), Unasked(c, t, h, o)
  PROVE  Inv'
<1>1. Moved(c, t, h, o) BY DEF Kept
<1>2. Handles' BY <1>1, HandlesKept DEF Inv, Uncounted
<1>3. Counted' BY <1>1, CountKept DEF Inv
<1>4. given' \in [Cams -> Nat] BY DEF Scalars
<1>5. Guarded' BY <1>1, <1>4, GuardKept DEF Inv
<1>6. Answers' BY <1>1, AnswerKept DEF Inv
<1>7. QED BY <1>2, <1>3, <1>5, <1>6, StepKept

\* What the invariant says of a client's call and the object it is about.
LEMMA CallFacts ==
  ASSUME Inv, NEW c \in Clients
  PROVE  /\ thread[c] \in ThreadType /\ Formed(thread[c])
         /\ thread[c].pc \notin {"idle", "enter"} => thread[c].cam \in Cams
         /\ thread[c].cam # NoHandle => cam[thread[c].cam].state # "none"
         /\ thread[c].cam \in Cams => thread[c].cam # NoHandle
<1>1. thread[c] \in ThreadType /\ Formed(thread[c])
  BY DEF Inv, Types, Shape
<1>2. thread[c].pc \notin {"idle", "enter"} => thread[c].cam \in Cams
  BY <1>1 DEF Formed
<1>3. thread[c].cam # NoHandle => cam[thread[c].cam].state # "none"
  BY DEF Inv, Shape
<1>4. thread[c].cam \in Cams => thread[c].cam # NoHandle
  BY SMT DEF Cams, NoHandle
<1>5. QED BY <1>1, <1>2, <1>3, <1>4

LEMMA AloneSame ==
  ASSUME Inv, NEW c \in Clients, NEW t, channels' = channels,
         \/ t.op = thread[c].op /\ t.chan = thread[c].chan
         \/ t.op = "none" /\ t.chan = NoHandle
  PROVE  AloneStep(c, t)
<1>1. CASE t.op = thread[c].op /\ t.chan = thread[c].chan
  BY <1>1 DEF AloneStep, Changes, Inv, Alone
<1>2. CASE t.op = "none" /\ t.chan = NoHandle BY <1>2 DEF AloneStep, Changes
<1>3. QED BY <1>1, <1>2

\* The record of a call that goes on, and of one that returns.
LEMMA GoingOn ==
  ASSUME NEW r \in ThreadType, NEW p \in Pcs
  PROVE  LET t == [r EXCEPT !.pc = p]
         IN  /\ t \in ThreadType /\ t.pc = p /\ t.op = r.op /\ t.cam = r.cam
             /\ t.chan = r.chan /\ t.slot = r.slot
BY SMT DEF ThreadType

LEMMA Returning ==
  /\ Idle \in ThreadType /\ Formed(Idle)
  /\ Idle.pc = "idle" /\ Idle.op = "none" /\ Idle.cam = NoHandle /\ Idle.chan = NoHandle
<1>1. Idle.pc = "idle" /\ Idle.op = "none" /\ Idle.cam = NoHandle /\ Idle.chan = NoHandle
  BY DEF Idle
<1>2. Idle \in ThreadType
  BY SMT, CameraAssumption DEF Idle, ThreadType, Pcs, Ops, NoHandle
<1>3. Formed(Idle) BY <1>1 DEF Formed, ChanOps
<1>4. QED BY <1>1, <1>2, <1>3

\* The object but for cam_lock, the locks of its channels and who has registered.
Light(h, o) ==
  /\ o.state = cam[h].state /\ o.ref = cam[h].ref /\ o.msgLock = cam[h].msgLock
  /\ o.cbLock = cam[h].cbLock /\ o.sock = cam[h].sock /\ o.events = cam[h].events
  /\ o.poll = cam[h].poll /\ o.rcvd = cam[h].rcvd /\ o.evq = cam[h].evq /\ o.evt = cam[h].evt
  /\ \A i \in Slots : /\ o.slot[i].hdl = cam[h].slot[i].hdl
                      /\ o.slot[i].used = cam[h].slot[i].used

\* The call is not where its record changes more than those.
Outside(c, t, h) ==
  /\ ~Owing(thread[c]) /\ ~Owing(t) /\ ~Asks(thread[c]) /\ ~Asks(t)
  /\ thread[c].pc # "wipe" /\ t.pc \notin {"wipe", "evt", "destroy", "free"}
  /\ Closes(t) => Closes(thread[c]) /\ thread[c].cam = t.cam /\ t.cam = h /\ thread[c].pc # "free"
  /\ Uses(t) => /\ t.cam = h /\ cam[h].slot[t.slot].used
                /\ t.slot \in Slots /\ cam[h].slot[t.slot].hdl = t.chan
  /\ Holds(t) /\ t.op # "close" => cam[h].poll # "gone"

\* A step that changes some of these at most.
LEMMA LightKept ==
  ASSUME Inv, NEW c, NEW t, NEW h, NEW o, Moved(c, t, h, o), Scalars', Light(h, o),
         Outside(c, t, h), given' = given, table' = table, Formed(t),
         t.cam # NoHandle => cam[t.cam].state # "none",
         OfChannel(t) => (OfChannel(thread[c]) /\ t.cam = thread[c].cam) \/ given[t.cam] > 0,
         FindStep(c, t), HoldStep(c, t, h, o), AloneStep(c, t)
  PROVE  Inv'
<1>1. h \in Cams /\ c \in Clients BY DEF Moved
<1>2. ShapeStep(c, t, h, o) BY DEF ShapeStep, Light
<1>3. CloseStep(c, t, h, o)
  <2>1. Closes(t) => cam[h].state = "closing"
    BY <1>1 DEF Outside, Inv, Closing
  <2>2. t.pc # "free" BY DEF Outside
  <2>3. QED BY <2>1, <2>2 DEF CloseStep, Light, Outside
<1>4. EndStep(c, t, h, o)
  <2>1. Ends(cam[h]) BY <1>1 DEF Inv, Ending
  <2>2. Ends(o) BY <2>1 DEF Ends, Ended, Light
  <2>3. Holds(t) => t.cam = h BY DEF HoldStep
  <2>4. QED BY <2>2, <2>3 DEF EndStep, Ended, Light, Outside
<1>5. MessageStep(c, t, h, o)
  <2>1. cam[h].msgLock # c
    BY <1>1, CameraAssumption DEF Outside, Inv, Messages
  <2>2. QED BY <2>1 DEF MessageStep, Light, Outside
<1>6. ChannelStep(c, t, h, o)
  <2>1. \A i \in Slots : ~Wipes(thread[c], h, i) BY DEF Outside, Wipes
  <2>2. QED BY <2>1 DEF ChannelStep, Light, Outside
<1>7. GuardStep(c, t, h, o)
  BY DEF GuardStep, Light
<1>8. Uncounted(c, t, h, o) BY DEF Uncounted, Light, Outside
<1>9. Unasked(c, t, h, o) BY DEF Unasked, Light, Outside, Asks
<1>10. Kept(c, t, h, o) BY <1>2, <1>3, <1>4, <1>5, <1>6 DEF Kept
<1>11. QED BY <1>7, <1>8, <1>9, <1>10, PlainKept

\* A call that returns from a place where it holds at most cam_lock or a channel's lock.
LEMMA ReturnInv ==
  ASSUME Inv, NEW c \in Clients, NEW h \in Cams, NEW o \in ObjectType, Put(h, o), Light(h, o),
         o.lock = cam[h].lock \/ cam[h].lock = c, Return(c), ~Owing(thread[c]),
         thread[c].pc \in {"enter", "cam", "chan", "qbuf"},
         UNCHANGED <<intfLock, table, made, given, channels, alive>>
  PROVE  Inv'
<1> DEFINE t == Idle
<1>1. t \in ThreadType /\ Formed(t) /\ t.pc = "idle" /\ t.op = "none" /\ t.cam = NoHandle
      /\ t.chan = NoHandle
  BY Returning
<1>2. Turn(c, t) BY DEF Return, Turn
<1>3. Scalars' BY DEF Inv, Types, Scalars, Nobody
<1> HIDE DEF t
<1>4. Moved(c, t, h, o) BY <1>1, <1>2 DEF Moved
<1>5. Outside(c, t, h) BY <1>1 DEF Outside, Owing, Asks, Closes, Uses, Holds
<1>6. FindStep(c, t) BY <1>1 DEF FindStep
<1>7. HoldStep(c, t, h, o) BY <1>1 DEF HoldStep, Holds, InUse, Light
<1>8. AloneStep(c, t) BY <1>1, AloneSame
<1>9. ~OfChannel(t) BY <1>1 DEF OfChannel, ChanOps
<1>10. QED BY <1>1, <1>3, <1>4, <1>5, <1>6, <1>7, <1>8, <1>9, LightKept

\* A close that has not found its object is counted, so that it finds it.
LEMMA Counts ==
  ASSUME Inv, NEW h \in Cams
  PROVE  /\ IsFiniteSet(Pending(h)) /\ Cardinality(Pending(h)) \in Nat
         /\ \A c \in Pending(h) : Cardinality(Pending(h)) > 0
<1>1. IsFiniteSet(Pending(h))
  <2>1. Pending(h) \subseteq Clients BY DEF Pending
  <2>2. QED BY <2>1, FS_Subset, CameraAssumption
<1>2. Cardinality(Pending(h)) \in Nat BY <1>1, FS_CardinalityType
<1>3. \A c \in Pending(h) : Cardinality(Pending(h)) # 0 BY <1>1, FS_EmptySet
<1>4. QED BY <1>1, <1>2, <1>3

LEMMA OwingLive ==
  ASSUME Inv, NEW c \in Clients, Owing(thread[c])
  PROVE  /\ thread[c].cam \in Cams /\ table = thread[c].cam
         /\ cam[thread[c].cam].state = "live"
<1>1. thread[c].cam \in Cams
  BY CallFacts DEF Owing, Formed
<1>2. c \in Pending(thread[c].cam) BY DEF Pending
<1>3. cam[thread[c].cam].ref > 0
  <2>1. Cardinality(Pending(thread[c].cam)) \in Nat /\ Cardinality(Pending(thread[c].cam)) > 0
    BY <1>1, <1>2, Counts
  <2>2. given[thread[c].cam] \in Nat BY <1>1 DEF Inv, Types
  <2>3. cam[thread[c].cam].ref = given[thread[c].cam] + Cardinality(Pending(thread[c].cam))
    BY <1>1 DEF Inv, Counted
  <2>4. QED BY <2>1, <2>2, <2>3
<1>4. QED BY <1>1, <1>3 DEF Inv, Counted

\* The object, and the references to it, without a change.
LEMMA AsIs ==
  ASSUME Inv, NEW h \in Cams
  PROVE  /\ cam[h] \in ObjectType /\ cam[h].ref \in Nat /\ given[h] \in Nat
         /\ table = h <=> cam[h].state = "live"
         /\ cam[h].state = "live" <=> cam[h].ref > 0
         /\ cam[h].ref = given[h] + Cardinality(Pending(h))
         /\ Ends(cam[h])
BY DEF Inv, Types, Counted, ObjectType, Ending

\* An object in which the slot i has become s.
WithSlot(q, i, s) == [q EXCEPT !.slot = [@ EXCEPT ![i] = s]]
SlotPut(q, i, s, o) ==
  /\ o \in ObjectType
  /\ o.slot[i] = s /\ \A j \in Slots : j # i => o.slot[j] = q.slot[j]
  /\ o.state = q.state /\ o.ref = q.ref /\ o.lock = q.lock /\ o.msgLock = q.msgLock
  /\ o.cbLock = q.cbLock /\ o.sock = q.sock /\ o.events = q.events
  /\ o.poll = q.poll /\ o.rcvd = q.rcvd /\ o.evq = q.evq /\ o.evt = q.evt

LEMMA SlotFacts ==
  ASSUME NEW q \in ObjectType, NEW i \in Slots, NEW s \in SlotType
  PROVE  SlotPut(q, i, s, WithSlot(q, i, s))
<1>1. q.slot \in [Slots -> SlotType] BY DEF ObjectType
<1> DEFINE u == [q.slot EXCEPT ![i] = s]
           o == WithSlot(q, i, s)
<1>2. u \in [Slots -> SlotType] /\ u[i] = s /\ \A j \in Slots : j # i => u[j] = q.slot[j]
  BY <1>1
<1>3. o = [q EXCEPT !.slot = u] BY DEF WithSlot
<1> HIDE DEF u, o
<1>4. o \in ObjectType /\ o.slot = u
  BY <1>2, <1>3 DEF ObjectType
<1>5. /\ o.state = q.state /\ o.ref = q.ref /\ o.lock = q.lock /\ o.msgLock = q.msgLock
      /\ o.cbLock = q.cbLock /\ o.sock = q.sock /\ o.events = q.events
      /\ o.poll = q.poll /\ o.rcvd = q.rcvd /\ o.evq = q.evq /\ o.evt = q.evt
  BY <1>3 DEF ObjectType
<1>6. SlotPut(q, i, s, o) BY <1>2, <1>4, <1>5 DEF SlotPut
<1>7. QED BY <1>6 DEF o

\* Some object, for the steps that change none.
LEMMA Some ==
  ASSUME Inv
  PROVE  1 \in Cams /\ cam[1] \in ObjectType /\ Light(1, cam[1])
         /\ (cam' = cam => Put(1, cam[1]))
<1>1. 1 \in Cams BY CameraAssumption DEF Cams
<1>2. QED BY <1>1 DEF Inv, Types, Light, Put

LEMMA OpenFailsInv ==
  ASSUME Inv, NEW c \in Clients, OpenFails(c)
  PROVE  Inv'
<1>1. thread[c].pc = "enter" /\ thread[c].op = "open" BY DEF OpenFails, At
<1>2. ~Owing(thread[c]) BY <1>1 DEF Owing
<1>3. QED BY <1>1, <1>2, Some, ReturnInv DEF OpenFails

LEMMA RefusedInv ==
  ASSUME Inv, NEW c \in Clients, Refused(c)
  PROVE  Inv'
<1>1. thread[c].pc = "enter" /\ table # thread[c].cam BY DEF Refused, At
<1>2. ~Owing(thread[c]) BY <1>1, OwingLive
<1>3. QED BY <1>1, <1>2, Some, ReturnInv DEF Refused

LEMMA QbufInv ==
  ASSUME Inv, NEW c \in Clients, Qbuf(c)
  PROVE  Inv'
<1>1. thread[c].pc = "qbuf" BY DEF Qbuf, At
<1>2. ~Owing(thread[c]) BY <1>1 DEF Owing
<1>3. QED BY <1>1, <1>2, Some, ReturnInv DEF Qbuf

\* A call that gives cam_lock back and returns, and may have registered on the way.
LEMMA UnlockInv ==
  ASSUME Inv, NEW c \in Clients, NEW r \in SUBSET Clients, thread[c].pc = "cam",
         cam' = [cam EXCEPT ![thread[c].cam] = [@ EXCEPT !.reg = r, !.lock = NoOne]],
         Return(c), UNCHANGED <<intfLock, table, made, given, channels, alive>>
  PROVE  Inv'
<1> DEFINE h == thread[c].cam
           o == [cam[h] EXCEPT !.reg = r, !.lock = NoOne]
<1>1. h \in Cams /\ cam[h] \in ObjectType BY CallFacts DEF Inv, Types
<1>2. o \in ObjectType /\ Light(h, o) BY <1>1 DEF ObjectType, Light, Nobody
<1>3. Put(h, o) BY <1>1 DEF Put, Inv, Types
<1>4. cam[h].lock = c BY DEF Inv, Holding, Holds
<1>5. ~Owing(thread[c]) BY DEF Owing
<1> HIDE DEF h, o
<1>6. QED BY <1>1, <1>2, <1>3, <1>4, <1>5, ReturnInv

LEMMA QueryInv ==
  ASSUME Inv, NEW c \in Clients, Query(c)
  PROVE  Inv'
<1>1. thread[c].pc = "cam" BY DEF Query, At
<1>2. thread[c].cam \in Cams /\ cam[thread[c].cam] \in ObjectType
  BY <1>1, CallFacts DEF Inv, Types
<1>3. cam' = [cam EXCEPT ![thread[c].cam] =
                 [@ EXCEPT !.reg = cam[thread[c].cam].reg, !.lock = NoOne]]
  BY <1>2 DEF Query, ObjectType
<1>4. cam[thread[c].cam].reg \in SUBSET Clients BY <1>2 DEF ObjectType
<1>5. QED BY <1>1, <1>3, <1>4, UnlockInv DEF Query

LEMMA RegisterInv ==
  ASSUME Inv, NEW c \in Clients, Register(c)
  PROVE  Inv'
<1>1. thread[c].pc = "cam" BY DEF Register, At
<1>2. thread[c].cam \in Cams /\ cam[thread[c].cam] \in ObjectType
  BY <1>1, CallFacts DEF Inv, Types
<1> DEFINE r == cam[thread[c].cam].reg \cup {c}
<1>3. cam' = [cam EXCEPT ![thread[c].cam] = [@ EXCEPT !.reg = r, !.lock = NoOne]]
  BY <1>2 DEF Register
<1>4. r \in SUBSET Clients BY <1>2 DEF ObjectType
<1>5. QED BY <1>1, <1>3, <1>4, UnlockInv DEF Register

LEMMA ChannelEventInv ==
  ASSUME Inv, NEW c \in Clients, ChannelEvent(c)
  PROVE  Inv'
<1> DEFINE h == thread[c].cam
           i == thread[c].slot
           s == [cam[h].slot[i] EXCEPT !.lock = NoOne]
           o == WithSlot(cam[h], i, s)
<1>1. thread[c].pc = "chan" BY DEF ChannelEvent, At
<1>2. h \in Cams /\ cam[h] \in ObjectType BY <1>1, CallFacts DEF Inv, Types
<1>3. i \in Slots BY <1>1, CallFacts DEF Formed
<1>4. cam[h].slot[i] \in SlotType BY <1>2, <1>3 DEF ObjectType
<1>5. s \in SlotType /\ s.hdl = cam[h].slot[i].hdl /\ s.used = cam[h].slot[i].used
  BY <1>4 DEF SlotType, Nobody
<1>6. Put(h, o) BY <1>2, <1>3, <1>4 DEF WithSlot, Put, ChannelEvent, Inv, Types, ObjectType
<1>7. SlotPut(cam[h], i, s, o) BY <1>2, <1>3, <1>5, SlotFacts
<1>8. /\ Return(c) /\ thread[c].pc \in {"enter", "cam", "chan", "qbuf"}
      /\ UNCHANGED <<intfLock, table, made, given, channels, alive>>
  BY <1>1 DEF ChannelEvent
<1> HIDE DEF h, i, s, o
<1>9. o \in ObjectType /\ Light(h, o) /\ o.lock = cam[h].lock
  BY <1>3, <1>5, <1>7 DEF Light, SlotPut
<1>10. ~Owing(thread[c]) BY <1>1 DEF Owing
<1>11. QED BY <1>2, <1>6, <1>8, <1>9, <1>10, ReturnInv

LEMMA FindInv ==
  ASSUME Inv, NEW c \in Clients, Find(c)
  PROVE  Inv'
<1> DEFINE h == thread[c].cam
           t == [thread[c] EXCEPT !.pc = "found"]
           o == cam[h]
<1>1. thread[c].pc = "enter" /\ thread[c].op \notin {"open", "close"} /\ intfLock = NoOne
      /\ table = h /\ intfLock' = c /\ h = thread[c].cam
  BY DEF Find, At, AfterFind
<1>2. thread[c] \in ThreadType /\ Formed(thread[c]) BY CallFacts
<1>3. h \in Cams /\ h # NoHandle /\ cam[h].state # "none" /\ o \in ObjectType /\ Light(h, o)
  <2>1. h \in Cams BY <1>1, <1>2 DEF Formed
  <2>2. QED BY <2>1, CallFacts DEF Inv, Types, Light
<1>4. t \in ThreadType /\ t.pc = "found" /\ t.op = thread[c].op /\ t.cam = h
      /\ t.chan = thread[c].chan /\ t.slot = thread[c].slot
  BY <1>2, GoingOn DEF Pcs, UsesObject
<1>5. Turn(c, t) /\ Put(h, o)
  <2>1. Turn(c, t) BY DEF Find, Goto, Turn
  <2>2. Put(h, o) BY <1>3 DEF Find, Put, Inv, Types
  <2>3. QED BY <2>1, <2>2
<1>6. Scalars' BY DEF Find, AfterFind, Inv, Types, Scalars, Nobody
<1>7. given' = given /\ table' = table BY DEF Find
<1> HIDE DEF h, t, o
<1>8. Moved(c, t, h, o) BY <1>3, <1>4, <1>5 DEF Moved
<1>9. Formed(t) BY <1>1, <1>2, <1>3, <1>4 DEF Formed
<1>10. Outside(c, t, h) BY <1>1, <1>4 DEF Outside, Owing, Asks, Closes, Uses, Holds
<1>11. FindStep(c, t) BY <1>1, <1>4, <1>7 DEF FindStep
<1>12. HoldStep(c, t, h, o)
  BY <1>3, <1>4 DEF HoldStep, Holds, InUse, o
<1>13. AloneStep(c, t) BY <1>4, AloneSame DEF Find
<1>14. OfChannel(t) => OfChannel(thread[c]) /\ t.cam = thread[c].cam
  BY <1>1, <1>4 DEF OfChannel
<1>15. QED BY <1>3, <1>4, <1>6, <1>7, <1>8, <1>9, <1>10, <1>11, <1>12, <1>13, <1>14, LightKept

LEMMA TakeCamLockInv ==
  ASSUME Inv, NEW c \in Clients, TakeCamLock(c)
  PROVE  Inv'
<1> DEFINE h == thread[c].cam
           t == [thread[c] EXCEPT !.pc = "cam"]
           o == [cam[h] EXCEPT !.lock = c]
<1>1. thread[c].pc = "found" /\ cam[h].lock = NoOne /\ h = thread[c].cam
  BY DEF TakeCamLock, At
<1>2. intfLock = c /\ intfLock' = NoOne BY <1>1 DEF TakeCamLock, Inv, Finding
<1>3. thread[c] \in ThreadType /\ Formed(thread[c]) BY CallFacts
<1>4. h \in Cams /\ h # NoHandle /\ cam[h].state # "none" /\ cam[h] \in ObjectType
  BY <1>1, CallFacts DEF Inv, Types
<1>5. o \in ObjectType /\ Light(h, o) /\ o.lock = c
  BY <1>4 DEF ObjectType, Light, Nobody
<1>6. t \in ThreadType /\ t.pc = "cam" /\ t.op = thread[c].op /\ t.cam = h
      /\ t.chan = thread[c].chan /\ t.slot = thread[c].slot
  BY <1>3, GoingOn DEF Pcs, UsesObject
<1>7. Turn(c, t) /\ Put(h, o)
  <2>1. Turn(c, t) BY DEF TakeCamLock, Goto, Turn
  <2>2. Put(h, o) BY <1>4 DEF TakeCamLock, Put, Inv, Types
  <2>3. QED BY <2>1, <2>2
<1>8. Scalars' BY <1>2 DEF TakeCamLock, Inv, Types, Scalars, Nobody
<1>9. given' = given /\ table' = table BY DEF TakeCamLock
<1> HIDE DEF h, t, o
<1>10. InUse(cam[h])
  <2>1. CASE thread[c].op = "close"
    BY <1>1, <2>1 DEF Inv, Closing, Closes, InUse
  <2>2. CASE thread[c].op # "close"
    <3>1. table = h BY <1>1, <2>2 DEF Inv, Finding
    <3>2. QED BY <1>4, <3>1 DEF Inv, Counted, InUse
  <2>3. QED BY <2>1, <2>2
<1>11. t.op # "close" => cam[h].poll # "gone"
  BY <1>1, <1>4, <1>6 DEF Inv, Finding, Counted, Ending, Ends
<1>12. Moved(c, t, h, o) BY <1>4, <1>5, <1>6, <1>7 DEF Moved
<1>13. Formed(t) BY <1>1, <1>3, <1>4, <1>6 DEF Formed
<1>14. Outside(c, t, h) BY <1>1, <1>6, <1>11 DEF Outside, Owing, Asks, Closes, Uses, Holds
<1>15. FindStep(c, t) BY <1>2, <1>6 DEF FindStep
<1>16. HoldStep(c, t, h, o) BY <1>1, <1>5, <1>6, <1>10 DEF HoldStep, InUse, Light
<1>17. AloneStep(c, t) BY <1>6, AloneSame DEF TakeCamLock
<1>18. OfChannel(t) => OfChannel(thread[c]) /\ t.cam = thread[c].cam
  BY <1>1, <1>6 DEF OfChannel
<1>19. QED BY <1>4, <1>5, <1>6, <1>8, <1>9, <1>12, <1>13, <1>14, <1>15, <1>16, <1>17, <1>18,
              LightKept

LEMMA FirstOf ==
  ASSUME NEW S, S \subseteq Slots, S # {}
  PROVE  First(S) \in S
<1>1. S \subseteq Nat BY DEF Slots
<1>2. PICK x \in S : \A y \in S : ~(<<y, x>> \in OpToRel(<, Nat))
  BY <1>1, NatLessThanWellFounded, WFMin
<1>3. \A y \in S : x <= y
  <2> TAKE y \in S
  <2>1. x \in Nat /\ y \in Nat BY <1>1
  <2>2. ~(y < x) BY <1>2, <2>1, Zenon DEF OpToRel
  <2>3. QED BY <2>1, <2>2
<1>4. QED BY <1>3 DEF First

\* A channel that is found is one that is used.
LEMMA FoundUsed ==
  ASSUME Inv, NEW c \in Clients, thread[c].pc = "cam", thread[c].op \in ChanOps,
         NEW i \in SlotsOf(thread[c].cam, thread[c].chan)
  PROVE  /\ i \in Slots /\ cam[thread[c].cam].slot[i].hdl = thread[c].chan
         /\ cam[thread[c].cam].slot[i].used
<1>1. thread[c].cam \in Cams /\ thread[c].chan # NoHandle BY CallFacts DEF Formed
<1>2. i \in Slots /\ cam[thread[c].cam].slot[i].hdl = thread[c].chan BY DEF SlotsOf
<1>3. SUFFICES ASSUME ~cam[thread[c].cam].slot[i].used PROVE FALSE BY <1>2
<1>4. PICK d \in Clients : Wipes(thread[d], thread[c].cam, i) /\ thread[d].chan = thread[c].chan
  BY <1>1, <1>2, <1>3 DEF Inv, Channels
<1>5. thread[d].op = "delete" BY <1>4, CallFacts DEF Wipes, Formed
<1>6. d = c BY <1>4, <1>5 DEF Inv, Alone
<1>7. QED BY <1>4, <1>6 DEF Wipes

\* A call on a channel goes on with the slot it has found: to ch_lock, or to its queue
\* without any lock.
LEMMA FoundInv ==
  ASSUME Inv, NEW c \in Clients, NEW i \in SlotsOf(thread[c].cam, thread[c].chan),
         NEW p \in {"slot", "qbuf"}, thread[c].pc = "cam", thread[c].op \in ChanOps,
         Put(thread[c].cam, [cam[thread[c].cam] EXCEPT !.lock = IF p = "slot" THEN c ELSE NoOne]),
         thread' = [thread EXCEPT ![c] = [@ EXCEPT !.pc = p, !.slot = i]],
         UNCHANGED <<intfLock, table, made, given, channels, alive>>
  PROVE  Inv'
<1> DEFINE h == thread[c].cam
           l == IF p = "slot" THEN c ELSE NoOne
           t == [thread[c] EXCEPT !.pc = p, !.slot = i]
           o == [cam[h] EXCEPT !.lock = l]
<1>1. /\ i \in Slots /\ cam[h].slot[i].hdl = thread[c].chan /\ cam[h].slot[i].used
      /\ h = thread[c].cam
  BY FoundUsed
<1>2. thread[c] \in ThreadType /\ Formed(thread[c]) BY CallFacts
<1>3. h \in Cams /\ h # NoHandle /\ cam[h].state # "none" /\ cam[h] \in ObjectType
  BY CallFacts DEF Inv, Types
<1>4. o \in ObjectType /\ Light(h, o) /\ o.lock = l
  BY <1>3 DEF ObjectType, Light, Nobody
<1>5. p \in Pcs /\ i \in 0..NumSlots BY <1>1 DEF Pcs, UsesObject, Slots
<1>6. t \in ThreadType /\ t.pc = p /\ t.op = thread[c].op /\ t.cam = h
      /\ t.chan = thread[c].chan /\ t.slot = i
  BY <1>2, <1>5 DEF ThreadType
<1>7. Turn(c, t) /\ Put(h, o)
  <2>1. Turn(c, t) BY DEF Turn
  <2>2. Put(h, o) OBVIOUS
  <2>3. QED BY <2>1, <2>2
<1>8. Scalars' BY DEF Inv, Types, Scalars, Nobody
<1>9. (p = "slot" /\ l = c) \/ (p = "qbuf" /\ l = NoOne) OBVIOUS
<1> HIDE DEF h, l, t, o
<1>10. cam[h].lock = c /\ InUse(cam[h]) BY <1>1 DEF Inv, Holding, Holds
<1>11. Moved(c, t, h, o) BY <1>3, <1>4, <1>6, <1>7 DEF Moved
<1>12. Formed(t) BY <1>1, <1>2, <1>3, <1>6, <1>9 DEF Formed, ChanOps
<1>13. cam[h].poll # "gone" BY <1>1 DEF Inv, Ending, Holds, ChanOps
<1>14. Outside(c, t, h)
  BY <1>1, <1>6, <1>9, <1>13 DEF Outside, Owing, Asks, Closes, Uses, ChanOps
<1>15. FindStep(c, t) BY <1>6, <1>9 DEF FindStep
<1>16. HoldStep(c, t, h, o)
  BY <1>4, <1>6, <1>9, <1>10 DEF HoldStep, InUse, Light, Holds
<1>17. AloneStep(c, t) BY <1>6, AloneSame
<1>18. OfChannel(t) => OfChannel(thread[c]) /\ t.cam = thread[c].cam
  BY <1>1, <1>6 DEF OfChannel
<1>19. QED BY <1>3, <1>4, <1>6, <1>8, <1>11, <1>12, <1>14, <1>15, <1>16, <1>17, <1>18, LightKept

\* A call that gives cam_lock back and returns, with nothing done.
LEMMA NothingDone ==
  ASSUME Inv, NEW c \in Clients, thread[c].pc = "cam",
         cam' = [cam EXCEPT ![thread[c].cam].lock = NoOne],
         Return(c), UNCHANGED <<intfLock, table, made, given, channels, alive>>
  PROVE  Inv'
<1>1. thread[c].cam \in Cams /\ cam[thread[c].cam] \in ObjectType
  BY CallFacts DEF Inv, Types
<1>2. cam' = [cam EXCEPT ![thread[c].cam] =
                 [@ EXCEPT !.reg = cam[thread[c].cam].reg, !.lock = NoOne]]
  BY <1>1 DEF ObjectType
<1>3. cam[thread[c].cam].reg \in SUBSET Clients BY <1>1 DEF ObjectType
<1>4. QED BY <1>2, <1>3, UnlockInv

LEMMA FindChannelInv ==
  ASSUME Inv, NEW c \in Clients, FindChannel(c)
  PROVE  Inv'
<1> DEFINE h == thread[c].cam
           found == SlotsOf(h, thread[c].chan)
<1>1. thread[c].pc = "cam" /\ thread[c].op \in ChanOps
      /\ UNCHANGED <<intfLock, table, made, given, channels, alive>>
  BY DEF FindChannel, At
<1>2. h \in Cams /\ cam[h] \in ObjectType /\ cam[h].lock = c
  BY <1>1, CallFacts DEF Inv, Types, Holding, Holds
<1>3. CASE found = {}
  <2>1. cam' = [cam EXCEPT ![h].lock = NoOne] /\ Return(c)
    BY <1>3 DEF FindChannel
  <2>2. QED BY <1>1, <2>1, NothingDone
<1>4. CASE found # {} /\ thread[c].op = "qbuf"
  <2>1. First(found) \in found BY <1>4, FirstOf DEF SlotsOf
  <2>2. /\ cam' = [cam EXCEPT ![h].lock = NoOne]
        /\ thread' = [thread EXCEPT ![c].pc = "qbuf", ![c].slot = First(found)]
    BY <1>4 DEF FindChannel
  <2> HIDE DEF found
  <2>3. thread' = [thread EXCEPT ![c] = [@ EXCEPT !.pc = "qbuf", !.slot = First(found)]]
    BY <2>2 DEF Inv, Types
  <2>4. Put(h, [cam[h] EXCEPT !.lock = IF "qbuf" = "slot" THEN c ELSE NoOne])
    BY <1>2, <2>2 DEF Put, Inv, Types
  <2>5. QED BY <1>1, <2>1, <2>3, <2>4, FoundInv DEF found
<1>5. CASE found # {} /\ thread[c].op # "qbuf"
  <2>1. First(found) \in found BY <1>5, FirstOf DEF SlotsOf
  <2>2. /\ cam' = cam
        /\ thread' = [thread EXCEPT ![c].pc = "slot", ![c].slot = First(found)]
    BY <1>5 DEF FindChannel
  <2> HIDE DEF found
  <2>3. thread' = [thread EXCEPT ![c] = [@ EXCEPT !.pc = "slot", !.slot = First(found)]]
    BY <2>2 DEF Inv, Types
  <2>4. Put(h, [cam[h] EXCEPT !.lock = IF "slot" = "slot" THEN c ELSE NoOne])
    <3>1. cam[h] = [cam[h] EXCEPT !.lock = c] BY <1>2 DEF ObjectType
    <3>2. cam' = [cam EXCEPT ![h] = cam[h]] BY <1>2, <2>2 DEF Inv, Types
    <3>3. QED BY <3>1, <3>2 DEF Put
  <2>5. QED BY <1>1, <2>1, <2>3, <2>4, FoundInv DEF found
<1>6. QED BY <1>3, <1>4, <1>5

LEMMA TakeChLockInv ==
  ASSUME Inv, NEW c \in Clients, TakeChLock(c)
  PROVE  Inv'
<1> DEFINE h == thread[c].cam
           i == thread[c].slot
           s == [cam[h].slot[i] EXCEPT !.lock = c]
           t == [thread[c] EXCEPT !.pc = "chan"]
           w == WithSlot(cam[h], i, s)
           o == [w EXCEPT !.lock = NoOne]
<1>1. thread[c].pc = "slot" /\ h = thread[c].cam /\ i = thread[c].slot
  BY DEF TakeChLock, At
<1>2. thread[c] \in ThreadType /\ Formed(thread[c]) BY CallFacts
<1>3. h \in Cams /\ h # NoHandle /\ cam[h].state # "none" /\ cam[h] \in ObjectType
  BY <1>1, CallFacts DEF Inv, Types
<1>4. i \in Slots /\ thread[c].op \in ChanOps BY <1>1, <1>2 DEF Formed
<1>5. cam[h].slot[i] \in SlotType BY <1>3, <1>4 DEF ObjectType
<1>6. s \in SlotType /\ s.hdl = cam[h].slot[i].hdl /\ s.used = cam[h].slot[i].used
  BY <1>5 DEF SlotType, Nobody
<1>7. SlotPut(cam[h], i, s, w) BY <1>3, <1>4, <1>6, SlotFacts
<1>8. t \in ThreadType /\ t.pc = "chan" /\ t.op = thread[c].op /\ t.cam = h
      /\ t.chan = thread[c].chan /\ t.slot = i
  BY <1>2, GoingOn DEF Pcs, UsesObject
<1>9. Turn(c, t) /\ Put(h, o)
  <2>1. Turn(c, t) BY DEF TakeChLock, Goto, Turn
  <2>2. Put(h, o)
    BY <1>3, <1>4, <1>5 DEF WithSlot, TakeChLock, Put, Inv, Types, ObjectType
  <2>3. QED BY <2>1, <2>2
<1>10. Scalars' BY DEF TakeChLock, Inv, Types, Scalars, Nobody
<1>11. given' = given /\ table' = table /\ intfLock' = intfLock BY DEF TakeChLock
<1>12. cam[h].lock = c BY <1>1 DEF Inv, Holding, Holds
<1>13. cam[h].slot[i].used /\ cam[h].slot[i].hdl = thread[c].chan
  BY <1>1, <1>4 DEF Inv, Channels, Uses
<1> HIDE DEF s, w
<1>14. o \in ObjectType /\ o.slot = w.slot /\ o.state = w.state /\ o.ref = w.ref
       /\ o.msgLock = w.msgLock /\ o.cbLock = w.cbLock /\ o.sock = w.sock
       /\ o.events = w.events /\ o.poll = w.poll /\ o.rcvd = w.rcvd /\ o.evq = w.evq
       /\ o.evt = w.evt
  BY <1>7 DEF SlotPut, ObjectType, Nobody
<1> HIDE DEF h, i, t, o
<1>15. Light(h, o)
  BY <1>4, <1>6, <1>7, <1>14 DEF Light, SlotPut
<1>16. Moved(c, t, h, o) BY <1>3, <1>8, <1>9, <1>14 DEF Moved
<1>17. Formed(t) BY <1>1, <1>2, <1>3, <1>4, <1>8 DEF Formed
<1>18. Outside(c, t, h)
  BY <1>1, <1>4, <1>8, <1>13 DEF Outside, Owing, Asks, Closes, Uses, Holds, ChanOps
<1>19. FindStep(c, t) BY <1>8, <1>11 DEF FindStep
<1>20. HoldStep(c, t, h, o) BY <1>8, <1>12 DEF HoldStep, Holds
<1>21. AloneStep(c, t) BY <1>8, AloneSame DEF TakeChLock
<1>22. OfChannel(t) => OfChannel(thread[c]) /\ t.cam = thread[c].cam
  BY <1>1, <1>8 DEF OfChannel
<1>23. QED BY <1>3, <1>8, <1>10, <1>11, <1>15, <1>16, <1>17, <1>18, <1>19, <1>20, <1>21, <1>22,
              LightKept

\* A call begins; a close is another matter, as it changes the counts.
LEMMA BeginInv ==
  ASSUME Inv, NEW c \in Clients, NEW op \in Ops \ {"none", "close"}, NEW h, NEW ch,
         ch \in 0..MaxChannels, Begin(c, op, h, ch), given' = given,
         \/ op = "open" /\ h = NoHandle /\ ch = NoHandle
         \/ op # "open" /\ h \in Known /\ MayCall(op, h, ch)
  PROVE  Inv'
<1> DEFINE t == [pc |-> "enter", op |-> op, cam |-> h, chan |-> ch, slot |-> 0]
           o == cam[1]
<1>1. thread[c].pc = "idle" /\ thread[c] = Idle
  BY CallFacts DEF Begin, At, Formed
<1>2. h \in 0..MaxOpens /\ (h # NoHandle => h \in Cams /\ cam[h].state # "none")
  BY CameraAssumption DEF Known, Cams, NoHandle
<1>3. t \in ThreadType
  BY <1>2, CameraAssumption DEF ThreadType, Pcs, Ops
<1>4. t.pc = "enter" /\ t.op = op /\ t.cam = h /\ t.chan = ch OBVIOUS
<1>5. Turn(c, t) BY DEF Begin, Turn
<1>6. 1 \in Cams /\ o \in ObjectType /\ Light(1, o) /\ Put(1, o)
  BY Some DEF Begin
<1>7. Scalars' BY DEF Begin, Inv, Types, Scalars, Nobody
<1>8. table' = table /\ intfLock' = intfLock /\ channels' = channels BY DEF Begin
<1> HIDE DEF t
<1>9. op \in ChanOps => ch # NoHandle BY DEF MayCall, ChanOps
<1>10. h # NoHandle \/ op = "open" BY SMT DEF Known, Cams, NoHandle
<1>11. Moved(c, t, 1, o) BY <1>3, <1>5, <1>6 DEF Moved
<1>12. Formed(t) BY <1>2, <1>4, <1>9, <1>10 DEF Formed, Ops
<1>13. Outside(c, t, 1) BY <1>1, <1>4 DEF Outside, Owing, Asks, Closes, Uses, Holds
<1>14. FindStep(c, t) BY <1>4, <1>8 DEF FindStep
<1>15. HoldStep(c, t, 1, o) BY <1>4 DEF HoldStep, Holds
<1>16. AloneStep(c, t)
  <2>1. CASE op \in {"query", "register", "map", "open"}
    <3>1. ch = NoHandle BY <2>1 DEF MayCall
    <3>2. QED BY <1>4, <1>8, <2>1, <3>1 DEF AloneStep, Changes
  <2>2. CASE op = "add"
    BY <1>1, <1>4, <1>8, <2>2 DEF AloneStep, Changes, MayCall
  <2>3. CASE op = "delete"
    BY <1>1, <1>4, <1>8, <2>3 DEF AloneStep, Changes, MayCall
  <2>4. CASE op \in {"channel", "smap", "qbuf"}
    BY <1>1, <1>4, <1>8, <2>4 DEF AloneStep, Changes, MayCall
  <2>5. QED BY <2>1, <2>2, <2>3, <2>4 DEF Ops, CamOps, ChanOps
<1>17. OfChannel(t) => given[t.cam] > 0
  BY <1>4 DEF OfChannel, MayCall, ChanOps
<1>18. QED BY <1>2, <1>4, <1>6, <1>7, <1>8, <1>11, <1>12, <1>13, <1>14, <1>15, <1>16, <1>17,
              LightKept

LEMMA AddChannelInv ==
  ASSUME Inv, NEW c \in Clients, AddChannel(c)
  PROVE  Inv'
<1> DEFINE h == thread[c].cam
           i == First(FreeSlots(h))
           s == [hdl |-> channels + 1, used |-> TRUE, lock |-> NoOne]
           q == [cam[h] EXCEPT !.lock = NoOne]
           o == WithSlot(q, i, s)
           t == Idle
<1>1. /\ thread[c].pc = "cam" /\ thread[c].op = "add" /\ h = thread[c].cam
      /\ UNCHANGED <<intfLock, table, made, given, alive>>
  BY DEF AddChannel, At
<1>2. h \in Cams /\ cam[h] \in ObjectType BY <1>1, CallFacts DEF Inv, Types
<1>3. CASE FreeSlots(h) = {}
  <2>1. cam' = [cam EXCEPT ![h].lock = NoOne] /\ channels' = channels /\ Return(c)
    BY <1>3 DEF AddChannel
  <2>2. QED BY <1>1, <2>1, NothingDone
<1>4. CASE FreeSlots(h) # {}
  <2>1. i \in Slots /\ ~cam[h].slot[i].used
    <3>1. i \in FreeSlots(h) BY <1>4, FirstOf DEF FreeSlots
    <3>2. QED BY <3>1 DEF FreeSlots
  <2>2. channels < MaxChannels /\ channels \in Nat /\ MaxChannels \in Nat
    BY <1>1, CameraAssumption DEF Inv, Alone, Types
  <2>3. /\ channels' = channels + 1 /\ Return(c)
        /\ cam' = [cam EXCEPT ![h].lock = NoOne, ![h].slot[i] = s]
    BY <1>4 DEF AddChannel
  <2>4. channels' \in 0..MaxChannels /\ channels + 1 # NoHandle
    BY <2>2, <2>3, SMT DEF NoHandle
  <2>5. s \in SlotType /\ s.hdl = channels + 1 /\ s.used
    BY <2>3, <2>4 DEF SlotType, Nobody
  <2>6. /\ q \in ObjectType /\ q.slot = cam[h].slot /\ q.state = cam[h].state
        /\ q.ref = cam[h].ref /\ q.lock = NoOne
        /\ q.msgLock = cam[h].msgLock /\ q.cbLock = cam[h].cbLock /\ q.sock = cam[h].sock
        /\ q.events = cam[h].events /\ q.poll = cam[h].poll /\ q.rcvd = cam[h].rcvd
        /\ q.evq = cam[h].evq /\ q.evt = cam[h].evt
    BY <1>2 DEF ObjectType, Nobody
  <2>7. Put(h, o)
    <3>1. cam' = [cam EXCEPT ![h] = [q EXCEPT !.slot = [@ EXCEPT ![i] = s]]]
      <4> HIDE DEF s, i
      <4>1. QED BY <1>2, <2>3 DEF Inv, Types, ObjectType
    <3>2. QED BY <3>1 DEF WithSlot, Put
  <2> HIDE DEF s, q
  <2>8. SlotPut(q, i, s, o) BY <2>1, <2>5, <2>6, SlotFacts
  <2>9. t \in ThreadType /\ Formed(t) /\ t.pc = "idle" /\ t.op = "none" /\ t.cam = NoHandle
        /\ t.chan = NoHandle
    BY Returning
  <2>10. Turn(c, t) BY <2>3 DEF Return, Turn
  <2>11. Scalars' BY <1>1, <2>4 DEF Inv, Types, Scalars, Nobody
  <2> HIDE DEF h, i, o, t
  <2>12. Moved(c, t, h, o) BY <1>2, <2>7, <2>8, <2>9, <2>10 DEF Moved, SlotPut
  <2>13. cam[h].lock = c /\ InUse(cam[h]) BY <1>1 DEF Inv, Holding, Holds
  <2>14. given[h] > 0
    <3>1. given[h] \in Nat BY <1>2 DEF Inv, Types
    <3>2. given[h] # 0 BY <1>1, <1>2 DEF Inv, Guarded, OfChannel
    <3>3. QED BY <3>1, <3>2
  <2>15. ShapeStep(c, t, h, o) BY <2>6, <2>8, <2>9 DEF ShapeStep, SlotPut
  <2>16. FindStep(c, t) BY <1>1, <2>9 DEF FindStep
  <2>17. HoldStep(c, t, h, o) BY <2>9, <2>13 DEF HoldStep, Holds
  <2>18. CloseStep(c, t, h, o) BY <2>6, <2>8, <2>9 DEF CloseStep, Closes, SlotPut
  <2>19. EndStep(c, t, h, o)
    <3>1. Ends(cam[h]) BY <1>2 DEF Inv, Ending
    <3>2. Ends(o) BY <2>6, <2>8, <3>1 DEF Ends, Ended, SlotPut
    <3>3. QED BY <2>6, <2>8, <2>9, <3>2 DEF EndStep, Ended, Holds, SlotPut
  <2>20. MessageStep(c, t, h, o)
    <3>1. cam[h].msgLock # c BY <1>1, <1>2, CameraAssumption DEF Inv, Messages, Asks
    <3>2. QED BY <1>1, <2>6, <2>8, <2>9, <3>1 DEF MessageStep, Asks, SlotPut
  <2>21. AloneStep(c, t) BY <1>1, <2>9 DEF AloneStep, Changes
  <2>22. ChannelStep(c, t, h, o)
    <3>1. ASSUME NEW j \in Slots
          PROVE  \/ /\ o.slot[j].hdl = cam[h].slot[j].hdl
                    /\ o.slot[j].used = cam[h].slot[j].used
                 \/ ~cam[h].slot[j].used /\ j = i
      BY <2>1, <2>6, <2>8 DEF SlotPut
    <3>2. Changes(thread[c]) BY <1>1 DEF Changes
    <3>3. o.slot[i].used BY <2>1, <2>5, <2>8 DEF SlotPut
    <3>4. QED BY <1>1, <2>9, <3>1, <3>2, <3>3 DEF ChannelStep, Uses, Wipes
  <2>23. GuardStep(c, t, h, o) BY <1>1, <2>9, <2>14 DEF GuardStep, OfChannel, ChanOps
  <2>24. Uncounted(c, t, h, o)
    BY <1>1, <2>6, <2>8, <2>9 DEF Uncounted, Owing, SlotPut
  <2>25. Unasked(c, t, h, o) BY <1>1, <2>6, <2>8, <2>9 DEF Unasked, SlotPut
  <2>26. Kept(c, t, h, o)
    BY <2>12, <2>15, <2>16, <2>17, <2>18, <2>19, <2>20, <2>21, <2>22 DEF Kept
  <2>27. QED BY <2>11, <2>23, <2>24, <2>25, <2>26, PlainKept
<1>5. QED BY <1>3, <1>4

\* The two steps in which a channel is deleted.
LEMMA DeletingInv ==
  ASSUME Inv, NEW c, NEW t, NEW h, NEW o, Moved(c, t, h, o), NEW i \in Slots, NEW s,
         SlotPut(cam[h], i, s, o), ~s.used, thread[c].cam = h, h # NoHandle,
         thread[c].op = "delete", thread[c].pc \in {"chan", "wipe"}, Formed(t),
         \/ t.pc = "idle" /\ t.cam = NoHandle /\ t.op = "none" /\ t.chan = NoHandle
         \/ t.pc = "wipe" /\ t.cam = h /\ t.op = "delete" /\ t.chan = thread[c].chan,
         ChannelStep(c, t, h, o),
         UNCHANGED <<intfLock, table, made, given, channels, alive>>
  PROVE  Inv'
<1>1. h \in Cams /\ c \in Clients /\ cam[h].state # "none"
  <2>1. h \in Cams /\ c \in Clients BY DEF Moved
  <2>2. QED BY <2>1, CallFacts
<1>2. Scalars' BY DEF Inv, Types, Scalars, Nobody
<1>3. t.pc \in {"idle", "wipe"} OBVIOUS
<1>4. ShapeStep(c, t, h, o) BY <1>1 DEF ShapeStep, SlotPut
<1>5. FindStep(c, t) BY <1>3 DEF FindStep
<1>6. HoldStep(c, t, h, o) BY <1>3 DEF HoldStep, Holds, InUse, SlotPut
<1>7. CloseStep(c, t, h, o)
  <2>1. t.op # "close" OBVIOUS
  <2>2. QED BY <2>1 DEF CloseStep, Closes, SlotPut
<1>8. EndStep(c, t, h, o)
  <2>1. Ends(cam[h]) BY <1>1 DEF Inv, Ending
  <2>2. Ends(o) BY <2>1 DEF Ends, Ended, SlotPut
  <2>3. QED BY <1>3, <2>2 DEF EndStep, Ended, Holds, SlotPut
<1>9. MessageStep(c, t, h, o)
  <2>1. cam[h].msgLock # c BY <1>1, CameraAssumption DEF Inv, Messages, Asks
  <2>2. QED BY <1>3, <2>1 DEF MessageStep, Asks, SlotPut
<1>10. AloneStep(c, t) BY <1>1, AloneSame
<1>11. GuardStep(c, t, h, o)
  <2>1. \A j \in Slots : o.slot[j].used => cam[h].slot[j].used BY DEF SlotPut
  <2>2. QED BY <2>1 DEF GuardStep, OfChannel, ChanOps
<1>12. Uncounted(c, t, h, o) BY <1>3 DEF Uncounted, Owing, SlotPut
<1>13. Unasked(c, t, h, o) BY <1>3 DEF Unasked, SlotPut
<1>14. Kept(c, t, h, o)
  BY <1>4, <1>5, <1>6, <1>7, <1>8, <1>9, <1>10 DEF Kept
<1>15. QED BY <1>2, <1>11, <1>12, <1>13, <1>14, PlainKept

LEMMA DeleteEventInv ==
  ASSUME Inv, NEW c \in Clients, DeleteEvent(c)
  PROVE  Inv'
<1> DEFINE h == thread[c].cam
           i == thread[c].slot
           s == [cam[h].slot[i] EXCEPT !.used = FALSE, !.lock = NoOne]
           t == [thread[c] EXCEPT !.pc = "wipe"]
           o == WithSlot(cam[h], i, s)
<1>1. /\ thread[c].pc = "chan" /\ thread[c].op = "delete" /\ h = thread[c].cam
      /\ i = thread[c].slot /\ UNCHANGED <<intfLock, table, made, given, channels, alive>>
  BY DEF DeleteEvent, At
<1>2. thread[c] \in ThreadType /\ Formed(thread[c]) BY CallFacts
<1>3. h \in Cams /\ h # NoHandle /\ cam[h] \in ObjectType
  BY <1>1, CallFacts DEF Inv, Types
<1>4. i \in Slots BY <1>1, <1>2 DEF Formed
<1>5. cam[h].slot[i] \in SlotType BY <1>3, <1>4 DEF ObjectType
<1>6. s \in SlotType /\ s.hdl = cam[h].slot[i].hdl /\ ~s.used
  BY <1>5 DEF SlotType, Nobody
<1>7. SlotPut(cam[h], i, s, o) BY <1>3, <1>4, <1>6, SlotFacts
<1>8. t \in ThreadType /\ t.pc = "wipe" /\ t.op = thread[c].op /\ t.cam = h
      /\ t.chan = thread[c].chan /\ t.slot = i
  BY <1>2, GoingOn DEF Pcs, UsesObject
<1>9. Turn(c, t) /\ Put(h, o)
  <2>1. Turn(c, t) BY DEF DeleteEvent, Goto, Turn
  <2>2. Put(h, o)
    BY <1>3, <1>4, <1>5 DEF WithSlot, DeleteEvent, Put, Inv, Types, ObjectType
  <2>3. QED BY <2>1, <2>2
<1> HIDE DEF h, i, s, t, o
<1>10. Moved(c, t, h, o) BY <1>3, <1>7, <1>8, <1>9 DEF Moved, SlotPut
<1>11. Formed(t) BY <1>1, <1>2, <1>3, <1>4, <1>8 DEF Formed, ChanOps
<1>12. ChannelStep(c, t, h, o)
  <2>1. cam[h].slot[i].hdl = thread[c].chan /\ cam[h].slot[i].used
    BY <1>1 DEF Inv, Channels, Uses, ChanOps
  <2>2. /\ o.slot[i].hdl = thread[c].chan /\ ~o.slot[i].used
        /\ \A j \in Slots : j # i => o.slot[j] = cam[h].slot[j]
    BY <1>6, <1>7, <2>1 DEF SlotPut
  <2>3. QED BY <1>1, <1>4, <1>8, <2>1, <2>2 DEF ChannelStep, Uses, Wipes
<1>13. QED BY <1>1, <1>3, <1>4, <1>6, <1>7, <1>8, <1>10, <1>11, <1>12, DeletingInv

LEMMA WipeSlotInv ==
  ASSUME Inv, NEW c \in Clients, WipeSlot(c)
  PROVE  Inv'
<1> DEFINE h == thread[c].cam
           i == thread[c].slot
           s == Unused
           t == Idle
           o == WithSlot(cam[h], i, s)
<1>1. /\ thread[c].pc = "wipe" /\ h = thread[c].cam /\ i = thread[c].slot
      /\ UNCHANGED <<intfLock, table, made, given, channels, alive>>
  BY DEF WipeSlot, At
<1>2. thread[c].op = "delete" /\ i \in Slots BY <1>1, CallFacts DEF Formed
<1>3. h \in Cams /\ h # NoHandle /\ cam[h] \in ObjectType
  BY <1>1, CallFacts DEF Inv, Types
<1>4. s \in SlotType /\ s.hdl = NoHandle /\ ~s.used
  BY CameraAssumption DEF Unused, SlotType, Nobody, NoHandle
<1>5. SlotPut(cam[h], i, s, o) BY <1>2, <1>3, <1>4, SlotFacts
<1>6. t \in ThreadType /\ Formed(t) /\ t.pc = "idle" /\ t.op = "none" /\ t.cam = NoHandle
      /\ t.chan = NoHandle
  BY Returning
<1>7. Turn(c, t) /\ Put(h, o)
  <2>1. Turn(c, t) BY DEF WipeSlot, Return, Turn
  <2>2. Put(h, o)
    BY <1>2, <1>3 DEF WithSlot, WipeSlot, Put, Inv, Types, ObjectType
  <2>3. QED BY <2>1, <2>2
<1> HIDE DEF h, i, s, t, o
<1>8. Moved(c, t, h, o) BY <1>3, <1>5, <1>6, <1>7 DEF Moved, SlotPut
<1>9. ChannelStep(c, t, h, o)
  <2>1. ~cam[h].slot[i].used BY <1>1 DEF Inv, Channels
  <2>2. /\ o.slot[i].hdl = NoHandle /\ ~o.slot[i].used
        /\ \A j \in Slots : j # i => o.slot[j] = cam[h].slot[j]
    BY <1>4, <1>5 DEF SlotPut
  <2>3. QED BY <1>1, <1>2, <1>6, <2>1, <2>2 DEF ChannelStep, Uses, Wipes
<1>10. QED BY <1>1, <1>2, <1>3, <1>4, <1>5, <1>6, <1>8, <1>9, DeletingInv

\* The object but for its locks, what is in its socket and the status received.
Same(h, o) ==
  /\ o.state = cam[h].state /\ o.ref = cam[h].ref /\ o.cbLock = cam[h].cbLock
  /\ o.events = cam[h].events /\ o.poll = cam[h].poll /\ o.evq = cam[h].evq
  /\ o.evt = cam[h].evt
  /\ \A i \in Slots : /\ o.slot[i].hdl = cam[h].slot[i].hdl
                      /\ o.slot[i].used = cam[h].slot[i].used

LEMMA Asker ==
  ASSUME Inv, NEW c \in Clients, Asks(thread[c])
  PROVE  /\ thread[c].cam \in Cams /\ thread[c].cam # NoHandle
         /\ cam[thread[c].cam] \in ObjectType /\ thread[c].op \in {"map", "smap"}
         /\ cam[thread[c].cam].msgLock = c
         /\ thread[c].op = "map" => cam[thread[c].cam].lock = c
         /\ thread[c].op = "smap" => thread[c].slot \in Slots
<1>1. thread[c].cam \in Cams /\ thread[c].op \in {"map", "smap"}
  BY CallFacts DEF Asks, Formed
<1>2. thread[c].cam # NoHandle /\ cam[thread[c].cam] \in ObjectType
  BY <1>1, CallFacts DEF Inv, Types
<1>3. cam[thread[c].cam].msgLock = c BY DEF Inv, Messages
<1>4. thread[c].op = "map" => cam[thread[c].cam].lock = c
  BY DEF Asks, Inv, Holding, Holds
<1>5. thread[c].op = "smap" => thread[c].slot \in Slots BY CallFacts DEF Asks, Formed
<1>6. QED BY <1>1, <1>2, <1>3, <1>4, <1>5

\* A step of a call that sends a message and waits for the answer.
LEMMA AskingInv ==
  ASSUME Inv, NEW c, NEW t, NEW h, NEW o, Moved(c, t, h, o), Same(h, o),
         thread[c].cam = h, h # NoHandle, thread[c].op \in {"map", "smap"}, Formed(t),
         thread[c].pc \in {"cam", "chan", "send", "wait"},
         thread[c].pc = "cam" => thread[c].op = "map",
         cam[h].msgLock \in {NoOne, c}, o.lock = cam[h].lock \/ cam[h].lock = c,
         \/ /\ t.pc = "idle" /\ t.cam = NoHandle /\ t.op = "none" /\ t.chan = NoHandle
            /\ o.msgLock = NoOne
         \/ /\ t.pc \in {"send", "wait"} /\ t.cam = h /\ t.op = thread[c].op
            /\ t.chan = thread[c].chan /\ t.slot = thread[c].slot
            /\ o.msgLock = c /\ o.lock = cam[h].lock,
         Answers', UNCHANGED <<intfLock, table, made, given, channels, alive>>
  PROVE  Inv'
<1>1. h \in Cams /\ c \in Clients /\ cam[h].state # "none"
  <2>1. h \in Cams /\ c \in Clients BY DEF Moved
  <2>2. QED BY <2>1, CallFacts
<1>2. Scalars' BY DEF Inv, Types, Scalars, Nobody
<1>3. t.pc \in {"idle", "send", "wait"} OBVIOUS
<1>4. ShapeStep(c, t, h, o) BY <1>1 DEF ShapeStep, Same
<1>5. FindStep(c, t) BY <1>3 DEF FindStep
<1>6. HoldStep(c, t, h, o)
  <2>1. ASSUME Holds(t) PROVE t.cam = h /\ o.lock = c /\ InUse(o)
    <3>1. t.op = "map" /\ thread[c].op = "map" /\ t.cam = h /\ o.lock = cam[h].lock
      BY <1>3, <2>1 DEF Holds
    <3>2. Holds(thread[c])
      BY <3>1, <1>1, CallFacts DEF Holds, Formed, ChanOps
    <3>3. QED BY <1>1, <3>1, <3>2 DEF Inv, Holding, InUse, Same
  <2>2. QED BY <2>1 DEF HoldStep, InUse, Same
<1>7. CloseStep(c, t, h, o)
  <2>1. t.op # "close" OBVIOUS
  <2>2. QED BY <2>1 DEF CloseStep, Closes, Same
<1>8. EndStep(c, t, h, o)
  <2>1. Ends(cam[h]) BY <1>1 DEF Inv, Ending
  <2>2. Ends(o) BY <2>1 DEF Ends, Ended, Same
  <2>3. ASSUME Holds(t) PROVE t.cam = h /\ cam[h].poll # "gone"
    <3>1. t.op = "map" /\ thread[c].op = "map" /\ t.cam = h
      BY <1>3, <2>3 DEF Holds
    <3>2. Holds(thread[c])
      BY <3>1, <1>1, CallFacts DEF Holds, Formed, ChanOps
    <3>3. QED BY <1>1, <3>1, <3>2 DEF Inv, Ending
  <2>4. QED BY <1>3, <2>2, <2>3 DEF EndStep, Ended, Same
<1>9. MessageStep(c, t, h, o)
  BY <1>1, CameraAssumption DEF MessageStep, Asks
<1>10. AloneStep(c, t) BY <1>1, AloneSame
<1>11. ChannelStep(c, t, h, o)
  <2>1. ASSUME Uses(t) PROVE /\ t.cam = h /\ o.slot[t.slot].hdl = t.chan
                             /\ o.slot[t.slot].used
    <3>1. t.op = "smap" /\ thread[c].op = "smap" /\ t.cam = h /\ t.slot = thread[c].slot
          /\ t.chan = thread[c].chan /\ t.slot \in Slots
      BY <1>3, <2>1 DEF Uses, Formed
    <3>2. Uses(thread[c])
      BY <1>1, <3>1, CallFacts DEF Uses, ChanOps, Formed, Holds
    <3>3. QED BY <1>1, <3>1, <3>2 DEF Inv, Channels, Same
  <2>2. QED BY <1>3, <2>1 DEF ChannelStep, Wipes, Same
<1>12. GuardStep(c, t, h, o) BY DEF GuardStep, OfChannel, ChanOps, Same
<1>13. Uncounted(c, t, h, o) BY <1>3 DEF Uncounted, Owing, Same
<1>14. Kept(c, t, h, o)
  BY <1>4, <1>5, <1>6, <1>7, <1>8, <1>9, <1>10, <1>11 DEF Kept
<1>15. Handles' BY HandlesKept DEF Inv, Same
<1>16. Counted' BY <1>13, CountKept DEF Inv
<1>17. Guarded' BY <1>2, <1>12, GuardKept DEF Inv, Scalars
<1>18. QED BY <1>2, <1>14, <1>15, <1>16, <1>17, StepKept

LEMMA TakeMsgLockInv ==
  ASSUME Inv, NEW c \in Clients, TakeMsgLock(c)
  PROVE  Inv'
<1> DEFINE h == thread[c].cam
           t == [thread[c] EXCEPT !.pc = "send"]
           o == [cam[h] EXCEPT !.msgLock = c]
<1>1. /\ \/ thread[c].pc = "cam" /\ thread[c].op = "map"
         \/ thread[c].pc = "chan" /\ thread[c].op = "smap"
      /\ h = thread[c].cam /\ cam[h].msgLock = NoOne
      /\ UNCHANGED <<intfLock, table, made, given, channels, alive>>
  BY DEF TakeMsgLock, At, MsgLocked
<1>2. thread[c] \in ThreadType /\ Formed(thread[c]) BY CallFacts
<1>3. h \in Cams /\ h # NoHandle /\ cam[h] \in ObjectType
  BY <1>1, CallFacts DEF Inv, Types
<1>4. o \in ObjectType /\ Same(h, o) /\ o.msgLock = c /\ o.lock = cam[h].lock
  BY <1>3 DEF ObjectType, Same, Nobody
<1>5. o.sock = cam[h].sock /\ o.rcvd = cam[h].rcvd BY <1>3 DEF ObjectType
<1>6. t \in ThreadType /\ t.pc = "send" /\ t.op = thread[c].op /\ t.cam = h
      /\ t.chan = thread[c].chan /\ t.slot = thread[c].slot
  BY <1>2, GoingOn DEF Pcs, UsesObject
<1>7. Turn(c, t) /\ Put(h, o)
  <2>1. Turn(c, t) BY DEF TakeMsgLock, Goto, Turn
  <2>2. Put(h, o) BY <1>3 DEF TakeMsgLock, Put, Inv, Types
  <2>3. QED BY <2>1, <2>2
<1> HIDE DEF h, t, o
<1>8. Moved(c, t, h, o) BY <1>3, <1>4, <1>6, <1>7 DEF Moved
<1>9. Formed(t) BY <1>1, <1>2, <1>3, <1>6 DEF Formed, ChanOps
<1>10. Unasked(c, t, h, o) BY <1>1, <1>4, <1>5, <1>6 DEF Unasked, Same
<1>11. Answers' BY <1>8, <1>10, AnswerKept DEF Inv
<1>12. thread[c].op \in {"map", "smap"} /\ thread[c].pc \in {"cam", "chan", "send", "wait"}
       /\ (thread[c].pc = "cam" => thread[c].op = "map")
  BY <1>1
<1>13. QED BY <1>1, <1>3, <1>4, <1>6, <1>8, <1>9, <1>11, <1>12, AskingInv

\* Nobody waits for another answer with the msg_lock of c.
LEMMA OnlyWaiter ==
  ASSUME Inv, NEW c \in Clients, Asks(thread[c]), NEW d \in Clients,
         Waits(thread[d], thread[c].cam)
  PROVE  d = c
BY Asker DEF Waits, Asks

LEMMA SendInv ==
  ASSUME Inv, NEW c \in Clients, Send(c)
  PROVE  Inv'
<1> DEFINE h == thread[c].cam
           t == [thread[c] EXCEPT !.pc = "wait"]
           o == [cam[h] EXCEPT !.sock = Append(@, c)]
<1>1. /\ thread[c].pc = "send" /\ h = thread[c].cam
      /\ UNCHANGED <<intfLock, table, made, given, channels, alive>>
  BY DEF Send, At
<1>2. thread[c] \in ThreadType /\ Formed(thread[c]) BY CallFacts
<1>3. /\ h \in Cams /\ h # NoHandle /\ cam[h] \in ObjectType /\ cam[h].msgLock = c
      /\ thread[c].op \in {"map", "smap"}
  BY <1>1, Asker DEF Asks
<1>4. cam[h].sock = <<>> /\ Quiet(cam[h])
  <2>1. ASSUME NEW d \in Clients, Waits(thread[d], h) PROVE FALSE
    BY <1>1, <2>1, OnlyWaiter DEF Asks, Waits
  <2>2. QED BY <1>3, <2>1 DEF Inv, Answers, Quiet
<1>5. o.sock = <<c>> /\ o.rcvd = cam[h].rcvd /\ o.msgLock = c /\ o.lock = cam[h].lock
  BY <1>3, <1>4 DEF ObjectType
<1>6. o \in ObjectType
  <2>1. Append(cam[h].sock, c) \in Seq(Clients) BY <1>3 DEF ObjectType
  <2>2. QED BY <1>3, <2>1 DEF ObjectType
<1>7. Same(h, o) BY <1>3 DEF ObjectType, Same
<1>8. t \in ThreadType /\ t.pc = "wait" /\ t.op = thread[c].op /\ t.cam = h
      /\ t.chan = thread[c].chan /\ t.slot = thread[c].slot
  BY <1>2, GoingOn DEF Pcs, UsesObject
<1>9. Turn(c, t) /\ Put(h, o)
  <2>1. Turn(c, t) BY DEF Send, Goto, Turn
  <2>2. Put(h, o) BY <1>3 DEF Send, Put, Inv, Types
  <2>3. QED BY <2>1, <2>2
<1> HIDE DEF h, t, o
<1>10. Moved(c, t, h, o) BY <1>3, <1>6, <1>8, <1>9 DEF Moved
<1>11. Formed(t) BY <1>1, <1>2, <1>3, <1>8 DEF Formed, ChanOps
<1>12. Owed(o, c) BY <1>4, <1>5, <1>7 DEF Owed, Quiet, Same
<1>13. Answers'
  <2>1. ASSUME NEW g \in Cams, \A d \in Clients : ~Waits(thread'[d], g) PROVE Quiet(cam'[g])
    <3>1. g # h BY <1>8, <1>10, <2>1, After DEF Waits, Inv
    <3>2. \A d \in Clients : ~Waits(thread[d], g)
      BY <1>1, <1>10, <2>1, After DEF Waits, Inv
    <3>3. QED BY <1>10, <3>1, <3>2, After DEF Inv, Answers
  <2>2. ASSUME NEW g \in Cams, NEW d \in Clients, Waits(thread'[d], g) PROVE Owed(cam'[g], d)
    <3>1. CASE d = c
      <4>1. g = h BY <1>8, <1>10, <2>2, <3>1, After DEF Waits, Inv
      <4>2. QED BY <1>10, <1>12, <3>1, <4>1, After DEF Inv
    <3>2. CASE d # c
      <4>1. Waits(thread[d], g) BY <1>10, <2>2, <3>2, After DEF Inv
      <4>2. g # h BY <1>1, <3>2, <4>1, OnlyWaiter DEF Asks
      <4>3. QED BY <1>10, <4>1, <4>2, After DEF Inv, Answers
    <3>3. QED BY <3>1, <3>2
  <2>3. QED BY <2>1, <2>2 DEF Answers, Waits, Quiet, Owed, NoneIn, OneIn
<1>14. QED BY <1>1, <1>3, <1>5, <1>7, <1>8, <1>10, <1>11, <1>13, AskingInv

\* What Unlocked gives back.
Freed(q, o, c) ==
  /\ o \in ObjectType /\ o.msgLock = NoOne
  /\ o.lock = q.lock \/ thread[c].op = "map"
  /\ o.state = q.state /\ o.ref = q.ref /\ o.cbLock = q.cbLock /\ o.sock = q.sock
  /\ o.events = q.events /\ o.poll = q.poll /\ o.rcvd = q.rcvd /\ o.evq = q.evq
  /\ o.evt = q.evt
  /\ \A i \in Slots : o.slot[i].hdl = q.slot[i].hdl /\ o.slot[i].used = q.slot[i].used

LEMMA UnlockedFacts ==
  ASSUME Inv, NEW c \in Clients, Asks(thread[c]), NEW q \in ObjectType
  PROVE  Freed(q, Unlocked(q, c), c)
<1>1. CASE thread[c].op = "map"
  <2> DEFINE o == [q EXCEPT !.msgLock = NoOne, !.lock = NoOne]
  <2>1. o \in ObjectType BY DEF ObjectType, Nobody
  <2>2. Freed(q, o, c) BY <1>1, <2>1 DEF Freed, ObjectType
  <2>3. Unlocked(q, c) = o BY <1>1 DEF Unlocked
  <2> HIDE DEF o
  <2>4. QED BY <2>2, <2>3
<1>2. CASE thread[c].op # "map"
  <2> DEFINE i == thread[c].slot
             s == [q.slot[i] EXCEPT !.lock = NoOne]
             w == WithSlot(q, i, s)
             o == [w EXCEPT !.msgLock = NoOne]
  <2>1. i \in Slots BY <1>2, Asker
  <2>2. q.slot[i] \in SlotType BY <2>1 DEF ObjectType
  <2>3. s \in SlotType /\ s.hdl = q.slot[i].hdl /\ s.used = q.slot[i].used
    BY <2>2 DEF SlotType, Nobody
  <2>4. Unlocked(q, c) = o
    BY <1>2, <2>1, <2>2 DEF Unlocked, WithSlot, ObjectType
  <2> HIDE DEF s
  <2>5. SlotPut(q, i, s, w) BY <2>1, <2>3, SlotFacts
  <2> HIDE DEF w, i
  <2>6. /\ o \in ObjectType /\ o.msgLock = NoOne /\ o.lock = w.lock /\ o.slot = w.slot
        /\ o.state = w.state /\ o.ref = w.ref /\ o.cbLock = w.cbLock /\ o.sock = w.sock
        /\ o.events = w.events /\ o.poll = w.poll /\ o.rcvd = w.rcvd /\ o.evq = w.evq
        /\ o.evt = w.evt
    BY <2>5 DEF SlotPut, ObjectType, Nobody
  <2> HIDE DEF o
  <2>7. Freed(q, o, c) BY <2>1, <2>3, <2>5, <2>6 DEF SlotPut, Freed
  <2>8. QED BY <2>4, <2>7
<1>3. QED BY <1>1, <1>2

\* A call that gives msg_lock back and returns.
LEMMA DoneInv ==
  ASSUME Inv, NEW c \in Clients, Asks(thread[c]), NEW o,
         Freed(cam[thread[c].cam], o, c) \/ Freed(Reset(cam[thread[c].cam]), o, c),
         Put(thread[c].cam, o), Return(c), Answers',
         UNCHANGED <<intfLock, table, made, given, channels, alive>>
  PROVE  Inv'
<1> DEFINE h == thread[c].cam
           t == Idle
<1>1. /\ h \in Cams /\ h # NoHandle /\ cam[h] \in ObjectType /\ cam[h].msgLock = c
      /\ thread[c].op \in {"map", "smap"} /\ (thread[c].op = "map" => cam[h].lock = c)
      /\ h = thread[c].cam
  BY Asker
<1>2. t \in ThreadType /\ Formed(t) /\ t.pc = "idle" /\ t.op = "none" /\ t.cam = NoHandle
      /\ t.chan = NoHandle
  BY Returning
<1>3. Turn(c, t) /\ Put(h, o) BY DEF Turn, Return
<1>4. thread[c].pc \in {"cam", "chan", "send", "wait"} /\ thread[c].pc # "cam"
  BY DEF Asks
<1>5. o \in ObjectType /\ o.msgLock = NoOne BY DEF Freed
<1> HIDE DEF h, t
<1>6. Same(h, o) /\ (o.lock = cam[h].lock \/ cam[h].lock = c)
  <2>1. CASE Freed(cam[h], o, c) BY <1>1, <2>1 DEF Freed, Same
  <2>2. CASE Freed(Reset(cam[h]), o, c)
    <3> DEFINE q == Reset(cam[h])
    <3>1. /\ q.slot = cam[h].slot /\ q.state = cam[h].state
          /\ q.ref = cam[h].ref /\ q.lock = cam[h].lock /\ q.cbLock = cam[h].cbLock
          /\ q.events = cam[h].events /\ q.poll = cam[h].poll
          /\ q.evq = cam[h].evq /\ q.evt = cam[h].evt
      BY <1>1 DEF Reset, ObjectType
    <3> HIDE DEF q
    <3>2. Freed(q, o, c) BY <2>2 DEF q
    <3>3. QED BY <1>1, <3>1, <3>2 DEF Freed, Same
  <2>3. QED BY <2>1, <2>2, <1>1
<1>7. Moved(c, t, h, o) BY <1>1, <1>2, <1>3, <1>5 DEF Moved
<1>8. QED BY <1>1, <1>2, <1>4, <1>5, <1>6, <1>7, AskingInv

LEMMA SendFailsInv ==
  ASSUME Inv, NEW c \in Clients, SendFails(c)
  PROVE  Inv'
<1> DEFINE h == thread[c].cam
           o == Unlocked(cam[h], c)
<1>1. /\ thread[c].pc = "send" /\ Asks(thread[c]) /\ Return(c)
      /\ UNCHANGED <<intfLock, table, made, given, channels, alive>>
  BY DEF SendFails, At, Asks
<1>2. h \in Cams /\ cam[h] \in ObjectType BY <1>1, Asker
<1>3. Freed(cam[h], o, c) BY <1>1, <1>2, UnlockedFacts
<1>4. Put(h, o) BY <1>2 DEF SendFails, Put, Inv, Types
<1>5. Answers'
  <2>1. Turn(c, Idle) /\ Idle \in ThreadType /\ Idle.pc = "idle"
    BY <1>1, Returning DEF Turn, Return
  <2> HIDE DEF o
  <2>2. Moved(c, Idle, h, o) BY <1>2, <1>3, <1>4, <2>1 DEF Moved, Freed
  <2>3. Unasked(c, Idle, h, o) BY <1>1, <1>3, <2>1 DEF Unasked, Freed
  <2>4. QED BY <2>2, <2>3, AnswerKept DEF Inv
<1> HIDE DEF o
<1>6. QED BY <1>1, <1>3, <1>4, <1>5, DoneInv

LEMMA TakeStatusInv ==
  ASSUME Inv, NEW c \in Clients, TakeStatus(c)
  PROVE  Inv'
<1> DEFINE h == thread[c].cam
           q == Reset(cam[h])
           o == Unlocked(q, c)
<1>1. /\ thread[c].pc = "wait" /\ Asks(thread[c]) /\ Return(c) /\ cam[h].rcvd # NoOne
      /\ h = thread[c].cam
      /\ UNCHANGED <<intfLock, table, made, given, channels, alive>>
  BY DEF TakeStatus, At, Asks
<1>2. h \in Cams /\ h # NoHandle /\ cam[h] \in ObjectType BY <1>1, Asker
<1>3. q \in ObjectType /\ q.sock = cam[h].sock /\ q.events = cam[h].events
      /\ q.poll = cam[h].poll /\ q.rcvd = NoOne
  BY <1>2 DEF Reset, ObjectType, Nobody
<1>4. Freed(q, o, c) BY <1>1, <1>3, UnlockedFacts
<1>5. Put(h, o) BY <1>2 DEF TakeStatus, Put, Inv, Types
<1>6. Turn(c, Idle) /\ Idle \in ThreadType /\ Idle.pc = "idle" /\ Idle.cam = NoHandle
  BY <1>1, Returning DEF Turn, Return
<1>7. Freed(Reset(cam[h]), o, c) BY <1>4
<1> HIDE DEF h, q, o
<1>8. Moved(c, Idle, h, o) BY <1>2, <1>4, <1>5, <1>6 DEF Moved, Freed
<1>9. Quiet(o)
  <2>1. Owed(cam[h], c) BY <1>1, <1>2 DEF Inv, Answers, Waits
  <2>2. cam[h].sock = <<>> /\ NoneIn(cam[h].events) /\ cam[h].poll \notin Clients
    BY <1>1, <2>1 DEF Owed
  <2>3. QED BY <1>3, <1>4, <2>2 DEF Quiet, Freed
<1>10. Answers'
  <2>1. ASSUME NEW g \in Cams, \A d \in Clients : ~Waits(thread'[d], g) PROVE Quiet(cam'[g])
    <3>1. CASE g = h BY <1>8, <1>9, <3>1, After DEF Inv
    <3>2. CASE g # h
      <4>1. \A d \in Clients : ~Waits(thread[d], g)
        BY <1>1, <1>8, <2>1, <3>2, After DEF Waits, Inv
      <4>2. QED BY <1>8, <3>2, <4>1, After DEF Inv, Answers
    <3>3. QED BY <3>1, <3>2
  <2>2. ASSUME NEW g \in Cams, NEW d \in Clients, Waits(thread'[d], g) PROVE Owed(cam'[g], d)
    <3>1. d # c BY <1>6, <1>8, <2>2, After DEF Waits, Inv
    <3>2. Waits(thread[d], g) BY <1>8, <2>2, <3>1, After DEF Inv
    <3>3. g # h BY <1>1, <3>1, <3>2, OnlyWaiter
    <3>4. QED BY <1>8, <3>2, <3>3, After DEF Inv, Answers
  <2>3. QED BY <2>1, <2>2 DEF Answers, Waits, Quiet, Owed, NoneIn, OneIn
<1>11. QED BY <1>1, <1>5, <1>7, <1>10, DoneInv DEF h

\* An object that nobody waits at.
LEMMA QuietKept ==
  ASSUME Types, Answers, NEW c, NEW t, NEW h, NEW o, Moved(c, t, h, o),
         \A d \in Clients : ~Waits(thread[d], h), thread[c].pc # "wait", t.pc # "wait", Quiet(o)
  PROVE  Answers'
<1>1. ASSUME NEW d \in Clients, NEW g PROVE Waits(thread'[d], g) <=> Waits(thread[d], g)
  BY After DEF Moved, Waits
<1>2. ASSUME NEW g \in Cams, \A d \in Clients : ~Waits(thread'[d], g) PROVE Quiet(cam'[g])
  BY <1>1, <1>2, After DEF Answers
<1>3. ASSUME NEW g \in Cams, NEW d \in Clients, Waits(thread'[d], g) PROVE Owed(cam'[g], d)
  BY <1>1, <1>3, After DEF Answers
<1>4. QED BY <1>2, <1>3 DEF Answers, Waits, Quiet, Owed, NoneIn, OneIn

\* While the last close has cam_lock, and after, no message is under way: a call on a
\* channel would have a handle that is given out, and another would have cam_lock.
LEMMA NoAsker ==
  ASSUME Inv, NEW c \in Clients, Closes(thread[c]), thread[c].pc # "found",
         NEW d \in Clients, Asks(thread[d])
  PROVE  thread[d].cam # thread[c].cam
<1> SUFFICES ASSUME thread[d].cam = thread[c].cam PROVE FALSE
  OBVIOUS
<1> DEFINE h == thread[c].cam
<1>1. h \in Cams /\ cam[h].state \in {"closing", "destroyed"}
      /\ (thread[c].pc # "free" => cam[h].state = "closing")
      /\ (thread[c].pc = "free" => cam[h].state = "destroyed")
  BY Asker DEF Inv, Closing
<1>2. thread[d].op \in {"map", "smap"} BY Asker
<1>3. CASE thread[d].op = "smap"
  <2>1. given[h] # 0 BY <1>1, <1>3 DEF Inv, Guarded, OfChannel, ChanOps
  <2>2. given[h] \in Nat /\ Cardinality(Pending(h)) \in Nat /\ cam[h].ref \in Nat
    BY <1>1, Counts DEF Inv, Types, ObjectType
  <2>3. cam[h].ref = given[h] + Cardinality(Pending(h)) BY <1>1 DEF Inv, Counted
  <2>4. cam[h].ref > 0 BY <2>1, <2>2, <2>3
  <2>5. cam[h].state = "live" BY <1>1, <2>4 DEF Inv, Counted
  <2>6. QED BY <1>1, <2>5
<1>4. CASE thread[d].op = "map"
  <2>1. Holds(thread[d]) BY <1>4 DEF Asks, Holds
  <2>2. cam[h].lock = d /\ InUse(cam[h]) BY <2>1 DEF Inv, Holding
  <2>3. thread[c].pc # "free" BY <1>1, <2>2 DEF InUse
  <2>4. Holds(thread[c]) BY <2>3, CallFacts DEF Closes, Formed, Holds, Idle
  <2>5. cam[h].lock = c BY <2>4 DEF Inv, Holding
  <2>6. d = c BY <2>2, <2>5
  <2>7. QED BY <1>4, <2>6 DEF Closes
<1>5. QED BY <1>2, <1>3, <1>4

\* A step of the last close, once it has cam_lock.
LEMMA ClosingInv ==
  ASSUME Inv, NEW c, NEW t, NEW h, NEW o, Moved(c, t, h, o), h # NoHandle,
         thread[c].op = "close", thread[c].cam = h,
         thread[c].pc \in {"cam", "poll", "evt", "destroy", "free"}, Formed(t),
         \/ /\ t.pc = "idle" /\ t.cam = NoHandle /\ t.op = "none" /\ t.chan = NoHandle
            /\ o.state = "freed"
         \/ /\ t.pc \in {"poll", "evt", "destroy", "free"} /\ t.cam = h /\ t.op = "close"
            /\ t.chan = thread[c].chan
            /\ o.state = IF t.pc = "free" THEN "destroyed" ELSE "closing",
         t.pc \in {"poll", "evt", "destroy"} => o.lock = c,
         t.pc \in {"evt", "destroy"} => o.poll = "gone", t.pc = "destroy" => Ended(o), Ends(o),
         cam[h].poll = "gone" => o.poll = "gone", Ended(cam[h]) => Ended(o),
         o.ref = cam[h].ref, o.slot = cam[h].slot, o.msgLock = cam[h].msgLock,
         Quiet(cam[h]) => Quiet(o),
         UNCHANGED <<intfLock, table, made, given, channels, alive>>
  PROVE  Inv'
<1>1. h \in Cams /\ c \in Clients BY DEF Moved
<1>2. Closes(thread[c]) /\ ~Asks(thread[c]) BY DEF Closes, Asks
<1>3. cam[h].state = IF thread[c].pc = "free" THEN "destroyed" ELSE "closing"
  BY <1>1, <1>2 DEF Inv, Closing
<1>4. Scalars' BY DEF Inv, Types, Scalars, Nobody
<1>5. t.pc \in {"idle", "poll", "evt", "destroy", "free"} OBVIOUS
<1>6. ShapeStep(c, t, h, o) BY <1>3 DEF ShapeStep
<1>7. FindStep(c, t) BY <1>5 DEF FindStep
<1>8. HoldStep(c, t, h, o)
  <2>1. cam[h].lock = c \/ ~InUse(cam[h])
    <3>1. CASE thread[c].pc = "free" BY <1>3, <3>1 DEF InUse
    <3>2. CASE thread[c].pc # "free" BY <1>1, <3>2 DEF Inv, Holding, Holds
    <3>3. QED BY <3>1, <3>2
  <2>2. QED BY <1>5, <2>1 DEF HoldStep, Holds, InUse
<1>9. CloseStep(c, t, h, o) BY <1>2 DEF CloseStep, Closes
<1>10. EndStep(c, t, h, o)
  <2>1. CASE thread[c].pc = "free"
    <3>1. cam[h].poll = "gone" BY <1>1, <1>3, <2>1, AsIs DEF Ends
    <3>2. QED BY <1>5, <2>1, <3>1 DEF EndStep, Holds
  <2>2. CASE thread[c].pc # "free"
    <3>1. cam[h].lock = c BY <1>1, <2>2 DEF Inv, Holding, Holds
    <3>2. QED BY <1>5, <3>1 DEF EndStep, Holds
  <2>3. QED BY <2>1, <2>2
<1>11. MessageStep(c, t, h, o)
  <2>1. cam[h].msgLock # c BY <1>1, <1>2, CameraAssumption DEF Inv, Messages
  <2>2. QED BY <1>2, <1>5, <2>1 DEF MessageStep, Asks
<1>12. AloneStep(c, t) BY <1>1, AloneSame
<1>13. ChannelStep(c, t, h, o) BY <1>5 DEF ChannelStep, Uses, Wipes
<1>14. GuardStep(c, t, h, o) BY DEF GuardStep, OfChannel, ChanOps
<1>15. Uncounted(c, t, h, o) BY <1>3, <1>5 DEF Uncounted, Owing
<1>16. Kept(c, t, h, o)
  BY <1>6, <1>7, <1>8, <1>9, <1>10, <1>11, <1>12, <1>13 DEF Kept
<1>17. Handles' BY <1>3, HandlesKept DEF Inv
<1>18. Counted' BY <1>15, CountKept DEF Inv
<1>19. Guarded' BY <1>4, <1>14, GuardKept DEF Inv, Scalars
<1>20. Answers'
  <2>1. \A d \in Clients : ~Waits(thread[d], h)
    BY <1>1, <1>2, NoAsker DEF Waits, Asks
  <2>2. Quiet(cam[h]) BY <1>1, <2>1 DEF Inv, Answers
  <2>3. QED BY <1>5, <2>1, <2>2, QuietKept DEF Inv
<1>21. QED BY <1>4, <1>16, <1>17, <1>18, <1>19, <1>20, StepKept

\* What the invariant says of the last close.
LEMMA CloserFacts ==
  ASSUME Inv, NEW c \in Clients, Closes(thread[c])
  PROVE  /\ thread[c].cam \in Cams /\ thread[c].cam # NoHandle
         /\ cam[thread[c].cam] \in ObjectType /\ Ends(cam[thread[c].cam])
         /\ cam[thread[c].cam].state = IF thread[c].pc = "free" THEN "destroyed" ELSE "closing"
         /\ thread[c].pc \in {"found", "cam", "poll", "evt", "destroy", "free"}
<1>1. thread[c].pc \in {"found", "cam", "poll", "evt", "destroy", "free"}
  BY CallFacts DEF Closes, Formed, Idle
<1>2. thread[c].cam \in Cams BY <1>1, CallFacts
<1>3. QED BY <1>1, <1>2, CallFacts DEF Inv, Types, Ending, Closing

LEMMA UnsubscribeInv ==
  ASSUME Inv, NEW c \in Clients, Unsubscribe(c)
  PROVE  Inv'
<1> DEFINE h == thread[c].cam
           t == [thread[c] EXCEPT !.pc = "poll"]
<1>1. /\ thread[c].pc = "cam" /\ thread[c].op = "close" /\ h = thread[c].cam
      /\ Closes(thread[c]) /\ UNCHANGED <<intfLock, table, made, given, channels, alive>>
  BY DEF Unsubscribe, At, Closes
<1>2. PICK left \in {<<>>, cam[h].events} : cam' = [cam EXCEPT ![h].events = left]
  BY DEF Unsubscribe
<1> DEFINE o == [cam[h] EXCEPT !.events = left]
<1>3. thread[c] \in ThreadType /\ Formed(thread[c]) BY CallFacts
<1>4. /\ h \in Cams /\ h # NoHandle /\ cam[h] \in ObjectType /\ Ends(cam[h])
      /\ cam[h].state = "closing"
  BY <1>1, CloserFacts
<1>5. left \in Seq(Clients \cup {"died"})
  <2>1. cam[h].events \in Seq(Clients \cup {"died"}) BY <1>4 DEF ObjectType
  <2>2. <<>> \in Seq(Clients \cup {"died"}) OBVIOUS
  <2>3. QED BY <2>1, <2>2
<1>6. /\ o \in ObjectType /\ o.events = left /\ o.state = cam[h].state /\ o.lock = cam[h].lock
      /\ o.poll = cam[h].poll /\ o.ref = cam[h].ref /\ o.slot = cam[h].slot
      /\ o.msgLock = cam[h].msgLock /\ o.sock = cam[h].sock /\ o.rcvd = cam[h].rcvd
      /\ o.evt = cam[h].evt /\ o.evq = cam[h].evq /\ o.cbLock = cam[h].cbLock
  BY <1>4, <1>5 DEF ObjectType
<1>7. t \in ThreadType /\ t.pc = "poll" /\ t.op = thread[c].op /\ t.cam = h
      /\ t.chan = thread[c].chan /\ t.slot = thread[c].slot
  BY <1>3, GoingOn DEF Pcs, UsesObject
<1>8. Turn(c, t) /\ Put(h, o)
  <2>1. Turn(c, t) BY DEF Unsubscribe, Goto, Turn
  <2>2. Put(h, o) BY <1>2, <1>4 DEF Put, Inv, Types
  <2>3. QED BY <2>1, <2>2
<1> HIDE DEF h, t, o
<1>9. cam[h].lock = c BY <1>1 DEF Inv, Holding, Holds
<1>10. Moved(c, t, h, o) BY <1>4, <1>6, <1>7, <1>8 DEF Moved
<1>11. Formed(t) BY <1>1, <1>3, <1>4, <1>7 DEF Formed, ChanOps
<1>12. Ends(o) BY <1>4, <1>6 DEF Ends, Ended
<1>13. Quiet(cam[h]) => Quiet(o)
  <2>1. NoneIn(<<>>) BY DEF NoneIn
  <2>2. NoneIn(cam[h].events) => NoneIn(left) BY <2>1
  <2>3. QED BY <1>6, <2>2 DEF Quiet
<1>14. Ended(cam[h]) => Ended(o) BY <1>6 DEF Ended
<1>15. QED BY <1>1, <1>4, <1>6, <1>7, <1>9, <1>10, <1>11, <1>12, <1>13, <1>14, ClosingInv

LEMMA JoinPollInv ==
  ASSUME Inv, NEW c \in Clients, JoinPoll(c)
  PROVE  Inv'
<1> DEFINE h == thread[c].cam
           t == [thread[c] EXCEPT !.pc = "evt"]
           o == [cam[h] EXCEPT !.poll = "gone"]
<1>1. /\ thread[c].pc = "poll" /\ h = thread[c].cam /\ cam[h].poll = "idle"
      /\ UNCHANGED <<intfLock, table, made, given, channels, alive>>
  BY DEF JoinPoll, At, PollEnds
<1>2. thread[c] \in ThreadType /\ Formed(thread[c]) BY CallFacts
<1>3. thread[c].op = "close" /\ Closes(thread[c]) BY <1>1, <1>2 DEF Formed, Closes
<1>4. /\ h \in Cams /\ h # NoHandle /\ cam[h] \in ObjectType /\ Ends(cam[h])
      /\ cam[h].state = "closing"
  BY <1>1, <1>3, CloserFacts
<1>5. /\ o \in ObjectType /\ o.events = cam[h].events /\ o.state = cam[h].state
      /\ o.lock = cam[h].lock /\ o.poll = "gone" /\ o.ref = cam[h].ref /\ o.slot = cam[h].slot
      /\ o.msgLock = cam[h].msgLock /\ o.sock = cam[h].sock /\ o.rcvd = cam[h].rcvd
      /\ o.evt = cam[h].evt /\ o.evq = cam[h].evq /\ o.cbLock = cam[h].cbLock
  BY <1>4 DEF ObjectType
<1>6. t \in ThreadType /\ t.pc = "evt" /\ t.op = thread[c].op /\ t.cam = h
      /\ t.chan = thread[c].chan /\ t.slot = thread[c].slot
  BY <1>2, GoingOn DEF Pcs, UsesObject
<1>7. Turn(c, t) /\ Put(h, o)
  <2>1. Turn(c, t) BY DEF JoinPoll, Goto, Turn
  <2>2. Put(h, o) BY <1>1, <1>4 DEF JoinPoll, Put, Inv, Types
  <2>3. QED BY <2>1, <2>2
<1> HIDE DEF h, t, o
<1>8. cam[h].lock = c BY <1>1 DEF Inv, Holding, Holds
<1>9. Moved(c, t, h, o) BY <1>4, <1>5, <1>6, <1>7 DEF Moved
<1>10. Formed(t) BY <1>1, <1>2, <1>3, <1>4, <1>6 DEF Formed, ChanOps
<1>11. Ends(o) BY <1>4, <1>5 DEF Ends, Ended
<1>12. Quiet(cam[h]) => Quiet(o) BY <1>5, CameraAssumption DEF Quiet
<1>13. Ended(cam[h]) => Ended(o) BY <1>5 DEF Ended
<1>14. QED BY <1>1, <1>3, <1>4, <1>5, <1>6, <1>8, <1>9, <1>10, <1>11, <1>12, <1>13, ClosingInv

LEMMA JoinEvtInv ==
  ASSUME Inv, NEW c \in Clients, JoinEvt(c)
  PROVE  Inv'
<1> DEFINE h == thread[c].cam
           t == [thread[c] EXCEPT !.pc = "destroy"]
           o == [cam[h] EXCEPT !.evt = "gone"]
<1>1. /\ thread[c].pc = "evt" /\ h = thread[c].cam /\ cam[h].evt = "idle" /\ cam[h].evq = <<>>
      /\ UNCHANGED <<intfLock, table, made, given, channels, alive>>
  BY DEF JoinEvt, At
<1>2. thread[c] \in ThreadType /\ Formed(thread[c]) BY CallFacts
<1>3. thread[c].op = "close" /\ Closes(thread[c]) BY <1>1, <1>2 DEF Formed, Closes
<1>4. /\ h \in Cams /\ h # NoHandle /\ cam[h] \in ObjectType /\ Ends(cam[h])
      /\ cam[h].state = "closing" /\ cam[h].poll = "gone"
  BY <1>1, <1>3, CloserFacts DEF Inv, Ending
<1>5. /\ o \in ObjectType /\ o.events = cam[h].events /\ o.state = cam[h].state
      /\ o.lock = cam[h].lock /\ o.poll = cam[h].poll /\ o.ref = cam[h].ref
      /\ o.slot = cam[h].slot /\ o.msgLock = cam[h].msgLock /\ o.sock = cam[h].sock
      /\ o.rcvd = cam[h].rcvd /\ o.evt = "gone" /\ o.evq = cam[h].evq
      /\ o.cbLock = cam[h].cbLock
  BY <1>4 DEF ObjectType
<1>6. t \in ThreadType /\ t.pc = "destroy" /\ t.op = thread[c].op /\ t.cam = h
      /\ t.chan = thread[c].chan /\ t.slot = thread[c].slot
  BY <1>2, GoingOn DEF Pcs, UsesObject
<1>7. Turn(c, t) /\ Put(h, o)
  <2>1. Turn(c, t) BY DEF JoinEvt, Goto, Turn
  <2>2. Put(h, o) BY <1>4 DEF JoinEvt, Put, Inv, Types
  <2>3. QED BY <2>1, <2>2
<1> HIDE DEF h, t, o
<1>8. cam[h].lock = c BY <1>1 DEF Inv, Holding, Holds
<1>9. Moved(c, t, h, o) BY <1>4, <1>5, <1>6, <1>7 DEF Moved
<1>10. Formed(t) BY <1>1, <1>2, <1>3, <1>4, <1>6 DEF Formed, ChanOps
<1>11. Ended(o) BY <1>1, <1>5 DEF Ended
<1>12. Ends(o) BY <1>1, <1>4, <1>5 DEF Ends, Ended
<1>13. Quiet(cam[h]) => Quiet(o) BY <1>5 DEF Quiet
<1>14. QED BY <1>1, <1>3, <1>4, <1>5, <1>6, <1>8, <1>9, <1>10, <1>11, <1>12, <1>13, ClosingInv

LEMMA DestroyInv ==
  ASSUME Inv, NEW c \in Clients, Destroy(c)
  PROVE  Inv'
<1> DEFINE h == thread[c].cam
           t == [thread[c] EXCEPT !.pc = "free"]
           o == [cam[h] EXCEPT !.state = "destroyed", !.lock = NoOne]
<1>1. /\ thread[c].pc = "destroy" /\ h = thread[c].cam
      /\ UNCHANGED <<intfLock, table, made, given, channels, alive>>
  BY DEF Destroy, At
<1>2. thread[c] \in ThreadType /\ Formed(thread[c]) BY CallFacts
<1>3. thread[c].op = "close" /\ Closes(thread[c]) BY <1>1, <1>2 DEF Formed, Closes
<1>4. /\ h \in Cams /\ h # NoHandle /\ cam[h] \in ObjectType /\ Ends(cam[h])
      /\ cam[h].state = "closing" /\ cam[h].poll = "gone" /\ Ended(cam[h])
  BY <1>1, <1>3, CloserFacts DEF Inv, Ending
<1>5. /\ o \in ObjectType /\ o.events = cam[h].events /\ o.state = "destroyed"
      /\ o.poll = cam[h].poll /\ o.ref = cam[h].ref
      /\ o.slot = cam[h].slot /\ o.msgLock = cam[h].msgLock /\ o.sock = cam[h].sock
      /\ o.rcvd = cam[h].rcvd /\ o.evt = cam[h].evt /\ o.evq = cam[h].evq
      /\ o.cbLock = cam[h].cbLock
  BY <1>4 DEF ObjectType, Nobody
<1>6. t \in ThreadType /\ t.pc = "free" /\ t.op = thread[c].op /\ t.cam = h
      /\ t.chan = thread[c].chan /\ t.slot = thread[c].slot
  BY <1>2, GoingOn DEF Pcs, UsesObject
<1>7. Turn(c, t) /\ Put(h, o)
  <2>1. Turn(c, t) BY DEF Destroy, Goto, Turn
  <2>2. Put(h, o) BY <1>4 DEF Destroy, Put, Inv, Types
  <2>3. QED BY <2>1, <2>2
<1> HIDE DEF h, t, o
<1>8. Moved(c, t, h, o) BY <1>4, <1>5, <1>6, <1>7 DEF Moved
<1>9. Formed(t) BY <1>1, <1>2, <1>3, <1>4, <1>6 DEF Formed, ChanOps
<1>10. Ended(o) BY <1>4, <1>5 DEF Ended
<1>11. Ends(o) BY <1>4, <1>5 DEF Ends, Ended
<1>12. Quiet(cam[h]) => Quiet(o) BY <1>5 DEF Quiet
<1>13. QED BY <1>1, <1>3, <1>4, <1>5, <1>6, <1>8, <1>9, <1>10, <1>11, <1>12, ClosingInv

LEMMA FreeInv ==
  ASSUME Inv, NEW c \in Clients, Free(c)
  PROVE  Inv'
<1> DEFINE h == thread[c].cam
           t == Idle
           o == [cam[h] EXCEPT !.state = "freed"]
<1>1. /\ thread[c].pc = "free" /\ h = thread[c].cam
      /\ UNCHANGED <<intfLock, table, made, given, channels, alive>>
  BY DEF Free, At
<1>2. thread[c] \in ThreadType /\ Formed(thread[c]) BY CallFacts
<1>3. thread[c].op = "close" /\ Closes(thread[c]) BY <1>1, <1>2 DEF Formed, Closes
<1>4. /\ h \in Cams /\ h # NoHandle /\ cam[h] \in ObjectType /\ Ends(cam[h])
      /\ cam[h].state = "destroyed"
  BY <1>1, <1>3, CloserFacts
<1>5. /\ o \in ObjectType /\ o.events = cam[h].events /\ o.state = "freed"
      /\ o.poll = cam[h].poll /\ o.ref = cam[h].ref
      /\ o.slot = cam[h].slot /\ o.msgLock = cam[h].msgLock /\ o.sock = cam[h].sock
      /\ o.rcvd = cam[h].rcvd /\ o.evt = cam[h].evt /\ o.evq = cam[h].evq
      /\ o.cbLock = cam[h].cbLock
  BY <1>4 DEF ObjectType
<1>6. t \in ThreadType /\ Formed(t) /\ t.pc = "idle" /\ t.op = "none" /\ t.cam = NoHandle
      /\ t.chan = NoHandle
  BY Returning
<1>7. Turn(c, t) /\ Put(h, o)
  <2>1. Turn(c, t) BY DEF Free, Return, Turn
  <2>2. Put(h, o) BY <1>4 DEF Free, Put, Inv, Types
  <2>3. QED BY <2>1, <2>2
<1> HIDE DEF h, t, o
<1>8. Moved(c, t, h, o) BY <1>4, <1>5, <1>6, <1>7 DEF Moved
<1>9. Ended(cam[h]) => Ended(o) BY <1>5 DEF Ended
<1>10. Ends(o) BY <1>4, <1>5 DEF Ends, Ended
<1>11. Quiet(cam[h]) => Quiet(o) BY <1>5 DEF Quiet
<1>12. QED BY <1>1, <1>3, <1>4, <1>5, <1>6, <1>8, <1>9, <1>10, <1>11, ClosingInv
-----------------------------------------------------------------------------
(* The steps that count references.                                         *)

LEMMA CountJoin ==
  ASSUME NEW S, IsFiniteSet(S), NEW x, x \notin S
  PROVE  Cardinality(S \cup {x}) = Cardinality(S) + 1 /\ Cardinality(S) \in Nat
BY FS_AddElement, FS_CardinalityType

LEMMA CountLeave ==
  ASSUME NEW S, IsFiniteSet(S), NEW x \in S
  PROVE  Cardinality(S \ {x}) = Cardinality(S) - 1 /\ Cardinality(S) \in Nat
BY FS_RemoveElement, FS_CardinalityType

\* Who is owing at g after a step of c.
LEMMA PendingAfter ==
  ASSUME Inv, NEW c, NEW t, NEW h, NEW o, Moved(c, t, h, o), NEW g \in Cams
  PROVE  Pending(g)' = (Pending(g) \ {c}) \cup (IF Owing(t) /\ t.cam = g THEN {c} ELSE {})
<1>1. Pending(g)' = {d \in Clients : Owing(thread'[d]) /\ thread'[d].cam = g}
  BY DEF Pending, Owing
<1>2. ASSUME NEW d \in Clients
      PROVE  Owing(thread'[d]) /\ thread'[d].cam = g <=>
               IF d = c THEN Owing(t) /\ t.cam = g ELSE Owing(thread[d]) /\ thread[d].cam = g
  BY After DEF Inv
<1>3. c \in Clients BY DEF Moved
<1>4. QED BY <1>1, <1>2, <1>3 DEF Pending

LEMMA PendingJoin ==
  ASSUME Inv, NEW c, NEW t, NEW h, NEW o, Moved(c, t, h, o), ~Owing(thread[c]), Owing(t),
         t.cam = h
  PROVE  /\ Cardinality(Pending(h)') = Cardinality(Pending(h)) + 1
         /\ Cardinality(Pending(h)) \in Nat
         /\ \A g \in Cams : g # h => Pending(g)' = Pending(g)
<1>1. h \in Cams BY DEF Moved
<1>2. \A g \in Cams : c \notin Pending(g) BY DEF Pending
<1>3. Pending(h)' = Pending(h) \cup {c} BY <1>1, <1>2, PendingAfter
<1>4. \A g \in Cams : g # h => Pending(g)' = Pending(g) BY <1>2, PendingAfter
<1>5. QED BY <1>1, <1>2, <1>3, <1>4, Counts, CountJoin

LEMMA PendingLeave ==
  ASSUME Inv, NEW c, NEW t, NEW h, NEW o, Moved(c, t, h, o), Owing(thread[c]), ~Owing(t),
         thread[c].cam = h
  PROVE  /\ Cardinality(Pending(h)') = Cardinality(Pending(h)) - 1
         /\ Cardinality(Pending(h)) \in Nat
         /\ \A g \in Cams : g # h => Pending(g)' = Pending(g)
<1>1. h \in Cams /\ c \in Clients BY DEF Moved
<1>2. c \in Pending(h) /\ \A g \in Cams : g # h => c \notin Pending(g) BY <1>1 DEF Pending
<1>3. Pending(h)' = Pending(h) \ {c} BY <1>1, PendingAfter
<1>4. \A g \in Cams : g # h => Pending(g)' = Pending(g) BY <1>2, PendingAfter
<1>5. QED BY <1>1, <1>2, <1>3, <1>4, Counts, CountLeave

\* Nothing but the state of the object and its count.
OnlyCounts(h, o) ==
  /\ o.lock = cam[h].lock /\ o.msgLock = cam[h].msgLock /\ o.cbLock = cam[h].cbLock
  /\ o.slot = cam[h].slot /\ o.sock = cam[h].sock /\ o.events = cam[h].events
  /\ o.poll = cam[h].poll /\ o.rcvd = cam[h].rcvd /\ o.evq = cam[h].evq
  /\ o.evt = cam[h].evt

\* A step that counts a reference to an object in the table, or out of it.
LEMMA CountingInv ==
  ASSUME Inv, NEW c, NEW t, NEW h, NEW o, Moved(c, t, h, o), OnlyCounts(h, o),
         cam[h].state = "live", thread[c].pc \in {"idle", "enter", "opened"},
         t.pc \in {"idle", "enter", "opened", "found"}, t.op \in {"none", "open", "close"},
         t.chan \in {NoHandle, thread[c].chan}, t.cam \in {NoHandle, h}, Formed(t),
         IF t.pc = "found" THEN t.op = "close" /\ t.cam = h /\ o.state = "closing"
                           ELSE o.state = "live",
         t.op = "close" => t.pc \in {"enter", "found"},
         FindStep(c, t), Counted', Guarded', Scalars', channels' = channels
  PROVE  Inv'
<1>1. h \in Cams /\ c \in Clients BY DEF Moved
<1>2. ShapeStep(c, t, h, o) BY DEF ShapeStep
<1>3. HoldStep(c, t, h, o) BY DEF HoldStep, Holds, InUse, OnlyCounts
<1>4. CloseStep(c, t, h, o) BY DEF CloseStep, Closes
<1>5. EndStep(c, t, h, o)
  <2>1. Ends(cam[h]) BY <1>1, AsIs
  <2>2. Ends(o) BY <2>1 DEF Ends, OnlyCounts
  <2>3. QED BY <2>2 DEF EndStep, Ended, Holds, OnlyCounts
<1>6. MessageStep(c, t, h, o)
  <2>1. cam[h].msgLock # c BY <1>1, CameraAssumption DEF Inv, Messages, Asks
  <2>2. QED BY <2>1 DEF MessageStep, Asks, OnlyCounts
<1>7. AloneStep(c, t) BY DEF AloneStep, Changes
<1>8. ChannelStep(c, t, h, o)
  <2>1. \A i \in Slots : ~Wipes(thread[c], h, i) BY DEF Wipes
  <2>2. ~Uses(t) BY DEF Uses, ChanOps
  <2>3. QED BY <2>1, <2>2 DEF ChannelStep, OnlyCounts
<1>9. Unasked(c, t, h, o) BY DEF Unasked, OnlyCounts
<1>10. Kept(c, t, h, o)
  BY <1>2, <1>3, <1>4, <1>5, <1>6, <1>7, <1>8 DEF Kept
<1>11. Handles'
  <2>1. cam[h].state = "none" <=> o.state = "none" OBVIOUS
  <2>2. QED BY <2>1, HandlesKept DEF Inv
<1>12. Answers' BY <1>9, AnswerKept DEF Inv
<1>13. QED BY <1>10, <1>11, <1>12, StepKept

LEMMA BeginCloseInv ==
  ASSUME Inv, NEW c \in Clients, NEW h \in Known, BeginClose(c, h)
  PROVE  Inv'
<1> DEFINE t == [pc |-> "enter", op |-> "close", cam |-> h, chan |-> NoHandle, slot |-> 0]
           o == cam[h]
<1>1. /\ thread[c].pc = "idle" /\ thread[c] = Idle /\ MayClose(h)
      /\ UNCHANGED <<intfLock, table, cam, channels, alive>>
      /\ given' = [given EXCEPT ![h] = @ - 1] /\ made' = made + 1
  BY CallFacts DEF BeginClose, Begin, At, Formed
<1>2. h \in Cams /\ h # NoHandle /\ given[h] \in Nat /\ given[h] > 0
  BY <1>1, SMT DEF Known, Cams, NoHandle, MayClose, Inv, Types
<1>3. t \in ThreadType
  BY <1>2, SMT, CameraAssumption DEF ThreadType, Pcs, Ops, Cams, NoHandle
<1>4. t.pc = "enter" /\ t.op = "close" /\ t.cam = h /\ t.chan = NoHandle OBVIOUS
<1>5. Turn(c, t) /\ Put(h, o)
  <2>1. Turn(c, t) BY DEF BeginClose, Begin, Turn
  <2>2. Put(h, o) BY <1>1, <1>2 DEF Put, Inv, Types
  <2>3. QED BY <2>1, <2>2
<1>6. given' \in [Cams -> Nat] /\ given'[h] = given[h] - 1
      /\ \A g \in Cams : g # h => given'[g] = given[g]
  BY <1>1, <1>2 DEF Inv, Types
<1>7. Scalars' BY <1>1, <1>6 DEF Inv, Types, Scalars, Nobody
<1>8. o \in ObjectType /\ OnlyCounts(h, o) BY <1>2, AsIs DEF OnlyCounts
<1> HIDE DEF t
<1>9. cam[h].ref \in Nat /\ cam[h].ref > 0 /\ cam[h].state = "live"
  <2>1. Cardinality(Pending(h)) \in Nat BY <1>2, Counts
  <2>2. cam[h].ref = given[h] + Cardinality(Pending(h)) BY <1>2, AsIs
  <2>3. QED BY <1>2, <2>1, <2>2, AsIs
<1>10. Moved(c, t, h, o) BY <1>2, <1>3, <1>5, <1>8 DEF Moved
<1>11. Formed(t) BY <1>2, <1>4 DEF Formed, ChanOps
<1>12. FindStep(c, t) BY <1>1, <1>4 DEF FindStep
<1>13. Counted'
  <2>1. ~Owing(thread[c]) /\ Owing(t) BY <1>1, <1>4 DEF Owing
  <2>2. /\ Cardinality(Pending(h)') = Cardinality(Pending(h)) + 1
        /\ Cardinality(Pending(h)) \in Nat
        /\ \A g \in Cams : g # h => Pending(g)' = Pending(g)
    BY <1>4, <1>10, <2>1, PendingJoin
  <2>3. ASSUME NEW g \in Cams PROVE cam[g].ref = given'[g] + Cardinality(Pending(g)')
    <3>1. cam[g].ref = given[g] + Cardinality(Pending(g)) BY AsIs
    <3>2. CASE g = h BY <1>2, <1>6, <2>2, <3>1, <3>2
    <3>3. CASE g # h BY <1>6, <2>2, <3>1, <3>3
    <3>4. QED BY <3>2, <3>3
  <2>4. QED BY <1>1, <2>3, AsIs DEF Counted, Pending, Owing
<1>14. Guarded'
  <2>1. SUFFICES ASSUME NEW g \in Cams, given'[g] = 0
                 PROVE  /\ \A d \in Clients : OfChannel(thread'[d]) => thread'[d].cam # g
                        /\ \A i \in Slots : ~cam[g].slot[i].used
    BY <1>1 DEF Guarded, OfChannel
  <2>2. /\ \A d \in Clients : OfChannel(thread[d]) => thread[d].cam # g
        /\ \A i \in Slots : ~cam[g].slot[i].used
    <3>1. CASE g = h
      <4>1. given[h] = 1 BY <1>2, <1>6, <2>1, <3>1
      <4>2. QED BY <1>1, <3>1, <4>1 DEF MayClose, OnChannel, OfChannel
    <3>2. CASE g # h BY <1>6, <2>1, <3>2 DEF Inv, Guarded
    <3>3. QED BY <3>1, <3>2
  <2>3. ~OfChannel(t) BY <1>4 DEF OfChannel, ChanOps
  <2>4. QED BY <1>10, <2>2, <2>3, After DEF Inv
<1>15. QED BY <1>1, <1>4, <1>7, <1>8, <1>9, <1>10, <1>11, <1>12, <1>13, <1>14, CountingInv

LEMMA OpenAgainInv ==
  ASSUME Inv, NEW c \in Clients, OpenAgain(c)
  PROVE  Inv'
<1>1. /\ thread[c].pc = "enter" /\ thread[c].op = "open" /\ table # NoHandle
      /\ intfLock = NoOne /\ UNCHANGED <<intfLock, table, made, given, channels, alive>>
  BY DEF OpenAgain, At
<1>2. thread[c] \in ThreadType /\ Formed(thread[c]) BY CallFacts
<1>3. PICK h \in Cams : h = table /\ h # NoHandle BY <1>1 DEF Inv, Types
<1> DEFINE t == [thread[c] EXCEPT !.pc = "opened", !.cam = h]
           o == [cam[h] EXCEPT !.ref = @ + 1]
<1>4. cam[h] \in ObjectType /\ cam[h].ref \in Nat /\ cam[h].state = "live" /\ cam[h].ref > 0
  BY <1>3, AsIs
<1>5. o \in ObjectType /\ OnlyCounts(h, o) /\ o.state = "live" /\ o.ref = cam[h].ref + 1
  <2>1. cam[h].ref + 1 \in Nat BY <1>4
  <2>2. o \in ObjectType BY <1>4, <2>1 DEF ObjectType
  <2>3. o.state = "live" /\ o.ref = cam[h].ref + 1 BY <1>4 DEF ObjectType
  <2>4. OnlyCounts(h, o) BY <1>4 DEF ObjectType, OnlyCounts
  <2>5. QED BY <2>2, <2>3, <2>4
<1>6. /\ t \in ThreadType /\ t.pc = "opened" /\ t.op = "open" /\ t.cam = h
      /\ t.chan = thread[c].chan
  <2>1. "opened" \in Pcs /\ h \in 0..MaxOpens BY <1>3 DEF Pcs, Cams
  <2>2. QED BY <1>1, <1>2, <2>1 DEF ThreadType
<1>7. Turn(c, t) /\ Put(h, o)
  <2>1. Turn(c, t) BY <1>3 DEF OpenAgain, Turn, Inv, Types
  <2>2. Put(h, o) BY <1>3 DEF OpenAgain, Referenced, Put
  <2>3. QED BY <2>1, <2>2
<1>8. Scalars' BY <1>1 DEF Inv, Types, Scalars, Nobody
<1> HIDE DEF t, o
<1>9. Moved(c, t, h, o) BY <1>3, <1>5, <1>6, <1>7 DEF Moved
<1>10. Formed(t) BY <1>1, <1>2, <1>3, <1>6 DEF Formed, ChanOps
<1>11. FindStep(c, t) BY <1>1, <1>6 DEF FindStep
<1>12. ASSUME NEW g \in Cams PROVE cam'[g].ref = given'[g] + Cardinality(Pending(g)')
  <2>1. ~Owing(thread[c]) /\ Owing(t) BY <1>1, <1>6 DEF Owing
  <2>2. /\ Cardinality(Pending(h)') = Cardinality(Pending(h)) + 1
        /\ Cardinality(Pending(h)) \in Nat
        /\ \A f \in Cams : f # h => Pending(f)' = Pending(f)
    BY <1>6, <1>9, <2>1, PendingJoin
  <2>3. cam[g].ref = given[g] + Cardinality(Pending(g)) /\ given[g] \in Nat /\ given'[g] = given[g]
    BY <1>1, AsIs
  <2>4. CASE g = h
    <3>1. cam'[g].ref = cam[h].ref + 1 BY <1>5, <1>9, <2>4, After DEF Inv
    <3>2. QED BY <2>2, <2>3, <2>4, <3>1
  <2>5. CASE g # h BY <1>9, <2>2, <2>3, <2>5, After DEF Inv
  <2>6. QED BY <2>4, <2>5
<1>13. ASSUME NEW g \in Cams
       PROVE  /\ table' = g <=> cam'[g].state = "live"
              /\ cam'[g].state = "live" <=> cam'[g].ref > 0
  <2>1. CASE g = h
    <3>1. cam'[g] = o BY <1>9, <2>1, After DEF Inv
    <3>2. o.ref > 0 BY <1>4, <1>5
    <3>3. QED BY <1>1, <1>3, <1>5, <2>1, <3>1, <3>2
  <2>2. CASE g # h
    <3>1. cam'[g] = cam[g] BY <1>9, <2>2, After DEF Inv
    <3>2. QED BY <1>1, <3>1, AsIs
  <2>3. QED BY <2>1, <2>2
<1>14. Counted' BY <1>12, <1>13 DEF Counted, Pending, Owing
<1>15. Guarded'
  <2>1. GuardStep(c, t, h, o) BY <1>1, <1>5, <1>6 DEF GuardStep, OfChannel, ChanOps, OnlyCounts
  <2>2. QED BY <1>8, <1>9, <2>1, GuardKept DEF Inv, Scalars
<1>16. QED BY <1>1, <1>3, <1>4, <1>5, <1>6, <1>8, <1>9, <1>10, <1>11, <1>14, <1>15, CountingInv

LEMMA OpenReturnsInv ==
  ASSUME Inv, NEW c \in Clients, OpenReturns(c)
  PROVE  Inv'
<1>1. /\ thread[c].pc = "opened" /\ Owing(thread[c])
      /\ UNCHANGED <<intfLock, table, cam, made, channels, alive>>
  BY DEF OpenReturns, At, Owing
<1>2. PICK h \in Cams : h = thread[c].cam /\ table = h /\ cam[h].state = "live"
  BY <1>1, OwingLive
<1> DEFINE t == Idle
           o == cam[h]
<1>3. cam[h] \in ObjectType /\ cam[h].ref \in Nat /\ cam[h].ref > 0 /\ given[h] \in Nat
  BY <1>2, AsIs
<1>4. given' = [given EXCEPT ![h] = @ + 1] BY <1>2 DEF OpenReturns
<1>5. given' \in [Cams -> Nat] /\ given'[h] = given[h] + 1
      /\ \A g \in Cams : g # h => given'[g] = given[g]
  BY <1>2, <1>4 DEF Inv, Types
<1>6. o \in ObjectType /\ OnlyCounts(h, o) BY <1>3 DEF OnlyCounts
<1>7. t \in ThreadType /\ Formed(t) /\ t.pc = "idle" /\ t.op = "none" /\ t.cam = NoHandle
      /\ t.chan = NoHandle
  BY Returning
<1>8. Turn(c, t) /\ Put(h, o)
  <2>1. Turn(c, t) BY DEF OpenReturns, Return, Turn
  <2>2. Put(h, o) BY <1>1, <1>2 DEF Put, Inv, Types
  <2>3. QED BY <2>1, <2>2
<1>9. Scalars' BY <1>1, <1>5 DEF Inv, Types, Scalars, Nobody
<1> HIDE DEF t
<1>10. Moved(c, t, h, o) BY <1>2, <1>6, <1>7, <1>8 DEF Moved
<1>11. FindStep(c, t) BY <1>1, <1>7 DEF FindStep
<1>12. ASSUME NEW g \in Cams PROVE cam[g].ref = given'[g] + Cardinality(Pending(g)')
  <2>1. ~Owing(t) BY <1>7 DEF Owing
  <2>2. /\ Cardinality(Pending(h)') = Cardinality(Pending(h)) - 1
        /\ Cardinality(Pending(h)) \in Nat
        /\ \A f \in Cams : f # h => Pending(f)' = Pending(f)
    BY <1>1, <1>2, <1>10, <2>1, PendingLeave
  <2>3. cam[g].ref = given[g] + Cardinality(Pending(g)) /\ given[g] \in Nat BY AsIs
  <2>4. CASE g = h BY <1>5, <2>2, <2>3, <2>4
  <2>5. CASE g # h BY <1>5, <2>2, <2>3, <2>5
  <2>6. QED BY <2>4, <2>5
<1>13. Counted' BY <1>1, <1>12, AsIs DEF Counted, Pending, Owing
<1>14. Guarded'
  <2>1. \A g \in Cams : given[g] > 0 => given'[g] > 0
    <3> TAKE g \in Cams
    <3>1. CASE g = h BY <1>3, <1>5, <3>1
    <3>2. CASE g # h BY <1>5, <3>2
    <3>3. QED BY <3>1, <3>2
  <2>2. GuardStep(c, t, h, o) BY <1>7, <2>1 DEF GuardStep, OfChannel, ChanOps
  <2>3. QED BY <1>5, <1>10, <2>2, GuardKept DEF Inv
<1>15. QED BY <1>1, <1>2, <1>6, <1>7, <1>9, <1>10, <1>11, <1>13, <1>14, CountingInv

\* The reference of a close goes out of the object.
LEMMA CloseCounted ==
  ASSUME Inv, NEW c, NEW t, NEW h, NEW o, Moved(c, t, h, o), Owing(thread[c]), ~Owing(t),
         thread[c].cam = h, table = h, o.ref = cam[h].ref - 1, given' = given,
         o.state = "live" <=> o.ref > 0, table' = IF o.ref > 0 THEN h ELSE NoHandle
  PROVE  Counted'
<1>1. h \in Cams /\ h # NoHandle
  <2>1. h \in Cams BY DEF Moved
  <2>2. QED BY <2>1, SMT DEF Cams, NoHandle
<1>2. ASSUME NEW g \in Cams PROVE cam'[g].ref = given'[g] + Cardinality(Pending(g)')
  <2>1. /\ Cardinality(Pending(h)') = Cardinality(Pending(h)) - 1
        /\ Cardinality(Pending(h)) \in Nat
        /\ \A f \in Cams : f # h => Pending(f)' = Pending(f)
    BY PendingLeave
  <2>2. cam[g].ref = given[g] + Cardinality(Pending(g)) /\ given[g] \in Nat BY AsIs
  <2>3. CASE g = h
    <3>1. cam'[g].ref = cam[h].ref - 1 BY <2>3, After DEF Inv
    <3>2. QED BY <2>1, <2>2, <2>3, <3>1
  <2>4. CASE g # h
    <3>1. cam'[g].ref = cam[g].ref BY <2>4, After DEF Inv
    <3>2. QED BY <2>1, <2>2, <2>4, <3>1
  <2>5. QED BY <2>3, <2>4
<1>3. ASSUME NEW g \in Cams
      PROVE  /\ table' = g <=> cam'[g].state = "live"
             /\ cam'[g].state = "live" <=> cam'[g].ref > 0
  <2>1. CASE g = h
    <3>1. cam'[g] = o BY <2>1, After DEF Inv
    <3>2. QED BY <1>1, <2>1, <3>1
  <2>2. CASE g # h
    <3>1. cam'[g] = cam[g] BY <2>2, After DEF Inv
    <3>2. table' # g
      <4>1. g # NoHandle BY SMT DEF Cams, NoHandle
      <4>2. QED BY <2>2, <4>1
    <3>3. QED BY <2>2, <3>1, <3>2, AsIs
  <2>3. QED BY <2>1, <2>2
<1>4. QED BY <1>2, <1>3 DEF Counted, Pending, Owing

LEMMA FindToCloseInv ==
  ASSUME Inv, NEW c \in Clients, FindToClose(c)
  PROVE  Inv'
<1>1. /\ thread[c].pc = "enter" /\ thread[c].op = "close" /\ intfLock = NoOne
      /\ Owing(thread[c]) /\ UNCHANGED <<made, given, channels, alive>>
  BY DEF FindToClose, At, Owing
<1>2. PICK h \in Cams : h = thread[c].cam /\ table = h /\ cam[h].state = "live"
  BY <1>1, OwingLive
<1>3. thread[c] \in ThreadType /\ Formed(thread[c]) BY CallFacts
<1>4. cam[h] \in ObjectType /\ cam[h].ref \in Nat /\ cam[h].ref > 0 BY <1>2, AsIs
<1>5. h # NoHandle BY SMT DEF Cams, NoHandle
<1> DEFINE last == cam[h].ref = 1
           w == [cam[h] EXCEPT !.ref = @ - 1, !.state = IF last THEN "closing" ELSE @]
<1>6. Put(h, w)
  <2>1. cam' = [cam EXCEPT ![h].ref = @ - 1, ![h].state = IF last THEN "closing" ELSE @]
    BY <1>2 DEF FindToClose
  <2> HIDE DEF last
  <2>2. cam' = [cam EXCEPT ![h] = w] BY <1>4, <2>1 DEF Inv, Types, ObjectType
  <2>3. QED BY <2>2 DEF Put
<1>7. CASE cam[h].ref = 1
  <2> DEFINE t == [thread[c] EXCEPT !.pc = "found"]
             o == [cam[h] EXCEPT !.ref = 0, !.state = "closing"]
  <2>1. table' = NoHandle /\ intfLock' = c /\ Goto(c, "found")
    BY <1>2, <1>7 DEF FindToClose
  <2>2. w = o
    <3>1. cam[h].ref - 1 = 0 BY <1>7
    <3>2. QED BY <1>4, <1>7, <3>1 DEF ObjectType
  <2>3. Put(h, o) BY <1>6, <2>2
  <2>4. o \in ObjectType /\ OnlyCounts(h, o) /\ o.state = "closing" /\ o.ref = 0
    BY <1>4 DEF ObjectType, OnlyCounts
  <2>5. t \in ThreadType /\ t.pc = "found" /\ t.op = "close" /\ t.cam = h
        /\ t.chan = thread[c].chan
    BY <1>1, <1>2, <1>3, GoingOn DEF Pcs, UsesObject
  <2>6. Turn(c, t) BY <2>1 DEF Goto, Turn
  <2>7. Scalars' BY <1>1, <2>1 DEF Inv, Types, Scalars, Nobody
  <2> HIDE DEF t, o
  <2>8. Moved(c, t, h, o) BY <2>3, <2>4, <2>5, <2>6 DEF Moved
  <2>9. Formed(t) BY <1>3, <2>5 DEF Formed, ChanOps
  <2>10. FindStep(c, t) BY <1>1, <2>1, <2>5 DEF FindStep
  <2>11. Counted'
    <3>1. ~Owing(t) BY <2>5 DEF Owing
    <3>2. o.ref = cam[h].ref - 1 /\ ~(o.ref > 0) BY <1>7, <2>4
    <3>3. (o.state = "live" <=> o.ref > 0) /\ table' = IF o.ref > 0 THEN h ELSE NoHandle
      BY <2>1, <2>4, <3>2
    <3>4. given' = given BY <1>1
    <3>5. QED BY <1>1, <1>2, <2>8, <3>1, <3>2, <3>3, <3>4, CloseCounted
  <2>12. Guarded'
    <3>1. GuardStep(c, t, h, o)
      BY <1>1, <2>4, <2>5 DEF GuardStep, OfChannel, ChanOps, OnlyCounts
    <3>2. QED BY <2>7, <2>8, <3>1, GuardKept DEF Inv, Scalars
  <2>13. QED BY <1>1, <1>2, <2>4, <2>5, <2>7, <2>8, <2>9, <2>10, <2>11, <2>12, CountingInv
<1>8. CASE cam[h].ref # 1
  <2> DEFINE t == Idle
             o == [cam[h] EXCEPT !.ref = @ - 1]
  <2>1. UNCHANGED <<table, intfLock>> /\ Return(c)
    BY <1>2, <1>8 DEF FindToClose
  <2>2. w = o BY <1>4, <1>8 DEF ObjectType
  <2>3. Put(h, o) BY <1>6, <2>2
  <2>4. o \in ObjectType /\ OnlyCounts(h, o) /\ o.state = "live" /\ o.ref = cam[h].ref - 1
    <3>1. cam[h].ref - 1 \in Nat BY <1>4
    <3>2. o \in ObjectType BY <1>4, <3>1 DEF ObjectType
    <3>3. o.state = "live" /\ o.ref = cam[h].ref - 1 BY <1>2, <1>4 DEF ObjectType
    <3>4. OnlyCounts(h, o) BY <1>4 DEF ObjectType, OnlyCounts
    <3>5. QED BY <3>2, <3>3, <3>4
  <2>5. t \in ThreadType /\ Formed(t) /\ t.pc = "idle" /\ t.op = "none" /\ t.cam = NoHandle
        /\ t.chan = NoHandle
    BY Returning
  <2>6. Turn(c, t) BY <2>1 DEF Return, Turn
  <2>7. Scalars' BY <1>1, <2>1 DEF Inv, Types, Scalars, Nobody
  <2> HIDE DEF t, o
  <2>8. Moved(c, t, h, o) BY <2>3, <2>4, <2>5, <2>6 DEF Moved
  <2>9. FindStep(c, t) BY <2>1, <2>5 DEF FindStep
  <2>10. Counted'
    <3>1. ~Owing(t) BY <2>5 DEF Owing
    <3>2. o.ref > 0 BY <1>4, <1>8, <2>4
    <3>3. (o.state = "live" <=> o.ref > 0) /\ table' = IF o.ref > 0 THEN h ELSE NoHandle
      BY <1>2, <2>1, <2>4, <3>2
    <3>4. given' = given BY <1>1
    <3>5. QED BY <1>1, <1>2, <2>4, <2>8, <3>1, <3>3, <3>4, CloseCounted
  <2>11. Guarded'
    <3>1. GuardStep(c, t, h, o)
      BY <1>1, <2>4, <2>5 DEF GuardStep, OfChannel, ChanOps, OnlyCounts
    <3>2. QED BY <2>7, <2>8, <3>1, GuardKept DEF Inv, Scalars
  <2>12. QED BY <1>1, <1>2, <2>4, <2>5, <2>7, <2>8, <2>9, <2>10, <2>11, CountingInv
<1>9. QED BY <1>7, <1>8

LEMMA OpenFirstInv ==
  ASSUME Inv, NEW c \in Clients, OpenFirst(c)
  PROVE  Inv'
<1> DEFINE t == Idle
           o == [NoObject EXCEPT !.state = "live", !.ref = 1, !.poll = "idle", !.evt = "idle"]
<1>1. /\ thread[c].pc = "enter" /\ thread[c].op = "open" /\ intfLock = NoOne /\ table = NoHandle
      /\ Return(c) /\ UNCHANGED <<intfLock, made, channels, alive>>
  BY DEF OpenFirst, At
<1>2. PICK h \in Cams : h = Cardinality(Known) + 1 BY DEF OpenFirst
<1>3. table' = h /\ cam' = [cam EXCEPT ![h] = o] /\ given' = [given EXCEPT ![h] = @ + 1]
  BY <1>2 DEF OpenFirst
<1>4. PICK n \in 0..MaxOpens : Known = 1..n BY DEF Inv, Handles
<1>5. h = n + 1 /\ n \in Nat
  <2>1. n \in Int /\ n \in Nat BY <1>4
  <2>2. Cardinality(1..n) = n BY <2>1, FS_Interval
  <2>3. QED BY <1>2, <1>4, <2>1, <2>2
<1>6. cam[h].state = "none"
  <2>1. h \notin Known BY <1>4, <1>5
  <2>2. QED BY <2>1 DEF Known
<1>7. cam[h].ref = 0 /\ given[h] = 0 /\ Cardinality(Pending(h)) = 0
  <2>1. cam[h].ref \in Nat /\ given[h] \in Nat /\ Cardinality(Pending(h)) \in Nat
    BY AsIs, Counts
  <2>2. ~(cam[h].ref > 0) BY <1>6, AsIs
  <2>3. cam[h].ref = given[h] + Cardinality(Pending(h)) BY AsIs
  <2>4. QED BY <2>1, <2>2, <2>3
<1>8. /\ o \in ObjectType /\ o.state = "live" /\ o.ref = 1 /\ o.poll = "idle" /\ o.evt = "idle"
      /\ o.lock = NoOne /\ o.msgLock = NoOne /\ o.cbLock = FALSE /\ o.sock = <<>>
      /\ o.events = <<>> /\ o.rcvd = NoOne /\ o.evq = <<>> /\ o.slot = [i \in Slots |-> Unused]
  <2>1. Unused \in SlotType BY CameraAssumption DEF Unused, SlotType, Nobody, NoHandle
  <2>2. [i \in Slots |-> Unused] \in [Slots -> SlotType] BY <2>1
  <2>3. <<>> \in Seq(Clients) /\ <<>> \in Seq(Clients \cup {"died"}) /\ <<>> \in Seq({"died"})
    OBVIOUS
  <2>4. o \in ObjectType BY <2>2, <2>3 DEF NoObject, ObjectType, Nobody
  <2>5. QED BY <2>4 DEF NoObject
<1>9. t \in ThreadType /\ Formed(t) /\ t.pc = "idle" /\ t.op = "none" /\ t.cam = NoHandle
      /\ t.chan = NoHandle
  BY Returning
<1>10. Turn(c, t) /\ Put(h, o) BY <1>1, <1>3 DEF Turn, Return, Put
<1>11. given' \in [Cams -> Nat] /\ given'[h] = given[h] + 1
       /\ \A g \in Cams : g # h => given'[g] = given[g]
  BY <1>3, <1>7 DEF Inv, Types
<1>12. Scalars' BY <1>1, <1>3, <1>11 DEF Inv, Types, Scalars, Nobody
<1> HIDE DEF t, o
<1>13. Moved(c, t, h, o) BY <1>8, <1>9, <1>10 DEF Moved
<1>14. ShapeStep(c, t, h, o) BY <1>8, <1>9 DEF ShapeStep
<1>15. FindStep(c, t) BY <1>1, <1>9 DEF FindStep
<1>16. HoldStep(c, t, h, o) BY <1>6, <1>9 DEF HoldStep, Holds, InUse
<1>17. CloseStep(c, t, h, o) BY <1>6, <1>9 DEF CloseStep, Closes
<1>18. EndStep(c, t, h, o)
  <2>1. Ends(o) BY <1>8 DEF Ends
  <2>2. QED BY <1>6, <1>8, <1>9, <2>1 DEF EndStep, Holds
<1>19. MessageStep(c, t, h, o)
  BY <1>1, <1>6, <1>8, <1>9, CameraAssumption DEF MessageStep, Asks
<1>20. AloneStep(c, t) BY <1>1, <1>9, AloneSame
<1>21. ChannelStep(c, t, h, o)
  <2>1. \A i \in Slots : o.slot[i].hdl = NoHandle BY <1>8 DEF Unused
  <2>2. QED BY <1>1, <1>6, <1>9, <2>1 DEF ChannelStep, Uses
<1>22. Kept(c, t, h, o)
  BY <1>13, <1>14, <1>15, <1>16, <1>17, <1>18, <1>19, <1>20, <1>21 DEF Kept
<1>23. Handles'
  <2>1. ASSUME NEW g \in Cams PROVE cam'[g].state # "none" <=> (g = h \/ cam[g].state # "none")
    BY <1>8, <1>13, After DEF Inv
  <2>2. Known' = Known \cup {h} BY <2>1 DEF Known
  <2>3. n + 1 \in 0..MaxOpens /\ Known' = 1..(n + 1)
    <3>1. MaxOpens \in Nat BY CameraAssumption
    <3>2. n + 1 \in 0..MaxOpens BY <1>2, <1>5, <3>1 DEF Cams
    <3>3. 1..(n + 1) = 1..n \cup {n + 1} BY <1>5
    <3>4. QED BY <1>4, <1>5, <2>2, <3>2, <3>3
  <2>4. QED BY <2>3 DEF Handles
<1>24. Counted'
  <2>1. ~Owing(thread[c]) /\ ~Owing(t) BY <1>1, <1>9 DEF Owing
  <2>2. ASSUME NEW g \in Cams PROVE Pending(g)' = Pending(g)
    <3>1. c \notin Pending(g) BY <2>1 DEF Pending
    <3>2. QED BY <1>13, <2>1, <3>1, PendingAfter
  <2>3. ASSUME NEW g \in Cams
        PROVE  /\ table' = g <=> cam'[g].state = "live"
               /\ cam'[g].state = "live" <=> cam'[g].ref > 0
    <3>1. CASE g = h BY <1>3, <1>8, <1>13, <3>1, After DEF Inv
    <3>2. CASE g # h
      <4>1. cam'[g] = cam[g] BY <1>13, <3>2, After DEF Inv
      <4>2. table # g BY <1>1, SMT DEF Cams, NoHandle
      <4>3. QED BY <1>3, <3>2, <4>1, <4>2, AsIs
    <3>3. QED BY <3>1, <3>2
  <2>4. ASSUME NEW g \in Cams PROVE cam'[g].ref = given'[g] + Cardinality(Pending(g)')
    <3>1. cam[g].ref = given[g] + Cardinality(Pending(g)) BY AsIs
    <3>2. CASE g = h
      <4>1. cam'[g].ref = 1 BY <1>8, <1>13, <3>2, After DEF Inv
      <4>2. QED BY <1>7, <1>11, <2>2, <3>2, <4>1
    <3>3. CASE g # h
      <4>1. cam'[g] = cam[g] BY <1>13, <3>3, After DEF Inv
      <4>2. QED BY <1>11, <2>2, <3>1, <3>3, <4>1
    <3>4. QED BY <3>2, <3>3
  <2>5. QED BY <2>3, <2>4 DEF Counted, Pending, Owing
<1>25. Guarded'
  <2>1. \A g \in Cams : given[g] > 0 => given'[g] > 0
    <3> TAKE g \in Cams
    <3>1. CASE g = h BY <1>7, <1>11, <3>1
    <3>2. CASE g # h BY <1>11, <3>2
    <3>3. QED BY <3>1, <3>2
  <2>2. \A i \in Slots : ~o.slot[i].used BY <1>8 DEF Unused
  <2>3. GuardStep(c, t, h, o) BY <1>9, <2>1, <2>2 DEF GuardStep, OfChannel, ChanOps
  <2>4. QED BY <1>11, <1>13, <2>3, GuardKept DEF Inv
<1>26. Answers'
  <2>1. \A d \in Clients : ~Waits(thread[d], h)
    <3>1. h # NoHandle BY SMT DEF Cams, NoHandle
    <3>2. QED BY <1>6, <3>1, CallFacts DEF Waits
  <2>2. Quiet(o)
    <3>1. NoneIn(<<>>) BY DEF NoneIn
    <3>2. QED BY <1>8, <3>1, CameraAssumption DEF Quiet
  <2>3. QED BY <1>1, <1>9, <1>13, <2>1, <2>2, QuietKept DEF Inv
<1>27. QED BY <1>12, <1>22, <1>23, <1>24, <1>25, <1>26, StepKept
-----------------------------------------------------------------------------
(* The threads of an object, and the daemon.  The events that are queued,   *)
(* when one is added at the end or the first is taken.                      *)

Events == Seq(Clients \cup {"died"})

LEMMA NoneAppend ==
  ASSUME NEW e \in Events, NoneIn(e)
  PROVE  /\ NoneIn(Append(e, "died"))
         /\ \A d \in Clients : OneIn(Append(e, d), d)
BY SMT DEF Events, NoneIn, OneIn

LEMMA OneAppend ==
  ASSUME NEW e \in Events, NEW d, OneIn(e, d)
  PROVE  OneIn(Append(e, "died"), d)
<1>1. PICK i \in DOMAIN e : e[i] = d /\ \A j \in DOMAIN e : j # i => e[j] = "died"
  BY DEF OneIn
<1> DEFINE n == Append(e, "died")
<1>2. i \in DOMAIN n /\ n[i] = d BY <1>1, SMT DEF Events
<1>3. \A j \in DOMAIN n : j # i => n[j] = "died" BY <1>1, SMT DEF Events
<1>4. QED BY <1>2, <1>3 DEF OneIn

LEMMA NoneTail ==
  ASSUME NEW e \in Events, e # <<>>, NoneIn(e)
  PROVE  Head(e) = "died" /\ NoneIn(Tail(e))
BY SMT DEF Events, NoneIn

LEMMA OneTail ==
  ASSUME NEW e \in Events, NEW d, OneIn(e, d)
  PROVE  \/ Head(e) = d /\ NoneIn(Tail(e))
         \/ Head(e) = "died" /\ OneIn(Tail(e), d)
<1>1. PICK i \in DOMAIN e : e[i] = d /\ \A j \in DOMAIN e : j # i => e[j] = "died"
  BY DEF OneIn
<1>2. e # <<>> /\ DOMAIN Tail(e) = 1..(Len(e) - 1) /\ Head(e) = e[1]
      /\ \A j \in DOMAIN Tail(e) : Tail(e)[j] = e[j + 1] /\ j + 1 \in DOMAIN e
  BY <1>1, SMT DEF Events
<1>3. CASE i = 1
  <2>1. \A j \in DOMAIN Tail(e) : Tail(e)[j] = "died" BY <1>1, <1>2, <1>3, SMT
  <2>2. QED BY <1>1, <1>2, <1>3, <2>1 DEF NoneIn
<1>4. CASE i # 1
  <2>1. Head(e) = "died" BY <1>1, <1>2, <1>4, SMT DEF Events
  <2>2. i - 1 \in DOMAIN Tail(e) /\ Tail(e)[i - 1] = d BY <1>1, <1>2, <1>4, SMT DEF Events
  <2>3. \A j \in DOMAIN Tail(e) : j # i - 1 => Tail(e)[j] = "died"
    BY <1>1, <1>2, <1>4, SMT DEF Events
  <2>4. QED BY <2>1, <2>2, <2>3 DEF OneIn
<1>5. QED BY <1>3, <1>4

\* An object after a step of a thread of its, or of the daemon.
Worked(h, o) ==
  /\ o \in ObjectType
  /\ o.state = cam[h].state /\ o.ref = cam[h].ref /\ o.lock = cam[h].lock
  /\ o.msgLock = cam[h].msgLock /\ o.slot = cam[h].slot
  /\ Ends(o) /\ (o.poll = "gone" <=> cam[h].poll = "gone")
  /\ cam[h].poll = "gone" /\ Ended(cam[h]) => Ended(o)
  /\ Quiet(cam[h]) => Quiet(o)
  /\ \A d \in Clients : Waits(thread[d], h) /\ Owed(cam[h], d) => Owed(o, d)

\* The calls stay where they are, and the objects keep what the calls rely on.
LEMMA WorkInv ==
  ASSUME Inv, cam' \in [Cams -> ObjectType], \A h \in Cams : Worked(h, cam'[h]),
         alive' \in BOOLEAN, UNCHANGED <<intfLock, table, thread, made, given, channels>>
  PROVE  Inv'
<1>1. Types' BY DEF Inv, Types, ThreadType, ObjectType, SlotType, Nobody, Cams, Ops, Pcs
<1>2. ASSUME NEW h \in Cams
      PROVE  /\ cam'[h].state = cam[h].state /\ cam'[h].ref = cam[h].ref
             /\ cam'[h].lock = cam[h].lock /\ cam'[h].msgLock = cam[h].msgLock
             /\ cam'[h].slot = cam[h].slot
  BY DEF Worked
<1>3. ASSUME NEW c \in Clients
      PROVE  /\ thread[c].pc \notin {"idle", "enter"} => thread[c].cam \in Cams
             /\ thread[c].cam # NoHandle => thread[c].cam \in Cams
  <2>1. thread[c] \in ThreadType BY CallFacts
  <2>2. thread[c].cam # NoHandle => thread[c].cam \in Cams
    BY <2>1, SMT DEF ThreadType, Cams, NoHandle
  <2>3. QED BY <2>2, CallFacts
<1>4. Shape' BY <1>2, <1>3 DEF Inv, Shape, Formed
<1>5. Handles'
  <2>1. Known' = Known BY <1>2 DEF Known
  <2>2. QED BY <2>1 DEF Inv, Handles
<1>6. Counted'
  <2>1. \A h \in Cams : Pending(h)' = Pending(h) BY DEF Pending, Owing
  <2>2. QED BY <1>2, <2>1 DEF Inv, Counted
<1>7. Guarded' BY <1>2 DEF Inv, Guarded, OfChannel
<1>8. Finding' BY DEF Inv, Finding
<1>9. Holding'
  <2>1. ASSUME NEW c \in Clients, Holds(thread[c]) PROVE thread[c].cam \in Cams
    BY <1>3, <2>1 DEF Holds
  <2>2. QED BY <1>2, <2>1 DEF Inv, Holding, InUse, Holds
<1>10. Closing'
  <2>1. ASSUME NEW c \in Clients, Closes(thread[c]) PROVE thread[c].cam \in Cams
    BY <1>3, <2>1, CallFacts DEF Closes, Formed, Idle
  <2>2. QED BY <1>2, <2>1 DEF Inv, Closing, Closes
<1>11. Ending'
  <2>1. ASSUME NEW c \in Clients, thread[c].pc \in {"evt", "destroy"}
        PROVE  cam'[thread[c].cam].poll = "gone"
    BY <1>3, <2>1 DEF Inv, Ending, Worked
  <2>2. ASSUME NEW c \in Clients, thread[c].pc = "destroy"
        PROVE  Ended(cam'[thread[c].cam])
    BY <1>3, <2>2 DEF Inv, Ending, Worked
  <2>3. ASSUME NEW c \in Clients, Holds(thread[c]), thread[c].op # "close"
        PROVE  cam'[thread[c].cam].poll # "gone"
    BY <1>3, <2>3 DEF Inv, Ending, Worked, Holds
  <2>4. ASSUME NEW h \in Cams PROVE Ends(cam'[h]) BY DEF Worked
  <2>5. QED BY <2>1, <2>2, <2>3, <2>4 DEF Ending, Ends, Ended, Holds
<1>12. Messages'
  <2>1. ASSUME NEW c \in Clients, Asks(thread[c]) PROVE thread[c].cam \in Cams
    BY <1>3, <2>1 DEF Asks
  <2>2. QED BY <1>2, <2>1 DEF Inv, Messages, Asks
<1>13. Alone' BY DEF Inv, Alone, Changes
<1>14. Channels'
  <2>1. ASSUME NEW c \in Clients, Uses(thread[c]) \/ thread[c].pc = "wipe"
        PROVE  thread[c].cam \in Cams
    BY <1>3, <2>1 DEF Uses
  <2>2. QED BY <1>2, <2>1 DEF Inv, Channels, Uses, Wipes
<1>15. Answers'
  <2>1. ASSUME NEW h \in Cams, \A c \in Clients : ~Waits(thread[c], h) PROVE Quiet(cam'[h])
    BY <2>1 DEF Inv, Answers, Worked
  <2>2. ASSUME NEW h \in Cams, NEW c \in Clients, Waits(thread[c], h) PROVE Owed(cam'[h], c)
    BY <2>2 DEF Inv, Answers, Worked
  <2>3. QED BY <2>1, <2>2 DEF Answers, Waits, Quiet, Owed, NoneIn, OneIn
<1>16. QED BY <1>1, <1>4, <1>5, <1>6, <1>7, <1>8, <1>9, <1>10, <1>11, <1>12, <1>13, <1>14,
              <1>15 DEF Inv

\* One object at a time.
LEMMA OneWorked ==
  ASSUME Inv, NEW h \in Cams, NEW o, Put(h, o), Worked(h, o),
         UNCHANGED <<intfLock, table, thread, made, given, channels, alive>>
  PROVE  Inv'
<1>1. cam' \in [Cams -> ObjectType] BY DEF Inv, Types, Put, Worked
<1>2. ASSUME NEW g \in Cams PROVE Worked(g, cam'[g])
  <2>1. CASE g = h BY <2>1 DEF Inv, Types, Put
  <2>2. CASE g # h
    <3>1. cam'[g] = cam[g] BY <2>2 DEF Inv, Types, Put
    <3>2. Worked(g, cam[g]) BY AsIs DEF Worked
    <3>3. QED BY <3>1, <3>2
  <2>3. QED BY <2>1, <2>2
<1>3. alive' \in BOOLEAN BY DEF Inv, Types
<1>4. QED BY <1>1, <1>2, <1>3, WorkInv

LEMMA ReadEventInv ==
  ASSUME Inv, NEW h \in Cams, ReadEvent(h)
  PROVE  Inv'
<1> DEFINE e == cam[h].events
           o == [cam[h] EXCEPT !.poll = Head(e), !.events = Tail(e)]
<1>1. cam[h] \in ObjectType /\ Ends(cam[h]) BY AsIs
<1>2. cam[h].poll = "idle" /\ e # <<>> /\ e = cam[h].events BY DEF ReadEvent
<1>3. e \in Events BY <1>1 DEF ObjectType, Events
<1>4. Head(e) \in Clients \cup {"died"} /\ Tail(e) \in Seq(Clients \cup {"died"})
  BY <1>2, <1>3 DEF Events
<1>5. o \in ObjectType BY <1>1, <1>4 DEF ObjectType
<1>6. /\ o.state = cam[h].state /\ o.ref = cam[h].ref /\ o.lock = cam[h].lock
      /\ o.msgLock = cam[h].msgLock /\ o.slot = cam[h].slot /\ o.cbLock = cam[h].cbLock
      /\ o.evq = cam[h].evq /\ o.evt = cam[h].evt /\ o.sock = cam[h].sock
      /\ o.rcvd = cam[h].rcvd /\ o.poll = Head(e) /\ o.events = Tail(e)
  BY <1>1, <1>4 DEF ObjectType
<1>7. Put(h, o) BY DEF ReadEvent, Put, Inv, Types
<1> HIDE DEF e, o
<1>8. Head(e) # "gone" BY <1>4, CameraAssumption
<1>9. "died" \notin Clients /\ "idle" \notin Clients BY CameraAssumption
<1>10. Ends(o) BY <1>1, <1>2, <1>6, <1>8 DEF Ends, Ended
<1>11. Quiet(cam[h]) => Quiet(o)
  BY <1>2, <1>3, <1>6, <1>9, NoneTail DEF Quiet
<1>12. ASSUME NEW d \in Clients, Owed(cam[h], d) PROVE Owed(o, d)
  <2>1. CASE cam[h].sock = <<d>> /\ NoneIn(e) /\ cam[h].rcvd = NoOne
    BY <1>2, <1>3, <1>6, <1>9, <2>1, NoneTail DEF Owed
  <2>2. CASE cam[h].sock = <<>> /\ OneIn(e, d) /\ cam[h].rcvd = NoOne
    BY <1>2, <1>3, <1>6, <1>9, <2>2, OneTail DEF Owed
  <2>3. CASE cam[h].sock = <<>> /\ NoneIn(e) /\ cam[h].rcvd = d
    BY <1>2, <1>3, <1>6, <1>9, <2>3, NoneTail DEF Owed
  <2>4. QED BY <1>2, <1>9, <1>12, <2>1, <2>2, <2>3 DEF Owed
<1>13. Worked(h, o)
  BY <1>2, <1>5, <1>6, <1>8, <1>10, <1>11, <1>12 DEF Worked
<1>14. QED BY <1>7, <1>13, OneWorked DEF ReadEvent

LEMMA HandleEventInv ==
  ASSUME Inv, NEW h \in Cams, HandleEvent(h)
  PROVE  Inv'
<1> DEFINE p == cam[h].poll
           q == Append(cam[h].evq, "died")
           o == IF p = "died" THEN [cam[h] EXCEPT !.evq = q, !.poll = "idle"]
                              ELSE [cam[h] EXCEPT !.rcvd = p, !.poll = "idle"]
<1>1. cam[h] \in ObjectType /\ Ends(cam[h]) BY AsIs
<1>2. p \notin {"idle", "gone"} /\ p = cam[h].poll BY DEF HandleEvent
<1>3. p \in Clients \cup {"died"} BY <1>1, <1>2 DEF ObjectType
<1>4. q \in Seq({"died"}) BY <1>1 DEF ObjectType
<1>5. /\ o \in ObjectType
      /\ o.state = cam[h].state /\ o.ref = cam[h].ref /\ o.lock = cam[h].lock
      /\ o.msgLock = cam[h].msgLock /\ o.slot = cam[h].slot /\ o.cbLock = cam[h].cbLock
      /\ o.evt = cam[h].evt /\ o.sock = cam[h].sock /\ o.events = cam[h].events
      /\ o.poll = "idle" /\ (p = "died" => o.rcvd = cam[h].rcvd) /\ (p # "died" => o.rcvd = p)
  <2>1. CASE p = "died" BY <1>1, <1>4, <2>1 DEF ObjectType
  <2>2. CASE p # "died" BY <1>1, <1>3, <2>2 DEF ObjectType, Nobody
  <2>3. QED BY <2>1, <2>2
<1>6. Put(h, o)
  <2>1. CASE p = "died"
    <3>1. cam' = [cam EXCEPT ![h] = [@ EXCEPT !.evq = q, !.poll = "idle"]]
      BY <2>1, <1>1 DEF HandleEvent
    <3>2. QED BY <2>1, <3>1 DEF Put
  <2>2. CASE p # "died"
    <3>1. cam' = [cam EXCEPT ![h] = [@ EXCEPT !.rcvd = p, !.poll = "idle"]]
      BY <2>2 DEF HandleEvent
    <3>2. QED BY <2>2, <3>1 DEF Put
  <2>3. QED BY <2>1, <2>2
<1> HIDE DEF p, q, o
<1>7. "died" \notin Clients /\ "idle" \notin Clients /\ "gone" \notin Clients
  BY CameraAssumption
<1>8. Ends(o) BY <1>1, <1>2, <1>5 DEF Ends, Ended
<1>9. Quiet(cam[h]) => Quiet(o) BY <1>2, <1>3, <1>5, <1>7 DEF Quiet
<1>10. \A d \in Clients : Owed(cam[h], d) => Owed(o, d)
  BY <1>2, <1>3, <1>5, <1>7 DEF Owed
<1>11. Worked(h, o) BY <1>2, <1>5, <1>8, <1>9, <1>10 DEF Worked
<1>12. QED BY <1>6, <1>11, OneWorked DEF HandleEvent

\* The event thread of an object has nothing to do with the messages.
LEMMA EventThreadInv ==
  ASSUME Inv, NEW h \in Cams, NEW q \in Seq({"died"}), NEW s \in {"idle", "calls"},
         NEW r \in SUBSET Clients, cam[h].evt # "gone",
         Put(h, [cam[h] EXCEPT !.evt = s, !.cbLock = (s = "calls"), !.evq = q, !.told = r]),
         UNCHANGED <<intfLock, table, thread, made, given, channels, alive>>
  PROVE  Inv'
<1> DEFINE o == [cam[h] EXCEPT !.evt = s, !.cbLock = (s = "calls"), !.evq = q, !.told = r]
<1>1. cam[h] \in ObjectType /\ Ends(cam[h]) BY AsIs
<1>2. /\ o \in ObjectType
      /\ o.state = cam[h].state /\ o.ref = cam[h].ref /\ o.lock = cam[h].lock
      /\ o.msgLock = cam[h].msgLock /\ o.slot = cam[h].slot /\ o.sock = cam[h].sock
      /\ o.events = cam[h].events /\ o.poll = cam[h].poll /\ o.rcvd = cam[h].rcvd
      /\ o.evt = s /\ (o.cbLock <=> s = "calls")
  BY <1>1 DEF ObjectType
<1>3. Put(h, o) OBVIOUS
<1> HIDE DEF o
<1>4. Ends(o) BY <1>1, <1>2 DEF Ends, Ended
<1>5. Worked(h, o) BY <1>2, <1>4 DEF Worked, Quiet, Owed, Ended
<1>6. QED BY <1>3, <1>5, OneWorked

LEMMA DispatchInv ==
  ASSUME Inv, NEW h \in Cams, Dispatch(h)
  PROVE  Inv'
<1>1. cam[h] \in ObjectType BY AsIs
<1> DEFINE q == Tail(cam[h].evq)
           r == cam[h].told
<1>2. cam[h].evt = "idle" /\ q \in Seq({"died"}) /\ r \in SUBSET Clients
  BY <1>1 DEF Dispatch, ObjectType
<1>3. [cam[h] EXCEPT !.evt = "calls", !.cbLock = TRUE, !.evq = q]
        = [cam[h] EXCEPT !.evt = "calls", !.cbLock = ("calls" = "calls"), !.evq = q, !.told = r]
  BY <1>1 DEF ObjectType
<1>4. cam' = [cam EXCEPT ![h] = [@ EXCEPT !.evt = "calls", !.cbLock = TRUE, !.evq = q]]
  BY <1>1 DEF Dispatch
<1> HIDE DEF q, r
<1>5. Put(h, [cam[h] EXCEPT !.evt = "calls", !.cbLock = ("calls" = "calls"), !.evq = q,
                            !.told = r])
  BY <1>3, <1>4 DEF Put
<1>6. QED BY <1>2, <1>5, EventThreadInv DEF Dispatch

LEMMA CalledInv ==
  ASSUME Inv, NEW h \in Cams, Called(h)
  PROVE  Inv'
<1>1. cam[h] \in ObjectType BY AsIs
<1> DEFINE q == cam[h].evq
           r == cam[h].reg
<1>2. cam[h].evt = "calls" /\ q \in Seq({"died"}) /\ r \in SUBSET Clients
  BY <1>1 DEF Called, ObjectType
<1>3. [cam[h] EXCEPT !.evt = "idle", !.cbLock = FALSE, !.told = r]
        = [cam[h] EXCEPT !.evt = "idle", !.cbLock = ("idle" = "calls"), !.evq = q, !.told = r]
  BY <1>1 DEF ObjectType
<1>4. cam' = [cam EXCEPT ![h] = [@ EXCEPT !.evt = "idle", !.cbLock = FALSE, !.told = r]]
  BY <1>1 DEF Called
<1> HIDE DEF q, r
<1>5. Put(h, [cam[h] EXCEPT !.evt = "idle", !.cbLock = ("idle" = "calls"), !.evq = q,
                            !.told = r])
  BY <1>3, <1>4 DEF Put
<1>6. QED BY <1>2, <1>5, EventThreadInv DEF Called

\* As long as a client waits, events come: a map call has cam_lock, and a channel call has
\* a handle that is given out, so that no close has unsubscribed.
LEMMA WaiterPolled ==
  ASSUME Inv, NEW d \in Clients, Asks(thread[d])
  PROVE  cam[thread[d].cam].poll # "gone"
<1> DEFINE h == thread[d].cam
<1>1. h \in Cams /\ thread[d].op \in {"map", "smap"} BY Asker
<1>2. CASE thread[d].op = "map"
  BY <1>2 DEF Asks, Holds, Inv, Ending
<1>3. CASE thread[d].op = "smap"
  <2>1. given[h] # 0 BY <1>1, <1>3 DEF Inv, Guarded, OfChannel, ChanOps
  <2>2. given[h] \in Nat /\ Cardinality(Pending(h)) \in Nat BY <1>1, Counts, AsIs
  <2>3. cam[h].ref > 0 BY <1>1, <2>1, <2>2, AsIs
  <2>4. QED BY <1>1, <2>3, AsIs DEF Ends
<1>4. QED BY <1>1, <1>2, <1>3

LEMMA AnswerInv ==
  ASSUME Inv, NEW h \in Cams, Answer(h)
  PROVE  Inv'
<1>1. cam[h] \in ObjectType /\ Ends(cam[h]) BY AsIs
<1>2. cam[h].sock # <<>> BY DEF Answer
<1>3. PICK d \in Clients : Waits(thread[d], h) BY <1>2 DEF Inv, Answers, Quiet
<1>4. /\ cam[h].sock = <<d>> /\ NoneIn(cam[h].events) /\ cam[h].poll \notin Clients
      /\ cam[h].rcvd = NoOne
  BY <1>2, <1>3 DEF Inv, Answers, Owed
<1>5. ASSUME NEW b \in Clients, Waits(thread[b], h) PROVE b = d
  BY <1>3, <1>5 DEF Waits, Asks, Inv, Messages
<1>6. Subscribed(h) BY <1>3, WaiterPolled DEF Waits, Asks, Subscribed
<1> DEFINE e == Append(cam[h].events, d)
           o == [cam[h] EXCEPT !.sock = <<>>, !.events = e]
<1>7. Head(cam[h].sock) = d /\ Tail(cam[h].sock) = <<>> BY <1>4
<1>8. cam[h].events \in Events /\ e \in Seq(Clients \cup {"died"})
  BY <1>1 DEF ObjectType, Events
<1>9. /\ o \in ObjectType
      /\ o.state = cam[h].state /\ o.ref = cam[h].ref /\ o.lock = cam[h].lock
      /\ o.msgLock = cam[h].msgLock /\ o.slot = cam[h].slot /\ o.cbLock = cam[h].cbLock
      /\ o.evq = cam[h].evq /\ o.evt = cam[h].evt /\ o.poll = cam[h].poll
      /\ o.rcvd = cam[h].rcvd /\ o.sock = <<>> /\ o.events = e
  <2>1. <<>> \in Seq(Clients) OBVIOUS
  <2>2. QED BY <1>1, <1>8, <2>1 DEF ObjectType
<1>10. Put(h, o)
  <2>1. cam' = [cam EXCEPT ![h].sock = <<>>, ![h].events = e]
    BY <1>6, <1>7 DEF Answer, Inv, Types
  <2> HIDE DEF e
  <2>2. QED BY <2>1 DEF Put, Inv, Types
<1>11. OneIn(e, d) BY <1>4, <1>8, NoneAppend
<1> HIDE DEF e, o
<1>12. Ends(o) BY <1>1, <1>9 DEF Ends, Ended
<1>13. ~Quiet(cam[h]) BY <1>2 DEF Quiet
<1>14. Owed(o, d) BY <1>4, <1>9, <1>11 DEF Owed
<1>15. Worked(h, o) BY <1>5, <1>9, <1>12, <1>13, <1>14 DEF Worked, Ended
<1>16. QED BY <1>10, <1>15, OneWorked DEF Answer

LEMMA DieInv ==
  ASSUME Inv, Die
  PROVE  Inv'
<1>1. ASSUME NEW h \in Cams
      PROVE  Worked(h, IF Subscribed(h) THEN [cam[h] EXCEPT !.events = Append(@, "died")]
                                        ELSE cam[h])
  <2> DEFINE e == Append(cam[h].events, "died")
             o == [cam[h] EXCEPT !.events = e]
  <2>1. cam[h] \in ObjectType /\ Ends(cam[h]) BY AsIs
  <2>2. cam[h].events \in Events /\ e \in Seq(Clients \cup {"died"})
    BY <2>1 DEF ObjectType, Events
  <2>3. /\ o \in ObjectType
        /\ o.state = cam[h].state /\ o.ref = cam[h].ref /\ o.lock = cam[h].lock
        /\ o.msgLock = cam[h].msgLock /\ o.slot = cam[h].slot /\ o.cbLock = cam[h].cbLock
        /\ o.evq = cam[h].evq /\ o.evt = cam[h].evt /\ o.poll = cam[h].poll
        /\ o.rcvd = cam[h].rcvd /\ o.sock = cam[h].sock /\ o.events = e
    BY <2>1, <2>2 DEF ObjectType
  <2>4. NoneIn(cam[h].events) => NoneIn(e) BY <2>2, NoneAppend
  <2>5. \A d : OneIn(cam[h].events, d) => OneIn(e, d) BY <2>2, OneAppend
  <2>6. Worked(h, cam[h]) BY <2>1 DEF Worked
  <2> HIDE DEF e
  <2>7. o = [cam[h] EXCEPT !.events = e] OBVIOUS
  <2> HIDE DEF o
  <2>8. Ends(o) BY <2>1, <2>3 DEF Ends, Ended
  <2>9. Quiet(cam[h]) => Quiet(o) BY <2>3, <2>4 DEF Quiet
  <2>10. \A d \in Clients : Owed(cam[h], d) => Owed(o, d) BY <2>3, <2>4, <2>5 DEF Owed
  <2>11. Worked(h, o) BY <2>3, <2>8, <2>9, <2>10 DEF Worked, Ended
  <2>12. QED BY <2>6, <2>7, <2>11 DEF e
<1>2. \A h \in Cams : Worked(h, cam'[h]) BY <1>1 DEF Die
<1>3. cam' \in [Cams -> ObjectType]
  <2>1. \A h \in Cams : cam'[h] \in ObjectType BY <1>2 DEF Worked
  <2>2. QED BY <2>1 DEF Die
<1>4. QED BY <1>2, <1>3, WorkInv DEF Die
-----------------------------------------------------------------------------
(* The theorems. *)

LEMMA InitInv == Init => Inv
<1> SUFFICES ASSUME Init PROVE Inv
  OBVIOUS
<1>1. ASSUME NEW c \in Clients PROVE thread[c] = Idle BY DEF Init
<1>2. /\ Idle.pc = "idle" /\ Idle.op = "none" /\ Idle.cam = NoHandle /\ Idle.chan = NoHandle
      /\ Idle \in ThreadType /\ Formed(Idle)
  BY Returning
<1>3. ASSUME NEW h \in Cams PROVE cam[h] = NoObject /\ given[h] = 0 BY DEF Init
<1>4. /\ NoObject \in ObjectType /\ NoObject.state = "none" /\ NoObject.ref = 0
      /\ NoObject.msgLock = NoOne /\ ~NoObject.cbLock /\ NoObject.sock = <<>>
      /\ NoObject.events = <<>> /\ NoObject.poll = "gone" /\ NoObject.rcvd = NoOne
      /\ NoObject.evq = <<>> /\ NoObject.evt = "gone"
      /\ NoObject.slot = [i \in Slots |-> Unused]
  <2>1. Unused \in SlotType BY CameraAssumption DEF Unused, SlotType, Nobody, NoHandle
  <2>2. [i \in Slots |-> Unused] \in [Slots -> SlotType] BY <2>1
  <2>3. <<>> \in Seq(Clients) /\ <<>> \in Seq(Clients \cup {"died"}) /\ <<>> \in Seq({"died"})
    OBVIOUS
  <2>4. NoObject \in ObjectType BY <2>2, <2>3 DEF NoObject, ObjectType, Nobody
  <2>5. QED BY <2>4 DEF NoObject
<1>5. Types
  <2>1. cam \in [Cams -> ObjectType] BY <1>4 DEF Init
  <2>2. thread \in [Clients -> ThreadType] BY <1>2 DEF Init
  <2>3. channels \in 0..MaxChannels BY CameraAssumption DEF Init
  <2>4. QED BY <2>1, <2>2, <2>3 DEF Init, Types, Nobody
<1>6. Shape BY <1>1, <1>2 DEF Shape
<1>7. Handles
  <2>1. Known = {} BY <1>3, <1>4 DEF Known
  <2>2. Known = 1..0 /\ 0 \in 0..MaxOpens BY <2>1, CameraAssumption
  <2>3. QED BY <2>2 DEF Handles
<1>8. Counted
  <2>1. ASSUME NEW h \in Cams PROVE Pending(h) = {} BY <1>1, <1>2 DEF Pending, Owing
  <2>2. Cardinality({}) = 0 BY FS_EmptySet
  <2>3. \A h \in Cams : h # NoHandle BY SMT DEF Cams, NoHandle
  <2>4. ASSUME NEW h \in Cams
        PROVE  /\ table # h /\ cam[h].state # "live" /\ cam[h].ref = 0 /\ given[h] = 0
               /\ Cardinality(Pending(h)) = 0
    BY <1>3, <1>4, <2>1, <2>2, <2>3 DEF Init
  <2>5. QED BY <2>4 DEF Counted
<1>9. Guarded
  <2>1. ~OfChannel(Idle) BY <1>2 DEF OfChannel, ChanOps
  <2>2. \A h \in Cams, i \in Slots : ~cam[h].slot[i].used BY <1>3, <1>4 DEF Unused
  <2>3. QED BY <1>1, <2>1, <2>2 DEF Guarded
<1>10. Finding BY <1>1, <1>2 DEF Finding
<1>11. Holding BY <1>1, <1>2 DEF Holding, Holds
<1>12. Closing BY <1>1, <1>2 DEF Closing, Closes
<1>13. Ending
  <2>1. Ends(NoObject) BY <1>4 DEF Ends
  <2>2. QED BY <1>1, <1>2, <1>3, <2>1 DEF Ending, Holds
<1>14. Messages BY <1>1, <1>2, <1>3, <1>4 DEF Messages, Asks
<1>15. Alone BY <1>1, <1>2 DEF Alone, Changes
<1>16. Channels
  <2>1. \A h \in Cams, i \in Slots : cam[h].slot[i].hdl = NoHandle BY <1>3, <1>4 DEF Unused
  <2>2. QED BY <1>1, <1>2, <2>1 DEF Channels, Uses
<1>17. Answers
  <2>1. Quiet(NoObject) BY <1>4, CameraAssumption DEF Quiet, NoneIn
  <2>2. QED BY <1>1, <1>2, <1>3, <2>1 DEF Answers, Waits
<1>18. QED BY <1>5, <1>6, <1>7, <1>8, <1>9, <1>10, <1>11, <1>12, <1>13, <1>14, <1>15, <1>16,
              <1>17 DEF Inv

\* A call begins with the handle of an object that there was.
LEMMA BeginsInv ==
  ASSUME Inv, NEW c \in Clients,
         \/ BeginOpen(c)
         \/ \E h \in Known : BeginClose(c, h)
         \/ \E h \in Known, ch \in 0..channels, op \in CamOps \cup ChanOps :
              BeginCall(c, op, h, ch)
  PROVE  Inv'
<1>1. ASSUME BeginOpen(c) PROVE Inv'
  <2>1. "open" \in Ops \ {"none", "close"} /\ NoHandle \in 0..MaxChannels
    BY CameraAssumption DEF Ops, NoHandle
  <2>2. Begin(c, "open", NoHandle, NoHandle) /\ given' = given BY <1>1 DEF BeginOpen
  <2>3. QED BY <2>1, <2>2, BeginInv
<1>2. ASSUME NEW h \in Known, BeginClose(c, h) PROVE Inv'
  BY <1>2, BeginCloseInv DEF Known
<1>3. ASSUME NEW h \in Known, NEW ch \in 0..channels, NEW op \in CamOps \cup ChanOps,
             BeginCall(c, op, h, ch)
      PROVE  Inv'
  <2>1. op \in Ops \ {"none", "close"} /\ op # "open" BY DEF Ops, CamOps, ChanOps
  <2>2. ch \in 0..MaxChannels BY CameraAssumption, SMT DEF Inv, Types
  <2>3. MayCall(op, h, ch) /\ Begin(c, op, h, ch) /\ given' = given BY <1>3 DEF BeginCall
  <2>4. QED BY <2>1, <2>2, <2>3, BeginInv
<1>4. QED BY <1>1, <1>2, <1>3

LEMMA StepInv ==
  ASSUME Inv, NEW c \in Clients, Step(c)
  PROVE  Inv'
<1>1. CASE OpenFirst(c) \/ OpenFails(c) \/ OpenAgain(c) \/ OpenReturns(c)
  BY <1>1, OpenFirstInv, OpenFailsInv, OpenAgainInv, OpenReturnsInv
<1>2. CASE Refused(c) \/ Find(c) \/ FindToClose(c) \/ TakeCamLock(c)
  BY <1>2, RefusedInv, FindInv, FindToCloseInv, TakeCamLockInv
<1>3. CASE Query(c) \/ Register(c) \/ AddChannel(c) \/ FindChannel(c) \/ TakeChLock(c)
  BY <1>3, QueryInv, RegisterInv, AddChannelInv, FindChannelInv, TakeChLockInv
<1>4. CASE ChannelEvent(c) \/ DeleteEvent(c) \/ WipeSlot(c) \/ Qbuf(c)
  BY <1>4, ChannelEventInv, DeleteEventInv, WipeSlotInv, QbufInv
<1>5. CASE TakeMsgLock(c) \/ Send(c) \/ SendFails(c) \/ TakeStatus(c)
  BY <1>5, TakeMsgLockInv, SendInv, SendFailsInv, TakeStatusInv
<1>6. CASE Unsubscribe(c) \/ JoinPoll(c) \/ JoinEvt(c) \/ Destroy(c) \/ Free(c)
  BY <1>6, UnsubscribeInv, JoinPollInv, JoinEvtInv, DestroyInv, FreeInv
<1>7. QED BY <1>1, <1>2, <1>3, <1>4, <1>5, <1>6 DEF Step

LEMMA NextInv == Inv /\ [Next]_vars => Inv'
<1> SUFFICES ASSUME Inv, [Next]_vars PROVE Inv'
  OBVIOUS
<1>1. ASSUME NEW c \in Clients,
             \/ BeginOpen(c)
             \/ \E h \in Known : BeginClose(c, h)
             \/ \E h \in Known, ch \in 0..channels, op \in CamOps \cup ChanOps :
                  BeginCall(c, op, h, ch)
      PROVE  Inv'
  BY <1>1, BeginsInv
<1>2. ASSUME NEW c \in Clients, Step(c) PROVE Inv'
  BY <1>2, StepInv
<1>3. ASSUME NEW h \in Cams, Work(h) PROVE Inv'
  BY <1>3, ReadEventInv, HandleEventInv, DispatchInv, CalledInv, AnswerInv DEF Work
<1>4. CASE Die BY <1>4, DieInv
<1>5. CASE UNCHANGED vars
  <2>1. ASSUME NEW h \in Cams PROVE Worked(h, cam'[h])
    BY <1>5, AsIs DEF vars, Worked
  <2>2. cam' \in [Cams -> ObjectType] /\ alive' \in BOOLEAN BY <1>5 DEF vars, Inv, Types
  <2>3. QED BY <1>5, <2>1, <2>2, WorkInv DEF vars
<1>6. QED BY <1>1, <1>2, <1>3, <1>4, <1>5 DEF Next

\* The invariant from which the two properties follow, for any clients that share the
\* handles, any number of opens, channels and calls: where each call is, what it holds
\* and what the objects in its hands still are.
THEOREM InvariantCorrect == Spec => []Inv
BY InitInv, NextInv, PTL DEF Spec

LEMMA KeepsObjects ==
  ASSUME Inv
  PROVE  ObjectsKept
<1>1. TypeOK BY DEF Inv, Types, TypeOK, ObjectType, Nobody
<1>2. ASSUME NEW c \in Clients, thread[c].pc \in UsesObject
      PROVE  InUse(cam[thread[c].cam])
  <2>1. thread[c].cam \in Cams /\ Formed(thread[c])
    BY <1>2, CallFacts DEF UsesObject
  <2>2. CASE thread[c].op = "close"
    <3>1. Closes(thread[c]) /\ thread[c].pc # "free" BY <1>2, <2>2 DEF Closes, UsesObject
    <3>2. QED BY <3>1 DEF Inv, Closing, InUse
  <2>3. CASE thread[c].op # "close" /\ thread[c].pc = "found"
    BY <2>1, <2>3 DEF Inv, Finding, Counted, InUse
  <2>4. CASE Holds(thread[c]) BY <2>4 DEF Inv, Holding
  <2>5. CASE thread[c].op \in ChanOps
    <3>1. given[thread[c].cam] # 0 BY <2>1, <2>5 DEF Inv, Guarded, OfChannel
    <3>2. /\ given[thread[c].cam] \in Nat /\ Cardinality(Pending(thread[c].cam)) \in Nat
          /\ cam[thread[c].cam].ref = given[thread[c].cam] + Cardinality(Pending(thread[c].cam))
          /\ cam[thread[c].cam].ref > 0 => cam[thread[c].cam].state = "live"
      BY <2>1, Counts, AsIs
    <3>3. QED BY <3>1, <3>2 DEF InUse
  <2>6. QED BY <1>2, <2>1, <2>2, <2>3, <2>4, <2>5 DEF Formed, UsesObject, Holds, ChanOps
<1>3. ASSUME NEW c \in Clients, UsesChannel(c)
      PROVE  /\ cam[thread[c].cam].slot[thread[c].slot].hdl = thread[c].chan
             /\ cam[thread[c].cam].slot[thread[c].slot].used
  BY <1>3 DEF Inv, Channels, Uses, UsesChannel
<1>4. ASSUME NEW c \in Clients, thread[c].pc = "opened" PROVE table = thread[c].cam
  BY <1>4, OwingLive DEF Owing
<1>5. ASSUME NEW h \in Cams, given[h] > 0 PROVE cam[h].state = "live" /\ table = h
  BY <1>5, AsIs, Counts
<1>6. ASSUME NEW h \in Cams, cam[h].state \in {"destroyed", "freed"}
      PROVE  /\ cam[h].poll = "gone" /\ cam[h].evt = "gone" /\ cam[h].evq = <<>>
             /\ cam[h].msgLock = NoOne /\ ~cam[h].cbLock
  <2>1. cam[h].poll = "gone" /\ Ended(cam[h]) /\ ~cam[h].cbLock
    BY <1>6, AsIs DEF Ends, Ended
  <2>2. cam[h].msgLock = NoOne
    <3>1. SUFFICES ASSUME cam[h].msgLock # NoOne PROVE FALSE
      OBVIOUS
    <3>2. /\ cam[h].msgLock \in Clients /\ Asks(thread[cam[h].msgLock])
          /\ thread[cam[h].msgLock].cam = h
      BY <3>1, AsIs DEF Inv, Messages, ObjectType, Nobody
    <3>3. QED BY <2>1, <3>2, WaiterPolled
  <2>3. QED BY <2>1, <2>2 DEF Ended
<1>7. QED BY <1>1, <1>2, <1>3, <1>4, <1>5, <1>6 DEF ObjectsKept, InUse

\* Whoever uses a camera object, a slot of it, or one of its threads, has it until it is
\* done, whatever closes, opens and deletions the other clients make meanwhile: the code
\* from mm_camera_util_get_camera_by_handler to the unlock of cam_lock or ch_lock.
THEOREM ObjectsCorrect == Spec => []ObjectsKept
BY InvariantCorrect, KeepsObjects, PTL

LEMMA NobodyAnswered ==
  ASSUME NEW h \in Cams, Inv, Quiet(cam[h])
  PROVE  UnderWay(h) = {}
<1>1. cam[h] \in ObjectType BY AsIs
<1>2. \A i \in 1..Len(cam[h].events) : cam[h].events[i] \notin Clients
  BY <1>1, CameraAssumption DEF Quiet, NoneIn, ObjectType
<1>3. QED BY <1>2, CameraAssumption DEF UnderWay, Quiet

LEMMA OneAnswered ==
  ASSUME NEW h \in Cams, NEW d \in Clients, Inv, Owed(cam[h], d)
  PROVE  \E m : UnderWay(h) = {m} /\ m[3] = d
<1>1. cam[h] \in ObjectType BY AsIs
<1>2. DOMAIN cam[h].events = 1..Len(cam[h].events) BY <1>1 DEF ObjectType
<1>3. "died" \notin Clients /\ NoOne \notin Clients BY CameraAssumption
<1>4. CASE cam[h].sock = <<d>> /\ NoneIn(cam[h].events) /\ cam[h].poll \notin Clients
           /\ cam[h].rcvd = NoOne
  <2>1. UnderWay(h) = {<<"sock", 1, d>>} BY <1>2, <1>3, <1>4 DEF UnderWay, NoneIn
  <2>2. <<"sock", 1, d>>[3] = d OBVIOUS
  <2>3. QED BY <2>1, <2>2, Zenon
<1>5. CASE cam[h].sock = <<>> /\ OneIn(cam[h].events, d) /\ cam[h].poll \notin Clients
           /\ cam[h].rcvd = NoOne
  <2>1. PICK i \in DOMAIN cam[h].events :
          cam[h].events[i] = d /\ \A j \in DOMAIN cam[h].events : j # i => cam[h].events[j] = "died"
    BY <1>5 DEF OneIn
  <2>2. UnderWay(h) = {<<"event", i, d>>} BY <1>2, <1>3, <1>5, <2>1 DEF UnderWay
  <2>3. <<"event", i, d>>[3] = d OBVIOUS
  <2>4. QED BY <2>2, <2>3, Zenon
<1>6. CASE cam[h].sock = <<>> /\ NoneIn(cam[h].events) /\ cam[h].poll = d
           /\ cam[h].rcvd = NoOne
  <2>1. UnderWay(h) = {<<"poll", 0, d>>} BY <1>2, <1>3, <1>6 DEF UnderWay, NoneIn
  <2>2. <<"poll", 0, d>>[3] = d OBVIOUS
  <2>3. QED BY <2>1, <2>2, Zenon
<1>7. CASE cam[h].sock = <<>> /\ NoneIn(cam[h].events) /\ cam[h].poll \notin Clients
           /\ cam[h].rcvd = d
  <2>1. UnderWay(h) = {<<"rcvd", 0, d>>} BY <1>2, <1>3, <1>7 DEF UnderWay, NoneIn
  <2>2. <<"rcvd", 0, d>>[3] = d OBVIOUS
  <2>3. QED BY <2>1, <2>2, Zenon
<1>8. QED BY <1>4, <1>5, <1>6, <1>7 DEF Owed

LEMMA MatchesAnswers ==
  ASSUME Inv
  PROVE  AnswersMatched
<1>1. ASSUME NEW h \in Cams, \A c \in Clients : ~Waits(thread[c], h)
      PROVE  UnderWay(h) = {} /\ Cardinality(UnderWay(h)) = 0
  <2>1. UnderWay(h) = {} BY <1>1, NobodyAnswered DEF Inv, Answers
  <2>2. QED BY <2>1, FS_EmptySet
<1>2. ASSUME NEW h \in Cams, NEW d \in Clients, Waits(thread[d], h)
      PROVE  /\ Cardinality(UnderWay(h)) = 1
             /\ \A m \in UnderWay(h) : m[3] = cam[h].msgLock /\ At(m[3], "wait")
  <2>1. PICK m : UnderWay(h) = {m} /\ m[3] = d BY <1>2, OneAnswered DEF Inv, Answers
  <2>2. Cardinality({m}) = 1 BY FS_Singleton
  <2>3. cam[h].msgLock = d /\ At(d, "wait") BY <1>2 DEF Waits, Asks, At, Inv, Messages
  <2>4. QED BY <2>1, <2>2, <2>3
<1>3. ASSUME NEW h \in Cams
      PROVE  /\ \A m \in UnderWay(h) : m[3] = cam[h].msgLock /\ At(m[3], "wait")
             /\ Cardinality(UnderWay(h)) <= 1
             /\ \A c \in Clients : At(c, "wait") /\ thread[c].cam = h =>
                                     Cardinality(UnderWay(h)) = 1
  <2>1. CASE \A c \in Clients : ~Waits(thread[c], h)
    BY <1>1, <2>1 DEF Waits, At
  <2>2. CASE \E c \in Clients : Waits(thread[c], h)
    BY <1>2, <2>2 DEF Waits, At
  <2>3. QED BY <2>1, <2>2
<1>4. QED BY <1>3 DEF AnswersMatched

\* mm_camera_util_sendmsg and mm_camera_event_notify, which do not say whose answer it is:
\* there is never more than one message under way, it is that of the thread that waits
\* with msg_lock, and a thread that waits has its own on the way to it.
THEOREM AnswersCorrect == Spec => []AnswersMatched
BY InvariantCorrect, MatchesAnswers, PTL
=============================================================================
