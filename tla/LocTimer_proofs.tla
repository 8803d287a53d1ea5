--------------------------- MODULE LocTimer_proofs ---------------------------
(***************************************************************************)
(* Proofs about LocTimer, for any timers and delays.                       *)
(*                                                                         *)
(* Whatever clients do: the types, that the kernel timer is set for the    *)
(* soonest timer (SoonestArmed), and that every step is one of the service *)
(* (TimerService).  When clients leave timers alone that are just expiring:*)
(* that no object is used after its deletion or left behind (ObjectsLive). *)
(***************************************************************************)
EXTENDS LocTimer, SequenceTheorems, TLAPS

Msgs == [type : {"push", "remove"}, timer : Timers] \cup {Msg("expire", NoTimer)}

Has(q, m) == \E i \in DOMAIN q : q[i] = m

\* The thread of the MsgTask has a timer exactly when it is in MsgTimerExpire, and the
\* heap has a top unless it is empty.
Shape ==
  /\ msgs \in Seq(Msgs)
  /\ tpc = "idle" <=> cur = NoTimer
  /\ heap # {} => top # NoTimer

\* What the heap and the messages refer to has been started.
Started ==
  /\ \A t \in Timers : app[t] = "new" => t \notin heap
  /\ \A t \in Timers : app[t] \in {"new", "starting"} => ~Has(msgs, Msg("push", t))

\* The top is a soonest timer.
Least == \A t \in heap : Sec(futureTime[top]) <= Sec(futureTime[t])

\* The kernel timer has expired, and the heap has not been worked off since.
Expiring == ppc # "wait" \/ tpc # "idle" \/ Has(msgs, Msg("expire", NoTimer))

KernelSet ==
  heap # {} /\ ~Expiring => polled /\ armed # -1 /\ Sec(armed) <= Sec(futureTime[top])

\* Who finds mTimer set finds the timer pending.
Undecided ==
  \A t \in Timers :
    /\ app[t] = "new" => outcome[t] = "none" /\ ~mTimer[t]
    /\ app[t] = "starting" => outcome[t] = "pending" /\ ~mTimer[t]
    /\ mTimer[t] => outcome[t] = "pending"

HeapInv == TypeOK /\ Shape /\ Started /\ Least /\ KernelSet /\ Undecided
-----------------------------------------------------------------------------
LEMMA SecType == ASSUME NEW n \in Int PROVE Sec(n) \in Int
BY LocTimerAssumption DEF Sec

LEMMA MsgTypes ==
  ASSUME NEW t \in Timers
  PROVE  /\ Msg("push", t) \in Msgs /\ Msg("remove", t) \in Msgs /\ Msg("expire", NoTimer) \in Msgs
         /\ Msg("push", t).type = "push" /\ Msg("push", t).timer = t
         /\ Msg("remove", t).type = "remove" /\ Msg("remove", t).timer = t
         /\ Msg("push", t) # Msg("remove", t)
         /\ Msg("expire", NoTimer) \notin {Msg("push", t), Msg("remove", t)}
BY LocTimerAssumption DEF Msgs, Msg

LEMMA MsgForms ==
  ASSUME NEW m \in Msgs
  PROVE  /\ m.type \in {"push", "remove", "expire"} /\ m.timer \in Timers \cup {NoTimer}
         /\ m.type = "push" => m.timer \in Timers /\ m = Msg("push", m.timer)
         /\ m.type = "remove" => m.timer \in Timers /\ m = Msg("remove", m.timer)
         /\ m.type = "expire" => m = Msg("expire", NoTimer)
         /\ m.timer # NoTimer => m.timer \in Timers /\ m.type \in {"push", "remove"}
BY LocTimerAssumption DEF Msgs, Msg

\* A queue of messages is one of the type invariant.
LEMMA MsgsType ==
  ASSUME NEW q \in Seq(Msgs)
  PROVE  q \in Seq([type : {"push", "remove", "expire"}, timer : Timers \cup {NoTimer}])
<1>1. Msgs \subseteq [type : {"push", "remove", "expire"}, timer : Timers \cup {NoTimer}]
  BY DEF Msgs, Msg
<1> QED
  BY <1>1, SeqMonotonic

LEMMA AppendHas ==
  ASSUME NEW q \in Seq(Msgs), NEW m \in Msgs
  PROVE  /\ Append(q, m) \in Seq(Msgs)
         /\ \A n : Has(Append(q, m), n) <=> Has(q, n) \/ n = m
<1>1. /\ Append(q, m) \in Seq(Msgs) /\ DOMAIN Append(q, m) = 1..Len(q) + 1
      /\ DOMAIN q = 1..Len(q) /\ Len(q) \in Nat
      /\ \A i \in 1..Len(q) : Append(q, m)[i] = q[i]
      /\ Append(q, m)[Len(q) + 1] = m
  OBVIOUS
<1> QED
  BY <1>1 DEF Has

LEMMA TailHas ==
  ASSUME NEW q \in Seq(Msgs), q # <<>>
  PROVE  /\ Tail(q) \in Seq(Msgs) /\ Head(q) \in Msgs /\ Has(q, Head(q))
         /\ \A n : Has(Tail(q), n) => Has(q, n)
         /\ \A n : Has(q, n) => Has(Tail(q), n) \/ n = Head(q)
<1>1. /\ Tail(q) \in Seq(Msgs) /\ Head(q) \in Msgs /\ Head(q) = q[1]
      /\ DOMAIN q = 1..Len(q) /\ Len(q) \in Nat \ {0}
      /\ DOMAIN Tail(q) = 1..Len(q) - 1
      /\ \A i \in 1..Len(q) - 1 : Tail(q)[i] = q[i + 1]
  OBVIOUS
<1>2. ASSUME NEW n, Has(q, n), n # Head(q) PROVE Has(Tail(q), n)
  <2>1. PICK i \in DOMAIN q : q[i] = n
    BY <1>2 DEF Has
  <2>2. i - 1 \in DOMAIN Tail(q) /\ Tail(q)[i - 1] = n
    BY <1>1, <1>2, <2>1
  <2> QED
    BY <2>2 DEF Has
<1> QED
  BY <1>1, <1>2 DEF Has
-----------------------------------------------------------------------------
LEMMA InitHeap == Init => HeapInv
<1> SUFFICES ASSUME Init PROVE HeapInv
  OBVIOUS
<1> USE LocTimerAssumption DEF Init
<1>1. TypeOK
  <2>1. /\ mTimer \in [Timers -> BOOLEAN] /\ mClient \in [Timers -> BOOLEAN]
        /\ fault \in BOOLEAN /\ polled \in BOOLEAN
    OBVIOUS
  <2>2. /\ armed \in -1..MaxTime /\ futureTime \in [Timers -> 0..MaxTime] /\ nowE \in 0..MaxTime
        /\ now \in 0..MaxTime
    OBVIOUS
  <2> QED
    BY <2>1, <2>2 DEF TypeOK
<1>2. Shape /\ Least /\ KernelSet /\ Undecided
  BY DEF Shape, Least, KernelSet, Undecided
<1>3. Started
  BY DEF Started, Has
<1> QED
  BY <1>1, <1>2, <1>3 DEF HeapInv

\* What the heap operations leave.
LEMMA Removed ==
  ASSUME HeapInv, NEW t \in Timers, Without(t)
  PROVE  /\ heap' = heap \ {t} /\ heap' \subseteq Timers
         /\ top' \in heap' \cup {NoTimer} /\ (heap' # {} => top' # NoTimer)
         /\ \A s \in heap' : Sec(futureTime[top']) <= Sec(futureTime[s])
         /\ t # top => top' = top
<1> USE DEF HeapInv, TypeOK, Shape, Without
<1>1. CASE t # top
  BY <1>1 DEF Least
<1>2. CASE t = top /\ heap' = {}
  BY <1>2 DEF Tops
<1>3. CASE t = top /\ heap' # {}
  <2>1. /\ top' \in heap' /\ heap' = heap \ {t}
        /\ \A s \in heap' : ~(Sec(futureTime[s]) < Sec(futureTime[top']))
    BY <1>3 DEF Tops, OutRanks
  <2>2. \A s \in heap' : Sec(futureTime[s]) \in Int
    BY SecType
  <2> QED
    BY LocTimerAssumption, <1>3, <2>1, <2>2
<1> QED
  BY <1>1, <1>2, <1>3

\* The loop of MsgTimerExpire ends with the kernel timer set for the soonest timer.
LEMMA Taken ==
  ASSUME HeapInv, NEW may \in BOOLEAN, Take(may), UNCHANGED <<futureTime, ppc>>
  PROVE  /\ heap' \subseteq heap /\ top' \in heap' \cup {NoTimer} /\ (heap' # {} => top' # NoTimer)
         /\ \A s \in heap' : Sec(futureTime[top']) <= Sec(futureTime[s])
         /\ tpc' \in {"idle", "expire"} /\ cur' \in Timers \cup {NoTimer}
         /\ tpc' = "idle" <=> cur' = NoTimer
         /\ armed' \in -1..MaxTime /\ polled' \in BOOLEAN
         /\ KernelSet'
         /\ cur' = NoTimer => heap' = heap
         /\ cur' # NoTimer => cur' = top /\ cur' \in heap /\ heap' = heap \ {cur'}
<1> USE DEF Take, HeapInv, TypeOK, Shape
<1>1. CASE heap # {} /\ may
  <2>1. top \in Timers /\ top \in heap /\ Without(top) /\ UNCHANGED kernelVars
        /\ cur' = top /\ tpc' = "expire"
    BY <1>1
  <2> QED
    BY <2>1, Removed, LocTimerAssumption DEF kernelVars, KernelSet, Expiring
<1>2. CASE ~(heap # {} /\ may)
  <2>1. /\ UNCHANGED heapVars /\ UpdateSoonestTime(top, NoTimer) /\ tpc' = "idle" /\ cur' = NoTimer
    BY <1>2
  <2>2. UNCHANGED <<heap, top>>
    BY <2>1 DEF heapVars
  <2>3. armed' \in -1..MaxTime /\ polled' \in BOOLEAN /\ KernelSet'
    <3>1. CASE top = NoTimer
      BY <2>1, <2>2, <3>1 DEF UpdateSoonestTime, kernelVars, KernelSet
    <3>2. CASE top # NoTimer
      <4>1. polled' = TRUE /\ armed' = futureTime[top] /\ futureTime[top] \in 0..MaxTime
        BY <2>1, <3>2 DEF UpdateSoonestTime
      <4>2. futureTime[top] \in Int /\ armed' # -1
        BY <4>1, LocTimerAssumption
      <4>3. Sec(futureTime[top]) \in Int
        BY <4>2, SecType
      <4> QED
        BY <2>2, <4>1, <4>2, <4>3 DEF KernelSet
    <3> QED
      BY <3>1, <3>2
  <2> QED
    BY <2>1, <2>2, <2>3 DEF Least
<1> QED
  BY <1>1, <1>2

\* The facts about the heap and the kernel timer are kept when neither changes, and
\* no expiry comes to its end.
LEMMA HeapKept ==
  ASSUME HeapInv, UNCHANGED <<heap, top, armed, polled>>, Expiring => Expiring',
         \A t \in heap : futureTime'[t] = futureTime[t]
  PROVE  Least' /\ KernelSet'
BY DEF HeapInv, TypeOK, Shape, Least, KernelSet

LEMMA ClientStep ==
  ASSUME HeapInv, NEW t \in Timers, Start(t) \/ Add(t) \/ StopBegin(t) \/ StopEnd(t)
  PROVE  HeapInv'
<1> USE DEF clientVars, delegateVars, heapVars, kernelVars, taskVars
<1>0. TypeOK /\ Shape /\ Started /\ Least /\ KernelSet /\ Undecided
  BY DEF HeapInv
<1>1. CASE Start(t)
  <2>1. PICK d \in Delays : /\ now + d <= MaxTime
                            /\ futureTime' = [futureTime EXCEPT ![t] = now + d]
    BY <1>1 DEF Start
  <2>2. futureTime' \in [Timers -> 0..MaxTime]
    <3>1. now + d \in 0..MaxTime
      BY <1>0, <2>1, LocTimerAssumption DEF TypeOK
    <3> QED
      BY <1>0, <2>1, <3>1 DEF TypeOK
  <2>3. TypeOK'
    BY <1>0, <1>1, <2>2 DEF TypeOK, Start
  <2>4. Shape' /\ Started' /\ Undecided'
    BY <1>0, <1>1 DEF TypeOK, Start, Shape, Started, Undecided
  <2>5. \A s \in heap : futureTime'[s] = futureTime[s]
    BY <1>0, <1>1, <2>1 DEF TypeOK, Start, Started
  <2>6. UNCHANGED <<heap, top, armed, polled>> /\ (Expiring => Expiring')
    BY <1>1 DEF Start, Expiring
  <2> QED
    BY <2>3, <2>4, <2>5, <2>6, HeapKept DEF HeapInv
<1>2. CASE Add(t)
  <2>1. /\ msgs' \in Seq(Msgs) /\ \A n : Has(msgs', n) <=> Has(msgs, n) \/ n = Msg("push", t)
    BY <1>0, <1>2, AppendHas, MsgTypes DEF Add, Shape
  <2>2. TypeOK'
    BY <1>0, <1>2, <2>1, MsgsType DEF TypeOK, Add
  <2>3. Started'
    <3>1. \A s \in Timers : Msg("push", s) = Msg("push", t) => s = t
      BY MsgTypes
    <3> QED
      BY <1>0, <1>2, <2>1, <3>1 DEF TypeOK, Started, Add
  <2>4. Shape' /\ Undecided'
    BY <1>0, <1>2, <2>1 DEF TypeOK, Add, Shape, Undecided
  <2>5. UNCHANGED <<heap, top, armed, polled, futureTime>> /\ (Expiring => Expiring')
    BY <1>2, <2>1 DEF Add, Expiring
  <2> QED
    BY <2>2, <2>3, <2>4, <2>5, HeapKept DEF HeapInv
<1>3. CASE StopBegin(t)
  <2>1. /\ msgs' \in Seq(Msgs)
        /\ \A n : Has(msgs, n) => Has(msgs', n)
        /\ \A n : Has(msgs', n) => Has(msgs, n) \/ n = Msg("remove", t)
    <3>1. CASE mTimer[t]
      BY <1>0, <1>3, <3>1, AppendHas, MsgTypes DEF StopBegin, Stop, Shape
    <3>2. CASE ~mTimer[t]
      BY <1>0, <1>3, <3>2 DEF StopBegin, Stop, Shape
    <3> QED
      BY <3>1, <3>2
  <2>2. TypeOK'
    BY <1>0, <1>3, <2>1, MsgsType DEF TypeOK, StopBegin, Stop
  <2>3. Started'
    <3>1. \A s \in Timers : Msg("push", s) # Msg("remove", t)
      BY MsgTypes
    <3> QED
      BY <1>0, <1>3, <2>1, <3>1 DEF TypeOK, Started, StopBegin
  <2>4. Shape' /\ Undecided'
    BY <1>0, <1>3, <2>1 DEF TypeOK, StopBegin, Stop, Shape, Undecided
  <2>5. UNCHANGED <<heap, top, armed, polled, futureTime>> /\ (Expiring => Expiring')
    BY <1>3, <2>1 DEF StopBegin, Expiring
  <2> QED
    BY <2>2, <2>3, <2>4, <2>5, HeapKept DEF HeapInv
<1>4. CASE StopEnd(t)
  <2>1. TypeOK' /\ Shape' /\ Started' /\ Undecided'
    BY <1>0, <1>4 DEF StopEnd, TypeOK, Shape, Started, Undecided
  <2>2. UNCHANGED <<heap, top, armed, polled, futureTime>> /\ (Expiring => Expiring')
    BY <1>4 DEF StopEnd, Expiring
  <2> QED
    BY <2>1, <2>2, HeapKept DEF HeapInv
<1> QED
  BY <1>1, <1>2, <1>3, <1>4

LEMMA KernelStep == HeapInv /\ (Tick \/ Poll \/ UNCHANGED vars) => HeapInv'
<1> SUFFICES ASSUME HeapInv, Tick \/ Poll \/ UNCHANGED vars PROVE HeapInv'
  OBVIOUS
<1> USE DEF clientVars, delegateVars, heapVars, kernelVars, taskVars
<1>0. TypeOK /\ Shape /\ Started /\ Least /\ KernelSet /\ Undecided
  BY DEF HeapInv
<1>1. CASE Tick \/ PollReturns \/ UNCHANGED vars
  <2>1. TypeOK' /\ Shape' /\ Started' /\ Undecided'
    BY <1>0, <1>1, LocTimerAssumption DEF Tick, PollReturns, TypeOK, Shape, Started, Undecided, vars
  <2>2. UNCHANGED <<heap, top, armed, polled, futureTime>> /\ (Expiring => Expiring')
    BY <1>1 DEF Tick, PollReturns, Expiring, vars
  <2> QED
    BY <2>1, <2>2, HeapKept DEF HeapInv
<1>2. CASE Disarm \/ RemovePoll
  <2>1. TypeOK'
    <3>1. /\ armed' \in -1..MaxTime /\ polled' \in BOOLEAN /\ ppc' \in {"unpoll", "send"}
      <4>1. armed' \in {armed, -1} /\ polled' \in {polled, FALSE} /\ ppc' \in {"unpoll", "send"}
        BY <1>2 DEF Disarm, RemovePoll
      <4>2. armed \in -1..MaxTime /\ -1 \in -1..MaxTime /\ polled \in BOOLEAN
        BY <1>0, LocTimerAssumption DEF TypeOK
      <4> QED
        BY <4>1, <4>2
    <3>2. UNCHANGED <<now, clientVars, delegateVars, heapVars, msgs, taskVars, fault>>
      BY <1>2 DEF Disarm, RemovePoll
    <3> QED
      BY <1>0, <3>1, <3>2 DEF TypeOK
  <2>3. Shape' /\ Started' /\ Undecided' /\ Least'
    BY <1>0, <1>2 DEF Disarm, RemovePoll, Shape, Started, Undecided, Least
  <2>2. KernelSet'
    BY <1>2 DEF Disarm, RemovePoll, KernelSet, Expiring
  <2> QED
    BY <2>1, <2>2, <2>3 DEF HeapInv
<1>3. CASE SendExpire
  <2>1. Msg("expire", NoTimer) \in Msgs
    BY DEF Msgs
  <2>2. /\ msgs' \in Seq(Msgs)
        /\ \A n : Has(msgs', n) <=> Has(msgs, n) \/ n = Msg("expire", NoTimer)
    BY <1>0, <1>3, <2>1, AppendHas DEF SendExpire, Shape
  <2>3. \A s \in Timers : Msg("push", s) # Msg("expire", NoTimer)
    BY MsgTypes
  <2>4. TypeOK'
    BY <1>0, <1>3, <2>2, MsgsType DEF TypeOK, SendExpire
  <2>5. Shape' /\ Started' /\ Undecided'
    BY <1>0, <1>3, <2>2, <2>3 DEF SendExpire, Shape, Started, Undecided
  <2>6. UNCHANGED <<heap, top, armed, polled, futureTime>> /\ (Expiring => Expiring')
    BY <1>3, <2>2 DEF SendExpire, Expiring
  <2> QED
    BY <2>4, <2>5, <2>6, HeapKept DEF HeapInv
<1> QED
  BY <1>1, <1>2, <1>3 DEF Poll

LEMMA PushStep == HeapInv /\ Push => HeapInv'
<1> SUFFICES ASSUME HeapInv, Push PROVE HeapInv'
  OBVIOUS
<1> USE DEF clientVars, delegateVars, heapVars, kernelVars, taskVars
<1>0. TypeOK /\ Shape /\ Started /\ Least /\ KernelSet /\ Undecided
  BY DEF HeapInv
<1> DEFINE t == Head(msgs).timer
<1>1. /\ t \in Timers /\ Head(msgs) = Msg("push", t) /\ Has(msgs, Msg("push", t))
      /\ msgs' \in Seq(Msgs) /\ \A n : Has(msgs', n) => Has(msgs, n)
      /\ Has(msgs, Msg("expire", NoTimer)) => Has(msgs', Msg("expire", NoTimer))
  <2>1. Head(msgs) \in Msgs /\ Head(msgs).type = "push" /\ msgs # <<>> /\ msgs' = Tail(msgs)
    BY <1>0, TailHas DEF Push, Shape
  <2>2. t \in Timers /\ Head(msgs) = Msg("push", t) /\ Msg("expire", NoTimer) # Head(msgs)
    BY <2>1, MsgForms, MsgTypes
  <2> QED
    BY <1>0, <2>1, <2>2, TailHas DEF Shape
<1> HIDE DEF t
<1>2. /\ heap' = heap \cup {t}
      /\ top' = IF top = NoTimer \/ OutRanks(t, top) THEN t ELSE top
      /\ UpdateSoonestTime(top', top)
      /\ tpc = "idle" /\ UNCHANGED <<now, clientVars, delegateVars, ppc, taskVars, fault>>
  BY DEF Push, PushTimer, t
<1>3. \A s \in Timers : futureTime[s] \in 0..MaxTime /\ futureTime[s] \in Int
                         /\ futureTime[s] # -1 /\ Sec(futureTime[s]) \in Int
  <2>1. \A s \in Timers : futureTime[s] \in 0..MaxTime
    BY <1>0 DEF TypeOK
  <2>2. \A n \in 0..MaxTime : n \in Int /\ n # -1
    BY LocTimerAssumption
  <2> QED
    BY <2>1, <2>2, SecType
<1>4. heap \subseteq Timers /\ top \in heap \cup {NoTimer} /\ (heap # {} => top # NoTimer)
  BY <1>0 DEF TypeOK, Shape
<1>5. heap' \subseteq Timers /\ top' \in heap' /\ top' # NoTimer
  BY <1>1, <1>2, <1>4, LocTimerAssumption
<1>6. armed' \in -1..MaxTime /\ polled' \in BOOLEAN
  <2>1. \/ UNCHANGED <<armed, polled>>
        \/ polled' = TRUE /\ armed' = futureTime[top']
    BY <1>2, <1>5 DEF UpdateSoonestTime
  <2>2. armed \in -1..MaxTime /\ polled \in BOOLEAN /\ futureTime[top'] \in -1..MaxTime
    BY <1>0, <1>3, <1>5, LocTimerAssumption DEF TypeOK
  <2> QED
    BY <2>1, <2>2
<1>7. TypeOK'
  BY <1>0, <1>1, <1>2, <1>5, <1>6, MsgsType DEF TypeOK
<1>8. Shape'
  BY <1>0, <1>1, <1>2, <1>5 DEF Shape
<1>9. Started'
  BY <1>0, <1>1, <1>2 DEF Started
<1>10. Least'
  BY <1>0, <1>1, <1>2, <1>3, <1>4 DEF Least, OutRanks
<1>11. KernelSet'
  <2> SUFFICES ASSUME ~Expiring'
               PROVE  polled' /\ armed' # -1 /\ Sec(armed') <= Sec(futureTime[top'])
    BY <1>2 DEF KernelSet
  <2>1. ~Expiring
    BY <1>1, <1>2 DEF Expiring
  <2>2. CASE top = NoTimer \/ OutRanks(t, top)
    <3>1. top' = t /\ top' # top
      BY <1>1, <1>2, <1>3, <1>4, <2>2, LocTimerAssumption DEF OutRanks
    <3>2. polled' = TRUE /\ armed' = futureTime[top']
      BY <1>2, <1>5, <2>2, <3>1 DEF UpdateSoonestTime
    <3> QED
      BY <1>1, <1>3, <3>1, <3>2
  <2>3. CASE ~(top = NoTimer \/ OutRanks(t, top))
    <3>1. top' = top /\ heap # {} /\ UNCHANGED <<armed, polled, futureTime>>
      BY <1>2, <1>4, <2>3 DEF UpdateSoonestTime
    <3> QED
      BY <1>0, <2>1, <3>1 DEF KernelSet
  <2> QED
    BY <2>2, <2>3
<1>12. Undecided'
  BY <1>0, <1>2 DEF Undecided
<1> QED
  BY <1>7, <1>8, <1>9, <1>10, <1>11, <1>12 DEF HeapInv

LEMMA RemoveStep == HeapInv /\ Remove => HeapInv'
<1> SUFFICES ASSUME HeapInv, Remove PROVE HeapInv'
  OBVIOUS
<1> USE DEF clientVars, heapVars, kernelVars, taskVars
<1>0. TypeOK /\ Shape /\ Started /\ Least /\ KernelSet /\ Undecided
  BY DEF HeapInv
<1> DEFINE t == Head(msgs).timer
<1>1. /\ t \in Timers /\ msgs' \in Seq(Msgs) /\ \A n : Has(msgs', n) => Has(msgs, n)
      /\ Has(msgs, Msg("expire", NoTimer)) => Has(msgs', Msg("expire", NoTimer))
  <2>1. Head(msgs) \in Msgs /\ Head(msgs).type = "remove" /\ msgs # <<>> /\ msgs' = Tail(msgs)
    BY <1>0, TailHas DEF Remove, Shape
  <2>2. t \in Timers /\ Msg("expire", NoTimer) # Head(msgs)
    BY <2>1, MsgForms, MsgTypes
  <2> QED
    BY <1>0, <2>1, <2>2, TailHas DEF Shape
<1> HIDE DEF t
<1>2. /\ Without(t)
      /\ IF top = (IF t \in heap THEN t ELSE NoTimer)
         THEN UpdateSoonestTime(top', NoTimer) ELSE UNCHANGED kernelVars
      /\ delegate' = [delegate EXCEPT ![t] = "freed"]
      /\ tpc = "idle" /\ UNCHANGED <<now, clientVars, mClient, futureTime, ppc, taskVars, fault>>
  BY DEF Remove, RemoveTimer, t
<1>3. /\ heap' = heap \ {t} /\ heap' \subseteq Timers
      /\ top' \in heap' \cup {NoTimer} /\ (heap' # {} => top' # NoTimer)
      /\ \A s \in heap' : Sec(futureTime[top']) <= Sec(futureTime[s])
      /\ t # top => top' = top
  BY <1>1, <1>2, Removed
<1>4. ASSUME top' # NoTimer
      PROVE  /\ futureTime[top'] \in 0..MaxTime /\ futureTime[top'] # -1
             /\ Sec(futureTime[top']) \in Int
  <2>1. futureTime[top'] \in 0..MaxTime
    BY <1>0, <1>3, <1>4 DEF TypeOK
  <2>2. futureTime[top'] \in Int /\ futureTime[top'] # -1
    BY <2>1, LocTimerAssumption
  <2> QED
    BY <2>1, <2>2, SecType
<1>5. armed' \in -1..MaxTime /\ polled' \in BOOLEAN
  <2>1. -1 \in -1..MaxTime
    BY LocTimerAssumption
  <2>2. \/ UNCHANGED <<armed, polled>>
        \/ polled' = FALSE /\ armed' = -1
        \/ polled' = TRUE /\ armed' = futureTime[top'] /\ top' # NoTimer
    BY <1>2 DEF UpdateSoonestTime
  <2>3. armed \in -1..MaxTime /\ polled \in BOOLEAN
    BY <1>0 DEF TypeOK
  <2>4. top' # NoTimer => futureTime[top'] \in -1..MaxTime
    BY <1>4, LocTimerAssumption
  <2> QED
    BY <2>1, <2>2, <2>3, <2>4
<1>6. TypeOK'
  BY <1>0, <1>1, <1>2, <1>3, <1>5, MsgsType DEF TypeOK
<1>7. Shape' /\ Started' /\ Least' /\ Undecided'
  BY <1>0, <1>1, <1>2, <1>3 DEF Shape, Started, Least, Undecided
<1>8. KernelSet'
  <2> SUFFICES ASSUME ~Expiring', heap' # {}
               PROVE  polled' /\ armed' # -1 /\ Sec(armed') <= Sec(futureTime[top'])
    BY <1>2 DEF KernelSet
  <2>1. ~Expiring /\ heap # {} /\ top' # NoTimer
    BY <1>1, <1>2, <1>3 DEF Expiring
  <2>2. CASE top = (IF t \in heap THEN t ELSE NoTimer)
    <3>1. polled' = TRUE /\ armed' = futureTime[top']
      BY <1>2, <2>1, <2>2 DEF UpdateSoonestTime
    <3> QED
      BY <1>4, <2>1, <3>1
  <2>3. CASE top # (IF t \in heap THEN t ELSE NoTimer)
    <3>1. UNCHANGED kernelVars /\ top' = top
      BY <1>0, <1>1, <1>2, <1>3, <2>3, LocTimerAssumption DEF TypeOK
    <3> QED
      BY <1>0, <2>1, <3>1 DEF KernelSet
  <2> QED
    BY <2>2, <2>3
<1> QED
  BY <1>6, <1>7, <1>8 DEF HeapInv

\* The steps of MsgTimerExpire that may take the next timer.
LEMMA LoopStep ==
  ASSUME HeapInv, NEW may \in BOOLEAN, Take(may), UNCHANGED <<futureTime, ppc, now>>,
         msgs' \in Seq(Msgs), \A n : n.type = "push" => (Has(msgs', n) => Has(msgs, n)),
         delegate' = delegate, UNCHANGED app,
         wrapper' \in [Timers -> {"none", "live", "dying", "freed"}],
         mTimer' \in [Timers -> BOOLEAN], mClient' \in [Timers -> BOOLEAN],
         outcome' \in [Timers -> {"none", "pending", "cancelled", "fired"}],
         wmutex' = wmutex, nowE' \in 0..MaxTime, fault' = fault, Undecided'
  PROVE  HeapInv'
<1>0. TypeOK /\ Shape /\ Started /\ Least /\ KernelSet /\ Undecided
  BY DEF HeapInv
<1>1. /\ heap' \subseteq heap /\ top' \in heap' \cup {NoTimer} /\ (heap' # {} => top' # NoTimer)
      /\ \A s \in heap' : Sec(futureTime[top']) <= Sec(futureTime[s])
      /\ tpc' \in {"idle", "expire"} /\ cur' \in Timers \cup {NoTimer}
      /\ tpc' = "idle" <=> cur' = NoTimer
      /\ armed' \in -1..MaxTime /\ polled' \in BOOLEAN
      /\ KernelSet'
  BY Taken
<1>2. TypeOK'
  <2>1. heap' \subseteq Timers
    BY <1>0, <1>1 DEF TypeOK
  <2> QED
    BY <1>0, <1>1, <2>1, MsgsType DEF TypeOK
<1>3. Shape' /\ Least'
  BY <1>1 DEF Shape, Least
<1>4. Started'
  <2>1. \A s \in Timers : Msg("push", s).type = "push"
    BY MsgTypes
  <2> QED
    BY <1>0, <1>1, <2>1 DEF Started
<1> QED
  BY <1>1, <1>2, <1>3, <1>4 DEF HeapInv

LEMMA ExpireStep ==
  ASSUME HeapInv, Expire \/ ReadClient \/ StopClient \/ TimeOutCallback \/ CallbackReturns
                  \/ DestroyWrapper
  PROVE  HeapInv'
<1> USE DEF clientVars, delegateVars, kernelVars
<1>0. TypeOK /\ Shape /\ Started /\ Least /\ KernelSet /\ Undecided
  BY DEF HeapInv
<1>1. Due \in BOOLEAN
  BY DEF Due
<1>2. CASE Expire
  <2>1. /\ msgs' \in Seq(Msgs) /\ \A n : Has(msgs', n) => Has(msgs, n)
    BY <1>0, <1>2, TailHas DEF Expire, Shape
  <2>2. /\ Take(TRUE) /\ UNCHANGED <<now, app, wrapper, mTimer, wmutex, outcome, delegate, mClient,
                                   futureTime, ppc, fault>>
        /\ nowE' = now
    BY <1>2 DEF Expire
  <2>3. Undecided'
    BY <1>0, <2>2 DEF Undecided
  <2> QED
    BY <1>0, <2>1, <2>2, <2>3, LoopStep DEF TypeOK
<1>3. CASE ReadClient
  <2>0. /\ UNCHANGED <<now, app, wrapper, mTimer, wmutex, outcome, delegate, mClient,
                        futureTime, msgs, ppc, nowE, fault>>
        /\ tpc = "expire"
    BY <1>3 DEF ReadClient
  <2>1. Undecided'
    BY <1>0, <2>0 DEF Undecided
  <2>2. CASE mClient[cur]
    <3>1. tpc' = "stop" /\ UNCHANGED <<cur, heap, top, armed, polled>>
      BY <1>3, <2>2 DEF ReadClient, heapVars
    <3>2. TypeOK' /\ Shape' /\ Started'
      BY <1>0, <2>0, <3>1 DEF TypeOK, Shape, Started
    <3>3. Expiring'
      BY <3>1 DEF Expiring
    <3> QED
      BY <2>0, <2>1, <3>1, <3>2, <3>3, HeapKept DEF HeapInv
  <2>3. CASE ~mClient[cur]
    <3>1. Take(Due)
      BY <1>3, <2>3 DEF ReadClient
    <3> QED
      BY <1>0, <1>1, <2>0, <2>1, <3>1, LoopStep DEF TypeOK, Shape
  <2> QED
    BY <2>2, <2>3
<1>4. CASE StopClient
  <2>0. /\ tpc = "stop" /\ app[cur] # "starting" /\ cur \in Timers
        /\ UNCHANGED <<now, app, wrapper, wmutex, delegate, futureTime, ppc, nowE>>
    BY <1>0, <1>4 DEF StopClient, TypeOK, Shape
  <2>1. CASE wrapper[cur] = "freed"
    <3>1. fault' = TRUE /\ UNCHANGED <<mTimer, mClient, msgs, outcome, tpc, cur, heap, top, armed, polled>>
      BY <1>4, <2>1 DEF StopClient, heapVars
    <3>2. TypeOK' /\ Shape' /\ Started' /\ Undecided'
      BY <1>0, <2>0, <3>1 DEF TypeOK, Shape, Started, Undecided
    <3> QED
      BY <2>0, <3>1, <3>2, HeapKept DEF HeapInv, Expiring
  <2>2. CASE wrapper[cur] # "freed"
    <3>1. Stop(cur, "fired") /\ fault' = fault
      BY <1>4, <2>2 DEF StopClient
    <3>2. /\ msgs' \in Seq(Msgs)
          /\ \A n : n.type = "push" => (Has(msgs', n) => Has(msgs, n))
      <4>1. CASE mTimer[cur]
        BY <1>0, <2>0, <3>1, <4>1, AppendHas, MsgTypes DEF Stop, Shape
      <4>2. CASE ~mTimer[cur]
        BY <1>0, <3>1, <4>2 DEF Stop, Shape
      <4> QED
        BY <4>1, <4>2
    <3>3. /\ mTimer' \in [Timers -> BOOLEAN] /\ mClient' \in [Timers -> BOOLEAN]
          /\ outcome' \in [Timers -> {"none", "pending", "cancelled", "fired"}]
      BY <1>0, <2>0, <3>1 DEF Stop, TypeOK
    <3>4. Undecided'
      BY <1>0, <2>0, <3>1 DEF Undecided, Stop, TypeOK
    <3>5. CASE mTimer[cur]
      <4>1. tpc' = "callback" /\ UNCHANGED <<cur, heap, top, armed, polled>>
        BY <1>4, <2>2, <3>5 DEF StopClient, heapVars
      <4>2. TypeOK'
        BY <1>0, <2>0, <3>1, <3>2, <3>3, <4>1, MsgsType DEF TypeOK
      <4>3. Shape' /\ Started'
        <5>1. \A s \in Timers : Msg("push", s).type = "push"
          BY MsgTypes
        <5> QED
          BY <1>0, <2>0, <3>2, <4>1, <5>1 DEF Shape, Started
      <4>4. Expiring'
        BY <4>1 DEF Expiring
      <4> QED
        BY <2>0, <3>4, <4>1, <4>2, <4>3, <4>4, HeapKept DEF HeapInv
    <3>6. CASE ~mTimer[cur]
      <4>1. Take(Due)
        BY <1>4, <2>2, <3>6 DEF StopClient
      <4> QED
        BY <1>0, <1>1, <2>0, <3>1, <3>2, <3>3, <3>4, <4>1, LoopStep DEF TypeOK
    <3> QED
      BY <3>5, <3>6
  <2> QED
    BY <2>1, <2>2
<1>5. CASE TimeOutCallback
  <2>1. /\ fault' \in BOOLEAN /\ tpc' \in {"callback", "incallback", "destroy"} /\ tpc = "callback"
        /\ UNCHANGED <<now, app, wrapper, mTimer, wmutex, outcome, delegate, mClient, futureTime,
                      heap, top, armed, polled, msgs, ppc, cur, nowE>>
    BY <1>5 DEF TimeOutCallback, heapVars
  <2>2. TypeOK' /\ Shape' /\ Started' /\ Undecided'
    BY <1>0, <2>1 DEF TypeOK, Shape, Started, Undecided
  <2> QED
    BY <2>1, <2>2, HeapKept DEF HeapInv, Expiring
<1>6. CASE CallbackReturns
  <2>1. /\ tpc = "incallback" /\ tpc' = "destroy"
        /\ app' = [app EXCEPT ![cur] = IF @ = "running" THEN "stopped" ELSE @]
        /\ UNCHANGED <<now, wrapper, mTimer, wmutex, outcome, delegate, mClient, futureTime,
                      heap, top, armed, polled, msgs, ppc, cur, nowE, fault>>
    BY <1>6 DEF CallbackReturns, heapVars
  <2>2. TypeOK' /\ Shape' /\ Started' /\ Undecided'
    BY <1>0, <2>1 DEF TypeOK, Shape, Started, Undecided
  <2> QED
    BY <2>1, <2>2, HeapKept DEF HeapInv, Expiring
<1>7. CASE DestroyWrapper
  <2>0. /\ tpc = "destroy" /\ UNCHANGED <<now, app, mTimer, wmutex, outcome, delegate, mClient,
                                          futureTime, msgs, ppc, nowE>>
    BY <1>7 DEF DestroyWrapper
  <2>1. CASE wrapper[cur] = "freed"
    <3>1. fault' = TRUE /\ UNCHANGED <<wrapper, tpc, cur, heap, top, armed, polled>>
      BY <1>7, <2>1 DEF DestroyWrapper, heapVars
    <3>2. TypeOK' /\ Shape' /\ Started' /\ Undecided'
      BY <1>0, <2>0, <3>1 DEF TypeOK, Shape, Started, Undecided
    <3> QED
      BY <2>0, <3>1, <3>2, HeapKept DEF HeapInv, Expiring
  <2>2. CASE wrapper[cur] # "freed"
    <3>1. /\ wrapper' = [wrapper EXCEPT ![cur] = "freed"] /\ Take(Due) /\ fault' = fault
      BY <1>7, <2>2 DEF DestroyWrapper
    <3>2. Undecided' /\ wrapper' \in [Timers -> {"none", "live", "dying", "freed"}]
      BY <1>0, <2>0, <3>1 DEF Undecided, TypeOK
    <3> QED
      BY <1>0, <1>1, <2>0, <3>1, <3>2, LoopStep DEF TypeOK, Shape
  <2> QED
    BY <2>1, <2>2
<1> QED
  BY <1>2, <1>3, <1>4, <1>5, <1>6, <1>7

LEMMA HeapStep == HeapInv /\ [Next]_vars => HeapInv'
<1>1. HeapInv /\ Finished => HeapInv'
  BY KernelStep DEF Finished
<1> QED
  BY <1>1, ClientStep, KernelStep, PushStep, RemoveStep, ExpireStep DEF Next, Task

LEMMA HeapAlways == Spec => []HeapInv
BY InitHeap, HeapStep, PTL DEF Spec

\* Every reachable state of the timers is well typed, also after a fault.
THEOREM TypeCorrect == Spec => []TypeOK
<1>1. HeapInv => TypeOK
  BY DEF HeapInv
<1> QED
  BY HeapAlways, <1>1, PTL

\* No timeout is lost, however many timers there are and however starts, stops and
\* expiries meet: when all is worked off, the kernel timer is set for the soonest timer.
THEOREM SoonestCorrect == Spec => []SoonestArmed
<1>1. HeapInv => SoonestArmed
  <2> SUFFICES ASSUME HeapInv, msgs = <<>>, tpc = "idle", ppc = "wait", NEW t \in heap
               PROVE  polled /\ armed # -1 /\ Sec(armed) <= Sec(futureTime[t])
    BY DEF SoonestArmed
  <2>1. ~Expiring
    BY DEF Expiring, Has
  <2>2. polled /\ armed # -1 /\ Sec(armed) <= Sec(futureTime[top])
    BY <2>1 DEF HeapInv, KernelSet
  <2>3. Sec(futureTime[top]) <= Sec(futureTime[t])
    BY DEF HeapInv, Least
  <2>4. armed \in Int /\ futureTime[top] \in Int /\ futureTime[t] \in Int
    BY LocTimerAssumption DEF HeapInv, TypeOK, Shape
  <2>5. Sec(armed) \in Int /\ Sec(futureTime[top]) \in Int /\ Sec(futureTime[t]) \in Int
    BY <2>4, SecType
  <2> QED
    BY <2>2, <2>3, <2>5
<1> QED
  BY HeapAlways, <1>1, PTL

\* Every step of the threads is one of the service or none: no timer is both cancelled
\* and fired, though a stop by the client and the expiry run under different locks.
THEOREM ServiceSteps == Spec => Service!TSafe
<1>1. Init => Service!TInit
  BY DEF Init, Service!TInit
<1>2. HeapInv /\ [Next]_vars => [Service!TNext]_outcome
  <2> SUFFICES ASSUME HeapInv, [Next]_vars, outcome' # outcome PROVE Service!TNext
    OBVIOUS
  <2> USE DEF clientVars, delegateVars, heapVars, kernelVars, taskVars
  <2>0. TypeOK /\ Undecided /\ Shape
    BY DEF HeapInv
  <2>1. ASSUME NEW t \in Timers, Start(t) PROVE Service!TNext
    BY <2>0, <2>1 DEF Start, Undecided, Service!TNext, Service!Begin
  <2>2. ASSUME NEW t \in Timers, NEW o \in {"cancelled", "fired"}, Stop(t, o) PROVE Service!TNext
    <3>1. mTimer[t] /\ outcome' = [outcome EXCEPT ![t] = o]
      BY <2>0, <2>2 DEF Stop, TypeOK
    <3>2. outcome[t] = "pending"
      BY <2>0, <3>1 DEF Undecided
    <3> QED
      BY <3>1, <3>2 DEF Service!TNext, Service!Resolve
  <2>3. ASSUME NEW t \in Timers, StopBegin(t) PROVE Service!TNext
    BY <2>2, <2>3 DEF StopBegin
  <2>4. CASE StopClient
    <3>1. cur \in Timers
      BY <2>0, <2>4 DEF StopClient, TypeOK, Shape
    <3>2. Stop(cur, "fired")
      BY <2>4 DEF StopClient
    <3> QED
      BY <2>2, <3>1, <3>2
  <2> QED
    BY <2>1, <2>3, <2>4
       DEF Next, Add, StopEnd, Tick, Poll, PollReturns, Disarm, RemovePoll, SendExpire,
           Task, Push, Remove, Expire, ReadClient, TimeOutCallback, CallbackReturns,
           DestroyWrapper, Finished, vars
<1> QED
  BY <1>1, <1>2, HeapAlways, PTL DEF Spec, Service!TSafe
-----------------------------------------------------------------------------
(* Objects, when clients leave timers alone that are just expiring.         *)

\* What there is of a timer at each place of its client.
Objects(t) ==
  /\ app[t] = "new" => /\ wrapper[t] = "none" /\ delegate[t] = "none"
                       /\ ~mTimer[t] /\ ~mClient[t] /\ outcome[t] = "none"
  /\ app[t] = "starting" => /\ wrapper[t] = "live" /\ ~mTimer[t] /\ mClient[t]
                            /\ outcome[t] = "pending"
  /\ app[t] = "running" => /\ wrapper[t] = "live"
                           /\ \/ mTimer[t] /\ mClient[t] /\ outcome[t] = "pending"
                              \/ /\ ~mTimer[t] /\ ~mClient[t] /\ outcome[t] = "fired"
                                 /\ t = cur /\ tpc \in {"callback", "incallback"}
  /\ app[t] = "stopping" => /\ wrapper[t] = "dying" /\ ~mTimer[t] /\ ~mClient[t]
                            /\ outcome[t] = "cancelled"
  /\ app[t] = "stopped" => ~mTimer[t] /\ ~mClient[t] /\ outcome[t] \in {"cancelled", "fired"}

\* The thread of the MsgTask uses the client's object only of a timer nobody can stop.
Using ==
  /\ tpc = "stop" => mClient[cur]
  /\ tpc \in {"callback", "incallback"} => app[cur] = "running" /\ ~mTimer[cur]
  /\ tpc = "destroy" => app[cur] = "stopped" /\ wrapper[cur] = "live"

\* The ways a delegate takes: pushed, in the heap, being expired, removed at the end.
Refers(t) ==
  /\ t \in heap \/ t = cur \/ Has(msgs, Msg("push", t)) \/ Has(msgs, Msg("remove", t))
       => delegate[t] = "live"
  /\ Has(msgs, Msg("push", t)) => t \notin heap
  /\ Has(msgs, Msg("push", t)) \/ t \in heap => t # cur
  /\ app[t] \in {"new", "starting"} => t # cur /\ t \notin heap
  /\ outcome[t] \in {"none", "pending"} => ~Has(msgs, Msg("remove", t))
  /\ outcome[t] = "pending" => delegate[t] = "live"
  /\ outcome[t] \in {"cancelled", "fired"} /\ delegate[t] # "freed" => Has(msgs, Msg("remove", t))

\* A message about a timer is sent once, and the one that removes it comes last.
Ordered(q) ==
  /\ \A i, j \in DOMAIN q : q[i] = q[j] /\ q[i].timer # NoTimer => i = j
  /\ \A i, j \in DOMAIN q, t \in Timers :
       q[i] = Msg("push", t) /\ q[j] = Msg("remove", t) => i < j

ObjInv == /\ HeapInv /\ ~fault /\ Using /\ Ordered(msgs)
          /\ \A t \in Timers : Objects(t) /\ Refers(t)

LEMMA OrderedAppend ==
  ASSUME NEW q \in Seq(Msgs), Ordered(q), NEW m \in Msgs,
         m.timer # NoTimer => ~Has(q, m),
         \A t \in Timers : m = Msg("push", t) => ~Has(q, Msg("remove", t))
  PROVE  Ordered(Append(q, m))
<1> DEFINE r == Append(q, m)
<1>1. /\ DOMAIN q = 1..Len(q) /\ Len(q) \in Nat /\ DOMAIN r = 1..Len(q) + 1
      /\ \A i \in 1..Len(q) : r[i] = q[i]
      /\ r[Len(q) + 1] = m
  OBVIOUS
<1> HIDE DEF r
<1>2. ASSUME NEW i \in DOMAIN r, NEW j \in DOMAIN r, r[i] = r[j], r[i].timer # NoTimer PROVE i = j
  BY <1>1, <1>2 DEF Ordered, Has
<1>3. ASSUME NEW i \in DOMAIN r, NEW j \in DOMAIN r, NEW t \in Timers,
             r[i] = Msg("push", t), r[j] = Msg("remove", t)
      PROVE  i < j
  <2>1. Msg("push", t) # Msg("remove", t)
    BY MsgTypes
  <2>2. CASE i = Len(q) + 1
    BY <1>1, <1>3, <2>1, <2>2 DEF Has
  <2>3. CASE i # Len(q) + 1 /\ j = Len(q) + 1
    BY <1>1, <2>3
  <2>4. CASE i # Len(q) + 1 /\ j # Len(q) + 1
    BY <1>1, <1>3, <2>4 DEF Ordered
  <2> QED
    BY <2>2, <2>3, <2>4
<1> QED
  BY <1>2, <1>3 DEF Ordered, r

LEMMA OrderedTail ==
  ASSUME NEW q \in Seq(Msgs), Ordered(q), q # <<>>
  PROVE  /\ Ordered(Tail(q))
         /\ Head(q).timer # NoTimer => ~Has(Tail(q), Head(q))
         /\ \A t \in Timers : Head(q) = Msg("remove", t) => ~Has(q, Msg("push", t))
<1>1. /\ Head(q) = q[1] /\ DOMAIN q = 1..Len(q) /\ Len(q) \in Nat \ {0}
      /\ DOMAIN Tail(q) = 1..Len(q) - 1
      /\ \A i \in 1..Len(q) - 1 : Tail(q)[i] = q[i + 1]
  OBVIOUS
<1>2. Ordered(Tail(q))
  <2>1. ASSUME NEW i \in DOMAIN Tail(q), NEW j \in DOMAIN Tail(q), Tail(q)[i] = Tail(q)[j],
               Tail(q)[i].timer # NoTimer
        PROVE  i = j
    <3>1. i + 1 \in DOMAIN q /\ j + 1 \in DOMAIN q /\ q[i + 1] = q[j + 1] /\ q[i + 1].timer # NoTimer
      BY <1>1, <2>1
    <3>2. i + 1 = j + 1
      BY <3>1 DEF Ordered
    <3> QED
      BY <1>1, <3>2
  <2>2. ASSUME NEW i \in DOMAIN Tail(q), NEW j \in DOMAIN Tail(q), NEW t \in Timers,
               Tail(q)[i] = Msg("push", t), Tail(q)[j] = Msg("remove", t)
        PROVE  i < j
    <3>1. i + 1 \in DOMAIN q /\ j + 1 \in DOMAIN q
          /\ q[i + 1] = Msg("push", t) /\ q[j + 1] = Msg("remove", t)
      BY <1>1, <2>2
    <3>2. i + 1 < j + 1
      BY <3>1 DEF Ordered
    <3> QED
      BY <1>1, <3>2
  <2> QED
    BY <2>1, <2>2 DEF Ordered
<1>3. ASSUME Head(q).timer # NoTimer, Has(Tail(q), Head(q)) PROVE FALSE
  <2>1. PICK i \in DOMAIN Tail(q) : Tail(q)[i] = Head(q)
    BY <1>3 DEF Has
  <2>2. i + 1 \in DOMAIN q /\ q[i + 1] = q[1] /\ 1 \in DOMAIN q /\ i + 1 # 1 /\ q[i + 1].timer # NoTimer
    BY <1>1, <1>3, <2>1
  <2> QED
    BY <2>2 DEF Ordered
<1>4. ASSUME NEW t \in Timers, Head(q) = Msg("remove", t), Has(q, Msg("push", t)) PROVE FALSE
  <2>1. PICK i \in DOMAIN q : q[i] = Msg("push", t)
    BY <1>4 DEF Has
  <2>2. i < 1
    BY <1>1, <1>4, <2>1 DEF Ordered
  <2> QED
    BY <1>1, <2>2
<1> QED
  BY <1>2, <1>3, <1>4

LEMMA InitObj == Init => ObjInv
<1> SUFFICES ASSUME Init PROVE ObjInv
  OBVIOUS
<1>1. HeapInv
  BY InitHeap
<1>2. \A n : ~Has(msgs, n)
  BY DEF Init, Has
<1>3. Ordered(msgs) /\ ~fault /\ Using
  BY DEF Init, Ordered, Using
<1>4. ASSUME NEW t \in Timers PROVE Objects(t) /\ Refers(t)
  BY <1>2, LocTimerAssumption DEF Init, Objects, Refers
<1> QED
  BY <1>1, <1>3, <1>4 DEF ObjInv

\* Messages of different timers, and of different kinds, are different.
LEMMA MsgsDiffer ==
  ASSUME NEW s \in Timers, NEW t \in Timers
  PROVE  /\ Msg("push", s) # Msg("remove", t)
         /\ Msg("push", s) = Msg("push", t) <=> s = t
         /\ Msg("remove", s) = Msg("remove", t) <=> s = t
BY DEF Msg

\* What is sent last.
LEMMA SentPush ==
  ASSUME ObjInv, NEW t \in Timers, msgs' = Append(msgs, Msg("push", t)),
         ~Has(msgs, Msg("push", t)), ~Has(msgs, Msg("remove", t))
  PROVE  /\ Ordered(msgs')
         /\ \A s \in Timers : /\ Has(msgs', Msg("push", s)) <=> Has(msgs, Msg("push", s)) \/ s = t
                              /\ Has(msgs', Msg("remove", s)) <=> Has(msgs, Msg("remove", s))
<1>1. msgs \in Seq(Msgs) /\ Ordered(msgs)
  BY DEF ObjInv, HeapInv, Shape
<1>2. Msg("push", t) \in Msgs
  BY MsgTypes
<1>3. \A s \in Timers : Msg("push", t) = Msg("push", s) => ~Has(msgs, Msg("remove", s))
  BY MsgsDiffer
<1>4. Ordered(msgs')
  BY <1>1, <1>2, <1>3, OrderedAppend
<1>5. \A n : Has(msgs', n) <=> Has(msgs, n) \/ n = Msg("push", t)
  BY <1>1, <1>2, AppendHas
<1> QED
  BY <1>4, <1>5, MsgsDiffer

LEMMA SentRemove ==
  ASSUME ObjInv, NEW t \in Timers, msgs' = Append(msgs, Msg("remove", t)),
         ~Has(msgs, Msg("remove", t))
  PROVE  /\ Ordered(msgs')
         /\ \A s \in Timers : /\ Has(msgs', Msg("push", s)) <=> Has(msgs, Msg("push", s))
                              /\ Has(msgs', Msg("remove", s)) <=> Has(msgs, Msg("remove", s)) \/ s = t
<1>1. msgs \in Seq(Msgs) /\ Ordered(msgs)
  BY DEF ObjInv, HeapInv, Shape
<1>2. Msg("remove", t) \in Msgs
  BY MsgTypes
<1>3. \A s \in Timers : Msg("remove", t) # Msg("push", s)
  BY MsgsDiffer
<1>4. Ordered(msgs')
  BY <1>1, <1>2, <1>3, OrderedAppend
<1>5. \A n : Has(msgs', n) <=> Has(msgs, n) \/ n = Msg("remove", t)
  BY <1>1, <1>2, AppendHas
<1> QED
  BY <1>4, <1>5, MsgsDiffer

\* What the client does to a timer, while the thread of the MsgTask is not on it.
LEMMA ClientObj ==
  ASSUME ~LateStop, ObjInv, HeapInv', NEW t \in Timers,
         Start(t) \/ Add(t) \/ StopBegin(t) \/ StopEnd(t)
  PROVE  ObjInv'
<1> USE DEF clientVars, delegateVars, heapVars, kernelVars, taskVars
<1>0. TypeOK /\ Shape /\ Started /\ ~fault /\ Using /\ Ordered(msgs)
  BY DEF ObjInv, HeapInv
<1>1. \A s \in Timers : Objects(s) /\ Refers(s)
  BY DEF ObjInv
<1>2. tpc # "idle" => cur \in Timers
  BY <1>0 DEF TypeOK, Shape
<1>3. CASE Start(t)
  <2>1. /\ app[t] = "new" /\ app' = [app EXCEPT ![t] = "starting"]
        /\ wrapper' = [wrapper EXCEPT ![t] = "live"] /\ delegate' = [delegate EXCEPT ![t] = "live"]
        /\ mClient' = [mClient EXCEPT ![t] = TRUE] /\ outcome' = [outcome EXCEPT ![t] = "pending"]
        /\ UNCHANGED <<mTimer, heap, msgs, tpc, cur, fault>>
    BY <1>3 DEF Start
  <2>2. t # cur
    BY <1>1, <2>1 DEF Refers
  <2>3. Using'
    BY <1>0, <1>2, <2>1, <2>2 DEF Using, TypeOK
  <2>4. ASSUME NEW s \in Timers PROVE Objects(s)' /\ Refers(s)'
    <3>1. Objects(s) /\ Refers(s) /\ Objects(t) /\ Refers(t)
      BY <1>1
    <3>2. CASE s = t
      BY <1>0, <2>1, <3>1, <3>2 DEF Objects, Refers, TypeOK
    <3>3. CASE s # t
      BY <1>0, <2>1, <3>1, <3>3 DEF Objects, Refers, TypeOK
    <3> QED
      BY <3>2, <3>3
  <2> QED
    BY <1>0, <2>1, <2>3, <2>4 DEF ObjInv
<1>4. CASE Add(t)
  <2>1. /\ app[t] = "starting" /\ app' = [app EXCEPT ![t] = "running"]
        /\ mTimer' = [mTimer EXCEPT ![t] = TRUE] /\ msgs' = Append(msgs, Msg("push", t))
        /\ UNCHANGED <<wrapper, delegate, mClient, outcome, heap, tpc, cur, fault>>
    BY <1>4 DEF Add
  <2>2. /\ t # cur /\ outcome[t] = "pending"
        /\ ~Has(msgs, Msg("push", t)) /\ ~Has(msgs, Msg("remove", t))
    BY <1>0, <1>1, <2>1 DEF Refers, Objects, Started
  <2>3. /\ Ordered(msgs')
        /\ \A s \in Timers : /\ Has(msgs', Msg("push", s)) <=> Has(msgs, Msg("push", s)) \/ s = t
                             /\ Has(msgs', Msg("remove", s)) <=> Has(msgs, Msg("remove", s))
    BY <2>1, <2>2, SentPush
  <2>4. Using'
    BY <1>0, <1>2, <2>1, <2>2 DEF Using, TypeOK
  <2>5. ASSUME NEW s \in Timers PROVE Objects(s)' /\ Refers(s)'
    <3>1. Objects(s) /\ Refers(s) /\ Objects(t) /\ Refers(t)
      BY <1>1
    <3>2. CASE s = t
      BY <1>0, <2>1, <2>2, <2>3, <3>1, <3>2 DEF Objects, Refers, TypeOK
    <3>3. CASE s # t
      BY <1>0, <2>1, <2>3, <3>1, <3>3 DEF Objects, Refers, TypeOK
    <3> QED
      BY <3>2, <3>3
  <2> QED
    BY <1>0, <2>1, <2>3, <2>4, <2>5 DEF ObjInv
<1>5. CASE StopBegin(t)
  <2>1. /\ app[t] = "running" /\ cur # t /\ app' = [app EXCEPT ![t] = "stopping"]
        /\ wrapper' = [wrapper EXCEPT ![t] = "dying"] /\ Stop(t, "cancelled")
        /\ UNCHANGED <<delegate, heap, tpc, cur, fault>>
    BY <1>5 DEF StopBegin
  <2>2. mTimer[t] /\ mClient[t] /\ outcome[t] = "pending" /\ ~Has(msgs, Msg("remove", t))
    BY <1>1, <2>1 DEF Objects, Refers
  <2>3. /\ mTimer' = [mTimer EXCEPT ![t] = FALSE]
        /\ mClient' = [mClient EXCEPT ![t] = FALSE]
        /\ msgs' = Append(msgs, Msg("remove", t))
        /\ outcome' = [outcome EXCEPT ![t] = "cancelled"]
    BY <1>0, <2>1, <2>2 DEF Stop, TypeOK
  <2>4. /\ Ordered(msgs')
        /\ \A s \in Timers : /\ Has(msgs', Msg("push", s)) <=> Has(msgs, Msg("push", s))
                             /\ Has(msgs', Msg("remove", s)) <=> Has(msgs, Msg("remove", s)) \/ s = t
    BY <2>2, <2>3, SentRemove
  <2>5. Using'
    BY <1>0, <1>2, <2>1, <2>3 DEF Using, TypeOK
  <2>6. ASSUME NEW s \in Timers PROVE Objects(s)' /\ Refers(s)'
    <3>1. Objects(s) /\ Refers(s) /\ Objects(t) /\ Refers(t)
      BY <1>1
    <3>2. CASE s = t
      BY <1>0, <2>1, <2>2, <2>3, <2>4, <3>1, <3>2 DEF Objects, Refers, TypeOK
    <3>3. CASE s # t
      BY <1>0, <2>1, <2>3, <2>4, <3>1, <3>3 DEF Objects, Refers, TypeOK
    <3> QED
      BY <3>2, <3>3
  <2> QED
    BY <1>0, <2>1, <2>4, <2>5, <2>6 DEF ObjInv
<1>6. CASE StopEnd(t)
  <2>1. /\ app[t] = "stopping" /\ app' = [app EXCEPT ![t] = "stopped"]
        /\ wrapper' = [wrapper EXCEPT ![t] = "freed"]
        /\ UNCHANGED <<mTimer, mClient, outcome, delegate, heap, msgs, tpc, cur, fault>>
    BY <1>6 DEF StopEnd
  <2>2. Using'
    <3>1. tpc = "destroy" => cur # t
      BY <1>0, <2>1 DEF Using
    <3> QED
      BY <1>0, <1>2, <2>1, <3>1 DEF Using, TypeOK
  <2>3. ASSUME NEW s \in Timers PROVE Objects(s)' /\ Refers(s)'
    <3>1. Objects(s) /\ Refers(s)
      BY <1>1
    <3> QED
      BY <1>0, <2>1, <3>1 DEF Objects, Refers, TypeOK
  <2> QED
    BY <1>0, <2>1, <2>2, <2>3 DEF ObjInv
<1> QED
  BY <1>3, <1>4, <1>5, <1>6

LEMMA KernelObj ==
  ASSUME ObjInv, HeapInv', Tick \/ Poll \/ UNCHANGED vars
  PROVE  ObjInv'
<1> USE DEF clientVars, delegateVars, heapVars, kernelVars, taskVars
<1>1. UNCHANGED <<app, wrapper, mTimer, delegate, mClient, outcome, heap, tpc, cur, fault>>
  BY DEF Tick, Poll, PollReturns, Disarm, RemovePoll, SendExpire, vars
<1>2. /\ Ordered(msgs')
      /\ \A s \in Timers : /\ Has(msgs', Msg("push", s)) <=> Has(msgs, Msg("push", s))
                           /\ Has(msgs', Msg("remove", s)) <=> Has(msgs, Msg("remove", s))
  <2>1. CASE msgs' = msgs
    BY <2>1 DEF ObjInv
  <2>2. CASE msgs' # msgs
    <3>1. msgs' = Append(msgs, Msg("expire", NoTimer))
      BY <2>2 DEF Tick, Poll, PollReturns, Disarm, RemovePoll, SendExpire, vars
    <3>2. Msg("expire", NoTimer) \in Msgs /\ Msg("expire", NoTimer).timer = NoTimer
      BY DEF Msgs, Msg
    <3>3. msgs \in Seq(Msgs) /\ Ordered(msgs)
      BY DEF ObjInv, HeapInv, Shape
    <3>4. \A s \in Timers : Msg("expire", NoTimer) \notin {Msg("push", s), Msg("remove", s)}
      BY MsgTypes
    <3> QED
      BY <3>1, <3>2, <3>3, <3>4, OrderedAppend, AppendHas
  <2> QED
    BY <2>1, <2>2
<1>3. ASSUME NEW s \in Timers PROVE Objects(s)' /\ Refers(s)'
  <2>1. Objects(s) /\ Refers(s)
    BY DEF ObjInv
  <2> QED
    BY <1>1, <1>2, <2>1 DEF Objects, Refers
<1>4. Using'
  BY <1>1 DEF ObjInv, Using
<1> QED
  BY <1>1, <1>2, <1>3, <1>4 DEF ObjInv

\* The message that is handled is gone, and the others stay.
LEMMA Received ==
  ASSUME ObjInv, msgs # <<>>, msgs' = Tail(msgs)
  PROVE  /\ Head(msgs) \in Msgs /\ Has(msgs, Head(msgs)) /\ Ordered(msgs')
         /\ \A n : n # Head(msgs) => (Has(msgs', n) <=> Has(msgs, n))
         /\ Head(msgs).timer # NoTimer => ~Has(msgs', Head(msgs))
         /\ \A t \in Timers : Head(msgs) = Msg("remove", t) => ~Has(msgs, Msg("push", t))
<1>1. msgs \in Seq(Msgs) /\ Ordered(msgs)
  BY DEF ObjInv, HeapInv, Shape
<1> QED
  BY <1>1, TailHas, OrderedTail

LEMMA PushObj == ObjInv /\ HeapInv' /\ Push => ObjInv'
<1> SUFFICES ASSUME ObjInv, HeapInv', Push PROVE ObjInv'
  OBVIOUS
<1> USE DEF clientVars, delegateVars, heapVars, taskVars
<1>0. TypeOK /\ Shape /\ Started /\ ~fault /\ Using /\ Ordered(msgs)
  BY DEF ObjInv, HeapInv
<1> DEFINE t == Head(msgs).timer
<1>1. /\ Head(msgs).type = "push" /\ msgs # <<>> /\ msgs' = Tail(msgs) /\ heap' = heap \cup {t}
      /\ UNCHANGED <<app, wrapper, mTimer, delegate, mClient, outcome, tpc, cur, fault>>
      /\ tpc = "idle"
  BY DEF Push, PushTimer
<1>2. t \in Timers /\ Head(msgs) = Msg("push", t) /\ t # NoTimer
  BY <1>1, Received, MsgForms, LocTimerAssumption
<1> HIDE DEF t
<1>3. /\ Ordered(msgs')
      /\ \A s \in Timers : /\ Has(msgs', Msg("push", s)) <=> Has(msgs, Msg("push", s)) /\ s # t
                           /\ Has(msgs', Msg("remove", s)) <=> Has(msgs, Msg("remove", s))
      /\ Has(msgs, Msg("push", t))
  <2>1. Head(msgs).timer # NoTimer
    BY <1>2 DEF t
  <2> QED
    BY <1>1, <1>2, <2>1, Received, MsgsDiffer
<1>4. cur = NoTimer
  BY <1>0, <1>1 DEF Shape
<1>5. app[t] \notin {"new", "starting"}
  BY <1>0, <1>2, <1>3 DEF Started
<1>6. Using'
  BY <1>0, <1>1 DEF Using
<1>7. ASSUME NEW s \in Timers PROVE Objects(s)' /\ Refers(s)'
  <2>1. Objects(s) /\ Refers(s)
    BY DEF ObjInv
  <2> QED
    BY <1>1, <1>2, <1>3, <1>4, <1>5, <2>1 DEF Objects, Refers
<1> QED
  BY <1>0, <1>1, <1>3, <1>6, <1>7 DEF ObjInv

LEMMA RemoveObj == ObjInv /\ HeapInv' /\ Remove => ObjInv'
<1> SUFFICES ASSUME ObjInv, HeapInv', Remove PROVE ObjInv'
  OBVIOUS
<1> USE DEF clientVars, heapVars, taskVars
<1>0. TypeOK /\ Shape /\ Started /\ ~fault /\ Using /\ Ordered(msgs)
  BY DEF ObjInv, HeapInv
<1> DEFINE t == Head(msgs).timer
<1>1. /\ Head(msgs).type = "remove" /\ msgs # <<>> /\ msgs' = Tail(msgs) /\ heap' = heap \ {t}
      /\ delegate' = [delegate EXCEPT ![t] = "freed"]
      /\ UNCHANGED <<app, wrapper, mTimer, mClient, outcome, tpc, cur, fault>>
      /\ tpc = "idle"
  BY DEF Remove, RemoveTimer, Without
<1>2. t \in Timers /\ Head(msgs) = Msg("remove", t) /\ t # NoTimer
  BY <1>1, Received, MsgForms, LocTimerAssumption
<1> HIDE DEF t
<1>3. /\ Ordered(msgs')
      /\ \A s \in Timers : /\ Has(msgs', Msg("push", s)) <=> Has(msgs, Msg("push", s))
                           /\ Has(msgs', Msg("remove", s)) <=> Has(msgs, Msg("remove", s)) /\ s # t
      /\ Has(msgs, Msg("remove", t)) /\ ~Has(msgs, Msg("push", t))
  <2>1. Head(msgs).timer # NoTimer
    BY <1>2 DEF t
  <2> QED
    BY <1>1, <1>2, <2>1, Received, MsgsDiffer
<1>4. cur = NoTimer
  BY <1>0, <1>1 DEF Shape
<1>5. outcome[t] \in {"cancelled", "fired"} /\ app[t] # "new"
  <2>1. Objects(t) /\ Refers(t)
    BY <1>2 DEF ObjInv
  <2> QED
    BY <1>0, <1>2, <1>3, <2>1 DEF Objects, Refers, TypeOK
<1>6. Using'
  BY <1>0, <1>1 DEF Using
<1>7. ASSUME NEW s \in Timers PROVE Objects(s)' /\ Refers(s)'
  <2>1. Objects(s) /\ Refers(s)
    BY DEF ObjInv
  <2>2. CASE s = t
    BY <1>0, <1>1, <1>2, <1>3, <1>4, <1>5, <2>1, <2>2 DEF Objects, Refers, TypeOK
  <2>3. CASE s # t
    BY <1>0, <1>1, <1>2, <1>3, <1>4, <2>1, <2>3 DEF Objects, Refers, TypeOK
  <2> QED
    BY <2>2, <2>3
<1> QED
  BY <1>0, <1>1, <1>3, <1>6, <1>7 DEF ObjInv

\* The loop of MsgTimerExpire goes on from a timer that is done with.
LEMMA LoopObj ==
  ASSUME ObjInv, HeapInv', NEW may \in BOOLEAN, Take(may),
         UNCHANGED <<futureTime, ppc, app, mTimer, delegate, mClient, outcome, fault>>,
         \A s \in Timers : s # cur \/ app[s] # "stopped" => wrapper'[s] = wrapper[s],
         cur # NoTimer => app[cur] # "running" \/ mTimer[cur],
         Ordered(msgs'),
         \A s \in Timers : /\ Has(msgs', Msg("push", s)) <=> Has(msgs, Msg("push", s))
                           /\ Has(msgs', Msg("remove", s)) <=> Has(msgs, Msg("remove", s))
  PROVE  ObjInv'
<1>0. TypeOK /\ Shape /\ Started /\ ~fault
  BY DEF ObjInv, HeapInv
<1>1. /\ tpc' \in {"idle", "expire"}
      /\ cur' = NoTimer => heap' = heap
      /\ cur' # NoTimer => cur' \in heap /\ heap' = heap \ {cur'}
  BY Taken DEF ObjInv
<1>2. Using'
  BY <1>1 DEF Using
<1>3. ASSUME NEW s \in Timers PROVE Objects(s)' /\ Refers(s)'
  <2>1. Objects(s) /\ Refers(s) /\ s # NoTimer
    BY LocTimerAssumption DEF ObjInv
  <2>2. Objects(s)'
    BY <1>0, <1>1, <2>1 DEF Objects
  <2>3. Refers(s)'
    <3>1. /\ s \in heap' \/ s = cur' => s \in heap
          /\ s \in heap' => s # cur'
      BY <1>1, <2>1
    <3>2. /\ Has(msgs', Msg("push", s)) <=> Has(msgs, Msg("push", s))
          /\ Has(msgs', Msg("remove", s)) <=> Has(msgs, Msg("remove", s))
      OBVIOUS
    <3>3. UNCHANGED <<app, outcome, delegate>>
      OBVIOUS
    <3> QED
      BY <2>1, <3>1, <3>2, <3>3 DEF Refers
  <2> QED
    BY <2>2, <2>3
<1> QED
  BY <1>0, <1>2, <1>3 DEF ObjInv

LEMMA ExpireObj ==
  ASSUME ObjInv, HeapInv', Expire \/ ReadClient \/ StopClient \/ TimeOutCallback \/ CallbackReturns
                           \/ DestroyWrapper
  PROVE  ObjInv'
<1> USE DEF clientVars, delegateVars, heapVars, kernelVars
<1>0. TypeOK /\ Shape /\ Started /\ ~fault /\ Using /\ Ordered(msgs)
  BY DEF ObjInv, HeapInv
<1>1. Due \in BOOLEAN
  BY DEF Due
<1>2. ASSUME tpc # "idle" PROVE cur \in Timers /\ Objects(cur) /\ Refers(cur)
  BY <1>0, <1>2 DEF ObjInv, TypeOK, Shape
<1>3. CASE Expire
  <2>1. /\ msgs # <<>> /\ msgs' = Tail(msgs) /\ Head(msgs).type = "expire" /\ cur = NoTimer
        /\ Take(TRUE) /\ UNCHANGED <<app, wrapper, mTimer, outcome, delegate, mClient,
                                   futureTime, ppc, fault>>
    BY <1>0, <1>3 DEF Expire, Shape
  <2>2. \A s \in Timers : Head(msgs) \notin {Msg("push", s), Msg("remove", s)}
    BY <2>1, MsgTypes
  <2>3. /\ Ordered(msgs')
        /\ \A s \in Timers : /\ Has(msgs', Msg("push", s)) <=> Has(msgs, Msg("push", s))
                             /\ Has(msgs', Msg("remove", s)) <=> Has(msgs, Msg("remove", s))
    BY <2>1, <2>2, Received
  <2> QED
    BY <2>1, <2>3, LoopObj
<1>4. CASE ReadClient
  <2>0. /\ UNCHANGED <<app, wrapper, mTimer, outcome, delegate, mClient, futureTime, msgs, ppc, fault>>
        /\ tpc = "expire"
    BY <1>4 DEF ReadClient
  <2>1. CASE mClient[cur]
    <3>1. tpc' = "stop" /\ UNCHANGED <<cur, heap>>
      BY <1>4, <2>1 DEF ReadClient
    <3>2. Using'
      BY <2>0, <2>1, <3>1 DEF Using
    <3>3. ASSUME NEW s \in Timers PROVE Objects(s)' /\ Refers(s)'
      <4>1. Objects(s) /\ Refers(s)
        BY DEF ObjInv
      <4> QED
        BY <2>0, <3>1, <4>1 DEF Objects, Refers
    <3> QED
      BY <1>0, <2>0, <3>2, <3>3 DEF ObjInv
  <2>2. CASE ~mClient[cur]
    <3>1. Take(Due)
      BY <1>4, <2>2 DEF ReadClient
    <3>2. app[cur] # "running"
      BY <1>2, <2>0, <2>2 DEF Objects
    <3> QED
      BY <1>0, <1>1, <2>0, <3>1, <3>2, LoopObj
  <2> QED
    BY <2>1, <2>2
<1>5. CASE StopClient
  <2>0. /\ tpc = "stop" /\ app[cur] # "starting" /\ cur \in Timers
        /\ UNCHANGED <<app, wrapper, delegate>>
    BY <1>0, <1>5 DEF StopClient, TypeOK, Shape
  <2>1. /\ app[cur] = "running" /\ mTimer[cur] /\ mClient[cur] /\ wrapper[cur] = "live"
        /\ outcome[cur] = "pending" /\ ~Has(msgs, Msg("remove", cur))
    BY <1>0, <1>2, <2>0 DEF Objects, Refers, Using, TypeOK
  <2>2. /\ Stop(cur, "fired") /\ tpc' = "callback" /\ fault' = fault /\ UNCHANGED <<cur, heap>>
    BY <1>5, <2>1 DEF StopClient
  <2>3. /\ mTimer' = [mTimer EXCEPT ![cur] = FALSE]
        /\ mClient' = [mClient EXCEPT ![cur] = FALSE]
        /\ msgs' = Append(msgs, Msg("remove", cur))
        /\ outcome' = [outcome EXCEPT ![cur] = "fired"]
    BY <1>0, <2>0, <2>1, <2>2 DEF Stop, TypeOK
  <2>4. /\ Ordered(msgs')
        /\ \A s \in Timers : /\ Has(msgs', Msg("push", s)) <=> Has(msgs, Msg("push", s))
                             /\ Has(msgs', Msg("remove", s)) <=> Has(msgs, Msg("remove", s)) \/ s = cur
    BY <2>0, <2>1, <2>3, SentRemove
  <2>5. Using'
    BY <1>0, <2>0, <2>1, <2>2, <2>3 DEF Using, TypeOK
  <2>6. ASSUME NEW s \in Timers PROVE Objects(s)' /\ Refers(s)'
    <3>1. Objects(s) /\ Refers(s)
      BY DEF ObjInv
    <3>2. CASE s = cur
      BY <1>0, <2>0, <2>1, <2>2, <2>3, <2>4, <3>1, <3>2 DEF Objects, Refers, TypeOK
    <3>3. CASE s # cur
      BY <1>0, <2>0, <2>2, <2>3, <2>4, <3>1, <3>3 DEF Objects, Refers, TypeOK
    <3> QED
      BY <3>2, <3>3
  <2> QED
    BY <1>0, <2>2, <2>4, <2>5, <2>6 DEF ObjInv
<1>6. CASE TimeOutCallback
  <2>1. /\ tpc = "callback" /\ wrapper[cur] = "live"
    BY <1>0, <1>2, <1>6 DEF TimeOutCallback, Using, Objects
  <2>2. /\ ~fault' /\ tpc' = "incallback"
        /\ UNCHANGED <<app, wrapper, mTimer, outcome, delegate, mClient, heap, msgs, cur>>
    BY <1>6, <2>1 DEF TimeOutCallback
  <2>3. Using'
    BY <1>0, <2>1, <2>2 DEF Using
  <2>4. ASSUME NEW s \in Timers PROVE Objects(s)' /\ Refers(s)'
    <3>1. Objects(s) /\ Refers(s)
      BY DEF ObjInv
    <3> QED
      BY <2>2, <3>1 DEF Objects, Refers
  <2> QED
    BY <1>0, <2>2, <2>3, <2>4 DEF ObjInv
<1>7. CASE CallbackReturns
  <2>1. /\ tpc = "incallback" /\ app[cur] = "running" /\ ~mTimer[cur] /\ cur \in Timers
        /\ wrapper[cur] = "live" /\ outcome[cur] = "fired" /\ ~mClient[cur]
    BY <1>0, <1>2, <1>7 DEF CallbackReturns, Using, Objects
  <2>2. /\ tpc' = "destroy" /\ app' = [app EXCEPT ![cur] = "stopped"]
        /\ UNCHANGED <<wrapper, mTimer, outcome, delegate, mClient, heap, msgs, cur, fault>>
    BY <1>0, <1>7, <2>1 DEF CallbackReturns, TypeOK
  <2>3. Using'
    BY <1>0, <2>1, <2>2 DEF Using, TypeOK
  <2>4. ASSUME NEW s \in Timers PROVE Objects(s)' /\ Refers(s)'
    <3>1. Objects(s) /\ Refers(s)
      BY DEF ObjInv
    <3> QED
      BY <1>0, <2>1, <2>2, <3>1 DEF Objects, Refers, TypeOK
  <2> QED
    BY <1>0, <2>2, <2>3, <2>4 DEF ObjInv
<1>8. CASE DestroyWrapper
  <2>1. /\ tpc = "destroy" /\ app[cur] = "stopped" /\ wrapper[cur] = "live" /\ cur \in Timers
    BY <1>0, <1>2, <1>8 DEF DestroyWrapper, Using
  <2>2. /\ wrapper' = [wrapper EXCEPT ![cur] = "freed"] /\ Take(Due)
        /\ UNCHANGED <<futureTime, ppc, app, mTimer, delegate, mClient, outcome, fault, msgs>>
    BY <1>8, <2>1 DEF DestroyWrapper
  <2>3. \A s \in Timers : s # cur => wrapper'[s] = wrapper[s]
    BY <1>0, <2>2 DEF TypeOK
  <2> QED
    BY <1>0, <1>1, <2>1, <2>2, <2>3, LoopObj
<1> QED
  BY <1>3, <1>4, <1>5, <1>6, <1>7, <1>8

LEMMA ObjStep == ~LateStop /\ ObjInv /\ [Next]_vars => ObjInv'
<1> SUFFICES ASSUME ~LateStop, ObjInv, [Next]_vars PROVE ObjInv'
  OBVIOUS
<1>1. HeapInv'
  BY HeapStep DEF ObjInv
<1>2. Finished => UNCHANGED vars
  BY DEF Finished
<1> QED
  BY <1>1, <1>2, ClientObj, KernelObj, PushObj, RemoveObj, ExpireObj DEF Next, Task

\* Delegates and client objects are alive when they are used and deleted once, and no
\* delegate is left behind, for any number of timers that are started, stopped and
\* expire in any order, as long as no client stops a timer that is just expiring.
THEOREM ObjectsCorrect == ASSUME ~LateStop PROVE Spec => []ObjectsLive
<1>1. ObjInv => ObjectsLive
  <2> SUFFICES ASSUME ObjInv PROVE ObjectsLive
    OBVIOUS
  <2>0. TypeOK /\ msgs \in Seq(Msgs) /\ Ordered(msgs) /\ ~fault
    BY DEF ObjInv, HeapInv, Shape
  <2>1. \A t \in Timers : Refers(t)
    BY DEF ObjInv
  <2>2. \A t \in heap \cup ({cur} \ {NoTimer}) : delegate[t] = "live"
    BY <2>0, <2>1 DEF TypeOK, Refers
  <2>3. ASSUME NEW i \in DOMAIN msgs, msgs[i].timer # NoTimer
        PROVE  /\ delegate[msgs[i].timer] = "live"
               /\ \A j \in DOMAIN msgs : msgs[i] = msgs[j] => i = j
    <3>1. msgs[i] \in Msgs /\ Has(msgs, msgs[i])
      BY <2>0 DEF Has
    <3>2. /\ msgs[i].timer \in Timers
          /\ msgs[i] \in {Msg("push", msgs[i].timer), Msg("remove", msgs[i].timer)}
      BY <2>3, <3>1, MsgForms
    <3> QED
      BY <2>0, <2>1, <2>3, <3>1, <3>2 DEF Refers, Ordered
  <2>4. ASSUME NEW t \in Timers, outcome[t] \in {"cancelled", "fired"}, delegate[t] # "freed"
        PROVE  \E i \in DOMAIN msgs : msgs[i].timer = t
    <3>1. PICK i \in DOMAIN msgs : msgs[i] = Msg("remove", t)
      BY <2>1, <2>4 DEF Refers, Has
    <3> QED
      BY <3>1, MsgTypes
  <2> QED
    BY <2>0, <2>2, <2>3, <2>4 DEF ObjectsLive
<1> QED
  BY <1>1, InitObj, ObjStep, PTL DEF Spec
=============================================================================
