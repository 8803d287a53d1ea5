-------------------------- MODULE StreamPoll_proofs --------------------------
(***************************************************************************)
(* Proofs about StreamPoll for any number of buffers and of restarts.      *)
(*                                                                         *)
(* Most theorems assume that the driver keeps its last buffer, so that the *)
(* fd of a running stream is always polled and a stop waits for the poll   *)
(* thread, and that pthread_cond_wait returns only when signalled.  The    *)
(* count of queued buffers is proved for a driver that runs dry as well.   *)
(***************************************************************************)
EXTENDS StreamPoll, FiniteSetTheorems, TLAPS

\* The stream works with registered buffers.
Registered == {"launch", "streamon", "running", "stopwait", "streamoff"}

\* What the stream's state, the threads and the references are at every place
\* of the api thread.
StateOf(a) ==
  CASE a = "idle" -> "CFG"
    [] a \in {"reg", "failed", "put"} -> "BUFFED"
    [] a \in {"launch", "unreg"} -> "REG"
    [] OTHER -> "ACTIVE"

Stages ==
  /\ sstate = StateOf(apc)
  /\ streaming <=> apc \in {"running", "stopwait", "streamoff"}
  /\ apc # "idle" /\ Bundled => superAlive
  /\ sstate = "ACTIVE" /\ HasCb => cmdAlive
  /\ \A b1, b2 \in dispatched : b1 = b2
  /\ sstate # "ACTIVE" => ~cmdAlive /\ dispatched = {} /\ \A b \in Bufs : cmdQ[b] = 0
  /\ apc \in {"idle", "reg", "failed"} => \A b \in Bufs : app[b] = 0
  /\ apc \in {"idle", "reg", "failed", "launch"} => super = {}

\* The poll thread works on a frame only while the stream runs, or is stopped by
\* an api thread that still waits for it.
Polling ==
  /\ ppc # "poll" => apc \in {"running", "stopwait"}
  /\ apc \in {"launch", "streamon", "running"} => entry
  /\ apc \in {"stopwait", "streamoff"} => ~entry
  /\ apc = "stopwait" /\ woken => ppc = "poll" /\ ~pollset
  /\ apc = "streamoff" => ~pollset
  /\ ppc \in {"poll", "notify"} <=> pbuf = NoBuf

\* The driver never has all its buffers filled, so queued_buffer_count does not
\* reach 0 while the stream is active.
Counting ==
  /\ apc \in Registered =>
       /\ queued # {}
       /\ count >= Cardinality(queued) + Len(filled) + B2N(ppc = "count")
  /\ sstate = "ACTIVE" => count >= 1

\* A buffer is in one place of the kernel at most.
KernelQueues ==
  /\ ~streaming => filled = <<>>
  /\ ppc = "notify" => filled # <<>>
  /\ queued \cap Filled = {}
  /\ \A i, j \in DOMAIN filled : filled[i] = filled[j] => i = j

\* The references other than those of the frame the poll thread hands over.
BaseUsers(b) == B2N(b \in super) + cmdQ[b] + B2N(b \in dispatched) + app[b]

Ownership ==
  /\ apc \in Registered => \A b \in KernelBufs : BaseUsers(b) = 0 /\ pbuf # b
  /\ pbuf # NoBuf => BaseUsers(pbuf) = 0
  /\ apc = "launch" \/ sstate = "ACTIVE" => \A b \in Bufs : refcnt[b] = Users(b)

IndInv == /\ TypeOK /\ Stages /\ Polling /\ Counting /\ KernelQueues /\ Ownership
          /\ ~fault
-----------------------------------------------------------------------------
\* The assumptions of the theorems below.
Orderly == ~RunsDry /\ ~Spurious /\ InitHeld # Bufs

\* Sets of buffers are finite, and empty exactly when their size is 0.
LEMMA FiniteSubset ==
  ASSUME NEW S \in SUBSET Bufs
  PROVE  IsFiniteSet(S) /\ Cardinality(S) \in Nat /\ (S # {} => Cardinality(S) > 0)
BY StreamPollAssumption, FS_Subset, FS_CardinalityType, FS_EmptySet

\* Before the channel is started the invariant holds.
LEMMA InitInv == Init => IndInv
<1> SUFFICES ASSUME Init PROVE IndInv
  OBVIOUS
<1> USE StreamPollAssumption DEF Init, B2N
<1>1. ApiTypes
  <2>1. sessions \in 0..MaxSessions
    OBVIOUS
  <2> QED
    BY <2>1 DEF ApiTypes
<1>2. PollTypes
  <2>1. pipe \in Seq({"SYNC", "ASYNC"})
    OBVIOUS
  <2> QED
    BY <2>1 DEF PollTypes
<1>3. BufTypes
  <2>1. filled \in Seq(Bufs)
    OBVIOUS
  <2> QED
    BY <2>1 DEF BufTypes
<1>4. UserTypes
  BY DEF UserTypes
<1>5. Stages
  BY DEF Stages, StateOf
<1>6. Polling /\ Counting
  BY DEF Polling, Counting, Registered
<1>7. KernelQueues
  BY DEF KernelQueues, Filled
<1>8. Ownership
  BY DEF Ownership, Registered
<1> QED
  BY <1>1, <1>2, <1>3, <1>4, <1>5, <1>6, <1>7, <1>8 DEF IndInv, TypeOK

\* Every step of mm_channel_start and mm_channel_stop keeps the invariant: the stop
\* goes on only when the poll thread has left the stream.
LEMMA ApiStep == ASSUME Orderly, IndInv, Api \/ StopChannel PROVE IndInv'
<1> USE StreamPollAssumption DEF Orderly, IndInv, TypeOK
<1>1. CASE GetBuf
  <2> USE <1>1 DEF GetBuf, ApiAt, bufVars, pollVars, cmdVars
  <2>1. ApiTypes'
    BY DEF ApiTypes
  <2>2. PollTypes'
    BY DEF PollTypes
  <2>3. BufTypes'
    BY DEF BufTypes
  <2>4. UserTypes'
    BY DEF UserTypes
  <2>5. Stages'
    BY DEF Stages, StateOf
  <2>6. Polling' /\ Counting'
    BY DEF Polling, Counting, Registered, B2N
  <2>7. KernelQueues'
    BY DEF KernelQueues, Filled, Polling
  <2>8. Ownership'
    BY DEF Ownership, Registered, KernelBufs, BaseUsers, Users, Filled, B2N
  <2> QED
    BY <2>1, <2>2, <2>3, <2>4, <2>5, <2>6, <2>7, <2>8
<1>2. CASE RegBuf
  <2>. PICK Q \in SUBSET (Bufs \ InitHeld), ok \in {TRUE, ~StartCanFail}, counted \in BOOLEAN :
         /\ ok <=> Q = Bufs \ InitHeld
         /\ count' = Cardinality(Q) + B2N(~ok /\ counted)
         /\ queued' = Q
         /\ refcnt' = IF ok THEN [b \in Bufs |-> B2N(b \in InitHeld)] ELSE refcnt
         /\ app' = IF ok THEN [b \in Bufs |-> B2N(b \in InitHeld)] ELSE app
         /\ sstate' = IF ok THEN "REG" ELSE sstate
         /\ apc' = IF ok THEN "launch" ELSE "failed"
    BY <1>2 DEF RegBuf
  <2>. apc = "reg"
    BY <1>2 DEF RegBuf
  <2> USE <1>2 DEF RegBuf, cmdVars
  <2>. Q \in SUBSET Bufs /\ Cardinality(Q) \in Nat /\ (ok => Cardinality(Q) > 0)
    BY FiniteSubset
  <2>. filled = <<>> /\ ppc = "poll" /\ pbuf = NoBuf
    BY DEF Polling, KernelQueues, Stages
  <2>. apc' = "launch" => ok /\ queued' # {} /\ count' = Cardinality(queued')
    <3>1. apc' = "launch" => ok
      OBVIOUS
    <3>2. ok => B2N(~ok /\ counted) = 0
      BY DEF B2N
    <3>3. ok => count' = Cardinality(Q)
      BY <3>2
    <3> QED
      BY <3>1, <3>3
  <2>. apc' = "launch" => entry'
    BY <1>2 DEF RegBuf
  <2>1. ApiTypes'
    BY DEF ApiTypes
  <2>2. PollTypes'
    <3>1. pipe' \in Seq({"SYNC", "ASYNC"})
      BY DEF PollTypes
    <3> QED
      BY <3>1 DEF PollTypes
  <2>3. BufTypes'
    BY DEF BufTypes, B2N
  <2>4. UserTypes'
    BY DEF UserTypes, B2N
  <2>5. Stages'
    BY DEF Stages, StateOf
  <2>6. Polling' /\ Counting'
    <3>1. Polling'
      BY DEF Polling, Registered, Stages
    <3>2. Counting'
      BY DEF Counting, Registered, Stages, StateOf, Polling, KernelQueues, B2N
    <3> QED
      BY <3>1, <3>2
  <2>7. KernelQueues'
    BY DEF KernelQueues, Filled, Polling
  <2>8. Ownership'
    <3>1. \A b \in Bufs : cmdQ[b] = 0 /\ b \notin dispatched /\ b \notin super
      BY DEF Stages, StateOf
    <3>2. CASE ok
      BY <3>1, <3>2 DEF Ownership, Registered, KernelBufs, BaseUsers, Users, Filled, B2N
    <3>3. CASE ~ok
      BY <3>1, <3>3 DEF Ownership, Registered, Stages, StateOf
    <3> QED
      BY <3>2, <3>3
  <2> QED
    BY <2>1, <2>2, <2>3, <2>4, <2>5, <2>6, <2>7, <2>8
<1>3. CASE Launch
  <2> USE <1>3 DEF Launch, ApiAt, bufVars, pollVars, useVars
  <2>. Cardinality(queued) \in Nat /\ (queued # {} => Cardinality(queued) > 0)
    BY FiniteSubset DEF BufTypes
  <2>1. ApiTypes'
    BY DEF ApiTypes
  <2>2. PollTypes'
    BY DEF PollTypes
  <2>3. BufTypes'
    BY DEF BufTypes
  <2>4. UserTypes'
    BY DEF UserTypes
  <2>5. Stages'
    BY DEF Stages, StateOf
  <2>6. Polling' /\ Counting'
    <3>1. Polling'
      BY DEF Polling, Registered
    <3>2. Counting'
      BY DEF Counting, Registered, B2N, BufTypes
    <3> QED
      BY <3>1, <3>2
  <2>7. KernelQueues'
    BY DEF KernelQueues, Filled, Polling
  <2>8. Ownership'
    BY DEF Ownership, Registered, KernelBufs, BaseUsers, Users, Filled, B2N
  <2> QED
    BY <2>1, <2>2, <2>3, <2>4, <2>5, <2>6, <2>7, <2>8
<1>4. CASE StreamOn
  <2> USE <1>4 DEF StreamOn, ApiAt, bufVars, pollVars, cmdVars, useVars
  <2>1. ApiTypes'
    BY DEF ApiTypes
  <2>2. PollTypes'
    BY DEF PollTypes
  <2>3. BufTypes'
    BY DEF BufTypes
  <2>4. UserTypes'
    BY DEF UserTypes
  <2>5. Stages'
    BY DEF Stages, StateOf
  <2>6. Polling' /\ Counting'
    BY DEF Polling, Counting, Registered, B2N
  <2>7. KernelQueues'
    BY DEF KernelQueues, Filled, Polling
  <2>8. Ownership'
    BY DEF Ownership, Registered, KernelBufs, BaseUsers, Users, Filled, B2N
  <2> QED
    BY <2>1, <2>2, <2>3, <2>4, <2>5, <2>6, <2>7, <2>8
<1>5. CASE StreamOnFails
  <2> USE <1>5 DEF StreamOnFails, DelPollFd, bufVars, cmdVars, useVars
  <2>1. ApiTypes'
    BY DEF ApiTypes
  <2>2. PollTypes'
    <3>1. pipe' \in Seq({"SYNC", "ASYNC"})
      BY DEF PollTypes
    <3> QED
      BY <3>1 DEF PollTypes
  <2>3. BufTypes'
    BY DEF BufTypes
  <2>4. UserTypes'
    BY DEF UserTypes
  <2>5. Stages'
    BY DEF Stages, StateOf
  <2>6. Polling' /\ Counting'
    BY DEF Polling, Counting, Registered, B2N
  <2>7. KernelQueues'
    BY DEF KernelQueues, Filled, Polling
  <2>8. Ownership'
    BY DEF Ownership, Registered, KernelBufs, BaseUsers, Users, Filled, B2N
  <2> QED
    BY <2>1, <2>2, <2>3, <2>4, <2>5, <2>6, <2>7, <2>8
<1>6. CASE StopChannel
  <2> USE <1>6 DEF StopChannel, DelPollFd, bufVars, cmdVars, useVars
  <2>1. ApiTypes'
    BY DEF ApiTypes
  <2>2. PollTypes'
    <3>1. pipe' \in Seq({"SYNC", "ASYNC"})
      BY DEF PollTypes
    <3> QED
      BY <3>1 DEF PollTypes
  <2>3. BufTypes'
    BY DEF BufTypes
  <2>4. UserTypes'
    BY DEF UserTypes
  <2>5. Stages'
    BY DEF Stages, StateOf
  <2>6. Polling' /\ Counting'
    BY DEF Polling, Counting, Registered, B2N
  <2>7. KernelQueues'
    BY DEF KernelQueues, Filled, Polling
  <2>8. Ownership'
    BY DEF Ownership, Registered, KernelBufs, BaseUsers, Users, Filled, B2N
  <2> QED
    BY <2>1, <2>2, <2>3, <2>4, <2>5, <2>6, <2>7, <2>8
<1>7. CASE SigWait
  <2> USE <1>7 DEF SigWait, ApiAt, bufVars, pollVars, cmdVars, useVars
  <2>1. ApiTypes'
    BY DEF ApiTypes
  <2>2. PollTypes'
    BY DEF PollTypes
  <2>3. BufTypes'
    BY DEF BufTypes
  <2>4. UserTypes'
    BY DEF UserTypes
  <2>5. Stages'
    BY DEF Stages, StateOf
  <2>6. Polling' /\ Counting'
    BY DEF Polling, Counting, Registered, B2N
  <2>7. KernelQueues'
    BY DEF KernelQueues, Filled, Polling
  <2>8. Ownership'
    BY DEF Ownership, Registered, KernelBufs, BaseUsers, Users, Filled, B2N
  <2> QED
    BY <2>1, <2>2, <2>3, <2>4, <2>5, <2>6, <2>7, <2>8
<1>8. CASE StreamOff
  <2> USE <1>8 DEF StreamOff, ApiAt, pollVars, cmdVars, useVars
  <2>1. ApiTypes'
    BY DEF ApiTypes
  <2>2. PollTypes'
    BY DEF PollTypes
  <2>3. BufTypes'
    BY DEF BufTypes
  <2>4. UserTypes'
    BY DEF UserTypes
  <2>5. Stages'
    BY DEF Stages, StateOf
  <2>6. Polling' /\ Counting'
    BY DEF Polling, Counting, Registered, B2N
  <2>7. KernelQueues'
    BY DEF KernelQueues, Filled, Polling
  <2>8. Ownership'
    BY DEF Ownership, Registered, KernelBufs, BaseUsers, Users, Filled, B2N
  <2> QED
    BY <2>1, <2>2, <2>3, <2>4, <2>5, <2>6, <2>7, <2>8
<1>9. CASE ReleaseCmdThread
  <2> USE <1>9 DEF ReleaseCmdThread, ApiAt, bufVars, pollVars, useVars
  <2>1. ApiTypes'
    BY DEF ApiTypes
  <2>2. PollTypes'
    BY DEF PollTypes
  <2>3. BufTypes'
    BY DEF BufTypes
  <2>4. UserTypes'
    BY DEF UserTypes
  <2>5. Stages'
    BY DEF Stages, StateOf
  <2>6. Polling' /\ Counting'
    BY DEF Polling, Counting, Registered, B2N
  <2>7. KernelQueues'
    BY DEF KernelQueues, Filled, Polling
  <2>8. Ownership'
    BY DEF Ownership, Registered, KernelBufs, BaseUsers, Users, Filled, B2N
  <2> QED
    BY <2>1, <2>2, <2>3, <2>4, <2>5, <2>6, <2>7, <2>8
<1>10. CASE UnregBuf
  <2> USE <1>10 DEF UnregBuf, ApiAt, pollVars, cmdVars, useVars
  <2>1. ApiTypes'
    BY DEF ApiTypes
  <2>2. PollTypes'
    BY DEF PollTypes
  <2>3. BufTypes'
    BY DEF BufTypes
  <2>4. UserTypes'
    BY DEF UserTypes
  <2>5. Stages'
    BY DEF Stages, StateOf
  <2>6. Polling' /\ Counting'
    BY DEF Polling, Counting, Registered, B2N
  <2>7. KernelQueues'
    BY DEF KernelQueues, Filled, Polling
  <2>8. Ownership'
    BY DEF Ownership, Registered, KernelBufs, BaseUsers, Users, Filled, B2N
  <2> QED
    BY <2>1, <2>2, <2>3, <2>4, <2>5, <2>6, <2>7, <2>8
<1>11. CASE PutBuf
  <2> USE <1>11 DEF PutBuf, ApiAt, bufVars, pollVars, cmdVars
  <2>1. ApiTypes'
    BY DEF ApiTypes
  <2>2. PollTypes'
    BY DEF PollTypes
  <2>3. BufTypes'
    BY DEF BufTypes
  <2>4. UserTypes'
    BY DEF UserTypes
  <2>5. Stages'
    BY DEF Stages, StateOf
  <2>6. Polling' /\ Counting'
    BY DEF Polling, Counting, Registered, B2N
  <2>7. KernelQueues'
    BY DEF KernelQueues, Filled, Polling
  <2>8. Ownership'
    BY DEF Ownership, Registered, Stages, StateOf, Polling
  <2> QED
    BY <2>1, <2>2, <2>3, <2>4, <2>5, <2>6, <2>7, <2>8
<1> QED
  BY <1>1, <1>2, <1>3, <1>4, <1>5, <1>6, <1>7, <1>8, <1>9, <1>10, <1>11 DEF Api

\* Every step of the poll thread keeps the invariant: a frame moves from the driver
\* to its users, and queued_buffer_count stays above the driver's buffers.
LEMMA PollStep == ASSUME Orderly, IndInv, Poll PROVE IndInv'
<1> USE StreamPollAssumption DEF Orderly, IndInv, TypeOK
<1>1. CASE ProcPipe
  <2> USE <1>1 DEF ProcPipe, PollAt, Signals, apiVars, bufVars, cmdVars, useVars
  <2>1. ApiTypes'
    BY DEF ApiTypes
  <2>2. PollTypes'
    <3>1. pipe' \in Seq({"SYNC", "ASYNC"})
      BY DEF PollTypes
    <3> QED
      BY <3>1 DEF PollTypes
  <2>3. BufTypes'
    BY DEF BufTypes
  <2>4. UserTypes'
    BY DEF UserTypes
  <2>5. Stages'
    BY DEF Stages, StateOf
  <2>6. Polling' /\ Counting'
    BY DEF Polling, Counting, Registered, B2N
  <2>7. KernelQueues'
    BY DEF KernelQueues, Filled, Polling
  <2>8. Ownership'
    BY DEF Ownership, Registered, KernelBufs, BaseUsers, Users, Filled, B2N
  <2>9. ~fault'
    BY DEF Stages, StateOf, Polling, Registered
  <2> QED
    BY <2>1, <2>2, <2>3, <2>4, <2>5, <2>6, <2>7, <2>8, <2>9
<1>2. CASE PollReturns
  <2> USE <1>2 DEF PollReturns, PollAt, apiVars, bufVars, cmdVars, useVars, pollVars
  <2>1. ApiTypes'
    BY DEF ApiTypes
  <2>2. PollTypes'
    BY DEF PollTypes
  <2>3. BufTypes'
    BY DEF BufTypes
  <2>4. UserTypes'
    BY DEF UserTypes
  <2>5. Stages'
    BY DEF Stages, StateOf
  <2>6. Polling' /\ Counting'
    <3>1. Polling'
      BY DEF Polling, Registered, Stages
    <3>2. Counting'
      BY DEF Counting, Registered, B2N
    <3> QED
      BY <3>1, <3>2
  <2>7. KernelQueues'
    BY DEF KernelQueues, Filled, Polling
  <2>8. Ownership'
    BY DEF Ownership, Registered, KernelBufs, BaseUsers, Users, Filled, B2N
  <2>9. ~fault'
    BY DEF Stages, StateOf, Polling, Registered
  <2> QED
    BY <2>1, <2>2, <2>3, <2>4, <2>5, <2>6, <2>7, <2>8, <2>9
<1>3. CASE DqBuf
  <2>. ppc = "notify" /\ ~fault /\ pbuf = NoBuf /\ filled # <<>>
    BY <1>3 DEF DqBuf, PollAt, Polling, KernelQueues
  <2>. UNCHANGED <<apiVars, queued, refcnt, count, cmdVars, useVars, pollVars, fault>>
    BY <1>3 DEF DqBuf
  <2>. UNCHANGED <<apc, sessions, sstate, streaming, cmdQ, dispatched, cmdAlive, super, app,
                   superAlive, entry, pollset, pipe, woken>>
    BY DEF apiVars, cmdVars, useVars, pollVars
  <2>. \/ filled' = Tail(filled) /\ pbuf' = Head(filled) /\ ppc' = "count"
       \/ ppc' = "poll" /\ filled' = filled /\ pbuf' = pbuf
    BY <1>3 DEF DqBuf
  <2>. apc \in {"running", "stopwait"} /\ streaming
    BY DEF Polling, Stages
  <2>. Cardinality(queued) \in Nat
    BY FiniteSubset DEF BufTypes
  <2>. /\ Len(filled) \in Nat \ {0} /\ DOMAIN filled = 1..Len(filled)
       /\ Head(filled) = filled[1] /\ filled[1] \in Bufs
       /\ Tail(filled) \in Seq(Bufs) /\ Len(Tail(filled)) = Len(filled) - 1
       /\ DOMAIN Tail(filled) = 1..Len(filled) - 1
       /\ \A i \in 1..Len(filled) - 1 : Tail(filled)[i] = filled[i + 1]
    BY DEF BufTypes
  <2>1. ApiTypes'
    BY DEF ApiTypes
  <2>2. PollTypes'
    BY DEF PollTypes
  <2>3. BufTypes'
    BY DEF BufTypes
  <2>4. UserTypes'
    BY DEF UserTypes
  <2>5. Stages'
    BY DEF Stages, StateOf
  <2>6. Polling' /\ Counting'
    <3>1. Polling'
      BY DEF Polling, Registered
    <3>2. Counting'
      BY DEF Counting, Registered, B2N
    <3> QED
      BY <3>1, <3>2
  <2>7. KernelQueues'
    <3>1. CASE filled' = Tail(filled) /\ ppc' = "count"
      <4>1. Filled' \subseteq Filled
        BY <3>1 DEF Filled
      <4>2. \A i, j \in DOMAIN filled' : filled'[i] = filled'[j] => i = j
        BY <3>1 DEF KernelQueues
      <4> QED
        BY <3>1, <4>1, <4>2 DEF KernelQueues
    <3>2. CASE filled' = filled /\ ppc' = "poll"
      BY <3>2 DEF KernelQueues, Filled
    <3> QED
      BY <3>1, <3>2
  <2>8. Ownership'
    <3>1. KernelBufs' \subseteq KernelBufs
      BY DEF KernelBufs, Filled
    <3>2. pbuf' # NoBuf => pbuf' \in KernelBufs /\ pbuf' \notin KernelBufs'
      BY DEF KernelBufs, Filled, KernelQueues
    <3>3. KernelBufs \subseteq Bufs
      BY DEF KernelBufs, Filled, BufTypes
    <3>4. \A b \in Bufs : BaseUsers(b)' = BaseUsers(b) /\ Users(b)' = Users(b)
      BY DEF BaseUsers, Users, B2N
    <3>5. pbuf' # NoBuf => BaseUsers(pbuf)' = 0
      BY <3>2, <3>3 DEF Ownership, Registered, BaseUsers
    <3> QED
      BY <3>1, <3>2, <3>3, <3>4, <3>5 DEF Ownership, Registered
  <2>9. ~fault'
    BY DEF Stages, StateOf, Polling, Registered
  <2> QED
    BY <2>1, <2>2, <2>3, <2>4, <2>5, <2>6, <2>7, <2>8, <2>9
<1>4. CASE ReadFrame
  <2>. ppc = "count" /\ apc \in {"running", "stopwait"} /\ sstate = "ACTIVE" /\ pbuf # NoBuf
    BY <1>4 DEF ReadFrame, PollAt, Polling, Stages, StateOf
  <2>. CountDown /\ UNCHANGED <<apiVars, queued, filled, refcnt, cmdVars, useVars, pollset, woken, fault>>
    BY <1>4 DEF ReadFrame, Allocated
  <2>. UNCHANGED <<apc, sessions, sstate, streaming, cmdQ, dispatched, cmdAlive, super, app, superAlive>>
    BY DEF apiVars, cmdVars, useVars
  <2>. \/ ppc' = "account" /\ pbuf' = pbuf
       \/ ppc' = "poll" /\ pbuf' = NoBuf
    BY <1>4 DEF ReadFrame, Allocated
  <2>. Cardinality(queued) \in Nat /\ Cardinality(queued) > 0 /\ Len(filled) \in Nat
    BY FiniteSubset DEF BufTypes, Counting, Registered
  <2>. count' = count - 1 /\ count' \in Nat /\ count' >= Cardinality(queued) + Len(filled)
    BY DEF CountDown, Counting, Registered, B2N, BufTypes
  <2>. entry' = entry /\ pipe' = pipe
    <3>1. count' # 0
      OBVIOUS
    <3> QED
      BY <3>1 DEF CountDown, PollTypes
  <2>1. ApiTypes'
    BY DEF ApiTypes
  <2>2. PollTypes'
    BY DEF PollTypes
  <2>3. BufTypes'
    BY DEF BufTypes
  <2>4. UserTypes'
    BY DEF UserTypes
  <2>5. Stages'
    BY DEF Stages, StateOf
  <2>6. Polling' /\ Counting'
    <3>1. Polling'
      BY DEF Polling, Registered
    <3>2. Counting'
      BY DEF Counting, Registered, B2N
    <3> QED
      BY <3>1, <3>2
  <2>7. KernelQueues'
    BY DEF KernelQueues, Filled, Polling
  <2>8. Ownership'
    <3>1. KernelBufs' = KernelBufs
      BY DEF KernelBufs, Filled
    <3>2. \A b \in Bufs : BaseUsers(b)' = BaseUsers(b) /\ Users(b)' = Users(b)
      BY DEF BaseUsers, Users, B2N
    <3>3. pbuf' # NoBuf => BaseUsers(pbuf)' = 0
      BY DEF Ownership, BaseUsers
    <3>4. \A b \in KernelBufs : b \in Bufs /\ pbuf' # b
      BY StreamPollAssumption DEF Ownership, Registered, KernelBufs, Filled, BufTypes
    <3> QED
      BY <3>1, <3>2, <3>3, <3>4 DEF Ownership, Registered
  <2>9. ~fault'
    BY DEF Stages, StateOf, Polling, Registered
  <2> QED
    BY <2>1, <2>2, <2>3, <2>4, <2>5, <2>6, <2>7, <2>8, <2>9
<1>5. CASE Account
  <2>. ppc = "account" /\ apc \in {"running", "stopwait"} /\ sstate = "ACTIVE" /\ pbuf # NoBuf /\ pbuf \in Bufs
    BY <1>5 DEF Account, PollAt, Polling, Stages, StateOf, PollTypes
  <2>. UNCHANGED <<apiVars, queued, filled, count, cmdVars, useVars, pollVars, pbuf>>
    BY <1>5 DEF Account
  <2>. UNCHANGED <<apc, sessions, sstate, streaming, cmdQ, dispatched, cmdAlive, super, app,
                   superAlive, entry, pollset, pipe, woken>>
    BY DEF apiVars, cmdVars, useVars, pollVars
  <2>. /\ refcnt' = [refcnt EXCEPT ![pbuf] = @ + NewRefs]
       /\ ppc' = "handover" /\ fault' = fault
    BY <1>5 DEF Account, Allocated
  <2>. NewRefs \in Nat
    BY DEF NewRefs, B2N
  <2>1. ApiTypes'
    BY DEF ApiTypes
  <2>2. PollTypes'
    BY DEF PollTypes
  <2>3. BufTypes'
    BY DEF BufTypes
  <2>4. UserTypes'
    BY DEF UserTypes
  <2>5. Stages'
    BY DEF Stages, StateOf
  <2>6. Polling' /\ Counting'
    BY DEF Polling, Counting, Registered, B2N
  <2>7. KernelQueues'
    BY DEF KernelQueues, Filled, Polling
  <2>8. Ownership'
    <3>1. UNCHANGED <<queued, filled>> /\ \A b \in Bufs : BaseUsers(b)' = BaseUsers(b)
      BY DEF BaseUsers, B2N
    <3>2. \A b \in Bufs : /\ Users(b) = BaseUsers(b)
                          /\ Users(b)' = BaseUsers(b) + (IF b = pbuf THEN NewRefs ELSE 0)
      BY DEF BaseUsers, Users, UserTypes, B2N, NewRefs
    <3>3. \A b \in Bufs : refcnt'[b] = Users(b)'
      BY <3>2 DEF Ownership, BufTypes
    <3>4. BaseUsers(pbuf)' = 0
      BY DEF Ownership, BaseUsers
    <3>5. KernelBufs' = KernelBufs /\ KernelBufs \subseteq Bufs
      BY DEF KernelBufs, Filled, BufTypes
    <3> QED
      BY <3>1, <3>3, <3>4, <3>5 DEF Ownership, Registered
  <2>9. ~fault'
    BY DEF Stages, StateOf, Polling, Registered
  <2> QED
    BY <2>1, <2>2, <2>3, <2>4, <2>5, <2>6, <2>7, <2>8, <2>9
<1>6. CASE HandleRcvdBuf
  <2>. ppc = "handover" /\ apc \in {"running", "stopwait"} /\ sstate = "ACTIVE" /\ pbuf # NoBuf /\ pbuf \in Bufs
    BY <1>6 DEF HandleRcvdBuf, PollAt, Polling, Stages, StateOf, PollTypes
  <2>. UNCHANGED <<apiVars, bufVars, pollVars, app, superAlive, dispatched, cmdAlive>>
    BY <1>6 DEF HandleRcvdBuf
  <2>. UNCHANGED <<apc, sessions, sstate, streaming, queued, filled, refcnt, count, entry, pollset, pipe, woken>>
    BY DEF apiVars, bufVars, pollVars
  <2>. /\ super' = IF Bundled THEN super \cup {pbuf} ELSE super
       /\ cmdQ' = [cmdQ EXCEPT ![pbuf] = @ + B2N(HasCb)]
       /\ ppc' = "poll" /\ pbuf' = NoBuf /\ fault' = fault
    BY <1>6 DEF HandleRcvdBuf, Stages
  <2>1. ApiTypes'
    BY DEF ApiTypes
  <2>2. PollTypes'
    BY DEF PollTypes
  <2>3. BufTypes'
    BY DEF BufTypes
  <2>4. UserTypes'
    BY DEF UserTypes, B2N
  <2>5. Stages'
    BY DEF Stages, StateOf
  <2>6. Polling' /\ Counting'
    BY DEF Polling, Counting, Registered, B2N
  <2>7. KernelQueues'
    BY DEF KernelQueues, Filled, Polling
  <2>8. Ownership'
    <3>. PICK p \in Bufs : p = pbuf
      OBVIOUS
    <3>1. /\ BaseUsers(p) = 0 /\ p \notin super /\ cmdQ[p] = 0
          /\ BaseUsers(p)' = NewRefs
      <4>1. BaseUsers(p) = 0
        BY DEF Ownership, BaseUsers
      <4>2. /\ B2N(p \in super) = 0 /\ cmdQ[p] = 0
            /\ B2N(p \in dispatched) = 0 /\ app[p] = 0
        BY <4>1 DEF BaseUsers, B2N, UserTypes
      <4>3. p \notin super
        BY <4>2 DEF B2N
      <4>4. B2N(p \in super)' = B2N(Bundled) /\ cmdQ'[p] = B2N(HasCb)
        BY <4>2, <4>3 DEF B2N, UserTypes
      <4>5. B2N(p \in dispatched)' = 0 /\ app'[p] = 0
        BY <4>2 DEF B2N
      <4> QED
        BY <4>1, <4>2, <4>3, <4>4, <4>5 DEF BaseUsers, NewRefs, B2N
    <3>2. \A b \in Bufs \ {p} : BaseUsers(b)' = BaseUsers(b) /\ Users(b) = BaseUsers(b)
      BY DEF BaseUsers, B2N, UserTypes, Users
    <3>3. \A b \in Bufs : Users(b)' = BaseUsers(b)'
      BY DEF Users, BaseUsers, B2N, UserTypes
    <3>4. Users(p) = NewRefs
      BY <3>1 DEF Users, BaseUsers, NewRefs, B2N, UserTypes
    <3>5. KernelBufs' = KernelBufs /\ KernelBufs \subseteq Bufs \ {p}
      BY DEF KernelBufs, Filled, Ownership, Registered, BufTypes
    <3> QED
      BY <3>1, <3>2, <3>3, <3>4, <3>5 DEF Ownership, Registered
  <2>9. ~fault'
    BY DEF Stages, StateOf, Polling, Registered
  <2> QED
    BY <2>1, <2>2, <2>3, <2>4, <2>5, <2>6, <2>7, <2>8, <2>9
<1> QED
  BY <1>1, <1>2, <1>3, <1>4, <1>5, <1>6 DEF Poll

\* A buffer queued to the driver makes its set one larger.
LEMMA AddBuf ==
  ASSUME NEW S \in SUBSET Bufs, NEW b \in Bufs
  PROVE  /\ Cardinality(S \cup {b}) \in Nat
         /\ Cardinality(S \cup {b}) <= Cardinality(S) + 1
<1>1. IsFiniteSet(S) /\ Cardinality(S) \in Nat
  BY FiniteSubset
<1>2. Cardinality(S \cup {b}) = IF b \in S THEN Cardinality(S) ELSE Cardinality(S) + 1
  BY <1>1, FS_AddElement
<1> QED
  BY <1>1, <1>2

\* A use of b ends with mm_stream_buf_done while the stream is active, whoever
\* used it: the buffer goes to the kernel only with its last user.
LEMMA UseEnds ==
  ASSUME Orderly, IndInv, NEW b \in Bufs, BufDone(b), sstate = "ACTIVE", UserTypes',
         BaseUsers(b) > 0, dispatched' \subseteq dispatched,
         \A x \in Bufs : BaseUsers(x)' = BaseUsers(x) - B2N(x = b),
         UNCHANGED <<apc, sessions, sstate, streaming, filled, pollset, woken,
                     cmdAlive, superAlive, ppc, pbuf, fault>>
  PROVE  IndInv'
<1> USE StreamPollAssumption DEF Orderly, IndInv, TypeOK
<1>1. (apc # "launch" /\ b \notin KernelBufs) \/ apc \notin Registered
  BY DEF Ownership, Stages, StateOf
<1>2. pbuf # b /\ Users(b) = BaseUsers(b) /\ refcnt[b] = BaseUsers(b)
  <2>1. pbuf # b
    BY DEF Ownership, PollTypes
  <2>2. Users(b) = BaseUsers(b)
    BY <2>1 DEF Users, BaseUsers, UserTypes, B2N
  <2> QED
    BY <2>1, <2>2 DEF Ownership
<1>3. refcnt' = [refcnt EXCEPT ![b] = @ - 1] /\ BaseUsers(b) \in Nat
  <2>1. BaseUsers(b) \in Nat
    BY DEF BaseUsers, UserTypes, B2N
  <2>2. refcnt[b] # 0 /\ refcnt \in [Bufs -> Nat]
    BY <1>2, <2>1 DEF BufTypes
  <2> QED
    BY <2>1, <2>2 DEF BufDone
<1>4. /\ count' \in Nat /\ entry' = entry /\ pipe' = pipe
      /\ \/ queued' = queued /\ count' >= count
         \/ queued' = queued \cup {b} /\ count' = count + 1 /\ refcnt[b] = 1
  <2>1. count >= 1 /\ count \in Nat
    BY DEF Counting, BufTypes
  <2>2. CASE refcnt[b] # 1
    BY <2>1, <2>2 DEF BufDone, PollTypes
  <2>3. CASE refcnt[b] = 1
    BY <2>1, <2>3 DEF BufDone, PollTypes
  <2> QED
    BY <2>2, <2>3
<1>5. queued' \subseteq Bufs /\ queued \subseteq Bufs
  BY <1>4 DEF BufTypes
<1>6. ApiTypes' /\ PollTypes' /\ BufTypes'
  BY <1>3, <1>4, <1>5, <1>2 DEF ApiTypes, PollTypes, BufTypes
<1>7. Stages' /\ Polling'
  BY <1>4 DEF Stages, StateOf, Polling
<1>8. Counting'
  <2>1. Cardinality(queued) \in Nat /\ IsFiniteSet(queued)
    BY <1>5, FiniteSubset
  <2>2. Cardinality(queued \cup {b}) <= Cardinality(queued) + 1
        /\ Cardinality(queued \cup {b}) \in Nat
    BY <1>5, AddBuf
  <2>3. Len(filled) \in Nat /\ count \in Nat
    BY DEF BufTypes
  <2> QED
    <3>1. B2N(ppc = "count") \in Nat /\ B2N(ppc = "count")' = B2N(ppc = "count")
      BY DEF B2N
    <3>2. CASE queued' = queued /\ count' >= count
      BY <2>1, <2>3, <3>1, <3>2, <1>4 DEF Counting
    <3>3. CASE queued' = queued \cup {b} /\ count' = count + 1
      BY <2>1, <2>2, <2>3, <3>1, <3>3 DEF Counting
    <3> QED
      BY <1>4, <3>2, <3>3
<1>9. KernelQueues'
  <2>1. b \notin Filled
    BY <1>1, <1>7 DEF KernelBufs, Stages, KernelQueues, Registered, Filled
  <2> QED
    BY <2>1, <1>4 DEF KernelQueues, Filled
<1>10. Ownership'
  <2>1. apc' \in Registered => \A x \in KernelBufs' : BaseUsers(x)' = 0 /\ pbuf' # x
    <3> SUFFICES ASSUME apc \in Registered, NEW x \in KernelBufs'
                 PROVE  BaseUsers(x)' = 0 /\ pbuf # x
      OBVIOUS
    <3>1. x \in KernelBufs \/ (x = b /\ refcnt[b] = 1)
      BY <1>4 DEF KernelBufs, Filled
    <3>2. x \in Bufs
      BY <3>1 DEF KernelBufs, Filled, BufTypes
    <3>3. CASE x \in KernelBufs
      BY <3>2, <3>3, <1>1 DEF Ownership, B2N
    <3>4. CASE x = b /\ refcnt[b] = 1
      BY <3>4, <1>2 DEF B2N
    <3> QED
      BY <3>1, <3>3, <3>4
  <2>2. pbuf' # NoBuf => BaseUsers(pbuf)' = 0
    <3> SUFFICES ASSUME pbuf # NoBuf PROVE BaseUsers(pbuf)' = 0
      OBVIOUS
    <3> PICK p \in Bufs : p = pbuf
      BY DEF PollTypes
    <3>1. BaseUsers(p)' = 0
      BY <1>2 DEF Ownership, B2N
    <3> QED
      BY <3>1 DEF BaseUsers
  <2>3. \A x \in Bufs : refcnt'[x] = Users(x)'
    <3> SUFFICES ASSUME NEW x \in Bufs PROVE refcnt'[x] = Users(x)'
      OBVIOUS
    <3>1. /\ Users(x) = BaseUsers(x) + (IF ppc = "handover" /\ pbuf = x THEN NewRefs ELSE 0)
          /\ Users(x)' = BaseUsers(x)' + (IF ppc = "handover" /\ pbuf = x THEN NewRefs ELSE 0)
      BY DEF Users, BaseUsers, NewRefs
    <3>2. BaseUsers(x) \in Nat /\ NewRefs \in Nat /\ refcnt[x] = Users(x)
      BY DEF BaseUsers, UserTypes, B2N, NewRefs, Ownership
    <3> QED
      BY <3>1, <3>2, <1>3 DEF B2N, BufTypes
  <2> QED
    BY <2>1, <2>2, <2>3 DEF Ownership
<1> QED
  BY <1>6, <1>7, <1>8, <1>9, <1>10

\* The driver fills a buffer that is not its last, which moves within the kernel.
LEMMA FillStep == ASSUME Orderly, IndInv, NEW b \in Bufs, Fill(b) PROVE IndInv'
<1> USE StreamPollAssumption DEF Orderly, IndInv, TypeOK
<1>1. /\ streaming /\ b \in queued /\ queued # {b}
      /\ queued' = queued \ {b} /\ filled' = Append(filled, b)
      /\ UNCHANGED <<apc, sessions, sstate, streaming, refcnt, count, entry, pollset, pipe,
                     woken, cmdQ, dispatched, cmdAlive, super, app, superAlive, ppc, pbuf, fault>>
  BY DEF Fill, apiVars, pollVars, cmdVars, useVars
<1>2. /\ Append(filled, b) \in Seq(Bufs) /\ Len(filled) \in Nat
      /\ Len(Append(filled, b)) = Len(filled) + 1 /\ DOMAIN filled = 1..Len(filled)
      /\ DOMAIN Append(filled, b) = 1..Len(filled) + 1
      /\ Append(filled, b)[Len(filled) + 1] = b
      /\ \A i \in 1..Len(filled) : Append(filled, b)[i] = filled[i]
  BY DEF BufTypes
<1>3. ApiTypes' /\ PollTypes' /\ BufTypes' /\ UserTypes'
  BY <1>1, <1>2 DEF ApiTypes, PollTypes, BufTypes, UserTypes
<1>4. Stages' /\ Polling'
  BY <1>1 DEF Stages, StateOf, Polling
<1>5. Counting'
  <2>1. /\ IsFiniteSet(queued) /\ Cardinality(queued) \in Nat
        /\ Cardinality(queued \ {b}) = Cardinality(queued) - 1
    BY <1>1, FiniteSubset, FS_RemoveElement DEF BufTypes
  <2>2. queued' # {}
    BY <1>1
  <2>3. B2N(ppc = "count") \in Nat /\ B2N(ppc = "count")' = B2N(ppc = "count")
    BY <1>1 DEF B2N
  <2> QED
    BY <1>1, <1>2, <2>1, <2>2, <2>3 DEF Counting, BufTypes
<1>6. KernelBufs' = KernelBufs
  BY <1>1, <1>2 DEF KernelBufs, Filled
<1>7. KernelQueues'
  <2>1. \A i \in DOMAIN filled : filled[i] # b
    BY <1>1 DEF KernelQueues, Filled
  <2>2. \A i, j \in DOMAIN filled' : filled'[i] = filled'[j] => i = j
    BY <1>1, <1>2, <2>1 DEF KernelQueues
  <2>3. queued' \cap Filled' = {}
    BY <1>1, <1>2 DEF KernelQueues, Filled
  <2>4. filled' # <<>>
    BY <1>1, <1>2
  <2> QED
    BY <1>1, <2>2, <2>3, <2>4 DEF KernelQueues
<1>8. Ownership'
  <2>1. \A x \in Bufs : Users(x)' = Users(x)
    BY <1>1 DEF Users, NewRefs
  <2>2. \A x : BaseUsers(x)' = BaseUsers(x)
    BY <1>1 DEF BaseUsers
  <2>3. BaseUsers(pbuf)' = BaseUsers(pbuf)
    BY <1>1 DEF BaseUsers
  <2> QED
    BY <1>1, <1>6, <2>1, <2>2, <2>3 DEF Ownership
<1> QED
  BY <1>1, <1>3, <1>4, <1>5, <1>7, <1>8

\* The callback gets a reference of its own while cmd_thread keeps the first one.
LEMMA CallbackStep == ASSUME Orderly, IndInv, Callback PROVE IndInv'
<1> USE StreamPollAssumption DEF Orderly, IndInv, TypeOK
<1> PICK b \in Bufs : /\ cmdQ[b] > 0
                      /\ cmdQ' = [cmdQ EXCEPT ![b] = @ - 1]
                      /\ refcnt' = [refcnt EXCEPT ![b] = @ + 1]
                      /\ app' = [app EXCEPT ![b] = @ + 1]
                      /\ dispatched' = {b}
  BY DEF Callback
<1>1. dispatched = {} /\ sstate = "ACTIVE"
  BY DEF Callback, Stages
<1>2. UNCHANGED <<apc, sessions, sstate, streaming, queued, filled, count, entry, pollset,
                  pipe, woken, super, superAlive, cmdAlive, ppc, pbuf, fault>>
  BY DEF Callback, apiVars, pollVars
<1>3. ApiTypes' /\ PollTypes' /\ BufTypes' /\ UserTypes'
  BY <1>2 DEF ApiTypes, PollTypes, BufTypes, UserTypes
<1>4. Stages' /\ Polling' /\ Counting' /\ KernelQueues'
  BY <1>1, <1>2 DEF Stages, StateOf, Polling, Counting, KernelQueues, Filled
<1>5. Ownership'
  <2>1. \A x \in Bufs : BaseUsers(x)' = BaseUsers(x) + B2N(x = b)
    BY <1>1, <1>2 DEF BaseUsers, B2N, UserTypes
  <2>2. BaseUsers(b) > 0
    BY DEF BaseUsers, B2N, UserTypes
  <2>3. b \notin KernelBufs \/ apc \notin Registered
    BY <2>2 DEF Ownership
  <2>4. pbuf # b
    BY <2>2 DEF Ownership, PollTypes
  <2>5. KernelBufs' = KernelBufs /\ KernelBufs \subseteq Bufs
    BY <1>2 DEF KernelBufs, Filled, BufTypes
  <2>6. pbuf' # NoBuf => BaseUsers(pbuf)' = 0
    BY <1>2, <2>4 DEF Ownership, BaseUsers, PollTypes, UserTypes, B2N
  <2>7. \A x \in Bufs : refcnt'[x] = Users(x)'
    <3>1. \A x \in Bufs :
             /\ Users(x) = BaseUsers(x) + (IF ppc = "handover" /\ pbuf = x THEN NewRefs ELSE 0)
             /\ Users(x)' = BaseUsers(x)' + (IF ppc = "handover" /\ pbuf = x THEN NewRefs ELSE 0)
      BY <1>2 DEF Users, BaseUsers, NewRefs
    <3>2. NewRefs \in Nat /\ \A x \in Bufs : BaseUsers(x) \in Nat /\ refcnt[x] = Users(x)
      BY <1>1 DEF BaseUsers, UserTypes, B2N, NewRefs, Ownership
    <3>3. \A x \in Bufs : refcnt'[x] = refcnt[x] + B2N(x = b)
      BY DEF BufTypes, B2N
    <3>4. \A x \in Bufs : Users(x)' = Users(x) + B2N(x = b)
      BY <2>1, <3>1, <3>2 DEF B2N
    <3> QED
      BY <3>2, <3>3, <3>4
  <2> QED
    BY <1>2, <2>1, <2>3, <2>4, <2>5, <2>6, <2>7 DEF Ownership, B2N
<1> QED
  BY <1>2, <1>3, <1>4, <1>5

\* After the callback cmd_thread gives its reference back through mm_stream_buf_done.
LEMMA CallbackDoneStep == ASSUME Orderly, IndInv, CallbackDone PROVE IndInv'
<1> USE StreamPollAssumption DEF Orderly, IndInv, TypeOK
<1> PICK b \in dispatched : BufDone(b)
  BY DEF CallbackDone
<1>1. b \in Bufs /\ sstate = "ACTIVE" /\ dispatched = {b}
  BY DEF UserTypes, Stages
<1>2. /\ dispatched' = {}
      /\ UNCHANGED <<apc, sessions, sstate, streaming, filled, pollset, woken, super, app,
                     superAlive, cmdQ, cmdAlive, ppc, pbuf, fault>>
  BY DEF CallbackDone, apiVars, useVars
<1>3. UserTypes'
  BY <1>2 DEF UserTypes
<1>4. BaseUsers(b) > 0 /\ \A x \in Bufs : BaseUsers(x)' = BaseUsers(x) - B2N(x = b)
  BY <1>1, <1>2 DEF BaseUsers, B2N, UserTypes
<1> QED
  BY <1>1, <1>2, <1>3, <1>4, UseEnds

\* The HAL gives a buffer of the data callback back, in any state of the stream.
LEMMA AppQBufStep == ASSUME Orderly, IndInv, NEW b \in Bufs, AppQBuf(b) PROVE IndInv'
<1> USE StreamPollAssumption DEF Orderly, IndInv, TypeOK
<1>1. /\ app[b] > 0 /\ apc \notin {"launch", "streamon"} /\ QBufEvent(b)
      /\ app' = [app EXCEPT ![b] = @ - 1]
      /\ UNCHANGED <<apc, sessions, sstate, streaming, filled, pollset, woken, cmdQ, dispatched,
                     cmdAlive, super, superAlive, ppc, pbuf, fault>>
  BY DEF AppQBuf, apiVars, cmdVars
<1>2. UserTypes'
  BY <1>1 DEF UserTypes
<1>3. BaseUsers(b) > 0 /\ \A x \in Bufs : BaseUsers(x)' = BaseUsers(x) - B2N(x = b)
  BY <1>1 DEF BaseUsers, B2N, UserTypes
<1>4. CASE sstate = "ACTIVE"
  BY <1>1, <1>2, <1>3, <1>4, UseEnds DEF QBufEvent
<1>5. CASE sstate # "ACTIVE"
  <2>1. UNCHANGED <<queued, refcnt, count, entry, pipe>> /\ apc \notin Registered
    BY <1>1, <1>5 DEF QBufEvent, Stages, StateOf, Registered
  <2>2. ApiTypes' /\ PollTypes' /\ BufTypes'
    BY <1>1, <2>1 DEF ApiTypes, PollTypes, BufTypes
  <2>3. Stages' /\ Polling' /\ Counting' /\ KernelQueues'
    BY <1>1, <1>5, <2>1 DEF Stages, StateOf, Polling, Counting, KernelQueues, Filled, UserTypes
  <2>4. Ownership'
    BY <1>1, <1>5, <2>1 DEF Ownership, Polling, Stages, StateOf, Registered
  <2> QED
    BY <1>1, <1>2, <2>2, <2>3, <2>4
<1> QED
  BY <1>4, <1>5

\* The channel's threads or the HAL give a buffer of a superbuf back.
LEMMA SuperQBufStep == ASSUME Orderly, IndInv, NEW b \in Bufs, SuperQBuf(b) PROVE IndInv'
<1> USE StreamPollAssumption DEF Orderly, IndInv, TypeOK
<1>1. /\ b \in super /\ QBufEvent(b) /\ super' = super \ {b}
      /\ UNCHANGED <<apc, sessions, sstate, streaming, filled, pollset, woken, cmdQ, dispatched,
                     cmdAlive, app, superAlive, ppc, pbuf, fault>>
  BY DEF SuperQBuf, apiVars, cmdVars
<1>2. UserTypes'
  BY <1>1 DEF UserTypes
<1>3. BaseUsers(b) > 0 /\ \A x \in Bufs : BaseUsers(x)' = BaseUsers(x) - B2N(x = b)
  BY <1>1 DEF BaseUsers, B2N, UserTypes
<1>4. CASE sstate = "ACTIVE"
  BY <1>1, <1>2, <1>3, <1>4, UseEnds DEF QBufEvent
<1>5. CASE sstate # "ACTIVE"
  <2>1. UNCHANGED <<queued, refcnt, count, entry, pipe>> /\ apc \notin Registered
    BY <1>1, <1>5 DEF QBufEvent, Stages, StateOf, Registered
  <2>2. ApiTypes' /\ PollTypes' /\ BufTypes'
    BY <1>1, <2>1 DEF ApiTypes, PollTypes, BufTypes
  <2>3. Stages' /\ Polling' /\ Counting' /\ KernelQueues'
    BY <1>1, <1>5, <2>1 DEF Stages, StateOf, Polling, Counting, KernelQueues, Filled
  <2>4. Ownership'
    BY <1>1, <1>5, <2>1 DEF Ownership, Polling, Stages, StateOf, Registered
  <2> QED
    BY <1>1, <1>2, <2>2, <2>3, <2>4
<1> QED
  BY <1>4, <1>5

\* The invariant depends on the variables only.
LEMMA StutterStep == IndInv /\ UNCHANGED vars => IndInv'
<1> SUFFICES ASSUME IndInv, UNCHANGED vars PROVE IndInv'
  OBVIOUS
<1> USE DEF IndInv, vars, apiVars, pollVars, bufVars, cmdVars, useVars
<1>1. TypeOK'
  BY DEF TypeOK, ApiTypes, PollTypes, BufTypes, UserTypes
<1>2. Stages' /\ Polling'
  BY DEF Stages, Polling
<1>3. Counting' /\ KernelQueues'
  BY DEF Counting, KernelQueues, Filled
<1>4. Ownership'
  BY DEF Ownership, KernelBufs, Filled, BaseUsers, Users, NewRefs
<1> QED
  BY <1>1, <1>2, <1>3, <1>4

\* The invariant is inductive: it holds in every state of every run of the stream.
THEOREM Inductive == ASSUME Orderly PROVE Spec => []IndInv
<1>1. IndInv /\ [Next]_vars => IndInv'
  <2> SUFFICES ASSUME IndInv, [Next]_vars PROVE IndInv'
    OBVIOUS
  <2>1. CASE UNCHANGED vars
    BY <2>1, StutterStep
  <2>2. CASE Api \/ StopChannel
    BY <2>2, ApiStep
  <2>3. CASE Poll
    BY <2>3, PollStep
  <2>4. CASE Cmd
    BY <2>4, CallbackStep, CallbackDoneStep DEF Cmd
  <2>5. ASSUME NEW b \in Bufs, Fill(b) \/ AppQBuf(b) \/ SuperQBuf(b) PROVE IndInv'
    BY <2>5, FillStep, AppQBufStep, SuperQBufStep
  <2>6. CASE Terminated
    BY <2>6, StutterStep DEF Terminated
  <2> QED
    BY <2>1, <2>2, <2>3, <2>4, <2>5, <2>6 DEF Next
<1> QED
  BY <1>1, InitInv, PTL DEF Spec

\* Every variable keeps its type; in particular queued_buffer_count, which
\* mm_stream_read_msm_frame decrements and nobody checks, never falls below 0.
THEOREM TypeCorrect == ASSUME Orderly PROVE Spec => []TypeOK
<1>1. IndInv => TypeOK
  BY DEF IndInv
<1> QED
  BY <1>1, Inductive, PTL

\* buf_refcnt counts exactly the users of a buffer that will give it back.
THEOREM RefcntCorrect == ASSUME Orderly PROVE Spec => []RefcntExact
<1>1. IndInv => RefcntExact
  BY DEF IndInv, Ownership, RefcntExact
<1> QED
  BY <1>1, Inductive, PTL

\* A buffer the driver may write to has no user, however often the channel was
\* stopped and started and whatever cache operation or VIDIOC_QBUF failed.
THEOREM KernelExclusion == ASSUME Orderly PROVE Spec => []KernelExclusive
<1>1. IndInv => KernelExclusive
  <2> SUFFICES ASSUME IndInv, streaming, NEW b \in KernelBufs
               PROVE  Users(b) = 0 /\ pbuf # b
    BY DEF KernelExclusive
  <2>1. apc \in Registered
    BY DEF IndInv, Stages, Registered
  <2>2. BaseUsers(b) = 0 /\ pbuf # b
    BY <2>1 DEF IndInv, Ownership
  <2>3. b \in Bufs
    BY DEF IndInv, TypeOK, BufTypes, KernelBufs, Filled
  <2> QED
    BY <2>2, <2>3 DEF Users, BaseUsers, IndInv, TypeOK, UserTypes, B2N
<1> QED
  BY <1>1, Inductive, PTL

\* When a synchronous deletion of the poll entry returns, the fd is not polled.
THEOREM SyncCorrect == ASSUME Orderly PROVE Spec => []SyncMeansDone
<1>1. IndInv => SyncMeansDone
  BY DEF IndInv, Polling, SyncMeansDone
<1> QED
  BY <1>1, Inductive, PTL

\* The poll thread meets neither released buffers nor joined threads.
THEOREM ReleaseSafe == ASSUME Orderly PROVE Spec => []SafeToRelease
<1>1. IndInv => SafeToRelease
  BY DEF IndInv, SafeToRelease
<1> QED
  BY <1>1, Inductive, PTL
-----------------------------------------------------------------------------
(* queued_buffer_count.  A driver that fills its last buffer as well makes   *)
(* it 0 and ends the polling, which the next queued buffer takes up again.   *)
(* Then a stop does not wait for the poll thread, so the count is right as   *)
(* long as the channel runs for the first time: the case of every bundled    *)
(* stream, and of any stream if there is but one session.  Buffer operations *)
(* that fail are excluded: mm_stream_qbuf counts a buffer the driver refused.*)

Once == Bundled \/ MaxSessions = 1
Young == apc \in {"reg", "launch", "streamon", "running"} \/ (apc = "idle" /\ sessions = 0)

Exact ==
  /\ ppc # "poll" => apc = "running"
  /\ ppc \in {"poll", "notify"} <=> pbuf = NoBuf
  /\ apc \in {"idle", "reg"} => ~entry
  /\ apc \in Registered => /\ count = Cardinality(queued) + Len(filled) + B2N(ppc = "count")
                           /\ entry <=> count > 0

YoungInv == TypeOK /\ Stages /\ KernelQueues /\ Ownership /\ Exact /\ ~fault
ExactInv ==
  /\ sessions \in Nat /\ (apc # "idle" => sessions > 0)
  /\ Young => YoungInv

\* Two disjoint sets of buffers, one of them in a sequence without repetitions.
LEMMA KernelCount ==
  ASSUME BufTypes, KernelQueues
  PROVE  Cardinality(KernelBufs) = Cardinality(queued) + Len(filled)
<1>1. filled \in Seq(Bufs) /\ queued \in SUBSET Bufs /\ Filled \in SUBSET Bufs
  BY DEF BufTypes, Filled
<1>2. IsFiniteSet(queued) /\ IsFiniteSet(Filled)
  BY <1>1, FiniteSubset
<1>3. Cardinality(Filled) = Len(filled)
  <2> DEFINE n == Len(filled)
  <2>1. n \in Nat /\ DOMAIN filled = 1..n
    BY <1>1
  <2>2. filled \in Bijection(1..n, Filled)
    <3>1. filled \in [1..n -> Filled]
      BY <1>1, <2>1 DEF Filled
    <3>2. \A i, j \in 1..n : filled[i] = filled[j] => i = j
      BY <2>1 DEF KernelQueues
    <3>3. \A b \in Filled : \E i \in 1..n : filled[i] = b
      BY <2>1 DEF Filled
    <3> QED
      BY <3>1, <3>2, <3>3 DEF Bijection, Injection, Surjection, IsInjective
  <2>3. ExistsBijection(1..n, Filled)
    BY <2>2 DEF ExistsBijection
  <2> QED
    BY <2>1, <2>3, <1>2, FS_CountingElements
<1>4. Cardinality(queued \cup Filled)
        = Cardinality(queued) + Cardinality(Filled) - Cardinality(queued \cap Filled)
  BY <1>2, FS_Union
<1>5. queued \cap Filled = {}
  BY DEF KernelQueues
<1>6. Cardinality(queued \cap Filled) = 0
  BY <1>5, FS_EmptySet
<1>7. Cardinality(queued) \in Nat /\ Cardinality(Filled) \in Nat
  BY <1>1, FiniteSubset
<1> QED
  BY <1>3, <1>4, <1>6, <1>7 DEF KernelBufs

LEMMA ExactInit == Init => ExactInv
<1> SUFFICES ASSUME Init PROVE ExactInv
  OBVIOUS
<1>1. IndInv
  BY InitInv
<1> QED
  BY <1>1 DEF Init, IndInv, ExactInv, YoungInv, Exact, Registered

\* A channel that runs no more for the first time is not started again.
LEMMA OnceYoung ==
  ASSUME Once, ExactInv, [Next]_vars
  PROVE  /\ sessions' \in Nat /\ (apc' # "idle" => sessions' > 0)
         /\ ~Young => ~Young'
<1> USE StreamPollAssumption DEF Once, ExactInv, Young
<1>1. CASE GetBuf
  <2>1. sessions < 1 /\ sessions' = sessions + 1 /\ apc = "idle"
    BY <1>1 DEF GetBuf, ApiAt
  <2> QED
    BY <2>1
<1>2. CASE ~GetBuf /\ Api
  <2>1. CASE RegBuf \/ Launch \/ StreamOn
    BY <2>1 DEF RegBuf, Launch, StreamOn, ApiAt
  <2>2. CASE StreamOnFails \/ SigWait \/ StreamOff
    BY <2>2 DEF StreamOnFails, SigWait, StreamOff, ApiAt, DelPollFd
  <2>3. CASE ReleaseCmdThread \/ UnregBuf \/ PutBuf
    BY <2>3 DEF ReleaseCmdThread, UnregBuf, PutBuf, ApiAt
  <2> QED
    BY <1>2, <2>1, <2>2, <2>3 DEF Api
<1>3. CASE StopChannel
  BY <1>3 DEF StopChannel, DelPollFd
<1>4. CASE ~Api /\ ~StopChannel
  <2>1. UNCHANGED <<apc, sessions>>
    BY <1>4 DEF Next, Poll, Cmd, ProcPipe, PollReturns, DqBuf, ReadFrame, Account, HandleRcvdBuf,
                Callback, CallbackDone, Fill, AppQBuf, SuperQBuf, Terminated, apiVars, vars
  <2> QED
    BY <2>1
<1> QED
  BY <1>2, <1>3, <1>4, <1>1 DEF Api

\* The channel is started: the registered buffers are counted, and polled if any.
LEMMA ExactApi ==
  ASSUME YoungInv, Young, Young', Api \/ StopChannel
  PROVE  YoungInv'
<1> USE StreamPollAssumption DEF YoungInv, TypeOK
<1>1. CASE GetBuf
  <2> USE <1>1 DEF GetBuf, ApiAt, bufVars, pollVars, cmdVars
  <2>0. sessions' \in 0..MaxSessions
    BY DEF ApiTypes
  <2>1. ApiTypes' /\ PollTypes' /\ BufTypes' /\ UserTypes'
    BY <2>0 DEF ApiTypes, PollTypes, BufTypes, UserTypes
  <2>2. Stages'
    BY DEF Stages, StateOf
  <2>3. KernelQueues' /\ Exact'
    BY DEF KernelQueues, Filled, Exact, Registered
  <2>4. Ownership'
    BY DEF Ownership, Registered, KernelBufs, BaseUsers, Users, Filled, B2N, Exact
  <2> QED
    BY <2>1, <2>2, <2>3, <2>4
<1>2. CASE RegBuf
  <2>0. apc = "reg" /\ apc' \in {"launch", "failed"}
    BY <1>2 DEF RegBuf
  <2>1. apc' = "launch"
    BY <2>0 DEF Young
  <2>2. PICK Q \in SUBSET (Bufs \ InitHeld), ok \in {TRUE, ~StartCanFail}, counted \in BOOLEAN :
         /\ ok <=> Q = Bufs \ InitHeld
         /\ count' = Cardinality(Q) + B2N(~ok /\ counted)
         /\ queued' = Q
         /\ refcnt' = IF ok THEN [b \in Bufs |-> B2N(b \in InitHeld)] ELSE refcnt
         /\ app' = IF ok THEN [b \in Bufs |-> B2N(b \in InitHeld)] ELSE app
         /\ sstate' = IF ok THEN "REG" ELSE sstate
         /\ apc' = IF ok THEN "launch" ELSE "failed"
    BY <1>2 DEF RegBuf
  <2>3. ok
    BY <2>1, <2>2
  <2>4. /\ queued' = Bufs \ InitHeld /\ count' = Cardinality(queued')
        /\ refcnt' = [b \in Bufs |-> B2N(b \in InitHeld)] /\ app' = refcnt' /\ sstate' = "REG"
    <3>1. B2N(~ok /\ counted) = 0
      BY <2>3 DEF B2N
    <3>2. Cardinality(Q) \in Nat
      BY FiniteSubset
    <3> QED
      BY <2>2, <2>3, <3>1, <3>2
  <2>5. Cardinality(queued') \in Nat
    BY <2>4, FiniteSubset
  <2>6. /\ UNCHANGED <<sessions, streaming, filled, pollset, woken, cmdQ, dispatched, cmdAlive,
                       super, superAlive, ppc, pbuf, fault>>
        /\ entry' = (entry \/ count' > 0)
        /\ pipe' = IF count' > 0 THEN Append(pipe, "ASYNC") ELSE pipe
    BY <1>2 DEF RegBuf, cmdVars
  <2>7. filled = <<>> /\ ppc = "poll" /\ pbuf = NoBuf /\ ~entry
    BY <2>0 DEF Exact, KernelQueues, Stages
  <2>8. pipe' \in Seq({"SYNC", "ASYNC"}) /\ entry' \in BOOLEAN
    BY <2>6 DEF PollTypes
  <2>9. ApiTypes' /\ PollTypes' /\ BufTypes' /\ UserTypes'
    BY <2>1, <2>4, <2>5, <2>6, <2>8 DEF ApiTypes, PollTypes, BufTypes, UserTypes, B2N
  <2>10. Stages'
    BY <2>0, <2>1, <2>4, <2>6 DEF Stages, StateOf
  <2>11. KernelQueues'
    BY <2>6, <2>7 DEF KernelQueues, Filled
  <2>12. Exact'
    <3>1. Len(filled') = 0 /\ B2N(ppc' = "count") = 0
      BY <2>6, <2>7 DEF B2N
    <3>2. entry' <=> count' > 0
      BY <2>6, <2>7
    <3>3. B2N(ppc = "count")' = B2N(ppc' = "count")
      BY DEF B2N
    <3> QED
      BY <2>1, <2>4, <2>5, <2>6, <2>7, <3>1, <3>2, <3>3 DEF Exact
  <2>13. Ownership'
    <3>1. \A b \in Bufs : cmdQ[b] = 0 /\ b \notin dispatched /\ b \notin super
      BY <2>0 DEF Stages, StateOf
    <3>2. \A b \in Bufs : BaseUsers(b)' = B2N(b \in InitHeld) /\ Users(b)' = B2N(b \in InitHeld)
      BY <2>4, <2>6, <2>7, <3>1 DEF BaseUsers, Users, B2N
    <3>3. KernelBufs' = Bufs \ InitHeld
      BY <2>4, <2>6, <2>7 DEF KernelBufs, Filled
    <3> QED
      BY <2>4, <2>6, <2>7, <3>2, <3>3 DEF Ownership, B2N
  <2> QED
    BY <2>6, <2>9, <2>10, <2>11, <2>12, <2>13
<1>3. CASE Launch \/ StreamOn
  <2>1. /\ UNCHANGED <<sessions, queued, filled, refcnt, count, entry, pollset, pipe, woken,
                       cmdQ, dispatched, super, app, superAlive, ppc, pbuf, fault>>
        /\ \/ /\ apc = "launch" /\ apc' = "streamon" /\ cmdAlive' = HasCb
              /\ sstate' = "ACTIVE" /\ streaming' = streaming
           \/ /\ apc = "streamon" /\ apc' = "running" /\ cmdAlive' = cmdAlive
              /\ sstate' = sstate /\ streaming' = TRUE
    BY <1>3 DEF Launch, StreamOn, ApiAt, bufVars, pollVars, cmdVars, useVars
  <2>2. ApiTypes' /\ PollTypes' /\ BufTypes' /\ UserTypes'
    <3>1. ApiTypes'
      BY <2>1 DEF ApiTypes
    <3>2. PollTypes' /\ BufTypes'
      BY <2>1 DEF PollTypes, BufTypes
    <3>3. UserTypes'
      BY <2>1 DEF UserTypes
    <3> QED
      BY <3>1, <3>2, <3>3
  <2>3. Stages'
    BY <2>1 DEF Stages, StateOf
  <2>4. KernelQueues' /\ Exact'
    BY <2>1 DEF KernelQueues, Filled, Exact, Registered, B2N
  <2>5. KernelBufs' = KernelBufs /\ (\A b \in Bufs : Users(b)' = Users(b))
    BY <2>1 DEF KernelBufs, Filled, Users, NewRefs
  <2>6. (\A b : BaseUsers(b)' = BaseUsers(b)) /\ BaseUsers(pbuf)' = BaseUsers(pbuf)
    BY <2>1 DEF BaseUsers
  <2>7. Ownership'
    BY <2>1, <2>5, <2>6 DEF Ownership, Registered, Stages, StateOf
  <2> QED
    BY <2>1, <2>2, <2>3, <2>4, <2>7
<1>4. CASE StreamOnFails \/ StopChannel \/ SigWait \/ StreamOff \/ ReleaseCmdThread \/ UnregBuf \/ PutBuf
  <2>1. apc' \in {"onfailed", "onfailwait", "streamoff", "stopwait", "release", "unreg", "put"}
        \/ apc \in {"put", "failed"}
    BY <1>4 DEF StreamOnFails, StopChannel, SigWait, StreamOff, ReleaseCmdThread, UnregBuf, PutBuf,
                ApiAt, DelPollFd
  <2> QED
    BY <2>1 DEF Young
<1> QED
  BY <1>1, <1>2, <1>3, <1>4 DEF Api

\* A frame moves from the driver to its users, and the count with it.
LEMMA ExactPoll == ASSUME YoungInv, Young, Young', Poll PROVE YoungInv'
<1> USE StreamPollAssumption DEF YoungInv, TypeOK
<1>1. UNCHANGED <<apc, sessions, sstate, streaming, queued, superAlive, app, dispatched, cmdAlive>>
  BY DEF Poll, ProcPipe, PollReturns, DqBuf, ReadFrame, Account, HandleRcvdBuf,
         apiVars, bufVars, cmdVars, useVars
<1>2. CASE ProcPipe
  <2>1. /\ UNCHANGED <<filled, refcnt, count, cmdQ, super, entry, ppc, pbuf, fault>>
        /\ pollset' = entry /\ woken' \in BOOLEAN /\ pipe # <<>> /\ pipe' = Tail(pipe)
    BY <1>2 DEF ProcPipe, PollAt, PollTypes, Signals, bufVars, cmdVars, useVars
  <2>2. pipe' \in Seq({"SYNC", "ASYNC"})
    BY <2>1 DEF PollTypes
  <2>3. ApiTypes' /\ PollTypes'
    BY <1>1, <2>1, <2>2 DEF ApiTypes, PollTypes
  <2>4. BufTypes' /\ UserTypes'
    BY <1>1, <2>1 DEF BufTypes, UserTypes
  <2>5. Stages' /\ KernelQueues' /\ Exact'
    BY <1>1, <2>1 DEF Stages, KernelQueues, Filled, Exact, B2N
  <2>6. Ownership'
    BY <1>1, <2>1 DEF Ownership, KernelBufs, Filled, BaseUsers, Users, NewRefs
  <2> QED
    BY <2>1, <2>3, <2>4, <2>5, <2>6
<1>3. CASE PollReturns
  <2>1. /\ UNCHANGED <<filled, refcnt, count, cmdQ, super, entry, pollset, pipe, woken, pbuf, fault>>
        /\ ppc = "poll" /\ ppc' = "notify" /\ streaming /\ filled # <<>>
    BY <1>3 DEF PollReturns, PollAt, bufVars, cmdVars, useVars, pollVars
  <2>2. apc = "running"
    BY <2>1 DEF Stages, Young
  <2>3. ApiTypes' /\ PollTypes'
    BY <1>1, <2>1 DEF ApiTypes, PollTypes
  <2>4. BufTypes' /\ UserTypes'
    BY <1>1, <2>1 DEF BufTypes, UserTypes
  <2>5. Stages' /\ KernelQueues'
    BY <1>1, <2>1 DEF Stages, KernelQueues, Filled
  <2>6. Exact'
    BY <1>1, <2>1, <2>2 DEF Exact, B2N, Registered
  <2>7. Ownership'
    BY <1>1, <2>1 DEF Ownership, KernelBufs, Filled, BaseUsers, Users, NewRefs
  <2> QED
    BY <2>1, <2>3, <2>4, <2>5, <2>6, <2>7
<1>4. CASE DqBuf
  <2>1. /\ ppc = "notify" /\ UNCHANGED <<refcnt, count, cmdQ, super, entry, pollset, pipe, woken, fault>>
        /\ \/ filled' = Tail(filled) /\ pbuf' = Head(filled) /\ ppc' = "count"
           \/ ppc' = "poll" /\ UNCHANGED <<filled, pbuf>>
    BY <1>4 DEF DqBuf, PollAt, cmdVars, useVars, pollVars
  <2>2. filled # <<>> /\ apc = "running" /\ pbuf = NoBuf
    BY <2>1 DEF KernelQueues, Exact
  <2>3. ApiTypes' /\ UserTypes' /\ Stages'
    BY <1>1, <2>1 DEF ApiTypes, UserTypes, Stages
  <2>4. CASE ppc' = "poll" /\ UNCHANGED <<filled, pbuf>>
    <3>1. PollTypes' /\ BufTypes'
      BY <1>1, <2>1, <2>4 DEF PollTypes, BufTypes
    <3>2. KernelQueues' /\ Exact'
      BY <1>1, <2>1, <2>2, <2>4 DEF KernelQueues, Filled, Exact, B2N
    <3>3. Ownership'
      BY <1>1, <2>1, <2>4 DEF Ownership, KernelBufs, Filled, BaseUsers, Users, NewRefs
    <3> QED
      BY <2>1, <2>3, <3>1, <3>2, <3>3
  <2>5. CASE filled' = Tail(filled) /\ pbuf' = Head(filled) /\ ppc' = "count"
    <3>1. /\ Len(filled) \in Nat \ {0} /\ DOMAIN filled = 1..Len(filled)
          /\ Head(filled) = filled[1] /\ filled[1] \in Bufs
          /\ Tail(filled) \in Seq(Bufs) /\ Len(Tail(filled)) = Len(filled) - 1
          /\ DOMAIN Tail(filled) = 1..Len(filled) - 1
          /\ \A i \in 1..Len(filled) - 1 : Tail(filled)[i] = filled[i + 1]
      BY <2>2 DEF BufTypes
    <3>2. PollTypes' /\ BufTypes'
      BY <1>1, <2>1, <2>5, <3>1 DEF PollTypes, BufTypes
    <3>3. Filled' \subseteq Filled /\ pbuf' \in Filled /\ pbuf' \notin Filled'
      BY <2>5, <3>1 DEF Filled, KernelQueues
    <3>4. \A i, j \in DOMAIN filled' : filled'[i] = filled'[j] => i = j
      BY <2>5, <3>1 DEF KernelQueues
    <3>5. KernelQueues'
      BY <1>1, <2>2, <2>5, <3>3, <3>4 DEF KernelQueues, Stages
    <3>6. Exact'
      <4>1. Cardinality(queued) \in Nat
        BY FiniteSubset DEF BufTypes
      <4>2. count = Cardinality(queued) + Len(filled) + B2N(ppc = "count") /\ (entry <=> count > 0)
        BY <2>2 DEF Exact, Registered
      <4>3. count' = Cardinality(queued)' + Len(filled') + 1
        BY <1>1, <2>1, <2>5, <3>1, <4>1, <4>2 DEF B2N
      <4>4. pbuf' # NoBuf
        BY <2>5, <3>1
      <4> QED
        BY <1>1, <2>1, <2>2, <2>5, <4>2, <4>3, <4>4 DEF Exact, B2N
    <3>7. Ownership'
      <4>1. KernelBufs' \subseteq KernelBufs /\ pbuf' \in KernelBufs /\ pbuf' \notin KernelBufs'
        BY <1>1, <3>3 DEF KernelBufs, KernelQueues
      <4>2. KernelBufs \subseteq Bufs
        BY DEF KernelBufs, Filled, BufTypes
      <4>3. \A b \in Bufs : BaseUsers(b)' = BaseUsers(b) /\ Users(b)' = Users(b)
        BY <1>1, <2>1, <2>5 DEF BaseUsers, Users
      <4>4. BaseUsers(pbuf)' = 0
        BY <1>1, <2>1, <2>2, <4>1 DEF Ownership, Registered, BaseUsers
      <4> QED
        BY <1>1, <2>1, <2>2, <4>1, <4>2, <4>3, <4>4 DEF Ownership, Registered
    <3> QED
      BY <2>1, <2>3, <3>2, <3>5, <3>6, <3>7
  <2> QED
    BY <2>1, <2>4, <2>5
<1>5. CASE ReadFrame
  <2>1. ppc = "count" /\ apc = "running" /\ sstate = "ACTIVE" /\ pbuf # NoBuf
    BY <1>5 DEF ReadFrame, PollAt, Exact, Stages, StateOf
  <2>2. /\ CountDown /\ UNCHANGED <<filled, refcnt, cmdQ, super, pollset, woken, fault>>
        /\ \/ ppc' = "account" /\ pbuf' = pbuf
           \/ ppc' = "poll" /\ pbuf' = NoBuf
    BY <1>5, <2>1 DEF ReadFrame, Allocated, cmdVars, useVars
  <2>3. Cardinality(queued) \in Nat /\ Len(filled) \in Nat
    BY FiniteSubset DEF BufTypes
  <2>4. /\ count = Cardinality(queued) + Len(filled) + 1 /\ entry
    BY <2>1, <2>3 DEF Exact, Registered, B2N
  <2>5. count' = Cardinality(queued) + Len(filled) /\ (entry' <=> count' > 0)
    <3>1. count' = Cardinality(queued) + Len(filled)
      BY <2>2, <2>3, <2>4 DEF CountDown
    <3>2. entry' <=> count' # 0
      BY <2>2, <2>4 DEF CountDown
    <3> QED
      BY <2>3, <3>1, <3>2
  <2>6. pipe' \in Seq({"SYNC", "ASYNC"}) /\ entry' \in BOOLEAN
    BY <2>2 DEF CountDown, PollTypes
  <2>7. ApiTypes' /\ PollTypes' /\ BufTypes' /\ UserTypes'
    <3>1. ApiTypes' /\ PollTypes'
      BY <1>1, <2>2, <2>6 DEF ApiTypes, PollTypes
    <3>2. BufTypes' /\ UserTypes'
      BY <1>1, <2>2, <2>3, <2>5 DEF BufTypes, UserTypes
    <3> QED
      BY <3>1, <3>2
  <2>8. Stages' /\ KernelQueues'
    BY <1>1, <2>2 DEF Stages, KernelQueues, Filled
  <2>9. Exact'
    BY <1>1, <2>1, <2>2, <2>3, <2>5 DEF Exact, B2N
  <2>10. Ownership'
    <3>1. KernelBufs' = KernelBufs
      BY <1>1, <2>2 DEF KernelBufs, Filled
    <3>2. \A b \in Bufs : BaseUsers(b)' = BaseUsers(b) /\ Users(b)' = Users(b)
      BY <1>1, <2>1, <2>2 DEF BaseUsers, Users
    <3>3. pbuf' # NoBuf => BaseUsers(pbuf)' = 0
      BY <1>1, <2>1, <2>2 DEF Ownership, BaseUsers
    <3>4. \A b \in KernelBufs : b \in Bufs /\ pbuf' # b
      BY <2>1, <2>2 DEF Ownership, Registered, KernelBufs, Filled, BufTypes
    <3> QED
      BY <1>1, <2>1, <2>2, <3>1, <3>2, <3>3, <3>4 DEF Ownership, Registered
  <2> QED
    BY <2>2, <2>7, <2>8, <2>9, <2>10
<1>6. CASE Account
  <2>1. ppc = "account" /\ apc = "running" /\ sstate = "ACTIVE" /\ pbuf # NoBuf /\ pbuf \in Bufs
    BY <1>6 DEF Account, PollAt, Exact, Stages, StateOf, PollTypes
  <2>2. /\ UNCHANGED <<filled, count, cmdQ, super, entry, pollset, pipe, woken, pbuf, fault>>
        /\ refcnt' = [refcnt EXCEPT ![pbuf] = @ + NewRefs] /\ ppc' = "handover"
    BY <1>6, <2>1 DEF Account, Allocated, cmdVars, useVars, pollVars
  <2>3. NewRefs \in Nat
    BY DEF NewRefs, B2N
  <2>4. ApiTypes' /\ PollTypes' /\ BufTypes' /\ UserTypes'
    <3>1. ApiTypes' /\ PollTypes'
      BY <1>1, <2>2 DEF ApiTypes, PollTypes
    <3>2. BufTypes' /\ UserTypes'
      BY <1>1, <2>1, <2>2, <2>3 DEF BufTypes, UserTypes
    <3> QED
      BY <3>1, <3>2
  <2>5. Stages' /\ KernelQueues'
    BY <1>1, <2>2 DEF Stages, KernelQueues, Filled
  <2>6. Exact'
    BY <1>1, <2>1, <2>2 DEF Exact, B2N
  <2>7. Ownership'
    <3>1. \A b \in Bufs : BaseUsers(b)' = BaseUsers(b)
      BY <1>1, <2>2 DEF BaseUsers, B2N
    <3>2. \A b \in Bufs : /\ Users(b) = BaseUsers(b)
                          /\ Users(b)' = BaseUsers(b) + (IF b = pbuf THEN NewRefs ELSE 0)
      BY <1>1, <2>1, <2>2 DEF BaseUsers, Users, UserTypes, B2N, NewRefs
    <3>3. \A b \in Bufs : refcnt'[b] = Users(b)'
      BY <2>1, <2>2, <2>3, <3>2 DEF Ownership, BufTypes
    <3>4. BaseUsers(pbuf)' = 0
      BY <1>1, <2>1, <2>2 DEF Ownership, BaseUsers
    <3>5. KernelBufs' = KernelBufs /\ KernelBufs \subseteq Bufs
      BY <1>1, <2>2 DEF KernelBufs, Filled, BufTypes
    <3> QED
      BY <1>1, <2>2, <3>1, <3>3, <3>4, <3>5 DEF Ownership, Registered
  <2> QED
    BY <2>2, <2>4, <2>5, <2>6, <2>7
<1>7. CASE HandleRcvdBuf
  <2>1. ppc = "handover" /\ apc = "running" /\ sstate = "ACTIVE" /\ pbuf # NoBuf /\ pbuf \in Bufs
    BY <1>7 DEF HandleRcvdBuf, PollAt, Exact, Stages, StateOf, PollTypes
  <2>2. /\ UNCHANGED <<filled, refcnt, count, entry, pollset, pipe, woken, fault>>
        /\ super' = IF Bundled THEN super \cup {pbuf} ELSE super
        /\ cmdQ' = [cmdQ EXCEPT ![pbuf] = @ + B2N(HasCb)]
        /\ ppc' = "poll" /\ pbuf' = NoBuf
    BY <1>7, <2>1 DEF HandleRcvdBuf, Stages, bufVars, pollVars
  <2>3. ApiTypes' /\ PollTypes' /\ BufTypes' /\ UserTypes'
    <3>1. ApiTypes' /\ PollTypes'
      BY <1>1, <2>2 DEF ApiTypes, PollTypes
    <3>2. BufTypes'
      BY <1>1, <2>2 DEF BufTypes
    <3>3. UserTypes'
      BY <1>1, <2>1, <2>2 DEF UserTypes, B2N
    <3> QED
      BY <3>1, <3>2, <3>3
  <2>4. Stages' /\ KernelQueues'
    BY <1>1, <2>1, <2>2 DEF Stages, KernelQueues, Filled
  <2>5. Exact'
    BY <1>1, <2>1, <2>2 DEF Exact, B2N
  <2>6. Ownership'
    <3>. PICK p \in Bufs : p = pbuf
      BY <2>1
    <3>1. /\ B2N(p \in super) = 0 /\ cmdQ[p] = 0
          /\ B2N(p \in dispatched) = 0 /\ app[p] = 0
      <4>1. BaseUsers(p) = 0
        BY <2>1 DEF Ownership, BaseUsers
      <4> QED
        BY <4>1 DEF BaseUsers, B2N, UserTypes
    <3>2. BaseUsers(p)' = NewRefs /\ BaseUsers(p) = 0
      <4>1. B2N(p \in super)' = B2N(Bundled) /\ cmdQ'[p] = B2N(HasCb)
        BY <2>2, <3>1 DEF B2N, UserTypes
      <4>2. B2N(p \in dispatched)' = 0 /\ app'[p] = 0
        BY <1>1, <3>1 DEF B2N
      <4> QED
        BY <3>1, <4>1, <4>2 DEF BaseUsers, NewRefs, B2N
    <3>3. \A b \in Bufs \ {p} : BaseUsers(b)' = BaseUsers(b) /\ Users(b) = BaseUsers(b)
      BY <1>1, <2>2 DEF BaseUsers, B2N, UserTypes, Users
    <3>4. \A b \in Bufs : Users(b)' = BaseUsers(b)'
      BY <2>3, <2>2 DEF Users, BaseUsers, B2N, UserTypes
    <3>5. Users(p) = NewRefs
      BY <2>1, <3>2 DEF Users, BaseUsers, NewRefs, B2N, UserTypes
    <3>6. KernelBufs' = KernelBufs /\ KernelBufs \subseteq Bufs \ {p}
      BY <1>1, <2>1, <2>2 DEF KernelBufs, Filled, Ownership, Registered, BufTypes
    <3> QED
      BY <1>1, <2>1, <2>2, <3>2, <3>3, <3>4, <3>5, <3>6 DEF Ownership, Registered
  <2> QED
    BY <2>2, <2>3, <2>4, <2>5, <2>6
<1> QED
  BY <1>2, <1>3, <1>4, <1>5, <1>6, <1>7 DEF Poll

\* A use of b ends while the stream is active: a buffer that goes to the driver is
\* counted, and the first one takes up the polling again.
LEMMA ExactUseEnds ==
  ASSUME YoungInv, ~BufOpsCanFail, NEW b \in Bufs, BufDone(b), sstate = "ACTIVE", UserTypes',
         BaseUsers(b) > 0, dispatched' \subseteq dispatched,
         apc # "launch",
         \A x \in Bufs : BaseUsers(x)' = BaseUsers(x) - B2N(x = b),
         UNCHANGED <<apc, sessions, sstate, streaming, filled, pollset, woken,
                     cmdAlive, superAlive, ppc, pbuf, fault>>,
         Stages'
  PROVE  YoungInv'
<1> USE StreamPollAssumption DEF YoungInv, TypeOK
<1>1. b \notin KernelBufs \/ apc \notin Registered
  BY DEF Ownership
<1>2. pbuf # b /\ Users(b) = BaseUsers(b) /\ refcnt[b] = BaseUsers(b) /\ BaseUsers(b) \in Nat
  <2>1. pbuf # b
    BY DEF Ownership, PollTypes
  <2>2. Users(b) = BaseUsers(b) /\ BaseUsers(b) \in Nat
    BY <2>1 DEF Users, BaseUsers, UserTypes, B2N
  <2> QED
    BY <2>1, <2>2 DEF Ownership
<1>3. refcnt' = [refcnt EXCEPT ![b] = @ - 1]
  <2>1. refcnt[b] # 0 /\ refcnt \in [Bufs -> Nat]
    BY <1>2 DEF BufTypes
  <2> QED
    BY <2>1 DEF BufDone
<1>4. \/ refcnt[b] # 1 /\ UNCHANGED <<queued, count, entry, pipe>>
      \/ /\ refcnt[b] = 1 /\ count' = count + 1 /\ queued' = queued \cup {b}
         /\ entry' = (entry \/ count = 0)
         /\ pipe' = IF count = 0 THEN Append(pipe, "ASYNC") ELSE pipe
  BY DEF BufDone
<1>5. ApiTypes' /\ PollTypes' /\ BufTypes'
  <2>1. ApiTypes'
    BY DEF ApiTypes
  <2>2. pipe' \in Seq({"SYNC", "ASYNC"}) /\ entry' \in BOOLEAN
    <3>1. pipe \in Seq({"SYNC", "ASYNC"}) /\ entry \in BOOLEAN
      BY DEF PollTypes
    <3>2. Append(pipe, "ASYNC") \in Seq({"SYNC", "ASYNC"})
      BY <3>1
    <3>3. entry' = entry \/ entry' = (entry \/ count = 0)
      BY <1>4
    <3>4. entry' \in BOOLEAN
      BY <3>1, <3>3
    <3>5. pipe' = pipe \/ pipe' = Append(pipe, "ASYNC")
      BY <1>4
    <3> QED
      BY <3>1, <3>2, <3>4, <3>5
  <2>3. PollTypes'
    BY <2>2 DEF PollTypes
  <2>4. refcnt' \in [Bufs -> Nat]
    BY <1>2, <1>3 DEF BufTypes
  <2>5. queued' \subseteq Bufs /\ count' \in Nat
    BY <1>4 DEF BufTypes
  <2> QED
    BY <2>1, <2>3, <2>4, <2>5 DEF BufTypes
<1>6. KernelQueues'
  <2>1. b \notin Filled
    BY <1>1 DEF KernelBufs, Stages, StateOf, KernelQueues, Registered, Filled
  <2> QED
    BY <2>1, <1>4 DEF KernelQueues, Filled
<1>7. Exact'
  <2>1. CASE apc \in Registered
    <3>1. count = Cardinality(queued) + Len(filled) + B2N(ppc = "count") /\ (entry <=> count > 0)
      BY <2>1 DEF Exact
    <3>2. /\ Cardinality(queued) \in Nat /\ IsFiniteSet(queued) /\ Len(filled) \in Nat
          /\ B2N(ppc = "count") \in Nat /\ count \in Nat
      BY FiniteSubset DEF BufTypes, B2N
    <3>3. b \notin queued
      BY <1>1, <2>1 DEF KernelBufs
    <3>4. Cardinality(queued \cup {b}) = Cardinality(queued) + 1
      BY <3>2, <3>3, FS_AddElement
    <3>5. count' = Cardinality(queued') + Len(filled) + B2N(ppc = "count") /\ (entry' <=> count' > 0)
      <4>1. CASE refcnt[b] # 1
        BY <1>4, <3>1, <4>1
      <4>2. CASE refcnt[b] = 1
        <5>1. count' = count + 1 /\ queued' = queued \cup {b} /\ entry' = (entry \/ count = 0)
          BY <1>4, <4>2
        <5>2. count' = Cardinality(queued') + Len(filled) + B2N(ppc = "count")
          BY <3>1, <3>2, <3>4, <5>1
        <5>3. entry \/ count = 0
          BY <3>1, <3>2
        <5>4. entry'
          BY <5>1, <5>3
        <5>5. count' > 0
          BY <3>2, <5>1
        <5> QED
          BY <5>2, <5>4, <5>5
      <4> QED
        BY <4>1, <4>2
    <3>6. Cardinality(queued)' = Cardinality(queued') /\ B2N(ppc = "count")' = B2N(ppc = "count")
      BY DEF B2N
    <3>7. apc \notin {"idle", "reg"}
      BY <2>1 DEF Registered
    <3> QED
      BY <3>5, <3>6, <3>7 DEF Exact
  <2>2. CASE apc \notin Registered
    <3>1. apc \notin {"idle", "reg"}
      BY DEF Stages, StateOf
    <3> QED
      BY <2>2, <3>1 DEF Exact
  <2> QED
    BY <2>1, <2>2
<1>8. Ownership'
  <2>1. apc' \in Registered => \A x \in KernelBufs' : BaseUsers(x)' = 0 /\ pbuf' # x
    <3> SUFFICES ASSUME apc \in Registered, NEW x \in KernelBufs'
                 PROVE  BaseUsers(x)' = 0 /\ pbuf # x
      OBVIOUS
    <3>1. x \in KernelBufs \/ (x = b /\ refcnt[b] = 1)
      BY <1>4 DEF KernelBufs, Filled
    <3>2. x \in Bufs
      BY <3>1 DEF KernelBufs, Filled, BufTypes
    <3>3. CASE x \in KernelBufs
      BY <3>2, <3>3, <1>1 DEF Ownership, B2N
    <3>4. CASE x = b /\ refcnt[b] = 1
      BY <3>4, <1>2 DEF B2N
    <3> QED
      BY <3>1, <3>3, <3>4
  <2>2. pbuf' # NoBuf => BaseUsers(pbuf)' = 0
    <3> SUFFICES ASSUME pbuf # NoBuf PROVE BaseUsers(pbuf)' = 0
      OBVIOUS
    <3> PICK p \in Bufs : p = pbuf
      BY DEF PollTypes
    <3>1. BaseUsers(p)' = 0
      BY <1>2 DEF Ownership, B2N
    <3> QED
      BY <3>1 DEF BaseUsers
  <2>3. \A x \in Bufs : refcnt'[x] = Users(x)'
    <3> SUFFICES ASSUME NEW x \in Bufs PROVE refcnt'[x] = Users(x)'
      OBVIOUS
    <3>1. /\ Users(x) = BaseUsers(x) + (IF ppc = "handover" /\ pbuf = x THEN NewRefs ELSE 0)
          /\ Users(x)' = BaseUsers(x)' + (IF ppc = "handover" /\ pbuf = x THEN NewRefs ELSE 0)
      BY DEF Users, BaseUsers, NewRefs
    <3>2. BaseUsers(x) \in Nat /\ NewRefs \in Nat /\ refcnt[x] = Users(x)
      BY DEF BaseUsers, UserTypes, B2N, NewRefs, Ownership
    <3>3. BaseUsers(x)' = BaseUsers(x) - B2N(x = b)
      OBVIOUS
    <3>4. refcnt'[x] = refcnt[x] - B2N(x = b)
      BY <1>3 DEF B2N, BufTypes
    <3>5. B2N(x = b) \in Nat
      BY DEF B2N
    <3> QED
      BY <3>1, <3>2, <3>3, <3>4, <3>5
  <2> QED
    BY <2>1, <2>2, <2>3 DEF Ownership
<1> QED
  BY <1>5, <1>6, <1>7, <1>8

\* The driver fills a buffer: it stays counted.
LEMMA ExactFill ==
  ASSUME YoungInv, NEW b \in Bufs, Fill(b)
  PROVE  YoungInv'
<1> USE StreamPollAssumption DEF YoungInv, TypeOK
<1>1. /\ streaming /\ b \in queued
      /\ queued' = queued \ {b} /\ filled' = Append(filled, b)
      /\ UNCHANGED <<apc, sessions, sstate, streaming, refcnt, count, entry, pollset, pipe,
                     woken, cmdQ, dispatched, cmdAlive, super, app, superAlive, ppc, pbuf, fault>>
  BY DEF Fill, apiVars, pollVars, cmdVars, useVars
<1>2. /\ Append(filled, b) \in Seq(Bufs) /\ Len(filled) \in Nat
      /\ Len(Append(filled, b)) = Len(filled) + 1 /\ DOMAIN filled = 1..Len(filled)
      /\ DOMAIN Append(filled, b) = 1..Len(filled) + 1
      /\ Append(filled, b)[Len(filled) + 1] = b
      /\ \A i \in 1..Len(filled) : Append(filled, b)[i] = filled[i]
  BY DEF BufTypes
<1>3. ApiTypes' /\ PollTypes' /\ BufTypes' /\ UserTypes' /\ Stages'
  <2>1. ApiTypes' /\ PollTypes'
    BY <1>1 DEF ApiTypes, PollTypes
  <2>2. BufTypes' /\ UserTypes'
    BY <1>1, <1>2 DEF BufTypes, UserTypes
  <2>3. Stages'
    BY <1>1 DEF Stages
  <2> QED
    BY <2>1, <2>2, <2>3
<1>4. Exact'
  <2>1. IsFiniteSet(queued) /\ Cardinality(queued) \in Nat
    BY FiniteSubset DEF BufTypes
  <2>2. Cardinality(queued \ {b}) = Cardinality(queued) - 1
    BY <1>1, <2>1, FS_RemoveElement
  <2>3. Cardinality(queued)' + Len(filled)' = Cardinality(queued) + Len(filled)
    BY <1>1, <1>2, <2>1, <2>2
  <2>4. B2N(ppc = "count")' = B2N(ppc = "count") /\ B2N(ppc = "count") \in Nat
    BY <1>1 DEF B2N
  <2>5. Cardinality(queued)' + Len(filled)' + B2N(ppc = "count")'
          = Cardinality(queued) + Len(filled) + B2N(ppc = "count")
    BY <2>3, <2>4
  <2> QED
    BY <1>1, <2>5 DEF Exact
<1>5. KernelBufs' = KernelBufs
  BY <1>1, <1>2 DEF KernelBufs, Filled
<1>6. KernelQueues'
  <2>1. \A i \in DOMAIN filled : filled[i] # b
    BY <1>1 DEF KernelQueues, Filled
  <2>2. \A i, j \in DOMAIN filled' : filled'[i] = filled'[j] => i = j
    BY <1>1, <1>2, <2>1 DEF KernelQueues
  <2>3. queued' \cap Filled' = {}
    BY <1>1, <1>2 DEF KernelQueues, Filled
  <2>4. filled' # <<>>
    BY <1>1, <1>2
  <2> QED
    BY <1>1, <2>2, <2>3, <2>4 DEF KernelQueues
<1>7. Ownership'
  <2>1. \A x \in Bufs : Users(x)' = Users(x)
    BY <1>1 DEF Users, NewRefs
  <2>2. (\A x : BaseUsers(x)' = BaseUsers(x)) /\ BaseUsers(pbuf)' = BaseUsers(pbuf)
    BY <1>1 DEF BaseUsers
  <2> QED
    BY <1>1, <1>5, <2>1, <2>2 DEF Ownership
<1> QED
  BY <1>1, <1>3, <1>4, <1>6, <1>7

\* A callback begins: it does not touch the driver's buffers.
LEMMA ExactCallback == ASSUME YoungInv, Callback PROVE YoungInv'
<1> USE StreamPollAssumption DEF YoungInv, TypeOK
<1> PICK b \in Bufs : /\ cmdQ[b] > 0
                      /\ cmdQ' = [cmdQ EXCEPT ![b] = @ - 1]
                      /\ refcnt' = [refcnt EXCEPT ![b] = @ + 1]
                      /\ app' = [app EXCEPT ![b] = @ + 1]
                      /\ dispatched' = {b}
  BY DEF Callback
<1>1. dispatched = {} /\ sstate = "ACTIVE"
  BY DEF Callback, Stages
<1>2. UNCHANGED <<apc, sessions, sstate, streaming, queued, filled, count, entry, pollset,
                  pipe, woken, super, superAlive, cmdAlive, ppc, pbuf, fault>>
  BY DEF Callback, apiVars, pollVars
<1>3. ApiTypes' /\ PollTypes' /\ BufTypes' /\ UserTypes'
  <2>1. ApiTypes' /\ PollTypes'
    BY <1>2 DEF ApiTypes, PollTypes
  <2>2. BufTypes' /\ UserTypes'
    BY <1>2 DEF BufTypes, UserTypes
  <2> QED
    BY <2>1, <2>2
<1>4. Stages' /\ Exact' /\ KernelQueues'
  BY <1>1, <1>2 DEF Stages, StateOf, Exact, KernelQueues, Filled, B2N
<1>5. Ownership'
  <2>1. \A x \in Bufs : BaseUsers(x)' = BaseUsers(x) + B2N(x = b)
    BY <1>1, <1>2 DEF BaseUsers, B2N, UserTypes
  <2>2. BaseUsers(b) > 0
    BY DEF BaseUsers, B2N, UserTypes
  <2>3. b \notin KernelBufs \/ apc \notin Registered
    BY <2>2 DEF Ownership
  <2>4. pbuf # b
    BY <2>2 DEF Ownership, PollTypes
  <2>5. KernelBufs' = KernelBufs /\ KernelBufs \subseteq Bufs
    BY <1>2 DEF KernelBufs, Filled, BufTypes
  <2>6. pbuf' # NoBuf => BaseUsers(pbuf)' = 0
    BY <1>2, <2>4 DEF Ownership, BaseUsers, PollTypes, UserTypes, B2N
  <2>7. \A x \in Bufs : refcnt'[x] = Users(x)'
    <3>1. \A x \in Bufs :
             /\ Users(x) = BaseUsers(x) + (IF ppc = "handover" /\ pbuf = x THEN NewRefs ELSE 0)
             /\ Users(x)' = BaseUsers(x)' + (IF ppc = "handover" /\ pbuf = x THEN NewRefs ELSE 0)
      BY <1>2 DEF Users, BaseUsers, NewRefs
    <3>2. NewRefs \in Nat /\ \A x \in Bufs : BaseUsers(x) \in Nat /\ refcnt[x] = Users(x)
      BY <1>1 DEF BaseUsers, UserTypes, B2N, NewRefs, Ownership
    <3>3. \A x \in Bufs : refcnt'[x] = refcnt[x] + B2N(x = b)
      BY DEF BufTypes, B2N
    <3>4. \A x \in Bufs : Users(x)' = Users(x) + B2N(x = b)
      BY <2>1, <3>1, <3>2 DEF B2N
    <3> QED
      BY <3>2, <3>3, <3>4
  <2> QED
    BY <1>2, <2>1, <2>3, <2>4, <2>5, <2>6, <2>7 DEF Ownership, B2N
<1> QED
  BY <1>2, <1>3, <1>4, <1>5

\* cmd_thread, the HAL or the channel's threads give a buffer back.
LEMMA ExactGivesBack ==
  ASSUME YoungInv, Young, ~BufOpsCanFail, NEW b \in Bufs,
         CallbackDone \/ AppQBuf(b) \/ SuperQBuf(b)
  PROVE  YoungInv'
<1> USE StreamPollAssumption DEF YoungInv, TypeOK
<1>1. CASE CallbackDone
  <2> PICK d \in dispatched : BufDone(d)
    BY <1>1 DEF CallbackDone
  <2>1. d \in Bufs /\ sstate = "ACTIVE" /\ dispatched = {d} /\ apc # "launch"
    BY DEF UserTypes, Stages, StateOf
  <2>2. /\ dispatched' = {}
        /\ UNCHANGED <<apc, sessions, sstate, streaming, filled, pollset, woken, super, app,
                       superAlive, cmdQ, cmdAlive, ppc, pbuf, fault>>
    BY <1>1 DEF CallbackDone, apiVars, useVars
  <2>3. UserTypes' /\ Stages'
    BY <2>1, <2>2 DEF UserTypes, Stages, StateOf
  <2>4. BaseUsers(d) > 0 /\ \A x \in Bufs : BaseUsers(x)' = BaseUsers(x) - B2N(x = d)
    BY <2>1, <2>2 DEF BaseUsers, B2N, UserTypes
  <2> QED
    BY <2>1, <2>2, <2>3, <2>4, ExactUseEnds
<1>2. CASE AppQBuf(b)
  <2>1. /\ app[b] > 0 /\ apc \notin {"launch", "streamon"} /\ QBufEvent(b)
        /\ app' = [app EXCEPT ![b] = @ - 1]
        /\ UNCHANGED <<apc, sessions, sstate, streaming, filled, pollset, woken, cmdQ, dispatched,
                       cmdAlive, super, superAlive, ppc, pbuf, fault>>
    BY <1>2 DEF AppQBuf, apiVars, cmdVars
  <2>2. sstate = "ACTIVE"
    BY <2>1 DEF Stages, StateOf, Young
  <2>3. UserTypes' /\ Stages'
    BY <2>1, <2>2 DEF UserTypes, Stages, StateOf
  <2>4. BaseUsers(b) > 0 /\ \A x \in Bufs : BaseUsers(x)' = BaseUsers(x) - B2N(x = b)
    BY <2>1 DEF BaseUsers, B2N, UserTypes
  <2>5. BufDone(b)
    BY <2>1, <2>2 DEF QBufEvent
  <2> QED
    BY <2>1, <2>2, <2>3, <2>4, <2>5, ExactUseEnds
<1>3. CASE SuperQBuf(b)
  <2>1. /\ b \in super /\ QBufEvent(b) /\ super' = super \ {b}
        /\ UNCHANGED <<apc, sessions, sstate, streaming, filled, pollset, woken, cmdQ, dispatched,
                       cmdAlive, app, superAlive, ppc, pbuf, fault>>
    BY <1>3 DEF SuperQBuf, apiVars, cmdVars
  <2>2. sstate = "ACTIVE" /\ apc # "launch"
    BY <2>1 DEF Stages, StateOf, Young
  <2>3. UserTypes' /\ Stages'
    BY <2>1, <2>2 DEF UserTypes, Stages, StateOf
  <2>4. BaseUsers(b) > 0 /\ \A x \in Bufs : BaseUsers(x)' = BaseUsers(x) - B2N(x = b)
    BY <2>1 DEF BaseUsers, B2N, UserTypes
  <2>5. BufDone(b)
    BY <2>1, <2>2 DEF QBufEvent
  <2> QED
    BY <2>1, <2>2, <2>3, <2>4, <2>5, ExactUseEnds
<1> QED
  BY <1>1, <1>2, <1>3

\* The invariant depends on the variables only.
LEMMA ExactStutter == YoungInv /\ UNCHANGED vars => YoungInv'
<1> SUFFICES ASSUME YoungInv, UNCHANGED vars PROVE YoungInv'
  OBVIOUS
<1> USE DEF YoungInv, vars, apiVars, pollVars, bufVars, cmdVars, useVars
<1>1. TypeOK'
  BY DEF TypeOK, ApiTypes, PollTypes, BufTypes, UserTypes
<1>2. Stages' /\ KernelQueues'
  BY DEF Stages, KernelQueues, Filled
<1>3. Exact'
  BY DEF Exact, B2N
<1>4. Ownership'
  BY DEF Ownership, KernelBufs, Filled, BaseUsers, Users, NewRefs
<1> QED
  BY <1>1, <1>2, <1>3, <1>4

LEMMA ExactStep ==
  ASSUME Once, ~BufOpsCanFail, ExactInv, [Next]_vars
  PROVE  ExactInv'
<1>1. /\ sessions' \in Nat /\ (apc' # "idle" => sessions' > 0)
      /\ ~Young => ~Young'
  BY OnceYoung
<1>2. ASSUME Young, Young' PROVE YoungInv'
  <2> YoungInv
    BY <1>2 DEF ExactInv
  <2>1. CASE UNCHANGED vars
    BY <2>1, ExactStutter
  <2>2. CASE Api \/ StopChannel
    BY <1>2, <2>2, ExactApi
  <2>3. CASE Poll
    BY <1>2, <2>3, ExactPoll
  <2>4. CASE Callback
    BY <2>4, ExactCallback
  <2>5. CASE CallbackDone
    <3>1. \E b \in Bufs : TRUE
      BY <2>5 DEF CallbackDone, YoungInv, TypeOK, UserTypes
    <3> QED
      BY <1>2, <2>5, <3>1, ExactGivesBack
  <2>6. ASSUME NEW b \in Bufs, Fill(b) \/ AppQBuf(b) \/ SuperQBuf(b) PROVE YoungInv'
    BY <1>2, <2>6, ExactFill, ExactGivesBack
  <2>7. CASE Terminated
    BY <2>7, ExactStutter DEF Terminated
  <2> QED
    BY <2>1, <2>2, <2>3, <2>4, <2>5, <2>6, <2>7 DEF Next, Cmd
<1> QED
  BY <1>1, <1>2 DEF ExactInv

\* queued_buffer_count, which buf_lock does not keep together with the kernel's
\* queue (mm_stream_qbuf, mm_stream_read_msm_frame), is exact whenever no frame is
\* being read, also when it reaches 0 and ends the polling, and decides the entry
\* of the poll thread.
THEOREM CountCorrect ==
  ASSUME Once, ~BufOpsCanFail
  PROVE  Spec => []QueuedCountExact
<1>1. ExactInv /\ [Next]_vars => ExactInv'
  BY ExactStep
<1>2. ExactInv => QueuedCountExact
  <2> SUFFICES ASSUME ExactInv, apc = "running"
               PROVE  /\ count = Cardinality(KernelBufs) + B2N(ppc = "count")
                      /\ entry <=> count > 0
    BY DEF QueuedCountExact
  <2>1. YoungInv /\ apc \in Registered
    BY DEF ExactInv, Young, Registered
  <2>2. Cardinality(KernelBufs) = Cardinality(queued) + Len(filled)
    BY <2>1, KernelCount DEF YoungInv, TypeOK
  <2> QED
    BY <2>1, <2>2 DEF YoungInv, Exact
<1> QED
  BY <1>1, <1>2, ExactInit, PTL DEF Spec
=============================================================================
