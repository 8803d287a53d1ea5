------------------------ MODULE PostProcessor_proofs ------------------------
(***************************************************************************)
(* Proofs about the post-processor and the JPEG jobs, for any number of    *)
(* frames, sessions, handles and ongoing jobs and any faults: the types    *)
(* and the locks, that every frame is in one place, and that every handle  *)
(* of a session is accounted for.                                          *)
(*                                                                         *)
(* The queues filter with a recursive function.  What it leaves is found   *)
(* by induction, for sets of numbers instead of predicates.                *)
(***************************************************************************)
EXTENDS PostProcessor, FiniteSetTheorems, SequenceTheorems, WellFoundedInduction, TLAPS
-----------------------------------------------------------------------------
(* Types. *)

Jobs == [type : {"job"}, frame : 1..arrived, session : Sessions]
Reports == [frame : 1..arrived, status : {"done", "error"}]
Entries == [frame : 1..arrived, job : 0..arrived]
Components == {"none", "exec", "half", "busy", "flushing", "idling", "idle"}
HandleTypes ==
  [abort : {"none", "init", "done"}, encoding : BOOLEAN, failed : BOOLEAN, frame : 0..arrived,
   omx : Components]

\* The frames and the threads of the post-processor.
ProcTypes ==
  /\ pic \in [at : {"off", "on", "stopping", "closing", "joining", "releasing", "closed"},
              kind : Pictures \cup {NoPicture}]
  /\ cmds \in Seq({"START", "STOP", "NEXT", "EXIT"})
  /\ inputPPQ \in Seq(1..arrived) /\ ongoingPPQ \in Seq(1..arrived)
  /\ inputJpegQ \in Seq(1..arrived) /\ reprocessed \in Seq(1..arrived)
  /\ ongoingJpegQ \in Seq(Entries)
  /\ released \subseteq 1..arrived /\ channel \subseteq 1..arrived
  /\ jpegSession \in Sessions \cup {0}
  /\ arrived \in Nat
  /\ proc \in [at : {"idle", "encode", "start", "store", "reproc", "cancel", "cancelWait",
                     "destroy", "destroyWait", "flush", "flag", "exited"},
               frame : 0..arrived]

\* The sessions, the jobs and what is reported of them.
JobTypes ==
  /\ session \in [Sessions -> [active : BOOLEAN, free : Seq(HandleIds)]]
  /\ handle \in [Sessions -> [HandleIds -> HandleTypes]]
  /\ jobQueue \in Seq(Jobs \cup {Exit}) /\ ongoingJobs \in Seq(Jobs)
  /\ events \in Seq(Reports)
  /\ jobSem \in Nat

\* The manager and the client, the handle that each of them works on, and the lock.
LockTypes ==
  /\ mgr \in [at : {"wait", "take", "empty", "fill", "exited"},
              session : Sessions \cup {0}, handle : HandleIds \cup {0}]
  /\ mgr.at \in {"empty", "fill"} => mgr.session \in Sessions /\ mgr.handle \in HandleIds
  /\ aborting \in [at : {"none", "next", "wait", "done"},
                   session : Sessions \cup {0}, handle : HandleIds \cup {0}]
  /\ aborting.at # "none" => aborting.session \in Sessions /\ aborting.handle \in HandleIds
  /\ jobLock \in {"none", "mgr", "client"}
  /\ (jobLock = "mgr") = (mgr.at \in {"empty", "fill"})
  /\ (jobLock = "client") = (aborting.at # "none")

\* The manager takes a job when there is room for it, and nobody else adds one.
RoomLeft ==
  /\ Len(ongoingJobs) <= MaxOngoing
  /\ mgr.at = "take" => Len(ongoingJobs) < MaxOngoing

Types == ProcTypes /\ JobTypes /\ LockTypes /\ RoomLeft
-----------------------------------------------------------------------------
(* Frames. *)

InQueue(q, f) == \E k \in DOMAIN q : q[k] = f
InEntries(q, f) == \E k \in DOMAIN q : q[k].frame = f
Distinct(q) == \A j, k \in DOMAIN q : q[j] = q[k] => j = k
DistinctEntries(q) == \A j, k \in DOMAIN q : q[j].frame = q[k].frame => j = k
DistinctJobs(q) ==
  \A j, k \in DOMAIN q :
    q[j].type = "job" /\ q[k].type = "job" /\ q[j].frame = q[k].frame => j = k

One(b) == IF b THEN 1 ELSE 0
Canceled(f) == proc.at = "cancelWait" /\ proc.frame = f
Spots(f) ==
  One(InQueue(inputPPQ, f)) + One(InQueue(ongoingPPQ, f)) + One(InQueue(inputJpegQ, f))
  + One(InEntries(ongoingJpegQ, f)) + One(Canceled(f)) + One(f \in released)

QueuesDistinct ==
  /\ Distinct(inputPPQ) /\ Distinct(ongoingPPQ) /\ Distinct(inputJpegQ)
  /\ DistinctEntries(ongoingJpegQ)
FramesOnce == QueuesDistinct /\ \A f \in 1..arrived : Spots(f) = 1

\* The frame that is being encoded is the last ongoing one, without a job: an
\* event does not take it away.
InHand ==
  /\ proc.at \in {"encode", "start", "store"} =>
       /\ ongoingJpegQ # <<>>
       /\ ongoingJpegQ[Len(ongoingJpegQ)] = [frame |-> proc.frame, job |-> 0]
  /\ proc.at = "cancelWait" => proc.frame # 0
-----------------------------------------------------------------------------
(* Jobs. *)

\* A handle that works has a frame.
HandleFrames ==
  /\ \A s \in Sessions, i \in HandleIds :
       handle[s][i].encoding \/ handle[s][i].omx \in {"half", "busy", "flushing"}
         => handle[s][i].frame # 0
  /\ mgr.at \in {"empty", "fill"} => handle[mgr.session][mgr.handle].frame # 0

\* A frame has one job.
JobsOnce ==
  /\ DistinctJobs(jobQueue) /\ DistinctJobs(ongoingJobs)
  /\ \A f \in 1..arrived : ~(Queued(jobQueue, f) /\ Queued(ongoingJobs, f))

\* A handle that was given a job is the only one, and its job does not wait.
HandleJobs ==
  \A s \in Sessions, i \in HandleIds : handle[s][i].frame # 0 =>
    /\ ~Queued(jobQueue, handle[s][i].frame)
    /\ \A t \in Sessions, j \in HandleIds :
         handle[t][j].frame = handle[s][i].frame => t = s /\ j = i

\* Frames that are not encoded yet have no job.
Unstarted(f) ==
  \/ InQueue(inputPPQ, f) \/ InQueue(ongoingPPQ, f) \/ InQueue(inputJpegQ, f)
  \/ (proc.at \in {"encode", "start"} /\ proc.frame = f)
Fresh(f) ==
  /\ ~Queued(jobQueue, f) /\ ~Queued(ongoingJobs, f)
  /\ \A s \in Sessions, i \in HandleIds : handle[s][i].frame # f
FreshFrames == \A f \in 1..arrived : Unstarted(f) => Fresh(f)
-----------------------------------------------------------------------------
(* Handles. *)

Free(s, i) == InQueue(session[s].free, i)
FreeOnce == \A s \in Sessions : Distinct(session[s].free)

\* A handle that encodes is not free.
Encodes ==
  \A s \in Sessions, i \in HandleIds :
    /\ handle[s][i].encoding => ~Free(s, i)
    /\ handle[s][i].omx \in {"busy", "flushing"} => handle[s][i].encoding

\* Only the handle that the manager has just taken is neither.
NotFree ==
  \A s \in Sessions, i \in HandleIds :
    session[s].active /\ handle[s][i].abort = "none" /\ ~handle[s][i].encoding /\ ~Free(s, i)
      => mgr.at = "empty" /\ mgr.session = s /\ mgr.handle = i

MgrHolds ==
  /\ mgr.at = "empty" =>
       /\ ~Free(mgr.session, mgr.handle)
       /\ ~handle[mgr.session][mgr.handle].encoding
       /\ \E k \in DOMAIN ongoingJobs :
            ongoingJobs[k] = Job(handle[mgr.session][mgr.handle].frame, mgr.session)
  /\ mgr.at = "fill" /\ handle[mgr.session][mgr.handle].omx = "half"
       => handle[mgr.session][mgr.handle].encoding

\* Until the camera is closed, the manager works on active sessions only, and the
\* others have nothing that could work.
Shut == pic.at \in {"releasing", "closed"}
Slots ==
  /\ Shut => proc.at = "exited"
  /\ ~Shut =>
       /\ \A s \in Sessions : ~session[s].active =>
            /\ session[s].free = <<>>
            /\ \A i \in HandleIds : handle[s][i].omx = "none" /\ ~handle[s][i].encoding
       /\ mgr.at \in {"empty", "fill"} => session[mgr.session].active

HasSession ==
  /\ proc.at \in {"start", "destroyWait"} => jpegSession # 0
  /\ ~newSession /\ proc.at \notin {"flush", "flag"} => jpegSession # 0

FrameInv == FramesOnce /\ InHand
JobInv == HandleFrames /\ JobsOnce /\ HandleJobs /\ FreshFrames
HandleInv == FreeOnce /\ Encodes /\ NotFree /\ MgrHolds /\ Slots
Inv == Types /\ FrameInv /\ JobInv /\ HandleInv /\ HasSession
-----------------------------------------------------------------------------
\* Induction, for a set instead of a predicate.
LEMMA SetInduction ==
  ASSUME NEW A, 0 \in A, \A n \in Nat : n \in A => n + 1 \in A
  PROVE  \A n \in Nat : n \in A
<1> DEFINE T == {n \in Nat : n \notin A}
<1> SUFFICES ASSUME T # {} PROVE FALSE
  OBVIOUS
<1>1. PICK x \in T : \A y \in T : ~(<<y, x>> \in OpToRel(<, Nat))
  <2>1. T \subseteq Nat
    OBVIOUS
  <2> HIDE DEF T
  <2> QED
    BY <2>1, NatLessThanWellFounded, WFMin
<1>2. x \in Nat /\ x # 0 /\ x \notin A
  OBVIOUS
<1>3. x - 1 \in Nat /\ x - 1 < x /\ (x - 1) + 1 = x
  BY <1>2
<1>4. x - 1 \notin A
  BY <1>2, <1>3
<1>5. x - 1 \in T
  BY <1>3, <1>4
<1>6. <<x - 1, x>> \in OpToRel(<, Nat)
  BY <1>2, <1>3, Zenon DEF OpToRel
<1> QED
  BY <1>1, <1>5, <1>6

KeptAt(g, q, D, n) == IF n = 0 THEN <<>> ELSE IF n \in D THEN g[n - 1] ELSE Append(g[n - 1], q[n])
PrefixesOf(g, q, D, m) == g = [n \in 0..m |-> KeptAt(g, q, D, n)]

\* What filtering leaves of every prefix exists, by induction over the prefix.
LEMMA PrefixesOfExist ==
  ASSUME NEW q, NEW D, NEW m \in Nat
  PROVE  \E g : PrefixesOf(g, q, D, m)
<1> DEFINE A == {n \in Nat : \E g : PrefixesOf(g, q, D, n)}
<1>1. 0 \in A
  <2>1. PrefixesOf([n \in 0..0 |-> <<>>], q, D, 0)
    BY DEF PrefixesOf, KeptAt
  <2> QED
    BY <2>1
<1>2. \A n \in Nat : n \in A => n + 1 \in A
  <2> SUFFICES ASSUME NEW n \in Nat, n \in A PROVE n + 1 \in A
    OBVIOUS
  <2>1. PICK g : PrefixesOf(g, q, D, n)
    OBVIOUS
  <2> DEFINE h == [k \in 0..(n + 1) |-> IF k = n + 1 THEN KeptAt(g, q, D, k) ELSE g[k]]
  <2>2. ASSUME NEW k \in 0..(n + 1) PROVE h[k] = KeptAt(h, q, D, k)
    <3>1. CASE k = n + 1
      <4>1. (n + 1) - 1 = n /\ n \in 0..(n + 1) /\ n # n + 1
        OBVIOUS
      <4>2. h[n] = g[n]
        BY <4>1
      <4> QED
        BY <3>1, <4>1, <4>2 DEF KeptAt
    <3>2. CASE k # n + 1
      <4>1. k \in 0..n /\ h[k] = g[k]
        BY <3>2
      <4>2. g[k] = KeptAt(g, q, D, k)
        BY <2>1, <4>1 DEF PrefixesOf
      <4>3. k # 0 => k - 1 \in 0..(n + 1) /\ k - 1 # n + 1
        BY <4>1
      <4>4. k # 0 => h[k - 1] = g[k - 1]
        BY <4>3
      <4> QED
        BY <4>1, <4>2, <4>4 DEF KeptAt
    <3> QED
      BY <3>1, <3>2
  <2>3. h = [k \in 0..(n + 1) |-> h[k]]
    OBVIOUS
  <2>4. PrefixesOf(h, q, D, n + 1)
    <3> HIDE DEF h
    <3> QED
      BY <2>2, <2>3 DEF PrefixesOf
  <2> QED
    BY <2>4
<1>3. m \in A
  <2> HIDE DEF A
  <2> QED
    BY <1>1, <1>2, SetInduction
<1> QED
  BY <1>3

\* Without is what filtering leaves of the whole queue.
LEMMA WithoutPrefixes ==
  ASSUME NEW q, NEW D, Len(q) \in Nat
  PROVE  \E g : PrefixesOf(g, q, D, Len(q)) /\ Without(q, D) = g[Len(q)]
<1> DEFINE g == CHOOSE h : PrefixesOf(h, q, D, Len(q))
<1>1. PrefixesOf(g, q, D, Len(q))
  BY PrefixesOfExist, Zenon
<1>2. Without(q, D) = g[Len(q)]
  BY Zenon DEF Without, PrefixesOf, KeptAt
<1> QED
  BY <1>1, <1>2, Zenon
\* The places e of the entries of q that w holds, in their order, of the first n.
PlacesOf(w, e, q, D, n) ==
  /\ Len(w) <= n
  /\ e \in [1..Len(w) -> (1..n) \ D]
  /\ \A i \in 1..Len(w) : w[i] = q[e[i]]
  /\ \A i, j \in 1..Len(w) : i < j => e[i] < e[j]
  /\ \A k \in (1..n) \ D : \E i \in 1..Len(w) : e[i] = k

\* An element that goes leaves the places of the others as they are.
LEMMA PlacesKept ==
  ASSUME NEW S, NEW q \in Seq(S), NEW D, NEW n \in Nat, n + 1 <= Len(q), n + 1 \in D,
         NEW w \in Seq(S), NEW e, PlacesOf(w, e, q, D, n)
  PROVE  PlacesOf(w, e, q, D, n + 1)
<1>1. (1..(n + 1)) \ D = (1..n) \ D
  OBVIOUS
<1>2. Len(w) \in Nat
  OBVIOUS
<1> QED
  BY <1>1, <1>2 DEF PlacesOf

\* An element that stays is put at the end, after the others.
LEMMA PlacesAppend ==
  ASSUME NEW S, NEW q \in Seq(S), NEW D, NEW n \in Nat, n + 1 <= Len(q), n + 1 \notin D,
         NEW w \in Seq(S), NEW e, PlacesOf(w, e, q, D, n)
  PROVE  \E e2 : PlacesOf(Append(w, q[n + 1]), e2, q, D, n + 1)
<1> DEFINE v == Append(w, q[n + 1])
           e2 == [i \in 1..Len(v) |-> IF i = Len(v) THEN n + 1 ELSE e[i]]
<1>1. /\ Len(w) \in Nat /\ Len(v) = Len(w) + 1 /\ v[Len(v)] = q[n + 1]
      /\ \A i \in 1..Len(w) : v[i] = w[i]
  <2>1. q[n + 1] \in S
    BY LenProperties, ElementOfSeq
  <2> QED
    BY <2>1, AppendProperties, LenProperties
<1> HIDE DEF v
<1>2. \A i \in 1..Len(w) : e2[i] = e[i] /\ i # Len(v) /\ i \in 1..Len(v)
  BY <1>1
<1>3. e2[Len(v)] = n + 1 /\ Len(v) \in 1..Len(v)
  BY <1>1
<1>4. \A i \in 1..Len(v) : i = Len(v) \/ i \in 1..Len(w)
  BY <1>1
<1>5. e2 = [i \in 1..Len(v) |-> e2[i]]
  OBVIOUS
<1> HIDE DEF e2
<1>6. \A i \in 1..Len(w) : e[i] \in (1..n) \ D
  BY DEF PlacesOf
<1>7. e2 \in [1..Len(v) -> (1..(n + 1)) \ D]
  <2>1. \A i \in 1..Len(v) : e2[i] \in (1..(n + 1)) \ D
    BY <1>2, <1>3, <1>4, <1>6
  <2> QED
    BY <1>5, <2>1
<1>8. Len(v) <= n + 1
  BY <1>1 DEF PlacesOf
<1>9. \A i \in 1..Len(v) : v[i] = q[e2[i]]
  BY <1>1, <1>2, <1>3, <1>4 DEF PlacesOf
<1>10. \A i, j \in 1..Len(v) : i < j => e2[i] < e2[j]
  <2> SUFFICES ASSUME NEW i \in 1..Len(v), NEW j \in 1..Len(v), i < j PROVE e2[i] < e2[j]
    OBVIOUS
  <2>1. i \in 1..Len(w)
    BY <1>1
  <2>2. CASE j = Len(v)
    BY <2>1, <2>2, <1>2, <1>3, <1>6
  <2>3. CASE j \in 1..Len(w)
    BY <2>1, <2>3, <1>2 DEF PlacesOf
  <2> QED
    BY <2>2, <2>3, <1>4
<1>11. \A k \in (1..(n + 1)) \ D : \E i \in 1..Len(v) : e2[i] = k
  <2> SUFFICES ASSUME NEW k \in (1..(n + 1)) \ D PROVE \E i \in 1..Len(v) : e2[i] = k
    OBVIOUS
  <2>1. CASE k = n + 1
    BY <2>1, <1>3
  <2>2. CASE k # n + 1
    <3>1. k \in (1..n) \ D
      BY <2>2
    <3>2. PICK i \in 1..Len(w) : e[i] = k
      BY <3>1 DEF PlacesOf
    <3> QED
      BY <3>2, <1>2
  <2> QED
    BY <2>1, <2>2
<1>12. PlacesOf(v, e2, q, D, n + 1)
  BY <1>7, <1>8, <1>9, <1>10, <1>11 DEF PlacesOf
<1> QED
  BY <1>12 DEF v

\* What remains of a queue are the entries at the other places, in their order; the
\* last one stays the last if it is not taken out.
LEMMA WithoutKeeps ==
  ASSUME NEW S, NEW q \in Seq(S), NEW D
  PROVE  /\ Without(q, D) \in Seq(S)
         /\ \E e : PlacesOf(Without(q, D), e, q, D, Len(q))
         /\ q # <<>> /\ Len(q) \notin D => /\ Without(q, D) # <<>>
                                           /\ Without(q, D)[Len(Without(q, D))] = q[Len(q)]
<1>1. Len(q) \in Nat
  OBVIOUS
<1>2. PICK g : PrefixesOf(g, q, D, Len(q)) /\ Without(q, D) = g[Len(q)]
  BY <1>1, WithoutPrefixes
<1>3. \A n \in 0..Len(q) : g[n] = KeptAt(g, q, D, n)
  BY <1>2, <1>1 DEF PrefixesOf
<1> DEFINE Kept(n) == g[n] \in Seq(S) /\ \E e : PlacesOf(g[n], e, q, D, n)
           A == {n \in Nat : n <= Len(q) => Kept(n)}
<1>4. 0 \in A
  <2>1. g[0] = <<>>
    BY <1>1, <1>3 DEF KeptAt
  <2>2. PlacesOf(<<>>, [i \in 1..0 |-> 0], q, D, 0)
    BY DEF PlacesOf
  <2>3. Kept(0)
    BY <2>1, <2>2
  <2> HIDE DEF Kept
  <2> QED
    BY <2>3
<1>5. \A n \in Nat : n \in A => n + 1 \in A
  <2> SUFFICES ASSUME NEW n \in Nat, n \in A, n + 1 <= Len(q) PROVE Kept(n + 1)
    <3> HIDE DEF Kept
    <3> QED
      OBVIOUS
  <2>1. n <= Len(q) /\ n + 1 \in 0..Len(q) /\ (n + 1) - 1 = n /\ n + 1 # 0
    BY <1>1
  <2>2. g[n] \in Seq(S) /\ \E e : PlacesOf(g[n], e, q, D, n)
    BY <2>1
  <2>3. PICK e : PlacesOf(g[n], e, q, D, n)
    BY <2>2
  <2>4. g[n + 1] = IF n + 1 \in D THEN g[n] ELSE Append(g[n], q[n + 1])
    BY <1>3, <2>1 DEF KeptAt
  <2>5. q[n + 1] \in S
    BY <1>1, <2>1
  <2>6. CASE n + 1 \in D
    BY <2>2, <2>3, <2>4, <2>6, PlacesKept
  <2>7. CASE n + 1 \notin D
    <3>1. Append(g[n], q[n + 1]) \in Seq(S)
      BY <2>2, <2>5, AppendProperties
    <3> QED
      BY <2>2, <2>3, <2>4, <2>7, <3>1, PlacesAppend
  <2> QED
    BY <2>6, <2>7
<1>6. Len(q) \in A
  <2> HIDE DEF A
  <2> QED
    BY <1>1, <1>4, <1>5, SetInduction
<1>7. Without(q, D) \in Seq(S) /\ \E e : PlacesOf(Without(q, D), e, q, D, Len(q))
  BY <1>1, <1>2, <1>6
<1>8. ASSUME q # <<>>, Len(q) \notin D
      PROVE  Without(q, D) # <<>> /\ Without(q, D)[Len(Without(q, D))] = q[Len(q)]
  <2>1. Len(q) # 0 /\ Len(q) - 1 \in Nat /\ (Len(q) - 1) <= Len(q) /\ Len(q) \in 0..Len(q)
    BY <1>1, <1>8
  <2>2. Len(q) - 1 \in A
    <3> HIDE DEF A
    <3> QED
      BY <2>1, <1>4, <1>5, SetInduction
  <2>3. g[Len(q) - 1] \in Seq(S)
    BY <2>1, <2>2
  <2>4. Without(q, D) = Append(g[Len(q) - 1], q[Len(q)])
    BY <1>2, <1>3, <1>8, <2>1 DEF KeptAt
  <2>5. q[Len(q)] \in S
    BY <2>1
  <2> QED
    BY <2>3, <2>4, <2>5, AppendProperties
<1> QED
  BY <1>7, <1>8
-----------------------------------------------------------------------------
(* What the operations on queues change. *)

\* What Without leaves are the other entries, each once and in their order.
LEMMA WithoutFacts ==
  ASSUME NEW S, NEW q \in Seq(S), NEW D
  PROVE  /\ Without(q, D) \in Seq(S)
         /\ Len(Without(q, D)) <= Len(q)
         /\ \A k \in DOMAIN Without(q, D) : \E m \in DOMAIN q : m \notin D /\ Without(q, D)[k] = q[m]
         /\ \A m \in DOMAIN q : m \notin D => \E k \in DOMAIN Without(q, D) : Without(q, D)[k] = q[m]
         /\ DistinctEntries(q) => DistinctEntries(Without(q, D))
         /\ DistinctJobs(q) => DistinctJobs(Without(q, D))
<1> DEFINE w == Without(q, D)
<1>1. w \in Seq(S)
  BY WithoutKeeps
<1>2. PICK e : PlacesOf(w, e, q, D, Len(q))
  BY WithoutKeeps
<1> HIDE DEF w
<1>3. DOMAIN w = 1..Len(w) /\ Len(w) \in Nat /\ DOMAIN q = 1..Len(q) /\ Len(q) \in Nat
  BY <1>1
<1>4. Len(w) <= Len(q)
  BY <1>2 DEF PlacesOf
<1>5. \A k \in DOMAIN w : e[k] \in DOMAIN q /\ e[k] \notin D /\ w[k] = q[e[k]]
  BY <1>2, <1>3 DEF PlacesOf
<1>6. \A m \in DOMAIN q : m \notin D => \E k \in DOMAIN w : w[k] = q[m]
  BY <1>2, <1>3 DEF PlacesOf
<1>7. \A j, k \in DOMAIN w : e[j] = e[k] => j = k
  <2> SUFFICES ASSUME NEW j \in DOMAIN w, NEW k \in DOMAIN w, j # k PROVE e[j] # e[k]
    OBVIOUS
  <2>1. e[j] \in Nat /\ e[k] \in Nat
    BY <1>3, <1>5
  <2>2. (j < k => e[j] < e[k]) /\ (k < j => e[k] < e[j])
    BY <1>2, <1>3 DEF PlacesOf
  <2>3. j < k \/ k < j
    BY <1>3
  <2> QED
    BY <2>1, <2>2, <2>3
<1>8. DistinctEntries(q) => DistinctEntries(w)
  BY <1>5, <1>7 DEF DistinctEntries
<1>9. DistinctJobs(q) => DistinctJobs(w)
  BY <1>5, <1>7 DEF DistinctJobs
<1> QED
  BY <1>1, <1>4, <1>5, <1>6, <1>8, <1>9 DEF w

\* Appending adds the element, and a new one leaves the elements distinct.
LEMMA InAppend ==
  ASSUME NEW S, NEW q \in Seq(S), NEW x \in S
  PROVE  /\ Append(q, x) \in Seq(S) /\ Append(q, x) # <<>>
         /\ \A f : InQueue(Append(q, x), f) <=> InQueue(q, f) \/ f = x
         /\ Distinct(q) /\ ~InQueue(q, x) => Distinct(Append(q, x))
<1> DEFINE w == Append(q, x)
<1>1. /\ w \in Seq(S) /\ w # <<>> /\ Len(w) = Len(q) + 1 /\ w[Len(q) + 1] = x
      /\ \A i \in 1..Len(q) : w[i] = q[i]
  BY AppendProperties
<1>2. DOMAIN q = 1..Len(q) /\ Len(q) \in Nat /\ DOMAIN w = 1..(Len(q) + 1)
  BY <1>1
<1> HIDE DEF w
<1>3. \A i \in DOMAIN w : i \in DOMAIN q \/ i = Len(q) + 1
  BY <1>2
<1>4. Len(q) + 1 \in DOMAIN w /\ \A i \in DOMAIN q : i \in DOMAIN w
  BY <1>2
<1>5. ASSUME NEW f PROVE InQueue(w, f) <=> InQueue(q, f) \/ f = x
  BY <1>1, <1>2, <1>3, <1>4 DEF InQueue
<1>6. ASSUME Distinct(q), ~InQueue(q, x) PROVE Distinct(w)
  BY <1>6, <1>1, <1>2, <1>3, <1>4 DEF InQueue, Distinct
<1> QED
  BY <1>1, <1>5, <1>6 DEF w

\* The same for ongoing JPEG jobs, and for the jobs of the interface.
LEMMA EntriesAppend ==
  ASSUME NEW S, NEW q \in Seq(S), NEW x \in S
  PROVE  /\ \A f : InEntries(Append(q, x), f) <=> InEntries(q, f) \/ f = x.frame
         /\ DistinctEntries(q) /\ ~InEntries(q, x.frame) => DistinctEntries(Append(q, x))
         /\ \A f : Queued(Append(q, x), f) <=> Queued(q, f) \/ OfFrame(x, f)
         /\ DistinctJobs(q) /\ (x.type = "job" => ~Queued(q, x.frame))
              => DistinctJobs(Append(q, x))
<1> DEFINE w == Append(q, x)
<1>1. /\ w \in Seq(S) /\ w # <<>> /\ Len(w) = Len(q) + 1 /\ w[Len(q) + 1] = x
      /\ \A i \in 1..Len(q) : w[i] = q[i]
  BY AppendProperties
<1>2. DOMAIN q = 1..Len(q) /\ Len(q) \in Nat /\ DOMAIN w = 1..(Len(q) + 1)
  BY <1>1
<1> HIDE DEF w
<1>3. \A i \in DOMAIN w : i \in DOMAIN q \/ i = Len(q) + 1
  BY <1>2
<1>4. Len(q) + 1 \in DOMAIN w /\ \A i \in DOMAIN q : i \in DOMAIN w
  BY <1>2
<1>5. ASSUME NEW f PROVE InEntries(w, f) <=> InEntries(q, f) \/ f = x.frame
  BY <1>1, <1>2, <1>3, <1>4 DEF InEntries
<1>6. ASSUME DistinctEntries(q), ~InEntries(q, x.frame) PROVE DistinctEntries(w)
  BY <1>6, <1>1, <1>2, <1>3, <1>4 DEF InEntries, DistinctEntries
<1>7. ASSUME NEW f PROVE Queued(w, f) <=> Queued(q, f) \/ OfFrame(x, f)
  BY <1>1, <1>2, <1>3, <1>4 DEF Queued
<1>8. ASSUME DistinctJobs(q), x.type = "job" => ~Queued(q, x.frame) PROVE DistinctJobs(w)
  BY <1>8, <1>1, <1>2, <1>3, <1>4 DEF Queued, OfFrame, DistinctJobs
<1> QED
  BY <1>5, <1>6, <1>7, <1>8 DEF w

\* Dequeueing takes away the head, and all of it when elements are distinct.
LEMMA InTail ==
  ASSUME NEW S, NEW q \in Seq(S), q # <<>>
  PROVE  /\ Head(q) \in S /\ Tail(q) \in Seq(S) /\ InQueue(q, Head(q))
         /\ Distinct(q) => Distinct(Tail(q))
         /\ Distinct(q) => \A f : InQueue(Tail(q), f) <=> InQueue(q, f) /\ f # Head(q)
         /\ \A f : InQueue(q, f) => InQueue(Tail(q), f) \/ f = Head(q)
         /\ \A f : InQueue(Tail(q), f) => InQueue(q, f)
<1> DEFINE t == Tail(q)
<1>1. t \in Seq(S) /\ Head(q) \in S /\ Head(q) = q[1]
  OBVIOUS
<1>2. /\ DOMAIN q = 1..Len(q) /\ Len(q) \in Nat \ {0} /\ DOMAIN t = 1..(Len(q) - 1)
      /\ \A i \in DOMAIN t : t[i] = q[i + 1]
  OBVIOUS
<1> HIDE DEF t
<1>3. 1 \in DOMAIN q /\ \A i \in DOMAIN t : i + 1 \in DOMAIN q /\ i + 1 # 1
  BY <1>2
<1>4. \A i \in DOMAIN q : i = 1 \/ (i - 1 \in DOMAIN t /\ t[i - 1] = q[i])
  BY <1>2
<1>5. \A i, j \in DOMAIN t : i + 1 = j + 1 => i = j
  BY <1>2
<1>6. InQueue(q, Head(q))
  BY <1>1, <1>3 DEF InQueue
<1>7. Distinct(q) => Distinct(t)
  BY <1>2, <1>3, <1>5 DEF Distinct
<1>8. ASSUME NEW f PROVE InQueue(q, f) => InQueue(t, f) \/ f = Head(q)
  BY <1>1, <1>4 DEF InQueue
<1>9. ASSUME NEW f PROVE InQueue(t, f) => InQueue(q, f)
  BY <1>2, <1>3 DEF InQueue
<1>10. Distinct(q) => ~InQueue(t, Head(q))
  BY <1>1, <1>2, <1>3 DEF InQueue, Distinct
<1> QED
  BY <1>1, <1>6, <1>7, <1>8, <1>9, <1>10 DEF t

\* The same for ongoing JPEG jobs, and for the jobs of the interface.
LEMMA EntriesTail ==
  ASSUME NEW S, NEW q \in Seq(S), q # <<>>
  PROVE  /\ InEntries(q, Head(q).frame)
         /\ DistinctEntries(q) => DistinctEntries(Tail(q))
         /\ DistinctEntries(q)
              => \A f : InEntries(Tail(q), f) <=> InEntries(q, f) /\ f # Head(q).frame
         /\ \A f : Queued(Tail(q), f) => Queued(q, f)
         /\ DistinctJobs(q) => DistinctJobs(Tail(q))
         /\ DistinctJobs(q) /\ Head(q).type = "job"
              => Queued(q, Head(q).frame) /\ ~Queued(Tail(q), Head(q).frame)
<1> DEFINE t == Tail(q)
<1>1. t \in Seq(S) /\ Head(q) \in S /\ Head(q) = q[1]
  OBVIOUS
<1>2. /\ DOMAIN q = 1..Len(q) /\ Len(q) \in Nat \ {0} /\ DOMAIN t = 1..(Len(q) - 1)
      /\ \A i \in DOMAIN t : t[i] = q[i + 1]
  OBVIOUS
<1> HIDE DEF t
<1>3. 1 \in DOMAIN q /\ \A i \in DOMAIN t : i + 1 \in DOMAIN q /\ i + 1 # 1
  BY <1>2
<1>4. \A i \in DOMAIN q : i = 1 \/ (i - 1 \in DOMAIN t /\ t[i - 1] = q[i])
  BY <1>2
<1>5. \A i, j \in DOMAIN t : i + 1 = j + 1 => i = j
  BY <1>2
<1>6. InEntries(q, Head(q).frame)
  BY <1>1, <1>3 DEF InEntries
<1>7. DistinctEntries(q) => DistinctEntries(t)
  BY <1>2, <1>3, <1>5 DEF DistinctEntries
<1>8. ASSUME NEW f PROVE InEntries(q, f) => InEntries(t, f) \/ f = Head(q).frame
  BY <1>1, <1>4 DEF InEntries
<1>9. ASSUME NEW f PROVE InEntries(t, f) => InEntries(q, f)
  BY <1>2, <1>3 DEF InEntries
<1>10. DistinctEntries(q) => ~InEntries(t, Head(q).frame)
  BY <1>1, <1>2, <1>3 DEF InEntries, DistinctEntries
<1>11. ASSUME NEW f PROVE Queued(t, f) => Queued(q, f)
  BY <1>2, <1>3 DEF Queued
<1>12. DistinctJobs(q) => DistinctJobs(t)
  BY <1>2, <1>3, <1>5 DEF DistinctJobs
<1>13. DistinctJobs(q) /\ Head(q).type = "job"
         => Queued(q, Head(q).frame) /\ ~Queued(t, Head(q).frame)
  BY <1>1, <1>2, <1>3 DEF Queued, OfFrame, DistinctJobs
<1> QED
  BY <1>6, <1>7, <1>8, <1>9, <1>10, <1>11, <1>12, <1>13 DEF t

\* Taking back the last ongoing JPEG job (TakenBack) takes away its frame only.
LEMMA EntriesFront ==
  ASSUME NEW S, NEW q \in Seq(S), q # <<>>, DistinctEntries(q)
  PROVE  /\ Front(q) \in Seq(S) /\ DistinctEntries(Front(q))
         /\ InEntries(q, q[Len(q)].frame)
         /\ \A f : InEntries(Front(q), f) <=> InEntries(q, f) /\ f # q[Len(q)].frame
<1> DEFINE t == Front(q)
<1>1. Len(q) \in Nat \ {0} /\ DOMAIN q = 1..Len(q) /\ \A i \in 1..Len(q) : q[i] \in S
  OBVIOUS
<1>2. /\ t \in Seq(S) /\ DOMAIN t = 1..(Len(q) - 1)
      /\ \A i \in DOMAIN t : t[i] = q[i]
  <2>1. t = SubSeq(q, 1, Len(q) - 1)
    BY DEF Front
  <2> HIDE DEF t
  <2>2. t \in Seq(S) /\ Len(t) = Len(q) - 1
    BY <2>1, <1>1, SubSeqProperties
  <2>3. \A i \in 1..(Len(q) - 1) : t[i] = q[i]
    BY <2>1, <1>1
  <2> QED
    BY <2>2, <2>3
<1> HIDE DEF t
<1>3. \A i \in DOMAIN q : i \in DOMAIN t \/ i = Len(q)
  BY <1>1, <1>2
<1>4. Len(q) \in DOMAIN q /\ \A i \in DOMAIN t : i \in DOMAIN q /\ i # Len(q)
  BY <1>1, <1>2
<1>5. DistinctEntries(t)
  BY <1>2, <1>4 DEF DistinctEntries
<1>6. InEntries(q, q[Len(q)].frame)
  BY <1>4 DEF InEntries
<1>7. ASSUME NEW f PROVE InEntries(t, f) <=> InEntries(q, f) /\ f # q[Len(q)].frame
  BY <1>2, <1>3, <1>4 DEF InEntries, DistinctEntries
<1> QED
  BY <1>2, <1>5, <1>6, <1>7 DEF t

\* Removing jobs leaves no new ones, and removes those of the frame only.
LEMMA RemovedJobs ==
  ASSUME NEW S, NEW q \in Seq(S), NEW D, NEW f, Queued(Without(q, D), f)
  PROVE  Queued(q, f)
<1>1. PICK k \in DOMAIN Without(q, D) : OfFrame(Without(q, D)[k], f)
  BY DEF Queued
<1>2. PICK m \in DOMAIN q : Without(q, D)[k] = q[m]
  BY <1>1, WithoutFacts
<1> QED
  BY <1>1, <1>2 DEF Queued

\* Cancelling the job of a frame keeps the jobs of other frames.
LEMMA KeptJobs ==
  ASSUME NEW S, NEW q \in Seq(S), NEW f, NEW m \in DOMAIN q, ~OfFrame(q[m], f)
  PROVE  \E k \in DOMAIN WithoutFrame(q, f) : WithoutFrame(q, f)[k] = q[m]
<1> DEFINE D == {k \in DOMAIN q : OfFrame(q[k], f)}
<1>1. m \notin D /\ WithoutFrame(q, f) = Without(q, D)
  BY DEF WithoutFrame
<1> HIDE DEF D
<1> QED
  BY <1>1, WithoutFacts
-----------------------------------------------------------------------------
\* Session ids are positive: 0 stands for no session.
LEMMA SessionsNat == Sessions \subseteq Nat \ {0}
<1> SUFFICES ASSUME NEW s \in Sessions PROVE s \in Nat \ {0}
  OBVIOUS
<1> DEFINE n == Cardinality(Sessions)
<1>1. Sessions = 1..n
  BY JpegAssumption
<1> HIDE DEF n
<1>2. s \in 1..n
  BY <1>1, Zenon
<1> QED
  BY <1>2

\* Initially the types hold.
LEMMA TypesInit == Init => Types
<1> SUFFICES ASSUME Init PROVE Types
  OBVIOUS
<1> USE DEF Init, JpegInit
<1>1. ProcTypes
  BY DEF ProcTypes, Idle
<1>2. JobTypes
  <2>1. [active |-> FALSE, free |-> <<>>] \in [active : BOOLEAN, free : Seq(HandleIds)]
    OBVIOUS
  <2>2. NoHandle \in HandleTypes
    BY DEF NoHandle, HandleTypes, Components
  <2> QED
    BY <2>1, <2>2 DEF JobTypes
<1>3. LockTypes
  BY DEF LockTypes, AtWait, NoAbort
<1>4. RoomLeft
  BY JpegAssumption DEF RoomLeft, AtWait
<1> QED
  BY <1>1, <1>2, <1>3, <1>4 DEF Types

\* Initially nothing arrived, no job was started and every session is inactive.
LEMMA InvInit == Init => Inv
<1> SUFFICES ASSUME Init PROVE Inv
  OBVIOUS
<1> USE DEF Init, JpegInit
<1>1. Types
  BY TypesInit
<1>2. FrameInv
  <2>1. FramesOnce
    BY DEF FramesOnce, QueuesDistinct, Distinct, DistinctEntries
  <2>2. InHand
    BY DEF InHand, Idle
  <2> QED
    BY <2>1, <2>2 DEF FrameInv
<1>3. JobInv
  <2>1. HandleFrames
    BY DEF HandleFrames, NoHandle, AtWait
  <2>2. JobsOnce
    BY DEF JobsOnce, DistinctJobs
  <2>3. HandleJobs
    BY DEF HandleJobs, NoHandle
  <2>4. FreshFrames
    BY DEF FreshFrames
  <2> QED
    BY <2>1, <2>2, <2>3, <2>4 DEF JobInv
<1>4. HandleInv
  <2>1. FreeOnce
    BY DEF FreeOnce, Distinct
  <2>2. Encodes
    BY DEF Encodes, NoHandle
  <2>3. NotFree
    BY DEF NotFree
  <2>4. MgrHolds
    BY DEF MgrHolds, AtWait
  <2>5. Slots
    BY DEF Slots, Shut, AtWait, NoHandle
  <2> QED
    BY <2>1, <2>2, <2>3, <2>4, <2>5 DEF HandleInv
<1>5. HasSession
  BY DEF HasSession, Idle
<1> QED
  BY <1>1, <1>2, <1>3, <1>4, <1>5 DEF Inv
-----------------------------------------------------------------------------
(* What keeps the parts of the invariant. *)

frameVars == <<inputPPQ, ongoingPPQ, inputJpegQ, ongoingJpegQ, released, arrived>>

\* A step that moves no frame keeps every frame in one place.
LEMMA FramesKept ==
  ASSUME FramesOnce, UNCHANGED frameVars, \A f \in 1..arrived : Canceled(f)' <=> Canceled(f)
  PROVE  FramesOnce'
  BY DEF FramesOnce, QueuesDistinct, Spots, frameVars, InQueue, InEntries, Distinct,
         DistinctEntries, One

\* The same for the frame in the data processing thread's hands.
LEMMA FrameInvKept ==
  ASSUME FrameInv, UNCHANGED frameVars, proc' = proc
  PROVE  FrameInv'
<1>1. FramesOnce'
  BY FramesKept DEF FrameInv, Canceled
<1>2. InHand'
  BY DEF FrameInv, InHand, frameVars
<1> QED
  BY <1>1, <1>2 DEF FrameInv

\* Steps that start no job and give none to a handle.
LEMMA JobsKept ==
  ASSUME JobInv, arrived' = arrived,
         DistinctJobs(jobQueue'), DistinctJobs(ongoingJobs'),
         \A f : Queued(jobQueue', f) => Queued(jobQueue, f),
         \A f : Queued(ongoingJobs', f) => Queued(ongoingJobs, f),
         \A s \in Sessions, i \in HandleIds : handle'[s][i].frame \in {handle[s][i].frame, 0},
         \A f \in 1..arrived : Unstarted(f)' => Unstarted(f)
  PROVE  JobsOnce' /\ HandleJobs' /\ FreshFrames'
<1>1. JobsOnce'
  BY DEF JobInv, JobsOnce
<1>2. HandleJobs'
  <2> SUFFICES ASSUME NEW s \in Sessions, NEW i \in HandleIds, handle'[s][i].frame # 0
               PROVE  /\ ~Queued(jobQueue', handle'[s][i].frame)
                      /\ \A t \in Sessions, j \in HandleIds :
                           handle'[t][j].frame = handle'[s][i].frame => t = s /\ j = i
    BY DEF HandleJobs
  <2>1. handle'[s][i].frame = handle[s][i].frame
    OBVIOUS
  <2>2. \A t \in Sessions, j \in HandleIds :
          handle'[t][j].frame = handle'[s][i].frame => handle[t][j].frame = handle[s][i].frame
    BY <2>1
  <2> QED
    BY <2>1, <2>2 DEF JobInv, HandleJobs
<1>3. FreshFrames'
  <2> SUFFICES ASSUME NEW f \in 1..arrived, Unstarted(f)' PROVE Fresh(f)'
    BY DEF FreshFrames
  <2>1. Fresh(f)
    BY DEF JobInv, FreshFrames
  <2>2. \A s \in Sessions, i \in HandleIds : handle'[s][i].frame # f
    BY <2>1 DEF Fresh
  <2> QED
    BY <2>1, <2>2 DEF Fresh
<1> QED
  BY <1>1, <1>2, <1>3

\* Steps that change neither jobs nor handles.
LEMMA JobInvKept ==
  ASSUME JobInv, UNCHANGED <<arrived, handle, jobQueue, ongoingJobs>>,
         mgr'.at \in {"empty", "fill"} => mgr' = mgr,
         \A f \in 1..arrived : Unstarted(f)' => Unstarted(f)
  PROVE  JobInv'
<1>1. JobsOnce' /\ HandleJobs' /\ FreshFrames'
  BY JobsKept DEF JobInv, JobsOnce
<1>2. HandleFrames'
  BY DEF JobInv, HandleFrames
<1> QED
  BY <1>1, <1>2 DEF JobInv

\* A step that leaves the input queues alone starts over with no frame.
LEMMA UnstartedKept ==
  ASSUME UNCHANGED <<inputPPQ, ongoingPPQ, inputJpegQ>>,
         proc'.at \in {"encode", "start"} => proc'.frame = proc.frame /\ proc.at \in {"encode", "start"},
         NEW f
  PROVE  Unstarted(f)' => Unstarted(f)
  BY DEF Unstarted

handleVars == <<session, handle>>

\* Steps that change neither sessions nor handles, nor an ongoing job under the lock.
LEMMA HandleInvKept ==
  ASSUME HandleInv, UNCHANGED handleVars,
         mgr'.at \in {"empty", "fill"} => mgr' = mgr,
         mgr.at = "empty" => mgr' = mgr /\ ongoingJobs' = ongoingJobs,
         Shut' <=> Shut, Shut => proc'.at = proc.at
  PROVE  HandleInv'
<1> USE DEF handleVars
<1>1. FreeOnce'
  BY DEF HandleInv, FreeOnce
<1>2. Encodes'
  BY DEF HandleInv, Encodes, Free
<1>3. NotFree'
  BY DEF HandleInv, NotFree, Free
<1>4. MgrHolds'
  BY DEF HandleInv, MgrHolds, Free
<1>5. Slots'
  BY DEF HandleInv, Slots
<1> QED
  BY <1>1, <1>2, <1>3, <1>4, <1>5 DEF HandleInv
-----------------------------------------------------------------------------
(* The state machine thread. *)

\* A step outside the JPEG interface keeps the types of its state.
LEMMA JpegTypesKept ==
  ASSUME Types, UNCHANGED jpegVars, arrived' = arrived
  PROVE  JobTypes' /\ LockTypes' /\ RoomLeft'
<1> USE DEF Types, jpegVars
<1>1. JobTypes'
  BY DEF JobTypes, Jobs, Reports, HandleTypes
<1>2. LockTypes'
  BY DEF LockTypes
<1>3. RoomLeft'
  BY DEF RoomLeft
<1> QED
  BY <1>1, <1>2, <1>3

\* The job interface does not notice a step of the post-processor alone.
LEMMA JpegKept ==
  ASSUME Inv, UNCHANGED jpegVars, arrived' = arrived,
         \A f \in 1..arrived : Unstarted(f)' => Unstarted(f),
         Shut' <=> Shut, Shut => proc'.at = proc.at
  PROVE  JobTypes' /\ LockTypes' /\ RoomLeft' /\ JobInv' /\ HandleInv'
<1>1. JobTypes' /\ LockTypes' /\ RoomLeft'
  BY JpegTypesKept DEF Inv
<1>2. JobInv'
  BY JobInvKept DEF Inv, jpegVars
<1>3. HandleInv'
  BY HandleInvKept DEF Inv, jpegVars, handleVars
<1> QED
  BY <1>1, <1>2, <1>3

\* Commands are sent to either end of the queue.
LEMMA CmdTypes ==
  ASSUME NEW q \in Seq({"START", "STOP", "NEXT", "EXIT"}),
         NEW c \in {"START", "STOP", "NEXT", "EXIT"}
  PROVE  Append(q, c) \in Seq({"START", "STOP", "NEXT", "EXIT"})
         /\ <<c>> \o q \in Seq({"START", "STOP", "NEXT", "EXIT"})
<1>1. <<c>> \in Seq({"START", "STOP", "NEXT", "EXIT"})
  OBVIOUS
<1> QED
  BY <1>1, ConcatProperties

\* stop only sends a command.
LEMMA StopStep == Inv /\ Stop => Inv'
<1> SUFFICES ASSUME Inv, Stop PROVE Inv'
  OBVIOUS
<1>1. UNCHANGED frameVars /\ proc' = proc /\ UNCHANGED jpegVars /\ UNCHANGED <<jpegSession, newSession>>
  BY DEF Stop, frameVars
<1>2. ProcTypes'
  <2>1. cmds' \in Seq({"START", "STOP", "NEXT", "EXIT"})
    BY CmdTypes DEF Inv, Types, ProcTypes, Stop, SendFirst
  <2>2. pic' \in [at : {"off", "on", "stopping", "closing", "joining", "releasing", "closed"},
                  kind : Pictures \cup {NoPicture}]
    BY DEF Inv, Types, ProcTypes, Stop
  <2> QED
    BY <2>1, <2>2 DEF Inv, Types, ProcTypes, Stop, Entries
<1>3. FrameInv'
  BY <1>1, FrameInvKept DEF Inv
<1>4. (Shut' <=> Shut) /\ arrived' = arrived
  BY DEF Inv, Types, ProcTypes, Stop, Shut
<1>5. \A f \in 1..arrived : Unstarted(f)' => Unstarted(f)
  BY <1>1, UnstartedKept DEF frameVars
<1>6. JobTypes' /\ LockTypes' /\ RoomLeft' /\ JobInv' /\ HandleInv'
  BY <1>1, <1>4, <1>5, JpegKept
<1>7. HasSession'
  BY <1>1 DEF Inv, HasSession
<1> QED
  BY <1>2, <1>3, <1>6, <1>7 DEF Inv, Types

\* The end of stop only takes the channel of a capture away.
LEMMA StopDoneStep == Inv /\ StopDone => Inv'
<1> SUFFICES ASSUME Inv, StopDone PROVE Inv'
  OBVIOUS
<1>1. UNCHANGED frameVars /\ proc' = proc /\ UNCHANGED jpegVars /\ UNCHANGED <<jpegSession, newSession>>
  BY DEF StopDone, frameVars
<1>2. ProcTypes'
  <2>1. cmds' \in Seq({"START", "STOP", "NEXT", "EXIT"})
    BY CmdTypes DEF Inv, Types, ProcTypes, StopDone, SendFirst
  <2>2. pic' \in [at : {"off", "on", "stopping", "closing", "joining", "releasing", "closed"},
                  kind : Pictures \cup {NoPicture}]
    BY DEF Inv, Types, ProcTypes, StopDone
  <2>3. channel' \subseteq 1..arrived'
    BY DEF Inv, Types, ProcTypes, StopDone
  <2> QED
    BY <2>1, <2>2, <2>3 DEF Inv, Types, ProcTypes, StopDone, Entries
<1>3. FrameInv'
  BY <1>1, FrameInvKept DEF Inv
<1>4. (Shut' <=> Shut) /\ arrived' = arrived
  BY DEF Inv, Types, ProcTypes, StopDone, Shut
<1>5. \A f \in 1..arrived : Unstarted(f)' => Unstarted(f)
  BY <1>1, UnstartedKept DEF frameVars
<1>6. JobTypes' /\ LockTypes' /\ RoomLeft' /\ JobInv' /\ HandleInv'
  BY <1>1, <1>4, <1>5, JpegKept
<1>7. HasSession'
  BY <1>1 DEF Inv, HasSession
<1> QED
  BY <1>2, <1>3, <1>6, <1>7 DEF Inv, Types

\* Joining the manager moves nothing.
LEMMA CloseStep == Inv /\ Close => Inv'
<1> SUFFICES ASSUME Inv, Close PROVE Inv'
  OBVIOUS
<1>1. UNCHANGED frameVars /\ proc' = proc /\ UNCHANGED jpegVars /\ UNCHANGED <<jpegSession, newSession>>
  BY DEF Close, frameVars
<1>2. ProcTypes'
  <2>1. pic' \in [at : {"off", "on", "stopping", "closing", "joining", "releasing", "closed"},
                  kind : Pictures \cup {NoPicture}]
    BY DEF Inv, Types, ProcTypes, Close
  <2> QED
    BY <2>1 DEF Inv, Types, ProcTypes, Close, Entries
<1>3. FrameInv'
  BY <1>1, FrameInvKept DEF Inv
<1>4. (Shut' <=> Shut) /\ arrived' = arrived
  BY DEF Inv, Types, ProcTypes, Close, Shut
<1>5. \A f \in 1..arrived : Unstarted(f)' => Unstarted(f)
  BY <1>1, UnstartedKept DEF frameVars
<1>6. JobTypes' /\ LockTypes' /\ RoomLeft' /\ JobInv' /\ HandleInv'
  BY <1>1, <1>4, <1>5, JpegKept
<1>7. HasSession'
  BY <1>1 DEF Inv, HasSession
<1> QED
  BY <1>2, <1>3, <1>6, <1>7 DEF Inv, Types

\* The command for a queued frame moves nothing.
LEMMA FrameSentStep == Inv /\ FrameSent => Inv'
<1> SUFFICES ASSUME Inv, FrameSent PROVE Inv'
  OBVIOUS
<1>1. UNCHANGED frameVars /\ proc' = proc /\ UNCHANGED jpegVars /\ UNCHANGED <<jpegSession, newSession>>
  BY DEF FrameSent, frameVars
<1>2. ProcTypes'
  <2>1. cmds' \in Seq({"START", "STOP", "NEXT", "EXIT"})
    BY CmdTypes DEF Inv, Types, ProcTypes, FrameSent, Send
  <2> QED
    BY <2>1 DEF Inv, Types, ProcTypes, FrameSent, Entries
<1>3. FrameInv'
  BY <1>1, FrameInvKept DEF Inv
<1>4. (Shut' <=> Shut) /\ arrived' = arrived
  BY DEF FrameSent, Shut
<1>5. \A f \in 1..arrived : Unstarted(f)' => Unstarted(f)
  BY <1>1, UnstartedKept DEF frameVars
<1>6. JobTypes' /\ LockTypes' /\ RoomLeft' /\ JobInv' /\ HandleInv'
  BY <1>1, <1>4, <1>5, JpegKept
<1>7. HasSession'
  BY <1>1 DEF Inv, HasSession
<1> QED
  BY <1>2, <1>3, <1>6, <1>7 DEF Inv, Types

\* A reprocessed frame moves from the frames in the reprocess channel to those that
\* wait for the encoder.
LEMMA ReprocessedStep == Inv /\ Reprocessed => Inv'
<1> SUFFICES ASSUME Inv, Reprocessed PROVE Inv'
  OBVIOUS
<1> DEFINE h == Head(ongoingPPQ)
<1>1. /\ ongoingPPQ # <<>> /\ ongoingPPQ' = Tail(ongoingPPQ) /\ inputJpegQ' = Append(inputJpegQ, h)
      /\ proc' = proc /\ UNCHANGED jpegVars /\ UNCHANGED <<jpegSession, newSession>>
      /\ UNCHANGED <<pic, inputPPQ, ongoingJpegQ, released, arrived>>
  BY DEF Reprocessed
<1>2. /\ ongoingPPQ \in Seq(1..arrived) /\ inputJpegQ \in Seq(1..arrived)
      /\ QueuesDistinct /\ \A f \in 1..arrived : Spots(f) = 1
  BY DEF Inv, Types, ProcTypes, FrameInv, FramesOnce
<1>3. /\ h \in 1..arrived /\ ongoingPPQ' \in Seq(1..arrived) /\ InQueue(ongoingPPQ, h)
      /\ Distinct(ongoingPPQ') /\ \A f : InQueue(ongoingPPQ', f) <=> InQueue(ongoingPPQ, f) /\ f # h
  BY <1>1, <1>2, InTail DEF QueuesDistinct
<1> HIDE DEF h
<1>4. ~InQueue(inputJpegQ, h)
  BY <1>2, <1>3 DEF Spots, One
<1>5. /\ inputJpegQ' \in Seq(1..arrived) /\ Distinct(inputJpegQ')
      /\ \A f : InQueue(inputJpegQ', f) <=> InQueue(inputJpegQ, f) \/ f = h
  <2>1. Distinct(inputJpegQ)
    BY <1>2 DEF QueuesDistinct
  <2>2. /\ Append(inputJpegQ, h) \in Seq(1..arrived)
        /\ \A f : InQueue(Append(inputJpegQ, h), f) <=> InQueue(inputJpegQ, f) \/ f = h
        /\ Distinct(Append(inputJpegQ, h))
    <3>1. inputJpegQ \in Seq(1..arrived) /\ h \in 1..arrived
      BY <1>2, <1>3
    <3> QED
      BY <3>1, <1>4, <2>1, InAppend, Zenon
  <2> QED
    BY <1>1, <2>2
<1>6. ProcTypes'
  <2>1. cmds' \in Seq({"START", "STOP", "NEXT", "EXIT"})
    BY CmdTypes DEF Inv, Types, ProcTypes, Reprocessed, Send
  <2>2. reprocessed' \in Seq(1..arrived')
    BY <1>1 DEF Inv, Types, ProcTypes, Reprocessed
  <2> QED
    BY <1>1, <1>3, <1>5, <2>1, <2>2 DEF Inv, Types, ProcTypes, Reprocessed, Entries
<1>7. FrameInv'
  <2>1. QueuesDistinct'
    BY <1>1, <1>2, <1>3, <1>5 DEF QueuesDistinct
  <2>2. \A f \in 1..arrived : Spots(f)' = 1
    BY <1>1, <1>2, <1>3, <1>4, <1>5 DEF Spots, One, Canceled
  <2>3. InHand'
    BY <1>1 DEF Inv, FrameInv, InHand
  <2> QED
    BY <1>1, <2>1, <2>2, <2>3 DEF FrameInv, FramesOnce
<1>8. \A f \in 1..arrived : Unstarted(f)' => Unstarted(f)
  BY <1>1, <1>3, <1>5 DEF Unstarted
<1>9. JobTypes' /\ LockTypes' /\ RoomLeft' /\ JobInv' /\ HandleInv'
  BY <1>1, <1>8, JpegKept DEF Shut
<1>10. HasSession'
  BY <1>1 DEF Inv, HasSession
<1> QED
  BY <1>6, <1>7, <1>9, <1>10 DEF Inv, Types
\* An event gives the frames of its job back, and leaves the frame that is being
\* encoded: it has no job yet.
LEMMA JpegEventStep == Inv /\ JpegEvent => Inv'
<1> SUFFICES ASSUME Inv, JpegEvent PROVE Inv'
  OBVIOUS
<1> DEFINE f == Head(events).frame
           D == {k \in DOMAIN ongoingJpegQ : Ends(ongoingJpegQ[k], f)}
<1>1. /\ UNCHANGED <<inputPPQ, ongoingPPQ, inputJpegQ, arrived, proc, pic, jpegSession, newSession>>
      /\ UNCHANGED <<session, handle, jobQueue, ongoingJobs, jobSem, jobLock, mgr, aborting>>
      /\ events # <<>> /\ events' = Tail(events)
  BY DEF JpegEvent
<1>2. f \in 1..arrived /\ events' \in Seq(Reports)
  <2>1. events \in Seq(Reports)
    BY DEF Inv, Types, JobTypes
  <2>2. Head(events) \in Reports /\ Tail(events) \in Seq(Reports)
    BY <1>1, <2>1, InTail
  <2> QED
    BY <1>1, <2>2 DEF Reports
<1>3. /\ QueuesDistinct /\ \A g \in 1..arrived : Spots(g) = 1
      /\ ongoingJpegQ \in Seq(Entries) /\ released \subseteq 1..arrived
  BY DEF Inv, Types, ProcTypes, FrameInv, FramesOnce
<1>4. ASSUME pic.at = "on" PROVE ProcTypes' /\ FrameInv'
  <2>1. /\ ongoingJpegQ' = Without(ongoingJpegQ, D)
        /\ released' = released \cup {e.frame : e \in {x \in Range(ongoingJpegQ) : Ends(x, f)}}
        /\ cmds' = Append(cmds, "NEXT")
    BY <1>4 DEF JpegEvent, Send, Release
  <2>2. \A g : g \in released' <=>
          g \in released \/ \E k \in DOMAIN ongoingJpegQ : k \in D /\ ongoingJpegQ[k].frame = g
    BY <2>1 DEF Range
  <2>3. \A k \in DOMAIN ongoingJpegQ : ongoingJpegQ[k] \in Entries
    BY <1>3
  <2>4. released' \subseteq 1..arrived
    BY <1>3, <2>2, <2>3 DEF Entries
  <2>5. /\ ongoingJpegQ' \in Seq(Entries) /\ DistinctEntries(ongoingJpegQ')
        /\ \A k \in DOMAIN ongoingJpegQ' :
             \E m \in DOMAIN ongoingJpegQ : m \notin D /\ ongoingJpegQ'[k] = ongoingJpegQ[m]
        /\ \A m \in DOMAIN ongoingJpegQ :
             m \notin D => \E k \in DOMAIN ongoingJpegQ' : ongoingJpegQ'[k] = ongoingJpegQ[m]
    <3>1. DistinctEntries(ongoingJpegQ)
      BY <1>3 DEF QueuesDistinct
    <3> HIDE DEF D
    <3> QED
      BY <1>3, <2>1, <3>1, WithoutFacts
  <2>6. ongoingJpegQ # <<>> /\ Len(ongoingJpegQ) \notin D
          => ongoingJpegQ' # <<>> /\ ongoingJpegQ'[Len(ongoingJpegQ')] = ongoingJpegQ[Len(ongoingJpegQ)]
    <3> HIDE DEF D
    <3> QED
      BY <1>3, <2>1, WithoutKeeps
  <2>7. InHand'
    <3> SUFFICES ASSUME proc.at \in {"encode", "start", "store"}
                 PROVE  /\ ongoingJpegQ' # <<>>
                        /\ ongoingJpegQ'[Len(ongoingJpegQ')] = [frame |-> proc.frame, job |-> 0]
      BY <1>1 DEF Inv, FrameInv, InHand
    <3>1. /\ ongoingJpegQ # <<>>
          /\ ongoingJpegQ[Len(ongoingJpegQ)] = [frame |-> proc.frame, job |-> 0]
      BY DEF Inv, FrameInv, InHand
    <3>2. ~Ends(ongoingJpegQ[Len(ongoingJpegQ)], f)
      BY <1>2, <3>1 DEF Ends
    <3> QED
      BY <2>6, <3>1, <3>2
  <2> HIDE DEF D, f
  <2>8. QueuesDistinct'
    BY <1>1, <1>3, <2>5 DEF QueuesDistinct
  <2>9. ASSUME NEW g \in 1..arrived PROVE Spots(g)' = 1
    <3>1. InEntries(ongoingJpegQ', g) <=>
            \E m \in DOMAIN ongoingJpegQ : m \notin D /\ ongoingJpegQ[m].frame = g
      BY <2>5 DEF InEntries
    <3>2. /\ InEntries(ongoingJpegQ, g) <=> InEntries(ongoingJpegQ', g) \/ (g \in released' /\ g \notin released)
          /\ ~InEntries(ongoingJpegQ, g) => ~InEntries(ongoingJpegQ', g) /\ (g \in released' <=> g \in released)
          /\ ~(InEntries(ongoingJpegQ', g) /\ g \in released' /\ g \notin released)
      <4>1. DistinctEntries(ongoingJpegQ)
        BY <1>3 DEF QueuesDistinct
      <4>2. InEntries(ongoingJpegQ, g) => g \notin released
        BY <1>3 DEF Spots, One
      <4> QED
        BY <2>2, <3>1, <4>1, <4>2 DEF InEntries, DistinctEntries
    <3>3. g \in released => g \in released'
      BY <2>1
    <3> QED
      BY <1>1, <1>3, <3>2, <3>3 DEF Spots, One, Canceled
  <2>10. cmds' \in Seq({"START", "STOP", "NEXT", "EXIT"})
    BY <2>1, CmdTypes DEF Inv, Types, ProcTypes
  <2>11. ProcTypes'
    BY <1>1, <2>4, <2>5, <2>10 DEF Inv, Types, ProcTypes, JpegEvent, Entries
  <2> QED
    BY <1>1, <2>7, <2>8, <2>9, <2>11 DEF FrameInv, FramesOnce
<1>5. ASSUME pic.at # "on" PROVE ProcTypes' /\ FrameInv'
  <2>1. UNCHANGED <<ongoingJpegQ, released, cmds>>
    BY <1>5 DEF JpegEvent
  <2>2. ProcTypes'
    BY <1>1, <2>1 DEF Inv, Types, ProcTypes, JpegEvent, Entries
  <2>3. FrameInv'
    BY <1>1, <2>1, FrameInvKept DEF Inv, frameVars
  <2> QED
    BY <2>2, <2>3
<1>6. ProcTypes' /\ FrameInv'
  BY <1>4, <1>5
<1>7. JobTypes'
  BY <1>1, <1>2 DEF Inv, Types, JobTypes, Jobs, Reports, HandleTypes
<1>8. LockTypes' /\ RoomLeft'
  BY <1>1 DEF Inv, Types, LockTypes, RoomLeft
<1>9. JobInv'
  <2>1. \A g \in 1..arrived : Unstarted(g)' => Unstarted(g)
    BY <1>1, UnstartedKept
  <2> QED
    BY <1>1, <2>1, JobInvKept DEF Inv
<1>10. HandleInv'
  BY <1>1, HandleInvKept DEF Inv, handleVars, Shut
<1>11. HasSession'
  BY <1>1 DEF Inv, HasSession
<1> QED
  BY <1>6, <1>7, <1>8, <1>9, <1>10, <1>11 DEF Inv, Types
-----------------------------------------------------------------------------
(* The callback threads. *)

\* Types that name the frames that came hold of more frames too.
LEMMA MoreFrames ==
  ASSUME Types, arrived' = arrived + 1
  PROVE  /\ Seq(1..arrived) \subseteq Seq(1..arrived') /\ Seq(Entries) \subseteq Seq(Entries')
         /\ Seq(Jobs \cup {Exit}) \subseteq Seq(Jobs' \cup {Exit}) /\ Seq(Jobs) \subseteq Seq(Jobs')
         /\ Seq(Reports) \subseteq Seq(Reports')
         /\ HandleTypes \subseteq HandleTypes'
<1>1. 1..arrived \subseteq 1..arrived' /\ 0..arrived \subseteq 0..arrived'
  BY DEF Types, ProcTypes
<1>2. Entries \subseteq Entries'
  BY <1>1 DEF Entries
<1>3. Jobs \subseteq Jobs'
  BY <1>1 DEF Jobs
<1>4. Reports \subseteq Reports'
  BY <1>1 DEF Reports
<1>5. HandleTypes \subseteq HandleTypes'
  BY <1>1 DEF HandleTypes
<1>6. Jobs \cup {Exit} \subseteq Jobs' \cup {Exit}
  BY <1>3
<1> QED
  BY <1>1, <1>2, <1>3, <1>4, <1>5, <1>6, SeqMonotonic

\* A new frame is one more frame, and the types allow for it.
LEMMA NewFrameTypes ==
  ASSUME Inv, NewFrame, inputPPQ' \in Seq(1..arrived'), inputJpegQ' \in Seq(1..arrived')
  PROVE  Types'
<1>1. /\ UNCHANGED <<pic, cmds, proc, ongoingPPQ, ongoingJpegQ, reprocessed, released, jpegSession>>
      /\ UNCHANGED jpegVars /\ arrived' = arrived + 1 /\ channel' = channel \cup {arrived'}
  BY DEF NewFrame
<1>2. arrived \in Nat /\ arrived' \in Nat /\ 1..arrived \subseteq 1..arrived' /\ arrived' \in 1..arrived'
      /\ 0..arrived \subseteq 0..arrived'
  BY <1>1 DEF Inv, Types, ProcTypes
<1>3. /\ Seq(1..arrived) \subseteq Seq(1..arrived') /\ Seq(Entries) \subseteq Seq(Entries')
      /\ Seq(Jobs \cup {Exit}) \subseteq Seq(Jobs' \cup {Exit}) /\ Seq(Jobs) \subseteq Seq(Jobs')
      /\ Seq(Reports) \subseteq Seq(Reports')
      /\ HandleTypes \subseteq HandleTypes'
  BY <1>1, MoreFrames DEF Inv
<1>4. ProcTypes'
  <2>1. /\ ongoingPPQ' \in Seq(1..arrived') /\ reprocessed' \in Seq(1..arrived')
        /\ ongoingJpegQ' \in Seq(Entries')
    BY <1>1, <1>3 DEF Inv, Types, ProcTypes
  <2>2. released' \subseteq 1..arrived' /\ channel' \subseteq 1..arrived'
    BY <1>1, <1>2 DEF Inv, Types, ProcTypes
  <2>3. proc' \in [at : {"idle", "encode", "start", "store", "reproc", "cancel", "cancelWait",
                         "destroy", "destroyWait", "flush", "flag", "exited"}, frame : 0..arrived']
    BY <1>1, <1>2 DEF Inv, Types, ProcTypes
  <2> QED
    BY <1>1, <1>2, <2>1, <2>2, <2>3 DEF Inv, Types, ProcTypes
<1>5. JobTypes'
  <2>1. handle' \in [Sessions -> [HandleIds -> HandleTypes']]
    BY <1>1, <1>3 DEF Inv, Types, JobTypes, jpegVars
  <2>2. jobQueue' \in Seq(Jobs' \cup {Exit}) /\ ongoingJobs' \in Seq(Jobs') /\ events' \in Seq(Reports')
    BY <1>1, <1>3 DEF Inv, Types, JobTypes, jpegVars
  <2> QED
    BY <1>1, <2>1, <2>2 DEF Inv, Types, JobTypes, jpegVars
<1>6. LockTypes' /\ RoomLeft'
  BY <1>1 DEF Inv, Types, LockTypes, RoomLeft, jpegVars
<1> QED
  BY <1>4, <1>5, <1>6 DEF Types

\* A new frame is nowhere yet, and has no job.
LEMMA NewFrameUnseen ==
  ASSUME Inv, NEW f, f = arrived + 1
  PROVE  /\ ~InQueue(inputPPQ, f) /\ ~InQueue(ongoingPPQ, f) /\ ~InQueue(inputJpegQ, f)
         /\ ~InEntries(ongoingJpegQ, f) /\ ~Canceled(f) /\ f \notin released
         /\ Fresh(f)
<1>1. f \notin 0..arrived /\ f \notin 1..arrived
  BY DEF Inv, Types, ProcTypes
<1>2. ~InQueue(inputPPQ, f) /\ ~InQueue(ongoingPPQ, f) /\ ~InQueue(inputJpegQ, f)
  BY <1>1 DEF Inv, Types, ProcTypes, InQueue
<1>3. ~InEntries(ongoingJpegQ, f)
  <2>1. \A k \in DOMAIN ongoingJpegQ : ongoingJpegQ[k] \in Entries
    BY DEF Inv, Types, ProcTypes
  <2> QED
    BY <1>1, <2>1 DEF InEntries, Entries
<1>4. ~Canceled(f) /\ f \notin released
  BY <1>1 DEF Inv, Types, ProcTypes, Canceled
<1>5. ~Queued(jobQueue, f)
  BY <1>1 DEF Inv, Types, JobTypes, Queued, OfFrame, Jobs, Exit
<1>6. ~Queued(ongoingJobs, f)
  <2>1. \A k \in DOMAIN ongoingJobs : ongoingJobs[k] \in Jobs
    BY DEF Inv, Types, JobTypes
  <2> QED
    BY <1>1, <2>1 DEF Queued, OfFrame, Jobs
<1>7. \A s \in Sessions, i \in HandleIds : handle[s][i].frame # f
  BY <1>1 DEF Inv, Types, JobTypes, HandleTypes
<1> QED
  BY <1>2, <1>3, <1>4, <1>5, <1>6, <1>7 DEF Fresh
\* A new frame is put into one input queue, and nothing else knows of it.
LEMMA NewFrameStep == Inv /\ NewFrame => Inv'
<1> SUFFICES ASSUME Inv, NewFrame PROVE Inv'
  OBVIOUS
<1>0. PICK a : a = arrived + 1
  OBVIOUS
<1>1. /\ UNCHANGED <<pic, proc, ongoingPPQ, ongoingJpegQ, released, jpegSession, newSession>>
      /\ UNCHANGED jpegVars /\ arrived' = a
  BY <1>0 DEF NewFrame
<1>2. arrived \in Nat /\ a \in 1..a /\ \A f \in 1..a : f \in 1..arrived \/ f = a
  BY <1>0, <1>1 DEF Inv, Types, ProcTypes
<1>3. /\ inputPPQ \in Seq(1..a) /\ inputJpegQ \in Seq(1..a)
      /\ QueuesDistinct /\ \A f \in 1..arrived : Spots(f) = 1
  BY <1>0, <1>1, MoreFrames DEF Inv, Types, ProcTypes, FrameInv, FramesOnce
<1>4. /\ ~InQueue(inputPPQ, a) /\ ~InQueue(ongoingPPQ, a) /\ ~InQueue(inputJpegQ, a)
      /\ ~InEntries(ongoingJpegQ, a) /\ ~Canceled(a) /\ a \notin released
      /\ Fresh(a)
  BY <1>0, NewFrameUnseen
<1>5. a \notin 1..arrived
  BY <1>0, <1>2
<1>6. \/ inputPPQ' = Append(inputPPQ, a) /\ inputJpegQ' = inputJpegQ
      \/ inputJpegQ' = Append(inputJpegQ, a) /\ inputPPQ' = inputPPQ
  BY <1>1 DEF NewFrame
<1>7. /\ inputPPQ' \in Seq(1..a) /\ inputJpegQ' \in Seq(1..a)
      /\ Distinct(inputPPQ') /\ Distinct(inputJpegQ')
      /\ \/ (\A f : InQueue(inputPPQ', f) <=> InQueue(inputPPQ, f) \/ f = a) /\ inputJpegQ' = inputJpegQ
         \/ (\A f : InQueue(inputJpegQ', f) <=> InQueue(inputJpegQ, f) \/ f = a) /\ inputPPQ' = inputPPQ
  <2>1. Distinct(inputPPQ) /\ Distinct(inputJpegQ)
    BY <1>3 DEF QueuesDistinct
  <2>2. /\ Append(inputPPQ, a) \in Seq(1..a) /\ Distinct(Append(inputPPQ, a))
        /\ \A f : InQueue(Append(inputPPQ, a), f) <=> InQueue(inputPPQ, f) \/ f = a
    <3>1. inputPPQ \in Seq(1..a) /\ a \in 1..a
      BY <1>2, <1>3
    <3>2. /\ Append(inputPPQ, a) \in Seq(1..a)
          /\ \A f : InQueue(Append(inputPPQ, a), f) <=> InQueue(inputPPQ, f) \/ f = a
          /\ Distinct(inputPPQ) /\ ~InQueue(inputPPQ, a) => Distinct(Append(inputPPQ, a))
      BY <3>1, InAppend
    <3> QED
      BY <3>2, <1>4, <2>1
  <2>3. /\ Append(inputJpegQ, a) \in Seq(1..a) /\ Distinct(Append(inputJpegQ, a))
        /\ \A f : InQueue(Append(inputJpegQ, a), f) <=> InQueue(inputJpegQ, f) \/ f = a
    <3>1. inputJpegQ \in Seq(1..a) /\ a \in 1..a
      BY <1>2, <1>3
    <3>2. /\ Append(inputJpegQ, a) \in Seq(1..a)
          /\ \A f : InQueue(Append(inputJpegQ, a), f) <=> InQueue(inputJpegQ, f) \/ f = a
          /\ Distinct(inputJpegQ) /\ ~InQueue(inputJpegQ, a) => Distinct(Append(inputJpegQ, a))
      BY <3>1, InAppend
    <3> QED
      BY <3>2, <1>4, <2>1
  <2> QED
    BY <1>3, <1>6, <2>1, <2>2, <2>3
<1>8. Types'
  BY <1>1, <1>7, NewFrameTypes
<1>9. FrameInv'
  <2>1. QueuesDistinct'
    BY <1>1, <1>3, <1>7 DEF QueuesDistinct
  <2>2. Spots(a)' = 1
    BY <1>1, <1>4, <1>7 DEF Spots, One, Canceled
  <2>3. \A f \in 1..arrived : Spots(f)' = 1
    BY <1>1, <1>3, <1>5, <1>7 DEF Spots, One, Canceled
  <2>4. InHand'
    BY <1>1 DEF Inv, FrameInv, InHand
  <2>5. \A f \in 1..arrived' : Spots(f)' = 1
    BY <1>1, <1>2, <2>2, <2>3
  <2> QED
    BY <2>1, <2>4, <2>5 DEF FrameInv, FramesOnce
<1>10. JobInv'
  <2>1. HandleFrames' /\ HandleJobs'
    BY <1>1 DEF Inv, JobInv, HandleFrames, HandleJobs, jpegVars
  <2>2. JobsOnce'
    BY <1>1, <1>2, <1>4 DEF Inv, JobInv, JobsOnce, Fresh, jpegVars
  <2>3. \A f \in 1..arrived : Unstarted(f)' => Unstarted(f)
    BY <1>1, <1>5, <1>7 DEF Unstarted
  <2>4. \A f \in 1..arrived' : Unstarted(f)' => Fresh(f)
    BY <1>1, <1>2, <1>4, <2>3 DEF Inv, JobInv, FreshFrames
  <2>5. FreshFrames'
    BY <1>1, <2>4 DEF FreshFrames, Fresh, jpegVars
  <2> QED
    BY <2>1, <2>2, <2>5 DEF JobInv
<1>11. HandleInv'
  BY <1>1, HandleInvKept DEF Inv, handleVars, jpegVars, Shut
<1>12. HasSession'
  BY <1>1 DEF Inv, HasSession
<1> QED
  BY <1>8, <1>9, <1>10, <1>11, <1>12 DEF Inv
-----------------------------------------------------------------------------
(* The data processing thread: commands. *)

\* A command is looked at and nothing else, or frames are dropped, or the next frame
\* is taken in hand.
CommandLooks ==
  /\ UNCHANGED frameVars
  /\ proc' = proc \/ proc' \in [at : {"cancel", "exited", "reproc"}, frame : {0}]
CommandDrops ==
  /\ UNCHANGED <<ongoingPPQ, ongoingJpegQ, arrived>> /\ proc' = proc
  /\ inputJpegQ' = Rest(inputJpegQ) /\ inputPPQ' = Rest(inputPPQ)
  /\ released' = released \cup Dropped(inputJpegQ) \cup Dropped(inputPPQ)
CommandEncodes ==
  /\ UNCHANGED <<ongoingPPQ, inputPPQ, released, arrived>>
  /\ inputJpegQ # <<>> /\ inputJpegQ' = Tail(inputJpegQ)
  /\ ongoingJpegQ' = Append(ongoingJpegQ, [frame |-> Head(inputJpegQ), job |-> 0])
  /\ proc' = [at |-> "encode", frame |-> Head(inputJpegQ)]

\* A command looks for work, drops the frames of a stopped picture, or takes one
\* to encode.
LEMMA CommandKinds ==
  ASSUME Inv, Command
  PROVE  /\ CommandLooks \/ CommandDrops \/ CommandEncodes
         /\ proc.at = "idle" /\ cmds # <<>> /\ cmds' = Tail(cmds)
         /\ UNCHANGED <<pic, reprocessed, channel, jpegSession, newSession>> /\ UNCHANGED jpegVars
<1>1. /\ proc.at = "idle" /\ cmds # <<>> /\ cmds' = Tail(cmds)
      /\ UNCHANGED <<pic, ongoingPPQ, arrived, reprocessed, channel, jpegSession, newSession>>
      /\ UNCHANGED jpegVars
  BY DEF Command
<1>2. CommandLooks \/ CommandDrops \/ CommandEncodes
  <2>1. CASE Head(cmds) = "START"
    BY <1>1, <2>1 DEF Command, CommandLooks, frameVars
  <2>2. CASE Head(cmds) = "STOP"
    BY <1>1, <2>2 DEF Command, CommandLooks, frameVars, Goto
  <2>3. CASE Head(cmds) = "EXIT"
    BY <1>1, <2>3 DEF Command, CommandLooks, frameVars, Goto
  <2>4. CASE Head(cmds) = "NEXT" /\ ~active
    BY <1>1, <2>4 DEF Command, CommandDrops, Release
  <2>5. CASE Head(cmds) = "NEXT" /\ active /\ inputJpegQ # <<>>
    BY <1>1, <2>5 DEF Command, CommandEncodes, Goto
  <2>6. CASE Head(cmds) = "NEXT" /\ active /\ inputJpegQ = <<>>
    <3>1. /\ Head(cmds) # "START" /\ Head(cmds) # "STOP" /\ Head(cmds) # "EXIT"
          /\ ~(Head(cmds) = "NEXT" /\ ~active)
          /\ ~(Head(cmds) = "NEXT" /\ active /\ inputJpegQ # <<>>)
      BY <2>6
    <3>2. Goto("reproc", 0) /\ UNCHANGED <<active, inputJpegQ, ongoingJpegQ, inputPPQ, released>>
      BY <3>1 DEF Command
    <3> QED
      BY <1>1, <3>2 DEF CommandLooks, frameVars, Goto
  <2>7. Head(cmds) \in {"START", "STOP", "NEXT", "EXIT"}
    BY <1>1, InTail DEF Inv, Types, ProcTypes
  <2> QED
    BY <2>1, <2>2, <2>3, <2>4, <2>5, <2>6, <2>7
<1> QED
  BY <1>1, <1>2

\* A command that moves no frame.
LEMMA CommandLooksStep ==
  ASSUME Inv, Command, CommandLooks
  PROVE  ProcTypes' /\ FrameInv' /\ \A f \in 1..arrived : Unstarted(f)' => Unstarted(f)
<1>1. /\ proc.at = "idle" /\ cmds # <<>> /\ cmds' = Tail(cmds)
      /\ UNCHANGED <<pic, reprocessed, channel, jpegSession, newSession>>
  BY CommandKinds
<1>2. /\ UNCHANGED frameVars
      /\ proc' = proc \/ proc' \in [at : {"cancel", "exited", "reproc"}, frame : {0}]
  BY DEF CommandLooks
<1>3. proc'.at \in {"idle", "cancel", "exited", "reproc"}
  BY <1>1, <1>2
<1>4. ProcTypes'
  <2>1. cmds' \in Seq({"START", "STOP", "NEXT", "EXIT"})
    BY <1>1 DEF Inv, Types, ProcTypes
  <2>2. proc' \in [at : {"idle", "encode", "start", "store", "reproc", "cancel", "cancelWait",
                         "destroy", "destroyWait", "flush", "flag", "exited"}, frame : 0..arrived]
    BY <1>2 DEF Inv, Types, ProcTypes
  <2> QED
    BY <1>1, <1>2, <2>1, <2>2 DEF Inv, Types, ProcTypes, frameVars, Entries
<1>5. FrameInv'
  <2>1. FramesOnce'
    BY <1>1, <1>2, <1>3, FramesKept DEF Inv, FrameInv, Canceled
  <2>2. InHand'
    BY <1>3 DEF InHand
  <2> QED
    BY <2>1, <2>2 DEF FrameInv
<1>6. \A f \in 1..arrived : Unstarted(f)' => Unstarted(f)
  BY <1>2, <1>3, UnstartedKept DEF frameVars
<1> QED
  BY <1>4, <1>5, <1>6

\* What is left of a queue when its head is dropped.
LEMMA RestFacts ==
  ASSUME NEW S, NEW q \in Seq(S), Distinct(q)
  PROVE  /\ Rest(q) \in Seq(S) /\ Distinct(Rest(q))
         /\ Dropped(q) \subseteq S /\ \A f \in Dropped(q) : InQueue(q, f)
         /\ \A f : InQueue(Rest(q), f) <=> InQueue(q, f) /\ f \notin Dropped(q)
<1>1. CASE q = <<>>
  BY <1>1 DEF Rest, Dropped, InQueue
<1>2. CASE q # <<>>
  <2>1. /\ Head(q) \in S /\ Tail(q) \in Seq(S) /\ InQueue(q, Head(q)) /\ Distinct(Tail(q))
        /\ \A f : InQueue(Tail(q), f) <=> InQueue(q, f) /\ f # Head(q)
    BY <1>2, InTail
  <2>2. Rest(q) = Tail(q) /\ Dropped(q) = {Head(q)}
    BY <1>2 DEF Rest, Dropped
  <2> QED
    BY <2>1, <2>2
<1> QED
  BY <1>1, <1>2

\* Frames that arrive when no picture is taken go from the input queues to the
\* released ones.
LEMMA CommandDropsStep ==
  ASSUME Inv, Command, CommandDrops
  PROVE  ProcTypes' /\ FrameInv' /\ \A f \in 1..arrived : Unstarted(f)' => Unstarted(f)
<1>1. /\ proc.at = "idle" /\ cmds # <<>> /\ cmds' = Tail(cmds)
      /\ UNCHANGED <<pic, reprocessed, channel, jpegSession, newSession>>
  BY CommandKinds
<1>2. /\ UNCHANGED <<ongoingPPQ, ongoingJpegQ, arrived>> /\ proc' = proc
      /\ inputJpegQ' = Rest(inputJpegQ) /\ inputPPQ' = Rest(inputPPQ)
      /\ released' = released \cup Dropped(inputJpegQ) \cup Dropped(inputPPQ)
  BY DEF CommandDrops
<1>3. /\ inputPPQ \in Seq(1..arrived) /\ inputJpegQ \in Seq(1..arrived)
      /\ QueuesDistinct /\ \A f \in 1..arrived : Spots(f) = 1
  BY DEF Inv, Types, ProcTypes, FrameInv, FramesOnce
<1>4. Distinct(inputPPQ) /\ Distinct(inputJpegQ)
  BY <1>3 DEF QueuesDistinct
<1>5. /\ inputJpegQ' \in Seq(1..arrived) /\ Distinct(inputJpegQ')
      /\ Dropped(inputJpegQ) \subseteq 1..arrived
      /\ \A f \in Dropped(inputJpegQ) : InQueue(inputJpegQ, f)
      /\ \A f : InQueue(inputJpegQ', f) <=> InQueue(inputJpegQ, f) /\ f \notin Dropped(inputJpegQ)
  BY <1>2, <1>3, <1>4, RestFacts
<1>6. /\ inputPPQ' \in Seq(1..arrived) /\ Distinct(inputPPQ')
      /\ Dropped(inputPPQ) \subseteq 1..arrived
      /\ \A f \in Dropped(inputPPQ) : InQueue(inputPPQ, f)
      /\ \A f : InQueue(inputPPQ', f) <=> InQueue(inputPPQ, f) /\ f \notin Dropped(inputPPQ)
  BY <1>2, <1>3, <1>4, RestFacts
<1>7. ProcTypes'
  <2>1. cmds' \in Seq({"START", "STOP", "NEXT", "EXIT"})
    BY <1>1 DEF Inv, Types, ProcTypes
  <2>2. released' \subseteq 1..arrived
    BY <1>2, <1>5, <1>6 DEF Inv, Types, ProcTypes
  <2> QED
    BY <1>1, <1>2, <1>5, <1>6, <2>1, <2>2 DEF Inv, Types, ProcTypes, Entries
<1>8. FrameInv'
  <2>1. QueuesDistinct'
    BY <1>2, <1>3, <1>5, <1>6 DEF QueuesDistinct
  <2>2. \A f \in 1..arrived : Spots(f)' = 1
    BY <1>2, <1>3, <1>5, <1>6 DEF Spots, One, Canceled
  <2>3. InHand'
    BY <1>2 DEF Inv, FrameInv, InHand
  <2> QED
    BY <1>2, <2>1, <2>2, <2>3 DEF FrameInv, FramesOnce
<1>9. \A f \in 1..arrived : Unstarted(f)' => Unstarted(f)
  BY <1>2, <1>5, <1>6 DEF Unstarted
<1> QED
  BY <1>7, <1>8, <1>9

\* The frame to encode goes from the input queue to the end of the ongoing jobs.
LEMMA CommandEncodesStep ==
  ASSUME Inv, Command, CommandEncodes
  PROVE  ProcTypes' /\ FrameInv' /\ \A f \in 1..arrived : Unstarted(f)' => Unstarted(f)
<1>0. PICK h : h = Head(inputJpegQ)
  OBVIOUS
<1>1. /\ proc.at = "idle" /\ cmds # <<>> /\ cmds' = Tail(cmds)
      /\ UNCHANGED <<pic, reprocessed, channel, jpegSession, newSession>>
  BY CommandKinds
<1>2. /\ UNCHANGED <<ongoingPPQ, inputPPQ, released, arrived>>
      /\ inputJpegQ # <<>> /\ inputJpegQ' = Tail(inputJpegQ)
      /\ ongoingJpegQ' = Append(ongoingJpegQ, [frame |-> h, job |-> 0])
      /\ proc' = [at |-> "encode", frame |-> h]
  BY <1>0 DEF CommandEncodes
<1>3. /\ inputJpegQ \in Seq(1..arrived) /\ ongoingJpegQ \in Seq(Entries) /\ arrived \in Nat
      /\ QueuesDistinct /\ \A f \in 1..arrived : Spots(f) = 1
  BY DEF Inv, Types, ProcTypes, FrameInv, FramesOnce
<1>4. /\ h \in 1..arrived /\ inputJpegQ' \in Seq(1..arrived) /\ InQueue(inputJpegQ, h)
      /\ Distinct(inputJpegQ')
      /\ \A f : InQueue(inputJpegQ', f) <=> InQueue(inputJpegQ, f) /\ f # h
  BY <1>0, <1>2, <1>3, InTail DEF QueuesDistinct
<1>5. ~InEntries(ongoingJpegQ, h)
  <2>1. Spots(h) = 1 /\ InQueue(inputJpegQ, h)
    BY <1>3, <1>4
  <2> QED
    BY <2>1 DEF Spots, One
<1>6. [frame |-> h, job |-> 0] \in Entries
  BY <1>3, <1>4 DEF Entries
<1>7. /\ ongoingJpegQ' \in Seq(Entries) /\ DistinctEntries(ongoingJpegQ')
      /\ \A f : InEntries(ongoingJpegQ', f) <=> InEntries(ongoingJpegQ, f) \/ f = h
      /\ ongoingJpegQ' # <<>>
      /\ ongoingJpegQ'[Len(ongoingJpegQ')] = [frame |-> h, job |-> 0]
  <2>1. DistinctEntries(ongoingJpegQ)
    BY <1>3 DEF QueuesDistinct
  <2>2. /\ \A f : InEntries(ongoingJpegQ', f) <=> InEntries(ongoingJpegQ, f) \/ f = h
        /\ DistinctEntries(ongoingJpegQ')
    BY <1>2, <1>3, <1>5, <1>6, <2>1, EntriesAppend
  <2>3. /\ ongoingJpegQ' \in Seq(Entries) /\ ongoingJpegQ' # <<>>
        /\ ongoingJpegQ'[Len(ongoingJpegQ')] = [frame |-> h, job |-> 0]
    BY <1>2, <1>3, <1>6, AppendProperties
  <2> QED
    BY <2>2, <2>3
<1>8. ProcTypes'
  <2>1. cmds' \in Seq({"START", "STOP", "NEXT", "EXIT"})
    BY <1>1 DEF Inv, Types, ProcTypes
  <2>2. h \in 0..arrived
    BY <1>3, <1>4
  <2> QED
    BY <1>1, <1>2, <1>4, <1>7, <2>1, <2>2 DEF Inv, Types, ProcTypes, Entries
<1>9. FrameInv'
  <2>1. QueuesDistinct'
    BY <1>2, <1>3, <1>4, <1>7 DEF QueuesDistinct
  <2>2. \A f \in 1..arrived : Spots(f)' = 1
    BY <1>1, <1>2, <1>3, <1>4, <1>5, <1>7 DEF Spots, One, Canceled
  <2>3. InHand'
    BY <1>2, <1>7 DEF InHand
  <2> QED
    BY <1>2, <2>1, <2>2, <2>3 DEF FrameInv, FramesOnce
<1>10. \A f \in 1..arrived : Unstarted(f)' => Unstarted(f)
  BY <1>2, <1>4 DEF Unstarted
<1> QED
  BY <1>8, <1>9, <1>10

\* Every command keeps the invariant.
LEMMA CommandStep == Inv /\ Command => Inv'
<1> SUFFICES ASSUME Inv, Command PROVE Inv'
  OBVIOUS
<1>1. /\ proc.at = "idle" /\ UNCHANGED <<pic, jpegSession, newSession>> /\ UNCHANGED jpegVars
      /\ CommandLooks \/ CommandDrops \/ CommandEncodes
  BY CommandKinds
<1>2. ProcTypes' /\ FrameInv' /\ \A f \in 1..arrived : Unstarted(f)' => Unstarted(f)
  BY <1>1, CommandLooksStep, CommandDropsStep, CommandEncodesStep
<1>3. arrived' = arrived /\ proc'.at \in {"idle", "cancel", "exited", "reproc", "encode"}
  BY <1>1 DEF CommandLooks, CommandDrops, CommandEncodes, frameVars
<1>4. ~Shut
  BY <1>1 DEF Inv, HandleInv, Slots
<1>5. JobTypes' /\ LockTypes' /\ RoomLeft' /\ JobInv' /\ HandleInv'
  BY <1>1, <1>2, <1>3, <1>4, JpegKept DEF Shut
<1>6. HasSession'
  BY <1>1, <1>3 DEF Inv, HasSession
<1> QED
  BY <1>2, <1>5, <1>6 DEF Inv, Types

\* InAppend for a queue of frames.
LEMMA FrameAppended ==
  ASSUME NEW n, NEW q \in Seq(1..n), NEW f \in 1..n
  PROVE  /\ Append(q, f) \in Seq(1..n)
         /\ \A g : InQueue(Append(q, f), g) <=> InQueue(q, g) \/ g = f
         /\ Distinct(q) /\ ~InQueue(q, f) => Distinct(Append(q, f))
<1> DEFINE S == 1..n
<1>1. q \in Seq(S) /\ f \in S
  OBVIOUS
<1> HIDE DEF S
<1>2. /\ Append(q, f) \in Seq(S)
      /\ \A g : InQueue(Append(q, f), g) <=> InQueue(q, g) \/ g = f
      /\ Distinct(q) /\ ~InQueue(q, f) => Distinct(Append(q, f))
  BY <1>1, InAppend
<1> QED
  BY <1>2 DEF S

\* The head of the frames to reprocess goes to the reprocess channel, or is given back.
LEMMA ReprocessStep == Inv /\ Reprocess => Inv'
<1> SUFFICES ASSUME Inv, Reprocess PROVE Inv'
  OBVIOUS
<1>1. /\ proc.at = "reproc" /\ proc' = [at |-> "idle", frame |-> 0]
      /\ inputPPQ' = Rest(inputPPQ)
      /\ UNCHANGED <<pic, cmds, inputJpegQ, ongoingJpegQ, jpegSession, newSession, arrived, channel>>
      /\ UNCHANGED jpegVars
  BY DEF Reprocess, Goto
<1>2. /\ inputPPQ \in Seq(1..arrived) /\ ongoingPPQ \in Seq(1..arrived)
      /\ reprocessed \in Seq(1..arrived) /\ released \subseteq 1..arrived
      /\ QueuesDistinct /\ \A f \in 1..arrived : Spots(f) = 1
  BY DEF Inv, Types, ProcTypes, FrameInv, FramesOnce
<1>3. Distinct(inputPPQ) /\ Distinct(ongoingPPQ)
  BY <1>2 DEF QueuesDistinct
<1>4. /\ inputPPQ' \in Seq(1..arrived) /\ Distinct(inputPPQ')
      /\ Dropped(inputPPQ) \subseteq 1..arrived
      /\ \A f \in Dropped(inputPPQ) : InQueue(inputPPQ, f)
      /\ \A f : InQueue(inputPPQ', f) <=> InQueue(inputPPQ, f) /\ f \notin Dropped(inputPPQ)
  BY <1>1, <1>2, <1>3, RestFacts
<1>5. /\ ongoingPPQ' \in Seq(1..arrived) /\ reprocessed' \in Seq(1..arrived) /\ Distinct(ongoingPPQ')
      /\ \/ /\ released' = released \cup Dropped(inputPPQ) /\ ongoingPPQ' = ongoingPPQ
         \/ /\ released' = released
            /\ \A f : InQueue(ongoingPPQ', f) <=> InQueue(ongoingPPQ, f) \/ f \in Dropped(inputPPQ)
  <2>1. CASE inputPPQ = <<>>
    <3>1. UNCHANGED <<ongoingPPQ, reprocessed, released>> /\ Dropped(inputPPQ) = {}
      BY <2>1 DEF Reprocess, Dropped
    <3> QED
      BY <3>1, <1>2, <1>3
  <2>2. CASE inputPPQ # <<>>
    <3>0. PICK h : h = Head(inputPPQ)
      OBVIOUS
    <3>1. Dropped(inputPPQ) = {h}
      BY <2>2, <3>0 DEF Dropped
    <3>2. h \in 1..arrived /\ InQueue(inputPPQ, h)
      BY <1>4, <3>1
    <3>3. ~InQueue(ongoingPPQ, h)
      <4>1. Spots(h) = 1
        BY <1>2, <3>2
      <4> QED
        BY <4>1, <3>2 DEF Spots, One
    <3>4. CASE released' = released \cup {h} /\ UNCHANGED <<ongoingPPQ, reprocessed>>
      BY <3>1, <3>4, <1>2, <1>3
    <3>5. CASE /\ ongoingPPQ' = Append(ongoingPPQ, h) /\ reprocessed' = Append(reprocessed, h)
               /\ released' = released
      <4>1. /\ ongoingPPQ' \in Seq(1..arrived) /\ Distinct(ongoingPPQ')
            /\ \A f : InQueue(ongoingPPQ', f) <=> InQueue(ongoingPPQ, f) \/ f = h
        <5>1. ongoingPPQ \in Seq(1..arrived) /\ h \in 1..arrived
          BY <1>2, <3>2
        <5>2. /\ Append(ongoingPPQ, h) \in Seq(1..arrived)
              /\ \A f : InQueue(Append(ongoingPPQ, h), f) <=> InQueue(ongoingPPQ, f) \/ f = h
              /\ Distinct(ongoingPPQ) /\ ~InQueue(ongoingPPQ, h) => Distinct(Append(ongoingPPQ, h))
          BY <5>1, FrameAppended
        <5> QED
          BY <5>2, <1>3, <3>3, <3>5
      <4>2. reprocessed' \in Seq(1..arrived)
        BY <1>2, <3>2, <3>5, AppendProperties
      <4> QED
        BY <3>1, <3>5, <4>1, <4>2
    <3> QED
      BY <2>2, <3>0, <3>4, <3>5 DEF Reprocess, Release
  <2> QED
    BY <2>1, <2>2
<1>6. ProcTypes'
  <2>1. released' \subseteq 1..arrived
    BY <1>2, <1>4, <1>5
  <2>2. 0 \in 0..arrived
    BY DEF Inv, Types, ProcTypes
  <2> QED
    BY <1>1, <1>4, <1>5, <2>1, <2>2 DEF Inv, Types, ProcTypes, Entries
<1>7. FrameInv'
  <2>1. QueuesDistinct'
    BY <1>1, <1>2, <1>4, <1>5 DEF QueuesDistinct
  <2>2. \A f \in 1..arrived : Spots(f)' = 1
    BY <1>1, <1>2, <1>4, <1>5 DEF Spots, One, Canceled
  <2>3. InHand'
    BY <1>1 DEF InHand
  <2> QED
    BY <1>1, <2>1, <2>2, <2>3 DEF FrameInv, FramesOnce
<1>8. \A f \in 1..arrived : Unstarted(f)' => Unstarted(f)
  BY <1>1, <1>4, <1>5 DEF Unstarted
<1>9. ~Shut
  BY <1>1 DEF Inv, HandleInv, Slots
<1>10. JobTypes' /\ LockTypes' /\ RoomLeft' /\ JobInv' /\ HandleInv'
  BY <1>1, <1>8, <1>9, JpegKept DEF Shut
<1>11. HasSession'
  BY <1>1 DEF Inv, HasSession
<1> QED
  BY <1>6, <1>7, <1>10, <1>11 DEF Inv, Types

\* What a queue holds has the type of its elements.
LEMMA RangeType ==
  ASSUME NEW S, NEW q \in Seq(S)
  PROVE  Range(q) \subseteq S
<1>1. \A k \in DOMAIN q : q[k] \in S
  OBVIOUS
<1> QED
  BY <1>1 DEF Range

\* What is in the queues of the post-processor is given back together.
LEMMA FlushStep == Inv /\ Flush => Inv'
<1> SUFFICES ASSUME Inv, Flush PROVE Inv'
  OBVIOUS
<1>1. /\ proc.at = "flush" /\ proc' = [at |-> "flag", frame |-> 0]
      /\ reprocessed' = <<>> /\ ongoingPPQ' = <<>> /\ inputJpegQ' = <<>> /\ inputPPQ' = <<>>
      /\ released' = released \cup (Range(ongoingPPQ) \cup Range(inputJpegQ) \cup Range(inputPPQ))
      /\ UNCHANGED <<pic, cmds, ongoingJpegQ, jpegSession, newSession, arrived, channel>>
      /\ UNCHANGED jpegVars
  BY DEF Flush, Goto, Release
<1>2. /\ inputPPQ \in Seq(1..arrived) /\ ongoingPPQ \in Seq(1..arrived)
      /\ inputJpegQ \in Seq(1..arrived) /\ released \subseteq 1..arrived
      /\ QueuesDistinct /\ \A f \in 1..arrived : Spots(f) = 1
  BY DEF Inv, Types, ProcTypes, FrameInv, FramesOnce
<1>3. \A f : f \in released' <=>
        f \in released \/ InQueue(ongoingPPQ, f) \/ InQueue(inputJpegQ, f) \/ InQueue(inputPPQ, f)
  BY <1>1 DEF Range, InQueue
<1>4. \A f : ~InQueue(ongoingPPQ', f) /\ ~InQueue(inputJpegQ', f) /\ ~InQueue(inputPPQ', f)
  BY <1>1 DEF InQueue
<1>5. released' \subseteq 1..arrived
  <2>1. Range(ongoingPPQ) \subseteq 1..arrived /\ Range(inputJpegQ) \subseteq 1..arrived
        /\ Range(inputPPQ) \subseteq 1..arrived
    BY <1>2, RangeType
  <2> QED
    BY <1>1, <1>2, <2>1
<1>6. ProcTypes'
  <2>1. 0 \in 0..arrived
    BY DEF Inv, Types, ProcTypes
  <2> QED
    BY <1>1, <1>5, <2>1 DEF Inv, Types, ProcTypes, Entries
<1>7. FrameInv'
  <2>1. QueuesDistinct'
    BY <1>1, <1>2 DEF QueuesDistinct, Distinct
  <2>2. ASSUME NEW f \in 1..arrived PROVE Spots(f)' = 1
    <3>1. Spots(f) = 1 /\ ~Canceled(f) /\ ~Canceled(f)'
      BY <1>1, <1>2 DEF Canceled
    <3>2. InEntries(ongoingJpegQ', f) <=> InEntries(ongoingJpegQ, f)
      BY <1>1
    <3> QED
      BY <1>3, <1>4, <3>1, <3>2 DEF Spots, One
  <2>3. InHand'
    BY <1>1 DEF InHand
  <2> QED
    BY <1>1, <2>1, <2>2, <2>3 DEF FrameInv, FramesOnce
<1>8. \A f \in 1..arrived : Unstarted(f)' => Unstarted(f)
  BY <1>1, <1>4 DEF Unstarted
<1>9. ~Shut
  BY <1>1 DEF Inv, HandleInv, Slots
<1>10. JobTypes' /\ LockTypes' /\ RoomLeft' /\ JobInv' /\ HandleInv'
  BY <1>1, <1>8, <1>9, JpegKept DEF Shut
<1>11. HasSession'
  BY <1>1 DEF Inv, HasSession
<1> QED
  BY <1>6, <1>7, <1>10, <1>11 DEF Inv, Types

\* Telling the next picture to create a session moves nothing.
LEMMA FlagStep == Inv /\ Flag => Inv'
<1> SUFFICES ASSUME Inv, Flag PROVE Inv'
  OBVIOUS
<1>1. /\ proc.at = "flag" /\ proc' = [at |-> "idle", frame |-> 0] /\ newSession' = TRUE
      /\ UNCHANGED frameVars /\ UNCHANGED <<pic, cmds, jpegSession, channel, reprocessed>>
      /\ UNCHANGED jpegVars
  BY DEF Flag, Goto, frameVars
<1>2. arrived' = arrived
  BY <1>1 DEF frameVars
<1>3. ProcTypes'
  <2>1. 0 \in 0..arrived
    BY DEF Inv, Types, ProcTypes
  <2> QED
    BY <1>1, <2>1 DEF Inv, Types, ProcTypes, Entries, frameVars
<1>4. FrameInv'
  <2>1. FramesOnce'
    BY <1>1, FramesKept DEF Inv, FrameInv, Canceled
  <2> QED
    BY <1>1, <2>1 DEF FrameInv, InHand
<1>5. \A f \in 1..arrived : Unstarted(f)' => Unstarted(f)
  BY <1>1, UnstartedKept DEF frameVars
<1>6. ~Shut
  BY <1>1 DEF Inv, HandleInv, Slots
<1>7. JobTypes' /\ LockTypes' /\ RoomLeft' /\ JobInv' /\ HandleInv'
  BY <1>1, <1>2, <1>5, <1>6, JpegKept DEF Shut
<1>8. HasSession'
  BY <1>1 DEF HasSession
<1> QED
  BY <1>3, <1>4, <1>7, <1>8 DEF Inv, Types
-----------------------------------------------------------------------------
(* A new session. *)

\* A set of numbers has a least one.
LEMMA LeastOf ==
  ASSUME NEW S, S \subseteq Nat, S # {}
  PROVE  \E x \in S : \A y \in S : x <= y
<1>1. PICK x \in S : \A y \in S : ~(<<y, x>> \in OpToRel(<, Nat))
  BY NatLessThanWellFounded, WFMin
<1>2. \A y \in S : x <= y
  <2> SUFFICES ASSUME NEW y \in S PROVE x <= y
    OBVIOUS
  <2>1. x \in Nat /\ y \in Nat
    OBVIOUS
  <2>2. ~(y < x)
    BY <1>1, <2>1, Zenon DEF OpToRel
  <2> QED
    BY <2>1, <2>2
<1> QED
  BY <1>2

\* The session that is created is an inactive one.
LEMMA NewSessionInactive ==
  ASSUME Inactive # {}
  PROVE  NewSession \in Sessions /\ ~session[NewSession].active /\ NewSession # 0
<1>1. Inactive \subseteq Nat /\ Inactive \subseteq Sessions
  BY SessionsNat DEF Inactive
<1>2. \E x \in Inactive : \A y \in Inactive : x <= y
  BY <1>1, LeastOf
<1>3. NewSession \in Inactive
  BY <1>2 DEF NewSession, Min
<1>4. NewSession # 0
  BY <1>1, <1>3, SessionsNat
<1> QED
  BY <1>3, <1>4 DEF Inactive

\* All handles of a new session are free, and execute nothing.
LEMMA SessionCreated ==
  ASSUME Inv, NEW s \in Sessions, ~session[s].active, CreateSession(s), ~Shut, ~Shut',
         UNCHANGED <<jobQueue, ongoingJobs, jobSem, jobLock, mgr, aborting, events, arrived>>,
         \A f \in 1..arrived : Unstarted(f)' => Unstarted(f)
  PROVE  JobTypes' /\ LockTypes' /\ RoomLeft' /\ JobInv' /\ HandleInv'
<1> DEFINE all == [i \in HandleIds |-> i]
           new == [NoHandle EXCEPT !.omx = "exec"]
<1>1. /\ session' = [session EXCEPT ![s] = [active |-> TRUE, free |-> all]]
      /\ handle' = [handle EXCEPT ![s] = [i \in HandleIds |-> new]]
  BY DEF CreateSession
<1>2. /\ session \in [Sessions -> [active : BOOLEAN, free : Seq(HandleIds)]]
      /\ handle \in [Sessions -> [HandleIds -> HandleTypes]]
      /\ arrived \in Nat
  BY DEF Inv, Types, JobTypes, ProcTypes
<1>3. all \in Seq(HandleIds) /\ Distinct(all) /\ \A i \in HandleIds : InQueue(all, i)
  <2>1. Handles \in Nat /\ HandleIds = 1..Handles
    BY JpegAssumption DEF HandleIds
  <2>2. all \in Seq(HandleIds)
    BY <2>1
  <2>3. DOMAIN all = HandleIds /\ \A i \in HandleIds : all[i] = i
    OBVIOUS
  <2> HIDE DEF all
  <2> QED
    BY <2>2, <2>3 DEF Distinct, InQueue
<1>4. new \in HandleTypes /\ new.encoding = FALSE /\ new.frame = 0 /\ new.omx = "exec"
  <2>1. NoHandle \in HandleTypes /\ NoHandle.encoding = FALSE /\ NoHandle.frame = 0
    BY <1>2 DEF HandleTypes, Components, NoHandle
  <2> QED
    BY <2>1 DEF HandleTypes, Components
<1> HIDE DEF all, new
<1>5. /\ session'[s].active /\ session'[s].free = all
      /\ \A t \in Sessions \ {s} : session'[t] = session[t]
  BY <1>1, <1>2
<1>6. /\ \A i \in HandleIds : handle'[s][i] = new
      /\ \A t \in Sessions \ {s} : handle'[t] = handle[t]
  BY <1>1, <1>2
<1>7. \A t \in Sessions, i \in HandleIds :
        \/ t = s /\ Free(t, i)' /\ handle'[t][i] = new
        \/ t # s /\ (Free(t, i)' <=> Free(t, i)) /\ handle'[t][i] = handle[t][i]
  BY <1>3, <1>5, <1>6 DEF Free
<1>8. mgr.at \in {"empty", "fill"} =>
        /\ mgr.session \in Sessions \ {s} /\ mgr.handle \in HandleIds
        /\ handle'[mgr.session][mgr.handle] = handle[mgr.session][mgr.handle]
        /\ session'[mgr.session] = session[mgr.session]
        /\ Free(mgr.session, mgr.handle)' <=> Free(mgr.session, mgr.handle)
  <2> SUFFICES ASSUME mgr.at \in {"empty", "fill"}
               PROVE  /\ mgr.session \in Sessions \ {s} /\ mgr.handle \in HandleIds
                      /\ handle'[mgr.session][mgr.handle] = handle[mgr.session][mgr.handle]
                      /\ session'[mgr.session] = session[mgr.session]
                      /\ Free(mgr.session, mgr.handle)' <=> Free(mgr.session, mgr.handle)
    OBVIOUS
  <2>1. session[mgr.session].active
    BY DEF Inv, HandleInv, Slots
  <2>2. mgr.session \in Sessions \ {s} /\ mgr.handle \in HandleIds
    BY <2>1 DEF Inv, Types, LockTypes
  <2>3. session'[mgr.session] = session[mgr.session] /\ handle'[mgr.session] = handle[mgr.session]
    BY <2>2, <1>5, <1>6
  <2> QED
    BY <2>2, <2>3 DEF Free
<1>9. JobTypes'
  <2>1. session' \in [Sessions -> [active : BOOLEAN, free : Seq(HandleIds)]]
    BY <1>1, <1>2, <1>3
  <2>2. handle' \in [Sessions -> [HandleIds -> HandleTypes]]
    BY <1>1, <1>2, <1>4
  <2> QED
    BY <2>1, <2>2 DEF Inv, Types, JobTypes, Jobs, Reports, HandleTypes
<1>10. LockTypes' /\ RoomLeft'
  BY DEF Inv, Types, LockTypes, RoomLeft
<1>11. JobInv'
  <2>1. HandleFrames'
    BY <1>4, <1>7, <1>8 DEF Inv, JobInv, HandleFrames
  <2>2. \A t \in Sessions, i \in HandleIds : handle'[t][i].frame \in {handle[t][i].frame, 0}
    BY <1>4, <1>7
  <2>3. JobsOnce' /\ HandleJobs' /\ FreshFrames'
    BY <2>2, JobsKept DEF Inv, JobInv, JobsOnce
  <2> QED
    BY <2>1, <2>3 DEF JobInv
<1>12. HandleInv'
  <2>1. FreeOnce'
    BY <1>3, <1>5 DEF Inv, HandleInv, FreeOnce
  <2>2. Encodes'
    BY <1>4, <1>7 DEF Inv, HandleInv, Encodes
  <2>3. NotFree'
    BY <1>5, <1>7 DEF Inv, HandleInv, NotFree
  <2>4. MgrHolds'
    BY <1>8 DEF Inv, HandleInv, MgrHolds
  <2>5. Slots'
    BY <1>5, <1>7, <1>8 DEF Inv, HandleInv, Slots
  <2> QED
    BY <2>1, <2>2, <2>3, <2>4, <2>5 DEF HandleInv
<1> QED
  BY <1>9, <1>10, <1>11, <1>12

\* A capture creates its session, and needs none of what was there before.
LEMMA StartStep == ASSUME NEW kind \in Pictures PROVE Inv /\ Start(kind) => Inv'
<1> SUFFICES ASSUME Inv, Start(kind) PROVE Inv'
  OBVIOUS
<1>1. /\ pic.at = "off" /\ pic' = [at |-> "on", kind |-> kind]
      /\ UNCHANGED frameVars /\ UNCHANGED <<proc, reprocessed, channel>>
      /\ UNCHANGED <<jobQueue, ongoingJobs, jobSem, jobLock, mgr, aborting, events>>
  BY DEF Start, frameVars
<1>2. ~Shut /\ ~Shut' /\ arrived' = arrived
  BY <1>1 DEF Shut, frameVars
<1>3. \A f \in 1..arrived : Unstarted(f)' => Unstarted(f)
  BY <1>1, UnstartedKept DEF frameVars
<1>4. FrameInv'
  BY <1>1, FrameInvKept DEF Inv
<1>5. /\ jpegSession' \in Sessions \cup {0}
      /\ JobTypes' /\ LockTypes' /\ RoomLeft' /\ JobInv' /\ HandleInv' /\ HasSession'
  <2>1. CASE kind.capture
    <3>1. /\ Inactive # {} /\ CreateSession(NewSession)
          /\ jpegSession' = NewSession /\ newSession' = FALSE
      BY <2>1 DEF Start
    <3>2. NewSession \in Sessions /\ ~session[NewSession].active /\ NewSession # 0
      BY <3>1, NewSessionInactive
    <3>3. JobTypes' /\ LockTypes' /\ RoomLeft' /\ JobInv' /\ HandleInv'
      BY <1>1, <1>2, <1>3, <3>1, <3>2, SessionCreated
    <3>4. HasSession'
      BY <3>1, <3>2 DEF HasSession
    <3> QED
      BY <3>1, <3>2, <3>3, <3>4
  <2>2. CASE ~kind.capture
    <3>1. UNCHANGED <<session, handle, jpegSession, newSession>>
      BY <2>2 DEF Start
    <3>2. UNCHANGED jpegVars
      BY <1>1, <3>1 DEF jpegVars
    <3>3. JobTypes' /\ LockTypes' /\ RoomLeft' /\ JobInv' /\ HandleInv'
      BY <1>2, <1>3, <3>2, JpegKept
    <3>4. HasSession'
      BY <1>1, <3>1 DEF Inv, HasSession
    <3> QED
      BY <3>1, <3>3, <3>4 DEF Inv, Types, ProcTypes
  <2> QED
    BY <2>1, <2>2
<1>6. ProcTypes'
  <2>1. cmds' \in Seq({"START", "STOP", "NEXT", "EXIT"})
    BY CmdTypes DEF Inv, Types, ProcTypes, Start, Send
  <2>2. pic' \in [at : {"off", "on", "stopping", "closing", "joining", "releasing", "closed"},
                  kind : Pictures \cup {NoPicture}]
    BY <1>1
  <2> QED
    BY <1>1, <1>5, <2>1, <2>2 DEF Inv, Types, ProcTypes, Entries, frameVars
<1> QED
  BY <1>4, <1>5, <1>6 DEF Inv, Types
-----------------------------------------------------------------------------
(* The data processing thread: the encoder. *)

\* The frame in hand came, is the last ongoing one and in no other place.
LEMMA HandFacts ==
  ASSUME Inv, proc.at \in {"encode", "start", "store"}
  PROVE  /\ proc.frame \in 1..arrived
         /\ ongoingJpegQ # <<>> /\ ongoingJpegQ[Len(ongoingJpegQ)].frame = proc.frame
         /\ InEntries(ongoingJpegQ, proc.frame) /\ proc.frame \notin released
         /\ ~InQueue(inputPPQ, proc.frame) /\ ~InQueue(ongoingPPQ, proc.frame)
         /\ ~InQueue(inputJpegQ, proc.frame)
<1>1. ongoingJpegQ # <<>> /\ ongoingJpegQ[Len(ongoingJpegQ)] = [frame |-> proc.frame, job |-> 0]
  BY DEF Inv, FrameInv, InHand
<1>2. ongoingJpegQ \in Seq(Entries) /\ DistinctEntries(ongoingJpegQ)
  BY DEF Inv, Types, ProcTypes, FrameInv, FramesOnce, QueuesDistinct
<1>3. Len(ongoingJpegQ) \in DOMAIN ongoingJpegQ
  BY <1>1, <1>2
<1>4. ongoingJpegQ[Len(ongoingJpegQ)] \in Entries
  BY <1>2, <1>3
<1>5. proc.frame \in 1..arrived
  BY <1>1, <1>4 DEF Entries
<1>6. InEntries(ongoingJpegQ, proc.frame)
  BY <1>1, <1>3 DEF InEntries
<1>7. Spots(proc.frame) = 1
  BY <1>5 DEF Inv, FrameInv, FramesOnce
<1> QED
  BY <1>1, <1>5, <1>6, <1>7 DEF Spots, One

\* encodeData takes the job that it refuses back: the last ongoing one is its own.
LEMMA EncodeFails ==
  ASSUME Inv, proc.at = "encode", ongoingJpegQ' = TakenBack(ongoingJpegQ),
         released' = released \cup {proc.frame}, proc' = [at |-> "reproc", frame |-> 0],
         UNCHANGED <<inputPPQ, ongoingPPQ, inputJpegQ, arrived>>
  PROVE  /\ ongoingJpegQ' \in Seq(Entries) /\ released' \subseteq 1..arrived
         /\ FrameInv'
<1>0. PICK h : h = proc.frame
  OBVIOUS
<1>1. /\ h \in 1..arrived
      /\ ongoingJpegQ # <<>> /\ ongoingJpegQ[Len(ongoingJpegQ)].frame = h
      /\ InEntries(ongoingJpegQ, h) /\ h \notin released
      /\ ~InQueue(inputPPQ, h) /\ ~InQueue(ongoingPPQ, h) /\ ~InQueue(inputJpegQ, h)
  BY <1>0, HandFacts
<1>2. /\ ongoingJpegQ \in Seq(Entries) /\ released \subseteq 1..arrived
      /\ QueuesDistinct /\ \A f \in 1..arrived : Spots(f) = 1
  BY DEF Inv, Types, ProcTypes, FrameInv, FramesOnce
<1>3. /\ ongoingJpegQ' \in Seq(Entries) /\ DistinctEntries(ongoingJpegQ')
      /\ \A f : InEntries(ongoingJpegQ', f) <=> InEntries(ongoingJpegQ, f) /\ f # h
  <2>1. DistinctEntries(ongoingJpegQ)
    BY <1>2 DEF QueuesDistinct
  <2> QED
    BY <1>1, <1>2, <2>1, EntriesFront DEF TakenBack
<1>4. released' \subseteq 1..arrived
  BY <1>0, <1>1, <1>2
<1>5. QueuesDistinct'
  BY <1>2, <1>3 DEF QueuesDistinct
<1>6. \A f \in 1..arrived : Spots(f)' = 1
  BY <1>0, <1>1, <1>2, <1>3 DEF Spots, One, Canceled
<1>7. InHand'
  BY DEF InHand
<1> QED
  BY <1>3, <1>4, <1>5, <1>6, <1>7 DEF FrameInv, FramesOnce

\* encodeData either gives the frame back or creates the session it needs.
LEMMA EncodeStep == Inv /\ Encode => Inv'
<1> SUFFICES ASSUME Inv, Encode PROVE Inv'
  OBVIOUS
<1>1. /\ proc.at = "encode"
      /\ UNCHANGED <<pic, cmds, inputPPQ, ongoingPPQ, inputJpegQ, reprocessed, arrived, channel>>
      /\ UNCHANGED <<jobQueue, ongoingJobs, jobSem, jobLock, mgr, aborting, events>>
  BY DEF Encode
<1>2. ~Shut /\ ~Shut'
  BY <1>1 DEF Inv, HandleInv, Slots, Shut
<1>3. CASE /\ ongoingJpegQ' = TakenBack(ongoingJpegQ) /\ Release({proc.frame}) /\ Goto("reproc", 0)
           /\ UNCHANGED <<session, handle, jpegSession, newSession>>
  <2>1. /\ proc' = [at |-> "reproc", frame |-> 0] /\ released' = released \cup {proc.frame}
        /\ UNCHANGED jpegVars
    BY <1>1, <1>3 DEF Goto, Release, jpegVars
  <2>2. ongoingJpegQ' \in Seq(Entries) /\ released' \subseteq 1..arrived /\ FrameInv'
    BY <1>1, <1>3, <2>1, EncodeFails
  <2>3. ProcTypes'
    <3>1. 0 \in 0..arrived
      BY DEF Inv, Types, ProcTypes
    <3> QED
      BY <1>1, <1>3, <2>1, <2>2, <3>1 DEF Inv, Types, ProcTypes, Entries
  <2>4. \A f \in 1..arrived : Unstarted(f)' => Unstarted(f)
    BY <1>1, <2>1, UnstartedKept
  <2>5. JobTypes' /\ LockTypes' /\ RoomLeft' /\ JobInv' /\ HandleInv'
    BY <1>1, <1>2, <2>1, <2>4, JpegKept
  <2>6. HasSession'
    BY <1>1, <1>3, <2>1 DEF Inv, HasSession
  <2> QED
    BY <2>2, <2>3, <2>5, <2>6 DEF Inv, Types
<1>4. CASE /\ IF newSession
              THEN /\ Inactive # {} /\ CreateSession(NewSession)
                   /\ jpegSession' = NewSession /\ newSession' = FALSE
              ELSE UNCHANGED <<session, handle, jpegSession, newSession>>
           /\ Goto("start", proc.frame) /\ UNCHANGED <<ongoingJpegQ, released>>
  <2>1. /\ proc' = [at |-> "start", frame |-> proc.frame] /\ UNCHANGED frameVars
    BY <1>1, <1>4 DEF Goto, frameVars
  <2>2. \A f \in 1..arrived : Unstarted(f)' => Unstarted(f)
    BY <1>1, <2>1, UnstartedKept
  <2>3. FrameInv'
    <3>1. FramesOnce'
      BY <1>1, <2>1, FramesKept DEF Inv, FrameInv, Canceled
    <3>2. InHand'
      BY <1>1, <2>1 DEF Inv, FrameInv, InHand, frameVars
    <3> QED
      BY <3>1, <3>2 DEF FrameInv
  <2>4. /\ jpegSession' \in Sessions /\ jpegSession' # 0 /\ newSession' = FALSE
        /\ JobTypes' /\ LockTypes' /\ RoomLeft' /\ JobInv' /\ HandleInv'
    <3>1. CASE newSession
      <4>1. /\ Inactive # {} /\ CreateSession(NewSession)
            /\ jpegSession' = NewSession /\ newSession' = FALSE
        BY <1>4, <3>1
      <4>2. NewSession \in Sessions /\ ~session[NewSession].active /\ NewSession # 0
        BY <4>1, NewSessionInactive
      <4>3. JobTypes' /\ LockTypes' /\ RoomLeft' /\ JobInv' /\ HandleInv'
        BY <1>1, <1>2, <2>2, <4>1, <4>2, SessionCreated
      <4> QED
        BY <4>1, <4>2, <4>3
    <3>2. CASE ~newSession
      <4>1. UNCHANGED <<session, handle, jpegSession, newSession>>
        BY <1>4, <3>2
      <4>2. UNCHANGED jpegVars
        BY <1>1, <4>1 DEF jpegVars
      <4>3. JobTypes' /\ LockTypes' /\ RoomLeft' /\ JobInv' /\ HandleInv'
        BY <1>1, <1>2, <2>2, <4>2, JpegKept
      <4>4. jpegSession # 0 /\ jpegSession \in Sessions
        BY <1>1, <3>2 DEF Inv, HasSession, Types, ProcTypes
      <4> QED
        BY <3>2, <4>1, <4>3, <4>4
    <3> QED
      BY <3>1, <3>2
  <2>5. ProcTypes'
    BY <1>1, <2>1, <2>4 DEF Inv, Types, ProcTypes, Entries, frameVars
  <2>6. HasSession'
    BY <2>4 DEF HasSession
  <2> QED
    BY <2>3, <2>4, <2>5, <2>6 DEF Inv, Types
<1> QED
  BY <1>3, <1>4 DEF Encode

\* The job of a frame is started once: it has none, and is in no queue from which it
\* could be taken again.
LEMMA EncodeStartsStep == Inv /\ EncodeStarts => Inv'
<1> SUFFICES ASSUME Inv, EncodeStarts PROVE Inv'
  OBVIOUS
<1>0. PICK h : h = proc.frame
  OBVIOUS
<1>1. /\ proc.at = "start" /\ proc' = [at |-> "store", frame |-> h]
      /\ jobQueue' = Append(jobQueue, Job(h, jpegSession)) /\ jobSem' = jobSem + 1
      /\ UNCHANGED frameVars /\ UNCHANGED <<pic, cmds, jpegSession, newSession, reprocessed, channel>>
      /\ UNCHANGED <<session, handle, ongoingJobs, jobLock, mgr, aborting, events>>
  BY <1>0 DEF EncodeStarts, StartJob, Goto, frameVars
<1>2. /\ h \in 1..arrived /\ arrived' = arrived
      /\ ~InQueue(inputPPQ, h) /\ ~InQueue(ongoingPPQ, h) /\ ~InQueue(inputJpegQ, h)
  BY <1>0, <1>1, HandFacts DEF frameVars
<1>3. jpegSession \in Sessions
  BY <1>1 DEF Inv, HasSession, Types, ProcTypes
<1>4. Fresh(h)
  BY <1>0, <1>1, <1>2 DEF Inv, JobInv, FreshFrames, Unstarted
<1>5. /\ jobQueue \in Seq(Jobs \cup {Exit}) /\ Job(h, jpegSession) \in Jobs \cup {Exit}
      /\ Job(h, jpegSession).type = "job" /\ Job(h, jpegSession).frame = h
  BY <1>2, <1>3 DEF Inv, Types, JobTypes, Jobs, Job
<1>6. jobQueue' \in Seq(Jobs \cup {Exit})
  BY <1>1, <1>5, AppendProperties
<1>7. /\ \A f : Queued(jobQueue', f) <=> Queued(jobQueue, f) \/ f = h
      /\ DistinctJobs(jobQueue')
  <2>1. DistinctJobs(jobQueue) /\ ~Queued(jobQueue, h)
    BY <1>4 DEF Inv, JobInv, JobsOnce, Fresh
  <2>2. \A f : OfFrame(Job(h, jpegSession), f) <=> f = h
    BY <1>5 DEF OfFrame
  <2> QED
    BY <1>1, <1>5, <2>1, <2>2, EntriesAppend
<1>8. ProcTypes'
  <2>1. h \in 0..arrived
    BY <1>2
  <2> QED
    BY <1>1, <2>1 DEF Inv, Types, ProcTypes, Entries, frameVars
<1>9. JobTypes'
  BY <1>1, <1>2, <1>6 DEF Inv, Types, JobTypes, Jobs, Reports, HandleTypes
<1>10. LockTypes' /\ RoomLeft'
  BY <1>1 DEF Inv, Types, LockTypes, RoomLeft
<1>11. FrameInv'
  <2>1. FramesOnce'
    BY <1>1, FramesKept DEF Inv, FrameInv, Canceled
  <2>2. InHand'
    BY <1>0, <1>1 DEF Inv, FrameInv, InHand, frameVars
  <2> QED
    BY <2>1, <2>2 DEF FrameInv
<1>12. JobInv'
  <2>1. HandleFrames'
    BY <1>1 DEF Inv, JobInv, HandleFrames
  <2>2. JobsOnce'
    BY <1>1, <1>2, <1>4, <1>7 DEF Inv, JobInv, JobsOnce, Fresh
  <2>3. HandleJobs'
    BY <1>1, <1>4, <1>7 DEF Inv, JobInv, HandleJobs, Fresh
  <2>4. \A f \in 1..arrived : Unstarted(f)' => Unstarted(f) /\ f # h
    BY <1>1, <1>2 DEF Unstarted, frameVars
  <2>5. FreshFrames'
    BY <1>1, <1>2, <1>7, <2>4 DEF Inv, JobInv, FreshFrames, Fresh
  <2> QED
    BY <2>1, <2>2, <2>3, <2>5 DEF JobInv
<1>13. HandleInv'
  <2>1. ~Shut
    BY <1>1 DEF Inv, HandleInv, Slots
  <2> QED
    BY <1>1, <2>1, HandleInvKept DEF Inv, handleVars, Shut
<1>14. HasSession'
  BY <1>1 DEF Inv, HasSession
<1> QED
  BY <1>8, <1>9, <1>10, <1>11, <1>12, <1>13, <1>14 DEF Inv, Types

\* Storing the job id changes no frame's place, and ends what the thread had in hand.
LEMMA EncodeStoresStep == Inv /\ EncodeStores => Inv'
<1> SUFFICES ASSUME Inv, EncodeStores PROVE Inv'
  OBVIOUS
<1>1. /\ proc.at = "store" /\ proc' = [at |-> "reproc", frame |-> 0]
      /\ ongoingJpegQ' = [k \in DOMAIN ongoingJpegQ |->
           IF ongoingJpegQ[k].frame = proc.frame
           THEN [ongoingJpegQ[k] EXCEPT !.job = proc.frame] ELSE ongoingJpegQ[k]]
      /\ UNCHANGED <<inputPPQ, ongoingPPQ, inputJpegQ, released, arrived>>
      /\ UNCHANGED <<pic, cmds, jpegSession, newSession, reprocessed, channel>>
      /\ UNCHANGED jpegVars
  BY DEF EncodeStores, Goto
<1>2. /\ ongoingJpegQ \in Seq(Entries) /\ proc.frame \in 0..arrived
      /\ QueuesDistinct /\ \A f \in 1..arrived : Spots(f) = 1
  BY DEF Inv, Types, ProcTypes, FrameInv, FramesOnce
<1>3. \A k \in DOMAIN ongoingJpegQ : ongoingJpegQ[k] \in Entries
  BY <1>2
<1>4. DOMAIN ongoingJpegQ' = DOMAIN ongoingJpegQ
  BY <1>1
<1>5. \A k \in DOMAIN ongoingJpegQ :
        ongoingJpegQ'[k] \in Entries /\ ongoingJpegQ'[k].frame = ongoingJpegQ[k].frame
  <2> SUFFICES ASSUME NEW k \in DOMAIN ongoingJpegQ
               PROVE  ongoingJpegQ'[k] \in Entries /\ ongoingJpegQ'[k].frame = ongoingJpegQ[k].frame
    OBVIOUS
  <2>1. \/ ongoingJpegQ'[k] = [ongoingJpegQ[k] EXCEPT !.job = proc.frame]
        \/ ongoingJpegQ'[k] = ongoingJpegQ[k]
    BY <1>1
  <2> QED
    BY <1>2, <1>3, <2>1 DEF Entries
<1>6. ongoingJpegQ' \in Seq(Entries)
  <2>1. DOMAIN ongoingJpegQ = 1..Len(ongoingJpegQ) /\ Len(ongoingJpegQ) \in Nat
    BY <1>2
  <2>2. ongoingJpegQ' \in [1..Len(ongoingJpegQ) -> Entries]
    BY <1>1, <1>5, <2>1
  <2> QED
    BY <2>1, <2>2, SeqDef
<1>7. \A f : InEntries(ongoingJpegQ', f) <=> InEntries(ongoingJpegQ, f)
  BY <1>4, <1>5 DEF InEntries
<1>8. DistinctEntries(ongoingJpegQ')
  BY <1>2, <1>4, <1>5 DEF DistinctEntries, QueuesDistinct
<1>9. ProcTypes'
  <2>1. 0 \in 0..arrived
    BY DEF Inv, Types, ProcTypes
  <2> QED
    BY <1>1, <1>6, <2>1 DEF Inv, Types, ProcTypes, Entries
<1>10. FrameInv'
  <2>1. QueuesDistinct'
    BY <1>1, <1>2, <1>8 DEF QueuesDistinct
  <2>2. \A f \in 1..arrived : Spots(f)' = 1
    BY <1>1, <1>2, <1>7 DEF Spots, One, Canceled
  <2>3. InHand'
    BY <1>1 DEF InHand
  <2> QED
    BY <1>1, <2>1, <2>2, <2>3 DEF FrameInv, FramesOnce
<1>11. \A f \in 1..arrived : Unstarted(f)' => Unstarted(f)
  BY <1>1, UnstartedKept
<1>12. ~Shut
  BY <1>1 DEF Inv, HandleInv, Slots
<1>13. JobTypes' /\ LockTypes' /\ RoomLeft' /\ JobInv' /\ HandleInv'
  BY <1>1, <1>11, <1>12, JpegKept DEF Shut
<1>14. HasSession'
  BY <1>1 DEF Inv, HasSession
<1> QED
  BY <1>9, <1>10, <1>13, <1>14 DEF Inv, Types
-----------------------------------------------------------------------------
(* The data processing thread: stop. *)

\* A queue from which jobs have been removed.
LeftOf(w, q) == w = q \/ \E D : w = Without(q, D)

\* What is left of a job queue holds each job once at most.
LEMMA LeftJobs ==
  ASSUME NEW S, NEW q \in Seq(S), NEW w, LeftOf(w, q)
  PROVE  /\ w \in Seq(S) /\ Len(w) <= Len(q) /\ (DistinctJobs(q) => DistinctJobs(w))
         /\ \A f : Queued(w, f) => Queued(q, f)
<1>1. CASE w = q
  <2>1. Len(q) <= Len(q)
    BY LenProperties
  <2> QED
    BY <1>1, <2>1
<1>2. CASE w # q
  <2>1. PICK D : w = Without(q, D)
    BY <1>2 DEF LeftOf
  <2>2. w \in Seq(S) /\ Len(w) <= Len(q) /\ (DistinctJobs(q) => DistinctJobs(w))
    BY <2>1, WithoutFacts
  <2>3. \A f : Queued(w, f) => Queued(q, f)
    BY <2>1, RemovedJobs
  <2> QED
    BY <2>2, <2>3
<1> QED
  BY <1>1, <1>2

\* The removal of jobs, while the manager does not hold a handle.
LEMMA JobsLeft ==
  ASSUME Inv, LeftOf(jobQueue', jobQueue), LeftOf(ongoingJobs', ongoingJobs),
         UNCHANGED <<session, handle, jobSem, mgr, events, arrived>>,
         mgr.at = "empty" => ongoingJobs' = ongoingJobs,
         \A f \in 1..arrived : Unstarted(f)' => Unstarted(f),
         Shut' <=> Shut, Shut => proc'.at = proc.at
  PROVE  JobTypes' /\ RoomLeft' /\ JobInv' /\ HandleInv'
<1>1. /\ jobQueue \in Seq(Jobs \cup {Exit}) /\ ongoingJobs \in Seq(Jobs)
      /\ DistinctJobs(jobQueue) /\ DistinctJobs(ongoingJobs)
  BY DEF Inv, Types, JobTypes, JobInv, JobsOnce
<1>2. /\ jobQueue' \in Seq(Jobs \cup {Exit}) /\ DistinctJobs(jobQueue')
      /\ \A f : Queued(jobQueue', f) => Queued(jobQueue, f)
  BY <1>1, LeftJobs
<1>3. /\ ongoingJobs' \in Seq(Jobs) /\ DistinctJobs(ongoingJobs')
      /\ Len(ongoingJobs') <= Len(ongoingJobs)
      /\ \A f : Queued(ongoingJobs', f) => Queued(ongoingJobs, f)
  BY <1>1, LeftJobs
<1>4. JobTypes'
  BY <1>2, <1>3 DEF Inv, Types, JobTypes, Jobs, Reports, HandleTypes
<1>5. RoomLeft'
  <2>1. Len(ongoingJobs) \in Nat /\ Len(ongoingJobs') \in Nat
    BY <1>1, <1>3, LenProperties
  <2> QED
    BY <1>3, <2>1, JpegAssumption DEF Inv, Types, RoomLeft
<1>6. JobInv'
  <2>1. JobsOnce' /\ HandleJobs' /\ FreshFrames'
    BY <1>2, <1>3, JobsKept DEF Inv
  <2>2. HandleFrames'
    BY DEF Inv, JobInv, HandleFrames
  <2> QED
    BY <2>1, <2>2 DEF JobInv
<1>7. HandleInv'
  BY HandleInvKept DEF Inv, handleVars
<1> QED
  BY <1>4, <1>5, <1>6, <1>7

\* The client begins an abort when nobody holds the lock, or when it has finished one.
LEMMA BeginAbortTypes ==
  ASSUME Inv, jobLock = "none" \/ aborting.at = "done", mgr' = mgr,
         NEW s \in Sessions, NEW i \in HandleIds, BeginAbort(s, i)
  PROVE  LockTypes' /\ mgr.at \notin {"empty", "fill"}
<1>1. LockTypes
  BY DEF Inv, Types
<1>2. mgr.at \notin {"empty", "fill"}
  BY <1>1 DEF LockTypes
<1>3. jobLock' = "client" /\ aborting' = [at |-> "next", session |-> s, handle |-> i]
  BY DEF BeginAbort
<1> QED
  BY <1>1, <1>2, <1>3 DEF LockTypes

\* What cancelling an ongoing JPEG job changes: it is aborted, or its frame is given back.
CancelAborts(e) ==
  /\ Queued(ongoingJobs, e.job)
  /\ ongoingJobs' = WithoutFrame(ongoingJobs, e.job)
  /\ BeginAbort((CHOOSE j \in Range(ongoingJobs) : OfFrame(j, e.job)).session, 1)
  /\ proc' = [at |-> "cancelWait", frame |-> e.frame]
  /\ UNCHANGED <<jobQueue, released>>
CancelGivesBack(e) ==
  /\ jobQueue' = WithoutFrame(jobQueue, e.job)
  /\ released' = released \cup {e.frame}
  /\ UNCHANGED <<proc, ongoingJobs, jobLock, aborting>>

\* The head of the ongoing JPEG jobs is in the hand of the thread, or given back.
LEMMA CancelFrames ==
  ASSUME Inv, proc.at = "cancel", ongoingJpegQ # <<>>, ongoingJpegQ' = Tail(ongoingJpegQ),
         UNCHANGED <<inputPPQ, ongoingPPQ, inputJpegQ, arrived>>,
         NEW e, e = Head(ongoingJpegQ),
         \/ proc' = [at |-> "cancelWait", frame |-> e.frame] /\ released' = released
         \/ proc' = proc /\ released' = released \cup {e.frame}
  PROVE  /\ e \in Entries /\ ongoingJpegQ' \in Seq(Entries) /\ released' \subseteq 1..arrived
         /\ FrameInv'
<1>0. PICK h : h = e.frame
  OBVIOUS
<1>1. /\ ongoingJpegQ \in Seq(Entries) /\ released \subseteq 1..arrived /\ arrived \in Nat
      /\ QueuesDistinct /\ \A f \in 1..arrived : Spots(f) = 1
  BY DEF Inv, Types, ProcTypes, FrameInv, FramesOnce
<1>2. e \in Entries /\ ongoingJpegQ' \in Seq(Entries)
  BY <1>1
<1>3. h \in 1..arrived
  BY <1>0, <1>2 DEF Entries
<1>4. /\ InEntries(ongoingJpegQ, h) /\ DistinctEntries(ongoingJpegQ')
      /\ \A f : InEntries(ongoingJpegQ', f) <=> InEntries(ongoingJpegQ, f) /\ f # h
  <2>1. DistinctEntries(ongoingJpegQ)
    BY <1>1 DEF QueuesDistinct
  <2> QED
    BY <1>0, <1>1, <2>1, EntriesTail
<1>5. released' \subseteq 1..arrived
  BY <1>0, <1>1, <1>3
<1>6. QueuesDistinct'
  BY <1>1, <1>4 DEF QueuesDistinct
<1>7. h \notin released
  <2>1. Spots(h) = 1
    BY <1>1, <1>3
  <2> QED
    BY <1>4, <2>1 DEF Spots, One
<1>8. \A f \in 1..arrived : Spots(f)' = 1
  BY <1>0, <1>1, <1>4, <1>7 DEF Spots, One, Canceled
<1>9. InHand'
  <2>1. h # 0
    BY <1>1, <1>3
  <2> QED
    BY <1>0, <2>1 DEF InHand
<1> QED
  BY <1>2, <1>5, <1>6, <1>8, <1>9 DEF FrameInv, FramesOnce

\* Cancelling: the job leaves its queue, and the frame is released, or stays with
\* the thread until the abort is over.
LEMMA CancelStep == Inv /\ Cancel => Inv'
<1> SUFFICES ASSUME Inv, Cancel PROVE Inv'
  OBVIOUS
<1>1. /\ proc.at = "cancel"
      /\ UNCHANGED <<pic, cmds, inputPPQ, ongoingPPQ, inputJpegQ, jpegSession, newSession>>
      /\ UNCHANGED <<reprocessed, arrived, channel, session, handle, jobSem, mgr, events>>
  BY DEF Cancel
<1>2. ~Shut /\ ~Shut'
  BY <1>1 DEF Inv, HandleInv, Slots, Shut
<1>3. CASE ongoingJpegQ = <<>>
  <2>1. /\ proc' = [at |-> "destroy", frame |-> 0]
        /\ UNCHANGED <<ongoingJpegQ, jobQueue, ongoingJobs, jobLock, aborting, released>>
    BY <1>3 DEF Cancel, Goto
  <2>2. UNCHANGED jpegVars /\ UNCHANGED frameVars
    BY <1>1, <2>1 DEF jpegVars, frameVars
  <2>3. ProcTypes'
    <3>1. 0 \in 0..arrived
      BY DEF Inv, Types, ProcTypes
    <3> QED
      BY <1>1, <2>1, <3>1 DEF Inv, Types, ProcTypes, Entries
  <2>4. FrameInv'
    <3>1. FramesOnce'
      BY <1>1, <2>1, <2>2, FramesKept DEF Inv, FrameInv, Canceled
    <3> QED
      BY <2>1, <3>1 DEF FrameInv, InHand
  <2>5. \A f \in 1..arrived : Unstarted(f)' => Unstarted(f)
    BY <1>1, <2>1, UnstartedKept
  <2>6. JobTypes' /\ LockTypes' /\ RoomLeft' /\ JobInv' /\ HandleInv'
    BY <1>1, <1>2, <2>2, <2>5, JpegKept
  <2>7. HasSession'
    BY <1>1, <2>1 DEF Inv, HasSession
  <2> QED
    BY <2>3, <2>4, <2>6, <2>7 DEF Inv, Types
<1>4. CASE ongoingJpegQ # <<>>
  <2>0. PICK e : e = Head(ongoingJpegQ)
    OBVIOUS
  <2>1. /\ jobLock = "none" /\ ongoingJpegQ' = Tail(ongoingJpegQ)
        /\ CancelAborts(e) \/ CancelGivesBack(e)
    BY <1>4, <2>0 DEF Cancel, CancelJob, CancelAborts, CancelGivesBack, Goto, Release
  <2>2. mgr.at \notin {"empty", "fill"}
    BY <2>1 DEF Inv, Types, LockTypes
  <2>3. /\ e \in Entries /\ ongoingJpegQ' \in Seq(Entries) /\ released' \subseteq 1..arrived
        /\ FrameInv'
    BY <1>1, <1>4, <2>0, <2>1, CancelFrames DEF CancelAborts, CancelGivesBack
  <2>4. proc' = proc \/ proc' = [at |-> "cancelWait", frame |-> e.frame]
    BY <2>1 DEF CancelAborts, CancelGivesBack
  <2>5. ProcTypes'
    <3>1. e.frame \in 0..arrived
      BY <2>3 DEF Entries, Inv, Types, ProcTypes
    <3> QED
      BY <1>1, <2>3, <2>4, <3>1 DEF Inv, Types, ProcTypes, Entries
  <2>6. \A f \in 1..arrived : Unstarted(f)' => Unstarted(f)
    BY <1>1, <2>4, UnstartedKept
  <2>7. LeftOf(jobQueue', jobQueue) /\ LeftOf(ongoingJobs', ongoingJobs)
    BY <2>1 DEF CancelAborts, CancelGivesBack, LeftOf, WithoutFrame
  <2>8. JobTypes' /\ RoomLeft' /\ JobInv' /\ HandleInv'
    BY <1>1, <1>2, <2>2, <2>6, <2>7, JobsLeft
  <2>9. LockTypes'
    <3>1. CASE CancelAborts(e)
      <4> DEFINE j == CHOOSE j \in Range(ongoingJobs) : OfFrame(j, e.job)
      <4>1. j \in Range(ongoingJobs)
        BY <3>1 DEF CancelAborts, Queued, Range
      <4>2. Range(ongoingJobs) \subseteq Jobs
        BY RangeType DEF Inv, Types, JobTypes
      <4>3. BeginAbort(j.session, 1)
        BY <3>1 DEF CancelAborts
      <4> HIDE DEF j
      <4>4. j.session \in Sessions /\ 1 \in HandleIds
        BY <4>1, <4>2, JpegAssumption DEF Jobs, HandleIds
      <4> QED
        BY <1>1, <2>1, <4>3, <4>4, BeginAbortTypes
    <3>2. CASE CancelGivesBack(e)
      BY <1>1, <3>2 DEF CancelGivesBack, Inv, Types, LockTypes
    <3> QED
      BY <2>1, <3>1, <3>2
  <2>10. HasSession'
    BY <1>1, <2>4 DEF Inv, HasSession
  <2> QED
    BY <2>3, <2>5, <2>8, <2>9, <2>10 DEF Inv, Types
<1> QED
  BY <1>3, <1>4

\* The frame of an aborted job goes from the thread to the released ones.
LEMMA CancelWaitStep == Inv /\ CancelWait => Inv'
<1> SUFFICES ASSUME Inv, CancelWait PROVE Inv'
  OBVIOUS
<1>0. PICK h : h = proc.frame
  OBVIOUS
<1>1. /\ proc.at = "cancelWait" /\ aborting.at = "done" /\ jobLock' = "none" /\ aborting' = NoAbort
      /\ released' = released \cup {h} /\ proc' = [at |-> "cancel", frame |-> 0]
      /\ UNCHANGED <<pic, cmds, inputPPQ, ongoingPPQ, inputJpegQ, ongoingJpegQ, jpegSession, newSession>>
      /\ UNCHANGED <<reprocessed, arrived, channel>>
      /\ UNCHANGED <<session, handle, jobQueue, ongoingJobs, jobSem, mgr, events>>
  BY <1>0 DEF CancelWait, Release, Goto
<1>2. ~Shut /\ ~Shut'
  BY <1>1 DEF Inv, HandleInv, Slots, Shut
<1>3. /\ h \in 1..arrived /\ Canceled(h)
  <2>1. h # 0 /\ h \in 0..arrived /\ arrived \in Nat
    BY <1>0, <1>1 DEF Inv, FrameInv, InHand, Types, ProcTypes
  <2> QED
    BY <1>0, <1>1, <2>1 DEF Canceled
<1>4. released' \subseteq 1..arrived
  BY <1>1, <1>3 DEF Inv, Types, ProcTypes
<1>5. ProcTypes'
  <2>1. 0 \in 0..arrived
    BY DEF Inv, Types, ProcTypes
  <2> QED
    BY <1>1, <1>4, <2>1 DEF Inv, Types, ProcTypes, Entries
<1>6. FrameInv'
  <2>1. QueuesDistinct'
    BY <1>1 DEF Inv, FrameInv, FramesOnce, QueuesDistinct
  <2>2. ASSUME NEW f \in 1..arrived PROVE Spots(f)' = 1
    <3>1. Spots(f) = 1
      BY DEF Inv, FrameInv, FramesOnce
    <3>2. (Canceled(f) <=> f = h) /\ ~Canceled(f)'
      BY <1>0, <1>1 DEF Canceled
    <3>3. /\ InQueue(inputPPQ, f)' <=> InQueue(inputPPQ, f)
          /\ InQueue(ongoingPPQ, f)' <=> InQueue(ongoingPPQ, f)
          /\ InQueue(inputJpegQ, f)' <=> InQueue(inputJpegQ, f)
          /\ InEntries(ongoingJpegQ, f)' <=> InEntries(ongoingJpegQ, f)
      BY <1>1 DEF InQueue, InEntries
    <3> QED
      BY <1>1, <3>1, <3>2, <3>3 DEF Spots, One
  <2>3. InHand'
    BY <1>1 DEF InHand
  <2> QED
    BY <1>1, <2>1, <2>2, <2>3 DEF FrameInv, FramesOnce
<1>7. \A f \in 1..arrived : Unstarted(f)' => Unstarted(f)
  BY <1>1, UnstartedKept
<1>8. JobTypes' /\ RoomLeft' /\ JobInv' /\ HandleInv'
  BY <1>1, <1>2, <1>7, JobsLeft DEF LeftOf
<1>9. LockTypes'
  BY <1>1 DEF Inv, Types, LockTypes, NoAbort
<1>10. HasSession'
  BY <1>1 DEF Inv, HasSession
<1> QED
  BY <1>5, <1>6, <1>8, <1>9, <1>10 DEF Inv, Types

\* destroy_session takes the session's jobs away and begins to abort its handles.
LEMMA DestroyStep == Inv /\ Destroy => Inv'
<1> SUFFICES ASSUME Inv, Destroy PROVE Inv'
  OBVIOUS
<1>1. /\ proc.at = "destroy" /\ UNCHANGED frameVars
      /\ UNCHANGED <<pic, cmds, jpegSession, newSession, reprocessed, channel>>
      /\ UNCHANGED <<session, handle, jobSem, mgr, events>>
  BY DEF Destroy, frameVars
<1>2. ~Shut /\ ~Shut' /\ arrived' = arrived
  BY <1>1 DEF Inv, HandleInv, Slots, Shut, frameVars
<1>3. \/ /\ proc' = [at |-> "flush", frame |-> 0]
         /\ UNCHANGED <<jobQueue, ongoingJobs, jobLock, aborting>>
      \/ /\ proc' = [at |-> "destroyWait", frame |-> 0]
         /\ jpegSession # 0 /\ jobLock = "none"
         /\ jobQueue' = WithoutSession(jobQueue, jpegSession)
         /\ ongoingJobs' = WithoutSession(ongoingJobs, jpegSession)
         /\ BeginAbort(jpegSession, 1)
  BY DEF Destroy, Goto
<1>4. proc'.at \in {"flush", "destroyWait"} /\ proc'.frame = 0
  BY <1>3
<1>5. ProcTypes'
  <2>1. 0 \in 0..arrived
    BY DEF Inv, Types, ProcTypes
  <2>2. proc' \in [at : {"idle", "encode", "start", "store", "reproc", "cancel", "cancelWait",
                         "destroy", "destroyWait", "flush", "flag", "exited"}, frame : 0..arrived]
    BY <1>3, <2>1
  <2> QED
    BY <1>1, <1>2, <2>1, <2>2 DEF Inv, Types, ProcTypes, Entries, frameVars
<1>6. FrameInv'
  <2>1. FramesOnce'
    BY <1>1, <1>4, FramesKept DEF Inv, FrameInv, Canceled
  <2> QED
    BY <1>4, <2>1 DEF FrameInv, InHand
<1>7. \A f \in 1..arrived : Unstarted(f)' => Unstarted(f)
  BY <1>1, <1>4, UnstartedKept DEF frameVars
<1>8. LeftOf(jobQueue', jobQueue) /\ LeftOf(ongoingJobs', ongoingJobs)
  BY <1>3 DEF LeftOf, WithoutSession
<1>9. LockTypes' /\ (mgr.at = "empty" => ongoingJobs' = ongoingJobs)
  <2>1. CASE UNCHANGED <<jobQueue, ongoingJobs, jobLock, aborting>>
    BY <1>1, <2>1 DEF Inv, Types, LockTypes
  <2>2. CASE jpegSession # 0 /\ jobLock = "none" /\ BeginAbort(jpegSession, 1)
    <3>1. jpegSession \in Sessions /\ 1 \in HandleIds
      BY <2>2, JpegAssumption DEF Inv, Types, ProcTypes, HandleIds
    <3> QED
      BY <1>1, <2>2, <3>1, BeginAbortTypes
  <2> QED
    BY <1>3, <2>1, <2>2
<1>10. JobTypes' /\ RoomLeft' /\ JobInv' /\ HandleInv'
  BY <1>1, <1>2, <1>7, <1>8, <1>9, JobsLeft
<1>11. HasSession'
  BY <1>1, <1>3, <1>4 DEF Inv, HasSession
<1> QED
  BY <1>5, <1>6, <1>9, <1>10, <1>11 DEF Inv, Types

\* The session that is destroyed has no jobs in the manager's hand, and its handles
\* name no frames any more.
LEMMA DestroyWaitStep == Inv /\ DestroyWait => Inv'
<1> SUFFICES ASSUME Inv, DestroyWait PROVE Inv'
  OBVIOUS
<1>0. PICK s : s = jpegSession
  OBVIOUS
<1>1. /\ proc.at = "destroyWait" /\ aborting.at = "done"
      /\ session' = [session EXCEPT ![s] = [active |-> FALSE, free |-> <<>>]]
      /\ handle' = [handle EXCEPT ![s] = [i \in HandleIds |-> NoHandle]]
      /\ jobLock' = "none" /\ aborting' = NoAbort /\ jobSem' = jobSem + 1
      /\ jpegSession' = 0 /\ proc' = [at |-> "flush", frame |-> 0] /\ UNCHANGED frameVars
      /\ UNCHANGED <<pic, cmds, newSession, reprocessed, channel>>
      /\ UNCHANGED <<jobQueue, ongoingJobs, mgr, events>>
  BY <1>0 DEF DestroyWait, Goto, frameVars
<1>2. ~Shut /\ ~Shut' /\ arrived' = arrived
  BY <1>1 DEF Inv, HandleInv, Slots, Shut, frameVars
<1>3. s \in Sessions
  BY <1>0, <1>1 DEF Inv, HasSession, Types, ProcTypes
<1>4. /\ session \in [Sessions -> [active : BOOLEAN, free : Seq(HandleIds)]]
      /\ handle \in [Sessions -> [HandleIds -> HandleTypes]]
      /\ arrived \in Nat /\ jobSem \in Nat
  BY DEF Inv, Types, JobTypes, ProcTypes
<1>5. mgr.at \notin {"empty", "fill"}
  BY <1>1 DEF Inv, Types, LockTypes
<1>6. /\ session'[s].active = FALSE /\ session'[s].free = <<>>
      /\ \A t \in Sessions \ {s} : session'[t] = session[t]
  BY <1>1, <1>3, <1>4
<1>7. /\ \A i \in HandleIds : handle'[s][i] = NoHandle
      /\ \A t \in Sessions \ {s} : handle'[t] = handle[t]
  BY <1>1, <1>3, <1>4
<1>8. /\ NoHandle \in HandleTypes /\ NoHandle.encoding = FALSE /\ NoHandle.frame = 0
      /\ NoHandle.omx = "none"
  BY <1>4 DEF HandleTypes, Components, NoHandle
<1>9. \A t \in Sessions, i \in HandleIds :
        \/ t = s /\ ~Free(t, i)' /\ handle'[t][i] = NoHandle
        \/ t # s /\ (Free(t, i)' <=> Free(t, i)) /\ handle'[t][i] = handle[t][i]
  BY <1>6, <1>7 DEF Free, InQueue
<1>10. ProcTypes'
  <2>1. 0 \in 0..arrived
    BY <1>4
  <2> QED
    BY <1>1, <1>2, <2>1 DEF Inv, Types, ProcTypes, Entries, frameVars
<1>11. JobTypes'
  <2>1. session' \in [Sessions -> [active : BOOLEAN, free : Seq(HandleIds)]]
    <3>1. [active |-> FALSE, free |-> <<>>] \in [active : BOOLEAN, free : Seq(HandleIds)]
      OBVIOUS
    <3> QED
      BY <1>1, <1>4, <3>1
  <2>2. handle' \in [Sessions -> [HandleIds -> HandleTypes]]
    BY <1>1, <1>4, <1>8
  <2>3. jobSem' \in Nat
    BY <1>1, <1>4
  <2> QED
    BY <1>1, <1>2, <2>1, <2>2, <2>3 DEF Inv, Types, JobTypes, Jobs, Reports, HandleTypes
<1>12. LockTypes' /\ RoomLeft'
  BY <1>1, <1>5 DEF Inv, Types, LockTypes, RoomLeft, NoAbort
<1>13. FrameInv'
  <2>1. FramesOnce'
    BY <1>1, FramesKept DEF Inv, FrameInv, Canceled
  <2> QED
    BY <1>1, <2>1 DEF FrameInv, InHand
<1>14. JobInv'
  <2>1. HandleFrames'
    BY <1>1, <1>5, <1>8, <1>9 DEF Inv, JobInv, HandleFrames
  <2>2. \A t \in Sessions, i \in HandleIds : handle'[t][i].frame \in {handle[t][i].frame, 0}
    BY <1>8, <1>9
  <2>3. \A f \in 1..arrived : Unstarted(f)' => Unstarted(f)
    BY <1>1, UnstartedKept DEF frameVars
  <2>4. JobsOnce' /\ HandleJobs' /\ FreshFrames'
    BY <1>1, <1>2, <2>2, <2>3, JobsKept DEF Inv, JobInv, JobsOnce
  <2> QED
    BY <2>1, <2>4 DEF JobInv
<1>15. HandleInv'
  <2>1. FreeOnce'
    BY <1>6 DEF Inv, HandleInv, FreeOnce, Distinct
  <2>2. Encodes'
    BY <1>8, <1>9 DEF Inv, HandleInv, Encodes
  <2>3. NotFree'
    BY <1>1, <1>6, <1>9 DEF Inv, HandleInv, NotFree
  <2>4. MgrHolds'
    BY <1>1, <1>5 DEF MgrHolds
  <2>5. Slots'
    BY <1>1, <1>2, <1>5, <1>6, <1>8, <1>9 DEF Inv, HandleInv, Slots
  <2> QED
    BY <2>1, <2>2, <2>3, <2>4, <2>5 DEF HandleInv
<1>16. HasSession'
  BY <1>1 DEF HasSession
<1> QED
  BY <1>10, <1>11, <1>12, <1>13, <1>14, <1>15, <1>16 DEF Inv, Types

\* Closing aborts the handles one after the other, and then lets the manager exit.
LEMMA CloseSessionsStep == Inv /\ CloseSessions => Inv'
<1> SUFFICES ASSUME Inv, CloseSessions PROVE Inv'
  OBVIOUS
<1> DEFINE open == {x \in Sessions \X HandleIds :
                      session[x[1]].active /\ handle[x[1]][x[2]].abort = "none"}
           h == CHOOSE x \in open : \A y \in open : x[1] < y[1] \/ (x[1] = y[1] /\ x[2] <= y[2])
<1>1. /\ pic.at = "joining" /\ proc.at = "exited"
      /\ jobLock = "none" \/ aborting.at = "done"
      /\ UNCHANGED frameVars /\ UNCHANGED <<proc, cmds, jpegSession, newSession, reprocessed, channel>>
      /\ UNCHANGED <<handle, mgr, events>>
  BY DEF CloseSessions, frameVars
<1>2. ~Shut /\ arrived' = arrived
  BY <1>1 DEF Shut, frameVars
<1>3. mgr.at \notin {"empty", "fill"}
  BY <1>1 DEF Inv, Types, LockTypes
<1>4. \A f \in 1..arrived : Unstarted(f)' => Unstarted(f)
  BY <1>1, UnstartedKept DEF frameVars
<1>5. FrameInv'
  BY <1>1, FrameInvKept DEF Inv
<1>6. HasSession'
  BY <1>1 DEF Inv, HasSession
<1>7. CASE open = {}
  <2>1. /\ jobQueue' = Append(jobQueue, Exit) /\ jobSem' = jobSem + 1
        /\ jobLock' = "none" /\ aborting' = NoAbort
        /\ session' = [s \in Sessions |-> [session[s] EXCEPT !.active = FALSE]]
        /\ pic' = [pic EXCEPT !.at = "releasing"] /\ ongoingJobs' = ongoingJobs
    BY <1>7 DEF CloseSessions
  <2>2. /\ session \in [Sessions -> [active : BOOLEAN, free : Seq(HandleIds)]]
        /\ jobQueue \in Seq(Jobs \cup {Exit}) /\ jobSem \in Nat
        /\ pic \in [at : {"off", "on", "stopping", "closing", "joining", "releasing", "closed"},
                    kind : Pictures \cup {NoPicture}]
    BY DEF Inv, Types, JobTypes, ProcTypes
  <2>3. \A s \in Sessions : ~session'[s].active /\ session'[s].free = session[s].free
    BY <2>1, <2>2
  <2>4. \A s \in Sessions, i \in HandleIds : Free(s, i)' <=> Free(s, i)
    BY <2>3 DEF Free
  <2>5. ProcTypes'
    <3>1. pic' \in [at : {"off", "on", "stopping", "closing", "joining", "releasing", "closed"},
                    kind : Pictures \cup {NoPicture}]
      BY <2>1, <2>2
    <3> QED
      BY <1>1, <1>2, <3>1 DEF Inv, Types, ProcTypes, Entries, frameVars
  <2>6. /\ jobQueue' \in Seq(Jobs \cup {Exit}) /\ DistinctJobs(jobQueue')
        /\ \A f : Queued(jobQueue', f) <=> Queued(jobQueue, f)
    <3>1. Exit \in Jobs \cup {Exit} /\ Exit.type # "job"
      BY DEF Exit
    <3>2. DistinctJobs(jobQueue)
      BY DEF Inv, JobInv, JobsOnce
    <3>3. /\ \A f : Queued(Append(jobQueue, Exit), f) <=> Queued(jobQueue, f) \/ OfFrame(Exit, f)
          /\ DistinctJobs(Append(jobQueue, Exit))
      BY <2>2, <3>1, <3>2, EntriesAppend
    <3>4. Append(jobQueue, Exit) \in Seq(Jobs \cup {Exit})
      BY <2>2, <3>1, AppendProperties
    <3> QED
      BY <2>1, <3>1, <3>3, <3>4 DEF OfFrame
  <2>7. JobTypes'
    <3>1. session' \in [Sessions -> [active : BOOLEAN, free : Seq(HandleIds)]]
      BY <2>1, <2>2
    <3>2. jobSem' \in Nat
      BY <2>1, <2>2
    <3> QED
      BY <1>1, <1>2, <2>1, <2>6, <3>1, <3>2 DEF Inv, Types, JobTypes, Jobs, Reports, HandleTypes
  <2>8. LockTypes' /\ RoomLeft'
    BY <1>1, <1>3, <2>1 DEF Inv, Types, LockTypes, RoomLeft, NoAbort
  <2>9. JobInv'
    <3>1. JobsOnce' /\ HandleJobs' /\ FreshFrames'
      BY <1>1, <1>2, <1>4, <2>1, <2>6, JobsKept DEF Inv, JobInv, JobsOnce
    <3>2. HandleFrames'
      BY <1>1 DEF Inv, JobInv, HandleFrames
    <3> QED
      BY <3>1, <3>2 DEF JobInv
  <2>10. HandleInv'
    <3>1. FreeOnce'
      BY <2>3 DEF Inv, HandleInv, FreeOnce
    <3>2. Encodes'
      BY <1>1, <2>4 DEF Inv, HandleInv, Encodes
    <3>3. NotFree' /\ MgrHolds'
      BY <1>1, <1>3, <2>3 DEF NotFree, MgrHolds
    <3>4. Slots'
      <4>1. pic'.at = "releasing" /\ proc'.at = "exited"
        BY <1>1, <2>1, <2>2
      <4> QED
        BY <4>1 DEF Slots, Shut
    <3> QED
      BY <3>1, <3>2, <3>3, <3>4 DEF HandleInv
  <2> QED
    BY <1>5, <1>6, <2>5, <2>7, <2>8, <2>9, <2>10 DEF Inv, Types
<1>8. CASE open # {}
  <2>1. h \in open
    <3>1. \E x \in open : \A y \in open : x[1] < y[1] \/ (x[1] = y[1] /\ x[2] <= y[2])
      <4> DEFINE first == {s \in Sessions : \E i \in HandleIds : <<s, i>> \in open}
      <4>1. first \subseteq Nat /\ HandleIds \subseteq Nat
        <5>1. first \subseteq Sessions
          OBVIOUS
        <5>2. HandleIds \subseteq Nat
          BY DEF HandleIds
        <5> QED
          BY <5>1, <5>2, SessionsNat, Zenon
      <4>2. \A x \in open : x[1] \in first /\ x[2] \in HandleIds /\ x = <<x[1], x[2]>>
        OBVIOUS
      <4>3. first # {}
        BY <1>8, <4>2
      <4> HIDE DEF open
      <4>4. PICK s \in first : \A t \in first : s <= t
        <5> HIDE DEF first
        <5> QED
          BY <4>1, <4>3, LeastOf
      <4> DEFINE second == {i \in HandleIds : <<s, i>> \in open}
      <4>5. PICK i \in second : \A j \in second : i <= j
        <5>1. second \subseteq Nat /\ second # {}
          BY <4>1
        <5> HIDE DEF second
        <5> QED
          BY <5>1, LeastOf
      <4>6. <<s, i>> \in open
        BY <4>5
      <4>7. ASSUME NEW y \in open PROVE s < y[1] \/ (s = y[1] /\ i <= y[2])
        <5>1. y[1] \in first /\ y[2] \in HandleIds /\ y = <<y[1], y[2]>>
          BY <4>2
        <5>2. s <= y[1] /\ s \in Nat /\ y[1] \in Nat
          BY <4>1, <4>4, <5>1
        <5>3. s = y[1] => y[2] \in second
          BY <5>1
        <5> QED
          BY <4>5, <5>2, <5>3
      <4>8. <<s, i>>[1] = s /\ <<s, i>>[2] = i
        OBVIOUS
      <4> QED
        BY <4>6, <4>7, <4>8
    <3> HIDE DEF open
    <3> QED
      BY <3>1
  <2>2. h[1] \in Sessions /\ h[2] \in HandleIds
    <3> HIDE DEF h
    <3> QED
      BY <2>1
  <2>3. /\ jobQueue' = WithoutSession(jobQueue, h[1])
        /\ ongoingJobs' = WithoutSession(ongoingJobs, h[1])
        /\ BeginAbort(h[1], h[2]) /\ UNCHANGED <<session, pic, jobSem>>
    BY <1>8 DEF CloseSessions
  <2> HIDE DEF open, h
  <2>4. LeftOf(jobQueue', jobQueue) /\ LeftOf(ongoingJobs', ongoingJobs)
    BY <2>3 DEF LeftOf, WithoutSession
  <2>5. JobTypes' /\ RoomLeft' /\ JobInv' /\ HandleInv'
    BY <1>1, <1>2, <1>3, <1>4, <2>3, <2>4, JobsLeft DEF Shut
  <2>6. LockTypes'
    BY <1>1, <2>2, <2>3, BeginAbortTypes
  <2>7. ProcTypes'
    BY <1>1, <1>2, <2>3 DEF Inv, Types, ProcTypes, Entries, frameVars
  <2> QED
    BY <1>5, <1>6, <2>5, <2>6, <2>7 DEF Inv, Types
<1> QED
  BY <1>7, <1>8
-----------------------------------------------------------------------------
(* The JPEG interface: one handle. *)

\* The post-processor does not notice a step of the JPEG interface.
LEMMA ProcKept ==
  ASSUME Inv, UNCHANGED procVars
  PROVE  /\ ProcTypes' /\ FrameInv' /\ HasSession' /\ (Shut' <=> Shut) /\ arrived' = arrived
         /\ \A f \in 1..arrived : Unstarted(f)' => Unstarted(f)
<1> USE DEF procVars
<1>1. ProcTypes'
  BY DEF Inv, Types, ProcTypes, Entries
<1>2. FrameInv'
  BY FrameInvKept DEF Inv, frameVars
<1>3. HasSession'
  BY DEF Inv, HasSession
<1>4. (Shut' <=> Shut) /\ arrived' = arrived
  BY DEF Shut
<1>5. \A f \in 1..arrived : Unstarted(f)' => Unstarted(f)
  BY UnstartedKept
<1> QED
  BY <1>1, <1>2, <1>3, <1>4, <1>5

\* No handle but this one changes, nor does its frame.
Changes(s, i) ==
  /\ handle' \in [Sessions -> [HandleIds -> HandleTypes]]
  /\ handle'[s][i].frame = handle[s][i].frame
  /\ \A t \in Sessions, j \in HandleIds : (t = s /\ j = i) \/ handle'[t][j] = handle[t][j]

\* The type of one handle.
LEMMA HandleType ==
  ASSUME Inv, NEW s \in Sessions, NEW i \in HandleIds
  PROVE  handle[s][i] \in HandleTypes /\ handle \in [Sessions -> [HandleIds -> HandleTypes]]
  BY DEF Inv, Types, JobTypes

\* A step of a component or of an abort: no job ends, and none begins.
LEMMA HandleChanged ==
  ASSUME Inv, UNCHANGED procVars, NEW s \in Sessions, NEW i \in HandleIds, Changes(s, i),
         UNCHANGED <<session, jobQueue, ongoingJobs, jobSem, mgr, events>>, LockTypes',
         handle'[s][i].encoding = handle[s][i].encoding,
         handle'[s][i].abort = "none" => handle[s][i].abort = "none",
         handle'[s][i].omx = "half" => handle[s][i].omx = "half",
         handle'[s][i].omx \in {"busy", "flushing"} => handle[s][i].encoding,
         handle[s][i].omx = "none" /\ ~handle[s][i].encoding => handle'[s][i].omx = "none"
  PROVE  Inv'
<1>1. /\ ProcTypes' /\ FrameInv' /\ HasSession' /\ (Shut' <=> Shut) /\ arrived' = arrived
      /\ \A f \in 1..arrived : Unstarted(f)' => Unstarted(f)
  BY ProcKept
<1>2. proc' = proc
  BY DEF procVars
<1>3. JobTypes'
  BY <1>1 DEF Changes, Inv, Types, JobTypes, Jobs, Reports, HandleTypes
<1>4. RoomLeft'
  BY DEF Inv, Types, RoomLeft
<1>5. \A t \in Sessions, j \in HandleIds : handle'[t][j].frame = handle[t][j].frame
  BY DEF Changes
<1>6. mgr.at \in {"empty", "fill"} => mgr.session \in Sessions /\ mgr.handle \in HandleIds
  BY DEF Inv, Types, LockTypes
<1>7. JobInv'
  <2>1. HandleFrames'
    <3>1. ASSUME NEW t \in Sessions, NEW j \in HandleIds,
                 handle'[t][j].encoding \/ handle'[t][j].omx \in {"half", "busy", "flushing"}
          PROVE  handle'[t][j].frame # 0
      <4>1. handle[t][j].encoding \/ handle[t][j].omx \in {"half", "busy", "flushing"}
        BY <3>1 DEF Changes
      <4> QED
        BY <4>1, <1>5 DEF Inv, JobInv, HandleFrames
    <3>2. mgr'.at \in {"empty", "fill"} => handle'[mgr'.session][mgr'.handle].frame # 0
      BY <1>5, <1>6 DEF Inv, JobInv, HandleFrames
    <3> QED
      BY <3>1, <3>2 DEF HandleFrames
  <2>2. JobsOnce' /\ HandleJobs' /\ FreshFrames'
    BY <1>1, <1>5, JobsKept DEF Inv, JobInv, JobsOnce
  <2> QED
    BY <2>1, <2>2 DEF JobInv
<1>8. HandleInv'
  <2>1. FreeOnce'
    BY DEF Inv, HandleInv, FreeOnce
  <2>2. Encodes'
    BY DEF Changes, Inv, HandleInv, Encodes, Free
  <2>3. NotFree'
    BY DEF Changes, Inv, HandleInv, NotFree, Free
  <2>4. MgrHolds'
    BY <1>5, <1>6 DEF Changes, Inv, HandleInv, MgrHolds, Free
  <2>5. Slots'
    BY <1>1, <1>2 DEF Changes, Inv, HandleInv, Slots
  <2> QED
    BY <2>1, <2>2, <2>3, <2>4, <2>5 DEF HandleInv
<1> QED
  BY <1>1, <1>3, <1>4, <1>7, <1>8 DEF Inv, Types

\* A job ends: its handle is free again, and only its own job leaves the ongoing ones.
LEMMA JobEnded ==
  ASSUME Inv, UNCHANGED procVars, NEW s \in Sessions, NEW i \in HandleIds, Changes(s, i),
         NEW status \in {"done", "error"}, Report(handle[s][i].frame, status), JobDone(s, i),
         UNCHANGED jobQueue, LockTypes',
         handle[s][i].frame # 0, ~Free(s, i), ~Shut => session[s].active,
         handle'[s][i].encoding = FALSE, handle'[s][i].omx \notin {"busy", "flushing"},
         \/ /\ mgr' = mgr /\ handle'[s][i].omx # "half"
            /\ ~(mgr.at = "empty" /\ mgr.session = s /\ mgr.handle = i)
         \/ mgr'.at = "wait" /\ (mgr.at = "empty" => mgr.session = s /\ mgr.handle = i)
  PROVE  Inv'
<1> DEFINE f == handle[s][i].frame
<1>1. /\ ProcTypes' /\ FrameInv' /\ HasSession' /\ (Shut' <=> Shut) /\ arrived' = arrived
      /\ \A g \in 1..arrived : Unstarted(g)' => Unstarted(g)
  BY ProcKept
<1>2. proc' = proc
  BY DEF procVars
<1>3. /\ session \in [Sessions -> [active : BOOLEAN, free : Seq(HandleIds)]]
      /\ ongoingJobs \in Seq(Jobs) /\ events \in Seq(Reports) /\ jobSem \in Nat /\ arrived \in Nat
  BY DEF Inv, Types, JobTypes, ProcTypes
<1>4. f \in 1..arrived
  <2>1. handle[s][i] \in HandleTypes
    BY HandleType
  <2> QED
    BY <1>3, <2>1 DEF HandleTypes
<1>5. /\ session' = [session EXCEPT ![s].free = Append(session[s].free, i)]
      /\ ongoingJobs' = WithoutFrame(ongoingJobs, f) /\ jobSem' = jobSem + 1
      /\ events' = Append(events, [frame |-> f, status |-> status])
  BY DEF JobDone, Report
<1>6. /\ session'[s].free = Append(session[s].free, i)
      /\ session' \in [Sessions -> [active : BOOLEAN, free : Seq(HandleIds)]]
      /\ \A t \in Sessions : session'[t].active = session[t].active
      /\ \A t \in Sessions \ {s} : session'[t].free = session[t].free
  <2>1. session[s].free \in Seq(HandleIds) /\ Append(session[s].free, i) \in Seq(HandleIds)
    BY <1>3, AppendProperties
  <2> QED
    BY <1>3, <1>5, <2>1
<1>7. /\ Distinct(session'[s].free)
      /\ \A j : InQueue(session'[s].free, j) <=> InQueue(session[s].free, j) \/ j = i
  <2>1. session[s].free \in Seq(HandleIds) /\ Distinct(session[s].free) /\ ~InQueue(session[s].free, i)
    BY <1>3 DEF Inv, HandleInv, FreeOnce, Free
  <2>2. /\ Distinct(Append(session[s].free, i))
        /\ \A j : InQueue(Append(session[s].free, i), j) <=> InQueue(session[s].free, j) \/ j = i
    BY <2>1, InAppend
  <2> QED
    BY <1>6, <2>2
<1>8. \A t \in Sessions, j \in HandleIds : Free(t, j)' <=> Free(t, j) \/ (t = s /\ j = i)
  BY <1>6, <1>7 DEF Free
<1>9. /\ ongoingJobs' \in Seq(Jobs) /\ DistinctJobs(ongoingJobs')
      /\ Len(ongoingJobs') <= Len(ongoingJobs)
      /\ \A g : Queued(ongoingJobs', g) => Queued(ongoingJobs, g)
  <2>1. LeftOf(ongoingJobs', ongoingJobs)
    BY <1>5 DEF LeftOf, WithoutFrame
  <2>2. DistinctJobs(ongoingJobs)
    BY DEF Inv, JobInv, JobsOnce
  <2> QED
    BY <1>3, <2>1, <2>2, LeftJobs
<1> HIDE DEF f
<1>10. JobTypes'
  <2>1. events' \in Seq(Reports)
    <3>1. [frame |-> f, status |-> status] \in Reports
      BY <1>4 DEF Reports
    <3> QED
      BY <1>3, <1>5, <3>1, AppendProperties
  <2>2. jobSem' \in Nat
    BY <1>3, <1>5
  <2> QED
    BY <1>1, <1>6, <1>9, <2>1, <2>2 DEF Changes, Inv, Types, JobTypes, Jobs, Reports, HandleTypes
<1>11. RoomLeft'
  <2>1. Len(ongoingJobs) \in Nat /\ Len(ongoingJobs') \in Nat
    BY <1>3, <1>9, LenProperties
  <2>2. mgr'.at = "take" => mgr.at = "take"
    OBVIOUS
  <2> QED
    BY <1>9, <2>1, <2>2, JpegAssumption DEF Inv, Types, RoomLeft
<1>12. \A t \in Sessions, j \in HandleIds : handle'[t][j].frame = handle[t][j].frame
  BY DEF Changes
<1>13. mgr.at \in {"empty", "fill"} => mgr.session \in Sessions /\ mgr.handle \in HandleIds
  BY DEF Inv, Types, LockTypes
<1>14. mgr'.at \in {"empty", "fill"} => mgr' = mgr /\ handle'[s][i].omx # "half"
                                        /\ ~(mgr.at = "empty" /\ mgr.session = s /\ mgr.handle = i)
  OBVIOUS
<1>15. JobInv'
  <2>1. HandleFrames'
    <3>1. ASSUME NEW t \in Sessions, NEW j \in HandleIds,
                 handle'[t][j].encoding \/ handle'[t][j].omx \in {"half", "busy", "flushing"}
          PROVE  handle'[t][j].frame # 0
      <4>1. CASE t = s /\ j = i
        BY <4>1, <1>12
      <4>2. CASE handle'[t][j] = handle[t][j]
        BY <3>1, <4>2 DEF Inv, JobInv, HandleFrames
      <4> QED
        BY <4>1, <4>2 DEF Changes
    <3>2. mgr'.at \in {"empty", "fill"} => handle'[mgr'.session][mgr'.handle].frame # 0
      BY <1>12, <1>13, <1>14 DEF Inv, JobInv, HandleFrames
    <3> QED
      BY <3>1, <3>2 DEF HandleFrames
  <2>2. JobsOnce' /\ HandleJobs' /\ FreshFrames'
    <3>1. DistinctJobs(jobQueue') /\ \A g : Queued(jobQueue', g) => Queued(jobQueue, g)
      BY DEF Inv, JobInv, JobsOnce
    <3> QED
      BY <1>1, <1>9, <1>12, <3>1, JobsKept DEF Inv
  <2> QED
    BY <2>1, <2>2 DEF JobInv
<1>16. HandleInv'
  <2>1. FreeOnce'
    BY <1>6, <1>7 DEF Inv, HandleInv, FreeOnce
  <2>2. Encodes'
    <3> SUFFICES ASSUME NEW t \in Sessions, NEW j \in HandleIds
                 PROVE  /\ handle'[t][j].encoding => ~Free(t, j)'
                        /\ handle'[t][j].omx \in {"busy", "flushing"} => handle'[t][j].encoding
      BY DEF Encodes
    <3>1. CASE t = s /\ j = i
      BY <3>1
    <3>2. CASE ~(t = s /\ j = i)
      <4>1. handle'[t][j] = handle[t][j] /\ (Free(t, j)' <=> Free(t, j))
        BY <3>2, <1>8 DEF Changes
      <4> QED
        BY <4>1 DEF Inv, HandleInv, Encodes
    <3> QED
      BY <3>1, <3>2
  <2>3. NotFree'
    <3> SUFFICES ASSUME NEW t \in Sessions, NEW j \in HandleIds, session'[t].active,
                        handle'[t][j].abort = "none", ~handle'[t][j].encoding, ~Free(t, j)'
                 PROVE  mgr'.at = "empty" /\ mgr'.session = t /\ mgr'.handle = j
      BY DEF NotFree
    <3>1. ~(t = s /\ j = i) /\ ~Free(t, j)
      BY <1>8
    <3>2. handle'[t][j] = handle[t][j]
      BY <3>1 DEF Changes
    <3>3. mgr.at = "empty" /\ mgr.session = t /\ mgr.handle = j
      BY <1>6, <3>1, <3>2 DEF Inv, HandleInv, NotFree
    <3> QED
      BY <3>1, <3>3
  <2>4. MgrHolds'
    <3>1. ASSUME mgr'.at = "empty"
          PROVE  /\ ~Free(mgr.session, mgr.handle)'
                 /\ ~handle'[mgr.session][mgr.handle].encoding
                 /\ \E k \in DOMAIN ongoingJobs' :
                      ongoingJobs'[k] = Job(handle'[mgr.session][mgr.handle].frame, mgr.session)
      <4>1. PICK t, j : t = mgr.session /\ j = mgr.handle
        OBVIOUS
      <4>2. mgr.at = "empty" /\ t \in Sessions /\ j \in HandleIds /\ ~(t = s /\ j = i)
        BY <3>1, <4>1, <1>13, <1>14
      <4>3. handle'[t][j] = handle[t][j] /\ (Free(t, j)' <=> Free(t, j))
        BY <4>2, <1>8 DEF Changes
      <4>4. /\ ~Free(t, j) /\ ~handle[t][j].encoding
            /\ \E k \in DOMAIN ongoingJobs : ongoingJobs[k] = Job(handle[t][j].frame, t)
        BY <4>1, <4>2 DEF Inv, HandleInv, MgrHolds
      <4>5. PICK k \in DOMAIN ongoingJobs : ongoingJobs[k] = Job(handle[t][j].frame, t)
        BY <4>4
      <4>6. handle[t][j].frame # f
        BY <4>2 DEF f, Inv, JobInv, HandleJobs
      <4>7. ~OfFrame(ongoingJobs[k], f)
        BY <4>5, <4>6 DEF OfFrame, Job
      <4>8. \E m \in DOMAIN ongoingJobs' : ongoingJobs'[m] = ongoingJobs[k]
        BY <1>3, <1>5, <4>7, KeptJobs
      <4>9. mgr' = mgr
        BY <3>1, <1>14
      <4> QED
        BY <4>1, <4>3, <4>4, <4>5, <4>8, <4>9
    <3>2. ASSUME mgr'.at = "fill", handle'[mgr.session][mgr.handle].omx = "half"
          PROVE  handle'[mgr.session][mgr.handle].encoding
      <4>1. mgr' = mgr /\ ~(mgr.session = s /\ mgr.handle = i)
        BY <3>2, <1>14
      <4>2. handle'[mgr.session][mgr.handle] = handle[mgr.session][mgr.handle]
        BY <3>2, <4>1, <1>13 DEF Changes
      <4> QED
        BY <3>2, <4>1, <4>2 DEF Inv, HandleInv, MgrHolds
    <3>3. mgr'.at \in {"empty", "fill"} => mgr'.session = mgr.session /\ mgr'.handle = mgr.handle
      BY <1>14
    <3> QED
      BY <3>1, <3>2, <3>3 DEF MgrHolds, Free
  <2>5. Slots'
    <3>1. ASSUME ~Shut', NEW t \in Sessions, ~session'[t].active
          PROVE  /\ session'[t].free = <<>>
                 /\ \A j \in HandleIds : handle'[t][j].omx = "none" /\ ~handle'[t][j].encoding
      <4>1. ~Shut /\ ~session[t].active /\ t # s
        BY <1>1, <1>6, <3>1
      <4>2. session'[t].free = session[t].free /\ \A j \in HandleIds : handle'[t][j] = handle[t][j]
        BY <1>6, <4>1 DEF Changes
      <4> QED
        BY <4>1, <4>2 DEF Inv, HandleInv, Slots
    <3>2. ~Shut' /\ mgr'.at \in {"empty", "fill"} => session'[mgr'.session].active
      BY <1>1, <1>6, <1>13, <1>14 DEF Inv, HandleInv, Slots
    <3>3. Shut' => proc'.at = "exited"
      BY <1>1, <1>2 DEF Inv, HandleInv, Slots
    <3> QED
      BY <3>1, <3>2, <3>3 DEF Slots
  <2> QED
    BY <2>1, <2>2, <2>3, <2>4, <2>5 DEF HandleInv
<1> QED
  BY <1>1, <1>10, <1>11, <1>15, <1>16 DEF Inv, Types
-----------------------------------------------------------------------------
(* The JPEG interface: the manager. *)

\* The manager waking up for a job changes no job and no handle.
LEMMA MgrWaitStep == Inv /\ Jpeg(MgrWait) => Inv'
<1> SUFFICES ASSUME Inv, MgrWait, UNCHANGED procVars PROVE Inv'
  BY DEF Jpeg
<1>1. /\ mgr.at = "wait" /\ jobSem > 0 /\ jobSem' = jobSem - 1
      /\ mgr' = [mgr EXCEPT !.at = IF Room THEN "take" ELSE "wait"]
      /\ UNCHANGED <<session, handle, jobQueue, ongoingJobs, jobLock, aborting, events>>
  BY DEF MgrWait
<1>2. /\ ProcTypes' /\ FrameInv' /\ HasSession' /\ (Shut' <=> Shut) /\ arrived' = arrived
      /\ \A f \in 1..arrived : Unstarted(f)' => Unstarted(f)
  BY ProcKept
<1>3. mgr'.at \in {"take", "wait"} /\ (mgr'.at = "take" => Room)
  BY <1>1 DEF Inv, Types, LockTypes
<1>4. JobTypes'
  BY <1>1, <1>2 DEF Inv, Types, JobTypes, Jobs, Reports, HandleTypes
<1>5. LockTypes'
  BY <1>1, <1>3 DEF Inv, Types, LockTypes
<1>6. RoomLeft'
  BY <1>1, <1>3 DEF Inv, Types, RoomLeft, Room
<1>7. JobInv'
  BY <1>1, <1>2, <1>3, JobInvKept DEF Inv
<1>8. HandleInv'
  BY <1>1, <1>2, <1>3, HandleInvKept DEF Inv, handleVars, procVars
<1> QED
  BY <1>2, <1>4, <1>5, <1>6, <1>7, <1>8 DEF Inv, Types

\* The manager takes a job: the handle h of its session s is the only one with its frame f.
MgrTakes(s, i, f) ==
  /\ jobQueue # <<>> /\ Head(jobQueue) \in Jobs
  /\ Head(jobQueue).frame = f /\ Head(jobQueue).session = s
  /\ session[s].free # <<>> /\ i = Head(session[s].free)
  /\ session' = [session EXCEPT ![s].free = Tail(session[s].free)]
  /\ handle' = [handle EXCEPT ![s][i] =
                  [handle[s][i] EXCEPT !.abort = "none", !.encoding = FALSE, !.frame = f]]
  /\ ongoingJobs' = Append(ongoingJobs, Head(jobQueue))
  /\ mgr' = [at |-> "empty", session |-> s, handle |-> i]
  /\ jobQueue' = Tail(jobQueue) /\ jobLock' = "mgr"
  /\ UNCHANGED <<jobSem, aborting, events>>

\* A job the manager takes goes from the waiting to the ongoing ones, and gets a
\* handle that was free.
LEMMA MgrTakesStep ==
  ASSUME Inv, mgr.at = "take", jobLock = "none", UNCHANGED procVars,
         NEW s \in Sessions, NEW i, NEW f \in 1..arrived, MgrTakes(s, i, f)
  PROVE  Inv'
<1>1. /\ ProcTypes' /\ FrameInv' /\ HasSession' /\ (Shut' <=> Shut) /\ arrived' = arrived
      /\ \A g \in 1..arrived : Unstarted(g)' => Unstarted(g)
  BY ProcKept
<1>2. /\ session \in [Sessions -> [active : BOOLEAN, free : Seq(HandleIds)]]
      /\ handle \in [Sessions -> [HandleIds -> HandleTypes]]
      /\ jobQueue \in Seq(Jobs \cup {Exit}) /\ ongoingJobs \in Seq(Jobs) /\ arrived \in Nat
  BY DEF Inv, Types, JobTypes, ProcTypes
<1>3. /\ i \in HandleIds /\ Free(s, i) /\ Tail(session[s].free) \in Seq(HandleIds)
      /\ Distinct(Tail(session[s].free))
      /\ \A j : InQueue(Tail(session[s].free), j) <=> InQueue(session[s].free, j) /\ j # i
  <2>1. /\ session[s].free \in Seq(HandleIds) /\ session[s].free # <<>> /\ Distinct(session[s].free)
        /\ i = Head(session[s].free)
    BY <1>2 DEF MgrTakes, Inv, HandleInv, FreeOnce
  <2> QED
    BY <2>1, InTail DEF Free
<1>4. /\ session' \in [Sessions -> [active : BOOLEAN, free : Seq(HandleIds)]]
      /\ session'[s].free = Tail(session[s].free)
      /\ \A t \in Sessions : session'[t].active = session[t].active
      /\ \A t \in Sessions \ {s} : session'[t].free = session[t].free
  BY <1>2, <1>3 DEF MgrTakes
<1>5. \A t \in Sessions, j \in HandleIds : Free(t, j)' <=> Free(t, j) /\ ~(t = s /\ j = i)
  BY <1>3, <1>4 DEF Free
<1>6. /\ handle' \in [Sessions -> [HandleIds -> HandleTypes]]
      /\ handle'[s][i].frame = f /\ handle'[s][i].encoding = FALSE
      /\ handle'[s][i].omx = handle[s][i].omx
      /\ \A t \in Sessions, j \in HandleIds : (t = s /\ j = i) \/ handle'[t][j] = handle[t][j]
  <2> DEFINE h == [handle[s][i] EXCEPT !.abort = "none", !.encoding = FALSE, !.frame = f]
  <2>1. h \in HandleTypes /\ h.frame = f /\ h.encoding = FALSE /\ h.omx = handle[s][i].omx
    <3>1. handle[s][i] \in HandleTypes
      BY <1>3, HandleType
    <3>2. f \in 0..arrived
      BY <1>2
    <3>3. h \in HandleTypes
      BY <3>1, <3>2 DEF HandleTypes
    <3>4. h.frame = f /\ h.encoding = FALSE /\ h.omx = handle[s][i].omx
      BY <3>1 DEF HandleTypes
    <3> QED
      BY <3>3, <3>4
  <2>2. handle' = [handle EXCEPT ![s][i] = h]
    BY DEF MgrTakes
  <2> HIDE DEF h
  <2> QED
    BY <1>2, <1>3, <2>1, <2>2
<1>7. /\ Queued(jobQueue, f) /\ ~Queued(jobQueue', f) /\ DistinctJobs(jobQueue')
      /\ \A g : Queued(jobQueue', g) => Queued(jobQueue, g)
      /\ jobQueue' \in Seq(Jobs \cup {Exit})
  <2>1. DistinctJobs(jobQueue) /\ jobQueue # <<>> /\ jobQueue' = Tail(jobQueue)
    BY DEF MgrTakes, Inv, JobInv, JobsOnce
  <2>2. Head(jobQueue).type = "job" /\ Head(jobQueue).frame = f
    BY DEF MgrTakes, Jobs
  <2>3. jobQueue' \in Seq(Jobs \cup {Exit})
    BY <1>2, <2>1
  <2> QED
    BY <1>2, <2>1, <2>2, <2>3, EntriesTail
<1>8. ~Queued(ongoingJobs, f) /\ \A t \in Sessions, j \in HandleIds : handle[t][j].frame # f
  <2>1. f # 0
    BY <1>2
  <2> QED
    BY <1>7, <2>1 DEF Inv, JobInv, JobsOnce, HandleJobs
<1>9. /\ ongoingJobs' \in Seq(Jobs) /\ DistinctJobs(ongoingJobs')
      /\ Len(ongoingJobs') = Len(ongoingJobs) + 1
      /\ \A g : Queued(ongoingJobs', g) <=> Queued(ongoingJobs, g) \/ g = f
      /\ \E k \in DOMAIN ongoingJobs' : ongoingJobs'[k] = Job(f, s)
  <2>0. PICK x : x = Head(jobQueue)
    OBVIOUS
  <2>1. x \in Jobs /\ ongoingJobs' = Append(ongoingJobs, x) /\ x.frame = f /\ x.session = s
    BY <2>0 DEF MgrTakes
  <2>2. x.type = "job" /\ x = Job(f, s)
    BY <2>1 DEF Jobs, Job
  <2>3. DistinctJobs(ongoingJobs)
    BY DEF Inv, JobInv, JobsOnce
  <2>4. /\ \A g : Queued(Append(ongoingJobs, x), g) <=> Queued(ongoingJobs, g) \/ OfFrame(x, g)
        /\ DistinctJobs(Append(ongoingJobs, x))
    BY <1>2, <1>8, <2>1, <2>3, EntriesAppend
  <2>5. \A g : OfFrame(x, g) <=> g = f
    BY <2>1, <2>2 DEF OfFrame
  <2>6. /\ ongoingJobs' \in Seq(Jobs) /\ Len(ongoingJobs') = Len(ongoingJobs) + 1
        /\ ongoingJobs'[Len(ongoingJobs) + 1] = x
    BY <1>2, <2>1, AppendProperties
  <2>7. Len(ongoingJobs) + 1 \in DOMAIN ongoingJobs'
    BY <1>2, <2>6
  <2> QED
    BY <2>1, <2>2, <2>4, <2>5, <2>6, <2>7
<1>10. /\ mgr' = [at |-> "empty", session |-> s, handle |-> i] /\ jobLock' = "mgr"
       /\ UNCHANGED <<jobSem, aborting, events>>
  BY DEF MgrTakes
<1>11. JobTypes'
  BY <1>1, <1>4, <1>6, <1>7, <1>9, <1>10 DEF Inv, Types, JobTypes, Jobs, Reports, HandleTypes
<1>12. LockTypes'
  BY <1>3, <1>10 DEF Inv, Types, LockTypes
<1>13. RoomLeft'
  <2>1. Len(ongoingJobs) \in Nat
    BY <1>2, LenProperties
  <2> QED
    BY <1>9, <1>10, <2>1, JpegAssumption DEF Inv, Types, RoomLeft
<1>14. JobInv'
  <2>1. HandleFrames'
    <3>1. f # 0
      BY <1>2
    <3>2. ASSUME NEW t \in Sessions, NEW j \in HandleIds,
                 handle'[t][j].encoding \/ handle'[t][j].omx \in {"half", "busy", "flushing"}
          PROVE  handle'[t][j].frame # 0
      <4>1. CASE t = s /\ j = i
        BY <4>1, <1>6, <3>1
      <4>2. CASE handle'[t][j] = handle[t][j]
        BY <3>2, <4>2 DEF Inv, JobInv, HandleFrames
      <4> QED
        BY <4>1, <4>2, <1>6
    <3> QED
      BY <1>6, <1>10, <3>1, <3>2 DEF HandleFrames
  <2>2. JobsOnce'
    BY <1>1, <1>7, <1>9 DEF Inv, JobInv, JobsOnce
  <2>3. HandleJobs'
    <3> SUFFICES ASSUME NEW t \in Sessions, NEW j \in HandleIds, handle'[t][j].frame # 0
                 PROVE  /\ ~Queued(jobQueue', handle'[t][j].frame)
                        /\ \A u \in Sessions, k \in HandleIds :
                             handle'[u][k].frame = handle'[t][j].frame => u = t /\ k = j
      BY DEF HandleJobs
    <3>1. CASE t = s /\ j = i
      <4>1. handle'[t][j].frame = f
        BY <3>1, <1>6
      <4>2. \A u \in Sessions, k \in HandleIds : handle'[u][k].frame = f => u = s /\ k = i
        BY <1>6, <1>8
      <4> QED
        BY <3>1, <4>1, <4>2, <1>7
    <3>2. CASE ~(t = s /\ j = i)
      <4>1. handle'[t][j] = handle[t][j] /\ handle[t][j].frame # f
        BY <3>2, <1>6, <1>8
      <4>2. /\ ~Queued(jobQueue, handle[t][j].frame)
            /\ \A u \in Sessions, k \in HandleIds :
                 handle[u][k].frame = handle[t][j].frame => u = t /\ k = j
        BY <4>1 DEF Inv, JobInv, HandleJobs
      <4>3. ASSUME NEW u \in Sessions, NEW k \in HandleIds, handle'[u][k].frame = handle'[t][j].frame
            PROVE  u = t /\ k = j
        <5>1. ~(u = s /\ k = i)
          BY <4>1, <4>3, <1>6
        <5>2. handle'[u][k] = handle[u][k]
          BY <5>1, <1>6
        <5> QED
          BY <4>1, <4>2, <4>3, <5>2
      <4> QED
        BY <4>1, <4>2, <4>3, <1>7
    <3> QED
      BY <3>1, <3>2
  <2>4. FreshFrames'
    <3> SUFFICES ASSUME NEW g \in 1..arrived, Unstarted(g)' PROVE Fresh(g)'
      BY <1>1 DEF FreshFrames
    <3>1. Fresh(g)
      BY <1>1 DEF Inv, JobInv, FreshFrames
    <3>2. g # f
      BY <3>1, <1>7 DEF Fresh
    <3>3. \A t \in Sessions, j \in HandleIds : handle'[t][j].frame # g
      BY <3>1, <3>2, <1>6 DEF Fresh
    <3> QED
      BY <3>1, <3>2, <3>3, <1>7, <1>9 DEF Fresh
  <2> QED
    BY <2>1, <2>2, <2>3, <2>4 DEF JobInv
<1>15. HandleInv'
  <2>1. FreeOnce'
    BY <1>3, <1>4 DEF Inv, HandleInv, FreeOnce
  <2>2. Encodes'
    <3> SUFFICES ASSUME NEW t \in Sessions, NEW j \in HandleIds
                 PROVE  /\ handle'[t][j].encoding => ~Free(t, j)'
                        /\ handle'[t][j].omx \in {"busy", "flushing"} => handle'[t][j].encoding
      BY DEF Encodes
    <3>1. CASE t = s /\ j = i
      <4>1. handle[s][i].omx \notin {"busy", "flushing"}
        BY <1>3 DEF Inv, HandleInv, Encodes
      <4> QED
        BY <3>1, <4>1, <1>6
    <3>2. CASE handle'[t][j] = handle[t][j]
      BY <3>2, <1>5 DEF Inv, HandleInv, Encodes
    <3> QED
      BY <3>1, <3>2, <1>6
  <2>3. NotFree'
    <3> SUFFICES ASSUME NEW t \in Sessions, NEW j \in HandleIds, session'[t].active,
                        handle'[t][j].abort = "none", ~handle'[t][j].encoding, ~Free(t, j)',
                        ~(t = s /\ j = i)
                 PROVE  FALSE
      BY <1>10 DEF NotFree
    <3>1. handle'[t][j] = handle[t][j] /\ ~Free(t, j) /\ session[t].active
      BY <1>4, <1>5, <1>6
    <3> QED
      BY <3>1 DEF Inv, HandleInv, NotFree
  <2>4. MgrHolds'
    <3>1. mgr'.at = "empty" /\ mgr'.session = s /\ mgr'.handle = i
      BY <1>10
    <3>2. ~Free(s, i)' /\ ~handle'[s][i].encoding /\ handle'[s][i].frame = f
      BY <1>3, <1>5, <1>6
    <3> QED
      BY <3>1, <3>2, <1>9 DEF MgrHolds, Free
  <2>5. Slots'
    <3>1. ~Shut => session[s].active
      BY DEF MgrTakes, Inv, HandleInv, Slots
    <3>2. ASSUME ~Shut, NEW t \in Sessions, ~session'[t].active
          PROVE  /\ session'[t].free = <<>>
                 /\ \A j \in HandleIds : handle'[t][j].omx = "none" /\ ~handle'[t][j].encoding
      <4>1. ~session[t].active /\ t # s
        BY <1>4, <3>1, <3>2
      <4>2. session'[t].free = session[t].free /\ \A j \in HandleIds : handle'[t][j] = handle[t][j]
        BY <1>4, <1>6, <4>1
      <4> QED
        BY <3>2, <4>1, <4>2 DEF Inv, HandleInv, Slots
    <3>3. ~Shut => session'[mgr'.session].active
      BY <1>4, <1>10, <3>1
    <3>4. Shut => proc'.at = "exited"
      BY DEF Inv, HandleInv, Slots, procVars
    <3> QED
      BY <1>1, <3>2, <3>3, <3>4 DEF Slots
  <2> QED
    BY <2>1, <2>2, <2>3, <2>4, <2>5 DEF HandleInv
<1> QED
  BY <1>1, <1>11, <1>12, <1>13, <1>14, <1>15 DEF Inv, Types

\* Whatever the manager takes, it was waiting: the invariant holds after it.
LEMMA MgrTakeStep == Inv /\ Jpeg(MgrTake) => Inv'
<1> SUFFICES ASSUME Inv, MgrTake, UNCHANGED procVars PROVE Inv'
  BY DEF Jpeg
<1>1. mgr.at = "take" /\ jobLock = "none" /\ UNCHANGED <<jobSem, aborting, events>>
  BY DEF MgrTake
<1>2. /\ ProcTypes' /\ FrameInv' /\ HasSession' /\ (Shut' <=> Shut) /\ arrived' = arrived
      /\ \A g \in 1..arrived : Unstarted(g)' => Unstarted(g)
  BY ProcKept
<1>3. jobQueue \in Seq(Jobs \cup {Exit})
  BY DEF Inv, Types, JobTypes
<1>4. CASE /\ mgr' \in [at : {"wait", "exited"}, session : Sessions \cup {0}, handle : HandleIds \cup {0}]
           /\ jobQueue' = jobQueue \/ (jobQueue # <<>> /\ jobQueue' = Tail(jobQueue))
           /\ UNCHANGED <<session, handle, ongoingJobs, jobLock>>
  <2>1. /\ jobQueue' \in Seq(Jobs \cup {Exit}) /\ DistinctJobs(jobQueue')
        /\ \A g : Queued(jobQueue', g) => Queued(jobQueue, g)
    <3>1. DistinctJobs(jobQueue)
      BY DEF Inv, JobInv, JobsOnce
    <3>2. CASE jobQueue' = jobQueue
      BY <3>1, <3>2, <1>3
    <3>3. CASE jobQueue # <<>> /\ jobQueue' = Tail(jobQueue)
      <4>1. jobQueue' \in Seq(Jobs \cup {Exit})
        BY <1>3, <3>3
      <4> QED
        BY <1>3, <3>1, <3>3, <4>1, EntriesTail
    <3> QED
      BY <1>4, <3>2, <3>3
  <2>2. mgr'.at \in {"wait", "exited"}
    BY <1>4
  <2>3. JobTypes'
    BY <1>1, <1>2, <1>4, <2>1 DEF Inv, Types, JobTypes, Jobs, Reports, HandleTypes
  <2>4. LockTypes' /\ RoomLeft'
    BY <1>1, <1>4, <2>2 DEF Inv, Types, LockTypes, RoomLeft
  <2>5. JobInv'
    <3>1. JobsOnce' /\ HandleJobs' /\ FreshFrames'
      BY <1>2, <1>4, <2>1, JobsKept DEF Inv, JobInv, JobsOnce
    <3>2. HandleFrames'
      BY <1>4, <2>2 DEF Inv, JobInv, HandleFrames
    <3> QED
      BY <3>1, <3>2 DEF JobInv
  <2>6. HandleInv'
    BY <1>1, <1>2, <1>4, <2>2, HandleInvKept DEF Inv, handleVars, procVars
  <2> QED
    BY <1>2, <2>3, <2>4, <2>5, <2>6 DEF Inv, Types
<1>5. CASE jobQueue # <<>> /\ Head(jobQueue).type = "job"
           /\ session[Head(jobQueue).session].free # <<>> /\ jobLock' = "mgr"
           /\ \E s, i, f : s = Head(jobQueue).session /\ f = Head(jobQueue).frame /\ MgrTakes(s, i, f)
  <2>1. PICK s, i, f : s = Head(jobQueue).session /\ f = Head(jobQueue).frame /\ MgrTakes(s, i, f)
    BY <1>5
  <2>2. s \in Sessions /\ f \in 1..arrived
    BY <2>1 DEF MgrTakes, Jobs
  <2> QED
    BY <1>1, <2>1, <2>2, MgrTakesStep
<1>6. \/ mgr' = AtWait /\ UNCHANGED <<session, handle, jobQueue, ongoingJobs, jobLock>>
      \/ /\ jobQueue # <<>> /\ jobQueue' = Tail(jobQueue) /\ mgr' = [mgr EXCEPT !.at = "exited"]
         /\ UNCHANGED <<session, handle, ongoingJobs, jobLock>>
      \/ jobQueue # <<>> /\ Head(jobQueue).type = "job"
         /\ session[Head(jobQueue).session].free # <<>> /\ jobLock' = "mgr"
         /\ \E s, i, f : s = Head(jobQueue).session /\ f = Head(jobQueue).frame /\ MgrTakes(s, i, f)
  <2>1. CASE mgr' = AtWait /\ UNCHANGED <<session, handle, jobQueue, ongoingJobs, jobLock>>
    BY <2>1
  <2>2. CASE /\ jobQueue # <<>> /\ jobQueue' = Tail(jobQueue) /\ mgr' = [mgr EXCEPT !.at = "exited"]
             /\ UNCHANGED <<session, handle, ongoingJobs, jobLock>>
    BY <2>2
  <2>3. CASE /\ jobQueue # <<>> /\ Head(jobQueue).type = "job"
             /\ LET j == Head(jobQueue)
                    q == session[j.session].free
                IN /\ q # <<>>
                   /\ session' = [session EXCEPT ![j.session].free = Tail(@)]
                   /\ handle' = [handle EXCEPT ![j.session][Head(q)] =
                                   [@ EXCEPT !.abort = "none", !.encoding = FALSE, !.frame = j.frame]]
                   /\ ongoingJobs' = Append(ongoingJobs, j)
                   /\ mgr' = [at |-> "empty", session |-> j.session, handle |-> Head(q)]
             /\ jobQueue' = Tail(jobQueue) /\ jobLock' = "mgr"
    <3>1. PICK s, i, f : /\ s = Head(jobQueue).session /\ f = Head(jobQueue).frame
                         /\ i = Head(session[s].free)
      OBVIOUS
    <3>2. Head(jobQueue) \in Jobs
      <4>1. Head(jobQueue) \in Jobs \cup {Exit}
        BY <1>3, <2>3
      <4>2. Exit.type # "job"
        BY DEF Exit
      <4> QED
        BY <2>3, <4>1, <4>2
    <3>3. MgrTakes(s, i, f)
      BY <1>1, <2>3, <3>1, <3>2 DEF MgrTakes
    <3> QED
      BY <2>3, <3>1, <3>3
  <2> QED
    BY <2>1, <2>2, <2>3 DEF MgrTake
<1>7. AtWait \in [at : {"wait", "exited"}, session : Sessions \cup {0}, handle : HandleIds \cup {0}]
  BY DEF AtWait
<1>8. [mgr EXCEPT !.at = "exited"]
        \in [at : {"wait", "exited"}, session : Sessions \cup {0}, handle : HandleIds \cup {0}]
  BY DEF Inv, Types, LockTypes
<1> QED
  BY <1>4, <1>5, <1>6, <1>7, <1>8

\* OMX_EmptyThisBuffer: the handle that the manager holds works from now on, or its
\* job ends.
LEMMA MgrEmptyStep == Inv /\ Jpeg(MgrEmpty) => Inv'
<1> SUFFICES ASSUME Inv, MgrEmpty, UNCHANGED procVars PROVE Inv'
  BY DEF Jpeg
<1>0. PICK s, i : s = mgr.session /\ i = mgr.handle
  OBVIOUS
<1>1. mgr.at = "empty" /\ UNCHANGED <<jobQueue, aborting>>
  BY DEF MgrEmpty
<1>2. /\ s \in Sessions /\ i \in HandleIds /\ ~Free(s, i) /\ handle[s][i].encoding = FALSE
      /\ handle[s][i].frame # 0 /\ handle[s][i].omx \notin {"busy", "flushing"}
      /\ ~Shut => session[s].active
  <2>1. s \in Sessions /\ i \in HandleIds
    BY <1>0, <1>1 DEF Inv, Types, LockTypes
  <2>2. ~Free(s, i) /\ ~handle[s][i].encoding
    BY <1>0, <1>1 DEF Inv, HandleInv, MgrHolds
  <2>3. handle[s][i].frame # 0
    BY <1>0, <1>1 DEF Inv, JobInv, HandleFrames
  <2>4. handle[s][i].omx \notin {"busy", "flushing"}
    BY <2>1, <2>2 DEF Inv, HandleInv, Encodes
  <2>5. ~Shut => session[s].active
    BY <1>0, <1>1 DEF Inv, HandleInv, Slots
  <2>6. handle[s][i].encoding = FALSE
    BY <2>1, <2>2, HandleType DEF HandleTypes
  <2> QED
    BY <2>1, <2>2, <2>3, <2>4, <2>5, <2>6
<1>3. handle[s][i] \in HandleTypes /\ handle \in [Sessions -> [HandleIds -> HandleTypes]]
  BY <1>2, HandleType
<1>4. CASE /\ handle' = [handle EXCEPT ![s][i].encoding = TRUE, ![s][i].omx = "half"]
           /\ mgr' = [mgr EXCEPT !.at = "fill"]
           /\ UNCHANGED <<session, ongoingJobs, jobSem, jobLock, events>>
  <2>1. Changes(s, i) /\ handle'[s][i].encoding /\ handle'[s][i].omx = "half"
    BY <1>2, <1>3, <1>4 DEF Changes, HandleTypes, Components
  <2>2. mgr'.at = "fill" /\ mgr'.session = s /\ mgr'.handle = i
    BY <1>0, <1>4 DEF Inv, Types, LockTypes
  <2>3. /\ ProcTypes' /\ FrameInv' /\ HasSession' /\ (Shut' <=> Shut) /\ arrived' = arrived
        /\ \A f \in 1..arrived : Unstarted(f)' => Unstarted(f)
    BY ProcKept
  <2>4. JobTypes'
    BY <1>1, <1>4, <2>1, <2>3 DEF Changes, Inv, Types, JobTypes, Jobs, Reports, HandleTypes
  <2>5. LockTypes' /\ RoomLeft'
    BY <1>1, <1>2, <1>4, <2>2 DEF Inv, Types, LockTypes, RoomLeft
  <2>6. \A t \in Sessions, j \in HandleIds : handle'[t][j].frame = handle[t][j].frame
    BY <2>1 DEF Changes
  <2>7. JobInv'
    <3>1. HandleFrames'
      BY <1>2, <2>1, <2>2, <2>6 DEF Changes, Inv, JobInv, HandleFrames
    <3>2. JobsOnce' /\ HandleJobs' /\ FreshFrames'
      BY <1>1, <1>4, <2>3, <2>6, JobsKept DEF Inv, JobInv, JobsOnce
    <3> QED
      BY <3>1, <3>2 DEF JobInv
  <2>8. HandleInv'
    <3>1. FreeOnce'
      BY <1>4 DEF Inv, HandleInv, FreeOnce
    <3>2. Encodes'
      BY <1>2, <1>4, <2>1 DEF Changes, Inv, HandleInv, Encodes, Free
    <3>3. NotFree'
      <4> SUFFICES ASSUME NEW t \in Sessions, NEW j \in HandleIds,
                          session'[t].active, handle'[t][j].abort = "none",
                          ~handle'[t][j].encoding, ~Free(t, j)'
                   PROVE  FALSE
        BY DEF NotFree
      <4>1. ~(t = s /\ j = i)
        BY <2>1
      <4>2. handle'[t][j] = handle[t][j]
        BY <2>1, <4>1 DEF Changes
      <4>3. session' = session
        BY <1>4
      <4>4. session[t].active /\ ~Free(t, j)
        BY <4>3 DEF Free
      <4> QED
        BY <1>0, <4>1, <4>2, <4>4 DEF Inv, HandleInv, NotFree
    <3>4. MgrHolds'
      BY <2>1, <2>2 DEF MgrHolds
    <3>5. Slots'
      BY <1>2, <1>4, <2>1, <2>2, <2>3 DEF Changes, Inv, HandleInv, Slots, procVars
    <3> QED
      BY <3>1, <3>2, <3>3, <3>4, <3>5 DEF HandleInv
  <2> QED
    BY <2>3, <2>4, <2>5, <2>7, <2>8 DEF Inv, Types
<1>5. CASE EndJob(s, i, "error", handle[s][i].omx) /\ mgr' = AtWait /\ jobLock' = "none"
  <2>1. /\ handle' = [handle EXCEPT ![s][i].encoding = FALSE, ![s][i].omx = handle[s][i].omx]
        /\ Report(handle[s][i].frame, "error") /\ JobDone(s, i)
    BY <1>5 DEF EndJob
  <2>2. Changes(s, i) /\ handle'[s][i].encoding = FALSE /\ handle'[s][i].omx = handle[s][i].omx
    BY <1>2, <1>3, <2>1 DEF Changes, HandleTypes, Components
  <2>3. mgr'.at = "wait"
    BY <1>5 DEF AtWait
  <2>4. LockTypes'
    BY <1>1, <1>5 DEF Inv, Types, LockTypes, AtWait
  <2> QED
    BY <1>0, <1>1, <1>2, <2>1, <2>2, <2>3, <2>4, JobEnded
<1> QED
  BY <1>0, <1>4, <1>5 DEF MgrEmpty

\* OMX_FillThisBuffer: the job is the component's, unless it ends here.
LEMMA MgrFillStep == Inv /\ Jpeg(MgrFill) => Inv'
<1> SUFFICES ASSUME Inv, MgrFill, UNCHANGED procVars PROVE Inv'
  BY DEF Jpeg
<1>0. PICK s, i : s = mgr.session /\ i = mgr.handle
  OBVIOUS
<1>1. mgr.at = "fill" /\ mgr' = AtWait /\ jobLock' = "none" /\ UNCHANGED <<jobQueue, aborting>>
  BY DEF MgrFill
<1>2. /\ s \in Sessions /\ i \in HandleIds /\ handle[s][i].frame # 0
      /\ handle[s][i].omx = "half" => handle[s][i].encoding /\ ~Free(s, i)
      /\ ~Shut => session[s].active
  <2>1. s \in Sessions /\ i \in HandleIds
    BY <1>0, <1>1 DEF Inv, Types, LockTypes
  <2>2. handle[s][i].omx = "half" => handle[s][i].encoding
    BY <1>0, <1>1 DEF Inv, HandleInv, MgrHolds
  <2>3. handle[s][i].encoding => ~Free(s, i)
    BY <2>1 DEF Inv, HandleInv, Encodes
  <2>4. handle[s][i].frame # 0
    BY <1>0, <1>1 DEF Inv, JobInv, HandleFrames
  <2>5. ~Shut => session[s].active
    BY <1>0, <1>1 DEF Inv, HandleInv, Slots
  <2> QED
    BY <2>1, <2>2, <2>3, <2>4, <2>5
<1>3. handle[s][i] \in HandleTypes /\ handle \in [Sessions -> [HandleIds -> HandleTypes]]
  BY <1>2, HandleType
<1>4. mgr'.at = "wait" /\ LockTypes'
  BY <1>1 DEF Inv, Types, LockTypes, AtWait
<1>5. CASE /\ handle' = [handle EXCEPT ![s][i].omx =
                           IF handle[s][i].omx = "half" THEN "busy" ELSE handle[s][i].omx]
           /\ UNCHANGED <<session, ongoingJobs, jobSem, events>>
  <2>1. /\ Changes(s, i) /\ handle'[s][i].encoding = handle[s][i].encoding
        /\ handle'[s][i].abort = handle[s][i].abort
        /\ \/ handle[s][i].omx = "half" /\ handle'[s][i].omx = "busy"
           \/ handle[s][i].omx # "half" /\ handle'[s][i].omx = handle[s][i].omx
    BY <1>2, <1>3, <1>5 DEF Changes, HandleTypes, Components
  <2>2. /\ ProcTypes' /\ FrameInv' /\ HasSession' /\ (Shut' <=> Shut) /\ arrived' = arrived
        /\ \A f \in 1..arrived : Unstarted(f)' => Unstarted(f)
    BY ProcKept
  <2>3. JobTypes'
    BY <1>1, <1>5, <2>1, <2>2 DEF Changes, Inv, Types, JobTypes, Jobs, Reports, HandleTypes
  <2>4. RoomLeft'
    BY <1>4, <1>5 DEF Inv, Types, RoomLeft
  <2>5. \A t \in Sessions, j \in HandleIds : handle'[t][j].frame = handle[t][j].frame
    BY <2>1 DEF Changes
  <2>6. JobInv'
    <3>1. HandleFrames'
      BY <1>2, <1>4, <2>1, <2>5 DEF Changes, Inv, JobInv, HandleFrames
    <3>2. JobsOnce' /\ HandleJobs' /\ FreshFrames'
      BY <1>1, <1>5, <2>2, <2>5, JobsKept DEF Inv, JobInv, JobsOnce
    <3> QED
      BY <3>1, <3>2 DEF JobInv
  <2>7. HandleInv'
    <3>1. FreeOnce'
      BY <1>5 DEF Inv, HandleInv, FreeOnce
    <3>2. Encodes'
      BY <1>2, <1>5, <2>1 DEF Changes, Inv, HandleInv, Encodes, Free
    <3>3. NotFree'
      BY <1>1, <1>5, <2>1 DEF Changes, Inv, HandleInv, NotFree, Free
    <3>4. MgrHolds'
      BY <1>4 DEF MgrHolds
    <3>5. Slots'
      BY <1>2, <1>4, <1>5, <2>1, <2>2 DEF Changes, Inv, HandleInv, Slots, procVars
    <3> QED
      BY <3>1, <3>2, <3>3, <3>4, <3>5 DEF HandleInv
  <2> QED
    BY <1>4, <2>2, <2>3, <2>4, <2>6, <2>7 DEF Inv, Types
<1>6. CASE handle[s][i].omx = "half" /\ EndJob(s, i, "error", "half")
  <2>1. /\ handle' = [handle EXCEPT ![s][i].encoding = FALSE, ![s][i].omx = "half"]
        /\ Report(handle[s][i].frame, "error") /\ JobDone(s, i)
    BY <1>6 DEF EndJob
  <2>2. Changes(s, i) /\ handle'[s][i].encoding = FALSE /\ handle'[s][i].omx = "half"
    BY <1>2, <1>3, <2>1 DEF Changes, HandleTypes, Components
  <2> QED
    BY <1>1, <1>2, <1>4, <1>6, <2>1, <2>2, JobEnded
<1> QED
  BY <1>0, <1>5, <1>6 DEF MgrFill
-----------------------------------------------------------------------------
(* The JPEG interface: the components and abort. *)

\* A handle that works is not free, has a frame, belongs to an active session, and is
\* not the one that the manager is about to give a job.
LEMMA WorkFacts ==
  ASSUME Inv, NEW s \in Sessions, NEW i \in HandleIds, handle[s][i].encoding
  PROVE  /\ handle[s][i].frame # 0 /\ ~Free(s, i) /\ (~Shut => session[s].active)
         /\ ~(mgr.at = "empty" /\ mgr.session = s /\ mgr.handle = i)
<1>1. handle[s][i].frame # 0
  BY DEF Inv, JobInv, HandleFrames
<1>2. ~Free(s, i)
  BY DEF Inv, HandleInv, Encodes
<1>3. ~Shut => session[s].active
  BY DEF Inv, HandleInv, Slots
<1>4. ~(mgr.at = "empty" /\ mgr.session = s /\ mgr.handle = i)
  BY DEF Inv, HandleInv, MgrHolds
<1> QED
  BY <1>1, <1>2, <1>3, <1>4

\* The component delivers the picture: the job ends.
LEMMA FillBufferDoneStep ==
  ASSUME NEW s \in Sessions, NEW i \in HandleIds
  PROVE  Inv /\ Jpeg(FillBufferDone(s, i)) => Inv'
<1> SUFFICES ASSUME Inv, FillBufferDone(s, i), UNCHANGED procVars PROVE Inv'
  BY DEF Jpeg
<1>1. /\ handle[s][i].omx \in {"busy", "flushing"} /\ Delivered(s, i)
      /\ UNCHANGED <<jobQueue, jobLock, mgr, aborting>>
  BY DEF FillBufferDone
<1>2. handle[s][i] \in HandleTypes /\ handle \in [Sessions -> [HandleIds -> HandleTypes]]
  BY HandleType
<1>3. handle[s][i].encoding
  BY <1>1 DEF Inv, HandleInv, Encodes
<1>4. LockTypes'
  BY <1>1 DEF Inv, Types, LockTypes
<1>5. Jobless(handle[s][i]) \in {"idling", "exec"}
  BY DEF Jobless
<1>6. CASE EndJob(s, i, "done", Jobless(handle[s][i]))
  <2>1. /\ handle' = [handle EXCEPT ![s][i].encoding = FALSE, ![s][i].omx = Jobless(handle[s][i])]
        /\ Report(handle[s][i].frame, "done") /\ JobDone(s, i)
    BY <1>6 DEF EndJob
  <2>2. Changes(s, i) /\ handle'[s][i].encoding = FALSE /\ handle'[s][i].omx \in {"idling", "exec"}
    BY <1>2, <1>5, <2>1 DEF Changes, HandleTypes, Components
  <2>3. handle'[s][i].omx \notin {"half", "busy", "flushing"}
    BY <2>2
  <2> QED
    BY <1>1, <1>3, <1>4, <2>1, <2>2, <2>3, WorkFacts, JobEnded
<1>7. CASE /\ handle' = [handle EXCEPT ![s][i].omx = Jobless(handle[s][i])]
           /\ UNCHANGED <<session, ongoingJobs, jobSem, events>>
  <2>1. /\ Changes(s, i) /\ handle'[s][i].encoding = handle[s][i].encoding
        /\ handle'[s][i].abort = handle[s][i].abort /\ handle'[s][i].omx \in {"idling", "exec"}
    BY <1>2, <1>5, <1>7 DEF Changes, HandleTypes, Components
  <2>2. handle'[s][i].omx \notin {"half", "busy", "flushing"}
    BY <2>1
  <2> QED
    BY <1>1, <1>3, <1>4, <1>7, <2>1, <2>2, HandleChanged
<1> QED
  BY <1>1, <1>6, <1>7 DEF Delivered

\* The component fails: the job ends.
LEMMA ErrorEventStep ==
  ASSUME NEW s \in Sessions, NEW i \in HandleIds
  PROVE  Inv /\ Jpeg(ErrorEvent(s, i)) => Inv'
<1> SUFFICES ASSUME Inv, ErrorEvent(s, i), UNCHANGED procVars PROVE Inv'
  BY DEF Jpeg
<1>1. /\ handle[s][i].omx \in {"half", "busy", "flushing"} /\ handle[s][i].abort = "none"
      /\ handle' = [handle EXCEPT ![s][i] =
                      [handle[s][i] EXCEPT !.failed = TRUE, !.encoding = FALSE,
                                           !.omx = Jobless(handle[s][i])]]
      /\ \/ /\ handle[s][i].encoding /\ Report(handle[s][i].frame, "error") /\ JobDone(s, i)
         \/ ~handle[s][i].encoding /\ UNCHANGED <<session, ongoingJobs, jobSem, events>>
      /\ UNCHANGED <<jobQueue, jobLock, mgr, aborting>>
  BY DEF ErrorEvent, ErrorRaised
<1>2. handle[s][i] \in HandleTypes /\ handle \in [Sessions -> [HandleIds -> HandleTypes]]
  BY HandleType
<1>3. LockTypes'
  BY <1>1 DEF Inv, Types, LockTypes
<1>4. Jobless(handle[s][i]) \in {"idling", "exec"}
  BY DEF Jobless
<1>5. /\ Changes(s, i) /\ handle'[s][i].encoding = FALSE /\ handle'[s][i].omx \in {"idling", "exec"}
      /\ handle'[s][i].abort = handle[s][i].abort
  <2> DEFINE h == [handle[s][i] EXCEPT !.failed = TRUE, !.encoding = FALSE,
                                       !.omx = Jobless(handle[s][i])]
  <2>1. h \in HandleTypes
    BY <1>2, <1>4 DEF HandleTypes, Components
  <2>2. /\ h.encoding = FALSE /\ h.omx \in {"idling", "exec"} /\ h.abort = handle[s][i].abort
        /\ h.frame = handle[s][i].frame
    BY <1>2, <1>4 DEF HandleTypes
  <2>3. handle' = [handle EXCEPT ![s][i] = h]
    BY <1>1
  <2> HIDE DEF h
  <2> QED
    BY <1>2, <2>1, <2>2, <2>3 DEF Changes
<1>6. handle'[s][i].omx \notin {"half", "busy", "flushing"} /\ handle[s][i].omx # "none"
  BY <1>1, <1>5
<1>7. CASE handle[s][i].encoding /\ Report(handle[s][i].frame, "error") /\ JobDone(s, i)
  BY <1>1, <1>3, <1>5, <1>6, <1>7, WorkFacts, JobEnded
<1>8. CASE ~handle[s][i].encoding /\ UNCHANGED <<session, ongoingJobs, jobSem, events>>
  <2>1. handle'[s][i].encoding = handle[s][i].encoding
    BY <1>2, <1>5, <1>8 DEF HandleTypes
  <2> QED
    BY <1>1, <1>3, <1>5, <1>6, <1>8, <2>1, HandleChanged
<1> QED
  BY <1>1, <1>7, <1>8

\* An error during an abort ends that abort only.
LEMMA ErrorInAbortStep ==
  ASSUME NEW s \in Sessions, NEW i \in HandleIds
  PROVE  Inv /\ Jpeg(ErrorInAbort(s, i)) => Inv'
<1> SUFFICES ASSUME Inv, ErrorInAbort(s, i), UNCHANGED procVars PROVE Inv'
  BY DEF Jpeg
<1>1. /\ handle[s][i].omx = "flushing" /\ handle[s][i].abort = "init"
      /\ handle' = [handle EXCEPT ![s][i].abort = "done", ![s][i].omx = "idling"]
      /\ UNCHANGED <<session, jobQueue, ongoingJobs, jobSem, jobLock, mgr, aborting, events>>
  BY DEF ErrorInAbort, Aborted
<1>2. handle[s][i] \in HandleTypes /\ handle \in [Sessions -> [HandleIds -> HandleTypes]]
  BY HandleType
<1>3. LockTypes'
  BY <1>1 DEF Inv, Types, LockTypes
<1>4. /\ Changes(s, i) /\ handle'[s][i].encoding = handle[s][i].encoding
      /\ handle'[s][i].omx = "idling" /\ handle'[s][i].abort = "done"
  BY <1>1, <1>2 DEF Changes, HandleTypes, Components
<1> QED
  BY <1>1, <1>3, <1>4, HandleChanged

\* A component that becomes idle ends the abort of its handle.
LEMMA IdleCompleteStep ==
  ASSUME NEW s \in Sessions, NEW i \in HandleIds
  PROVE  Inv /\ Jpeg(IdleComplete(s, i)) => Inv'
<1> SUFFICES ASSUME Inv, IdleComplete(s, i), UNCHANGED procVars PROVE Inv'
  BY DEF Jpeg
<1>1. /\ handle[s][i].omx = "idling"
      /\ handle' = [handle EXCEPT ![s][i].omx = "idle", ![s][i].abort = Aborted(handle[s][i])]
      /\ UNCHANGED <<session, jobQueue, ongoingJobs, jobSem, jobLock, mgr, aborting, events>>
  BY DEF IdleComplete
<1>2. handle[s][i] \in HandleTypes /\ handle \in [Sessions -> [HandleIds -> HandleTypes]]
  BY HandleType
<1>3. LockTypes'
  BY <1>1 DEF Inv, Types, LockTypes
<1>4. /\ Aborted(handle[s][i]) \in {"none", "init", "done"}
      /\ Aborted(handle[s][i]) = "none" => handle[s][i].abort = "none"
  BY <1>2 DEF Aborted, HandleTypes
<1>5. /\ Changes(s, i) /\ handle'[s][i].encoding = handle[s][i].encoding
      /\ handle'[s][i].omx = "idle" /\ handle'[s][i].abort = Aborted(handle[s][i])
  BY <1>1, <1>2, <1>4 DEF Changes, HandleTypes, Components
<1> QED
  BY <1>1, <1>3, <1>4, <1>5, HandleChanged

\* The handle that an abort works on.
LEMMA AbortTypes ==
  ASSUME Inv, aborting.at # "none"
  PROVE  /\ aborting.session \in Sessions /\ aborting.handle \in HandleIds
         /\ aborting \in [at : {"none", "next", "wait", "done"},
                          session : Sessions \cup {0}, handle : HandleIds \cup {0}]
         /\ jobLock = "client"
  BY DEF Inv, Types, LockTypes

\* After one handle is aborted the next one is, or the abort is over.
LEMMA AbortedOnTypes ==
  ASSUME Inv, aborting.at # "none", AbortedOn, UNCHANGED <<jobLock, mgr>>
  PROVE  LockTypes'
<1>1. /\ aborting.session \in Sessions /\ aborting.handle \in HandleIds
      /\ aborting \in [at : {"none", "next", "wait", "done"},
                       session : Sessions \cup {0}, handle : HandleIds \cup {0}]
      /\ jobLock = "client"
  BY AbortTypes
<1>2. /\ aborting'.at \in {"next", "done"} /\ aborting'.session \in Sessions
      /\ aborting'.handle \in HandleIds
      /\ aborting' \in [at : {"none", "next", "wait", "done"},
                        session : Sessions \cup {0}, handle : HandleIds \cup {0}]
  <2>1. CASE aborting.handle = Handles
    BY <1>1, <2>1 DEF AbortedOn
  <2>2. CASE aborting.handle # Handles
    <3>1. aborting.handle + 1 \in HandleIds
      BY <1>1, <2>2, JpegAssumption DEF HandleIds
    <3> QED
      BY <1>1, <2>2, <3>1 DEF AbortedOn
  <2> QED
    BY <2>1, <2>2
<1> QED
  BY <1>1, <1>2 DEF Inv, Types, LockTypes

\* Beginning to abort a handle stops its component, which keeps its frame.
LEMMA AbortNextStep == Inv /\ Jpeg(AbortNext) => Inv'
<1> SUFFICES ASSUME Inv, AbortNext, UNCHANGED procVars PROVE Inv'
  BY DEF Jpeg
<1>0. PICK s, i : s = aborting.session /\ i = aborting.handle
  OBVIOUS
<1>1. /\ aborting.at = "next"
      /\ UNCHANGED <<session, jobQueue, ongoingJobs, jobSem, jobLock, mgr, events>>
  BY DEF AbortNext
<1>2. /\ s \in Sessions /\ i \in HandleIds
      /\ aborting \in [at : {"none", "next", "wait", "done"},
                       session : Sessions \cup {0}, handle : HandleIds \cup {0}]
      /\ jobLock = "client"
  BY <1>0, <1>1, AbortTypes
<1>3. handle[s][i] \in HandleTypes /\ handle \in [Sessions -> [HandleIds -> HandleTypes]]
  BY <1>2, HandleType
<1>4. handle[s][i].omx \in {"busy", "flushing"} => handle[s][i].encoding
  BY <1>2 DEF Inv, HandleInv, Encodes
<1>5. CASE aborting' = [aborting EXCEPT !.at = "done"] /\ handle' = handle
  <2>1. LockTypes'
    BY <1>0, <1>1, <1>2, <1>5 DEF Inv, Types, LockTypes
  <2>2. Changes(s, i)
    BY <1>3, <1>5 DEF Changes
  <2> QED
    BY <1>1, <1>2, <1>4, <1>5, <2>1, <2>2, HandleChanged
<1>6. CASE /\ handle[s][i].abort = "none" /\ handle[s][i].encoding
           /\ handle' = [handle EXCEPT ![s][i].abort = "init", ![s][i].omx = "flushing"]
           /\ aborting' = [aborting EXCEPT !.at = "wait"]
  <2>1. LockTypes'
    BY <1>0, <1>1, <1>2, <1>6 DEF Inv, Types, LockTypes
  <2>2. /\ Changes(s, i) /\ handle'[s][i].encoding = handle[s][i].encoding
        /\ handle'[s][i].abort = "init" /\ handle'[s][i].omx = "flushing"
    BY <1>2, <1>3, <1>6 DEF Changes, HandleTypes, Components
  <2> QED
    BY <1>1, <1>2, <1>6, <2>1, <2>2, HandleChanged
<1>7. CASE /\ handle' = [handle EXCEPT ![s][i].abort = "done"]
           /\ AbortedOn
  <2>1. LockTypes'
    BY <1>1, <1>7, AbortedOnTypes
  <2>2. /\ Changes(s, i) /\ handle'[s][i].encoding = handle[s][i].encoding
        /\ handle'[s][i].abort = "done" /\ handle'[s][i].omx = handle[s][i].omx
    BY <1>2, <1>3, <1>7 DEF Changes, HandleTypes, Components
  <2> QED
    BY <1>1, <1>2, <1>4, <2>1, <2>2, HandleChanged
<1> QED
  BY <1>0, <1>5, <1>6, <1>7 DEF AbortNext

\* The abort of a handle is over, and the next one's begins.
LEMMA AbortWaitStep == Inv /\ Jpeg(AbortWait) => Inv'
<1> SUFFICES ASSUME Inv, AbortWait, UNCHANGED procVars PROVE Inv'
  BY DEF Jpeg
<1>0. PICK s, i : s = aborting.session /\ i = aborting.handle
  OBVIOUS
<1>1. /\ aborting.at = "wait" /\ handle' = [handle EXCEPT ![s][i].abort = "done"] /\ AbortedOn
      /\ UNCHANGED <<session, jobQueue, ongoingJobs, jobSem, jobLock, mgr, events>>
  BY <1>0 DEF AbortWait
<1>2. s \in Sessions /\ i \in HandleIds
  BY <1>0, <1>1, AbortTypes
<1>3. handle[s][i] \in HandleTypes /\ handle \in [Sessions -> [HandleIds -> HandleTypes]]
  BY <1>2, HandleType
<1>4. handle[s][i].omx \in {"busy", "flushing"} => handle[s][i].encoding
  BY <1>2 DEF Inv, HandleInv, Encodes
<1>5. LockTypes'
  BY <1>1, AbortedOnTypes
<1>6. /\ Changes(s, i) /\ handle'[s][i].encoding = handle[s][i].encoding
      /\ handle'[s][i].abort = "done" /\ handle'[s][i].omx = handle[s][i].omx
  BY <1>1, <1>2, <1>3 DEF Changes, HandleTypes, Components
<1> QED
  BY <1>1, <1>2, <1>4, <1>5, <1>6, HandleChanged

\* Components that are left running are made idle before their session goes.
LEMMA DestroyIdlesStep == Inv /\ DestroyIdles => Inv'
<1> SUFFICES ASSUME Inv, DestroyBusy, UNCHANGED procVars PROVE Inv'
  BY DEF DestroyIdles
<1>0. PICK s : s = aborting.session
  OBVIOUS
<1>1. /\ aborting.at = "done"
      /\ UNCHANGED <<session, jobQueue, ongoingJobs, jobSem, jobLock, mgr, aborting, events>>
  BY DEF DestroyBusy
<1>2. PICK i \in HandleIds : /\ handle[s][i].omx = "busy"
                             /\ handle' = [handle EXCEPT ![s][i].omx = "flushing"]
  BY <1>0 DEF DestroyBusy
<1>3. s \in Sessions
  BY <1>0, <1>1, AbortTypes
<1>4. handle[s][i] \in HandleTypes /\ handle \in [Sessions -> [HandleIds -> HandleTypes]]
  BY <1>2, <1>3, HandleType
<1>5. handle[s][i].encoding
  BY <1>2, <1>3 DEF Inv, HandleInv, Encodes
<1>6. LockTypes'
  BY <1>1 DEF Inv, Types, LockTypes
<1>7. /\ Changes(s, i) /\ handle'[s][i].encoding = handle[s][i].encoding
      /\ handle'[s][i].abort = handle[s][i].abort /\ handle'[s][i].omx = "flushing"
  BY <1>2, <1>3, <1>4 DEF Changes, HandleTypes, Components
<1> QED
  BY <1>1, <1>2, <1>3, <1>5, <1>6, <1>7, HandleChanged
-----------------------------------------------------------------------------
(* The invariant, and what follows from it. *)

\* Nothing changes when no variable does.
LEMMA InvStutters == Inv /\ UNCHANGED vars => Inv'
<1> SUFFICES ASSUME Inv, UNCHANGED procVars, UNCHANGED jpegVars PROVE Inv'
  BY DEF vars
<1>1. /\ ProcTypes' /\ FrameInv' /\ HasSession' /\ (Shut' <=> Shut) /\ arrived' = arrived
      /\ \A f \in 1..arrived : Unstarted(f)' => Unstarted(f)
  BY ProcKept
<1>2. proc' = proc
  BY DEF procVars
<1>3. JobTypes' /\ LockTypes' /\ RoomLeft' /\ JobInv' /\ HandleInv'
  BY <1>1, <1>2, JpegKept
<1> QED
  BY <1>1, <1>3 DEF Inv, Types

\* Every step keeps the invariant: one lemma for each action.
LEMMA InvStep == Inv /\ [Next]_vars => Inv'
<1> SUFFICES ASSUME Inv, [Next]_vars PROVE Inv'
  OBVIOUS
<1>1. CASE \E k \in Pictures : Start(k)
  BY <1>1, StartStep
<1>2. CASE Stop \/ StopDone \/ JpegEvent \/ CloseSessions \/ Close
  BY <1>2, StopStep, StopDoneStep, JpegEventStep, CloseSessionsStep, CloseStep
<1>3. CASE NewFrame \/ FrameSent \/ Reprocessed
  BY <1>3, NewFrameStep, FrameSentStep, ReprocessedStep
<1>4. CASE Proc
  BY <1>4, CommandStep, EncodeStep, EncodeStartsStep, EncodeStoresStep, ReprocessStep, CancelStep,
     CancelWaitStep, DestroyStep, DestroyIdlesStep, DestroyWaitStep, FlushStep, FlagStep DEF Proc
<1>5. CASE Jpeg(Mgr)
  BY <1>5, MgrWaitStep, MgrTakeStep, MgrEmptyStep, MgrFillStep DEF Jpeg, Mgr
<1>6. CASE Jpeg(Abort)
  BY <1>6, AbortNextStep, AbortWaitStep DEF Jpeg, Abort
<1>7. CASE \E s \in Sessions, i \in HandleIds : Jpeg(Component(s, i))
  <2>1. PICK s \in Sessions, i \in HandleIds : Jpeg(Component(s, i))
    BY <1>7
  <2> QED
    BY <2>1, FillBufferDoneStep, ErrorEventStep, ErrorInAbortStep, IdleCompleteStep
       DEF Jpeg, Component
<1>8. CASE UNCHANGED vars
  BY <1>8, InvStutters
<1> QED
  BY <1>1, <1>2, <1>3, <1>4, <1>5, <1>6, <1>7, <1>8 DEF Next

\* The invariant holds always: the types and the locks, every frame in one place,
\* one job of each frame, and the bookkeeping of the handles.
THEOREM InvAlways == Spec => []Inv
<1>1. Init => Inv
  BY InvInit
<1>2. Inv /\ [Next]_vars => Inv'
  BY InvStep
<1> QED
  BY <1>1, <1>2, PTL DEF Spec

\* The types, the bound on ongoing jobs and the job lock.
LEMMA TypesHold == Types => TypeOK
<1> SUFFICES ASSUME Types PROVE TypeOK
  OBVIOUS
<1>1. ProcTypes /\ JobTypes /\ LockTypes /\ RoomLeft
  BY DEF Types
<1>2. {inputPPQ, ongoingPPQ, inputJpegQ, reprocessed} \subseteq Seq(1..arrived)
  BY <1>1 DEF ProcTypes
<1>3. ongoingJpegQ \in Seq([frame : 1..arrived, job : 0..arrived])
  BY <1>1 DEF ProcTypes, Entries
<1>4. handle \in [Sessions -> [HandleIds ->
        [abort : {"none", "init", "done"}, encoding : BOOLEAN, failed : BOOLEAN,
         frame : 0..arrived,
         omx : {"none", "exec", "half", "busy", "flushing", "idling", "idle"}]]]
  BY <1>1 DEF JobTypes, HandleTypes, Components
<1>5. jobSem \in Nat /\ Len(ongoingJobs) <= MaxOngoing
  BY <1>1 DEF JobTypes, RoomLeft
<1>6. (jobLock = "mgr") = (mgr.at \in {"empty", "fill"}) /\ (jobLock = "client") = (aborting.at # "none")
  BY <1>1 DEF LockTypes
<1> QED
  BY <1>1, <1>2, <1>3, <1>4, <1>5, <1>6 DEF TypeOK, ProcTypes

\* An element is once in a sequence of distinct elements, or not at all.
LEMMA PlaceCount ==
  ASSUME NEW D, NEW P, P \subseteq D, \A j, k \in P : j = k
  PROVE  Cardinality(P) = One(\E k \in D : k \in P)
<1>1. CASE P = {}
  BY <1>1, FS_EmptySet DEF One
<1>2. CASE P # {}
  <2>1. PICK k : P = {k}
    BY <1>2
  <2> QED
    BY <2>1, FS_Singleton DEF One
<1> QED
  BY <1>1, <1>2

\* Counting the places of a frame in a queue of distinct frames.
LEMMA QueueCount ==
  ASSUME NEW q, Distinct(q), NEW f
  PROVE  Cardinality({k \in DOMAIN q : q[k] = f}) = One(InQueue(q, f))
<1> DEFINE P == {k \in DOMAIN q : q[k] = f}
<1>1. P \subseteq DOMAIN q /\ \A j, k \in P : j = k
  BY DEF Distinct
<1>2. (\E k \in DOMAIN q : k \in P) <=> InQueue(q, f)
  BY DEF InQueue
<1> HIDE DEF P
<1>3. Cardinality(P) = One(\E k \in DOMAIN q : k \in P)
  BY <1>1, PlaceCount
<1> QED
  BY <1>2, <1>3 DEF One, P

\* The same for ongoing JPEG jobs.
LEMMA EntryCount ==
  ASSUME NEW q, DistinctEntries(q), NEW f
  PROVE  Cardinality({k \in DOMAIN q : q[k].frame = f}) = One(InEntries(q, f))
<1> DEFINE P == {k \in DOMAIN q : q[k].frame = f}
<1>1. P \subseteq DOMAIN q /\ \A j, k \in P : j = k
  BY DEF DistinctEntries
<1>2. (\E k \in DOMAIN q : k \in P) <=> InEntries(q, f)
  BY DEF InEntries
<1> HIDE DEF P
<1>3. Cardinality(P) = One(\E k \in DOMAIN q : k \in P)
  BY <1>1, PlaceCount
<1> QED
  BY <1>2, <1>3 DEF One, P

\* Every frame that came is in one place: a queue of the post-processor, the hand of
\* the thread that aborts it, or given back (processData to releaseJpegJobData).
THEOREM FramesAlwaysAccounted == Spec => []FramesAccounted
<1>1. Inv => FramesAccounted
  <2> SUFFICES ASSUME Inv, NEW f \in 1..arrived PROVE Places(f) = 1
    BY DEF FramesAccounted
  <2>1. QueuesDistinct /\ Spots(f) = 1
    BY DEF Inv, FrameInv, FramesOnce
  <2>2. /\ Cardinality({k \in DOMAIN inputPPQ : inputPPQ[k] = f}) = One(InQueue(inputPPQ, f))
        /\ Cardinality({k \in DOMAIN ongoingPPQ : ongoingPPQ[k] = f}) = One(InQueue(ongoingPPQ, f))
        /\ Cardinality({k \in DOMAIN inputJpegQ : inputJpegQ[k] = f}) = One(InQueue(inputJpegQ, f))
    BY <2>1, QueueCount DEF QueuesDistinct
  <2>3. Cardinality({k \in DOMAIN ongoingJpegQ : ongoingJpegQ[k].frame = f})
          = One(InEntries(ongoingJpegQ, f))
    BY <2>1, EntryCount DEF QueuesDistinct
  <2>4. /\ (IF proc.at = "cancelWait" /\ proc.frame = f THEN 1 ELSE 0) = One(Canceled(f))
        /\ (IF f \in released THEN 1 ELSE 0) = One(f \in released)
    BY DEF One, Canceled
  <2> QED
    BY <2>1, <2>2, <2>3, <2>4 DEF Places, Spots
<1> QED
  BY <1>1, InvAlways, PTL

\* Every handle of an active session that was not aborted is in session_handle_q once,
\* or encodes, or was just given its one job by the manager (mm_jpegenc_job_done).
THEOREM HandlesAlwaysAccounted == Spec => []HandlesAccounted
<1>1. Inv => HandlesAccounted
  <2> SUFFICES ASSUME Inv PROVE HandlesAccounted
    OBVIOUS
  <2>1. TypeOK
    BY TypesHold DEF Inv
  <2>2. ASSUME NEW s \in Sessions, NEW i \in HandleIds, session[s].active,
               handle[s][i].abort = "none"
        PROVE  IF handle[s][i].encoding THEN Waiting(s, i) = 0
               ELSE Waiting(s, i) = 1 \/ (Waiting(s, i) = 0 /\ Working(s, i) = 1)
    <3>1. Waiting(s, i) = One(Free(s, i))
      <4>1. Distinct(session[s].free)
        BY DEF Inv, HandleInv, FreeOnce
      <4> QED
        BY <4>1, QueueCount DEF Waiting, Free
    <3>2. CASE handle[s][i].encoding
      BY <3>1, <3>2 DEF Inv, HandleInv, Encodes, One
    <3>3. CASE ~handle[s][i].encoding /\ Free(s, i)
      BY <3>1, <3>3 DEF One
    <3>4. CASE ~handle[s][i].encoding /\ ~Free(s, i)
      <4>1. mgr.at = "empty" /\ mgr.session = s /\ mgr.handle = i
        BY <2>2, <3>4 DEF Inv, HandleInv, NotFree
      <4>2. PICK k \in DOMAIN ongoingJobs : ongoingJobs[k] = Job(handle[s][i].frame, s)
        BY <4>1 DEF Inv, HandleInv, MgrHolds
      <4> DEFINE P == {m \in DOMAIN ongoingJobs : /\ OfSession(ongoingJobs[m], s)
                                                  /\ OfFrame(ongoingJobs[m], handle[s][i].frame)}
      <4>3. k \in P
        BY <4>2 DEF Job, OfSession, OfFrame
      <4>4. P \subseteq DOMAIN ongoingJobs /\ \A j, m \in P : j = m
        BY DEF Inv, JobInv, JobsOnce, DistinctJobs, OfFrame
      <4>5. Working(s, i) = Cardinality(P)
        BY DEF Working
      <4> HIDE DEF P
      <4>6. Working(s, i) = 1
        BY <4>3, <4>4, <4>5, PlaceCount DEF One
      <4>7. Waiting(s, i) = 0
        BY <3>1, <3>4 DEF One
      <4> QED
        BY <3>4, <4>6, <4>7
    <3> QED
      BY <3>2, <3>3, <3>4
  <2> QED
    BY <2>1, <2>2 DEF HandlesAccounted
<1> QED
  BY <1>1, InvAlways, PTL
=============================================================================
