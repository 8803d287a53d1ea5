------------------------- MODULE SuperbufQueue_proofs -------------------------
(***************************************************************************)
(* Proofs about SuperbufQueue, for any bundle of streams, any limits and   *)
(* any requests.                                                           *)
(*                                                                         *)
(* A command is processed by operators on the state of the channel.  The   *)
(* lemmas say of each that it keeps the channel good and that the buffers  *)
(* which the channel owns, in its queue or on their way back to the        *)
(* kernel, remain the same but for the one that arrives.                   *)
(***************************************************************************)
EXTENDS SuperbufQueue, FiniteSetTheorems, SequenceTheorems, WellFoundedInduction, TLAPS

Frames == Streams \X (1..MaxFrame)

\* The states of a channel whose thread does not spin.
Channel ==
  [queue : Seq(Node), match_cnt : Nat, expected : Nat, expectedNoLed : Nat,
   pending_cnt : Nat, notify_mode : {"BURST", "CONTINUOUS"},
   needLEDFlash : BOOLEAN, need3ABracketing : BOOLEAN,
   isFlashBracketing : BOOLEAN, isZoom1x : BOOLEAN, startZSl : BOOLEAN,
   spinning : {FALSE}, done : SUBSET Frames]

\* The order of a queue of which the first k nodes are matched.
InOrder(q, k) ==
  /\ k \in 0..Len(q)
  /\ \A i \in 1..Len(q) : q[i].matched <=> i <= k
  /\ \A i, j \in 1..Len(q) : i < j => q[i].frame_idx < q[j].frame_idx
  /\ \A i \in 1..Len(q) : q[i].matched => q[i].have = Streams
  /\ Cardinality(Streams) = 1 => k = Len(q)

Good(c) ==
  /\ c \in Channel
  /\ InOrder(c.queue, c.match_cnt)
  /\ BufsIn(c.queue) \cap c.done = {}

Owned(c) == BufsIn(c.queue) \cup c.done

\* What the operators leave alone.
Alike(c, d) == /\ d.pending_cnt = c.pending_cnt
               /\ d.notify_mode = c.notify_mode
               /\ d.startZSl = c.startZSl

Took(c, d) == Good(d) /\ Owned(d) = Owned(c) /\ Alike(c, d)
-----------------------------------------------------------------------------
(* Numbers. *)

LEMMA MinOf ==
  ASSUME NEW S, S \subseteq Nat, S # {}
  PROVE  Min(S) \in S /\ \A y \in S : Min(S) <= y
<1>1. PICK x \in S : \A y \in S : ~(<<y, x>> \in OpToRel(<, Nat))
  BY NatLessThanWellFounded, WFMin
<1>2. \A y \in S : x <= y
  <2> TAKE y \in S
  <2>1. x \in Nat /\ y \in Nat
    OBVIOUS
  <2>2. ~(y < x)
    BY <1>1, <2>1, Zenon DEF OpToRel
  <2> QED
    BY <2>1, <2>2
<1> QED
  BY <1>2 DEF Min

LEMMA MaxOf ==
  ASSUME NEW n \in Nat, NEW S, S \subseteq 0..n, S # {}
  PROVE  Max(S) \in S /\ \A y \in S : y <= Max(S)
<1> DEFINE T == {n - x : x \in S}
<1>1. T \subseteq Nat /\ T # {}
  <2>1. \A x \in S : n - x \in Nat
    OBVIOUS
  <2>2. PICK x \in S : TRUE
    OBVIOUS
  <2>3. n - x \in T
    OBVIOUS
  <2> QED
    BY <2>1, <2>3
<1>2. Min(T) \in T /\ \A y \in T : Min(T) <= y
  BY <1>1, MinOf
<1>3. PICK x \in S : Min(T) = n - x
  BY <1>2
<1>4. \A y \in S : x >= y
  <2> TAKE y \in S
  <2>1. n - x <= n - y
    BY <1>2, <1>3
  <2> QED
    BY <2>1
<1> QED
  BY <1>4 DEF Max

LEMMA MaxPair ==
  ASSUME NEW x \in Int, NEW y \in Int
  PROVE  Max({x, y}) = IF x >= y THEN x ELSE y
BY DEF Max

LEMMA MinPair ==
  ASSUME NEW x \in Int, NEW y \in Int
  PROVE  Min({x, y}) = IF x <= y THEN x ELSE y
BY DEF Min

\* Cap keeps a number a number.
LEMMA CapType == ASSUME NEW n \in Nat PROVE Cap(n) \in Nat
BY ConstantsOK, MinPair DEF Cap

\* The ascending sequence of a set of positive numbers has just these elements.
LEMMA AscendingOrder ==
  ASSUME NEW n \in Nat, NEW S, S \subseteq 1..n
  PROVE  /\ Ascending(S) \in Seq(S) /\ Len(Ascending(S)) = Cardinality(S)
         /\ Cardinality(S) \in Nat
         /\ \A x \in S : \E i \in 1..Cardinality(S) : Ascending(S)[i] = x
         /\ \A i, j \in 1..Cardinality(S) : i < j => Ascending(S)[i] < Ascending(S)[j]
<1> DEFINE Upto(x) == {y \in S : y <= x}
           rank == [x \in S |-> Cardinality(Upto(x))]
           N == Cardinality(S)
<1>0. \A x \in S : x \in Nat
  OBVIOUS
<1>1. IsFiniteSet(S) /\ N \in Nat
  <2>1. IsFiniteSet(1..n) /\ S \in SUBSET (1..n)
    BY FS_Interval
  <2> QED
    BY <2>1, FS_Subset, FS_CardinalityType
<1>2. \A x \in S : IsFiniteSet(Upto(x)) /\ rank[x] \in 1..N
  <2> TAKE x \in S
  <2>1. IsFiniteSet(Upto(x)) /\ Cardinality(Upto(x)) <= N
    BY <1>1, FS_Subset
  <2>2. Cardinality(Upto(x)) \in Nat /\ Cardinality(Upto(x)) # 0
    <3>1. x \in Upto(x)
      OBVIOUS
    <3> QED
      BY <2>1, <3>1, FS_EmptySet, FS_CardinalityType
  <2> QED
    BY <1>1, <2>1, <2>2
<1>3. \A x, y \in S : x < y => rank[x] < rank[y]
  <2> SUFFICES ASSUME NEW x \in S, NEW y \in S, x < y PROVE rank[x] < rank[y]
    OBVIOUS
  <2>0. x < y
    OBVIOUS
  <2>1. Upto(x) \subseteq Upto(y) /\ y \in Upto(y) /\ y \notin Upto(x)
    <3>1. \A z \in S : z <= x => z <= y
      BY <1>0, <2>0
    <3>2. y <= y /\ ~(y <= x)
      BY <1>0, <2>0
    <3> QED
      BY <3>1, <3>2
  <2>2. Cardinality(Upto(x)) <= Cardinality(Upto(y)) /\ Cardinality(Upto(x)) # Cardinality(Upto(y))
    BY <1>2, <2>1, FS_Subset
  <2> QED
    BY <1>1, <1>2, <2>2
<1>r. \A x \in S : rank[x] = Cardinality(Upto(x))
  OBVIOUS
<1>d. rank \in [S -> 1..N] /\ N \in Nat
  BY <1>1, <1>2
<1>f. IsFiniteSet(1..N) /\ Cardinality(1..N) = N
  BY <1>1, FS_Interval
<1> HIDE DEF rank, N
<1>4. rank \in Injection(S, 1..N)
  <2>2. ASSUME NEW x \in S, NEW y \in S, rank[x] = rank[y] PROVE x = y
    <3>1. ~(x < y) /\ ~(y < x)
      BY <1>d, <1>3, <2>2
    <3> QED
      BY <1>0, <3>1
  <2> QED
    BY <1>d, <2>2 DEF Injection, IsInjective
<1>5. rank \in Surjection(S, 1..N)
  <2> QED
    BY <1>1, <1>4, <1>f, FS_Injection DEF N
<1>6. \A i \in 1..N : \E x \in S : rank[x] = i
  BY <1>5 DEF Surjection
<1>7. \A i \in 1..N : Ascending(S)[i] \in S /\ rank[Ascending(S)[i]] = i
  <2> TAKE i \in 1..N
  <2>1. Ascending(S)[i] = CHOOSE x \in S : Cardinality(Upto(x)) = i
    BY DEF Ascending, N
  <2> QED
    BY <1>6, <1>r, <2>1
<1>8. DOMAIN Ascending(S) = 1..N /\ Ascending(S) \in [1..N -> S]
  BY <1>7 DEF Ascending, N
<1> DEFINE A == Ascending(S)
<1>9. A \in Seq(S) /\ Len(A) = N /\ \A i \in 1..N : A[i] \in S /\ rank[A[i]] = i
  BY <1>d, <1>7, <1>8
<1> HIDE DEF A
<1>10. ASSUME NEW x \in S PROVE \E i \in 1..N : A[i] = x
  <2>1. rank[x] \in 1..N /\ rank[A[rank[x]]] = rank[x] /\ A[rank[x]] \in S
    BY <1>d, <1>9
  <2>2. A[rank[x]] = x
    BY <1>4, <2>1 DEF Injection, IsInjective
  <2> QED
    BY <2>1, <2>2
<1>11. ASSUME NEW i \in 1..N, NEW j \in 1..N, i < j PROVE A[i] < A[j]
  <2>1. A[i] \in Nat /\ A[j] \in Nat
    BY <1>0, <1>9
  <2>2. ~(A[j] < A[i]) /\ A[j] # A[i]
    BY <1>d, <1>3, <1>9, <1>11
  <2> QED
    BY <2>1, <2>2
<1> QED
  BY <1>d, <1>9, <1>10, <1>11 DEF N, A
-----------------------------------------------------------------------------
(* Queues of nodes. *)

\* Frames are pairs.
LEMMA Pairs ==
  ASSUME NEW A, NEW B, A \subseteq Frames, B \subseteq Frames,
         \A s \in Streams, f \in 1..MaxFrame : <<s, f>> \in A <=> <<s, f>> \in B
  PROVE  A = B
<1>1. \A b \in Frames : \E s \in Streams, f \in 1..MaxFrame : b = <<s, f>>
  BY DEF Frames
<1>2. \A b \in Frames : b \in A <=> b \in B
  BY <1>1
<1> QED
  BY <1>2

LEMMA Nodes ==
  ASSUME NEW q \in Seq(Node)
  PROVE  /\ Len(q) \in Nat /\ DOMAIN q = 1..Len(q)
         /\ \A i \in 1..Len(q) : /\ q[i] \in Node /\ q[i].frame_idx \in 1..MaxFrame
                                 /\ q[i].frame_idx \in Nat
                                 /\ q[i].have \subseteq Streams /\ q[i].matched \in BOOLEAN
<1>1. Len(q) \in Nat /\ DOMAIN q = 1..Len(q) /\ \A i \in 1..Len(q) : q[i] \in Node
  BY LenProperties, ElementOfSeq
<1>2. \A n \in Node : /\ n.frame_idx \in 1..MaxFrame /\ n.frame_idx \in Nat
                      /\ n.have \subseteq Streams /\ n.matched \in BOOLEAN
  BY ConstantsOK DEF Node
<1> QED
  BY <1>1, <1>2

\* What a queue of nodes holds.
LEMMA BufIn ==
  ASSUME NEW q \in Seq(Node)
  PROVE  /\ BufsIn(q) \subseteq Frames
         /\ \A s, f : <<s, f>> \in BufsIn(q) <=>
                        \E i \in 1..Len(q) : s \in q[i].have /\ f = q[i].frame_idx
<1>1. \A b : b \in BufsIn(q) <=> \E i \in 1..Len(q) : b \in BufsOf(q[i])
  BY Nodes DEF BufsIn
<1>2. \A i \in 1..Len(q) : BufsOf(q[i]) \subseteq Frames
  BY Nodes DEF BufsOf, Frames
<1>3. \A n, s, f : <<s, f>> \in BufsOf(n) <=> s \in n.have /\ f = n.frame_idx
  BY DEF BufsOf
<1>4. BufsIn(q) \subseteq Frames
  BY <1>1, <1>2
<1>5. \A s, f : <<s, f>> \in BufsIn(q) <=> \E i \in 1..Len(q) : <<s, f>> \in BufsOf(q[i])
  BY <1>1
<1> QED
  BY <1>3, <1>4, <1>5

\* A queue is cut behind its node n.
LEMMA Cut ==
  ASSUME NEW q \in Seq(Node), NEW n \in 0..Len(q)
  PROVE  /\ From(q, n) \in Seq(Node) /\ Len(From(q, n)) = Len(q) - n
         /\ \A i \in 1..Len(q) - n : From(q, n)[i] = q[n + i]
         /\ SubSeq(q, 1, n) \in Seq(Node) /\ Len(SubSeq(q, 1, n)) = n
         /\ \A i \in 1..n : SubSeq(q, 1, n)[i] = q[i]
<1>1. Len(q) \in Nat /\ \A i \in 1..Len(q) : q[i] \in Node
  BY Nodes
<1>2. /\ SubSeq(q, n + 1, Len(q)) \in Seq(Node)
      /\ Len(SubSeq(q, n + 1, Len(q))) = Len(q) - n
      /\ \A i \in 1..Len(q) - n : SubSeq(q, n + 1, Len(q))[i] = q[n + i]
  <2>1. n + 1 \in Int /\ Len(q) \in Int /\ \A i \in n + 1..Len(q) : q[i] \in Node
    BY <1>1
  <2>2. /\ SubSeq(q, n + 1, Len(q)) \in Seq(Node)
        /\ Len(SubSeq(q, n + 1, Len(q))) = IF n + 1 <= Len(q) THEN Len(q) - (n + 1) + 1 ELSE 0
        /\ \A i \in 1..Len(q) - (n + 1) + 1 :
             SubSeq(q, n + 1, Len(q))[i] = q[n + 1 + i - 1]
    BY <2>1, SubSeqProperties
  <2>3. \A i \in 1..Len(q) - n : i \in 1..Len(q) - (n + 1) + 1 /\ n + 1 + i - 1 = n + i
    BY <1>1
  <2> QED
    BY <1>1, <2>2, <2>3
<1>3. /\ SubSeq(q, 1, n) \in Seq(Node) /\ Len(SubSeq(q, 1, n)) = n
      /\ \A i \in 1..n : SubSeq(q, 1, n)[i] = q[i]
  <2>1. 1 \in Int /\ n \in Int /\ \A i \in 1..n : q[i] \in Node
    BY <1>1
  <2>2. /\ SubSeq(q, 1, n) \in Seq(Node)
        /\ Len(SubSeq(q, 1, n)) = IF 1 <= n THEN n - 1 + 1 ELSE 0
        /\ \A i \in 1..n - 1 + 1 : SubSeq(q, 1, n)[i] = q[1 + i - 1]
    BY <2>1, SubSeqProperties
  <2>3. \A i \in 1..n : i \in 1..n - 1 + 1 /\ 1 + i - 1 = i
    BY <1>1
  <2> QED
    BY <1>1, <2>2, <2>3
<1> QED
  BY <1>2, <1>3 DEF From

\* The buffers are in one of the parts.
LEMMA CutBufs ==
  ASSUME NEW q \in Seq(Node), NEW n \in 0..Len(q), NEW k, InOrder(q, k)
  PROVE  /\ BufsIn(SubSeq(q, 1, n)) \cup BufsIn(From(q, n)) = BufsIn(q)
         /\ BufsIn(SubSeq(q, 1, n)) \cap BufsIn(From(q, n)) = {}
<1> DEFINE u == SubSeq(q, 1, n)
           v == From(q, n)
<1>1. /\ u \in Seq(Node) /\ v \in Seq(Node) /\ Len(u) = n /\ Len(v) = Len(q) - n
      /\ \A i \in 1..n : u[i] = q[i]
      /\ \A i \in 1..Len(q) - n : v[i] = q[n + i]
  BY Cut
<1>2. Len(q) \in Nat /\ \A i \in 1..Len(q) : q[i].frame_idx \in Nat
  BY Nodes
<1> HIDE DEF u, v
<1>3. BufsIn(u) \subseteq Frames /\ BufsIn(v) \subseteq Frames /\ BufsIn(q) \subseteq Frames
  BY <1>1, BufIn
<1>4. ASSUME NEW s, NEW f
      PROVE  <<s, f>> \in BufsIn(q) <=> <<s, f>> \in BufsIn(u) \/ <<s, f>> \in BufsIn(v)
  <2>1. \A i \in 1..Len(q) : i \in 1..n \/ \E j \in 1..Len(q) - n : i = n + j
    <3> TAKE i \in 1..Len(q)
    <3>1. CASE i <= n
      BY <3>1
    <3>2. CASE i > n
      <4>1. i - n \in 1..Len(q) - n /\ i = n + (i - n)
        BY <1>2, <3>2
      <4> QED
        BY <4>1
    <3> QED
      BY <3>1, <3>2, <1>2
  <2>2. \A i \in 1..n : i \in 1..Len(q)
    BY <1>2
  <2>3. \A i \in 1..Len(q) - n : n + i \in 1..Len(q)
    BY <1>2
  <2>4. <<s, f>> \in BufsIn(q) => <<s, f>> \in BufsIn(u) \/ <<s, f>> \in BufsIn(v)
    <3> SUFFICES ASSUME <<s, f>> \in BufsIn(q) PROVE <<s, f>> \in BufsIn(u) \/ <<s, f>> \in BufsIn(v)
      OBVIOUS
    <3>1. PICK i \in 1..Len(q) : s \in q[i].have /\ f = q[i].frame_idx
      BY BufIn
    <3>2. CASE i \in 1..n
      BY <1>1, <3>1, <3>2, BufIn
    <3>3. CASE \E j \in 1..Len(q) - n : i = n + j
      BY <1>1, <3>1, <3>3, BufIn
    <3> QED
      BY <2>1, <3>2, <3>3
  <2>5. <<s, f>> \in BufsIn(u) => <<s, f>> \in BufsIn(q)
    BY <1>1, <2>2, BufIn
  <2>6. <<s, f>> \in BufsIn(v) => <<s, f>> \in BufsIn(q)
    <3> SUFFICES ASSUME <<s, f>> \in BufsIn(v) PROVE <<s, f>> \in BufsIn(q)
      OBVIOUS
    <3>0. <<s, f>> \in BufsIn(v) <=> \E j \in 1..Len(v) : s \in v[j].have /\ f = v[j].frame_idx
      <4>1. v \in Seq(Node)
        BY <1>1
      <4> QED
        BY <4>1, BufIn
    <3>1. PICK j \in 1..Len(v) : s \in v[j].have /\ f = v[j].frame_idx
      BY <3>0
    <3>2. j \in 1..Len(q) - n /\ n + j \in 1..Len(q) /\ v[j] = q[n + j]
      BY <1>1, <2>3
    <3> QED
      BY <3>1, <3>2, BufIn
  <2> QED
    BY <2>4, <2>5, <2>6
<1>5. ASSUME NEW s, NEW f PROVE ~(<<s, f>> \in BufsIn(u) /\ <<s, f>> \in BufsIn(v))
  <2> SUFFICES ASSUME <<s, f>> \in BufsIn(u), <<s, f>> \in BufsIn(v) PROVE FALSE
    OBVIOUS
  <2>1. PICK i \in 1..n : f = q[i].frame_idx
    BY <1>1, BufIn
  <2>2. PICK j \in 1..Len(q) - n : f = q[n + j].frame_idx
    BY <1>1, BufIn
  <2>3. i \in 1..Len(q) /\ n + j \in 1..Len(q) /\ i < n + j
    BY <1>2
  <2>4. q[i].frame_idx < q[n + j].frame_idx /\ q[i].frame_idx \in Nat
    BY <1>2, <2>3 DEF InOrder
  <2> QED
    BY <2>1, <2>2, <2>4
<1>6. BufsIn(u) \cup BufsIn(v) = BufsIn(q)
  <2>1. \A b \in Frames : b = <<b[1], b[2]>>
    BY DEF Frames
  <2>2. \A b \in Frames : b \in BufsIn(u) \cup BufsIn(v) <=> b \in BufsIn(q)
    BY <1>4, <2>1
  <2> QED
    BY <1>3, <2>2
<1>7. BufsIn(u) \cap BufsIn(v) = {}
  <2>1. \A b \in Frames : b = <<b[1], b[2]>>
    BY DEF Frames
  <2> QED
    BY <1>3, <1>5, <2>1
<1> QED
  BY <1>6, <1>7 DEF u, v

\* The matched nodes are the first k.
LEMMA Matched ==
  ASSUME NEW q \in Seq(Node), NEW k, InOrder(q, k)
  PROVE  /\ k \in Nat /\ k <= Len(q)
         /\ MatchedIn(q) = 1..k /\ Cardinality(MatchedIn(q)) = k
         /\ MatchedPrefix(q) = k
         /\ Unmatched(q) = k + 1..Len(q)
<1>1. Len(q) \in Nat /\ DOMAIN q = 1..Len(q) /\ k \in 0..Len(q) /\ k \in Nat
  BY Nodes DEF InOrder
<1>m. \A i \in 1..Len(q) : q[i].matched <=> i <= k
  BY DEF InOrder
<1>2. MatchedIn(q) = 1..k
  <2>1. \A i : i \in MatchedIn(q) <=> i \in 1..Len(q) /\ q[i].matched
    BY <1>1 DEF MatchedIn
  <2>2. \A i : i \in MatchedIn(q) <=> i \in 1..k
    BY <1>1, <1>m, <2>1
  <2> QED
    BY <2>2
<1>3. Cardinality(1..k) = k
  BY <1>1, FS_Interval
<1>4. Unmatched(q) = k + 1..Len(q)
  BY <1>1, <1>2 DEF Unmatched
<1>5. MatchedPrefix(q) = k
  <2> DEFINE S == {n \in 0..Len(q) : \A i \in 1..n : q[i].matched}
  <2>1. k \in S
    BY <1>1, <1>m
  <2>2. \A n \in S : n <= k
    <3> SUFFICES ASSUME NEW n \in S, n > k PROVE FALSE
      BY <1>1
    <3>1. k + 1 \in 1..n /\ k + 1 \in 1..Len(q)
      BY <1>1
    <3> QED
      BY <1>1, <1>m, <3>1
  <2>3. Max(S) \in S /\ \A n \in S : n <= Max(S)
    <3>1. S \subseteq 0..Len(q) /\ S # {}
      BY <2>1
    <3> QED
      BY <1>1, <3>1, MaxOf
  <2>4. Max(S) <= k /\ k <= Max(S) /\ Max(S) \in Nat
    BY <1>1, <2>1, <2>2, <2>3
  <2> QED
    BY <1>1, <2>4 DEF MatchedPrefix
<1> QED
  BY <1>1, <1>2, <1>3, <1>4, <1>5
\* The parts of a queue that is in order are in order.
LEMMA CutOrder ==
  ASSUME NEW q \in Seq(Node), NEW n \in 0..Len(q), NEW k, InOrder(q, k)
  PROVE  /\ InOrder(SubSeq(q, 1, n), IF n <= k THEN n ELSE k)
         /\ InOrder(From(q, n), IF n <= k THEN k - n ELSE 0)
<1> DEFINE u == SubSeq(q, 1, n)
           v == From(q, n)
<1>1. /\ u \in Seq(Node) /\ v \in Seq(Node) /\ Len(u) = n /\ Len(v) = Len(q) - n
      /\ \A i \in 1..n : u[i] = q[i]
      /\ \A i \in 1..Len(q) - n : v[i] = q[n + i]
  BY Cut
<1>2. Len(q) \in Nat /\ k \in 0..Len(q) /\ k \in Nat /\ n \in Nat /\ n <= Len(q)
  BY Nodes DEF InOrder
<1>3. /\ \A i \in 1..Len(q) : q[i].matched <=> i <= k
      /\ \A i, j \in 1..Len(q) : i < j => q[i].frame_idx < q[j].frame_idx
      /\ \A i \in 1..Len(q) : q[i].matched => q[i].have = Streams
      /\ Cardinality(Streams) = 1 => k = Len(q)
  BY DEF InOrder
<1> HIDE DEF u, v
<1>4. InOrder(u, IF n <= k THEN n ELSE k)
  <2>1. \A i \in 1..n : i \in 1..Len(q)
    BY <1>2
  <2> QED
    BY <1>1, <1>2, <1>3, <2>1 DEF InOrder
<1>5. InOrder(v, IF n <= k THEN k - n ELSE 0)
  <2>1. \A i \in 1..Len(q) - n : n + i \in 1..Len(q)
    BY <1>2
  <2>2. (IF n <= k THEN k - n ELSE 0) \in 0..Len(v)
    BY <1>1, <1>2
  <2>3. \A i \in 1..Len(v) : v[i].matched <=> i <= (IF n <= k THEN k - n ELSE 0)
    <3> TAKE i \in 1..Len(v)
    <3>1. v[i] = q[n + i] /\ (q[n + i].matched <=> n + i <= k) /\ i \in Nat /\ i >= 1
      BY <1>1, <1>2, <1>3, <2>1
    <3>2. n + i <= k <=> i <= (IF n <= k THEN k - n ELSE 0)
      BY <1>2, <3>1
    <3> QED
      BY <3>1, <3>2
  <2>4. \A i, j \in 1..Len(v) : i < j => v[i].frame_idx < v[j].frame_idx
    <3> TAKE i, j \in 1..Len(v)
    <3>1. v[i] = q[n + i] /\ v[j] = q[n + j] /\ n + i \in 1..Len(q) /\ n + j \in 1..Len(q)
      BY <1>1, <1>2, <2>1
    <3>2. i < j => n + i < n + j
      BY <1>2
    <3> QED
      BY <1>3, <3>1, <3>2
  <2>5. \A i \in 1..Len(v) : v[i].matched => v[i].have = Streams
    BY <1>1, <1>3, <2>1
  <2>6. Cardinality(Streams) = 1 => (IF n <= k THEN k - n ELSE 0) = Len(v)
    BY <1>1, <1>2, <1>3
  <2> QED
    BY <2>2, <2>3, <2>4, <2>5, <2>6 DEF InOrder
<1> QED
  BY <1>4, <1>5 DEF u, v

LEMMA PairOf == \A b \in Frames : b = <<b[1], b[2]>> /\ b[1] \in Streams /\ b[2] \in 1..MaxFrame
BY DEF Frames
-----------------------------------------------------------------------------
(* The operators that drop nodes. *)

LEMMA GoodParts ==
  ASSUME NEW c, Good(c)
  PROVE  /\ c \in Channel /\ c.queue \in Seq(Node) /\ c.match_cnt \in Nat /\ c.done \subseteq Frames
         /\ c.expected \in Nat /\ c.expectedNoLed \in Nat /\ c.pending_cnt \in Nat
         /\ c.notify_mode \in {"BURST", "CONTINUOUS"} /\ c.startZSl \in BOOLEAN
         /\ ~c.spinning /\ c.spinning = FALSE
         /\ InOrder(c.queue, c.match_cnt) /\ BufsIn(c.queue) \cap c.done = {}
         /\ BufsIn(c.queue) \subseteq Frames /\ Owned(c) \subseteq Frames
<1>1. c \in Channel /\ c.queue \in Seq(Node) /\ c.done \subseteq Frames
  BY DEF Good, Channel
<1>2. BufsIn(c.queue) \subseteq Frames
  BY <1>1, BufIn
<1> QED
  BY <1>1, <1>2 DEF Good, Channel, Owned

LEMMA DropHeadTakes ==
  ASSUME NEW c, Good(c), NEW n \in 0..Len(c.queue)
  PROVE  /\ Took(c, DropHead(c, n))
         /\ DropHead(c, n).queue = From(c.queue, n)
         /\ DropHead(c, n).match_cnt = IF n <= c.match_cnt THEN c.match_cnt - n ELSE 0
<1> DEFINE q == c.queue
           k == c.match_cnt
           u == SubSeq(q, 1, n)
           v == From(q, n)
           B == BufsIn(u)
           m == IF n <= k THEN k - n ELSE 0
           d == DropHead(c, n)
<1>1. c \in Channel /\ q \in Seq(Node) /\ k \in Nat /\ InOrder(q, k) /\ c.done \subseteq Frames
  BY GoodParts
<1>2. u \in Seq(Node) /\ v \in Seq(Node) /\ InOrder(u, IF n <= k THEN n ELSE k) /\ InOrder(v, m)
  BY <1>1, Cut, CutOrder
<1>3. n \in Nat
  BY <1>1, Nodes
<1>4. Cardinality(MatchedIn(u)) = IF n <= k THEN n ELSE k
  BY <1>2, Matched
<1>5. k - Cardinality(MatchedIn(u)) = m /\ m \in Nat
  BY <1>1, <1>3, <1>4
<1>6. B \subseteq Frames /\ B \cup BufsIn(v) = BufsIn(q) /\ B \cap BufsIn(v) = {}
  BY <1>1, <1>2, BufIn, CutBufs
<1>7. d = [c EXCEPT !.queue = v, !.match_cnt = m, !.done = c.done \cup B]
  <2>1. d = QBuf([c EXCEPT !.queue = v, !.match_cnt = k - Cardinality(MatchedIn(u))], B)
    BY DEF DropHead
  <2>2. d = QBuf([c EXCEPT !.queue = v, !.match_cnt = m], B)
    BY <1>5, <2>1
  <2> HIDE DEF v, m, d, B
  <2> QED
    BY <1>1, <2>2 DEF QBuf, Channel
<1> HIDE DEF v, m, d, B
<1>8. /\ d \in Channel /\ d.queue = v /\ d.match_cnt = m /\ d.done = c.done \cup B
      /\ Alike(c, d)
  BY <1>1, <1>2, <1>5, <1>6, <1>7 DEF Channel, Alike
<1>9. Good(d)
  BY <1>2, <1>6, <1>8 DEF Good
<1>10. Owned(d) = Owned(c)
  BY <1>6, <1>8 DEF Owned
<1> QED
  BY <1>8, <1>9, <1>10 DEF Took, d, v, m

LEMMA TookAgain ==
  ASSUME NEW c, NEW d, NEW e, Took(c, d), Took(d, e) PROVE Took(c, e)
BY DEF Took, Alike

LEMMA TookSelf == ASSUME NEW c, Good(c) PROVE Took(c, c)
BY DEF Took, Alike

\* Assignments to other fields leave the channel good.
LEMMA Assigned ==
  ASSUME NEW c, Good(c), NEW d \in Channel, Alike(c, d),
         d.queue = c.queue, d.match_cnt = c.match_cnt, d.done = c.done
  PROVE  Took(c, d)
BY DEF Took, Good, Owned

LEMMA FlushTakes ==
  ASSUME NEW c, Good(c)
  PROVE  Took(c, Flush(c)) /\ Flush(c).match_cnt = 0 /\ Len(Flush(c).queue) = 0
<1>1. c.queue \in Seq(Node) /\ InOrder(c.queue, c.match_cnt)
  BY GoodParts
<1>2. Len(c.queue) \in Nat /\ c.match_cnt \in 0..Len(c.queue) /\ Len(c.queue) \in 0..Len(c.queue)
  BY <1>1, Nodes DEF InOrder
<1>3. /\ Took(c, Flush(c)) /\ Flush(c).queue = From(c.queue, Len(c.queue))
      /\ Flush(c).match_cnt = IF Len(c.queue) <= c.match_cnt THEN c.match_cnt - Len(c.queue) ELSE 0
  BY <1>2, DropHeadTakes DEF Flush
<1>4. Len(From(c.queue, Len(c.queue))) = Len(c.queue) - Len(c.queue)
  BY <1>1, <1>2, Cut
<1> QED
  BY <1>2, <1>3, <1>4

LEMMA FlushMatchedTakes ==
  ASSUME NEW c, Good(c)
  PROVE  Took(c, FlushMatched(c))
<1>1. c.queue \in Seq(Node) /\ InOrder(c.queue, c.match_cnt)
  BY GoodParts
<1>2. MatchedPrefix(c.queue) \in 0..Len(c.queue)
  BY <1>1, Matched DEF InOrder
<1> QED
  BY <1>2, DropHeadTakes DEF FlushMatched

LEMMA TrimTakes ==
  ASSUME NEW c, Good(c), NEW limit \in Nat
  PROVE  /\ Took(c, Trim(c, limit))
         /\ c.notify_mode = "BURST" => Trim(c, limit).match_cnt <= limit
         /\ c.match_cnt = 0 => Trim(c, limit).match_cnt = 0
<1>1. /\ c \in Channel /\ c.queue \in Seq(Node) /\ InOrder(c.queue, c.match_cnt)
      /\ c.match_cnt \in Nat /\ c.notify_mode \in {"BURST", "CONTINUOUS"} /\ c.spinning = FALSE
  BY GoodParts
<1>2. CASE c.notify_mode = "CONTINUOUS"
  BY <1>2, TookSelf DEF Trim
<1>3. CASE c.notify_mode # "CONTINUOUS"
  <2> DEFINE k == c.match_cnt
             n == IF k >= limit THEN k - limit ELSE 0
             d == DropHead(c, n)
  <2>1. MatchedPrefix(c.queue) = k /\ k \in 0..Len(c.queue) /\ Len(c.queue) \in Nat
    BY <1>1, Matched, Nodes DEF InOrder
  <2>2. Max({0, k - limit}) = n
    <3>1. Max({0, k - limit}) = IF 0 >= k - limit THEN 0 ELSE k - limit
      BY <1>1, MaxPair
    <3> QED
      BY <1>1, <3>1
  <2>3. n \in 0..Len(c.queue) /\ n \in Nat /\ n <= k
    BY <1>1, <2>1
  <2>4. Min({n, k}) = n
    BY <1>1, <2>3, MinPair
  <2>5. Trim(c, limit) = [d EXCEPT !.spinning = @ \/ n > k]
    BY <1>3, <2>1, <2>2, <2>4 DEF Trim
  <2>6. Took(c, d) /\ d.match_cnt = IF n <= k THEN k - n ELSE 0
    BY <2>3, DropHeadTakes
  <2>7. d \in Channel /\ d.spinning = FALSE /\ Good(d)
    BY <2>6, GoodParts DEF Took
  <2> HIDE DEF d
  <2>8. d = [d EXCEPT !.spinning = @ \/ n > k]
    <3>1. (d.spinning \/ n > k) = FALSE
      BY <1>1, <2>3, <2>7
    <3>2. [d EXCEPT !.spinning = @ \/ n > k] = [d EXCEPT !.spinning = FALSE]
      BY <3>1
    <3>3. [d EXCEPT !.spinning = FALSE] = d
      BY <2>7 DEF Channel
    <3> QED
      BY <3>2, <3>3
  <2>9. Trim(c, limit) = d
    BY <2>5, <2>8
  <2>10. d.match_cnt <= limit /\ (k = 0 => d.match_cnt = 0)
    BY <1>1, <2>3, <2>6
  <2> QED
    BY <2>6, <2>9, <2>10
<1> QED
  BY <1>2, <1>3

\* The metadata handler.
LEMMA HandleMetadataTakes ==
  ASSUME NEW c, Good(c), NEW f \in 1..MaxFrame, NEW m \in MetaKinds
  PROVE  Took(c, HandleMetadata(c, f, m))
<1> DEFINE later(d) == [d EXCEPT !.expected = Cap(@ + FutureOffset)]
<1>1. m \in MetaKind /\ m.good \in Nat /\ f \in Nat /\ FutureOffset \in Nat
  BY ConstantsOK DEF MetaKind
<1>2. ASSUME NEW d, Good(d) PROVE Took(d, later(d))
  <2>1. d \in Channel /\ d.expected \in Nat
    BY <1>2, GoodParts
  <2>2. Cap(d.expected + FutureOffset) \in Nat
    BY <1>1, <2>1, CapType
  <2>3. /\ later(d) \in Channel /\ Alike(d, later(d)) /\ later(d).queue = d.queue
        /\ later(d).match_cnt = d.match_cnt /\ later(d).done = d.done
    BY <2>1, <2>2 DEF Channel, Alike
  <2> QED
    BY <1>2, <2>3, Assigned
<1>3. c \in Channel
  BY GoodParts
<1>4. ASSUME NEW b \in BOOLEAN, NEW d, Good(d) PROVE Took(d, [d EXCEPT !.needLEDFlash = b])
  <2>1. d \in Channel
    BY <1>4, GoodParts
  <2> DEFINE e == [d EXCEPT !.needLEDFlash = b]
  <2>3. /\ e \in Channel /\ Alike(d, e) /\ e.queue = d.queue /\ e.match_cnt = d.match_cnt
        /\ e.done = d.done
    BY <2>1 DEF Channel, Alike
  <2> HIDE DEF e
  <2>4. Took(d, e)
    BY <1>4, <2>3, Assigned
  <2> QED
    BY <2>4 DEF e
<1>5. Took(c, Flush([later(c) EXCEPT !.needLEDFlash = TRUE]))
  <2>1. Took(c, later(c)) /\ Good(later(c))
    BY <1>2 DEF Took
  <2> HIDE DEF later
  <2>2. Took(later(c), [later(c) EXCEPT !.needLEDFlash = TRUE])
    BY <1>4, <2>1
  <2>3. Took(c, [later(c) EXCEPT !.needLEDFlash = TRUE])
    BY <2>1, <2>2, TookAgain
  <2> QED
    BY <2>3, FlushTakes, TookAgain DEF Took
<1>6. Took(c, later(FlushMatched(c)))
  <2>1. Took(c, FlushMatched(c)) /\ Good(FlushMatched(c))
    BY FlushMatchedTakes DEF Took
  <2>2. Took(FlushMatched(c), later(FlushMatched(c)))
    BY <1>2, <2>1
  <2> HIDE DEF later
  <2> QED
    BY <2>1, <2>2, TookAgain
<1>7. Took(c, FlushMatched(later(c)))
  <2>1. Took(c, later(c)) /\ Good(later(c))
    BY <1>2 DEF Took
  <2> HIDE DEF later
  <2> QED
    BY <2>1, FlushMatchedTakes, TookAgain
<1>8. ASSUME NEW x \in Nat, NEW y \in Nat
      PROVE  /\ Took(c, [c EXCEPT !.isZoom1x = FALSE, !.expected = x])
             /\ Took(c, [c EXCEPT !.expected = x, !.expectedNoLed = y])
             /\ Took(c, [c EXCEPT !.expected = x, !.need3ABracketing = FALSE])
  <2> DEFINE d == [c EXCEPT !.isZoom1x = FALSE, !.expected = x]
             e == [c EXCEPT !.expected = x, !.expectedNoLed = y]
             g == [c EXCEPT !.expected = x, !.need3ABracketing = FALSE]
  <2>1. /\ d \in Channel /\ Alike(c, d) /\ d.queue = c.queue /\ d.match_cnt = c.match_cnt
        /\ d.done = c.done
    BY <1>3 DEF Channel, Alike
  <2>2. /\ e \in Channel /\ Alike(c, e) /\ e.queue = c.queue /\ e.match_cnt = c.match_cnt
        /\ e.done = c.done
    BY <1>3 DEF Channel, Alike
  <2>3. /\ g \in Channel /\ Alike(c, g) /\ g.queue = c.queue /\ g.match_cnt = c.match_cnt
        /\ g.done = c.done
    BY <1>3 DEF Channel, Alike
  <2> HIDE DEF d, e, g
  <2>4. Took(c, d) /\ Took(c, e) /\ Took(c, g)
    BY <2>1, <2>2, <2>3, Assigned
  <2> QED
    BY <2>4 DEF d, e, g
<1>9. f + 1 \in Nat /\ f + m.good \in Nat /\ f + m.good + 1 \in Nat
  BY <1>1
<1>10. /\ Took(c, [c EXCEPT !.isZoom1x = FALSE, !.expected = f + 1])
       /\ Took(c, [c EXCEPT !.expected = f + m.good, !.expectedNoLed = f + m.good + 1])
       /\ Took(c, [c EXCEPT !.expected = f + m.good, !.need3ABracketing = FALSE])
  BY <1>8, <1>9
<1>11. Took(c, c) /\ Took(c, [c EXCEPT !.needLEDFlash = FALSE])
  BY <1>4, TookSelf
<1>12. m.prep \in {"none", "need", "dontneed"}
  BY <1>1 DEF MetaKind
<1> QED
  BY <1>5, <1>6, <1>7, <1>10, <1>11, <1>12 DEF HandleMetadata
-----------------------------------------------------------------------------
(* Queues put together again. *)

Ascends(q) == \A i, j \in 1..Len(q) : i < j => q[i].frame_idx < q[j].frame_idx

\* Two queues with the node n between them.
Spliced(u, n, v) == u \o <<n>> \o v

LEMMA SplicedPlaces ==
  ASSUME NEW u \in Seq(Node), NEW v \in Seq(Node), NEW n \in Node
  PROVE  /\ Spliced(u, n, v) \in Seq(Node)
         /\ Len(u) \in Nat /\ Len(v) \in Nat
         /\ Len(Spliced(u, n, v)) = Len(u) + 1 + Len(v)
         /\ \A i \in 1..Len(u) : Spliced(u, n, v)[i] = u[i]
         /\ Spliced(u, n, v)[Len(u) + 1] = n
         /\ \A i \in 1..Len(v) : Spliced(u, n, v)[Len(u) + 1 + i] = v[i]
         /\ \A i \in 1..Len(u) + 1 + Len(v) :
              \/ i \in 1..Len(u)
              \/ i = Len(u) + 1
              \/ \E j \in 1..Len(v) : i = Len(u) + 1 + j
<1> DEFINE h == u \o <<n>>
           p == h \o v
<1>1. Len(u) \in Nat /\ Len(v) \in Nat
  BY Nodes
<1>2. <<n>> \in Seq(Node) /\ Len(<<n>>) = 1 /\ <<n>>[1] = n
  OBVIOUS
<1>3. /\ h \in Seq(Node) /\ Len(h) = Len(u) + 1
      /\ \A i \in 1..Len(u) + 1 : h[i] = IF i <= Len(u) THEN u[i] ELSE <<n>>[i - Len(u)]
  BY <1>2, ConcatProperties
<1>4. (\A i \in 1..Len(u) : h[i] = u[i]) /\ h[Len(u) + 1] = n
  <2>1. Len(u) + 1 \in 1..Len(u) + 1 /\ ~(Len(u) + 1 <= Len(u)) /\ (Len(u) + 1) - Len(u) = 1
    BY <1>1
  <2>2. h[Len(u) + 1] = <<n>>[(Len(u) + 1) - Len(u)]
    BY <1>3, <2>1
  <2>3. \A i \in 1..Len(u) : i \in 1..Len(u) + 1 /\ i <= Len(u)
    BY <1>1
  <2> QED
    BY <1>2, <1>3, <2>1, <2>2, <2>3
<1> HIDE DEF h
<1>c. \A i \in 1..Len(h) + Len(v) : p[i] = IF i <= Len(h) THEN h[i] ELSE v[i - Len(h)]
  BY <1>3, ConcatProperties
<1>5. /\ p \in Seq(Node) /\ Len(p) = Len(h) + Len(v)
      /\ \A i \in 1..Len(h) + Len(v) : p[i] = IF i <= Len(h) THEN h[i] ELSE v[i - Len(h)]
  <2>1. p \in Seq(Node)
    BY <1>3, ConcatProperties
  <2>2. Len(p) = Len(h) + Len(v)
    BY <1>3, ConcatProperties
  <2> QED
    BY <1>c, <2>1, <2>2
<1> HIDE DEF p
<1>6. (\A i \in 1..Len(u) : p[i] = u[i]) /\ p[Len(u) + 1] = n
  <2>1. \A i \in 1..Len(u) + 1 : i \in 1..Len(h) + Len(v) /\ i <= Len(h)
    BY <1>1, <1>3
  <2>2. \A i \in 1..Len(u) + 1 : p[i] = h[i]
    BY <1>5, <2>1
  <2>3. Len(u) + 1 \in 1..Len(u) + 1 /\ \A i \in 1..Len(u) : i \in 1..Len(u) + 1
    BY <1>1
  <2> QED
    BY <1>4, <2>2, <2>3
<1>7. \A i \in 1..Len(v) : p[Len(u) + 1 + i] = v[i]
  <2> TAKE i \in 1..Len(v)
  <2>1. /\ Len(u) + 1 + i \in 1..Len(h) + Len(v) /\ ~(Len(u) + 1 + i <= Len(h))
        /\ (Len(u) + 1 + i) - Len(h) = i
    BY <1>1, <1>3
  <2>2. p[Len(u) + 1 + i] = v[(Len(u) + 1 + i) - Len(h)]
    BY <1>5, <2>1
  <2> QED
    BY <2>1, <2>2
<1>8. \A i \in 1..Len(u) + 1 + Len(v) :
        i \in 1..Len(u) \/ i = Len(u) + 1 \/ \E j \in 1..Len(v) : i = Len(u) + 1 + j
  <2> TAKE i \in 1..Len(u) + 1 + Len(v)
  <2>1. CASE i > Len(u) + 1
    <3>1. i - Len(u) - 1 \in 1..Len(v) /\ i = Len(u) + 1 + (i - Len(u) - 1)
      BY <1>1, <2>1
    <3> QED
      BY <3>1
  <2> QED
    BY <1>1, <2>1
<1>9. p = Spliced(u, n, v)
  BY DEF Spliced, p, h
<1> QED
  BY <1>1, <1>3, <1>5, <1>6, <1>7, <1>8, <1>9

LEMMA SplicedAscends ==
  ASSUME NEW u \in Seq(Node), NEW v \in Seq(Node), NEW n \in Node, Ascends(u), Ascends(v),
         \A i \in 1..Len(u) : u[i].frame_idx < n.frame_idx,
         \A i \in 1..Len(v) : n.frame_idx < v[i].frame_idx
  PROVE  Ascends(Spliced(u, n, v))
<1>1. /\ Len(u) \in Nat /\ Len(v) \in Nat /\ Len(Spliced(u, n, v)) = Len(u) + 1 + Len(v)
      /\ \A i \in 1..Len(u) : Spliced(u, n, v)[i] = u[i]
      /\ Spliced(u, n, v)[Len(u) + 1] = n
      /\ \A i \in 1..Len(v) : Spliced(u, n, v)[Len(u) + 1 + i] = v[i]
      /\ \A i \in 1..Len(u) + 1 + Len(v) :
           i \in 1..Len(u) \/ i = Len(u) + 1 \/ \E j \in 1..Len(v) : i = Len(u) + 1 + j
  <2>1. Spliced(u, n, v) \in Seq(Node)
    BY SplicedPlaces
  <2>2. Len(u) \in Nat /\ Len(v) \in Nat /\ Len(Spliced(u, n, v)) = Len(u) + 1 + Len(v)
    BY SplicedPlaces
  <2>3. \A i \in 1..Len(u) : Spliced(u, n, v)[i] = u[i]
    BY SplicedPlaces
  <2>4. Spliced(u, n, v)[Len(u) + 1] = n
    BY SplicedPlaces
  <2>5. \A i \in 1..Len(v) : Spliced(u, n, v)[Len(u) + 1 + i] = v[i]
    BY SplicedPlaces
  <2>6. \A i \in 1..Len(u) + 1 + Len(v) :
          i \in 1..Len(u) \/ i = Len(u) + 1 \/ \E j \in 1..Len(v) : i = Len(u) + 1 + j
    BY SplicedPlaces
  <2> QED
    BY <2>1, <2>2, <2>3, <2>4, <2>5, <2>6
<1>2. SUFFICES ASSUME NEW i \in 1..Len(Spliced(u, n, v)), NEW j \in 1..Len(Spliced(u, n, v)), i < j
               PROVE  Spliced(u, n, v)[i].frame_idx < Spliced(u, n, v)[j].frame_idx
  BY DEF Ascends
<1>3. /\ n.frame_idx \in Nat /\ \A x \in 1..Len(u) : u[x].frame_idx \in Nat
      /\ \A x \in 1..Len(v) : v[x].frame_idx \in Nat
  <2>1. n.frame_idx \in Nat
    BY ConstantsOK DEF Node
  <2> QED
    BY <2>1, Nodes
<1>4. CASE i \in 1..Len(u)
  <2>1. CASE j \in 1..Len(u)
    BY <1>1, <1>2, <1>4, <2>1 DEF Ascends
  <2>2. CASE j = Len(u) + 1
    BY <1>1, <1>4, <2>2
  <2>3. CASE \E x \in 1..Len(v) : j = Len(u) + 1 + x
    <3>1. PICK x \in 1..Len(v) : j = Len(u) + 1 + x
      BY <2>3
    <3>2. Spliced(u, n, v)[i] = u[i] /\ Spliced(u, n, v)[j] = v[x]
      BY <1>1, <1>4, <3>1
    <3>3. u[i].frame_idx < n.frame_idx /\ n.frame_idx < v[x].frame_idx
      BY <1>4
    <3> QED
      BY <1>3, <1>4, <3>2, <3>3
  <2> QED
    BY <1>1, <2>1, <2>2, <2>3
<1>5. CASE i = Len(u) + 1
  <2>1. PICK x \in 1..Len(v) : j = Len(u) + 1 + x
    BY <1>1, <1>2, <1>5
  <2>2. Spliced(u, n, v)[i] = n /\ Spliced(u, n, v)[j] = v[x]
    BY <1>1, <1>5, <2>1
  <2> QED
    BY <2>2
<1>6. CASE \E x \in 1..Len(v) : i = Len(u) + 1 + x
  <2>1. PICK x \in 1..Len(v) : i = Len(u) + 1 + x
    BY <1>6
  <2>2. PICK y \in 1..Len(v) : j = Len(u) + 1 + y
    <3>1. j \notin 1..Len(u) /\ j # Len(u) + 1
      BY <1>1, <1>2, <2>1
    <3> QED
      BY <1>1, <3>1
  <2>3. x < y /\ Spliced(u, n, v)[i] = v[x] /\ Spliced(u, n, v)[j] = v[y]
    BY <1>1, <1>2, <2>1, <2>2
  <2> QED
    BY <2>3 DEF Ascends
<1> QED
  BY <1>1, <1>4, <1>5, <1>6

LEMMA SplicedBufs ==
  ASSUME NEW u \in Seq(Node), NEW v \in Seq(Node), NEW n \in Node
  PROVE  BufsIn(Spliced(u, n, v)) = BufsIn(u) \cup BufsOf(n) \cup BufsIn(v)
<1>1. /\ Spliced(u, n, v) \in Seq(Node) /\ Len(u) \in Nat /\ Len(v) \in Nat /\ Len(Spliced(u, n, v)) = Len(u) + 1 + Len(v)
      /\ \A i \in 1..Len(u) : Spliced(u, n, v)[i] = u[i]
      /\ Spliced(u, n, v)[Len(u) + 1] = n
      /\ \A i \in 1..Len(v) : Spliced(u, n, v)[Len(u) + 1 + i] = v[i]
      /\ \A i \in 1..Len(u) + 1 + Len(v) :
           i \in 1..Len(u) \/ i = Len(u) + 1 \/ \E j \in 1..Len(v) : i = Len(u) + 1 + j
  <2>1. Spliced(u, n, v) \in Seq(Node)
    BY SplicedPlaces
  <2>2. Len(u) \in Nat /\ Len(v) \in Nat /\ Len(Spliced(u, n, v)) = Len(u) + 1 + Len(v)
    BY SplicedPlaces
  <2>3. \A i \in 1..Len(u) : Spliced(u, n, v)[i] = u[i]
    BY SplicedPlaces
  <2>4. Spliced(u, n, v)[Len(u) + 1] = n
    BY SplicedPlaces
  <2>5. \A i \in 1..Len(v) : Spliced(u, n, v)[Len(u) + 1 + i] = v[i]
    BY SplicedPlaces
  <2>6. \A i \in 1..Len(u) + 1 + Len(v) :
          i \in 1..Len(u) \/ i = Len(u) + 1 \/ \E j \in 1..Len(v) : i = Len(u) + 1 + j
    BY SplicedPlaces
  <2> QED
    BY <2>1, <2>2, <2>3, <2>4, <2>5, <2>6
<1>2. \A q \in Seq(Node) : \A b : b \in BufsIn(q) <=> \E i \in 1..Len(q) : b \in BufsOf(q[i])
  BY Nodes DEF BufsIn
<1>3. ASSUME NEW b
      PROVE  b \in BufsIn(Spliced(u, n, v)) <=> b \in BufsIn(u) \/ b \in BufsOf(n) \/ b \in BufsIn(v)
  <2>1. /\ b \in BufsIn(Spliced(u, n, v)) <=> \E i \in 1..Len(Spliced(u, n, v)) : b \in BufsOf(Spliced(u, n, v)[i])
        /\ b \in BufsIn(u) <=> \E i \in 1..Len(u) : b \in BufsOf(u[i])
        /\ b \in BufsIn(v) <=> \E i \in 1..Len(v) : b \in BufsOf(v[i])
    BY <1>1, <1>2
  <2>2. \A i \in 1..Len(u) : i \in 1..Len(Spliced(u, n, v))
    BY <1>1
  <2>3. \A i \in 1..Len(v) : Len(u) + 1 + i \in 1..Len(Spliced(u, n, v))
    BY <1>1
  <2>4. Len(u) + 1 \in 1..Len(Spliced(u, n, v))
    BY <1>1
  <2>5. ASSUME NEW i \in 1..Len(Spliced(u, n, v)), b \in BufsOf(Spliced(u, n, v)[i])
        PROVE  b \in BufsIn(u) \/ b \in BufsOf(n) \/ b \in BufsIn(v)
    <3>1. CASE i \in 1..Len(u)
      BY <1>1, <2>1, <2>5, <3>1
    <3>2. CASE i = Len(u) + 1
      BY <1>1, <2>5, <3>2
    <3>3. CASE \E j \in 1..Len(v) : i = Len(u) + 1 + j
      BY <1>1, <2>1, <2>5, <3>3
    <3> QED
      BY <1>1, <3>1, <3>2, <3>3
  <2>6. b \in BufsIn(u) => b \in BufsIn(Spliced(u, n, v))
    BY <1>1, <2>1, <2>2
  <2>7. b \in BufsIn(v) => b \in BufsIn(Spliced(u, n, v))
    <3> SUFFICES ASSUME NEW i \in 1..Len(v), b \in BufsOf(v[i]) PROVE b \in BufsIn(Spliced(u, n, v))
      BY <2>1
    <3>1. b \in BufsOf(Spliced(u, n, v)[Len(u) + 1 + i])
      BY <1>1
    <3> QED
      BY <2>1, <2>3, <3>1
  <2> QED
    BY <1>1, <2>1, <2>4, <2>5, <2>6, <2>7
<1> QED
  BY <1>3

LEMMA OneBuf ==
  ASSUME NEW q \in Seq(Node), NEW i \in 1..Len(q)
  PROVE  BufsOf(q[i]) \subseteq BufsIn(q)
BY Nodes DEF BufsIn

LEMMA InBufs ==
  ASSUME NEW q \in Seq(Node), NEW b
  PROVE  b \in BufsIn(q) <=> \E i \in 1..Len(q) : b \in BufsOf(q[i])
BY Nodes DEF BufsIn

\* A buffer is in one node.
LEMMA OneNode ==
  ASSUME NEW q \in Seq(Node), Ascends(q), NEW i \in 1..Len(q), NEW j \in 1..Len(q),
         NEW b, b \in BufsOf(q[i]), b \in BufsOf(q[j])
  PROVE  i = j
<1>1. Len(q) \in Nat /\ q[i].frame_idx \in Nat /\ q[j].frame_idx \in Nat
  BY Nodes
<1>2. q[i].frame_idx = q[j].frame_idx
  BY DEF BufsOf
<1>3. ~(i < j) /\ ~(j < i)
  BY <1>1, <1>2 DEF Ascends
<1> QED
  BY <1>1, <1>3

LEMMA OrderParts ==
  ASSUME NEW q \in Seq(Node), NEW k, InOrder(q, k)
  PROVE  /\ Len(q) \in Nat /\ k \in Nat /\ k <= Len(q) /\ k \in 0..Len(q)
         /\ Ascends(q)
         /\ \A i \in 1..Len(q) : q[i].matched <=> i <= k
         /\ \A i \in 1..k : i \in 1..Len(q) /\ q[i].have = Streams
         /\ Cardinality(Streams) = 1 => k = Len(q)
<1>1. Len(q) \in Nat /\ k \in 0..Len(q)
  BY Nodes DEF InOrder
<1>2. \A i \in 1..k : i \in 1..Len(q) /\ i <= k
  BY <1>1
<1>3. \A i \in 1..k : q[i].have = Streams
  BY <1>2 DEF InOrder
<1>4. Ascends(q) /\ (\A i \in 1..Len(q) : q[i].matched <=> i <= k)
  BY DEF InOrder, Ascends
<1>5. Cardinality(Streams) = 1 => k = Len(q)
  BY DEF InOrder
<1> QED
  BY <1>1, <1>2, <1>3, <1>4, <1>5

LEMMA OrderFrom ==
  ASSUME NEW q \in Seq(Node), NEW k \in Nat, k <= Len(q), Ascends(q),
         \A i \in 1..Len(q) : q[i].matched <=> i <= k,
         \A i \in 1..k : q[i].have = Streams,
         Cardinality(Streams) = 1 => k = Len(q)
  PROVE  InOrder(q, k)
<1>1. Len(q) \in Nat /\ k \in 0..Len(q)
  <2>1. Len(q) \in Nat
    BY Nodes
  <2> QED
    BY <2>1
<1>2. \A i \in 1..Len(q) : q[i].matched => q[i].have = Streams
  <2> SUFFICES ASSUME NEW i \in 1..Len(q), q[i].matched PROVE q[i].have = Streams
    OBVIOUS
  <2>1. i \in 1..k
    BY <1>1
  <2> QED
    BY <2>1
<1> QED
  BY <1>1, <1>2 DEF InOrder, Ascends
-----------------------------------------------------------------------------
(* The arrival of a buffer. *)

Got(c, b, d) == Good(d) /\ Owned(d) = Owned(c) \cup {b} /\ Alike(c, d)

WithSlot(q, pos, s) == [q EXCEPT ![pos].have = @ \cup {s}]

\* The slot of stream s in the node at pos is filled.
LEMMA Filled ==
  ASSUME NEW q \in Seq(Node), NEW k, InOrder(q, k), NEW s \in Streams, NEW pos \in k + 1..Len(q)
  PROVE  LET r == WithSlot(q, pos, s)
         IN  /\ r \in Seq(Node) /\ Len(r) = Len(q) /\ InOrder(r, k)
             /\ r[pos].frame_idx = q[pos].frame_idx
             /\ BufsIn(r) = BufsIn(q) \cup {<<s, q[pos].frame_idx>>}
<1> DEFINE n == [q[pos] EXCEPT !.have = @ \cup {s}]
           r == [q EXCEPT ![pos] = n]
<1>0. WithSlot(q, pos, s) = r
  BY DEF WithSlot
<1>1. /\ Len(q) \in Nat /\ k \in Nat /\ k <= Len(q) /\ Ascends(q)
      /\ \A i \in 1..Len(q) : q[i].matched <=> i <= k
      /\ \A i \in 1..k : i \in 1..Len(q) /\ q[i].have = Streams
      /\ Cardinality(Streams) = 1 => k = Len(q)
  BY OrderParts
<1>2. pos \in Nat /\ pos \in 1..Len(q) /\ pos > k /\ q[pos] \in Node
  <2>1. pos \in Nat /\ pos \in 1..Len(q) /\ pos > k
    BY <1>1
  <2> QED
    BY <2>1, Nodes
<1>3. /\ n \in Node /\ n.frame_idx = q[pos].frame_idx /\ n.matched = q[pos].matched
      /\ n.have = q[pos].have \cup {s}
  BY <1>2 DEF Node
<1> HIDE DEF n
<1>4. r \in Seq(Node) /\ Len(r) = Len(q)
  BY <1>2, <1>3, ExceptSeq
<1>5. \A i \in 1..Len(q) : r[i] = IF i = pos THEN n ELSE q[i]
  BY <1>2, <1>3, ExceptSeq
<1> HIDE DEF r
<1>6. r[pos] = n /\ \A i \in 1..Len(q) : i # pos => r[i] = q[i]
  BY <1>2, <1>5
<1>7. \A i \in 1..Len(q) : r[i].frame_idx = q[i].frame_idx /\ r[i].matched = q[i].matched
  BY <1>3, <1>6
<1>8. InOrder(r, k)
  <2>1. Ascends(r)
    BY <1>1, <1>4, <1>7 DEF Ascends
  <2>2. \A i \in 1..k : r[i].have = Streams
    <3> TAKE i \in 1..k
    <3>1. i # pos /\ i \in 1..Len(q)
      BY <1>1, <1>2
    <3> QED
      BY <1>1, <1>6, <3>1
  <2>3. \A i \in 1..Len(r) : r[i].matched <=> i <= k
    BY <1>1, <1>4, <1>7
  <2> QED
    BY <1>1, <1>4, <2>1, <2>2, <2>3, OrderFrom
<1>9. BufsIn(r) = BufsIn(q) \cup {<<s, q[pos].frame_idx>>}
  <2>1. BufsOf(n) = BufsOf(q[pos]) \cup {<<s, q[pos].frame_idx>>}
    BY <1>3 DEF BufsOf
  <2>2. ASSUME NEW b
        PROVE  b \in BufsIn(r) <=> b \in BufsIn(q) \/ b = <<s, q[pos].frame_idx>>
    <3>1. b \in BufsIn(r) <=> \E i \in 1..Len(q) : b \in BufsOf(r[i])
      BY <1>4, InBufs
    <3>2. b \in BufsIn(q) <=> \E i \in 1..Len(q) : b \in BufsOf(q[i])
      BY InBufs
    <3>3. \A i \in 1..Len(q) : i # pos => BufsOf(r[i]) = BufsOf(q[i])
      BY <1>6
    <3>7. b \in BufsOf(r[pos]) <=> b \in BufsOf(q[pos]) \/ b = <<s, q[pos].frame_idx>>
      BY <1>6, <2>1
    <3>4. b \in BufsIn(r) => b \in BufsIn(q) \/ b = <<s, q[pos].frame_idx>>
      BY <3>1, <3>2, <3>3, <3>7
    <3>5. b \in BufsIn(q) => b \in BufsIn(r)
      BY <3>1, <3>2, <3>3, <3>7
    <3>6. b = <<s, q[pos].frame_idx>> => b \in BufsIn(r)
      BY <1>2, <3>1, <3>7
    <3> QED
      BY <3>4, <3>5, <3>6
  <2> QED
    BY <2>2
<1>10. r[pos].frame_idx = q[pos].frame_idx
  BY <1>3, <1>6
<1> QED
  BY <1>0, <1>4, <1>8, <1>9, <1>10

\* The complete node at pos is matched, and the unmatched ones before it go.
LEMMA Completed ==
  ASSUME NEW q \in Seq(Node), NEW k, InOrder(q, k), NEW pos \in k + 1..Len(q),
         q[pos].have = Streams
  PROVE  LET p == Spliced(SubSeq(q, 1, k), [q[pos] EXCEPT !.matched = TRUE], From(q, pos))
             w == SubSeq(q, k + 1, pos - 1)
         IN  /\ p \in Seq(Node) /\ InOrder(p, k + 1)
             /\ BufsIn(w) \subseteq Frames
             /\ BufsIn(p) \cup BufsIn(w) = BufsIn(q)
             /\ BufsIn(p) \cap BufsIn(w) = {}
<1> DEFINE n == [q[pos] EXCEPT !.matched = TRUE]
           u == SubSeq(q, 1, k)
           v == From(q, pos)
           w == SubSeq(q, k + 1, pos - 1)
           p == Spliced(u, n, v)
<1>1. /\ Len(q) \in Nat /\ k \in Nat /\ k <= Len(q) /\ Ascends(q) /\ k \in 0..Len(q)
      /\ \A i \in 1..Len(q) : q[i].matched <=> i <= k
      /\ \A i \in 1..k : i \in 1..Len(q) /\ q[i].have = Streams
      /\ Cardinality(Streams) = 1 => k = Len(q)
  BY OrderParts
<1>2. /\ pos \in Nat /\ pos \in 1..Len(q) /\ pos > k /\ pos <= Len(q) /\ pos \in 0..Len(q)
      /\ q[pos] \in Node
  <2>1. pos \in Nat /\ pos \in 1..Len(q) /\ pos > k /\ pos <= Len(q) /\ pos \in 0..Len(q)
    BY <1>1
  <2> QED
    BY <2>1, Nodes
<1>3. n \in Node /\ n.frame_idx = q[pos].frame_idx /\ n.have = q[pos].have /\ n.matched = TRUE
  BY <1>2 DEF Node
<1>4. /\ u \in Seq(Node) /\ Len(u) = k /\ \A i \in 1..k : u[i] = q[i]
      /\ v \in Seq(Node) /\ Len(v) = Len(q) - pos /\ \A i \in 1..Len(q) - pos : v[i] = q[pos + i]
  BY <1>1, <1>2, Cut
<1>5. w \in Seq(Node) /\ Len(w) = pos - 1 - k /\ \A i \in 1..pos - 1 - k : w[i] = q[k + i]
  <2>1. \A i \in k + 1..pos - 1 : i \in 1..Len(q)
    BY <1>1, <1>2
  <2>2. \A i \in k + 1..pos - 1 : q[i] \in Node
    BY <2>1, Nodes
  <2>3. k + 1 \in Int /\ pos - 1 \in Int
    BY <1>1, <1>2
  <2>4. /\ w \in Seq(Node)
        /\ Len(w) = IF k + 1 <= pos - 1 THEN (pos - 1) - (k + 1) + 1 ELSE 0
        /\ \A i \in 1..(pos - 1) - (k + 1) + 1 : w[i] = q[(k + 1) + i - 1]
    BY <2>2, <2>3, SubSeqProperties
  <2>5. \A i \in 1..pos - 1 - k : i \in 1..(pos - 1) - (k + 1) + 1 /\ (k + 1) + i - 1 = k + i
    BY <1>1, <1>2
  <2> HIDE DEF w
  <2> QED
    BY <1>1, <1>2, <2>4, <2>5
<1> HIDE DEF n, u, v, w
<1>6. /\ p \in Seq(Node) /\ Len(p) = k + 1 + (Len(q) - pos)
      /\ \A i \in 1..k : p[i] = q[i]
      /\ p[k + 1] = n
      /\ \A i \in 1..Len(q) - pos : p[k + 1 + i] = q[pos + i]
      /\ \A i \in 1..k + 1 + (Len(q) - pos) :
           i \in 1..k \/ i = k + 1 \/ \E j \in 1..Len(q) - pos : i = k + 1 + j
  <2>0. u \in Seq(Node) /\ v \in Seq(Node) /\ n \in Node
    BY <1>3, <1>4
  <2>1. p \in Seq(Node)
    BY <2>0, SplicedPlaces
  <2>2. Len(p) = Len(u) + 1 + Len(v)
    BY <2>0, SplicedPlaces
  <2>3. \A i \in 1..Len(u) : p[i] = u[i]
    BY <2>0, SplicedPlaces
  <2>4. p[Len(u) + 1] = n
    BY <2>0, SplicedPlaces
  <2>5. \A i \in 1..Len(v) : p[Len(u) + 1 + i] = v[i]
    BY <2>0, SplicedPlaces
  <2>6. \A i \in 1..Len(u) + 1 + Len(v) :
          i \in 1..Len(u) \/ i = Len(u) + 1 \/ \E j \in 1..Len(v) : i = Len(u) + 1 + j
    BY <2>0, SplicedPlaces
  <2> HIDE DEF p
  <2> QED
    BY <1>4, <2>1, <2>2, <2>3, <2>4, <2>5, <2>6
<1>7. Ascends(p)
  <2>1. Ascends(u)
    <3>1. \A i \in 1..k : i \in 1..Len(q)
      BY <1>1
    <3> QED
      BY <1>1, <1>4, <3>1 DEF Ascends
  <2>2. Ascends(v)
    <3>1. \A i, j \in 1..Len(v) : /\ pos + i \in 1..Len(q) /\ pos + j \in 1..Len(q)
                                  /\ i < j => pos + i < pos + j
      BY <1>1, <1>2, <1>4
    <3> QED
      BY <1>1, <1>4, <3>1 DEF Ascends
  <2>3. \A i \in 1..Len(u) : u[i].frame_idx < n.frame_idx
    <3>1. \A i \in 1..k : i \in 1..Len(q) /\ i < pos
      BY <1>1, <1>2
    <3> QED
      BY <1>1, <1>2, <1>3, <1>4, <3>1 DEF Ascends
  <2>4. \A i \in 1..Len(v) : n.frame_idx < v[i].frame_idx
    <3>1. \A i \in 1..Len(v) : pos + i \in 1..Len(q) /\ pos < pos + i
      BY <1>1, <1>2, <1>4
    <3> QED
      BY <1>1, <1>2, <1>3, <1>4, <3>1 DEF Ascends
  <2> QED
    BY <1>3, <1>4, <2>1, <2>2, <2>3, <2>4, SplicedAscends
<1>8. BufsIn(p) = BufsIn(u) \cup BufsOf(n) \cup BufsIn(v)
  BY <1>3, <1>4, SplicedBufs
<1> HIDE DEF p
<1>9. InOrder(p, k + 1)
  <2>1. k + 1 \in Nat /\ k + 1 <= Len(p) /\ Cardinality(Streams) # 1
    BY <1>1, <1>2, <1>6
  <2>2. \A i \in 1..k + 1 : p[i].have = Streams
    <3> TAKE i \in 1..k + 1
    <3>1. i \in 1..k \/ i = k + 1
      BY <1>1
    <3> QED
      BY <1>1, <1>3, <1>6, <3>1
  <2>3. \A i \in 1..Len(p) : p[i].matched <=> i <= k + 1
    <3> TAKE i \in 1..Len(p)
    <3>1. CASE i \in 1..k
      <4>1. i \in 1..Len(q) /\ p[i] = q[i] /\ i <= k
        BY <1>1, <1>6, <3>1
      <4> QED
        BY <1>1, <4>1
    <3>2. CASE i = k + 1
      <4>1. p[i] = n /\ i <= k + 1
        BY <1>1, <1>6, <3>2
      <4> QED
        BY <1>3, <4>1
    <3>3. CASE \E j \in 1..Len(q) - pos : i = k + 1 + j
      <4>1. PICK j \in 1..Len(q) - pos : i = k + 1 + j
        BY <3>3
      <4>2. p[i] = q[pos + j] /\ pos + j \in 1..Len(q) /\ ~(pos + j <= k) /\ ~(i <= k + 1)
        BY <1>1, <1>2, <1>6, <4>1
      <4> QED
        BY <1>1, <4>2
    <3> QED
      BY <1>6, <3>1, <3>2, <3>3
  <2> QED
    BY <1>6, <1>7, <2>1, <2>2, <2>3, OrderFrom
<1>10. BufsOf(n) = BufsOf(q[pos])
  BY <1>3 DEF BufsOf
<1>11. ASSUME NEW b
       PROVE  /\ b \in BufsIn(q) <=> \E i \in 1..Len(q) : b \in BufsOf(q[i])
              /\ b \in BufsIn(u) <=> \E i \in 1..k : b \in BufsOf(q[i])
              /\ b \in BufsIn(v) <=> \E i \in 1..Len(q) - pos : b \in BufsOf(q[pos + i])
              /\ b \in BufsIn(w) <=> \E i \in 1..pos - 1 - k : b \in BufsOf(q[k + i])
  <2>1. /\ b \in BufsIn(q) <=> \E i \in 1..Len(q) : b \in BufsOf(q[i])
        /\ b \in BufsIn(u) <=> \E i \in 1..Len(u) : b \in BufsOf(u[i])
        /\ b \in BufsIn(v) <=> \E i \in 1..Len(v) : b \in BufsOf(v[i])
        /\ b \in BufsIn(w) <=> \E i \in 1..Len(w) : b \in BufsOf(w[i])
    BY <1>4, <1>5, InBufs
  <2> QED
    BY <1>4, <1>5, <2>1
<1>12. ASSUME NEW b
       PROVE  /\ b \in BufsIn(q) <=> b \in BufsIn(p) \/ b \in BufsIn(w)
              /\ ~(b \in BufsIn(p) /\ b \in BufsIn(w))
  <2>1. \A i \in 1..Len(q) : \/ i \in 1..k \/ i = pos
                             \/ \E j \in 1..Len(q) - pos : i = pos + j
                             \/ \E j \in 1..pos - 1 - k : i = k + j
    <3> TAKE i \in 1..Len(q)
    <3>1. CASE i > pos
      <4>1. i - pos \in 1..Len(q) - pos /\ i = pos + (i - pos)
        BY <1>1, <1>2, <3>1
      <4> QED
        BY <4>1
    <3>2. CASE i < pos /\ i > k
      <4>1. i - k \in 1..pos - 1 - k /\ i = k + (i - k)
        BY <1>1, <1>2, <3>2
      <4> QED
        BY <4>1
    <3> QED
      BY <1>1, <1>2, <3>1, <3>2
  <2>2. \A i \in 1..Len(q) - pos : pos + i \in 1..Len(q)
    BY <1>1, <1>2
  <2>3. \A i \in 1..pos - 1 - k : k + i \in 1..Len(q)
    BY <1>1, <1>2
  <2>4. b \in BufsIn(p) <=> \/ \E i \in 1..k : b \in BufsOf(q[i])
                            \/ b \in BufsOf(q[pos])
                            \/ \E i \in 1..Len(q) - pos : b \in BufsOf(q[pos + i])
    BY <1>8, <1>10, <1>11
  <2>5. b \in BufsIn(q) => b \in BufsIn(p) \/ b \in BufsIn(w)
    <3> SUFFICES ASSUME NEW i \in 1..Len(q), b \in BufsOf(q[i])
                 PROVE  b \in BufsIn(p) \/ b \in BufsIn(w)
      BY <1>11
    <3>1. CASE i \in 1..k \/ i = pos
      BY <2>4, <3>1
    <3>2. CASE \E j \in 1..Len(q) - pos : i = pos + j
      BY <2>4, <3>2
    <3>3. CASE \E j \in 1..pos - 1 - k : i = k + j
      BY <1>11, <3>3
    <3> QED
      BY <2>1, <3>1, <3>2, <3>3
  <2>6. b \in BufsIn(w) => \E i \in 1..Len(q) : i > k /\ i < pos /\ b \in BufsOf(q[i])
    <3> SUFFICES ASSUME NEW j \in 1..pos - 1 - k, b \in BufsOf(q[k + j])
                 PROVE  \E i \in 1..Len(q) : i > k /\ i < pos /\ b \in BufsOf(q[i])
      BY <1>11
    <3>1. k + j \in 1..Len(q) /\ k + j > k /\ k + j < pos
      BY <1>1, <1>2
    <3> QED
      BY <3>1
  <2>7. b \in BufsIn(p) => \E i \in 1..Len(q) : ~(i > k /\ i < pos) /\ b \in BufsOf(q[i])
    <3>1. ASSUME NEW i \in 1..k, b \in BufsOf(q[i])
          PROVE  \E j \in 1..Len(q) : ~(j > k /\ j < pos) /\ b \in BufsOf(q[j])
      <4>1. i \in 1..Len(q) /\ ~(i > k)
        BY <1>1
      <4> QED
        BY <3>1, <4>1
    <3>2. ASSUME b \in BufsOf(q[pos])
          PROVE  \E j \in 1..Len(q) : ~(j > k /\ j < pos) /\ b \in BufsOf(q[j])
      <4>1. pos \in 1..Len(q) /\ ~(pos < pos)
        BY <1>2
      <4> QED
        BY <3>2, <4>1
    <3>3. ASSUME NEW i \in 1..Len(q) - pos, b \in BufsOf(q[pos + i])
          PROVE  \E j \in 1..Len(q) : ~(j > k /\ j < pos) /\ b \in BufsOf(q[j])
      <4>1. pos + i \in 1..Len(q) /\ ~(pos + i < pos)
        BY <1>1, <1>2
      <4> QED
        BY <3>3, <4>1
    <3> QED
      BY <2>4, <3>1, <3>2, <3>3
  <2>8. ~(b \in BufsIn(p) /\ b \in BufsIn(w))
    <3> SUFFICES ASSUME b \in BufsIn(p), b \in BufsIn(w) PROVE FALSE
      OBVIOUS
    <3>1. PICK i \in 1..Len(q) : ~(i > k /\ i < pos) /\ b \in BufsOf(q[i])
      BY <2>7
    <3>2. PICK j \in 1..Len(q) : j > k /\ j < pos /\ b \in BufsOf(q[j])
      BY <2>6
    <3>3. i = j
      BY <1>1, <3>1, <3>2, OneNode
    <3> QED
      BY <3>1, <3>2, <3>3
  <2>9. b \in BufsIn(p) \/ b \in BufsIn(w) => b \in BufsIn(q)
    BY <1>11, <2>6, <2>7
  <2> QED
    BY <2>5, <2>8, <2>9
<1>13. BufsIn(w) \subseteq Frames
  BY <1>5, BufIn
<1>14. BufsIn(p) \cup BufsIn(w) = BufsIn(q) /\ BufsIn(p) \cap BufsIn(w) = {}
  BY <1>12
<1> QED
  BY <1>6, <1>9, <1>13, <1>14 DEF n, u, v, w, p

\* A node that is not matched is removed.
LEMMA Removed ==
  ASSUME NEW q \in Seq(Node), NEW k, InOrder(q, k), NEW x \in k + 1..Len(q)
  PROVE  LET p == RemoveAt(q, x)
         IN  /\ p \in Seq(Node) /\ InOrder(p, k)
             /\ \A i \in 1..Len(p) : \E j \in 1..Len(q) : p[i] = q[j]
             /\ BufsOf(q[x]) \subseteq Frames
             /\ BufsIn(p) \cup BufsOf(q[x]) = BufsIn(q)
             /\ BufsIn(p) \cap BufsOf(q[x]) = {}
<1> DEFINE u == SubSeq(q, 1, x - 1)
           v == From(q, x)
           p == u \o v
<1>1. /\ Len(q) \in Nat /\ k \in Nat /\ k <= Len(q) /\ Ascends(q)
      /\ \A i \in 1..Len(q) : q[i].matched <=> i <= k
      /\ \A i \in 1..k : i \in 1..Len(q) /\ q[i].have = Streams
      /\ Cardinality(Streams) = 1 => k = Len(q)
  BY OrderParts
<1>2. /\ x \in Nat /\ x \in 1..Len(q) /\ x > k /\ x \in 0..Len(q) /\ x - 1 \in 0..Len(q)
      /\ Cardinality(Streams) # 1
  BY <1>1
<1>3. /\ u \in Seq(Node) /\ Len(u) = x - 1 /\ \A i \in 1..x - 1 : u[i] = q[i]
      /\ v \in Seq(Node) /\ Len(v) = Len(q) - x /\ \A i \in 1..Len(q) - x : v[i] = q[x + i]
  BY <1>2, Cut
<1>4. RemoveAt(q, x) = p
  BY DEF RemoveAt, From
<1> HIDE DEF u, v
<1>5. u \in Seq(Node) /\ v \in Seq(Node)
  BY <1>3
<1>6. \A i \in 1..Len(u) + Len(v) : p[i] = IF i <= Len(u) THEN u[i] ELSE v[i - Len(u)]
  BY <1>5, ConcatProperties
<1>7. p \in Seq(Node)
  BY <1>5, ConcatProperties
<1>8. Len(p) = Len(u) + Len(v)
  BY <1>5, ConcatProperties
<1> HIDE DEF p
<1>9. Len(p) = Len(q) - 1 /\ \A i \in 1..Len(q) - 1 : p[i] = IF i < x THEN q[i] ELSE q[i + 1]
  <2>1. Len(p) = Len(q) - 1
    BY <1>1, <1>2, <1>3, <1>8
  <2>2. ASSUME NEW i \in 1..Len(q) - 1 PROVE p[i] = IF i < x THEN q[i] ELSE q[i + 1]
    <3>0. i \in 1..Len(u) + Len(v)
      BY <1>1, <1>2, <1>3
    <3>1. CASE i < x
      <4>1. i <= Len(u) /\ i \in 1..x - 1
        BY <1>1, <1>2, <1>3, <3>1
      <4>2. p[i] = u[i]
        BY <1>6, <3>0, <4>1
      <4> QED
        BY <1>3, <3>1, <4>1, <4>2
    <3>2. CASE ~(i < x)
      <4>1. ~(i <= Len(u)) /\ i - Len(u) = i - x + 1 /\ i - x + 1 \in 1..Len(q) - x
            /\ x + (i - x + 1) = i + 1
        BY <1>1, <1>2, <1>3, <3>2
      <4>2. p[i] = v[i - x + 1]
        BY <1>6, <3>0, <4>1
      <4>3. v[i - x + 1] = q[x + (i - x + 1)]
        BY <1>3, <4>1
      <4> QED
        BY <3>2, <4>1, <4>2, <4>3
    <3> QED
      BY <3>1, <3>2
  <2> QED
    BY <2>1, <2>2
<1> DEFINE g == [i \in 1..Len(q) - 1 |-> IF i < x THEN i ELSE i + 1]
<1>10. \A i \in 1..Len(p) : p[i] = q[g[i]] /\ g[i] \in 1..Len(q) /\ g[i] # x
  BY <1>1, <1>2, <1>9
<1>11. \A i, j \in 1..Len(p) : i < j => g[i] < g[j]
  BY <1>1, <1>2, <1>9
<1>12. \A i \in 1..Len(p) : (g[i] <= k <=> i <= k)
  BY <1>1, <1>2, <1>9
<1>13. \A j \in 1..Len(q) : j # x => \E i \in 1..Len(p) : g[i] = j
  <2> SUFFICES ASSUME NEW j \in 1..Len(q), j # x PROVE \E i \in 1..Len(p) : g[i] = j
    OBVIOUS
  <2>1. CASE j < x
    <3>1. j \in 1..Len(p) /\ g[j] = j
      BY <1>1, <1>2, <1>9, <2>1
    <3> QED
      BY <3>1
  <2>2. CASE j > x
    <3>1. j - 1 \in 1..Len(p) /\ g[j - 1] = j
      BY <1>1, <1>2, <1>9, <2>2
    <3> QED
      BY <3>1
  <2>3. j < x \/ j > x
    BY <1>1, <1>2
  <2> QED
    BY <2>1, <2>2, <2>3
<1> HIDE DEF g
<1>14. InOrder(p, k)
  <2>1. Ascends(p)
    BY <1>1, <1>10, <1>11 DEF Ascends
  <2>2. \A i \in 1..Len(p) : p[i].matched <=> i <= k
    BY <1>1, <1>10, <1>12
  <2>3. k <= Len(p)
    BY <1>1, <1>2, <1>9
  <2>4. \A i \in 1..k : p[i].have = Streams
    <3> TAKE i \in 1..k
    <3>1. i \in 1..Len(p) /\ i <= k
      BY <1>1, <2>3, <1>9
    <3>2. g[i] \in 1..k
      BY <1>1, <1>10, <1>12, <3>1
    <3> QED
      BY <1>1, <1>10, <3>1, <3>2
  <2> QED
    BY <1>1, <1>2, <1>7, <2>1, <2>2, <2>3, <2>4, OrderFrom
<1>15. ASSUME NEW b
       PROVE  /\ b \in BufsIn(q) <=> b \in BufsIn(p) \/ b \in BufsOf(q[x])
              /\ ~(b \in BufsIn(p) /\ b \in BufsOf(q[x]))
  <2>1. b \in BufsIn(q) <=> \E i \in 1..Len(q) : b \in BufsOf(q[i])
    BY InBufs
  <2>2. b \in BufsIn(p) <=> \E i \in 1..Len(p) : b \in BufsOf(p[i])
    BY <1>7, InBufs
  <2>3. b \in BufsIn(p) <=> \E i \in 1..Len(q) : i # x /\ b \in BufsOf(q[i])
    BY <1>10, <1>13, <2>2
  <2>4. ~(b \in BufsIn(p) /\ b \in BufsOf(q[x]))
    <3> SUFFICES ASSUME NEW i \in 1..Len(q), i # x, b \in BufsOf(q[i]), b \in BufsOf(q[x])
                 PROVE  FALSE
      BY <2>3
    <3> QED
      BY <1>1, <1>2, OneNode
  <2> QED
    BY <1>2, <2>1, <2>3, <2>4
<1>16. BufsIn(p) \cup BufsOf(q[x]) = BufsIn(q) /\ BufsIn(p) \cap BufsOf(q[x]) = {}
  BY <1>15
<1>17. BufsOf(q[x]) \subseteq Frames
  BY <1>2, BufIn, OneBuf
<1> QED
  BY <1>4, <1>7, <1>10, <1>14, <1>16, <1>17

\* There is no node of frame f, and the matched ones are older.
Room(q, f) == \A i \in 1..Len(q) : /\ q[i].frame_idx # f
                                   /\ q[i].matched => q[i].frame_idx < f

\* A node is inserted at its place.
LEMMA Inserted ==
  ASSUME NEW q \in Seq(Node), NEW k, InOrder(q, k), NEW n \in Node, Room(q, n.frame_idx),
         n.matched <=> Cardinality(Streams) = 1, n.matched => n.have = Streams
  PROVE  LET p == InsertAt(q, InsertPlace(q, n.frame_idx), n)
         IN  /\ p \in Seq(Node)
             /\ InOrder(p, IF n.matched THEN k + 1 ELSE k)
             /\ BufsIn(p) = BufsIn(q) \cup BufsOf(n)
<1> DEFINE f == n.frame_idx
           x == InsertPlace(q, f)
           u == SubSeq(q, 1, x - 1)
           v == From(q, x - 1)
           p == Spliced(u, n, v)
<1>1. /\ Len(q) \in Nat /\ k \in Nat /\ k <= Len(q) /\ Ascends(q)
      /\ \A i \in 1..Len(q) : q[i].matched <=> i <= k
      /\ \A i \in 1..k : i \in 1..Len(q) /\ q[i].have = Streams
      /\ Cardinality(Streams) = 1 => k = Len(q)
  BY OrderParts
<1>2. f \in Nat /\ n.matched \in BOOLEAN /\ \A i \in 1..Len(q) : q[i].frame_idx \in Nat
  <2>1. f \in Nat /\ n.matched \in BOOLEAN
    BY ConstantsOK DEF Node
  <2> QED
    BY <2>1, Nodes
<1>3. Unmatched(q) = k + 1..Len(q)
  BY Matched
<1>4. /\ x \in k + 1..Len(q) + 1
      /\ \A i \in 1..Len(q) : i < x => q[i].frame_idx < f
      /\ \A i \in 1..Len(q) : i >= x => f < q[i].frame_idx
  <2>1. CASE Newer(q, f) = {}
    <3>1. x = Len(q) + 1
      BY <2>1 DEF InsertPlace
    <3>2. ASSUME NEW i \in 1..Len(q) PROVE q[i].frame_idx < f
      <4>1. CASE q[i].matched
        BY <4>1 DEF Room
      <4>2. CASE ~q[i].matched
        <5>1. i \in Unmatched(q)
          BY <1>1, <1>3, <4>2
        <5>2. ~(q[i].frame_idx > f) /\ q[i].frame_idx # f
          BY <2>1, <5>1 DEF Newer, Room
        <5> QED
          BY <1>2, <5>2
      <4> QED
        BY <4>1, <4>2
    <3> HIDE DEF x
    <3> QED
      BY <1>1, <3>1, <3>2
  <2>2. CASE Newer(q, f) # {}
    <3>1. x = Min(Newer(q, f))
      BY <2>2 DEF InsertPlace
    <3>2. Newer(q, f) \subseteq Nat
      BY <1>1, <1>3 DEF Newer
    <3>3. x \in Newer(q, f) /\ \A y \in Newer(q, f) : x <= y
      BY <2>2, <3>1, <3>2, MinOf
    <3> HIDE DEF x
    <3>4. x \in k + 1..Len(q) /\ q[x].frame_idx > f /\ x \in 1..Len(q)
      BY <1>1, <1>3, <3>3 DEF Newer
    <3>5. ASSUME NEW i \in 1..Len(q), i < x PROVE q[i].frame_idx < f
      <4>1. CASE q[i].matched
        BY <4>1 DEF Room
      <4>2. CASE ~q[i].matched
        <5>1. i \in Unmatched(q) /\ i \notin Newer(q, f)
          BY <1>1, <1>3, <3>3, <3>4, <3>5, <4>2
        <5>2. ~(q[i].frame_idx > f) /\ q[i].frame_idx # f
          BY <5>1 DEF Newer, Room
        <5> QED
          BY <1>2, <5>2
      <4> QED
        BY <4>1, <4>2
    <3>6. ASSUME NEW i \in 1..Len(q), i >= x PROVE f < q[i].frame_idx
      <4>1. CASE i = x
        BY <1>2, <3>4, <4>1
      <4>2. CASE i > x
        <5>1. q[x].frame_idx < q[i].frame_idx
          BY <1>1, <3>4, <4>2 DEF Ascends
        <5> QED
          BY <1>2, <3>4, <5>1
      <4> QED
        BY <1>1, <3>4, <3>6, <4>1, <4>2
    <3> QED
      BY <1>1, <3>4, <3>5, <3>6
  <2> QED
    BY <2>1, <2>2
<1> HIDE DEF x
<1>5. x \in Nat /\ x - 1 \in 0..Len(q) /\ x > k
  BY <1>1, <1>4
<1>6. /\ u \in Seq(Node) /\ Len(u) = x - 1 /\ \A i \in 1..x - 1 : u[i] = q[i]
      /\ v \in Seq(Node) /\ Len(v) = Len(q) - (x - 1)
      /\ \A i \in 1..Len(q) - (x - 1) : v[i] = q[(x - 1) + i]
  <2> DEFINE y == x - 1
  <2>1. y \in 0..Len(q)
    BY <1>5
  <2> HIDE DEF y
  <2>2. /\ SubSeq(q, 1, y) \in Seq(Node) /\ Len(SubSeq(q, 1, y)) = y
        /\ \A i \in 1..y : SubSeq(q, 1, y)[i] = q[i]
        /\ From(q, y) \in Seq(Node) /\ Len(From(q, y)) = Len(q) - y
        /\ \A i \in 1..Len(q) - y : From(q, y)[i] = q[y + i]
    BY <2>1, Cut
  <2> QED
    BY <2>2 DEF y
<1>7. InsertAt(q, x, n) = p
  <2>1. x = (x - 1) + 1
    BY <1>5
  <2>2. SubSeq(q, x, Len(q)) = From(q, x - 1)
    BY <2>1 DEF From
  <2> QED
    BY <2>2 DEF InsertAt, Spliced
<1>8. BufsIn(u) \cup BufsIn(v) = BufsIn(q)
  BY <1>5, CutBufs
<1> HIDE DEF u, v, f
<1>10. Ascends(u) /\ Ascends(v)
  <2>1. \A i \in 1..Len(u) : i \in 1..Len(q)
    BY <1>1, <1>5, <1>6
  <2>2. \A i, j \in 1..Len(v) : /\ (x - 1) + i \in 1..Len(q) /\ (x - 1) + j \in 1..Len(q)
                                /\ i < j => (x - 1) + i < (x - 1) + j
    BY <1>1, <1>5, <1>6
  <2>3. Ascends(u)
    BY <1>1, <1>6, <2>1 DEF Ascends
  <2>4. Ascends(v)
    BY <1>1, <1>6, <2>2 DEF Ascends
  <2> QED
    BY <2>3, <2>4
<1>11. \A i \in 1..Len(u) : u[i].frame_idx < n.frame_idx
  <2>1. \A i \in 1..Len(u) : i \in 1..Len(q) /\ i < x
    BY <1>1, <1>5, <1>6
  <2> QED
    BY <1>4, <1>6, <2>1 DEF f
<1>12. \A i \in 1..Len(v) : n.frame_idx < v[i].frame_idx
  <2>1. \A i \in 1..Len(v) : (x - 1) + i \in 1..Len(q) /\ (x - 1) + i >= x
    BY <1>1, <1>5, <1>6
  <2> QED
    BY <1>4, <1>6, <2>1 DEF f
<1>13. Ascends(p)
  BY <1>6, <1>10, <1>11, <1>12, SplicedAscends
<1>14. BufsIn(p) = BufsIn(q) \cup BufsOf(n)
  <2>1. BufsIn(p) = BufsIn(u) \cup BufsOf(n) \cup BufsIn(v)
    BY <1>6, SplicedBufs
  <2> QED
    BY <1>8, <2>1
<1>15. /\ p \in Seq(Node) /\ Len(p) = Len(q) + 1
       /\ \A i \in 1..Len(q) + 1 : p[i] = IF i < x THEN q[i] ELSE IF i = x THEN n ELSE q[i - 1]
  <2>0. u \in Seq(Node) /\ v \in Seq(Node)
    BY <1>6
  <2>1. p \in Seq(Node)
    BY <2>0, SplicedPlaces
  <2>2. Len(p) = Len(u) + 1 + Len(v)
    BY <2>0, SplicedPlaces
  <2>3. \A i \in 1..Len(u) : p[i] = u[i]
    BY <2>0, SplicedPlaces
  <2>4. p[Len(u) + 1] = n
    BY <2>0, SplicedPlaces
  <2>5. \A i \in 1..Len(v) : p[Len(u) + 1 + i] = v[i]
    BY <2>0, SplicedPlaces
  <2> HIDE DEF p
  <2>6. Len(p) = Len(q) + 1 /\ Len(u) + 1 = x
    BY <1>1, <1>5, <1>6, <2>2
  <2>7. ASSUME NEW i \in 1..Len(q) + 1
        PROVE  p[i] = IF i < x THEN q[i] ELSE IF i = x THEN n ELSE q[i - 1]
    <3>1. CASE i < x
      <4>1. i \in 1..x - 1 /\ i \in 1..Len(u)
        BY <1>5, <1>6, <3>1
      <4> QED
        BY <1>6, <2>3, <3>1, <4>1
    <3>2. CASE i = x
      BY <1>5, <2>4, <2>6, <3>2
    <3>3. CASE i > x
      <4>1. i - x \in 1..Len(v) /\ x + (i - x) = i /\ (x - 1) + (i - x) = i - 1
            /\ i - x \in 1..Len(q) - (x - 1)
        BY <1>1, <1>5, <1>6, <3>3
      <4>2. p[i] = v[i - x]
        BY <2>5, <2>6, <4>1
      <4>3. v[i - x] = q[i - 1]
        BY <1>6, <4>1
      <4> QED
        BY <1>5, <3>3, <4>2, <4>3
    <3> QED
      BY <1>5, <3>1, <3>2, <3>3
  <2> QED
    BY <2>1, <2>6, <2>7
<1> HIDE DEF p
<1>16. InOrder(p, IF n.matched THEN k + 1 ELSE k)
  <2>1. CASE n.matched
    <3>1. x = k + 1 /\ k = Len(q)
      BY <1>1, <1>4, <2>1
    <3>2. \A i \in 1..Len(p) : p[i].matched <=> i <= k + 1
      <4> TAKE i \in 1..Len(p)
      <4>1. CASE i < x
        BY <1>1, <1>15, <3>1, <4>1
      <4>2. CASE i = x
        BY <1>1, <1>15, <2>1, <3>1, <4>2
      <4> QED
        BY <1>1, <1>15, <3>1, <4>1, <4>2
    <3>3. \A i \in 1..k + 1 : p[i].have = Streams
      <4> TAKE i \in 1..k + 1
      <4>1. CASE i < x
        <5>1. i \in 1..k /\ p[i] = q[i]
          BY <1>1, <1>15, <3>1, <4>1
        <5> QED
          BY <1>1, <5>1
      <4>2. CASE i = x
        BY <1>1, <1>15, <2>1, <3>1, <4>2
      <4> QED
        BY <1>1, <3>1, <4>1, <4>2
    <3>4. k + 1 \in Nat /\ k + 1 <= Len(p) /\ k + 1 = Len(p)
      BY <1>1, <1>15, <3>1
    <3>5. InOrder(p, k + 1)
      BY <1>13, <1>15, <3>2, <3>3, <3>4, OrderFrom
    <3> QED
      BY <2>1, <3>5
  <2>2. CASE ~n.matched
    <3>1. Cardinality(Streams) # 1
      BY <2>2
    <3>2. \A i \in 1..Len(p) : p[i].matched <=> i <= k
      <4> TAKE i \in 1..Len(p)
      <4>1. CASE i < x
        <5>1. p[i] = q[i] /\ i \in 1..Len(q)
          BY <1>1, <1>4, <1>15, <4>1
        <5> QED
          BY <1>1, <5>1
      <4>2. CASE i = x
        <5>1. p[i] = n /\ ~(i <= k)
          BY <1>1, <1>5, <1>15, <4>2
        <5> QED
          BY <2>2, <5>1
      <4>3. CASE i > x
        <5>1. p[i] = q[i - 1] /\ i - 1 \in 1..Len(q) /\ ~(i - 1 <= k) /\ ~(i <= k)
          BY <1>1, <1>5, <1>15, <4>3
        <5> QED
          BY <1>1, <5>1
      <4> QED
        BY <1>5, <1>15, <4>1, <4>2, <4>3
    <3>3. \A i \in 1..k : p[i].have = Streams
      <4> TAKE i \in 1..k
      <4>1. i < x /\ i \in 1..Len(q) + 1
        BY <1>1, <1>5
      <4> QED
        BY <1>1, <1>15, <4>1
    <3>4. k \in Nat /\ k <= Len(p)
      BY <1>1, <1>15
    <3>5. InOrder(p, k)
      BY <1>13, <1>15, <3>1, <3>2, <3>3, <3>4, OrderFrom
    <3> QED
      BY <2>2, <3>5
  <2> QED
    BY <1>2, <2>1, <2>2
<1> QED
  BY <1>7, <1>14, <1>15, <1>16 DEF f, x

\* A frame goes back to the kernel.
LEMMA QBufTakes ==
  ASSUME NEW c, Good(c), NEW B, B \subseteq Frames, B \cap BufsIn(c.queue) = {}
  PROVE  /\ Good(QBuf(c, B)) /\ Owned(QBuf(c, B)) = Owned(c) \cup B /\ Alike(c, QBuf(c, B))
         /\ QBuf(c, B).queue = c.queue /\ QBuf(c, B).match_cnt = c.match_cnt
<1> DEFINE d == QBuf(c, B)
<1>1. c \in Channel /\ c.done \subseteq Frames
  BY GoodParts
<1>2. /\ d \in Channel /\ Alike(c, d) /\ d.queue = c.queue /\ d.match_cnt = c.match_cnt
      /\ d.done = c.done \cup B
  BY <1>1 DEF QBuf, Channel, Alike
<1> HIDE DEF d
<1>3. Good(d)
  BY <1>2 DEF Good
<1>4. Owned(d) = Owned(c) \cup B
  BY <1>2 DEF Owned
<1> QED
  BY <1>2, <1>3, <1>4 DEF d

LEMMA FillSlotTakes ==
  ASSUME NEW c, Good(c), NEW s \in Streams, NEW pos \in Unmatched(c.queue),
         <<s, c.queue[pos].frame_idx>> \notin Owned(c)
  PROVE  Got(c, <<s, c.queue[pos].frame_idx>>, FillSlot(c, s, pos))
<1> DEFINE q == WithSlot(c.queue, pos, s)
           k == c.match_cnt
           b == <<s, c.queue[pos].frame_idx>>
           older == {i \in 1..pos - 1 : ~q[i].matched /\ q[i].frame_idx < q[pos].frame_idx}
           first == Min(older \cup {pos})
           w == SubSeq(q, k + 1, pos - 1)
           p == Spliced(SubSeq(q, 1, k), [q[pos] EXCEPT !.matched = TRUE], From(q, pos))
           d == FillSlot(c, s, pos)
<1>1. /\ c \in Channel /\ c.queue \in Seq(Node) /\ k \in Nat /\ c.done \subseteq Frames
      /\ InOrder(c.queue, k) /\ BufsIn(c.queue) \cap c.done = {} /\ c.expectedNoLed \in Nat
  BY GoodParts
<1>2. pos \in k + 1..Len(c.queue) /\ Len(c.queue) \in Nat
  BY <1>1, Matched, Nodes
<1>3. /\ q \in Seq(Node) /\ Len(q) = Len(c.queue) /\ InOrder(q, k)
      /\ q[pos].frame_idx = c.queue[pos].frame_idx
      /\ BufsIn(q) = BufsIn(c.queue) \cup {b}
  <2>1. LET r == WithSlot(c.queue, pos, s)
        IN  /\ r \in Seq(Node) /\ Len(r) = Len(c.queue) /\ InOrder(r, k)
            /\ r[pos].frame_idx = c.queue[pos].frame_idx
            /\ BufsIn(r) = BufsIn(c.queue) \cup {<<s, c.queue[pos].frame_idx>>}
    BY <1>1, <1>2, Filled
  <2> QED
    BY <2>1
<1>4. pos \in Nat /\ pos > k /\ pos \in 1..Len(q) /\ pos \in k + 1..Len(q)
  BY <1>1, <1>2, <1>3
<1>5. BufsIn(q) \cap c.done = {}
  BY <1>1, <1>3 DEF Owned
<1> HIDE DEF q
<1>6. q[pos].frame_idx \in Nat
  BY <1>3, <1>4, Nodes
<1>7. CASE ~Complete(q[pos])
  <2>1. d = [c EXCEPT !.queue = q]
    BY <1>7 DEF FillSlot, q, WithSlot
  <2> HIDE DEF d
  <2>2. /\ d \in Channel /\ d.queue = q /\ d.match_cnt = k /\ d.done = c.done /\ Alike(c, d)
    BY <1>1, <1>3, <2>1 DEF Channel, Alike
  <2>3. Good(d) /\ Owned(d) = BufsIn(q) \cup c.done
    BY <1>1, <1>3, <1>5, <2>2 DEF Good, Owned
  <2>4. Owned(d) = Owned(c) \cup {b}
    BY <1>3, <2>3 DEF Owned
  <2> QED
    BY <2>2, <2>3, <2>4 DEF Got, d
<1>8. CASE Complete(q[pos])
  <2>0. q[pos].have = Streams
    BY <1>8 DEF Complete
  <2>1. first = k + 1
    <3>1. older \cup {pos} = k + 1..pos
      <4>1. \A i \in 1..pos - 1 : /\ i \in 1..Len(q) /\ i < pos
                                  /\ ~q[i].matched <=> i > k
                                  /\ q[i].frame_idx < q[pos].frame_idx
        <5> TAKE i \in 1..pos - 1
        <5>1. i \in 1..Len(q) /\ i < pos
          BY <1>4
        <5> QED
          BY <1>1, <1>3, <1>4, <5>1, OrderParts DEF Ascends
      <4>2. \A i : i \in older <=> i \in k + 1..pos - 1
        BY <1>1, <1>4, <4>1
      <4> HIDE DEF older
      <4> QED
        BY <1>1, <1>4, <4>2
    <3>2. k + 1..pos \subseteq Nat /\ k + 1 \in k + 1..pos /\ k + 1..pos # {}
      BY <1>1, <1>4
    <3> DEFINE S == k + 1..pos
    <3>3. Min(S) \in S /\ \A y \in S : Min(S) <= y
      BY <3>2, MinOf
    <3>4. Min(S) = k + 1
      BY <1>1, <1>4, <3>2, <3>3
    <3> QED
      BY <3>1, <3>4
  <2>2. /\ p \in Seq(Node) /\ InOrder(p, k + 1) /\ BufsIn(w) \subseteq Frames
        /\ BufsIn(p) \cup BufsIn(w) = BufsIn(q) /\ BufsIn(p) \cap BufsIn(w) = {}
    BY <1>3, <1>4, <2>0, Completed
  <2>3. d = QBuf([c EXCEPT
             !.queue = SubSeq(q, 1, first - 1)
                         \o <<[q[pos] EXCEPT !.matched = TRUE]>> \o From(q, pos),
             !.match_cnt = @ + 1,
             !.expected = IF c.isFlashBracketing THEN c.expectedNoLed
                          ELSE q[pos].frame_idx + PostFrameSkip,
             !.isFlashBracketing = FALSE], BufsIn(SubSeq(q, first, pos - 1)))
    BY <1>8 DEF FillSlot, q, WithSlot
  <2> DEFINE e == IF c.isFlashBracketing THEN c.expectedNoLed ELSE q[pos].frame_idx + PostFrameSkip
  <2>4. (k + 1) - 1 = k
    BY <1>1
  <2>5. d = QBuf([c EXCEPT !.queue = p, !.match_cnt = k + 1, !.expected = e,
                           !.isFlashBracketing = FALSE], BufsIn(w))
    <3> HIDE DEF first, d
    <3> QED
      BY <2>1, <2>3, <2>4 DEF Spliced
  <2>6. e \in Nat /\ k + 1 \in Nat
    <3>1. PostFrameSkip \in Nat /\ q[pos].frame_idx + PostFrameSkip \in Nat
      BY <1>6, ConstantsOK
    <3> QED
      BY <1>1, <3>1
  <2> HIDE DEF d, p, w, e
  <2>7. /\ d \in Channel /\ d.queue = p /\ d.match_cnt = k + 1 /\ d.done = c.done \cup BufsIn(w)
        /\ Alike(c, d)
    BY <1>1, <2>2, <2>5, <2>6 DEF QBuf, Channel, Alike
  <2>8. BufsIn(p) \cap (c.done \cup BufsIn(w)) = {} /\ c.done \cup BufsIn(w) \subseteq Frames
    BY <1>1, <1>5, <2>2
  <2>9. Good(d) /\ Owned(d) = BufsIn(p) \cup (c.done \cup BufsIn(w))
    BY <2>2, <2>6, <2>7, <2>8 DEF Good, Owned
  <2>10. Owned(d) = Owned(c) \cup {b}
    BY <1>3, <2>2, <2>9 DEF Owned
  <2> QED
    BY <2>7, <2>9, <2>10 DEF Got, d
<1> QED
  BY <1>7, <1>8

LEMMA MakePlaceTakes ==
  ASSUME NEW c, Good(c), NEW f \in Nat, Room(c.queue, f),
         QueueFull(c.queue) => Older(c.queue, f) # {}
  PROVE  Took(c, MakePlace(c, f)) /\ Room(MakePlace(c, f).queue, f)
<1>1. CASE ~QueueFull(c.queue)
  BY <1>1, TookSelf DEF MakePlace
<1>2. CASE QueueFull(c.queue)
  <2> DEFINE q == c.queue
             k == c.match_cnt
             x == Min(Older(q, f))
             p == RemoveAt(q, x)
             e == [c EXCEPT !.queue = p]
  <2>1. /\ c \in Channel /\ q \in Seq(Node) /\ k \in Nat /\ c.done \subseteq Frames
        /\ InOrder(q, k) /\ BufsIn(q) \cap c.done = {}
    BY GoodParts
  <2>2. Unmatched(q) = k + 1..Len(q) /\ Len(q) \in Nat
    BY <2>1, Matched, Nodes
  <2>3. x \in k + 1..Len(q)
    <3>1. Older(q, f) \subseteq k + 1..Len(q) /\ Older(q, f) \subseteq Nat /\ Older(q, f) # {}
      BY <1>2, <2>1, <2>2 DEF Older
    <3>2. x \in Older(q, f)
      BY <3>1, MinOf
    <3> QED
      BY <3>1, <3>2
  <2> HIDE DEF x
  <2>4. /\ p \in Seq(Node) /\ InOrder(p, k)
        /\ \A i \in 1..Len(p) : \E j \in 1..Len(q) : p[i] = q[j]
        /\ BufsOf(q[x]) \subseteq Frames
        /\ BufsIn(p) \cup BufsOf(q[x]) = BufsIn(q)
        /\ BufsIn(p) \cap BufsOf(q[x]) = {}
    BY <2>1, <2>3, Removed
  <2>5. MakePlace(c, f) = QBuf(e, BufsOf(q[x]))
    BY <1>2 DEF MakePlace, x
  <2> HIDE DEF p
  <2>6. e \in Channel /\ e.queue = p /\ e.match_cnt = k /\ e.done = c.done /\ Alike(c, e)
    BY <2>1, <2>4 DEF Channel, Alike
  <2> HIDE DEF e
  <2>7. BufsIn(p) \cap c.done = {}
    BY <2>1, <2>4
  <2>8. Good(e) /\ Owned(e) = BufsIn(p) \cup c.done
    BY <2>1, <2>4, <2>6, <2>7 DEF Good, Owned
  <2> DEFINE B == BufsOf(q[x])
             d == QBuf(e, B)
  <2>9. Good(d) /\ Owned(d) = Owned(e) \cup B /\ Alike(e, d) /\ d.queue = p
    <3>1. B \subseteq Frames /\ B \cap BufsIn(e.queue) = {}
      BY <2>4, <2>6
    <3> HIDE DEF B
    <3> QED
      BY <2>6, <2>8, <3>1, QBufTakes
  <2> HIDE DEF d
  <2>10. Owned(d) = Owned(c)
    BY <2>4, <2>8, <2>9 DEF Owned
  <2>11. Alike(c, d)
    BY <2>6, <2>9 DEF Alike
  <2>12. Room(p, f)
    BY <2>4 DEF Room
  <2>13. Took(c, d)
    BY <2>9, <2>10, <2>11 DEF Took
  <2> QED
    BY <2>5, <2>9, <2>12, <2>13 DEF d
<1> QED
  BY <1>1, <1>2

LEMMA OpenNodeTakes ==
  ASSUME NEW c, Good(c), NEW s \in Streams, NEW f \in 1..MaxFrame, NEW allocated \in BOOLEAN,
         Room(c.queue, f), <<s, f>> \notin Owned(c)
  PROVE  Got(c, <<s, f>>, OpenNode(c, s, f, allocated))
<1> DEFINE b == <<s, f>>
           m == MakePlace(c, f)
           single == Cardinality(Streams) = 1
           n == [frame_idx |-> f, have |-> {s}, matched |-> single]
<1>1. f \in Nat /\ {b} \subseteq Frames /\ b \notin BufsIn(c.queue)
  BY ConstantsOK DEF Frames, Owned
<1>2. CASE QueueFull(c.queue) /\ Older(c.queue, f) = {}
  <2>1. Good(QBuf(c, {b})) /\ Owned(QBuf(c, {b})) = Owned(c) \cup {b} /\ Alike(c, QBuf(c, {b}))
    <3>1. {b} \subseteq Frames /\ {b} \cap BufsIn(c.queue) = {}
      BY <1>1
    <3> DEFINE B == {b}
    <3> HIDE DEF B
    <3>2. Good(QBuf(c, B)) /\ Owned(QBuf(c, B)) = Owned(c) \cup B /\ Alike(c, QBuf(c, B))
      BY <3>1, QBufTakes DEF B
    <3> QED
      BY <3>2 DEF B
  <2>2. OpenNode(c, s, f, allocated) = QBuf(c, {b})
    BY <1>2 DEF OpenNode
  <2> QED
    BY <2>1, <2>2 DEF Got
<1>3. CASE ~(QueueFull(c.queue) /\ Older(c.queue, f) = {})
  <2>1. Took(c, m) /\ Room(m.queue, f)
    BY <1>1, <1>3, MakePlaceTakes
  <2> HIDE DEF m
  <2>2. Good(m) /\ Owned(m) = Owned(c) /\ Alike(c, m)
    BY <2>1 DEF Took
  <2>3. /\ m \in Channel /\ m.queue \in Seq(Node) /\ m.match_cnt \in Nat /\ m.done \subseteq Frames
        /\ InOrder(m.queue, m.match_cnt) /\ BufsIn(m.queue) \cap m.done = {} /\ m.expected \in Nat
    BY <2>2, GoodParts
  <2>4. b \notin BufsIn(m.queue) /\ b \notin m.done
    BY <2>2 DEF Owned
  <2>5. CASE ~allocated
    <3>1. OpenNode(c, s, f, allocated) = QBuf(m, {b})
      BY <1>3, <2>5 DEF OpenNode, m
    <3> DEFINE B == {b}
    <3>2. B \subseteq Frames /\ B \cap BufsIn(m.queue) = {}
      BY <1>1, <2>4
    <3> HIDE DEF B
    <3>3. Good(QBuf(m, B)) /\ Owned(QBuf(m, B)) = Owned(m) \cup B /\ Alike(m, QBuf(m, B))
      BY <2>2, <3>2, QBufTakes
    <3>4. Alike(c, QBuf(m, B))
      BY <2>2, <3>3 DEF Alike
    <3> QED
      BY <2>2, <3>1, <3>3, <3>4 DEF Got, B
  <2>6. CASE allocated
    <3> DEFINE p == InsertAt(m.queue, InsertPlace(m.queue, f), n)
               k == IF single THEN m.match_cnt + 1 ELSE m.match_cnt
               e == IF single THEN f + PostFrameSkip ELSE m.expected
               d == [m EXCEPT !.queue = p, !.match_cnt = k, !.expected = e]
    <3>1. OpenNode(c, s, f, allocated) = d
      BY <1>3, <2>6 DEF OpenNode, m
    <3>2. /\ n \in Node /\ n.frame_idx = f /\ n.matched = single /\ n.have = {s}
          /\ BufsOf(n) = {b}
      <4>1. n \in Node /\ n.frame_idx = f /\ n.matched = single /\ n.have = {s}
        BY DEF Node
      <4> HIDE DEF n
      <4>2. BufsOf(n) = {s} \X {f}
        BY <4>1 DEF BufsOf
      <4> QED
        BY <4>1, <4>2
    <3>3. single => {s} = Streams
      <4> SUFFICES ASSUME single PROVE {s} = Streams
        OBVIOUS
      <4>1. PICK x : Streams = {x}
        BY ConstantsOK, FS_Singleton
      <4> QED
        BY <4>1
    <3> HIDE DEF n
    <3>4. n.matched => n.have = Streams
      BY <3>2, <3>3
    <3>5. /\ p \in Seq(Node) /\ InOrder(p, IF n.matched THEN m.match_cnt + 1 ELSE m.match_cnt)
          /\ BufsIn(p) = BufsIn(m.queue) \cup BufsOf(n)
      <4>1. Room(m.queue, n.frame_idx) /\ (n.matched <=> Cardinality(Streams) = 1)
        BY <2>1, <3>2
      <4>2. LET r == InsertAt(m.queue, InsertPlace(m.queue, n.frame_idx), n)
            IN  /\ r \in Seq(Node)
                /\ InOrder(r, IF n.matched THEN m.match_cnt + 1 ELSE m.match_cnt)
                /\ BufsIn(r) = BufsIn(m.queue) \cup BufsOf(n)
        BY <2>3, <3>2, <3>4, <4>1, Inserted
      <4> QED
        BY <3>2, <4>2
    <3> HIDE DEF p
    <3>6. InOrder(p, k) /\ k \in Nat
      <4>1. (IF n.matched THEN m.match_cnt + 1 ELSE m.match_cnt) = k
        BY <3>2
      <4>2. m.match_cnt + 1 \in Nat
        BY <2>3
      <4> QED
        BY <2>3, <3>5, <4>1, <4>2
    <3>7. e \in Nat
      BY <1>1, <2>3, ConstantsOK
    <3> HIDE DEF k, e
    <3>8. d \in Channel /\ d.queue = p /\ d.match_cnt = k /\ d.done = m.done /\ Alike(m, d)
      BY <2>3, <3>5, <3>6, <3>7 DEF Channel, Alike
    <3>9. BufsIn(p) \cap m.done = {}
      BY <2>3, <2>4, <3>2, <3>5
    <3> HIDE DEF d
    <3>10. Good(d) /\ Owned(d) = BufsIn(p) \cup m.done
      BY <2>2, <2>3, <3>5, <3>6, <3>8, <3>9 DEF Good, Owned
    <3>11. Owned(d) = Owned(c) \cup {b}
      BY <2>2, <3>2, <3>5, <3>10 DEF Owned
    <3>12. Alike(c, d)
      BY <2>2, <3>8 DEF Alike
    <3> QED
      BY <3>1, <3>10, <3>11, <3>12 DEF Got
  <2> QED
    BY <2>5, <2>6
<1> QED
  BY <1>2, <1>3

\* The commands that carry a buffer.
Data == [type : {"DATA"}, stream : Streams, idx : 1..MaxFrame, meta : MetaKinds]
BufOf(cmd) == <<cmd.stream, cmd.idx>>

\* Metadata with both kinds of range, whose buffer is neither queued nor given back.
Dropped(cmd) == cmd.stream = MetaStream /\ BothValid(cmd.meta)

LEMMA CompAndEnqueueTakes ==
  ASSUME NEW c, Good(c), NEW b \in Data, NEW allocated \in BOOLEAN,
         \A g : <<b.stream, g>> \in Owned(c) => g < b.idx
  PROVE  IF Dropped(b) THEN Took(c, CompAndEnqueue(c, b, allocated))
         ELSE Got(c, BufOf(b), CompAndEnqueue(c, b, allocated))
<1> DEFINE s == b.stream
           f == b.idx
           isMeta == s = MetaStream
           d == IF isMeta THEN HandleMetadata(c, f, b.meta) ELSE c
           same == {i \in Unmatched(d.queue) : d.queue[i].frame_idx = f}
           r == CompAndEnqueue(c, b, allocated)
<1>1. s \in Streams /\ f \in 1..MaxFrame /\ f \in Nat /\ b.meta \in MetaKinds
  BY ConstantsOK DEF Data
<1>2. Took(c, d)
  BY <1>1, HandleMetadataTakes, TookSelf
<1>3. r = IF isMeta /\ BothValid(b.meta) THEN d
          ELSE IF (isMeta /\ ~b.meta.valid) \/ f < d.expected THEN QBuf(d, {<<s, f>>})
          ELSE IF same # {} THEN FillSlot(d, s, Min(same))
          ELSE OpenNode(d, s, f, allocated)
  BY DEF CompAndEnqueue
<1> HIDE DEF d, r
<1>4. Good(d) /\ Owned(d) = Owned(c) /\ Alike(c, d)
  BY <1>2 DEF Took
<1>5. /\ d.queue \in Seq(Node) /\ InOrder(d.queue, d.match_cnt)
      /\ Unmatched(d.queue) = d.match_cnt + 1..Len(d.queue)
      /\ Len(d.queue) \in Nat /\ d.match_cnt \in Nat
  <2>1. d.queue \in Seq(Node) /\ InOrder(d.queue, d.match_cnt) /\ d.match_cnt \in Nat
    BY <1>4, GoodParts
  <2> QED
    BY <2>1, Matched, Nodes
<1>6. <<s, f>> \notin Owned(d)
  <2>1. ~(f < f)
    BY <1>1
  <2> QED
    BY <1>4, <2>1
<1>7. CASE Dropped(b)
  BY <1>2, <1>3, <1>7 DEF Dropped, r
<1>8. CASE ~Dropped(b)
  <2> SUFFICES Got(d, <<s, f>>, r)
    BY <1>4, <1>8 DEF Got, Alike, BufOf, r
  <2>1. CASE (isMeta /\ ~b.meta.valid) \/ f < d.expected
    <3> DEFINE B == {<<s, f>>}
    <3>1. B \subseteq Frames /\ B \cap BufsIn(d.queue) = {}
      BY <1>1, <1>6 DEF Frames, Owned
    <3>2. r = QBuf(d, B)
      BY <1>3, <1>8, <2>1 DEF Dropped
    <3> HIDE DEF B
    <3>3. Good(r) /\ Owned(r) = Owned(d) \cup B /\ Alike(d, r)
      BY <1>4, <3>1, <3>2, QBufTakes
    <3> QED
      BY <3>3 DEF Got, B
  <2>2. CASE ~((isMeta /\ ~b.meta.valid) \/ f < d.expected) /\ same # {}
    <3>0. same \subseteq Nat /\ same # {}
      <4>1. same \subseteq Unmatched(d.queue)
        OBVIOUS
      <4>2. \A i \in d.match_cnt + 1..Len(d.queue) : i \in Nat
        BY <1>5
      <4> QED
        BY <1>5, <2>2, <4>1, <4>2
    <3> DEFINE pos == Min(same)
    <3>1. pos \in same
      <4> HIDE DEF same
      <4> QED
        BY <3>0, MinOf
    <3>2. r = FillSlot(d, s, pos)
      BY <1>3, <1>8, <2>2 DEF Dropped
    <3>3. pos \in Unmatched(d.queue) /\ d.queue[pos].frame_idx = f
      BY <3>1
    <3> HIDE DEF pos
    <3>4. Got(d, <<s, d.queue[pos].frame_idx>>, FillSlot(d, s, pos))
      BY <1>1, <1>4, <1>6, <3>3, FillSlotTakes
    <3> QED
      BY <3>2, <3>3, <3>4 DEF pos
  <2>3. CASE ~((isMeta /\ ~b.meta.valid) \/ f < d.expected) /\ same = {}
    <3>1. Room(d.queue, f)
      <4> SUFFICES ASSUME NEW i \in 1..Len(d.queue)
                   PROVE  /\ d.queue[i].frame_idx # f
                          /\ d.queue[i].matched => d.queue[i].frame_idx < f
        BY DEF Room
      <4>1. CASE i <= d.match_cnt
        <5>1. d.queue[i].have = Streams
          BY <1>5, <4>1 DEF InOrder
        <5>2. <<s, d.queue[i].frame_idx>> \in BufsIn(d.queue)
          BY <1>1, <1>5, <5>1, BufIn
        <5>3. <<s, d.queue[i].frame_idx>> \in Owned(c)
          BY <1>4, <5>2 DEF Owned
        <5>4. d.queue[i].frame_idx < f
          BY <5>3
        <5>5. d.queue[i].frame_idx \in Nat
          BY <1>5, Nodes
        <5> QED
          BY <1>1, <5>4, <5>5
      <4>2. CASE ~(i <= d.match_cnt)
        <5>1. i \in Unmatched(d.queue) /\ ~d.queue[i].matched
          BY <1>5, <4>2 DEF InOrder
        <5> QED
          BY <2>3, <5>1
      <4> QED
        BY <4>1, <4>2
    <3>2. r = OpenNode(d, s, f, allocated)
      BY <1>3, <1>8, <2>3 DEF Dropped
    <3> QED
      BY <1>1, <1>4, <1>6, <3>1, <3>2, OpenNodeTakes
  <2> QED
    BY <2>1, <2>2, <2>3
<1> QED
  BY <1>7, <1>8
-----------------------------------------------------------------------------
(* A command. *)

Cmd == Data \cup Requests

\* What a command does to the channel before the dispatch.
Handled(c, cmd, d) ==
  /\ Good(d)
  /\ d.pending_cnt = (IF cmd.type = "REQ" THEN cmd.n ELSE c.pending_cnt)
  /\ d.startZSl => IF cmd.type = "REQ" THEN cmd.n > 0 ELSE c.startZSl
  /\ Owned(d) = Owned(c) \cup (IF cmd.type = "DATA" /\ ~Dropped(cmd) THEN {BufOf(cmd)} ELSE {})
  /\ cmd.type = "FLUSH" => d.match_cnt = 0 /\ Len(d.queue) = 0

LEMMA HandleTakes ==
  ASSUME NEW c, Good(c), NEW cmd \in Cmd, NEW allocated \in BOOLEAN,
         cmd.type = "DATA" => \A g : <<cmd.stream, g>> \in Owned(c) => g < cmd.idx
  PROVE  Handled(c, cmd, Handle(c, cmd, allocated))
<1> DEFINE d == Handle(c, cmd, allocated)
<1>1. /\ c \in Channel /\ c.done \subseteq Frames /\ c.startZSl \in BOOLEAN
      /\ c.pending_cnt \in Nat
  BY GoodParts
<1>2. CASE cmd \in Data
  <2>1. cmd.type = "DATA"
    BY <1>2 DEF Data
  <2>2. d = CompAndEnqueue(c, cmd, allocated)
    BY <2>1 DEF Handle
  <2>3. IF Dropped(cmd) THEN Took(c, d) ELSE Got(c, BufOf(cmd), d)
    BY <1>2, <2>1, <2>2, CompAndEnqueueTakes
  <2> HIDE DEF d
  <2>4. Good(d) /\ Alike(c, d)
    BY <2>3 DEF Took, Got
  <2>5. Owned(d) = Owned(c) \cup (IF ~Dropped(cmd) THEN {BufOf(cmd)} ELSE {})
    BY <2>3 DEF Took, Got
  <2> QED
    BY <1>1, <2>1, <2>4, <2>5 DEF Handled, Alike, d
<1>3. CASE cmd \in [type : {"REQ"}, n : Nat]
  <2> DEFINE e == [c EXCEPT !.pending_cnt = cmd.n]
             g == Skip(e)
  <2>1. cmd.type = "REQ" /\ cmd.n \in Nat
    BY <1>3
  <2>2. e \in Channel /\ e.queue = c.queue /\ e.match_cnt = c.match_cnt /\ e.done = c.done
        /\ e.pending_cnt = cmd.n /\ e.startZSl = c.startZSl
    BY <1>1, <2>1 DEF Channel
  <2> HIDE DEF e
  <2>3. Good(e) /\ Owned(e) = Owned(c)
    BY <2>2 DEF Good, Owned
  <2>4. Took(e, g)
    <3>1. LookBack \in Nat
      BY ConstantsOK
    <3> QED
      BY <2>3, <3>1, TrimTakes DEF Skip
  <2>5. d = CASE cmd.n > 0 /\ (g.needLEDFlash \/ g.need3ABracketing) /\ ~g.startZSl ->
                   [g EXCEPT !.startZSl = TRUE, !.needLEDFlash = FALSE]
              [] cmd.n = 0 /\ g.startZSl ->
                   [g EXCEPT !.startZSl = FALSE, !.needLEDFlash = FALSE, !.need3ABracketing = FALSE]
              [] OTHER -> g
    BY <2>1 DEF Handle, ReqDataCb, e
  <2> HIDE DEF g
  <2>6. g \in Channel /\ Good(g) /\ Owned(g) = Owned(c) /\ g.pending_cnt = cmd.n
        /\ g.startZSl \in BOOLEAN
    BY <2>2, <2>3, <2>4, GoodParts DEF Took, Alike
  <2> HIDE DEF d
  <2>7. CASE cmd.n > 0 /\ (g.needLEDFlash \/ g.need3ABracketing) /\ ~g.startZSl
    <3>1. d = [g EXCEPT !.startZSl = TRUE, !.needLEDFlash = FALSE]
      BY <2>5, <2>7
    <3>2. /\ d \in Channel /\ d.queue = g.queue /\ d.match_cnt = g.match_cnt /\ d.done = g.done
          /\ d.pending_cnt = g.pending_cnt
      BY <2>6, <3>1 DEF Channel
    <3>3. Good(d) /\ Owned(d) = Owned(c)
      BY <2>6, <3>2 DEF Good, Owned
    <3> QED
      BY <2>1, <2>6, <2>7, <3>2, <3>3 DEF Handled, d
  <2>8. CASE cmd.n = 0 /\ g.startZSl
    <3>1. d = [g EXCEPT !.startZSl = FALSE, !.needLEDFlash = FALSE, !.need3ABracketing = FALSE]
      <4>1. ~(cmd.n > 0)
        BY <2>8
      <4> QED
        BY <2>5, <2>8, <4>1
    <3>2. /\ d \in Channel /\ d.queue = g.queue /\ d.match_cnt = g.match_cnt /\ d.done = g.done
          /\ d.pending_cnt = g.pending_cnt /\ d.startZSl = FALSE
      BY <2>6, <3>1 DEF Channel
    <3>3. Good(d) /\ Owned(d) = Owned(c)
      BY <2>6, <3>2 DEF Good, Owned
    <3> QED
      BY <2>1, <2>6, <3>2, <3>3 DEF Handled, d
  <2>9. CASE /\ ~(cmd.n > 0 /\ (g.needLEDFlash \/ g.need3ABracketing) /\ ~g.startZSl)
             /\ ~(cmd.n = 0 /\ g.startZSl)
    <3>1. d = g
      BY <2>5, <2>9
    <3>2. g.startZSl => cmd.n > 0
      BY <2>1, <2>9
    <3> QED
      BY <2>1, <2>6, <3>1, <3>2 DEF Handled, d
  <2> QED
    BY <2>7, <2>8, <2>9
<1>4. CASE cmd \in [type : {"FLUSH"}, idx : Nat]
  <2> DEFINE e == [c EXCEPT !.expected = cmd.idx]
  <2>1. cmd.type = "FLUSH" /\ cmd.idx \in Nat
    BY <1>4
  <2>2. e \in Channel /\ e.queue = c.queue /\ e.match_cnt = c.match_cnt /\ e.done = c.done
        /\ Alike(c, e)
    BY <1>1, <2>1 DEF Channel, Alike
  <2>3. d = Flush(e)
    BY <2>1 DEF Handle
  <2> HIDE DEF e
  <2>4. Took(c, e)
    BY <2>2, Assigned
  <2>5. Took(e, Flush(e)) /\ Flush(e).match_cnt = 0 /\ Len(Flush(e).queue) = 0
    BY <2>4, FlushTakes DEF Took
  <2>6. Took(c, d)
    BY <2>3, <2>4, <2>5, TookAgain
  <2> HIDE DEF d
  <2> QED
    BY <2>1, <2>3, <2>5, <2>6 DEF Took, Alike, Handled, d
<1>5. CASE cmd \in [type : {"NOTIFY"}, mode : {"BURST", "CONTINUOUS"}]
  <2>1. cmd.type = "NOTIFY" /\ cmd.mode \in {"BURST", "CONTINUOUS"}
    BY <1>5
  <2>2. d = [c EXCEPT !.notify_mode = cmd.mode]
    BY <2>1 DEF Handle
  <2> HIDE DEF d
  <2>3. d \in Channel /\ d.queue = c.queue /\ d.match_cnt = c.match_cnt /\ d.done = c.done
        /\ d.pending_cnt = c.pending_cnt /\ d.startZSl = c.startZSl
    BY <1>1, <2>1, <2>2 DEF Channel
  <2>4. Good(d) /\ Owned(d) = Owned(c)
    BY <2>3 DEF Good, Owned
  <2> QED
    BY <2>1, <2>3, <2>4 DEF Handled, d
<1>6. CASE cmd \in [type : {"BRACKETING", "FLASH", "ZOOM"}, start : BOOLEAN]
  <2>1. cmd.type \in {"BRACKETING", "FLASH", "ZOOM"} /\ cmd.start \in BOOLEAN
    BY <1>6
  <2>2. d = GeneralCmd(c, cmd)
    BY <2>1 DEF Handle
  <2>3. Took(c, d)
    <3>1. CASE cmd.type = "BRACKETING"
      <4>1. d = [Flush(c) EXCEPT !.need3ABracketing = cmd.start]
        BY <2>2, <3>1 DEF GeneralCmd
      <4>2. Took(c, Flush(c)) /\ Good(Flush(c))
        BY FlushTakes DEF Took
      <4> DEFINE g == Flush(c)
      <4>3. g \in Channel
        BY <4>2, GoodParts
      <4> HIDE DEF g, d
      <4>4. d \in Channel /\ d.queue = g.queue /\ d.match_cnt = g.match_cnt /\ d.done = g.done
            /\ Alike(g, d)
        BY <2>1, <4>1, <4>3 DEF Channel, Alike, g
      <4>5. Took(g, d)
        BY <4>2, <4>4, Assigned DEF g
      <4> QED
        BY <4>2, <4>5, TookAgain DEF g
    <3>2. CASE cmd.type # "BRACKETING"
      <4>1. d = [c EXCEPT !.isFlashBracketing = cmd.start] \/ d = [c EXCEPT !.isZoom1x = cmd.start]
        BY <2>1, <2>2, <3>2 DEF GeneralCmd
      <4> HIDE DEF d
      <4>2. d \in Channel /\ d.queue = c.queue /\ d.match_cnt = c.match_cnt /\ d.done = c.done
            /\ Alike(c, d)
        BY <1>1, <2>1, <4>1 DEF Channel, Alike
      <4> QED
        BY <4>2, Assigned
    <3> QED
      BY <3>1, <3>2
  <2> HIDE DEF d
  <2> QED
    BY <2>1, <2>3 DEF Took, Alike, Handled, d
<1>7. cmd \in Data \/ cmd \in Request
  BY ConstantsOK DEF Cmd
<1> QED
  BY <1>2, <1>3, <1>4, <1>5, <1>6, <1>7 DEF Request
-----------------------------------------------------------------------------
(* The dispatch. *)

\* The superbufs at the places T of a queue, as they are sent.
Picked(q, T) == LET sent == Ascending(T) IN Superbufs([i \in DOMAIN sent |-> q[sent[i]]])

\* The superbufs X carry all of the frames F.
Carries(X, F) == \A f \in F : \E i \in 1..Len(X) : X[i].idx = f

\* They are sent in the order of their frames, with a buffer of every stream.
LEMMA PickedOrder ==
  ASSUME NEW q \in Seq(Node), NEW k, InOrder(q, k), NEW T, T \subseteq 1..k,
         NEW F, F = {q[i].frame_idx : i \in T}, NEW P, P = Picked(q, T)
  PROVE  /\ P \in Seq([idx : F, have : {Streams}])
         /\ \A i, j \in 1..Len(P) : i < j => P[i].idx < P[j].idx
         /\ Carries(P, F)
<1> DEFINE X == Picked(q, T)
           K == {q[i].frame_idx : i \in T}
           A == Ascending(T)
           N == Cardinality(T)
<1>1. /\ Len(q) \in Nat /\ k \in Nat /\ k <= Len(q) /\ Ascends(q)
      /\ \A i \in 1..k : i \in 1..Len(q) /\ q[i].have = Streams
  BY OrderParts
<1>2. A \in Seq(T) /\ Len(A) = N
  BY <1>1, AscendingOrder
<1>3. N \in Nat /\ \A x \in T : \E i \in 1..N : A[i] = x
  BY <1>1, AscendingOrder
<1>4. \A i, j \in 1..N : i < j => A[i] < A[j]
  BY <1>1, AscendingOrder
<1> HIDE DEF A, N
<1>5. DOMAIN A = 1..N /\ \A i \in 1..N : A[i] \in T /\ A[i] \in 1..k
  BY <1>2, LenProperties, ElementOfSeq
<1>6. X = [i \in 1..N |-> [idx |-> q[A[i]].frame_idx, have |-> q[A[i]].have]]
  BY <1>5 DEF Picked, Superbufs, A
<1> HIDE DEF X
<1>7. \A i \in 1..N : X[i].idx = q[A[i]].frame_idx /\ X[i] \in [idx : K, have : {Streams}]
  <2> TAKE i \in 1..N
  <2>1. X[i] = [idx |-> q[A[i]].frame_idx, have |-> q[A[i]].have]
    BY <1>6
  <2>2. q[A[i]].have = Streams /\ q[A[i]].frame_idx \in K
    BY <1>1, <1>5
  <2> QED
    BY <2>1, <2>2
<1>8. X \in Seq([idx : K, have : {Streams}]) /\ Len(X) = N
  <2> DEFINE R == [idx : K, have : {Streams}]
  <2>1. X \in [1..N -> R] /\ N \in Nat
    BY <1>3, <1>6, <1>7
  <2> HIDE DEF K, R
  <2>2. X \in Seq(R)
    BY <2>1
  <2>3. Len(X) = N
    BY <2>1
  <2> QED
    BY <2>2, <2>3 DEF R
<1>9. ASSUME NEW i \in 1..N, NEW j \in 1..N, i < j PROVE X[i].idx < X[j].idx
  <2>1. A[i] < A[j] /\ A[i] \in 1..Len(q) /\ A[j] \in 1..Len(q)
    BY <1>1, <1>4, <1>5, <1>9
  <2> QED
    BY <1>1, <1>7, <2>1 DEF Ascends
<1>10. ASSUME NEW f \in K PROVE \E i \in 1..N : X[i].idx = f
  <2>1. PICK x \in T : f = q[x].frame_idx
    OBVIOUS
  <2>2. PICK i \in 1..N : A[i] = x
    BY <1>3
  <2> QED
    BY <1>7, <2>1, <2>2
<1> QED
  BY <1>8, <1>9, <1>10 DEF X, Carries

\* The dispatch divides what the channel owns into the superbufs that are sent
\* and the rest; what stays in the queue is newer than all that is sent.
LEMMA DispatchKeeps ==
  ASSUME NEW c, Good(c), NEW n \in 0..c.match_cnt, NEW lost \in SUBSET (1..n),
         c.notify_mode = "BURST" => n <= c.pending_cnt
  PROVE  LET d == Dispatch(c, n, lost)
             K == {c.queue[i].frame_idx : i \in (1..n) \ lost}
         IN  /\ Good(d) /\ d.match_cnt = c.match_cnt - n /\ d.notify_mode = c.notify_mode
             /\ d.pending_cnt = IF c.notify_mode = "BURST" THEN c.pending_cnt - n ELSE c.pending_cnt
             /\ d.startZSl => c.startZSl /\ ~(c.notify_mode = "BURST" /\ n > 0 /\ d.pending_cnt = 0)
             /\ Owned(d) \cup (Streams \X K) = Owned(c)
             /\ Owned(d) \cap (Streams \X K) = {}
             /\ K \subseteq 1..MaxFrame
             /\ \A b \in BufsIn(d.queue) : \A f \in K : f < b[2]
<1> DEFINE q == c.queue
           d == Dispatch(c, n, lost)
           K == {q[i].frame_idx : i \in (1..n) \ lost}
           g == [i \in 1..n |-> IF i \in lost THEN q[i] ELSE [q[i] EXCEPT !.have = {}]]
           B == BufsIn(g)
           v == From(q, n)
           u == SubSeq(q, 1, n)
           burst == c.notify_mode = "BURST"
           left == IF burst THEN c.pending_cnt - n ELSE c.pending_cnt
           zsl == c.startZSl /\ ~(burst /\ n > 0 /\ left = 0)
           k == c.match_cnt
           m == k - n
<1>1. /\ c \in Channel /\ q \in Seq(Node) /\ k \in Nat /\ c.done \subseteq Frames
      /\ c.pending_cnt \in Nat /\ c.startZSl \in BOOLEAN
      /\ InOrder(q, k) /\ BufsIn(q) \cap c.done = {} /\ BufsIn(q) \subseteq Frames
  BY GoodParts
<1>2. /\ Len(q) \in Nat /\ k <= Len(q) /\ Ascends(q)
      /\ \A i \in 1..k : i \in 1..Len(q) /\ q[i].have = Streams
  BY <1>1, OrderParts
<1>3. n \in Nat /\ n <= k /\ n \in 0..Len(q) /\ \A i \in 1..n : i \in 1..k
  BY <1>1, <1>2
<1>4. left \in Nat /\ m \in Nat
  BY <1>1, <1>3
<1>5. /\ v \in Seq(Node) /\ Len(v) = Len(q) - n
      /\ \A i \in 1..Len(q) - n : v[i] = q[n + i]
      /\ u \in Seq(Node) /\ Len(u) = n /\ \A i \in 1..n : u[i] = q[i]
  BY <1>1, <1>3, Cut
<1>6. InOrder(v, m)
  <2>1. InOrder(v, IF n <= k THEN k - n ELSE 0)
    BY <1>1, <1>3, CutOrder
  <2> QED
    BY <1>3, <2>1
<1>7. BufsIn(u) \cup BufsIn(v) = BufsIn(q) /\ BufsIn(u) \cap BufsIn(v) = {}
  BY <1>1, <1>3, CutBufs
<1>8. /\ g \in Seq(Node) /\ Len(g) = n
      /\ \A i \in 1..n : /\ g[i].frame_idx = q[i].frame_idx
                         /\ g[i].have = IF i \in lost THEN Streams ELSE {}
  <2>1. \A i \in 1..n : q[i] \in Node /\ q[i].have = Streams
    BY <1>1, <1>2, <1>3, Nodes
  <2>2. \A i \in 1..n : /\ g[i] \in Node /\ g[i].frame_idx = q[i].frame_idx
                        /\ g[i].have = IF i \in lost THEN Streams ELSE {}
    BY <2>1 DEF Node
  <2>3. g \in [1..n -> Node]
    BY <2>2
  <2> HIDE DEF g
  <2> QED
    BY <1>3, <2>2, <2>3, LenProperties
<1>9. d = [c EXCEPT !.queue = v, !.match_cnt = m, !.pending_cnt = left,
                    !.startZSl = zsl, !.done = c.done \cup B]
  <2>1. d = QBuf([c EXCEPT !.queue = From(@, n), !.match_cnt = @ - n,
                           !.pending_cnt = left, !.startZSl = zsl], B)
    BY DEF Dispatch
  <2> HIDE DEF B, left, zsl
  <2> QED
    BY <1>1, <2>1 DEF QBuf, Channel
<1> HIDE DEF g, B
<1>10. B \subseteq Frames
  BY <1>8, BufIn DEF B
<1>11. /\ d \in Channel /\ d.queue = v /\ d.match_cnt = m /\ d.pending_cnt = left
       /\ d.startZSl = zsl /\ d.notify_mode = c.notify_mode /\ d.done = c.done \cup B
  <2>1. zsl \in BOOLEAN
    BY <1>1
  <2> HIDE DEF v, m, left, zsl, d
  <2> QED
    BY <1>1, <1>4, <1>5, <1>9, <1>10, <2>1 DEF Channel
<1> HIDE DEF d, v, u
<1>12. K \subseteq 1..MaxFrame
  BY <1>1, <1>2, <1>3, Nodes
<1>13. BufsIn(u) = B \cup (Streams \X K) /\ B \cap (Streams \X K) = {}
  <2>0. /\ \A s, f : <<s, f>> \in BufsIn(u) <=> \E i \in 1..Len(u) : s \in u[i].have /\ f = u[i].frame_idx
        /\ \A s, f : <<s, f>> \in BufsIn(g) <=> \E i \in 1..Len(g) : s \in g[i].have /\ f = g[i].frame_idx
    BY <1>5, <1>8, BufIn
  <2>l. Len(u) = n /\ Len(g) = n
    BY <1>5, <1>8
  <2>1. \A s, f : <<s, f>> \in BufsIn(u) <=> \E i \in 1..n : s \in u[i].have /\ f = u[i].frame_idx
    <3> TAKE s, f
    <3>1. <<s, f>> \in BufsIn(u) <=> \E i \in 1..Len(u) : s \in u[i].have /\ f = u[i].frame_idx
      BY <2>0
    <3> QED
      BY <2>l, <3>1
  <2>2. \A i \in 1..n : u[i].have = Streams /\ u[i].frame_idx = q[i].frame_idx
    BY <1>2, <1>3, <1>5
  <2>3. \A s, f : <<s, f>> \in BufsIn(u) <=> \E i \in 1..n : s \in Streams /\ f = q[i].frame_idx
    <3> TAKE s, f
    <3>1. <<s, f>> \in BufsIn(u) <=> \E i \in 1..n : s \in u[i].have /\ f = u[i].frame_idx
      BY <2>1
    <3> QED
      BY <2>2, <3>1
  <2>4. \A s, f : <<s, f>> \in B <=> \E i \in 1..n : s \in g[i].have /\ f = g[i].frame_idx
    <3> TAKE s, f
    <3>1. <<s, f>> \in BufsIn(g) <=> \E i \in 1..Len(g) : s \in g[i].have /\ f = g[i].frame_idx
      BY <2>0
    <3> QED
      BY <2>l, <3>1 DEF B
  <2>5. \A s, f : <<s, f>> \in B <=> \E i \in lost : s \in Streams /\ f = q[i].frame_idx
    <3>1. \A i \in lost : i \in 1..n
      OBVIOUS
    <3> TAKE s, f
    <3>2. <<s, f>> \in B <=> \E i \in 1..n : s \in g[i].have /\ f = g[i].frame_idx
      BY <2>4
    <3>3. \A i \in 1..n : s \in g[i].have <=> i \in lost /\ s \in Streams
      BY <1>8
    <3>4. \A i \in 1..n : g[i].frame_idx = q[i].frame_idx
      BY <1>8
    <3> QED
      BY <3>1, <3>2, <3>3, <3>4
  <2>6. \A s, f : <<s, f>> \in Streams \X K <=> \E i \in (1..n) \ lost : s \in Streams /\ f = q[i].frame_idx
    OBVIOUS
  <2>7. Streams \X K \subseteq Frames /\ BufsIn(u) \subseteq Frames
    BY <1>5, <1>12, BufIn DEF Frames
  <2>8. \A i \in (1..n) \ lost, j \in lost : q[i].frame_idx # q[j].frame_idx
    <3> SUFFICES ASSUME NEW i \in (1..n) \ lost, NEW j \in lost
                 PROVE  q[i].frame_idx # q[j].frame_idx
      OBVIOUS
    <3>1. i \in 1..Len(q) /\ j \in 1..Len(q) /\ i # j
      BY <1>2, <1>3
    <3>2. q[i].frame_idx \in Nat /\ q[j].frame_idx \in Nat
      BY <1>1, <3>1, Nodes
    <3>3. i < j \/ j < i
      BY <3>1
    <3>4. q[i].frame_idx < q[j].frame_idx \/ q[j].frame_idx < q[i].frame_idx
      BY <1>2, <3>1, <3>3 DEF Ascends
    <3> QED
      BY <3>2, <3>4
  <2>9. \A b \in Frames : b \in BufsIn(u) <=> b \in B \/ b \in Streams \X K
    <3> TAKE b \in Frames
    <3>1. b = <<b[1], b[2]>>
      BY PairOf
    <3>2. /\ <<b[1], b[2]>> \in BufsIn(u) <=> \E i \in 1..n : b[1] \in Streams /\ b[2] = q[i].frame_idx
          /\ <<b[1], b[2]>> \in B <=> \E i \in lost : b[1] \in Streams /\ b[2] = q[i].frame_idx
          /\ <<b[1], b[2]>> \in Streams \X K <=>
               \E i \in (1..n) \ lost : b[1] \in Streams /\ b[2] = q[i].frame_idx
      BY <2>3, <2>5, <2>6
    <3>3. \A i \in 1..n : i \in lost \/ i \in (1..n) \ lost
      OBVIOUS
    <3> HIDE DEF K
    <3> QED
      BY <3>1, <3>2, <3>3
  <2>10. \A b \in Frames : ~(b \in B /\ b \in Streams \X K)
    <3> TAKE b \in Frames
    <3>1. b = <<b[1], b[2]>>
      BY PairOf
    <3>2. /\ <<b[1], b[2]>> \in B => \E i \in lost : b[2] = q[i].frame_idx
          /\ <<b[1], b[2]>> \in Streams \X K => \E i \in (1..n) \ lost : b[2] = q[i].frame_idx
      BY <2>5, <2>6
    <3> HIDE DEF K
    <3> QED
      BY <2>8, <3>1, <3>2
  <2> HIDE DEF K
  <2> QED
    BY <1>10, <2>7, <2>9, <2>10
<1>14. \A b \in BufsIn(v) : \A f \in K : f < b[2]
  <2> SUFFICES ASSUME NEW b \in BufsIn(v), NEW i \in (1..n) \ lost PROVE q[i].frame_idx < b[2]
    OBVIOUS
  <2>1. PICK j \in 1..Len(v) : b[2] = v[j].frame_idx
    <3>1. PICK j \in 1..Len(v) : b \in BufsOf(v[j])
      BY <1>5, InBufs
    <3> QED
      BY <3>1 DEF BufsOf
  <2>2. j \in 1..Len(q) - n /\ n + j \in 1..Len(q) /\ i \in 1..Len(q) /\ i < n + j
    BY <1>2, <1>3, <1>5
  <2> QED
    BY <1>2, <1>5, <2>1, <2>2 DEF Ascends
<1> HIDE DEF K
<1>15. Good(d)
  <2>1. BufsIn(v) \cap (c.done \cup B) = {}
    BY <1>1, <1>7, <1>13
  <2> QED
    BY <1>6, <1>11, <2>1 DEF Good
<1>16. Owned(d) = BufsIn(v) \cup c.done \cup B /\ Owned(c) = BufsIn(q) \cup c.done
  BY <1>11 DEF Owned
<1>17. Owned(d) \cup (Streams \X K) = Owned(c)
  BY <1>7, <1>13, <1>16
<1>18. Owned(d) \cap (Streams \X K) = {}
  <2>1. Streams \X K \subseteq BufsIn(u)
    BY <1>13
  <2> QED
    BY <1>1, <1>7, <1>13, <1>16, <2>1
<1>19. \A b \in BufsIn(d.queue) : \A f \in K : f < b[2]
  BY <1>11, <1>14
<1> QED
  BY <1>11, <1>12, <1>15, <1>17, <1>18, <1>19 DEF K, d
-----------------------------------------------------------------------------
(* The invariant of the threads. *)

Message == [idx : 1..MaxFrame, have : {Streams}]

IsData(i) == cmdQ[i].type = "DATA"

TypeInv ==
  /\ Good(ch) /\ ch.done = {}
  /\ cmdQ \in Seq(Cmd) /\ Len(cmdQ) <= MaxCmds
  /\ cbQ \in Seq(Message)
  /\ held \subseteq Frames
  /\ free \in [Streams -> Nat]
  /\ last \in [Streams -> 0..MaxFrame]
  /\ lastSent \in 0..MaxFrame

\* The buffers of a stream arrive, wait and are matched in the order of frames.
ArrivalInv ==
  /\ \A i, j \in 1..Len(cmdQ) :
       i < j /\ IsData(i) /\ IsData(j) /\ cmdQ[i].stream = cmdQ[j].stream
         => cmdQ[i].idx < cmdQ[j].idx
  /\ \A i \in 1..Len(cmdQ) : IsData(i) => cmdQ[i].idx <= last[cmdQ[i].stream]
  /\ \A b \in BufsIn(ch.queue) :
       /\ b[2] <= last[b[1]]
       /\ \A i \in 1..Len(cmdQ) : IsData(i) /\ cmdQ[i].stream = b[1] => b[2] < cmdQ[i].idx

\* What was sent to the HAL is older than all that may still be sent.
SentInv ==
  /\ \A s \in Streams : lastSent <= last[s]
  /\ \A b \in Queued \cup BufsIn(ch.queue) : lastSent < b[2]
  /\ \A b \in Sent \cup held : b[2] <= lastSent
  /\ \A i, j \in 1..Len(cbQ) : i < j => cbQ[i].idx < cbQ[j].idx
  /\ Sent \cap held = {}

\* Whether no metadata announces both kinds of range.
OneRange == \A m \in MetaKinds : ~BothValid(m)

Away == Queued \cup BufsIn(ch.queue) \cup Sent \cup held
Those(B, s) == {b \in B : b[1] = s}

\* The buffers of a stream are in the kernel or away.
AccountInv ==
  \A s \in Streams : LET n == free[s] + Cardinality(Those(Away, s))
                     IN  n <= NumBufs /\ (OneRange => n = NumBufs)

OwedInv ==
  /\ ch.pending_cnt > 0 \/ ch.notify_mode = "CONTINUOUS" => ch.match_cnt = 0
  /\ ch.notify_mode = "BURST" => ch.match_cnt <= WaterMark
  /\ ch.startZSl => ch.pending_cnt > 0

Inv == TypeInv /\ ArrivalInv /\ SentInv /\ AccountInv /\ OwedInv

LEMMA HeadTail ==
  ASSUME NEW S, NEW q \in Seq(S), q # <<>>
  PROVE  /\ Len(q) \in Nat /\ 1 \in 1..Len(q) /\ Head(q) = q[1] /\ Head(q) \in S
         /\ Tail(q) \in Seq(S) /\ Len(Tail(q)) = Len(q) - 1
         /\ \A i \in 1..Len(q) - 1 : Tail(q)[i] = q[i + 1] /\ i + 1 \in 1..Len(q)
<1>1. Len(q) \in Nat /\ Len(q) # 0
  OBVIOUS
<1>2. Head(q) = q[1] /\ Head(q) \in S
  OBVIOUS
<1>3. Tail(q) \in Seq(S) /\ Len(Tail(q)) = Len(q) - 1
  OBVIOUS
<1>4. \A i \in 1..Len(q) - 1 : Tail(q)[i] = q[i + 1] /\ i + 1 \in 1..Len(q)
  BY <1>1, <1>3
<1> QED
  BY <1>1, <1>2, <1>3, <1>4

\* The buffer that cmd_thread takes from its queue with a command.
Arrived(cmd) == IF cmd.type = "DATA" /\ ~Dropped(cmd) THEN {BufOf(cmd)} ELSE {}

\* What the processing of a command does: the superbufs of the frames K are
\* sent and the buffers R go back to the kernel.
Served(K, R) ==
  LET O == BufsIn(ch.queue)
      P == BufsIn(ch'.queue)
      G == Streams \X K
  IN  /\ K \subseteq 1..MaxFrame /\ R \subseteq Frames
      /\ Good(ch') /\ ch'.done = {} /\ OwedInv'
      /\ P \cup R \cup G = O \cup Arrived(Head(cmdQ))
      /\ P \cap R = {} /\ P \cap G = {} /\ R \cap G = {}
      /\ \A b \in P : \A f \in K : f < b[2]
      /\ free' = GiveBack(R)
      /\ \E X \in Seq([idx : K, have : {Streams}]) :
           /\ cbQ' = cbQ \o X
           /\ \A i, j \in 1..Len(X) : i < j => X[i].idx < X[j].idx
           /\ \A f \in K : \E i \in 1..Len(X) : X[i].idx = f
      /\ K = {} => lastSent' = lastSent
      /\ K # {} => lastSent' \in K /\ \A f \in K : f <= lastSent'
      /\ cmdQ' = Tail(cmdQ) /\ UNCHANGED <<held, last>>

LEMMA Serves ==
  ASSUME Inv, ProcessStreamBuf
  PROVE  \E K, R : Served(K, R)
<1> DEFINE cmd == Head(cmdQ)
<1>1. /\ Good(ch) /\ ch.done = {} /\ cmdQ \in Seq(Cmd) /\ cmdQ # <<>> /\ OwedInv
      /\ ch.pending_cnt \in Nat
  BY GoodParts DEF Inv, TypeInv, ProcessStreamBuf
<1>2. cmd \in Cmd /\ cmd = cmdQ[1] /\ 1 \in 1..Len(cmdQ)
  BY <1>1, HeadTail
<1>3. cmd.type = "DATA" => \A g : <<cmd.stream, g>> \in Owned(ch) => g < cmd.idx
  <2> SUFFICES ASSUME cmd.type = "DATA", NEW g, <<cmd.stream, g>> \in Owned(ch) PROVE g < cmd.idx
    OBVIOUS
  <2>1. <<cmd.stream, g>> \in BufsIn(ch.queue)
    BY <1>1 DEF Owned
  <2> QED
    BY <1>2, <2>1 DEF Inv, ArrivalInv, IsData
<1>4. PICK allocated \in {TRUE, ~MallocCanFail}, flush \in {cmd.type = "FLUSH"} :
        LET c == IF flush THEN Handle(ch, cmd, allocated)
                 ELSE BufDoneOverflow(Handle(ch, cmd, allocated))
            n == IF flush \/ c.spinning THEN 0 ELSE DispatchCount(c)
        IN  \E lost \in IF MallocCanFail THEN SUBSET (1..n) ELSE {{}} :
              LET sent == Ascending((1..n) \ lost)
                  d    == Dispatch(c, n, lost)
              IN  /\ ch' = [d EXCEPT !.done = {}]
                  /\ free' = GiveBack(d.done)
                  /\ cbQ' = cbQ \o Superbufs([i \in DOMAIN sent |-> c.queue[sent[i]]])
                  /\ lastSent' = IF lost = 1..n THEN lastSent
                                 ELSE c.queue[Max((1..n) \ lost)].frame_idx
  BY DEF ProcessStreamBuf
<1> DEFINE h == Handle(ch, cmd, allocated)
           c == IF flush THEN h ELSE BufDoneOverflow(h)
           n == IF flush \/ c.spinning THEN 0 ELSE DispatchCount(c)
<1>5. PICK lost \in SUBSET (1..n) :
        /\ ch' = [Dispatch(c, n, lost) EXCEPT !.done = {}]
        /\ free' = GiveBack(Dispatch(c, n, lost).done)
        /\ cbQ' = cbQ \o Picked(c.queue, (1..n) \ lost)
        /\ lastSent' = IF lost = 1..n THEN lastSent ELSE c.queue[Max((1..n) \ lost)].frame_idx
  BY <1>4 DEF Picked
<1>6. allocated \in BOOLEAN /\ flush = (cmd.type = "FLUSH") /\ flush \in BOOLEAN
  BY ConstantsOK
<1>7. Handled(ch, cmd, h)
  BY <1>1, <1>2, <1>3, <1>6, HandleTakes
<1> HIDE DEF h
<1>8. Took(h, c) /\ (~flush /\ c.notify_mode = "BURST" => c.match_cnt <= WaterMark)
      /\ (flush => c.match_cnt = 0)
  <2>1. CASE flush
    <3>1. c = h
      BY <2>1
    <3> QED
      BY <1>6, <1>7, <2>1, <3>1, TookSelf DEF Handled
  <2>2. CASE ~flush
    <3>1. c = Trim(h, WaterMark) /\ WaterMark \in Nat
      BY <2>2, ConstantsOK DEF BufDoneOverflow
    <3>2. Took(h, Trim(h, WaterMark)) /\ (h.notify_mode = "BURST" => Trim(h, WaterMark).match_cnt <= WaterMark)
      BY <1>7, <3>1, TrimTakes DEF Handled
    <3> QED
      BY <2>2, <3>1, <3>2 DEF Took, Alike
  <2> QED
    BY <1>6, <2>1, <2>2
<1> HIDE DEF c
<1>9. Good(c) /\ Owned(c) = Owned(ch) \cup Arrived(cmd)
      /\ (c.startZSl => c.pending_cnt > 0)
  <2>1. Good(c) /\ Owned(c) = Owned(ch) \cup Arrived(cmd) /\ c.pending_cnt = h.pending_cnt
        /\ c.startZSl = h.startZSl
    BY <1>7, <1>8 DEF Took, Handled, Alike, Arrived
  <2>2. h.startZSl => h.pending_cnt > 0
    BY <1>1, <1>7 DEF Handled, OwedInv
  <2> QED
    BY <2>1, <2>2
<1>10. /\ c \in Channel /\ c.queue \in Seq(Node) /\ InOrder(c.queue, c.match_cnt)
       /\ c.match_cnt \in Nat /\ c.pending_cnt \in Nat /\ ~c.spinning
       /\ c.notify_mode \in {"BURST", "CONTINUOUS"} /\ Owned(c) \subseteq Frames
  BY <1>9, GoodParts
<1> DEFINE k == c.match_cnt
           burst == c.notify_mode = "BURST"
<1>11. n = IF flush THEN 0 ELSE IF ~burst THEN k ELSE IF k <= c.pending_cnt THEN k ELSE c.pending_cnt
  <2>1. MatchedPrefix(c.queue) = k
    BY <1>10, Matched
  <2>2. DispatchCount(c) = IF ~burst THEN k ELSE Min({k, c.pending_cnt})
    BY <1>10, <2>1 DEF DispatchCount
  <2>3. Min({k, c.pending_cnt}) = IF k <= c.pending_cnt THEN k ELSE c.pending_cnt
    BY <1>10, MinPair
  <2> QED
    BY <1>6, <1>10, <2>2, <2>3
<1> HIDE DEF n
<1>12. n \in 0..k /\ n \in Nat /\ (burst => n <= c.pending_cnt)
  BY <1>6, <1>10, <1>11
<1> DEFINE T == (1..n) \ lost
           K == {c.queue[i].frame_idx : i \in T}
           d == Dispatch(c, n, lost)
           G == Streams \X K
<1>13. /\ Good(d) /\ d.match_cnt = k - n /\ d.notify_mode = c.notify_mode
       /\ d.pending_cnt = IF burst THEN c.pending_cnt - n ELSE c.pending_cnt
       /\ d.startZSl => c.startZSl /\ ~(burst /\ n > 0 /\ d.pending_cnt = 0)
       /\ Owned(d) \cup G = Owned(c) /\ Owned(d) \cap G = {}
       /\ K \subseteq 1..MaxFrame
       /\ \A b \in BufsIn(d.queue) : \A f \in K : f < b[2]
  BY <1>9, <1>12, DispatchKeeps
<1> DEFINE X == Picked(c.queue, T)
<1>14. /\ X \in Seq([idx : K, have : {Streams}])
       /\ \A i, j \in 1..Len(X) : i < j => X[i].idx < X[j].idx
       /\ \A f \in K : \E i \in 1..Len(X) : X[i].idx = f
  <2>1. T \subseteq 1..k
    BY <1>10, <1>12
  <2>0. X = Picked(c.queue, T) /\ K = {c.queue[i].frame_idx : i \in T}
    OBVIOUS
  <2> HIDE DEF T, X, K
  <2>2. X \in Seq([idx : K, have : {Streams}])
    BY <1>10, <2>0, <2>1, PickedOrder
  <2>3. \A i, j \in 1..Len(X) : i < j => X[i].idx < X[j].idx
    BY <1>10, <2>0, <2>1, PickedOrder
  <2>4. \A f \in K : \E i \in 1..Len(X) : X[i].idx = f
    <3>1. Carries(X, K)
      BY <1>10, <2>0, <2>1, PickedOrder
    <3> QED
      BY <3>1 DEF Carries
  <2> QED
    BY <2>2, <2>3, <2>4
<1> HIDE DEF d
<1>15. ch' = [d EXCEPT !.done = {}] /\ free' = GiveBack(d.done) /\ cbQ' = cbQ \o X
  BY <1>5 DEF d
<1>16. (K = {} => lastSent' = lastSent) /\ (K # {} => lastSent' \in K /\ \A f \in K : f <= lastSent')
  <2>0. lost = 1..n <=> K = {}
    OBVIOUS
  <2>1. lastSent' = IF K = {} THEN lastSent ELSE c.queue[Max(T)].frame_idx
    BY <1>5, <2>0
  <2>2. ASSUME K # {}
        PROVE  c.queue[Max(T)].frame_idx \in K /\ \A i \in T : c.queue[i].frame_idx <= c.queue[Max(T)].frame_idx
    <3>1. T \subseteq 0..n /\ T # {}
      BY <1>12, <2>2
    <3>2. Max(T) \in T /\ \A i \in T : i <= Max(T)
      BY <1>12, <3>1, MaxOf
    <3>3. Ascends(c.queue) /\ \A i \in T : i \in 1..Len(c.queue)
      <4>1. Ascends(c.queue) /\ \A i \in 1..k : i \in 1..Len(c.queue)
        BY <1>10, OrderParts
      <4> QED
        BY <1>10, <1>12, <4>1
    <3> HIDE DEF T
    <3>4. ASSUME NEW i \in T PROVE c.queue[i].frame_idx <= c.queue[Max(T)].frame_idx
      <4>1. i \in 1..Len(c.queue) /\ Max(T) \in 1..Len(c.queue) /\ i <= Max(T)
        BY <3>2, <3>3
      <4>2. i = Max(T) \/ i < Max(T)
        BY <4>1
      <4>3. c.queue[i].frame_idx \in Nat /\ c.queue[Max(T)].frame_idx \in Nat
        BY <1>10, <4>1, Nodes
      <4> QED
        BY <3>3, <4>1, <4>2, <4>3 DEF Ascends
    <3> QED
      BY <3>2, <3>4
  <2> QED
    BY <2>1, <2>2
<1> HIDE DEF X, K
<1>17. /\ d \in Channel /\ ch' \in Channel /\ ch'.queue = d.queue /\ ch'.match_cnt = d.match_cnt
       /\ ch'.pending_cnt = d.pending_cnt /\ ch'.notify_mode = d.notify_mode
       /\ ch'.startZSl = d.startZSl /\ ch'.done = {} /\ d.pending_cnt \in Nat
       /\ d.queue \in Seq(Node) /\ d.done \subseteq Frames
       /\ BufsIn(d.queue) \cap d.done = {} /\ InOrder(d.queue, d.match_cnt)
  <2>1. d \in Channel /\ d.pending_cnt \in Nat /\ d.queue \in Seq(Node) /\ d.done \subseteq Frames
        /\ BufsIn(d.queue) \cap d.done = {} /\ InOrder(d.queue, d.match_cnt)
    BY <1>13, GoodParts
  <2> QED
    BY <1>15, <2>1 DEF Channel
<1>18. Good(ch')
  BY <1>17 DEF Good
<1>19. OwedInv'
  <2>1. ch'.pending_cnt > 0 \/ ch'.notify_mode = "CONTINUOUS" => ch'.match_cnt = 0
    BY <1>8, <1>10, <1>11, <1>12, <1>13, <1>17
  <2>2. ch'.notify_mode = "BURST" => ch'.match_cnt <= WaterMark
    <3>1. WaterMark \in Nat
      BY ConstantsOK
    <3> QED
      BY <1>6, <1>8, <1>10, <1>12, <1>13, <1>17, <3>1
  <2>3. ch'.startZSl => ch'.pending_cnt > 0
    <3> SUFFICES ASSUME d.startZSl PROVE d.pending_cnt > 0
      BY <1>17
    <3>1. c.pending_cnt > 0 /\ ~(burst /\ n > 0 /\ d.pending_cnt = 0)
      BY <1>9, <1>13
    <3>2. CASE burst /\ n > 0
      BY <1>17, <3>1, <3>2
    <3>3. CASE ~(burst /\ n > 0)
      <4>1. d.pending_cnt = c.pending_cnt
        BY <1>10, <1>12, <1>13, <3>3
      <4> QED
        BY <3>1, <4>1
    <3> QED
      BY <3>2, <3>3
  <2> QED
    BY <2>1, <2>2, <2>3 DEF OwedInv
<1>20. BufsIn(ch'.queue) \cup d.done \cup G = BufsIn(ch.queue) \cup Arrived(cmd)
  <2>1. Owned(d) = BufsIn(ch'.queue) \cup d.done /\ Owned(ch) = BufsIn(ch.queue)
    BY <1>1, <1>17 DEF Owned
  <2> HIDE DEF G
  <2> QED
    BY <1>9, <1>13, <2>1
<1>21. BufsIn(ch'.queue) \cap d.done = {} /\ BufsIn(ch'.queue) \cap G = {} /\ d.done \cap G = {}
  <2> HIDE DEF G
  <2> QED
    BY <1>13, <1>17 DEF Owned
<1>22. \A b \in BufsIn(ch'.queue) : \A f \in K : f < b[2]
  BY <1>13, <1>17
<1>23. cmdQ' = Tail(cmdQ) /\ UNCHANGED <<held, last>>
  BY DEF ProcessStreamBuf
<1>24. \E Y \in Seq([idx : K, have : {Streams}]) :
         /\ cbQ' = cbQ \o Y
         /\ \A i, j \in 1..Len(Y) : i < j => Y[i].idx < Y[j].idx
         /\ \A f \in K : \E i \in 1..Len(Y) : Y[i].idx = f
  BY <1>14, <1>15
<1>25. Served(K, d.done)
  BY <1>13, <1>15, <1>16, <1>17, <1>18, <1>19, <1>20, <1>21, <1>22, <1>23, <1>24 DEF Served
<1> QED
  BY <1>25
-----------------------------------------------------------------------------
(* What the queues between the threads hold. *)

QueuedIn(q) == {<<q[i].stream, q[i].idx>> : i \in {j \in DOMAIN q : q[j].type = "DATA"}}
SentIn(q) == UNION {q[i].have \X {q[i].idx} : i \in DOMAIN q}
DataOf(cmd) == IF cmd.type = "DATA" THEN {BufOf(cmd)} ELSE {}

\* A command with a buffer is one that a stream queued.
LEMMA DataCmd ==
  ASSUME NEW cmd \in Cmd, cmd.type = "DATA"
  PROVE  /\ cmd \in Data /\ cmd.stream \in Streams /\ cmd.idx \in 1..MaxFrame /\ cmd.idx \in Nat
         /\ cmd.meta \in MetaKinds /\ BufOf(cmd) \in Frames
<1>1. cmd \notin Requests
  BY ConstantsOK DEF Request
<1>2. cmd \in Data
  BY <1>1 DEF Cmd
<1> QED
  BY <1>2 DEF Data, BufOf, Frames

LEMMA QueuedElements ==
  ASSUME NEW q \in Seq(Cmd)
  PROVE  /\ QueuedIn(q) \subseteq Frames
         /\ \A b : b \in QueuedIn(q) <=> \E i \in 1..Len(q) : q[i].type = "DATA" /\ b = BufOf(q[i])
<1>1. Len(q) \in Nat /\ DOMAIN q = 1..Len(q) /\ \A i \in 1..Len(q) : q[i] \in Cmd
  BY LenProperties, ElementOfSeq
<1>2. \A b : b \in QueuedIn(q) <=> \E i \in 1..Len(q) : q[i].type = "DATA" /\ b = BufOf(q[i])
  BY <1>1 DEF QueuedIn, BufOf
<1>3. QueuedIn(q) \subseteq Frames
  BY <1>1, <1>2, DataCmd
<1> QED
  BY <1>2, <1>3

LEMMA AppendPlaces ==
  ASSUME NEW S, NEW q \in Seq(S), NEW e \in S
  PROVE  /\ Append(q, e) \in Seq(S) /\ Len(Append(q, e)) = Len(q) + 1 /\ Len(q) \in Nat
         /\ Append(q, e)[Len(q) + 1] = e
         /\ \A i \in 1..Len(q) : Append(q, e)[i] = q[i]
OBVIOUS

LEMMA QueuedAppend ==
  ASSUME NEW q \in Seq(Cmd), NEW cmd \in Cmd
  PROVE  QueuedIn(Append(q, cmd)) = QueuedIn(q) \cup DataOf(cmd)
<1> DEFINE p == Append(q, cmd)
<1>1. /\ p \in Seq(Cmd) /\ Len(p) = Len(q) + 1 /\ Len(q) \in Nat
      /\ p[Len(q) + 1] = cmd /\ \A i \in 1..Len(q) : p[i] = q[i]
  BY AppendPlaces
<1> HIDE DEF p
<1>2. /\ \A b : b \in QueuedIn(p) <=> \E i \in 1..Len(p) : p[i].type = "DATA" /\ b = BufOf(p[i])
      /\ \A b : b \in QueuedIn(q) <=> \E i \in 1..Len(q) : q[i].type = "DATA" /\ b = BufOf(q[i])
  BY <1>1, QueuedElements
<1>3. \A i \in 1..Len(p) : i \in 1..Len(q) \/ i = Len(q) + 1
  BY <1>1
<1>4. Len(q) + 1 \in 1..Len(p) /\ \A i \in 1..Len(q) : i \in 1..Len(p)
  BY <1>1
<1>5. ASSUME NEW b PROVE b \in QueuedIn(p) <=> b \in QueuedIn(q) \/ b \in DataOf(cmd)
  <2>1. b \in DataOf(cmd) <=> cmd.type = "DATA" /\ b = BufOf(cmd)
    BY DEF DataOf
  <2>2. b \in QueuedIn(p) => b \in QueuedIn(q) \/ b \in DataOf(cmd)
    <3> SUFFICES ASSUME NEW i \in 1..Len(p), p[i].type = "DATA", b = BufOf(p[i])
                 PROVE  b \in QueuedIn(q) \/ b \in DataOf(cmd)
      BY <1>2
    <3> QED
      BY <1>1, <1>2, <1>3, <2>1
  <2>3. b \in QueuedIn(q) => b \in QueuedIn(p)
    <3> SUFFICES ASSUME NEW i \in 1..Len(q), q[i].type = "DATA", b = BufOf(q[i]) PROVE b \in QueuedIn(p)
      BY <1>2
    <3> QED
      BY <1>1, <1>2, <1>4
  <2>4. b \in DataOf(cmd) => b \in QueuedIn(p)
    BY <1>1, <1>2, <1>4, <2>1
  <2> QED
    BY <2>2, <2>3, <2>4
<1> QED
  BY <1>5 DEF p

LEMMA QueuedTail ==
  ASSUME NEW q \in Seq(Cmd), q # <<>>
  PROVE  QueuedIn(q) = QueuedIn(Tail(q)) \cup DataOf(Head(q))
<1> DEFINE p == Tail(q)
<1>1. /\ Len(q) \in Nat /\ 1 \in 1..Len(q) /\ Head(q) = q[1]
      /\ p \in Seq(Cmd) /\ Len(p) = Len(q) - 1
      /\ \A i \in 1..Len(q) - 1 : p[i] = q[i + 1] /\ i + 1 \in 1..Len(q)
  BY HeadTail
<1> HIDE DEF p
<1>2. /\ \A b : b \in QueuedIn(p) <=> \E i \in 1..Len(p) : p[i].type = "DATA" /\ b = BufOf(p[i])
      /\ \A b : b \in QueuedIn(q) <=> \E i \in 1..Len(q) : q[i].type = "DATA" /\ b = BufOf(q[i])
  BY <1>1, QueuedElements
<1>5. ASSUME NEW b PROVE b \in QueuedIn(q) <=> b \in QueuedIn(p) \/ b \in DataOf(q[1])
  <2>1. b \in DataOf(q[1]) <=> q[1].type = "DATA" /\ b = BufOf(q[1])
    BY DEF DataOf
  <2>2. b \in QueuedIn(q) => b \in QueuedIn(p) \/ b \in DataOf(q[1])
    <3> SUFFICES ASSUME NEW i \in 1..Len(q), q[i].type = "DATA", b = BufOf(q[i]), i # 1
                 PROVE  b \in QueuedIn(p)
      BY <1>2, <2>1
    <3>1. i - 1 \in 1..Len(q) - 1 /\ (i - 1) + 1 = i /\ i - 1 \in 1..Len(p)
      BY <1>1
    <3>2. p[i - 1] = q[i]
      BY <1>1, <3>1
    <3> QED
      BY <1>2, <3>1, <3>2
  <2>3. b \in QueuedIn(p) => b \in QueuedIn(q)
    <3> SUFFICES ASSUME NEW i \in 1..Len(p), p[i].type = "DATA", b = BufOf(p[i]) PROVE b \in QueuedIn(q)
      BY <1>2
    <3> QED
      BY <1>1, <1>2
  <2>4. b \in DataOf(q[1]) => b \in QueuedIn(q)
    BY <1>1, <1>2, <2>1
  <2> QED
    BY <2>2, <2>3, <2>4
<1> QED
  BY <1>1, <1>5 DEF p

LEMMA SentElements ==
  ASSUME NEW F \in SUBSET (1..MaxFrame), NEW q \in Seq([idx : F, have : {Streams}])
  PROVE  /\ SentIn(q) = Streams \X {q[i].idx : i \in 1..Len(q)}
         /\ SentIn(q) \subseteq Streams \X F
         /\ Len(q) \in Nat /\ \A i \in 1..Len(q) : q[i].idx \in F /\ q[i].have = Streams
<1>1. Len(q) \in Nat /\ DOMAIN q = 1..Len(q)
      /\ \A i \in 1..Len(q) : q[i].idx \in F /\ q[i].have = Streams
  <2>1. Len(q) \in Nat /\ DOMAIN q = 1..Len(q) /\ \A i \in 1..Len(q) : q[i] \in [idx : F, have : {Streams}]
    BY LenProperties, ElementOfSeq
  <2>2. \A m \in [idx : F, have : {Streams}] : m.idx \in F /\ m.have = Streams
    OBVIOUS
  <2> QED
    BY <2>1, <2>2
<1>2. SentIn(q) = UNION {Streams \X {q[i].idx} : i \in 1..Len(q)}
  BY <1>1 DEF SentIn
<1>3. UNION {Streams \X {q[i].idx} : i \in 1..Len(q)} = Streams \X {q[i].idx : i \in 1..Len(q)}
  OBVIOUS
<1>4. {q[i].idx : i \in 1..Len(q)} \subseteq F
  BY <1>1
<1> QED
  BY <1>1, <1>2, <1>3, <1>4

\* Superbufs are sent behind those on their way.
LEMMA SentAppended ==
  ASSUME NEW q \in Seq(Message), NEW F \in SUBSET (1..MaxFrame),
         NEW X \in Seq([idx : F, have : {Streams}]), Carries(X, F)
  PROVE  /\ q \o X \in Seq(Message)
         /\ SentIn(q \o X) = SentIn(q) \cup (Streams \X F)
         /\ Len(q) \in Nat /\ Len(X) \in Nat /\ Len(q \o X) = Len(q) + Len(X)
         /\ \A i \in 1..Len(q) : (q \o X)[i] = q[i]
         /\ \A i \in 1..Len(X) : (q \o X)[Len(q) + i] = X[i]
         /\ \A i \in 1..Len(q) + Len(X) : i \in 1..Len(q) \/ \E j \in 1..Len(X) : i = Len(q) + j
<1> DEFINE p == q \o X
           M == 1..MaxFrame
<1>1. Len(q) \in Nat /\ Len(X) \in Nat /\ q \in Seq([idx : M, have : {Streams}])
  <2>1. Len(q) \in Nat /\ Len(X) \in Nat
    OBVIOUS
  <2> QED
    BY <2>1 DEF Message
<1>2. X \in Seq(Message)
  <2>1. \A i \in 1..Len(X) : X[i] \in Message
    <3>1. \A m \in [idx : F, have : {Streams}] : m \in Message
      BY DEF Message
    <3> HIDE DEF M
    <3> QED
      BY <3>1, ElementOfSeq
  <2> QED
    BY <1>1, <2>1
<1>3. p \in Seq(Message)
  BY <1>2, ConcatProperties
<1>4. Len(p) = Len(q) + Len(X)
  BY <1>2, ConcatProperties
<1>5. \A i \in 1..Len(q) + Len(X) : p[i] = IF i <= Len(q) THEN q[i] ELSE X[i - Len(q)]
  BY <1>2, ConcatProperties
<1> HIDE DEF p, M
<1>6. \A i \in 1..Len(q) : p[i] = q[i] /\ i \in 1..Len(q) + Len(X)
  BY <1>1, <1>5
<1>7. \A i \in 1..Len(X) : p[Len(q) + i] = X[i] /\ Len(q) + i \in 1..Len(q) + Len(X)
  <2> TAKE i \in 1..Len(X)
  <2>1. Len(q) + i \in 1..Len(q) + Len(X) /\ ~(Len(q) + i <= Len(q)) /\ Len(q) + i - Len(q) = i
    BY <1>1
  <2> QED
    BY <1>5, <2>1
<1>8. \A i \in 1..Len(q) + Len(X) : i \in 1..Len(q) \/ \E j \in 1..Len(X) : i = Len(q) + j
  <2> TAKE i \in 1..Len(q) + Len(X)
  <2>1. CASE i > Len(q)
    <3>1. i - Len(q) \in 1..Len(X) /\ i = Len(q) + (i - Len(q))
      BY <1>1, <2>1
    <3> QED
      BY <3>1
  <2> QED
    BY <1>1, <2>1
<1> DEFINE I(s) == {s[i].idx : i \in 1..Len(s)}
<1>9. SentIn(p) = Streams \X I(p) /\ SentIn(q) = Streams \X I(q)
  <2>1. M \in SUBSET (1..MaxFrame) /\ p \in Seq([idx : M, have : {Streams}])
    BY <1>3 DEF Message, M
  <2> QED
    BY <1>1, <2>1, SentElements
<1>10. I(p) = I(q) \cup F
  <2>1. ASSUME NEW f \in I(p) PROVE f \in I(q) \cup F
    <3>1. PICK i \in 1..Len(q) + Len(X) : f = p[i].idx
      BY <1>4
    <3>2. CASE i \in 1..Len(q)
      BY <1>6, <3>1, <3>2
    <3>3. CASE \E j \in 1..Len(X) : i = Len(q) + j
      <4>1. \A j \in 1..Len(X) : X[j].idx \in F
        BY SentElements
      <4> QED
        BY <1>7, <3>1, <3>3, <4>1
    <3> QED
      BY <1>8, <3>2, <3>3
  <2>2. ASSUME NEW f \in I(q) PROVE f \in I(p)
    BY <1>4, <1>6
  <2>3. ASSUME NEW f \in F PROVE f \in I(p)
    <3>1. PICK j \in 1..Len(X) : X[j].idx = f
      BY DEF Carries
    <3> QED
      BY <1>4, <1>7, <3>1
  <2> QED
    BY <2>1, <2>2, <2>3
<1> HIDE DEF I
<1>11. SentIn(p) = SentIn(q) \cup (Streams \X F)
  BY <1>9, <1>10
<1> QED
  BY <1>1, <1>3, <1>4, <1>6, <1>7, <1>8, <1>11 DEF p

LEMMA SentTail ==
  ASSUME NEW q \in Seq(Message), q # <<>>
  PROVE  /\ SentIn(q) = SentIn(Tail(q)) \cup (Head(q).have \X {Head(q).idx})
         /\ Head(q).have = Streams /\ Head(q).idx \in 1..MaxFrame
         /\ SentIn(Tail(q)) = Streams \X {q[i].idx : i \in 2..Len(q)}
<1> DEFINE p == Tail(q)
           I(s) == {s[i].idx : i \in 1..Len(s)}
           M == 1..MaxFrame
           J == {q[i].idx : i \in 2..Len(q)}
<1>1. /\ Len(q) \in Nat /\ 1 \in 1..Len(q) /\ Head(q) = q[1] /\ q[1] \in Message
      /\ p \in Seq(Message) /\ Len(p) = Len(q) - 1
      /\ \A i \in 1..Len(q) - 1 : p[i] = q[i + 1] /\ i + 1 \in 1..Len(q)
  BY HeadTail
<1>2. SentIn(p) = Streams \X I(p) /\ SentIn(q) = Streams \X I(q)
  <2>1. M \in SUBSET (1..MaxFrame) /\ p \in Seq([idx : M, have : {Streams}])
        /\ q \in Seq([idx : M, have : {Streams}])
    BY <1>1 DEF Message
  <2> HIDE DEF M, p
  <2> QED
    BY <2>1, SentElements
<1>3. q[1].have = Streams /\ q[1].idx \in 1..MaxFrame
  BY <1>1 DEF Message
<1> HIDE DEF p
<1>4. I(p) = J
  <2>1. ASSUME NEW i \in 1..Len(p) PROVE p[i].idx \in J
    <3>1. p[i] = q[i + 1] /\ i + 1 \in 2..Len(q)
      BY <1>1
    <3> QED
      BY <3>1
  <2>2. ASSUME NEW i \in 2..Len(q) PROVE q[i].idx \in I(p)
    <3>1. i - 1 \in 1..Len(p) /\ i - 1 \in 1..Len(q) - 1 /\ (i - 1) + 1 = i
      BY <1>1
    <3>2. p[i - 1] = q[i]
      BY <1>1, <3>1
    <3> QED
      BY <3>1, <3>2
  <2> QED
    BY <2>1, <2>2
<1>5. I(q) = J \cup {q[1].idx}
  <2>1. \A i \in 1..Len(q) : i = 1 \/ i \in 2..Len(q)
    BY <1>1
  <2>2. \A i \in 2..Len(q) : i \in 1..Len(q)
    BY <1>1
  <2> QED
    BY <1>1, <2>1, <2>2
<1> HIDE DEF I, J
<1>6. SentIn(q) = SentIn(p) \cup (Streams \X {q[1].idx})
  BY <1>2, <1>4, <1>5
<1> QED
  BY <1>1, <1>2, <1>3, <1>4, <1>6 DEF p, J
-----------------------------------------------------------------------------
(* Counting. *)

LEMMA Counted ==
  ASSUME NEW W, W \subseteq Frames, NEW s
  PROVE  IsFiniteSet(Those(W, s)) /\ Cardinality(Those(W, s)) \in Nat
<1>1. IsFiniteSet(Frames)
  <2>1. IsFiniteSet(Streams) /\ IsFiniteSet(1..MaxFrame)
    BY ConstantsOK, FS_Interval
  <2> QED
    BY <2>1, FS_Product DEF Frames
<1>2. Those(W, s) \subseteq Frames
  BY DEF Those
<1> QED
  BY <1>1, <1>2, FS_Subset, FS_CardinalityType

\* Of the buffers W of a stream, those in R go back.
LEMMA Returned ==
  ASSUME NEW W \in SUBSET Frames, NEW V, NEW R, V \cup R \subseteq W, V \cap R = {},
         NEW s \in Streams
  PROVE  /\ Cardinality(Those(W, s)) \in Nat /\ Cardinality(Those(V, s)) \in Nat
         /\ Cardinality(Those(R, s)) \in Nat
         /\ Cardinality(Those(V, s)) + Cardinality(Those(R, s)) <= Cardinality(Those(W, s))
         /\ V \cup R = W =>
              Cardinality(Those(V, s)) + Cardinality(Those(R, s)) = Cardinality(Those(W, s))
<1>2. IsFiniteSet(Those(W, s)) /\ IsFiniteSet(Those(V, s)) /\ IsFiniteSet(Those(R, s))
  <2>1. V \subseteq Frames /\ R \subseteq Frames
    OBVIOUS
  <2> QED
    BY <2>1, Counted
<1>3. Those(V, s) \cap Those(R, s) = {} /\ Those(V, s) \cup Those(R, s) \subseteq Those(W, s)
      /\ (V \cup R = W => Those(V, s) \cup Those(R, s) = Those(W, s))
  BY DEF Those
<1> DEFINE U == Those(V, s) \cup Those(R, s)
<1>4. Cardinality(U) = Cardinality(Those(V, s)) + Cardinality(Those(R, s)) - Cardinality(Those(V, s) \cap Those(R, s))
  BY <1>2, FS_Union
<1>5. Cardinality(Those(V, s) \cap Those(R, s)) = 0
  BY <1>3, FS_EmptySet
<1>6. Cardinality(U) <= Cardinality(Those(W, s))
  BY <1>2, <1>3, FS_Subset
<1>7. /\ Cardinality(Those(W, s)) \in Nat /\ Cardinality(Those(V, s)) \in Nat
      /\ Cardinality(Those(R, s)) \in Nat
  BY <1>2, FS_CardinalityType
<1>8. Cardinality(U) = Cardinality(Those(V, s)) + Cardinality(Those(R, s))
  BY <1>4, <1>5, <1>7
<1>9. V \cup R = W => U = Those(W, s)
  BY <1>3
<1> HIDE DEF U
<1> QED
  BY <1>6, <1>7, <1>8, <1>9
-----------------------------------------------------------------------------
(* The steps. *)

LEMMA Places ==
  ASSUME TypeInv
  PROVE  /\ Queued = QueuedIn(cmdQ) /\ Sent = SentIn(cbQ)
         /\ Queued \subseteq Frames /\ Sent \subseteq Frames /\ BufsIn(ch.queue) \subseteq Frames
         /\ held \subseteq Frames /\ Away \subseteq Frames
         /\ \A b : b \in Queued <=> \E i \in 1..Len(cmdQ) : IsData(i) /\ b = BufOf(cmdQ[i])
         /\ Sent = Streams \X {cbQ[i].idx : i \in 1..Len(cbQ)}
         /\ \A i \in 1..Len(cbQ) : cbQ[i].idx \in 1..MaxFrame
         /\ \A i \in 1..Len(cmdQ) : IsData(i) =>
              /\ cmdQ[i] \in Data /\ cmdQ[i].stream \in Streams /\ cmdQ[i].idx \in Nat
              /\ BufOf(cmdQ[i]) \in Queued
         /\ Len(cmdQ) \in Nat /\ \A i \in 1..Len(cmdQ) : cmdQ[i] \in Cmd
<1>1. cmdQ \in Seq(Cmd) /\ cbQ \in Seq(Message) /\ held \subseteq Frames /\ Good(ch)
  BY DEF TypeInv
<1>2. Queued = QueuedIn(cmdQ) /\ Sent = SentIn(cbQ)
  BY DEF Queued, QueuedIn, Sent, SentIn
<1>3. Len(cmdQ) \in Nat /\ \A i \in 1..Len(cmdQ) : cmdQ[i] \in Cmd
  BY <1>1, LenProperties, ElementOfSeq
<1>4. Queued \subseteq Frames
      /\ \A b : b \in Queued <=> \E i \in 1..Len(cmdQ) : IsData(i) /\ b = BufOf(cmdQ[i])
  BY <1>1, <1>2, QueuedElements DEF IsData
<1> DEFINE M == 1..MaxFrame
<1>5. M \in SUBSET (1..MaxFrame) /\ cbQ \in Seq([idx : M, have : {Streams}])
  BY <1>1 DEF Message
<1> HIDE DEF M
<1>6. SentIn(cbQ) = Streams \X {cbQ[i].idx : i \in 1..Len(cbQ)}
  BY <1>5, SentElements
<1>7. SentIn(cbQ) \subseteq Streams \X M /\ \A i \in 1..Len(cbQ) : cbQ[i].idx \in M
  BY <1>5, SentElements
<1>8. BufsIn(ch.queue) \subseteq Frames
  BY <1>1, GoodParts
<1>9. Sent \subseteq Frames /\ Sent = Streams \X {cbQ[i].idx : i \in 1..Len(cbQ)}
  BY <1>2, <1>6, <1>7 DEF Frames, M
<1>10. \A i \in 1..Len(cmdQ) : IsData(i) =>
         /\ cmdQ[i] \in Data /\ cmdQ[i].stream \in Streams /\ cmdQ[i].idx \in Nat
         /\ BufOf(cmdQ[i]) \in Queued
  <2> SUFFICES ASSUME NEW i \in 1..Len(cmdQ), IsData(i)
               PROVE  /\ cmdQ[i] \in Data /\ cmdQ[i].stream \in Streams /\ cmdQ[i].idx \in Nat
                      /\ BufOf(cmdQ[i]) \in Queued
    OBVIOUS
  <2> QED
    BY <1>3, <1>4, DataCmd DEF IsData
<1> QED
  BY <1>1, <1>2, <1>3, <1>4, <1>7, <1>8, <1>9, <1>10 DEF Away, M

\* The places keep a buffer in one of them.
LEMMA Apart ==
  ASSUME Inv
  PROVE  /\ Queued \cap BufsIn(ch.queue) = {}
         /\ (Queued \cup BufsIn(ch.queue)) \cap (Sent \cup held) = {}
         /\ Sent \cap held = {}
<1>1. TypeInv /\ ArrivalInv /\ SentInv
  BY DEF Inv
<1>2. ASSUME NEW b \in Queued, b \in BufsIn(ch.queue) PROVE FALSE
  <2>1. PICK i \in 1..Len(cmdQ) : IsData(i) /\ b = BufOf(cmdQ[i])
    BY <1>1, Places
  <2>2. b[2] < cmdQ[i].idx /\ b[2] = cmdQ[i].idx /\ cmdQ[i].idx \in Nat
    <3>1. b[1] = cmdQ[i].stream /\ b[2] = cmdQ[i].idx
      BY <2>1 DEF BufOf
    <3>2. cmdQ[i].idx \in Nat
      BY <1>1, <2>1, Places
    <3>3. b[2] < cmdQ[i].idx
      BY <1>1, <1>2, <2>1, <3>1 DEF ArrivalInv
    <3> QED
      BY <3>1, <3>2, <3>3
  <2> QED
    BY <2>2
<1>3. ASSUME NEW b \in Queued \cup BufsIn(ch.queue), b \in Sent \cup held PROVE FALSE
  <2>1. lastSent < b[2] /\ b[2] <= lastSent
    BY <1>1, <1>3 DEF SentInv
  <2>2. b \in Frames
    BY <1>1, Places
  <2>3. b[2] \in Nat /\ lastSent \in Nat
    BY <1>1, <2>2, PairOf, ConstantsOK DEF TypeInv
  <2> QED
    BY <2>1, <2>3
<1> QED
  BY <1>1, <1>2, <1>3 DEF SentInv

\* Where the buffers go when a command is processed.
LEMMA Moves ==
  ASSUME Inv, NEW K, NEW R, Served(K, R), cmdQ # <<>>
  PROVE  LET G == Streams \X K
             P == BufsIn(ch'.queue)
             A == Arrived(Head(cmdQ))
         IN  /\ Queued = Queued' \cup DataOf(Head(cmdQ)) /\ Queued' = QueuedIn(Tail(cmdQ))
             /\ A \subseteq DataOf(Head(cmdQ)) /\ DataOf(Head(cmdQ)) \subseteq Queued
             /\ Queued' \cap DataOf(Head(cmdQ)) = {}
             /\ OneRange => A = DataOf(Head(cmdQ))
             /\ Queued' \cap P = {} /\ Queued' \cap R = {} /\ Queued' \cap G = {}
             /\ Sent' = Sent \cup G /\ cbQ' \in Seq(Message)
             /\ \A f \in K : f \in 1..MaxFrame /\ lastSent < f
<1> DEFINE G == Streams \X K
           P == BufsIn(ch'.queue)
           cmd == Head(cmdQ)
           A == Arrived(cmd)
           D == DataOf(cmd)
<1>1. /\ cmdQ \in Seq(Cmd) /\ cbQ \in Seq(Message) /\ TypeInv /\ ArrivalInv /\ SentInv
      /\ K \subseteq 1..MaxFrame /\ cmdQ' = Tail(cmdQ)
      /\ P \cup R \cup G = BufsIn(ch.queue) \cup A
  BY DEF Inv, TypeInv, Served
<1>2. /\ Len(cmdQ) \in Nat /\ 1 \in 1..Len(cmdQ) /\ cmd = cmdQ[1] /\ cmd \in Cmd
      /\ Tail(cmdQ) \in Seq(Cmd) /\ Len(Tail(cmdQ)) = Len(cmdQ) - 1
      /\ \A i \in 1..Len(cmdQ) - 1 : Tail(cmdQ)[i] = cmdQ[i + 1] /\ i + 1 \in 1..Len(cmdQ)
  BY <1>1, HeadTail
<1>3. Queued = QueuedIn(cmdQ) /\ Queued' = QueuedIn(Tail(cmdQ)) /\ Sent = SentIn(cbQ) /\ Sent' = SentIn(cbQ')
  BY <1>1 DEF Queued, QueuedIn, Sent, SentIn
<1>4. Queued = Queued' \cup D
  BY <1>1, <1>3, QueuedTail
<1>5. A \subseteq D /\ (OneRange => A = D)
  <2>1. cmd.type = "DATA" => cmd.meta \in MetaKinds
    BY <1>2, DataCmd
  <2> QED
    BY <2>1 DEF Arrived, DataOf, OneRange, Dropped
<1>6. Queued' \cap D = {}
  <2> SUFFICES ASSUME NEW b \in Queued', b \in D PROVE FALSE
    OBVIOUS
  <2>1. cmd.type = "DATA" /\ b = BufOf(cmd)
    BY DEF DataOf
  <2>2. PICK i \in 1..Len(Tail(cmdQ)) : Tail(cmdQ)[i].type = "DATA" /\ b = BufOf(Tail(cmdQ)[i])
    BY <1>2, <1>3, QueuedElements
  <2>3. i + 1 \in 1..Len(cmdQ) /\ Tail(cmdQ)[i] = cmdQ[i + 1] /\ 1 < i + 1
    BY <1>2
  <2>4. cmdQ[1].stream = cmdQ[i + 1].stream /\ cmdQ[1].idx = cmdQ[i + 1].idx
    BY <1>2, <2>1, <2>2, <2>3 DEF BufOf
  <2>5. cmdQ[1].idx < cmdQ[i + 1].idx
    BY <1>1, <1>2, <2>1, <2>2, <2>3, <2>4 DEF ArrivalInv, IsData
  <2>6. cmdQ[1].idx \in Nat
    BY <1>2, <2>1, DataCmd
  <2> QED
    BY <2>4, <2>5, <2>6
<1> HIDE DEF D, A, G, P
<1>7. Queued \cap BufsIn(ch.queue) = {}
  BY Apart
<1>8. Queued' \cap P = {} /\ Queued' \cap R = {} /\ Queued' \cap G = {}
  BY <1>1, <1>4, <1>5, <1>6, <1>7
<1>9. Sent' = Sent \cup G /\ cbQ' \in Seq(Message)
  <2>1. PICK X \in Seq([idx : K, have : {Streams}]) :
          cbQ' = cbQ \o X /\ \A f \in K : \E i \in 1..Len(X) : X[i].idx = f
    BY DEF Served
  <2>2. Carries(X, K)
    BY <2>1 DEF Carries
  <2>3. SentIn(cbQ \o X) = SentIn(cbQ) \cup (Streams \X K) /\ cbQ \o X \in Seq(Message)
    BY <1>1, <2>2, SentAppended
  <2> QED
    BY <1>3, <2>1, <2>3 DEF G
<1>10. \A f \in K : f \in 1..MaxFrame /\ lastSent < f
  <2> TAKE f \in K
  <2>1. PICK s \in Streams : TRUE
    BY ConstantsOK
  <2>2. <<s, f>> \in Queued \cup BufsIn(ch.queue)
    <3>1. <<s, f>> \in G
      BY DEF G
    <3> QED
      BY <1>1, <1>4, <1>5, <3>1
  <2> QED
    BY <1>1, <2>2 DEF SentInv
<1> QED
  BY <1>3, <1>4, <1>5, <1>6, <1>8, <1>9, <1>10 DEF A, D, G, P

LEMMA ProcessKeeps ==
  ASSUME Inv, ProcessStreamBuf
  PROVE  Inv'
<1>0. cmdQ # <<>>
  BY DEF ProcessStreamBuf
<1>1. PICK K, R : Served(K, R)
  BY Serves
<1> DEFINE G == Streams \X K
           O == BufsIn(ch.queue)
           P == BufsIn(ch'.queue)
           cmd == Head(cmdQ)
           A == Arrived(cmd)
           D == DataOf(cmd)
<1>2. /\ TypeInv /\ ArrivalInv /\ SentInv /\ AccountInv
      /\ cmdQ \in Seq(Cmd) /\ Len(cmdQ) <= MaxCmds /\ cbQ \in Seq(Message) /\ MaxCmds \in Nat
      /\ MaxFrame \in Nat /\ lastSent \in 0..MaxFrame /\ free \in [Streams -> Nat]
      /\ last \in [Streams -> 0..MaxFrame] /\ held \subseteq Frames
  BY ConstantsOK DEF Inv, TypeInv
<1>3. /\ K \subseteq 1..MaxFrame /\ R \subseteq Frames /\ Good(ch') /\ ch'.done = {} /\ OwedInv'
      /\ P \cup R \cup G = O \cup A
      /\ P \cap R = {} /\ P \cap G = {} /\ R \cap G = {}
      /\ \A b \in P : \A f \in K : f < b[2]
      /\ free' = GiveBack(R)
      /\ K = {} => lastSent' = lastSent
      /\ K # {} => lastSent' \in K /\ \A f \in K : f <= lastSent'
      /\ cmdQ' = Tail(cmdQ) /\ held' = held /\ last' = last
  BY <1>1 DEF Served
<1>4. /\ Queued = Queued' \cup D /\ Queued' = QueuedIn(Tail(cmdQ))
      /\ A \subseteq D /\ D \subseteq Queued
      /\ Queued' \cap D = {}
      /\ OneRange => A = D
      /\ Queued' \cap P = {} /\ Queued' \cap R = {} /\ Queued' \cap G = {}
      /\ Sent' = Sent \cup G /\ cbQ' \in Seq(Message)
      /\ \A f \in K : f \in 1..MaxFrame /\ lastSent < f
  BY <1>0, <1>1, Moves
<1>5. /\ Len(cmdQ) \in Nat /\ 1 \in 1..Len(cmdQ) /\ cmd = cmdQ[1] /\ cmd \in Cmd
      /\ Tail(cmdQ) \in Seq(Cmd) /\ Len(Tail(cmdQ)) = Len(cmdQ) - 1
      /\ \A i \in 1..Len(cmdQ) - 1 : Tail(cmdQ)[i] = cmdQ[i + 1] /\ i + 1 \in 1..Len(cmdQ)
  BY <1>0, <1>2, HeadTail
<1> HIDE DEF G, O, P, A, D
<1>6. /\ Queued \subseteq Frames /\ Sent \subseteq Frames /\ O \subseteq Frames /\ P \subseteq Frames
      /\ \A i \in 1..Len(cmdQ) : IsData(i) =>
              cmdQ[i].stream \in Streams /\ cmdQ[i].idx \in Nat /\ BufOf(cmdQ[i]) \in Queued
  <2>1. P \subseteq Frames
    BY <1>3, GoodParts DEF P
  <2> QED
    BY <1>2, <2>1, Places DEF O
<1>7. /\ Queued \cap O = {} /\ (Queued \cup O) \cap (Sent \cup held) = {} /\ Sent \cap held = {}
  BY Apart DEF O
<1>8. \A b \in O \cup D : b \in Frames /\ b[2] <= last[b[1]] /\ lastSent < b[2]
  <2>1. \A b \in O \cup D : b \in Frames /\ lastSent < b[2]
    BY <1>2, <1>4, <1>6 DEF SentInv, O
  <2>2. \A b \in D : b[2] <= last[b[1]]
    <3> SUFFICES ASSUME cmd.type = "DATA" PROVE BufOf(cmd)[2] <= last[BufOf(cmd)[1]]
      BY DEF D, DataOf
    <3> QED
      BY <1>2, <1>5 DEF ArrivalInv, IsData, BufOf
  <2> QED
    BY <1>2, <2>1, <2>2 DEF ArrivalInv, O
<1>9. \A b \in O \cup D : \A i \in 1..Len(cmdQ) - 1 :
        cmdQ[i + 1].type = "DATA" /\ cmdQ[i + 1].stream = b[1] => b[2] < cmdQ[i + 1].idx
  <2> SUFFICES ASSUME NEW b \in O \cup D, NEW i \in 1..Len(cmdQ) - 1,
                      cmdQ[i + 1].type = "DATA", cmdQ[i + 1].stream = b[1]
               PROVE  b[2] < cmdQ[i + 1].idx
    OBVIOUS
  <2>0. i + 1 \in 1..Len(cmdQ) /\ 1 < i + 1
    BY <1>5
  <2>1. CASE b \in O
    BY <1>2, <2>0, <2>1 DEF ArrivalInv, IsData, O
  <2>2. CASE b \in D
    <3>1. cmd.type = "DATA" /\ b[1] = cmdQ[1].stream /\ b[2] = cmdQ[1].idx
      BY <1>5, <2>2 DEF D, DataOf, BufOf
    <3> QED
      BY <1>2, <1>5, <2>0, <3>1 DEF ArrivalInv, IsData
  <2> QED
    BY <2>1, <2>2
<1>10. P \subseteq O \cup D /\ G \subseteq O \cup D /\ R \subseteq O \cup D
  BY <1>3, <1>4
<1>11. lastSent' \in 0..MaxFrame /\ lastSent <= lastSent'
       /\ (K # {} => \A s \in Streams : <<s, lastSent'>> \in G)
  <2>1. CASE K = {}
    BY <1>2, <1>3, <2>1
  <2>2. CASE K # {}
    <3>1. lastSent' \in K /\ lastSent' \in 1..MaxFrame /\ lastSent < lastSent'
      BY <1>3, <1>4, <2>2
    <3>2. \A s \in Streams : <<s, lastSent'>> \in G
      BY <3>1 DEF G
    <3> QED
      BY <1>2, <3>1, <3>2
  <2> QED
    BY <2>1, <2>2
<1>12. free' \in [Streams -> Nat]
       /\ \A s \in Streams : free'[s] = free[s] + Cardinality(Those(R, s))
  <2>1. \A s \in Streams : Cardinality(Those(R, s)) \in Nat
    <3>1. R \in SUBSET Frames /\ R \cup {} \subseteq R /\ {} \cap R = {}
      BY <1>3
    <3>2. \A s \in Streams : Cardinality(Those(R, s)) \in Nat
      BY <3>1, Returned
    <3> QED
      BY <3>2
  <2>2. free' = [s \in Streams |-> free[s] + Cardinality(Those(R, s))]
    BY <1>3 DEF GiveBack, Those
  <2> QED
    BY <1>2, <2>1, <2>2
<1>13. TypeInv'
  <2>1. Len(Tail(cmdQ)) <= MaxCmds
    BY <1>2, <1>5
  <2> QED
    BY <1>2, <1>3, <1>4, <1>5, <1>11, <1>12, <2>1 DEF TypeInv
<1>14. ArrivalInv'
  <2> DEFINE q == Tail(cmdQ)
  <2>q. cmdQ' = q /\ last' = last /\ P = BufsIn(ch'.queue)
        /\ Len(q) = Len(cmdQ) - 1
        /\ \A i \in 1..Len(cmdQ) - 1 : q[i] = cmdQ[i + 1] /\ i + 1 \in 1..Len(cmdQ)
    BY <1>3, <1>5 DEF P
  <2> HIDE DEF q
  <2>1. ASSUME NEW i \in 1..Len(q), NEW j \in 1..Len(q), i < j,
               q[i].type = "DATA", q[j].type = "DATA", q[i].stream = q[j].stream
        PROVE  q[i].idx < q[j].idx
    <3>1. i + 1 < j + 1 /\ i \in 1..Len(cmdQ) - 1 /\ j \in 1..Len(cmdQ) - 1
      BY <1>5, <2>1, <2>q
    <3> QED
      BY <1>2, <2>1, <2>q, <3>1 DEF ArrivalInv, IsData
  <2>2. ASSUME NEW i \in 1..Len(q), q[i].type = "DATA" PROVE q[i].idx <= last[q[i].stream]
    <3>1. i \in 1..Len(cmdQ) - 1
      BY <2>q
    <3> QED
      BY <1>2, <2>2, <2>q, <3>1 DEF ArrivalInv, IsData
  <2>3. ASSUME NEW b \in P
        PROVE  /\ b[2] <= last[b[1]]
               /\ \A i \in 1..Len(q) : q[i].type = "DATA" /\ q[i].stream = b[1] => b[2] < q[i].idx
    BY <1>8, <1>9, <1>10, <2>q
  <2> QED
    BY <2>1, <2>2, <2>3, <2>q DEF ArrivalInv, IsData
<1>15. SentInv'
  <2>1. ASSUME NEW s \in Streams PROVE lastSent' <= last[s]
    <3>1. CASE K = {}
      BY <1>2, <1>3, <3>1 DEF SentInv
    <3>2. CASE K # {}
      <4>1. <<s, lastSent'>> \in O \cup D
        BY <1>10, <1>11, <3>2
      <4> QED
        BY <1>8, <4>1
    <3> QED
      BY <3>1, <3>2
  <2>2. ASSUME NEW b \in Queued' \cup P PROVE lastSent' < b[2]
    <3>1. CASE K = {}
      BY <1>2, <1>3, <1>4, <1>8, <1>10, <3>1 DEF SentInv
    <3>2. CASE K # {} /\ b \in P
      BY <1>3, <3>2
    <3>3. CASE K # {} /\ b \in Queued'
      <4>1. PICK i \in 1..Len(Tail(cmdQ)) : Tail(cmdQ)[i].type = "DATA" /\ b = BufOf(Tail(cmdQ)[i])
        BY <1>4, <1>5, <3>3, QueuedElements
      <4>2. i \in 1..Len(cmdQ) - 1 /\ Tail(cmdQ)[i] = cmdQ[i + 1] /\ i + 1 \in 1..Len(cmdQ)
        BY <1>5
      <4>3. b[1] = cmdQ[i + 1].stream /\ b[2] = cmdQ[i + 1].idx /\ cmdQ[i + 1].type = "DATA"
        BY <4>1, <4>2 DEF BufOf
      <4>4. b[1] \in Streams
        BY <1>6, <4>2, <4>3 DEF IsData
      <4>5. <<b[1], lastSent'>> \in O \cup D
        BY <1>10, <1>11, <3>3, <4>4
      <4>6. <<b[1], lastSent'>>[2] < cmdQ[i + 1].idx
        BY <1>9, <4>2, <4>3, <4>5
      <4> QED
        BY <4>3, <4>6
    <3> QED
      BY <3>1, <3>2, <3>3
  <2>3. ASSUME NEW b \in Sent' \cup held PROVE b[2] <= lastSent'
    <3>1. CASE b \in Sent \cup held
      <4>1. b[2] <= lastSent /\ b[2] \in Nat
        BY <1>2, <1>6, <3>1, PairOf DEF SentInv
      <4> QED
        BY <1>2, <1>11, <4>1
    <3>2. CASE b \in G
      BY <1>3, <3>2 DEF G
    <3> QED
      BY <1>4, <3>1, <3>2
  <2>4. \A i, j \in 1..Len(cbQ') : i < j => cbQ'[i].idx < cbQ'[j].idx
    <3>1. PICK X \in Seq([idx : K, have : {Streams}]) :
            /\ cbQ' = cbQ \o X
            /\ \A i, j \in 1..Len(X) : i < j => X[i].idx < X[j].idx
            /\ \A f \in K : \E i \in 1..Len(X) : X[i].idx = f
      BY <1>1 DEF Served
    <3>c. Carries(X, K) /\ K \in SUBSET (1..MaxFrame)
      BY <1>3, <3>1 DEF Carries
    <3> DEFINE p == cbQ \o X
    <3>2. /\ Len(cbQ) \in Nat /\ Len(X) \in Nat /\ Len(p) = Len(cbQ) + Len(X)
          /\ \A i \in 1..Len(cbQ) : p[i] = cbQ[i]
      BY <1>2, <3>c, SentAppended
    <3>3. \A i \in 1..Len(X) : p[Len(cbQ) + i] = X[i]
      BY <1>2, <3>c, SentAppended
    <3>4. \A i \in 1..Len(cbQ) + Len(X) : i \in 1..Len(cbQ) \/ \E j \in 1..Len(X) : i = Len(cbQ) + j
      BY <1>2, <3>c, SentAppended
    <3>5. \A i \in 1..Len(X) : X[i].idx \in K
      BY <3>c, SentElements
    <3>6. \A i \in 1..Len(cbQ) : cbQ[i].idx <= lastSent /\ cbQ[i].idx \in Nat
      <4> TAKE i \in 1..Len(cbQ)
      <4>1. PICK s \in Streams : TRUE
        BY ConstantsOK
      <4>2. <<s, cbQ[i].idx>> \in Sent /\ cbQ[i].idx \in 1..MaxFrame
        BY <1>2, Places
      <4>3. <<s, cbQ[i].idx>>[2] <= lastSent
        BY <1>2, <4>2 DEF SentInv
      <4> QED
        BY <1>2, <4>2, <4>3
    <3> HIDE DEF p
    <3> SUFFICES ASSUME NEW i \in 1..Len(cbQ) + Len(X), NEW j \in 1..Len(cbQ) + Len(X), i < j
                 PROVE  p[i].idx < p[j].idx
      BY <3>1, <3>2 DEF p
    <3>7. CASE i \in 1..Len(cbQ) /\ j \in 1..Len(cbQ)
      BY <1>2, <3>2, <3>7 DEF SentInv
    <3>8. CASE i \in 1..Len(cbQ) /\ \E y \in 1..Len(X) : j = Len(cbQ) + y
      <4>1. p[j].idx \in K /\ p[i].idx <= lastSent /\ p[i].idx \in Nat
        BY <3>2, <3>3, <3>5, <3>6, <3>8
      <4>2. lastSent < p[j].idx /\ p[j].idx \in 1..MaxFrame
        BY <1>4, <4>1
      <4> QED
        BY <1>2, <4>1, <4>2
    <3>9. CASE (\E x \in 1..Len(X) : i = Len(cbQ) + x) /\ j \in 1..Len(cbQ)
      BY <3>2, <3>9
    <3>10. CASE (\E x \in 1..Len(X) : i = Len(cbQ) + x) /\ \E y \in 1..Len(X) : j = Len(cbQ) + y
      <4>1. PICK x \in 1..Len(X), y \in 1..Len(X) : i = Len(cbQ) + x /\ j = Len(cbQ) + y
        BY <3>10
      <4>2. x < y
        BY <3>2, <4>1
      <4> QED
        BY <3>1, <3>3, <4>1, <4>2
    <3> QED
      BY <3>4, <3>7, <3>8, <3>9, <3>10
  <2>5. Sent' \cap held = {}
    <3>1. ASSUME NEW b \in G, b \in held PROVE FALSE
      <4>1. b \in Queued \cup O
        BY <1>4, <1>10
      <4> QED
        BY <1>7, <3>1, <4>1
    <3> QED
      BY <1>4, <1>7, <3>1
  <2> QED
    BY <1>3, <2>1, <2>2, <2>3, <2>4, <2>5 DEF SentInv, P
<1>16. AccountInv'
  <2> DEFINE V == Queued' \cup P \cup Sent' \cup held
  <2>1. Away = Queued \cup O \cup Sent \cup held /\ Away' = V
    BY <1>3 DEF Away, O, P
  <2>2. Away \in SUBSET Frames
    BY <1>2, <1>6, <2>1
  <2>3. V \cup R \subseteq Away
    BY <1>3, <1>4, <2>1
  <2>4. V \cap R = {}
    <3>1. R \cap (Sent \cup held) = {}
      BY <1>4, <1>7, <1>10
    <3> QED
      BY <1>3, <1>4, <3>1
  <2>5. OneRange => V \cup R = Away
    <3> SUFFICES ASSUME OneRange PROVE Away \subseteq V \cup R
      BY <2>3
    <3>1. A = D
      BY <1>4
    <3> QED
      BY <1>3, <1>4, <2>1, <3>1
  <2> HIDE DEF V
  <2> SUFFICES ASSUME NEW s \in Streams
               PROVE  /\ free'[s] + Cardinality(Those(V, s)) <= NumBufs
                      /\ OneRange => free'[s] + Cardinality(Those(V, s)) = NumBufs
    BY <2>1 DEF AccountInv, OneRange, Those
  <2> DEFINE w == Cardinality(Those(Away, s))
             v == Cardinality(Those(V, s))
             r == Cardinality(Those(R, s))
  <2>6. w \in Nat /\ v \in Nat /\ r \in Nat /\ v + r <= w /\ (V \cup R = Away => v + r = w)
    BY <2>2, <2>3, <2>4, Returned
  <2>7. free[s] + w <= NumBufs /\ (OneRange => free[s] + w = NumBufs) /\ free[s] \in Nat
    BY <1>2 DEF AccountInv
  <2>8. free'[s] = free[s] + r
    BY <1>12
  <2>9. NumBufs \in Nat
    BY ConstantsOK
  <2> HIDE DEF w, v, r
  <2>10. free[s] + r + v <= NumBufs
    BY <2>6, <2>7, <2>9
  <2>11. OneRange => free[s] + r + v = NumBufs
    BY <2>5, <2>6, <2>7, <2>9
  <2> QED
    BY <2>8, <2>10, <2>11 DEF v
<1> QED
  BY <1>3, <1>13, <1>14, <1>15, <1>16 DEF Inv

LEMMA InitKeeps ==
  ASSUME Init
  PROVE  Inv
<1>1. /\ ch = [queue |-> <<>>, match_cnt |-> 0, expected |-> 0, expectedNoLed |-> 0,
               pending_cnt |-> 0, notify_mode |-> InitMode, needLEDFlash |-> FALSE,
               need3ABracketing |-> FALSE, isFlashBracketing |-> FALSE,
               isZoom1x |-> FALSE, startZSl |-> FALSE, spinning |-> FALSE, done |-> {}]
      /\ cmdQ = <<>> /\ cbQ = <<>> /\ held = {} /\ lastSent = 0
      /\ free = [s \in Streams |-> NumBufs] /\ last = [s \in Streams |-> 0]
  BY DEF Init
<1>2. MaxFrame \in Nat /\ MaxCmds \in Nat /\ NumBufs \in Nat /\ WaterMark \in Nat
      /\ InitMode \in {"BURST", "CONTINUOUS"}
  BY ConstantsOK
<1>3. BufsIn(ch.queue) = {} /\ Queued = {} /\ Sent = {}
  BY <1>1 DEF BufsIn, Queued, Sent
<1>4. Good(ch)
  <2>1. ch \in Channel
    BY <1>1, <1>2 DEF Channel
  <2>2. InOrder(ch.queue, ch.match_cnt)
    BY <1>1 DEF InOrder
  <2> QED
    BY <1>3, <2>1, <2>2 DEF Good
<1>5. TypeInv
  <2>1. cmdQ \in Seq(Cmd) /\ Len(cmdQ) <= MaxCmds /\ cbQ \in Seq(Message)
    BY <1>1, <1>2
  <2> QED
    BY <1>1, <1>2, <1>4, <2>1 DEF TypeInv
<1>6. ArrivalInv /\ SentInv
  BY <1>1, <1>3 DEF ArrivalInv, SentInv
<1>7. AccountInv
  <2> SUFFICES ASSUME NEW s \in Streams PROVE free[s] + Cardinality(Those(Away, s)) = NumBufs
    BY <1>2 DEF AccountInv
  <2>1. Those(Away, s) = {}
    BY <1>1, <1>3 DEF Away, Those
  <2>2. Cardinality(Those(Away, s)) = 0 /\ free[s] = NumBufs
    BY <1>1, <2>1, FS_EmptySet
  <2> QED
    BY <1>2, <2>2
<1>8. OwedInv
  BY <1>1, <1>2 DEF OwedInv
<1> QED
  BY <1>5, <1>6, <1>7, <1>8 DEF Inv

\* A frame that a stream delivers is newer than all that went through the channel.
LEMMA FrameKeeps ==
  ASSUME Inv, NEW s \in Streams, StreamFrame(s)
  PROVE  /\ Inv'
         /\ \E f \in 1..MaxFrame : /\ <<s, f>> \in Frames \ Away
                                   /\ Queued' = Queued \cup {<<s, f>>}
<1>1. /\ TypeInv /\ ArrivalInv /\ SentInv /\ AccountInv /\ OwedInv
      /\ cmdQ \in Seq(Cmd) /\ Len(cmdQ) <= MaxCmds /\ MaxCmds \in Nat /\ MaxFrame \in Nat
      /\ lastSent \in 0..MaxFrame /\ free \in [Streams -> Nat] /\ last \in [Streams -> 0..MaxFrame]
      /\ held \subseteq Frames
  BY ConstantsOK DEF Inv, TypeInv
<1>2. PICK f \in last[s] + 1..MaxFrame, m \in Announced(s) :
        /\ cmdQ' = Append(cmdQ, [type |-> "DATA", stream |-> s, idx |-> f, meta |-> m])
        /\ last' = [last EXCEPT ![s] = f]
  BY DEF StreamFrame
<1>3. /\ free[s] > 0 /\ Len(cmdQ) < MaxCmds /\ free' = [free EXCEPT ![s] = @ - 1]
      /\ ch' = ch /\ cbQ' = cbQ /\ held' = held /\ lastSent' = lastSent
  BY DEF StreamFrame
<1> DEFINE cmd == [type |-> "DATA", stream |-> s, idx |-> f, meta |-> m]
           b0 == <<s, f>>
<1>4. f \in 1..MaxFrame /\ f \in Nat /\ last[s] < f /\ m \in MetaKinds
  <2>1. last[s] \in 0..MaxFrame
    BY <1>1
  <2>2. MetaKinds # {}
    BY ConstantsOK
  <2> QED
    BY <1>1, <2>1, <2>2 DEF Announced
<1>5. cmd \in Data /\ cmd \in Cmd /\ cmd.type = "DATA" /\ cmd.stream = s /\ cmd.idx = f /\ BufOf(cmd) = b0
  BY <1>4 DEF Data, Cmd, BufOf
<1>c. cmdQ' = Append(cmdQ, cmd)
  BY <1>2
<1> HIDE DEF cmd
<1>6. /\ cmdQ' \in Seq(Cmd) /\ Len(cmdQ') = Len(cmdQ) + 1 /\ Len(cmdQ) \in Nat
      /\ cmdQ'[Len(cmdQ) + 1] = cmd /\ \A i \in 1..Len(cmdQ) : cmdQ'[i] = cmdQ[i]
  BY <1>1, <1>5, <1>c, AppendPlaces
<1>7. Queued = QueuedIn(cmdQ) /\ Queued' = QueuedIn(cmdQ') /\ Queued' = Queued \cup {b0}
  <2>1. QueuedIn(cmdQ') = QueuedIn(cmdQ) \cup DataOf(cmd)
    BY <1>1, <1>5, <1>c, QueuedAppend
  <2> QED
    BY <1>5, <2>1 DEF Queued, QueuedIn, DataOf
<1>8. Sent' = Sent /\ BufsIn(ch'.queue) = BufsIn(ch.queue)
  BY <1>3 DEF Sent
<1>9. Away' = Away \cup {b0}
  BY <1>3, <1>7, <1>8 DEF Away
<1>10. /\ Queued \subseteq Frames /\ BufsIn(ch.queue) \subseteq Frames /\ Away \subseteq Frames
       /\ \A b : b \in Queued <=> \E i \in 1..Len(cmdQ) : IsData(i) /\ b = BufOf(cmdQ[i])
       /\ \A i \in 1..Len(cmdQ) : IsData(i) => cmdQ[i].stream \in Streams /\ cmdQ[i].idx \in Nat
  BY <1>1, Places
<1>11. lastSent < f
  <2>1. lastSent <= last[s] /\ last[s] \in Nat
    BY <1>1 DEF SentInv
  <2> QED
    BY <1>1, <1>4, <2>1
<1>12. b0 \in Frames /\ b0 \notin Away
  <2>1. b0 \in Frames
    BY <1>4 DEF Frames
  <2>2. ASSUME b0 \in Queued PROVE FALSE
    <3>1. PICK i \in 1..Len(cmdQ) : IsData(i) /\ b0 = BufOf(cmdQ[i])
      BY <1>10, <2>2
    <3>2. cmdQ[i].stream = s /\ cmdQ[i].idx = f
      BY <3>1 DEF BufOf
    <3>3. f <= last[s]
      BY <1>1, <3>1, <3>2 DEF ArrivalInv
    <3> QED
      BY <1>1, <1>4, <3>3
  <2>3. ASSUME b0 \in BufsIn(ch.queue) PROVE FALSE
    <3>1. b0[2] <= last[b0[1]]
      BY <1>1, <2>3 DEF ArrivalInv
    <3> QED
      BY <1>1, <1>4, <3>1
  <2>4. ASSUME b0 \in Sent \cup held PROVE FALSE
    <3>1. b0[2] <= lastSent
      BY <1>1, <2>4 DEF SentInv
    <3> QED
      BY <1>1, <1>4, <1>11, <3>1
  <2> QED
    BY <2>1, <2>2, <2>3, <2>4 DEF Away
<1>13. /\ last' \in [Streams -> 0..MaxFrame] /\ free' \in [Streams -> Nat]
       /\ last'[s] = f /\ \A t \in Streams : last[t] <= last'[t] /\ (t # s => last'[t] = last[t])
  <2>1. last[s] \in Nat /\ free[s] \in Nat
    BY <1>1
  <2> QED
    BY <1>1, <1>2, <1>3, <1>4, <2>1
<1>14. TypeInv'
  <2>1. Len(cmdQ') <= MaxCmds
    BY <1>1, <1>3, <1>6
  <2> QED
    BY <1>1, <1>3, <1>6, <1>13, <2>1 DEF TypeInv
<1>15. ArrivalInv'
  <2>0. \A i \in 1..Len(cmdQ') : i \in 1..Len(cmdQ) \/ i = Len(cmdQ) + 1
    BY <1>6
  <2>1. ASSUME NEW i \in 1..Len(cmdQ'), NEW j \in 1..Len(cmdQ'), i < j, cmdQ'[i].type = "DATA",
               cmdQ'[j].type = "DATA", cmdQ'[i].stream = cmdQ'[j].stream
        PROVE  cmdQ'[i].idx < cmdQ'[j].idx
    <3>1. i \in 1..Len(cmdQ)
      BY <1>6, <2>0, <2>1
    <3>2. CASE j \in 1..Len(cmdQ)
      BY <1>1, <1>6, <2>1, <3>1, <3>2 DEF ArrivalInv, IsData
    <3>3. CASE j = Len(cmdQ) + 1
      <4>1. cmdQ[i].type = "DATA" /\ cmdQ[i].stream = s /\ cmdQ'[j].idx = f /\ cmdQ'[i] = cmdQ[i]
        BY <1>5, <1>6, <2>1, <3>1, <3>3
      <4>2. cmdQ[i].idx <= last[s] /\ cmdQ[i].idx \in Nat
        BY <1>1, <1>10, <3>1, <4>1 DEF ArrivalInv, IsData
      <4> QED
        BY <1>1, <1>4, <4>1, <4>2
    <3> QED
      BY <2>0, <3>2, <3>3
  <2>2. ASSUME NEW i \in 1..Len(cmdQ'), cmdQ'[i].type = "DATA"
        PROVE  cmdQ'[i].idx <= last'[cmdQ'[i].stream]
    <3>1. CASE i \in 1..Len(cmdQ)
      <4>1. cmdQ'[i] = cmdQ[i] /\ cmdQ[i].stream \in Streams /\ cmdQ[i].idx \in Nat
        BY <1>6, <1>10, <2>2, <3>1 DEF IsData
      <4>2. cmdQ[i].idx <= last[cmdQ[i].stream]
        BY <1>1, <2>2, <3>1, <4>1 DEF ArrivalInv, IsData
      <4>3. last[cmdQ[i].stream] \in Nat /\ last'[cmdQ[i].stream] \in Nat
            /\ last[cmdQ[i].stream] <= last'[cmdQ[i].stream]
        BY <1>1, <1>13, <4>1
      <4> QED
        BY <4>1, <4>2, <4>3
    <3>2. CASE i = Len(cmdQ) + 1
      BY <1>4, <1>5, <1>6, <1>13, <3>2
    <3> QED
      BY <2>0, <3>1, <3>2
  <2>3. ASSUME NEW b \in BufsIn(ch.queue)
        PROVE  /\ b[2] <= last'[b[1]]
               /\ \A i \in 1..Len(cmdQ') : cmdQ'[i].type = "DATA" /\ cmdQ'[i].stream = b[1] => b[2] < cmdQ'[i].idx
    <3>1. b[1] \in Streams /\ b[2] \in Nat /\ b[2] <= last[b[1]]
      BY <1>1, <1>10, PairOf DEF ArrivalInv
    <3>2. last[b[1]] \in Nat /\ last'[b[1]] \in Nat /\ last[b[1]] <= last'[b[1]]
      BY <1>1, <1>13, <3>1
    <3>3. ASSUME NEW i \in 1..Len(cmdQ'), cmdQ'[i].type = "DATA", cmdQ'[i].stream = b[1]
          PROVE  b[2] < cmdQ'[i].idx
      <4>1. CASE i \in 1..Len(cmdQ)
        BY <1>1, <1>6, <3>3, <4>1 DEF ArrivalInv, IsData
      <4>2. CASE i = Len(cmdQ) + 1
        <5>1. b[1] = s /\ cmdQ'[i].idx = f
          BY <1>5, <1>6, <3>3, <4>2
        <5> QED
          BY <1>4, <3>1, <3>2, <5>1
      <4> QED
        BY <2>0, <4>1, <4>2
    <3> QED
      BY <3>1, <3>2, <3>3
  <2> QED
    BY <1>8, <2>1, <2>2, <2>3 DEF ArrivalInv, IsData
<1>16. SentInv'
  <2>1. ASSUME NEW t \in Streams PROVE lastSent <= last'[t]
    <3>1. lastSent <= last[t] /\ last[t] \in Nat /\ last'[t] \in Nat /\ last[t] <= last'[t]
      BY <1>1, <1>13 DEF SentInv
    <3> QED
      BY <1>1, <3>1
  <2>2. ASSUME NEW b \in Queued' \cup BufsIn(ch.queue) PROVE lastSent < b[2]
    BY <1>1, <1>7, <1>11 DEF SentInv
  <2> QED
    BY <1>1, <1>3, <1>8, <2>1, <2>2 DEF SentInv
<1>17. AccountInv'
  <2>1. Away' \in SUBSET Frames /\ Away \cup {b0} \subseteq Away' /\ Away \cap {b0} = {} /\ Away \cup {b0} = Away'
    BY <1>9, <1>10, <1>12
  <2> SUFFICES ASSUME NEW t \in Streams
               PROVE  /\ free'[t] + Cardinality(Those(Away', t)) <= NumBufs
                      /\ OneRange => free'[t] + Cardinality(Those(Away', t)) = NumBufs
    BY DEF AccountInv, OneRange, Those
  <2> DEFINE w == Cardinality(Those(Away, t))
             v == Cardinality(Those(Away', t))
             r == Cardinality(Those({b0}, t))
             B == {b0}
  <2>2. w \in Nat /\ v \in Nat /\ r \in Nat /\ w + r = v
    <3>0. Away' \in SUBSET Frames /\ Away \cup B \subseteq Away' /\ Away \cap B = {} /\ Away \cup B = Away'
          /\ r = Cardinality(Those(B, t))
      BY <2>1
    <3> DEFINE W == Away'
    <3>1. W \in SUBSET Frames /\ Away \cup B \subseteq W /\ Away \cap B = {} /\ Away \cup B = W
      BY <3>0
    <3> HIDE DEF W, B
    <3>2. /\ Cardinality(Those(W, t)) \in Nat /\ Cardinality(Those(Away, t)) \in Nat
          /\ Cardinality(Those(B, t)) \in Nat
      <4>1. W \subseteq Frames /\ Away \subseteq Frames /\ B \subseteq Frames
        BY <3>1
      <4> QED
        BY <4>1, Counted
    <3>3. Away \cup B = W =>
            Cardinality(Those(Away, t)) + Cardinality(Those(B, t)) = Cardinality(Those(W, t))
      BY <3>1, Returned
    <3> QED
      BY <3>0, <3>1, <3>2, <3>3 DEF W
  <2>3. r = IF t = s THEN 1 ELSE 0
    <3>1. CASE t = s
      <4>1. Those({b0}, t) = {b0}
        BY <3>1 DEF Those
      <4> QED
        BY <3>1, <4>1, FS_Singleton
    <3>2. CASE t # s
      <4>1. Those({b0}, t) = {}
        BY <3>2 DEF Those
      <4> QED
        BY <3>2, <4>1, FS_EmptySet
    <3> QED
      BY <3>1, <3>2
  <2>4. free[t] + w <= NumBufs /\ (OneRange => free[t] + w = NumBufs) /\ free[t] \in Nat /\ NumBufs \in Nat
    BY <1>1, ConstantsOK DEF AccountInv
  <2>5. free'[t] = IF t = s THEN free[t] - 1 ELSE free[t]
    BY <1>1, <1>3
  <2> HIDE DEF w, v, r
  <2>6. free'[t] + v = free[t] + w
    BY <2>2, <2>3, <2>4, <2>5
  <2> QED
    BY <2>4, <2>6 DEF v
<1>18. OwedInv'
  BY <1>1, <1>3 DEF OwedInv
<1>19. Inv'
  BY <1>14, <1>15, <1>16, <1>17, <1>18 DEF Inv
<1> QED
  BY <1>4, <1>7, <1>12, <1>19

LEMMA ApiKeeps ==
  ASSUME Inv, NEW r \in Requests, ApiCommand(r)
  PROVE  Inv' /\ Queued' = Queued
<1>1. /\ TypeInv /\ ArrivalInv /\ SentInv /\ AccountInv /\ OwedInv
      /\ cmdQ \in Seq(Cmd) /\ Len(cmdQ) <= MaxCmds /\ MaxCmds \in Nat
  BY ConstantsOK DEF Inv, TypeInv
<1>2. /\ cmdQ' = Append(cmdQ, r) /\ Len(cmdQ) < MaxCmds
      /\ ch' = ch /\ cbQ' = cbQ /\ held' = held /\ lastSent' = lastSent /\ free' = free /\ last' = last
  BY DEF ApiCommand
<1>3. r \in Cmd /\ r.type # "DATA"
  BY ConstantsOK DEF Request, Cmd
<1>6. /\ cmdQ' \in Seq(Cmd) /\ Len(cmdQ') = Len(cmdQ) + 1 /\ Len(cmdQ) \in Nat
      /\ cmdQ'[Len(cmdQ) + 1] = r /\ \A i \in 1..Len(cmdQ) : cmdQ'[i] = cmdQ[i]
  BY <1>1, <1>2, <1>3, AppendPlaces
<1>7. Queued' = Queued
  <2>1. QueuedIn(cmdQ') = QueuedIn(cmdQ) \cup DataOf(r)
    BY <1>1, <1>2, <1>3, QueuedAppend
  <2> QED
    BY <1>3, <2>1 DEF Queued, QueuedIn, DataOf
<1>8. Sent' = Sent /\ BufsIn(ch'.queue) = BufsIn(ch.queue) /\ Away' = Away
  BY <1>2, <1>7 DEF Sent, Away
<1>9. \A i \in 1..Len(cmdQ') : cmdQ'[i].type = "DATA" => i \in 1..Len(cmdQ) /\ cmdQ'[i] = cmdQ[i]
  BY <1>3, <1>6
<1>10. TypeInv'
  <2>1. Len(cmdQ') <= MaxCmds
    BY <1>1, <1>2, <1>6
  <2> QED
    BY <1>1, <1>2, <1>6, <2>1 DEF TypeInv
<1>11. ArrivalInv'
  <2>1. ASSUME NEW i \in 1..Len(cmdQ'), NEW j \in 1..Len(cmdQ'), i < j, cmdQ'[i].type = "DATA",
               cmdQ'[j].type = "DATA", cmdQ'[i].stream = cmdQ'[j].stream
        PROVE  cmdQ'[i].idx < cmdQ'[j].idx
    BY <1>1, <1>9, <2>1 DEF ArrivalInv, IsData
  <2>2. ASSUME NEW i \in 1..Len(cmdQ'), cmdQ'[i].type = "DATA"
        PROVE  cmdQ'[i].idx <= last[cmdQ'[i].stream]
    BY <1>1, <1>9, <2>2 DEF ArrivalInv, IsData
  <2>3. ASSUME NEW b \in BufsIn(ch.queue)
        PROVE  /\ b[2] <= last[b[1]]
               /\ \A i \in 1..Len(cmdQ') : cmdQ'[i].type = "DATA" /\ cmdQ'[i].stream = b[1] => b[2] < cmdQ'[i].idx
    BY <1>1, <1>9 DEF ArrivalInv, IsData
  <2> QED
    BY <1>2, <1>8, <2>1, <2>2, <2>3 DEF ArrivalInv, IsData
<1>12. SentInv' /\ AccountInv' /\ OwedInv'
  BY <1>1, <1>2, <1>7, <1>8 DEF SentInv, AccountInv, OwedInv, OneRange
<1> QED
  BY <1>7, <1>10, <1>11, <1>12 DEF Inv

LEMMA CallbackKeeps ==
  ASSUME Inv, DispatchSuperBuf
  PROVE  Inv' /\ Queued' = Queued /\ (Sent \cup held)' = Sent \cup held
<1>1. /\ TypeInv /\ ArrivalInv /\ SentInv /\ AccountInv /\ OwedInv /\ cbQ \in Seq(Message)
      /\ held \subseteq Frames
  BY DEF Inv, TypeInv
<1> DEFINE B == Head(cbQ).have \X {Head(cbQ).idx}
<1>2. /\ cbQ # <<>> /\ cbQ' = Tail(cbQ) /\ held' = held \cup B
      /\ ch' = ch /\ cmdQ' = cmdQ /\ lastSent' = lastSent /\ free' = free /\ last' = last
  BY DEF DispatchSuperBuf
<1>3. /\ Len(cbQ) \in Nat /\ 1 \in 1..Len(cbQ) /\ Head(cbQ) = cbQ[1]
      /\ Tail(cbQ) \in Seq(Message) /\ Len(Tail(cbQ)) = Len(cbQ) - 1
      /\ \A i \in 1..Len(cbQ) - 1 : Tail(cbQ)[i] = cbQ[i + 1] /\ i + 1 \in 1..Len(cbQ)
  BY <1>1, <1>2, HeadTail
<1>4. Sent = SentIn(cbQ) /\ Sent' = SentIn(Tail(cbQ)) /\ Queued' = Queued
  BY <1>2 DEF Sent, SentIn, Queued
<1>5. /\ SentIn(cbQ) = SentIn(Tail(cbQ)) \cup B
      /\ Head(cbQ).have = Streams /\ Head(cbQ).idx \in 1..MaxFrame
      /\ SentIn(Tail(cbQ)) = Streams \X {cbQ[i].idx : i \in 2..Len(cbQ)}
  BY <1>1, <1>2, SentTail
<1>6. Sent = Sent' \cup B /\ B \subseteq Frames
  BY <1>4, <1>5 DEF Frames
<1>7. Sent' \cap B = {}
  <2> SUFFICES ASSUME NEW b \in Sent', b \in B PROVE FALSE
    OBVIOUS
  <2>1. PICK i \in 2..Len(cbQ) : b[2] = cbQ[i].idx
    BY <1>4, <1>5
  <2>2. b[2] = cbQ[1].idx /\ cbQ[1].idx \in Nat
    BY <1>3, <1>5
  <2>3. 1 < i /\ i \in 1..Len(cbQ)
    BY <1>3
  <2>4. cbQ[1].idx < cbQ[i].idx
    BY <1>1, <1>3, <2>3 DEF SentInv
  <2> QED
    BY <2>1, <2>2, <2>4
<1> HIDE DEF B
<1>8. Sent' \cap held' = {} /\ Sent' \cup held' = Sent \cup held
  <2>1. Sent \cap held = {}
    BY <1>1 DEF SentInv
  <2> QED
    BY <1>2, <1>6, <1>7, <2>1
<1>9. Away' = Away /\ BufsIn(ch'.queue) = BufsIn(ch.queue)
  BY <1>2, <1>4, <1>8 DEF Away
<1>10. TypeInv'
  BY <1>1, <1>2, <1>3, <1>6 DEF TypeInv
<1>11. ArrivalInv'
  BY <1>1, <1>2 DEF ArrivalInv, IsData
<1>12. SentInv'
  <2>1. \A i, j \in 1..Len(cbQ') : i < j => cbQ'[i].idx < cbQ'[j].idx
    <3> SUFFICES ASSUME NEW i \in 1..Len(cbQ) - 1, NEW j \in 1..Len(cbQ) - 1, i < j
                 PROVE  Tail(cbQ)[i].idx < Tail(cbQ)[j].idx
      BY <1>2, <1>3
    <3>1. i + 1 < j + 1 /\ i + 1 \in 1..Len(cbQ) /\ j + 1 \in 1..Len(cbQ)
      BY <1>3
    <3> QED
      BY <1>1, <1>3, <3>1 DEF SentInv
  <2> QED
    BY <1>1, <1>2, <1>4, <1>8, <1>9, <2>1 DEF SentInv
<1>13. AccountInv' /\ OwedInv'
  BY <1>1, <1>2, <1>9 DEF AccountInv, OwedInv, OneRange
<1> QED
  BY <1>4, <1>8, <1>10, <1>11, <1>12, <1>13 DEF Inv

LEMMA HalKeeps ==
  ASSUME Inv, NEW b \in held, HalQBuf(b)
  PROVE  Inv' /\ Queued' = Queued /\ Sent' = Sent /\ b \notin Sent
<1>1. /\ TypeInv /\ ArrivalInv /\ SentInv /\ AccountInv /\ OwedInv /\ held \subseteq Frames
      /\ free \in [Streams -> Nat]
  BY DEF Inv, TypeInv
<1> DEFINE B == {b}
           V == Queued \cup BufsIn(ch.queue) \cup Sent \cup (held \ {b})
<1>2. /\ held' = held \ {b} /\ free' = GiveBack(B)
      /\ ch' = ch /\ cmdQ' = cmdQ /\ cbQ' = cbQ /\ lastSent' = lastSent /\ last' = last
  BY DEF HalQBuf
<1>3. Queued' = Queued /\ Sent' = Sent /\ Away' = V
  BY <1>2 DEF Queued, Sent, Away
<1>4. b \notin Queued \cup BufsIn(ch.queue) \cup Sent /\ b \in Frames
  BY <1>1, Apart
<1>5. Away \in SUBSET Frames /\ V \cup B \subseteq Away /\ V \cap B = {} /\ V \cup B = Away
  <2>1. Away \subseteq Frames
    BY <1>1, Places
  <2> QED
    BY <1>4, <2>1 DEF Away
<1> HIDE DEF B, V
<1>6. \A s \in Streams : Cardinality(Those(B, s)) \in Nat
  BY <1>5, Returned
<1>7. free' = [s \in Streams |-> free[s] + Cardinality(Those(B, s))]
  BY <1>2 DEF GiveBack, Those
<1>8. TypeInv'
  <2>1. free' \in [Streams -> Nat]
    BY <1>1, <1>6, <1>7
  <2> QED
    BY <1>1, <1>2, <2>1 DEF TypeInv
<1>9. ArrivalInv' /\ OwedInv'
  BY <1>1, <1>2 DEF ArrivalInv, IsData, OwedInv
<1>10. SentInv'
  BY <1>1, <1>2, <1>3 DEF SentInv
<1>11. AccountInv'
  <2> SUFFICES ASSUME NEW s \in Streams
               PROVE  /\ free'[s] + Cardinality(Those(V, s)) <= NumBufs
                      /\ OneRange => free'[s] + Cardinality(Those(V, s)) = NumBufs
    BY <1>3 DEF AccountInv, OneRange, Those
  <2> DEFINE w == Cardinality(Those(Away, s))
             v == Cardinality(Those(V, s))
             r == Cardinality(Those(B, s))
  <2>1. w \in Nat /\ v \in Nat /\ r \in Nat /\ v + r = w
    <3>1. w \in Nat /\ v \in Nat /\ r \in Nat
      <4>1. Away \subseteq Frames /\ V \subseteq Frames /\ B \subseteq Frames
        BY <1>5
      <4> QED
        BY <4>1, Counted
    <3>2. V \cup B = Away => v + r = w
      BY <1>5, Returned
    <3> QED
      BY <1>5, <3>1, <3>2
  <2>2. free[s] + w <= NumBufs /\ (OneRange => free[s] + w = NumBufs) /\ free[s] \in Nat /\ NumBufs \in Nat
    BY <1>1, ConstantsOK DEF AccountInv
  <2>3. free'[s] = free[s] + r
    BY <1>7
  <2> HIDE DEF w, v, r
  <2>4. free'[s] + v = free[s] + w
    BY <2>1, <2>2, <2>3
  <2> QED
    BY <2>2, <2>4 DEF v
<1> QED
  BY <1>3, <1>4, <1>8, <1>9, <1>10, <1>11 DEF Inv

LEMMA NextKeeps ==
  ASSUME Inv, [Next]_vars
  PROVE  Inv'
<1>1. CASE \E s \in Streams : StreamFrame(s)
  BY <1>1, FrameKeeps
<1>2. CASE \E r \in Requests : ApiCommand(r)
  BY <1>2, ApiKeeps
<1>3. CASE ProcessStreamBuf
  BY <1>3, ProcessKeeps
<1>4. CASE DispatchSuperBuf
  BY <1>4, CallbackKeeps
<1>5. CASE \E b \in held : HalQBuf(b)
  BY <1>5, HalKeeps
<1>6. CASE UNCHANGED vars
  <2>1. /\ ch' = ch /\ cmdQ' = cmdQ /\ cbQ' = cbQ /\ held' = held /\ free' = free
        /\ last' = last /\ lastSent' = lastSent
    BY <1>6 DEF vars
  <2>2. Queued' = Queued /\ Sent' = Sent /\ Away' = Away
    BY <2>1 DEF Queued, Sent, Away
  <2>3. TypeInv' /\ ArrivalInv' /\ SentInv' /\ AccountInv' /\ OwedInv'
    BY <2>1, <2>2 DEF Inv, TypeInv, ArrivalInv, SentInv, AccountInv, OwedInv, IsData, OneRange
  <2> QED
    BY <2>3 DEF Inv
<1> QED
  BY <1>1, <1>2, <1>3, <1>4, <1>5, <1>6 DEF Next

LEMMA InvHolds == Spec => []Inv
<1>1. Init => Inv
  BY InitKeeps
<1>2. Inv /\ [Next]_vars => Inv'
  BY NextKeeps
<1> QED
  BY <1>1, <1>2, PTL DEF Spec

LEMMA TypesFollow == Inv => TypeOK
<1> SUFFICES ASSUME Inv PROVE TypeOK
  OBVIOUS
<1>1. TypeInv /\ AccountInv /\ NumBufs \in Nat
  BY ConstantsOK DEF Inv
<1>2. /\ Good(ch) /\ ch.done = {} /\ Len(cmdQ) <= MaxCmds /\ held \subseteq Frames
      /\ free \in [Streams -> Nat] /\ last \in [Streams -> 0..MaxFrame] /\ lastSent \in 0..MaxFrame
  BY <1>1 DEF TypeInv
<1>3. ch \in [queue : Seq(Node), match_cnt : Nat, expected : Nat, expectedNoLed : Nat,
              pending_cnt : Nat, notify_mode : {"BURST", "CONTINUOUS"},
              needLEDFlash : BOOLEAN, need3ABracketing : BOOLEAN,
              isFlashBracketing : BOOLEAN, isZoom1x : BOOLEAN, startZSl : BOOLEAN,
              spinning : BOOLEAN, done : {{}}]
  <2>1. ch \in Channel
    BY <1>2, GoodParts
  <2> QED
    BY <1>2, <2>1 DEF Channel
<1>4. free \in [Streams -> 0..NumBufs]
  <2>1. ASSUME NEW s \in Streams PROVE free[s] \in 0..NumBufs
    <3>1. Away \subseteq Frames
      BY <1>1, Places
    <3>2. Cardinality(Those(Away, s)) \in Nat
      BY <3>1, Counted
    <3>3. free[s] + Cardinality(Those(Away, s)) <= NumBufs /\ free[s] \in Nat
      BY <1>1, <1>2 DEF AccountInv
    <3> QED
      BY <1>1, <3>2, <3>3
  <2> QED
    BY <1>2, <2>1
<1> QED
  BY <1>2, <1>3, <1>4 DEF TypeOK, Frames

\* Type correctness: the thread's command handlers keep the channel's counters
\* and queue, and no stream counts more free buffers than it has
\* (mm_channel_process_stream_buf and what it calls).
THEOREM TypeCorrect == Spec => []TypeOK
BY InvHolds, TypesFollow, PTL

\* The superbuf queue stays in the order that the loops over it take for granted
\* and match_cnt is the number of its matched nodes, after any command.
THEOREM OrderCorrect == Spec => []QueueOrdered
<1>1. Inv => QueueOrdered
  <2> SUFFICES ASSUME Inv PROVE QueueOrdered
    OBVIOUS
  <2> DEFINE q == ch.queue
             k == ch.match_cnt
  <2>1. Good(ch)
    BY DEF Inv, TypeInv
  <2>2. q \in Seq(Node) /\ InOrder(q, k)
    BY <2>1, GoodParts
  <2>3. DOMAIN q = 1..Len(q) /\ Len(q) \in Nat /\ k \in Nat /\ Cardinality(MatchedIn(q)) = k
    BY <2>2, Nodes, Matched
  <2> HIDE DEF q, k
  <2>4. \A i, j \in DOMAIN q : i < j => /\ q[i].frame_idx < q[j].frame_idx
                                        /\ q[j].matched => q[i].matched
    <3> SUFFICES ASSUME NEW i \in 1..Len(q), NEW j \in 1..Len(q), i < j
                 PROVE  q[i].frame_idx < q[j].frame_idx /\ (q[j].matched => q[i].matched)
      BY <2>3
    <3>1. (q[i].matched <=> i <= k) /\ (q[j].matched <=> j <= k)
      BY <2>2 DEF InOrder
    <3>2. q[i].frame_idx < q[j].frame_idx
      BY <2>2 DEF InOrder
    <3> QED
      BY <2>3, <3>1, <3>2
  <2> QED
    BY <2>3, <2>4, TypesFollow DEF QueueOrdered, q, k
<1> QED
  BY <1>1, InvHolds, PTL

\* The loops `while (match_cnt > limit)` of mm_channel_superbuf_skip and
\* mm_channel_superbuf_bufdone_overflow end in every state the channel reaches.
THEOREM LoopsCorrect == Spec => []LoopsEnd
<1>1. Inv => LoopsEnd
  BY GoodParts DEF Inv, TypeInv, LoopsEnd
<1> QED
  BY <1>1, InvHolds, PTL

\* No matched superbuf is withheld from a pending request or from the
\* continuous mode, and the burst mode keeps water_mark of them at most.
THEOREM OwedCorrect == Spec => []NothingOwed
<1>1. Inv => NothingOwed
  <2> SUFFICES ASSUME Inv PROVE NothingOwed
    OBVIOUS
  <2>1. Good(ch) /\ OwedInv
    BY DEF Inv, TypeInv
  <2>2. ch.queue \in Seq(Node) /\ InOrder(ch.queue, ch.match_cnt)
    BY <2>1, GoodParts
  <2>3. MatchedIn(ch.queue) = 1..ch.match_cnt /\ Cardinality(MatchedIn(ch.queue)) = ch.match_cnt
    BY <2>2, Matched
  <2> QED
    BY <2>1, <2>3 DEF NothingOwed, OwedInv
<1> QED
  BY <1>1, InvHolds, PTL

\* The snapshot flash is on only while the request it serves is pending.
THEOREM FlashCorrect == Spec => []FlashOnlyForRequest
<1>1. Inv => FlashOnlyForRequest
  BY DEF Inv, OwedInv, FlashOnlyForRequest
<1> QED
  BY <1>1, InvHolds, PTL

\* When no metadata announces both kinds of range, every buffer of a stream is
\* in the kernel or in exactly one place outside, whatever matching, flushing,
\* overflow or a failed allocation does with it.
THEOREM BuffersCorrect ==
  ASSUME \A m \in MetaKinds : ~BothValid(m)
  PROVE  Spec => []NoBufferLost
<1>1. Inv => NoBufferLost
  <2> SUFFICES ASSUME Inv PROVE NoBufferLost
    OBVIOUS
  <2>1. /\ Queued \cap BufsIn(ch.queue) = {}
        /\ (Queued \cup BufsIn(ch.queue)) \cap (Sent \cup held) = {}
        /\ Sent \cap held = {}
    BY Apart
  <2>2. AccountInv /\ OneRange
    BY DEF Inv, OneRange
  <2>3. \A s \in Streams :
          free[s] + Cardinality({b \in Queued \cup BufsIn(ch.queue) \cup Sent \cup held : b[1] = s}) = NumBufs
    BY <2>2 DEF AccountInv, Those, Away
  <2> QED
    BY <2>1, <2>3 DEF NoBufferLost
<1> QED
  BY <1>1, InvHolds, PTL

\* A step of the threads is a step that SuperbufDelivery allows, or none.
LEMMA Delivers ==
  ASSUME Inv, [Next]_vars
  PROVE  [Delivery!DNext]_(Delivery!dvars)
<1> DEFINE inside == Queued \cup BufsIn(ch.queue)
           given == Sent \cup held
<1>f. Delivery!Frames = Frames
  BY DEF Delivery!Frames, Frames
<1>1. CASE \E s \in Streams : StreamFrame(s)
  <2>1. PICK s \in Streams : StreamFrame(s)
    BY <1>1
  <2>2. PICK f \in 1..MaxFrame : <<s, f>> \in Frames \ Away /\ Queued' = Queued \cup {<<s, f>>}
    BY <2>1, FrameKeeps
  <2>3. ch' = ch /\ held' = held /\ lastSent' = lastSent /\ Sent' = Sent
    BY <2>1 DEF StreamFrame, Sent
  <2>4. Delivery!Arrive(<<s, f>>)
    BY <2>2, <2>3 DEF Delivery!Arrive, Away
  <2> QED
    BY <1>f, <2>2, <2>4 DEF Delivery!DNext
<1>2. CASE \E r \in Requests : ApiCommand(r)
  <2>1. PICK r \in Requests : ApiCommand(r)
    BY <1>2
  <2>2. Queued' = Queued /\ ch' = ch /\ held' = held /\ lastSent' = lastSent /\ Sent' = Sent
    BY <2>1, ApiKeeps DEF ApiCommand, Sent
  <2> QED
    BY <2>2 DEF Delivery!dvars
<1>3. CASE ProcessStreamBuf
  <2>0. cmdQ # <<>> /\ Inv
    BY <1>3 DEF ProcessStreamBuf
  <2>1. PICK K, R : Served(K, R)
    BY <1>3, Serves
  <2> DEFINE G == Streams \X K
             P == BufsIn(ch'.queue)
             A == Arrived(Head(cmdQ))
             D == DataOf(Head(cmdQ))
  <2>2. /\ K \subseteq 1..MaxFrame /\ held' = held
        /\ P \cup R \cup G = BufsIn(ch.queue) \cup A /\ P \cap G = {}
        /\ K = {} => lastSent' = lastSent
        /\ K # {} => lastSent' \in K /\ \A f \in K : f <= lastSent'
    BY <2>1 DEF Served
  <2>3. /\ Queued = Queued' \cup D /\ A \subseteq D
        /\ Queued' \cap G = {} /\ Sent' = Sent \cup G
        /\ \A f \in K : f \in 1..MaxFrame /\ lastSent < f
    BY <2>0, <2>1, Moves
  <2>4. G \subseteq inside
    BY <2>2, <2>3
  <2>5. \A f \in K : f > lastSent
    <3>1. lastSent \in Int
      BY DEF Inv, TypeInv
    <3> QED
      BY <2>3, <3>1
  <2>6. inside' \subseteq inside \ G
    BY <2>2, <2>3
  <2>7. given' = given \cup G
    BY <2>2, <2>3
  <2>8. lastSent' = IF K = {} THEN lastSent ELSE CHOOSE i \in K : \A j \in K : j <= i
    <3>1. CASE K = {}
      BY <2>2, <3>1
    <3>2. CASE K # {}
      <4>1. \E i \in K : \A j \in K : j <= i
        BY <2>2, <3>2
      <4> DEFINE m == CHOOSE i \in K : \A j \in K : j <= i
      <4>2. m \in K /\ \A j \in K : j <= m
        BY <4>1
      <4> HIDE DEF m
      <4>3. lastSent' \in K /\ \A f \in K : f <= lastSent'
        BY <2>2, <3>2
      <4>4. lastSent' <= m /\ m <= lastSent'
        BY <4>2, <4>3
      <4>5. m \in 1..MaxFrame /\ lastSent' \in 1..MaxFrame
        BY <2>2, <4>2, <4>3
      <4>6. lastSent' = m
        BY <4>4, <4>5
      <4> QED
        BY <3>2, <4>6 DEF m
    <3> QED
      BY <3>1, <3>2
  <2>9. Delivery!Decide(K)
    BY <2>4, <2>5, <2>6, <2>7, <2>8 DEF Delivery!Decide
  <2> QED
    BY <2>2, <2>9 DEF Delivery!DNext
<1>4. CASE DispatchSuperBuf
  <2>1. Queued' = Queued /\ Sent' \cup held' = Sent \cup held
    BY <1>4, CallbackKeeps
  <2>2. ch' = ch /\ lastSent' = lastSent
    BY <1>4 DEF DispatchSuperBuf
  <2> QED
    BY <2>1, <2>2 DEF Delivery!dvars
<1>5. CASE \E b \in held : HalQBuf(b)
  <2>1. PICK b \in held : HalQBuf(b)
    BY <1>5
  <2>2. Queued' = Queued /\ Sent' = Sent /\ b \notin Sent
    BY <2>1, HalKeeps
  <2>3. ch' = ch /\ held' = held \ {b} /\ lastSent' = lastSent
    BY <2>1 DEF HalQBuf
  <2>4. b \in Frames
    BY DEF Inv, TypeInv
  <2>5. Delivery!TakeBack(b)
    BY <2>2, <2>3 DEF Delivery!TakeBack
  <2> QED
    BY <1>f, <2>4, <2>5 DEF Delivery!DNext
<1>6. CASE UNCHANGED vars
  BY <1>6 DEF vars, Delivery!dvars, Queued, Sent
<1> QED
  BY <1>1, <1>2, <1>3, <1>4, <1>5, <1>6 DEF Next

\* The threads implement the delivery that SuperbufDelivery promises the HAL:
\* complete superbufs, each at most once and in the order of their frames.
THEOREM DeliveryCorrect == Spec => ImplementsDelivery
<1>1. Init => Delivery!DInit
  BY DEF Init, Delivery!DInit, Queued, Sent, BufsIn
<1>2. Inv /\ [Next]_vars => [Delivery!DNext]_(Delivery!dvars)
  BY Delivers
<1>3. Spec => Delivery!DSpec
  BY <1>1, <1>2, InvHolds, PTL DEF Spec, Delivery!DSpec
<1> QED
  BY <1>3 DEF ImplementsDelivery
=============================================================================
