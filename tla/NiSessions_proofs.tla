-------------------------- MODULE NiSessions_proofs --------------------------
(***************************************************************************)
(* Proofs about NiSessions, for any number of requests and restarts of the *)
(* modem: the types, that no request is lost, and that answers are told to *)
(* the modem as they were given.                                           *)
(*                                                                         *)
(* NoRequestLost is not inductive.  It needs that a request has a waiter   *)
(* of its own (Fresh), that a waiter holds a request only until it has     *)
(* sent its message (Holding), and that what the reset is about to clear   *)
(* was freed before (Clearing).                                            *)
(***************************************************************************)
EXTENDS NiSessions, TLAPS

Msgs ==
  [type : {"NI"}, req : Requests, sess : Sess]
  \cup [type : {"ANSWER"}, req : MayBe, resp : Resp]
  \cup {Down}

\* The message i of q is the request r; some message of q answers r.
Asks(q, i, r) == q[i].type = "NI" /\ q[i].req = r
Answering(q, r) == \E i \in DOMAIN q : q[i].type = "ANSWER" /\ q[i].req = r

\* The requests that wait in q are different ones, and none has been handled.
FreshQueue(q) ==
  \A i \in DOMAIN q : q[i].type = "NI" =>
    /\ q[i].req <= modem.made /\ waiter[q[i].req].pc = "none"
    /\ \A j \in DOMAIN q : Asks(q, j, q[i].req) => j = i

Fresh ==
  /\ FreshQueue(queue)
  /\ \A r \in Requests : waiter[r].pc # "none" => r <= modem.made

Holding == \A r \in Requests : waiter[r].pc # "sends" => waiter[r].req = NoRequest

Clearing == rpc.pc = "clear" => ni[rpc.sess].raw \in freed \cup {NoRequest}

\* What NoRequestLost says of one request.
Kept(r) ==
  waiter[r].pc # "none" /\ r \notin freed =>
    \/ \E s \in Sess : ni[s].raw = r
    \/ \E w \in Requests : waiter[w].req = r
    \/ Answering(queue, r)

Inv == TypeOK /\ queue \in Seq(Msgs) /\ Fresh /\ Holding /\ Clearing /\ NoRequestLost

LEMMA LostKept == NoRequestLost <=> \A r \in Requests : Kept(r)
  BY DEF NoRequestLost, Kept, Answering
-----------------------------------------------------------------------------
(* Queues. *)

LEMMA TailAnswering ==
  ASSUME NEW q \in Seq(Msgs), q # <<>>, NEW r, Answering(q, r),
         ~(Head(q).type = "ANSWER" /\ Head(q).req = r)
  PROVE  Answering(Tail(q), r)
<1>1. PICK i \in DOMAIN q : q[i].type = "ANSWER" /\ q[i].req = r
  BY DEF Answering
<1>2. i # 1
  BY <1>1
<1>3. i - 1 \in DOMAIN Tail(q) /\ Tail(q)[i - 1] = q[i]
  BY <1>2
<1> QED
  BY <1>1, <1>3 DEF Answering

LEMMA AppendAnswering ==
  ASSUME NEW q \in Seq(Msgs), NEW m \in Msgs
  PROVE  /\ \A r : Answering(q, r) => Answering(Append(q, m), r)
         /\ m.type = "ANSWER" => Answering(Append(q, m), m.req)
<1>1. ASSUME NEW r, Answering(q, r) PROVE Answering(Append(q, m), r)
  <2>1. PICK i \in DOMAIN q : q[i].type = "ANSWER" /\ q[i].req = r
    BY <1>1 DEF Answering
  <2>2. i \in DOMAIN Append(q, m) /\ Append(q, m)[i] = q[i]
    OBVIOUS
  <2> QED
    BY <2>1, <2>2 DEF Answering
<1>2. Len(q) + 1 \in DOMAIN Append(q, m) /\ Append(q, m)[Len(q) + 1] = m
  OBVIOUS
<1> QED
  BY <1>1, <1>2 DEF Answering

LEMMA TailFresh ==
  ASSUME NEW q \in Seq(Msgs), q # <<>>, FreshQueue(q)
  PROVE  /\ FreshQueue(Tail(q))
         /\ Head(q).type = "NI" =>
              \A i \in DOMAIN Tail(q) : ~Asks(Tail(q), i, Head(q).req)
<1>1. \A i \in DOMAIN Tail(q) : i + 1 \in DOMAIN q /\ Tail(q)[i] = q[i + 1] /\ i \in Nat /\ i > 0
  OBVIOUS
<1>2. 1 \in DOMAIN q /\ Head(q) = q[1]
  OBVIOUS
<1>3. FreshQueue(Tail(q))
  BY <1>1 DEF FreshQueue, Asks
<1>4. ASSUME Head(q).type = "NI", NEW i \in DOMAIN Tail(q), Asks(Tail(q), i, Head(q).req)
      PROVE  FALSE
  <2>1. Asks(q, i + 1, q[1].req) /\ i + 1 # 1
    BY <1>1, <1>2, <1>4 DEF Asks
  <2> QED
    BY <1>1, <1>2, <1>4, <2>1 DEF FreshQueue
<1> QED
  BY <1>3, <1>4

\* Another message that is no request leaves a queue fresh.
LEMMA AppendFresh ==
  ASSUME NEW q \in Seq(Msgs), NEW m \in Msgs, m.type # "NI", FreshQueue(q)
  PROVE  FreshQueue(Append(q, m))
<1>1. \A i \in DOMAIN Append(q, m) :
        \/ i \in DOMAIN q /\ Append(q, m)[i] = q[i]
        \/ i = Len(q) + 1 /\ Append(q, m)[i] = m
  OBVIOUS
<1> QED
  BY <1>1 DEF FreshQueue, Asks
-----------------------------------------------------------------------------
LEMMA InvInit == Init => Inv
<1> SUFFICES ASSUME Init PROVE Inv
  OBVIOUS
<1>0. <<>> \in Seq(Msgs) /\ {} \subseteq Requests /\ NumRequests \in Nat
  BY NiAssumption
<1>1. TypeOK
  <2>1. rpc \in [pc : {"idle", "check", "clear", "wake"}, sess : Sess] /\ user \in UserType
    BY DEF Init, Idle, NoAnswer, Sess, UserType, MayBe
  <2>2. ni \in [Sess -> NiType] /\ tLock \in [Sess -> MayBe]
    BY DEF Init, NiType, MayBe, Resp
  <2>3. waiter \in [Requests -> WaiterType] /\ said \in [Requests -> Answers \cup {"NONE"}]
    BY DEF Init, NoWaiter, WaiterType, Sess, MayBe, Resp
  <2>4. modem \in [up : BOOLEAN, made : 0..NumRequests, crashes : Nat]
    BY <1>0 DEF Init
  <2> QED
    BY <1>0, <2>1, <2>2, <2>3, <2>4 DEF Init, TypeOK
<1>2. Fresh
  BY DEF Init, Fresh, FreshQueue, NoWaiter
<1>3. Holding /\ Clearing /\ NoRequestLost
  BY DEF Init, Holding, Clearing, NoRequestLost, NoWaiter, Idle
<1> QED
  BY <1>0, <1>1, <1>2, <1>3 DEF Init, Inv
-----------------------------------------------------------------------------
(* Types. *)

\* The fields that the steps change.
LEMMA NiTypes ==
  ASSUME ni \in [Sess -> NiType], NEW s \in Sess
  PROVE  /\ ni[s].raw \in MayBe /\ ni[s].resp \in Resp /\ ni[s].reqID \in MayBe
         /\ [ni EXCEPT ![s].raw = NoRequest] \in [Sess -> NiType]
         /\ [ni EXCEPT ![s].reqID = NoRequest] \in [Sess -> NiType]
         /\ [ni EXCEPT ![s].recvd = TRUE] \in [Sess -> NiType]
         /\ \A r \in Requests : [ni EXCEPT ![s].raw = r, ![s].reqID = r] \in [Sess -> NiType]
         /\ \A resp \in Resp :
              /\ Consumed(s, resp) \in NiType
              /\ [ni EXCEPT ![s].resp = resp, ![s].recvd = TRUE] \in [Sess -> NiType]
  BY DEF NiType, MayBe, Consumed

LEMMA WaiterTypes ==
  ASSUME waiter \in [Requests -> WaiterType], NEW r \in Requests
  PROVE  /\ waiter[r].sess \in Sess /\ waiter[r].req \in MayBe /\ waiter[r].resp \in Resp
         /\ \A s \in Sess :
              [waiter EXCEPT ![r] = [@ EXCEPT !.pc = "waits", !.sess = s]] \in [Requests -> WaiterType]
         /\ \A pc \in {"takes", "unlocks", "leaves"} :
              [waiter EXCEPT ![r].pc = pc] \in [Requests -> WaiterType]
         /\ \A pc \in {"sends", "leaves"}, q \in MayBe, resp \in Resp :
              [waiter EXCEPT ![r].pc = pc, ![r].req = q, ![r].resp = resp] \in [Requests -> WaiterType]
         /\ [waiter EXCEPT ![r] = [NoWaiter EXCEPT !.pc = "done"]] \in [Requests -> WaiterType]
<1>1. waiter[r] \in WaiterType
  OBVIOUS
<1>2. \A s \in Sess : [waiter[r] EXCEPT !.pc = "waits", !.sess = s] \in WaiterType
  BY <1>1 DEF WaiterType
<1>3. \A pc \in {"takes", "unlocks", "leaves"} : [waiter[r] EXCEPT !.pc = pc] \in WaiterType
  BY <1>1 DEF WaiterType
<1>4. \A pc \in {"sends", "leaves"}, q \in MayBe, resp \in Resp :
        [waiter[r] EXCEPT !.pc = pc, !.req = q, !.resp = resp] \in WaiterType
  BY <1>1 DEF WaiterType
<1>5. [NoWaiter EXCEPT !.pc = "done"] \in WaiterType
  BY DEF NoWaiter, WaiterType, MayBe, Resp, Sess
<1>6. waiter[r].sess \in Sess /\ waiter[r].req \in MayBe /\ waiter[r].resp \in Resp
  BY <1>1 DEF WaiterType
<1>7. \A w \in WaiterType : [waiter EXCEPT ![r] = w] \in [Requests -> WaiterType]
  OBVIOUS
<1>8. \A pc : [waiter EXCEPT ![r].pc = pc] = [waiter EXCEPT ![r] = [waiter[r] EXCEPT !.pc = pc]]
  OBVIOUS
<1>9. \A pc, q, resp : [waiter EXCEPT ![r].pc = pc, ![r].req = q, ![r].resp = resp]
                        = [waiter EXCEPT ![r] = [waiter[r] EXCEPT !.pc = pc, !.req = q, !.resp = resp]]
  OBVIOUS
<1>10. \A pc \in {"takes", "unlocks", "leaves"} :
         [waiter EXCEPT ![r].pc = pc] \in [Requests -> WaiterType]
  BY <1>3, <1>7, <1>8
<1>11. \A pc \in {"sends", "leaves"}, q \in MayBe, resp \in Resp :
         [waiter EXCEPT ![r].pc = pc, ![r].req = q, ![r].resp = resp] \in [Requests -> WaiterType]
  BY <1>4, <1>7, <1>9
<1> QED
  BY <1>2, <1>5, <1>6, <1>7, <1>10, <1>11

LEMMA TypeStep == TypeOK /\ queue \in Seq(Msgs) /\ [Next]_vars => TypeOK' /\ queue' \in Seq(Msgs)
<1> SUFFICES ASSUME TypeOK, queue \in Seq(Msgs), [Next]_vars
             PROVE  TypeOK' /\ queue' \in Seq(Msgs)
  OBVIOUS
<1> USE DEF TypeOK
<1>0. queue # <<>> => Head(queue) \in Msgs /\ Tail(queue) \in Seq(Msgs)
  OBVIOUS
<1>a. "es" \in Sess /\ "ni" \in Sess /\ NoRequest \in MayBe /\ Requests \subseteq MayBe
  BY DEF Sess, MayBe
<1>b. MayBe \ {NoRequest} \subseteq Requests
  BY DEF MayBe
<1>c. rpc.sess \in Sess
  OBVIOUS
<1>1. ASSUME rpc = Idle, queue # <<>>, Head(queue).type = "NI",
             HandleRequest(Head(queue).req, Head(queue).sess)
      PROVE  TypeOK' /\ queue' \in Seq(Msgs)
  <2>1. Head(queue).req \in Requests /\ Head(queue).sess \in Sess
    BY <1>0, <1>1 DEF Msgs, Down
  <2>2. ASSUME NEW r \in Requests, NEW s \in Sess, HandleRequest(r, s)
        PROVE  TypeOK' /\ queue' \in Seq(Msgs)
    <3>1. CASE Refused(s)
      BY <1>0, <1>1, <2>2, <3>1 DEF HandleRequest
    <3>2. CASE ~Refused(s)
      <4>1. ni' = [ni EXCEPT ![s].raw = r, ![s].reqID = r]
        BY <2>2, <3>2 DEF HandleRequest
      <4>2. waiter' = [waiter EXCEPT ![r] = [@ EXCEPT !.pc = "waits", !.sess = s]]
        BY <2>2, <3>2 DEF HandleRequest
      <4>3. ni' \in [Sess -> NiType] /\ waiter' \in [Requests -> WaiterType]
        BY <4>1, <4>2, NiTypes, WaiterTypes
      <4> QED
        BY <1>0, <1>1, <2>2, <3>2, <4>3 DEF HandleRequest
    <3> QED
      BY <3>1, <3>2
  <2> QED
    BY <1>1, <2>1, <2>2
<1>2. ASSUME rpc = Idle, queue # <<>>, Head(queue).type = "ANSWER", HandleAnswer(Head(queue).req)
      PROVE  TypeOK' /\ queue' \in Seq(Msgs)
  <2>1. Head(queue).req \in MayBe
    BY <1>0, <1>2 DEF Msgs, Down
  <2> QED
    BY <1>0, <1>2, <1>b, <2>1 DEF HandleAnswer
<1>3. ASSUME rpc = Idle, queue # <<>>, HandleDown PROVE TypeOK' /\ queue' \in Seq(Msgs)
  BY <1>0, <1>3, <1>a DEF HandleDown
<1>4. CASE ResetCheck
  <2>1. rpc' \in [pc : {"idle", "check", "clear", "wake"}, sess : Sess]
    BY <1>4, <1>a DEF ResetCheck, ResetNext, Idle
  <2>2. freed' \subseteq Requests
    <3>1. ni[rpc.sess].raw \in MayBe
      BY <1>c, NiTypes
    <3> QED
      BY <1>4, <3>1 DEF ResetCheck, MayBe
  <2> QED
    BY <1>4, <2>1, <2>2 DEF ResetCheck
<1>5. CASE ResetClear
  BY <1>5, <1>c, NiTypes DEF ResetClear
<1>6. CASE ResetWake
  BY <1>6, <1>a, <1>c, NiTypes DEF ResetWake, ResetNext, Idle
<1>7. ASSUME NEW r \in Requests, WaiterEnds(r) PROVE TypeOK' /\ queue' \in Seq(Msgs)
  <2>1. PICK resp \in Ended(waiter[r].sess) :
          ni' = [ni EXCEPT ![waiter[r].sess] = Consumed(waiter[r].sess, resp)]
    BY <1>7 DEF WaiterEnds
  <2>2. waiter[r].sess \in Sess
    BY WaiterTypes
  <2>3. resp \in Resp
    <3>1. ni[waiter[r].sess].resp \in Resp /\ "NORESP" \in Resp
      BY <2>2, NiTypes DEF Resp
    <3> QED
      BY <2>1, <3>1 DEF Ended
  <2>4. ni' \in [Sess -> NiType]
    BY <2>1, <2>2, <2>3, NiTypes
  <2>5. waiter' \in [Requests -> WaiterType] /\ tLock' \in [Sess -> MayBe]
    BY <1>7, <1>a, WaiterTypes DEF WaiterEnds
  <2> QED
    BY <1>7, <2>4, <2>5 DEF WaiterEnds
<1>8. ASSUME NEW r \in Requests, WaiterTakes(r) PROVE TypeOK' /\ queue' \in Seq(Msgs)
  <2>1. waiter[r].sess \in Sess /\ ni[waiter[r].sess].raw \in MayBe /\ ni[waiter[r].sess].resp \in Resp
    BY WaiterTypes, NiTypes
  <2>2. waiter' \in [Requests -> WaiterType]
    BY <1>8, <1>a, <2>1, WaiterTypes DEF WaiterTakes
  <2>3. ni' \in [Sess -> NiType] /\ tLock' \in [Sess -> MayBe] /\ freed' \subseteq Requests
    BY <1>8, <1>a, <1>b, <2>1, NiTypes DEF WaiterTakes
  <2> QED
    BY <1>8, <2>2, <2>3 DEF WaiterTakes
<1>9. ASSUME NEW r \in Requests, WaiterUnlocks(r) PROVE TypeOK' /\ queue' \in Seq(Msgs)
  BY <1>9, <1>a, WaiterTypes DEF WaiterUnlocks
<1>10. ASSUME NEW r \in Requests, WaiterLeaves(r) PROVE TypeOK' /\ queue' \in Seq(Msgs)
  <2>1. Response(waiter[r].req, waiter[r].resp) \in Msgs
    BY WaiterTypes DEF Response, Msgs
  <2>2. queue' \in Seq(Msgs)
    BY <1>10, <2>1 DEF WaiterLeaves
  <2>3. ni' \in [Sess -> NiType] /\ waiter' \in [Requests -> WaiterType]
    BY <1>10, WaiterTypes, NiTypes DEF WaiterLeaves
  <2> QED
    BY <1>10, <2>2, <2>3 DEF WaiterLeaves
<1>11. ASSUME NEW r \in Requests, NEW a \in Answers, Respond(r, a)
       PROVE  TypeOK' /\ queue' \in Seq(Msgs)
  <2>1. user' \in UserType
    <3> USE DEF UserType
    <3>1. CASE Active("es", r)
      BY <1>11, <1>a, <3>1 DEF Respond
    <3>2. CASE ~Active("es", r) /\ Active("ni", r)
      BY <1>11, <1>a, <3>2 DEF Respond
    <3>3. CASE ~Active("es", r) /\ ~Active("ni", r)
      BY <1>11, <3>3 DEF Respond
    <3> QED
      BY <3>1, <3>2, <3>3
  <2> QED
    BY <1>11, <2>1 DEF Respond
<1>12. CASE UserIgnores
  <2>1. ni' \in [Sess -> NiType]
    BY <1>12, <1>a, NiTypes DEF UserIgnores, Resp
  <2>2. user' \in UserType
    BY <1>12 DEF UserIgnores, UserType
  <2> QED
    BY <1>12, <2>1, <2>2 DEF UserIgnores
<1>13. CASE UserSets
  <2>1. user.sess \in Sess /\ user.resp \in Resp
    BY DEF UserType, Resp
  <2>2. ni' \in [Sess -> NiType]
    BY <1>13, <2>1, NiTypes DEF UserSets
  <2>3. user' \in UserType
    BY <1>13, <1>a DEF UserSets, NoAnswer, UserType
  <2> QED
    BY <1>13, <2>2, <2>3 DEF UserSets
<1>14. ASSUME NEW s \in Sess, ModemRequests(s) PROVE TypeOK' /\ queue' \in Seq(Msgs)
  <2>1. modem.made + 1 \in Requests
    BY <1>14, NiAssumption DEF ModemRequests, Requests
  <2>2. Request(modem.made + 1, s) \in Msgs
    BY <2>1 DEF Request, Msgs
  <2>3. queue' \in Seq(Msgs)
    BY <1>14, <2>2 DEF ModemRequests, Send
  <2>4. modem' \in [up : BOOLEAN, made : 0..NumRequests, crashes : Nat]
    <3>1. modem.made + 1 \in 0..NumRequests
      BY <2>1, NiAssumption DEF Requests
    <3> QED
      BY <1>14, <3>1 DEF ModemRequests
  <2> QED
    BY <1>14, <2>3, <2>4 DEF ModemRequests
<1>15. CASE ModemCrashes
  <2>1. queue' \in Seq(Msgs)
    BY <1>15 DEF ModemCrashes, Send, Msgs
  <2>2. modem' \in [up : BOOLEAN, made : 0..NumRequests, crashes : Nat]
    <3>1. modem.crashes + 1 \in Nat
      OBVIOUS
    <3> QED
      BY <1>15, <3>1 DEF ModemCrashes
  <2> QED
    BY <1>15, <2>1, <2>2 DEF ModemCrashes
<1>16. CASE ModemRecovers
  BY <1>16 DEF ModemRecovers
<1>17. CASE UNCHANGED vars
  BY <1>17 DEF vars
<1> QED
  BY <1>1, <1>2, <1>3, <1>4, <1>5, <1>6, <1>7, <1>8, <1>9, <1>10, <1>11, <1>12, <1>13, <1>14,
     <1>15, <1>16, <1>17 DEF Next, Handle, Reset, Waiter, User
-----------------------------------------------------------------------------
(* Every request has its waiter, its message, or is freed. *)

\* The requests of the queue are requests.
LEMMA AskedTypes ==
  ASSUME NEW q \in Seq(Msgs)
  PROVE  \A i \in DOMAIN q : q[i].type = "NI" => q[i].req \in Requests
<1>1. \A i \in DOMAIN q : q[i] \in Msgs
  OBVIOUS
<1> QED
  BY <1>1 DEF Msgs, Down

\* Steps that change no queue and no session's request, only add to what is
\* freed, and leave the waiters what they hold.
LEMMA KeepStep ==
  ASSUME Inv, UNCHANGED <<queue, modem>>, freed \subseteq freed',
         \A s \in Sess : ni'[s].raw = ni[s].raw,
         \A q \in Requests : /\ waiter'[q].req = waiter[q].req
                             /\ waiter'[q].pc = "none" <=> waiter[q].pc = "none"
                             /\ waiter[q].pc # "sends" \/ waiter'[q].pc = "sends",
         rpc' = rpc \/ rpc'.pc # "clear"
  PROVE  Fresh' /\ Holding' /\ Clearing' /\ NoRequestLost'
<1> USE DEF Inv
<1>1. Fresh'
  BY AskedTypes DEF Fresh, FreshQueue, Asks
<1>2. Holding'
  BY DEF Holding
<1>3. Clearing'
  BY DEF Clearing, TypeOK
<1>4. NoRequestLost'
  BY DEF NoRequestLost
<1> QED
  BY <1>1, <1>2, <1>3, <1>4

\* A request is freed, or gets the session and a waiter of its own.
LEMMA HandleRequestStep ==
  ASSUME Inv, TypeOK', rpc = Idle, queue # <<>>, Head(queue).type = "NI",
         HandleRequest(Head(queue).req, Head(queue).sess)
  PROVE  Fresh' /\ Holding' /\ Clearing' /\ NoRequestLost'
<1> DEFINE r == Head(queue).req
           s == Head(queue).sess
<1> USE DEF Inv
<1>0. r \in Requests /\ s \in Sess /\ Head(queue) \in Msgs
  BY DEF Msgs, Down
<1>1. /\ FreshQueue(Tail(queue)) /\ \A i \in DOMAIN Tail(queue) : ~Asks(Tail(queue), i, r)
      /\ r <= modem.made /\ waiter[r].pc = "none"
  <2>1. 1 \in DOMAIN queue /\ queue[1] = Head(queue)
    OBVIOUS
  <2> QED
    BY <2>1, TailFresh DEF Fresh, FreshQueue
<1>2. waiter[r].req = NoRequest
  BY <1>0, <1>1 DEF Holding
<1>3. \A q \in Requests : Answering(queue, q) => Answering(Tail(queue), q)
  BY TailAnswering
<1>4. Clearing'
  BY DEF HandleRequest, Clearing, Idle
<1>5. \A q \in Requests : waiter'[q].req = waiter[q].req /\ (q # r => waiter'[q] = waiter[q])
  <2>1. \A t : [waiter[r] EXCEPT !.pc = "waits", !.sess = t].req = waiter[r].req
    BY <1>0 DEF TypeOK, WaiterType
  <2>2. \/ waiter' = waiter
        \/ waiter' = [waiter EXCEPT ![r] = [waiter[r] EXCEPT !.pc = "waits", !.sess = s]]
    BY DEF HandleRequest
  <2>3. waiter \in [Requests -> WaiterType]
    BY DEF TypeOK
  <2> QED
    BY <1>0, <2>1, <2>2, <2>3
<1>6. Holding'
  <2>1. waiter'[r].req = NoRequest
    BY <1>0, <1>2, <1>5
  <2> QED
    BY <1>5, <2>1 DEF Holding
<1>7. Fresh'
  <2>1. queue' = Tail(queue) /\ modem' = modem
    BY DEF HandleRequest
  <2>2. \A i \in DOMAIN Tail(queue) : Tail(queue)[i].type = "NI" => Tail(queue)[i].req # r
    BY <1>1 DEF Asks
  <2>3. \A i \in DOMAIN Tail(queue) : Tail(queue)[i].type = "NI" => Tail(queue)[i].req \in Requests
    BY AskedTypes
  <2>4. \A i \in DOMAIN Tail(queue) : Tail(queue)[i].type = "NI" =>
          waiter'[Tail(queue)[i].req].pc = "none"
    BY <1>1, <1>5, <2>2, <2>3 DEF FreshQueue
  <2>5. FreshQueue(queue)'
    BY <1>1, <2>1, <2>4 DEF FreshQueue, Asks
  <2>6. \A q \in Requests : waiter'[q].pc # "none" => q <= modem'.made
    BY <1>1, <1>5, <2>1 DEF Fresh
  <2> QED
    BY <2>5, <2>6 DEF Fresh
<1>8. ASSUME NEW q \in Requests PROVE Kept(q)'
  <2>1. Kept(q)
    BY LostKept
  <2>2. CASE Refused(s)
    <3>1. freed' = freed \cup {r} /\ UNCHANGED <<ni, waiter>> /\ queue' = Tail(queue)
      BY <2>2 DEF HandleRequest
    <3> QED
      BY <1>3, <2>1, <3>1 DEF Kept, Answering
  <2>3. CASE ~Refused(s)
    <3>1. ni' = [ni EXCEPT ![s].raw = r, ![s].reqID = r] /\ freed' = freed /\ queue' = Tail(queue)
      BY <2>3 DEF HandleRequest
    <3>2. ni[s].raw = NoRequest
      BY <2>3 DEF Refused
    <3>3. ni'[s].raw = r /\ \A t \in Sess : t # s => ni'[t].raw = ni[t].raw
      BY <1>0, <3>1 DEF TypeOK, NiType
    <3>4. CASE q = r
      BY <1>0, <3>3, <3>4 DEF Kept
    <3>5. CASE q # r
      <4>1. q # NoRequest
        BY NiAssumption DEF Requests, NoRequest
      <4>2. (\E t \in Sess : ni[t].raw = q) => \E t \in Sess : ni'[t].raw = q
        BY <3>2, <3>3, <4>1
      <4> QED
        BY <1>3, <1>5, <2>1, <3>1, <3>5, <4>2 DEF Kept, Answering
    <3> QED
      BY <3>4, <3>5
  <2> QED
    BY <2>2, <2>3
<1>9. NoRequestLost'
  BY <1>8 DEF NoRequestLost, Kept, Answering
<1> QED
  BY <1>4, <1>6, <1>7, <1>9
\* Other messages: what is answered is freed.
LEMMA HandleOtherStep ==
  ASSUME Inv, rpc = Idle, queue # <<>>,
         \/ Head(queue).type = "ANSWER" /\ HandleAnswer(Head(queue).req)
         \/ Head(queue).type = "DOWN" /\ HandleDown
  PROVE  Fresh' /\ Holding' /\ Clearing' /\ NoRequestLost'
<1> USE DEF Inv
<1>1. queue' = Tail(queue) /\ UNCHANGED <<ni, waiter, modem>>
  BY DEF HandleAnswer, HandleDown
<1>2. Fresh' /\ Holding'
  BY <1>1, TailFresh DEF Fresh, FreshQueue, Asks, Holding
<1>3. Clearing'
  BY DEF HandleAnswer, HandleDown, Clearing, Idle
<1>4. ASSUME NEW q \in Requests PROVE Kept(q)'
  <2>1. Kept(q) /\ q # NoRequest
    BY LostKept, NiAssumption DEF Requests, NoRequest
  <2>2. CASE Head(queue).type = "ANSWER" /\ Head(queue).req = q
    <3>1. HandleAnswer(q)
      BY <2>2
    <3> QED
      BY <2>1, <3>1 DEF HandleAnswer, Kept
  <2>3. CASE ~(Head(queue).type = "ANSWER" /\ Head(queue).req = q)
    <3>1. Answering(queue, q) => Answering(Tail(queue), q)
      BY <2>3, TailAnswering
    <3>2. freed \subseteq freed'
      BY DEF HandleAnswer, HandleDown
    <3> QED
      BY <1>1, <2>1, <3>1, <3>2 DEF Kept, Answering
  <2> QED
    BY <2>2, <2>3
<1>5. NoRequestLost'
  BY <1>4 DEF NoRequestLost, Kept, Answering
<1> QED
  BY <1>2, <1>3, <1>5

LEMMA ResetStep == Inv /\ Reset => Fresh' /\ Holding' /\ Clearing' /\ NoRequestLost'
<1> SUFFICES ASSUME Inv, Reset PROVE Fresh' /\ Holding' /\ Clearing' /\ NoRequestLost'
  OBVIOUS
<1> USE DEF Inv
<1>1. CASE ResetCheck
  <2>1. CASE ni[rpc.sess].raw = NoRequest
    <3>1. rpc'.pc # "clear" /\ UNCHANGED <<queue, ni, waiter, modem, freed>>
      BY <1>1, <2>1 DEF ResetCheck, ResetNext, Idle
    <3> QED
      BY <3>1, KeepStep
  <2>2. CASE ni[rpc.sess].raw # NoRequest
    <3>1. /\ UNCHANGED <<queue, ni, waiter, modem>> /\ freed' = freed \cup {ni[rpc.sess].raw}
          /\ rpc' = [rpc EXCEPT !.pc = "clear"]
      BY <1>1, <2>2 DEF ResetCheck
    <3>2. Clearing'
      BY <3>1 DEF Clearing, TypeOK
    <3>3. Fresh' /\ Holding'
      BY <3>1 DEF Fresh, FreshQueue, Asks, Holding
    <3>4. NoRequestLost'
      BY <3>1 DEF NoRequestLost
    <3> QED
      BY <3>2, <3>3, <3>4
  <2> QED
    BY <2>1, <2>2
<1>2. CASE ResetClear
  <2>1. /\ UNCHANGED <<queue, waiter, modem, freed>> /\ rpc'.pc = "wake"
        /\ ni' = [ni EXCEPT ![rpc.sess].raw = NoRequest]
    BY <1>2 DEF ResetClear, TypeOK
  <2>2. ni[rpc.sess].raw \in freed \cup {NoRequest}
    BY <1>2 DEF ResetClear, Clearing
  <2>3. \A t \in Sess : t # rpc.sess => ni'[t].raw = ni[t].raw
    BY <2>1 DEF TypeOK
  <2>4. Fresh' /\ Holding' /\ Clearing'
    BY <2>1 DEF Fresh, FreshQueue, Asks, Holding, Clearing
  <2>5. ASSUME NEW q \in Requests PROVE Kept(q)'
    <3>1. Kept(q) /\ q # NoRequest
      BY LostKept, NiAssumption DEF Requests, NoRequest
    <3>2. q \notin freed /\ (\E t \in Sess : ni[t].raw = q) => \E t \in Sess : ni'[t].raw = q
      BY <2>2, <2>3, <3>1
    <3> QED
      BY <2>1, <3>1, <3>2 DEF Kept, Answering
  <2>6. NoRequestLost'
    BY <2>5 DEF NoRequestLost, Kept, Answering
  <2> QED
    BY <2>4, <2>6
<1>3. CASE ResetWake
  <2>1. \A t \in Sess : ni'[t].raw = ni[t].raw
    BY <1>3 DEF ResetWake, TypeOK, NiType
  <2>2. rpc'.pc # "clear" /\ UNCHANGED <<queue, waiter, modem, freed>>
    BY <1>3 DEF ResetWake, ResetNext, Idle
  <2> QED
    BY <2>1, <2>2, KeepStep
<1> QED
  BY <1>1, <1>2, <1>3 DEF Reset
\* A waiter moves the request from its session into its message, and sends it.
LEMMA WaiterStep ==
  ASSUME Inv, NEW r \in Requests, Waiter(r)
  PROVE  Fresh' /\ Holding' /\ Clearing' /\ NoRequestLost'
<1> USE DEF Inv
<1> DEFINE s == waiter[r].sess
<1>0. s \in Sess /\ waiter[r] \in WaiterType /\ waiter \in [Requests -> WaiterType]
  BY DEF TypeOK, WaiterType
<1>1. CASE WaiterEnds(r)
  <2>1. \A t \in Sess : ni'[t].raw = ni[t].raw
    BY <1>0, <1>1 DEF WaiterEnds, Consumed, TypeOK, NiType
  <2>2. PICK pc \in {"unlocks", "takes"} : waiter' = [waiter EXCEPT ![r].pc = pc]
    BY <1>1 DEF WaiterEnds
  <2>3. \A q \in Requests : /\ waiter'[q].req = waiter[q].req
                            /\ waiter'[q].pc = IF q = r THEN pc ELSE waiter[q].pc
    BY <1>0, <2>2 DEF WaiterType
  <2>4. waiter[r].pc = "waits"
    BY <1>1 DEF WaiterEnds
  <2>5. UNCHANGED <<queue, rpc, modem, freed>>
    BY <1>1 DEF WaiterEnds
  <2> QED
    BY <2>1, <2>3, <2>4, <2>5, KeepStep
<1>2. CASE WaiterTakes(r)
  <2> DEFINE raw == ni[s].raw
             ignored == ni[s].resp = "IGNORE"
  <2>1. /\ waiter[r].pc = "takes" /\ waiter[r].req = NoRequest
        /\ UNCHANGED <<queue, rpc, modem>> /\ freed \subseteq freed'
    BY <1>2 DEF WaiterTakes, Holding
  <2>2. ni' = [ni EXCEPT ![s].raw = NoRequest]
    BY <1>2 DEF WaiterTakes
  <2>3. waiter'[r].pc = (IF ignored THEN "leaves" ELSE "sends")
        /\ waiter'[r].req = (IF ignored THEN NoRequest ELSE raw)
        /\ \A q \in Requests : q # r => waiter'[q] = waiter[q]
    BY <1>0, <1>2 DEF WaiterTakes, WaiterType
  <2>4. ni'[s].raw = NoRequest /\ \A t \in Sess : t # s => ni'[t].raw = ni[t].raw
    BY <1>0, <2>2 DEF TypeOK, NiType
  <2>5. Fresh'
    BY <2>1, <2>3, AskedTypes DEF Fresh, FreshQueue, Asks
  <2>6. Holding'
    BY <2>3 DEF Holding
  <2>7. Clearing'
    BY <2>1, <2>4 DEF Clearing, TypeOK
  <2>8. ASSUME NEW q \in Requests PROVE Kept(q)'
    <3>1. Kept(q) /\ q # NoRequest
      BY LostKept, NiAssumption DEF Requests, NoRequest
    <3>2. raw = q => waiter'[r].req = q \/ q \in freed'
      BY <1>2, <2>3, <3>1 DEF WaiterTakes
    <3>3. (\E w \in Requests : waiter[w].req = q) => \E w \in Requests : waiter'[w].req = q
      BY <2>1, <2>3, <3>1
    <3>4. waiter'[q].pc # "none" => waiter[q].pc # "none"
      BY <2>1, <2>3
    <3> QED
      BY <2>1, <2>4, <3>1, <3>2, <3>3, <3>4 DEF Kept, Answering
  <2>9. NoRequestLost'
    BY <2>8 DEF NoRequestLost, Kept, Answering
  <2> QED
    BY <2>5, <2>6, <2>7, <2>9
<1>3. CASE WaiterUnlocks(r)
  <2>1. \A q \in Requests : /\ waiter'[q].req = waiter[q].req
                            /\ waiter'[q].pc = IF q = r THEN "leaves" ELSE waiter[q].pc
    BY <1>0, <1>3 DEF WaiterUnlocks, WaiterType
  <2>2. waiter[r].pc = "unlocks" /\ UNCHANGED <<queue, rpc, ni, modem, freed>>
    BY <1>3 DEF WaiterUnlocks
  <2> QED
    BY <2>1, <2>2, KeepStep
<1>4. CASE WaiterLeaves(r)
  <2> DEFINE m == Response(waiter[r].req, waiter[r].resp)
  <2>1. m \in Msgs /\ m.type = "ANSWER" /\ m.req = waiter[r].req
    BY <1>0, WaiterTypes DEF TypeOK, Response, Msgs
  <2>2. /\ waiter[r].pc \in {"leaves", "sends"} /\ UNCHANGED <<rpc, modem, freed>>
        /\ queue' = IF waiter[r].pc = "sends" THEN Append(queue, m) ELSE queue
    BY <1>4 DEF WaiterLeaves
  <2>3. /\ waiter'[r].pc = "done" /\ waiter'[r].req = NoRequest
        /\ \A q \in Requests : q # r => waiter'[q] = waiter[q]
    BY <1>0, <1>4 DEF WaiterLeaves, NoWaiter
  <2>4. \A t \in Sess : ni'[t].raw = ni[t].raw
    BY <1>0, <1>4 DEF WaiterLeaves, TypeOK, NiType
  <2>5. FreshQueue(queue')
    BY <2>1, <2>2, AppendFresh DEF Fresh
  <2>6. queue' \in Seq(Msgs)
    BY <2>1, <2>2
  <2>7. \A q \in Requests : waiter[q].pc = "none" <=> waiter'[q].pc = "none"
    BY <2>2, <2>3
  <2>8. FreshQueue(queue)'
    BY <2>2, <2>5, <2>6, <2>7, AskedTypes DEF FreshQueue, Asks
  <2>9. Fresh' /\ Holding' /\ Clearing'
    BY <2>2, <2>3, <2>4, <2>7, <2>8 DEF Fresh, Holding, Clearing, TypeOK
  <2>10. ASSUME NEW q \in Requests PROVE Kept(q)'
    <3>1. Kept(q) /\ q # NoRequest
      BY LostKept, NiAssumption DEF Requests, NoRequest
    <3>2. Answering(queue, q) => Answering(queue', q)
      BY <2>1, <2>2, AppendAnswering
    <3>3. waiter[r].req = q => Answering(queue', q)
      BY <2>1, <2>2, <3>1, AppendAnswering DEF Holding
    <3>4. (\E w \in Requests : waiter[w].req = q) =>
            Answering(queue', q) \/ \E w \in Requests : waiter'[w].req = q
      BY <2>3, <3>3
    <3> QED
      BY <2>2, <2>4, <2>7, <3>1, <3>2, <3>4 DEF Kept, Answering
  <2>11. NoRequestLost'
    BY <2>10 DEF NoRequestLost, Kept, Answering
  <2> QED
    BY <2>9, <2>11
<1> QED
  BY <1>1, <1>2, <1>3, <1>4 DEF Waiter

\* The modem sends: its request is a new one.
LEMMA ModemStep ==
  ASSUME Inv, TypeOK', (\E s \in Sess : ModemRequests(s)) \/ ModemCrashes
  PROVE  Fresh' /\ Holding' /\ Clearing' /\ NoRequestLost'
<1> USE DEF Inv
<1>1. UNCHANGED <<rpc, ni, waiter, freed>> /\ modem.made <= modem'.made
  <2>1. modem'.made = modem.made + 1 \/ modem'.made = modem.made
    BY DEF ModemRequests, ModemCrashes, TypeOK
  <2>2. modem.made \in Nat
    BY DEF TypeOK
  <2>3. modem.made <= modem'.made
    BY <2>1, <2>2
  <2> QED
    BY <2>3 DEF ModemRequests, ModemCrashes
<1>2. PICK m \in Msgs : queue' = Append(queue, m) /\
        (m.type = "NI" => m.req = modem.made + 1 /\ m.req <= modem'.made /\ m.req \in Requests)
  <2>1. CASE ModemCrashes
    BY <2>1 DEF ModemCrashes, Send, Down, Msgs
  <2>2. ASSUME NEW s \in Sess, ModemRequests(s)
        PROVE  \E m \in Msgs : queue' = Append(queue, m) /\
                 (m.type = "NI" => m.req = modem.made + 1 /\ m.req <= modem'.made /\ m.req \in Requests)
    <3>1. modem.made + 1 \in Requests /\ modem'.made = modem.made + 1
      BY <2>2, NiAssumption DEF ModemRequests, Requests, TypeOK
    <3>2. Request(modem.made + 1, s) \in Msgs
      BY <3>1 DEF Request, Msgs
    <3> QED
      <4>1. /\ Request(modem.made + 1, s).req = modem.made + 1
            /\ modem.made + 1 <= modem'.made
        BY <3>1 DEF Request, TypeOK
      <4>2. queue' = Append(queue, Request(modem.made + 1, s))
        BY <2>2 DEF ModemRequests, Send
      <4> QED
        BY <3>1, <3>2, <4>1, <4>2
  <2> QED
    BY <2>1, <2>2
<1>3. \A i \in DOMAIN queue' : \/ i \in DOMAIN queue /\ queue'[i] = queue[i]
                               \/ i = Len(queue) + 1 /\ queue'[i] = m
  BY <1>2
<1>4. modem.made \in Nat /\ modem'.made \in Nat
  BY DEF TypeOK
<1>5. Fresh'
  <2>1. m.type = "NI" => waiter[m.req].pc = "none"
    BY <1>2, <1>4, NiAssumption DEF Fresh, Requests
  <2>2. \A i \in DOMAIN queue : queue[i].type = "NI" => queue[i].req <= modem.made /\ queue[i].req \in Nat
    BY AskedTypes, NiAssumption DEF Fresh, FreshQueue, Requests
  <2>3. FreshQueue(queue)'
    BY <1>1, <1>2, <1>3, <1>4, <2>1, <2>2 DEF Fresh, FreshQueue, Asks
  <2>4. \A q \in Requests : waiter[q].pc # "none" => q <= modem'.made
    BY <1>1, <1>4, NiAssumption DEF Fresh, Requests
  <2> QED
    BY <1>1, <2>3, <2>4 DEF Fresh
<1>6. Holding' /\ Clearing'
  BY <1>1 DEF Holding, Clearing
<1>7. NoRequestLost'
  <2>1. \A q \in Requests : Answering(queue, q) => Answering(queue', q)
    BY <1>2, AppendAnswering
  <2> QED
    BY <1>1, <2>1 DEF NoRequestLost, Answering
<1> QED
  BY <1>5, <1>6, <1>7
-----------------------------------------------------------------------------
LEMMA InvStep == Inv /\ [Next]_vars => Inv'
<1> SUFFICES ASSUME Inv, [Next]_vars PROVE Inv'
  OBVIOUS
<1> USE DEF Inv
<1>1. TypeOK' /\ queue' \in Seq(Msgs)
  BY TypeStep
<1>2. Fresh' /\ Holding' /\ Clearing' /\ NoRequestLost'
  <2>1. CASE Handle
    <3>1. rpc = Idle /\ queue # <<>>
      BY <2>1 DEF Handle
    <3> QED
      BY <1>1, <2>1, <3>1, HandleRequestStep, HandleOtherStep DEF Handle
  <2>2. CASE Reset
    BY <2>2, ResetStep
  <2>3. ASSUME NEW r \in Requests, Waiter(r) PROVE Fresh' /\ Holding' /\ Clearing' /\ NoRequestLost'
    BY <2>3, WaiterStep
  <2>4. ASSUME NEW r \in Requests, NEW a \in Answers, Respond(r, a)
        PROVE  Fresh' /\ Holding' /\ Clearing' /\ NoRequestLost'
    BY <2>4, KeepStep DEF Respond
  <2>5. CASE User
    <3>1. \A t \in Sess : ni'[t].raw = ni[t].raw
      <4>1. CASE UserIgnores
        BY <4>1 DEF UserIgnores, TypeOK, NiType
      <4>2. CASE UserSets
        BY <4>2 DEF UserSets, TypeOK, NiType
      <4> QED
        BY <2>5, <4>1, <4>2 DEF User
    <3>2. UNCHANGED <<queue, rpc, waiter, modem, freed>>
      BY <2>5 DEF User, UserIgnores, UserSets
    <3> QED
      BY <3>1, <3>2, KeepStep
  <2>6. ASSUME NEW s \in Sess, ModemRequests(s) PROVE Fresh' /\ Holding' /\ Clearing' /\ NoRequestLost'
    BY <1>1, <2>6, ModemStep
  <2>7. CASE ModemCrashes
    BY <1>1, <2>7, ModemStep
  <2>8. CASE ModemRecovers
    <3>1. modem'.made = modem.made /\ UNCHANGED <<queue, rpc, ni, waiter, freed>>
      BY <2>8 DEF ModemRecovers, TypeOK
    <3> QED
      BY <3>1 DEF Fresh, FreshQueue, Asks, Holding, Clearing, NoRequestLost
  <2>9. CASE UNCHANGED vars
    BY <2>9, KeepStep DEF vars
  <2> QED
    BY <2>1, <2>2, <2>3, <2>4, <2>5, <2>6, <2>7, <2>8, <2>9 DEF Next
<1> QED
  BY <1>1, <1>2

LEMMA InvAlways == Spec => []Inv
  BY InvInit, InvStep, PTL DEF Spec

\* Every variable keeps its type, for any number of requests and restarts
\* (loc_eng_ni_session_s_type).
THEOREM TypeCorrect == Spec => []TypeOK
<1>1. Inv => TypeOK
  BY DEF Inv
<1> QED
  BY <1>1, InvAlways, PTL

\* However answers, timeouts, emergencies and restarts of the modem interleave, a
\* request that was saved stays with its session, its waiter or its message until
\* it is freed (ni_thread_proc, loc_eng_ni_reset_on_engine_restart).
THEOREM RequestKept == Spec => []NoRequestLost
<1>1. Inv => NoRequestLost
  BY DEF Inv
<1> QED
  BY <1>1, InvAlways, PTL
-----------------------------------------------------------------------------
(* Answers are one's own.  As long as the modem has not restarted and every  *)
(* answer was set while the waiter of its request waited, a session belongs  *)
(* to the waiter of the request it has saved, so that the flag and the       *)
(* answer in it are about this request.                                      *)

Timely == ~late /\ modem.crashes = 0
InSession == {"waits", "takes"}

\* No message reports a restart, and those that answer say what the user said.
Honest(q) ==
  \A i \in DOMAIN q :
    /\ q[i].type # "DOWN"
    /\ q[i].type = "ANSWER" /\ q[i].resp \in Answers =>
         q[i].req # NoRequest /\ said[q[i].req] = q[i].resp

Calm == rpc.pc = "idle" /\ \A r \in Requests : waiter[r].pc # "unlocks"

\* Session and waiter belong together.
Paired ==
  /\ \A r \in Requests : waiter[r].pc \in InSession => ni[waiter[r].sess].raw = r
  /\ \A s \in Sess : ni[s].raw # NoRequest =>
       waiter[ni[s].raw].pc \in InSession /\ waiter[ni[s].raw].sess = s

\* A waiter that is about to take its request holds the lock of the session.
Taking ==
  \A r \in Requests : waiter[r].pc = "takes" =>
    /\ tLock[waiter[r].sess] = r /\ ~ni[waiter[r].sess].recvd
    /\ ni[waiter[r].sess].resp \in Answers => said[r] = ni[waiter[r].sess].resp

Received ==
  \A s \in Sess : ni[s].recvd /\ ni[s].resp \in Answers =>
    ni[s].raw # NoRequest /\ said[ni[s].raw] = ni[s].resp

\* reqID names a request whose waiter has not left.
Named ==
  \A s \in Sess : ni[s].reqID # NoRequest =>
    waiter[ni[s].reqID].pc \notin {"none", "done"} /\ waiter[ni[s].reqID].sess = s

\* The user's thread found the session of the request it answers.
Asked ==
  user.pc # "idle" =>
    /\ user.req # NoRequest /\ said[user.req] = user.resp
    /\ waiter[user.req].pc # "none"
    /\ waiter[user.req].pc # "done" => waiter[user.req].sess = user.sess

Sending ==
  \A r \in Requests : waiter[r].pc = "sends" /\ waiter[r].resp \in Answers =>
    waiter[r].req # NoRequest /\ said[waiter[r].req] = waiter[r].resp

Own == /\ Honest(queue) /\ Calm /\ Paired /\ Taking /\ Received /\ Named /\ Asked
       /\ Sending
OwnInv == Timely => Own

LEMMA OwnInit == Init => OwnInv
<1> SUFFICES ASSUME Init PROVE Own
  BY DEF OwnInv
<1>1. Honest(queue) /\ Calm
  BY DEF Init, Honest, Calm, Idle, NoWaiter
<1>2. Paired /\ Taking /\ Received /\ Named
  BY DEF Init, Paired, Taking, Received, Named, NoWaiter, InSession
<1>3. Asked /\ Sending
  BY DEF Init, Asked, Sending, NoAnswer, NoWaiter
<1> QED
  BY <1>1, <1>2, <1>3 DEF Own

\* Neither of the two is undone.
LEMMA StaysLate == ASSUME Inv, [Next]_vars, Timely' PROVE Timely
<1> USE DEF Inv, TypeOK, Timely
<1>1. CASE ModemCrashes
  BY <1>1 DEF ModemCrashes
<1>2. CASE \E s \in Sess : ModemRequests(s)
  BY <1>2 DEF ModemRequests
<1>3. CASE ModemRecovers
  BY <1>3 DEF ModemRecovers
<1>4. CASE User
  BY <1>4 DEF User, UserIgnores, UserSets
<1>5. CASE Handle \/ Reset \/ UNCHANGED vars
  BY <1>5 DEF Handle, HandleRequest, HandleAnswer, HandleDown, Reset, ResetCheck, ResetClear,
              ResetWake, vars
<1>6. CASE \E r \in Requests : Waiter(r) \/ \E a \in Answers : Respond(r, a)
  BY <1>6 DEF Waiter, WaiterEnds, WaiterTakes, WaiterUnlocks, WaiterLeaves, Respond
<1> QED
  BY <1>1, <1>2, <1>3, <1>4, <1>5, <1>6 DEF Next

LEMMA HonestQueues ==
  ASSUME NEW q \in Seq(Msgs), Honest(q)
  PROVE  /\ q # <<>> => Honest(Tail(q)) /\ Head(q).type # "DOWN"
         /\ \A m \in Msgs :
              m.type # "DOWN" /\ (m.type = "ANSWER" /\ m.resp \in Answers =>
                                    m.req # NoRequest /\ said[m.req] = m.resp)
              => Honest(Append(q, m))
<1>1. q # <<>> => Honest(Tail(q)) /\ Head(q).type # "DOWN"
  <2> SUFFICES ASSUME q # <<>> PROVE Honest(Tail(q)) /\ Head(q).type # "DOWN"
    OBVIOUS
  <2>1. 1 \in DOMAIN q /\ Head(q) = q[1]
    OBVIOUS
  <2>2. \A i \in DOMAIN Tail(q) : i + 1 \in DOMAIN q /\ Tail(q)[i] = q[i + 1]
    OBVIOUS
  <2> QED
    BY <2>1, <2>2 DEF Honest
<1>2. ASSUME NEW m \in Msgs, m.type # "DOWN",
             m.type = "ANSWER" /\ m.resp \in Answers => m.req # NoRequest /\ said[m.req] = m.resp
      PROVE  Honest(Append(q, m))
  <2>1. \A i \in DOMAIN Append(q, m) : \/ i \in DOMAIN q /\ Append(q, m)[i] = q[i]
                                       \/ Append(q, m)[i] = m
    OBVIOUS
  <2> QED
    BY <1>2, <2>1 DEF Honest
<1> QED
  BY <1>1, <1>2

\* A step that leaves sessions, waiters and the user alone.
LEMMA OwnKeep ==
  ASSUME Own, UNCHANGED <<rpc, ni, tLock, waiter, user, said>>, Honest(queue')
  PROVE  Own'
<1>1. Honest(queue)'
  BY DEF Honest
<1>2. Calm' /\ Paired' /\ Taking' /\ Received'
  BY DEF Own, Calm, Paired, Taking, Received
<1>3. Named' /\ Asked' /\ Sending'
  BY DEF Own, Named, Asked, Sending
<1> QED
  BY <1>1, <1>2, <1>3 DEF Own

\* A new request finds a session that belongs to nobody.
LEMMA OwnRequest ==
  ASSUME Inv, Own, queue # <<>>, Head(queue).type = "NI",
         HandleRequest(Head(queue).req, Head(queue).sess)
  PROVE  Own'
<1> DEFINE r == Head(queue).req
           s == Head(queue).sess
<1> USE DEF Inv, TypeOK
<1>0. r \in Requests /\ s \in Sess /\ waiter[r].pc = "none"
  <2>1. Head(queue) \in Msgs /\ 1 \in DOMAIN queue /\ Head(queue) = queue[1]
    OBVIOUS
  <2>2. r \in Requests /\ s \in Sess
    BY <2>1 DEF Msgs, Down
  <2>3. waiter[r].pc = "none"
    BY <2>1 DEF Fresh, FreshQueue
  <2> QED
    BY <2>2, <2>3
<1>1. Honest(queue')
  <2>1. queue' = Tail(queue)
    BY DEF HandleRequest
  <2> QED
    BY <2>1, HonestQueues DEF Own
<1>2. UNCHANGED <<rpc, tLock, user, said>>
  BY DEF HandleRequest
<1>3. CASE Refused(s)
  <2>1. UNCHANGED <<ni, waiter>>
    BY <1>3 DEF HandleRequest
  <2> QED
    BY <1>1, <1>2, <2>1, OwnKeep
<1>4. CASE ~Refused(s)
  <2>1. ni' = [ni EXCEPT ![s].raw = r, ![s].reqID = r]
        /\ waiter' = [waiter EXCEPT ![r] = [@ EXCEPT !.pc = "waits", !.sess = s]]
    BY <1>4 DEF HandleRequest
  <2>2. ni[s].raw = NoRequest /\ r # NoRequest
    BY <1>0, <1>4, NiAssumption DEF Refused, NoRequest, Requests
  <2> HIDE DEF r, s
  <2>3. /\ ni'[s].raw = r /\ ni'[s].reqID = r
        /\ \A t \in Sess : ni'[t].recvd = ni[t].recvd /\ ni'[t].resp = ni[t].resp
        /\ \A t \in Sess \ {s} : ni'[t] = ni[t]
    BY <1>0, <2>1 DEF NiType
  <2>4. /\ waiter'[r].pc = "waits" /\ waiter'[r].sess = s
        /\ \A w \in Requests \ {r} : waiter'[w] = waiter[w]
    <3>1. waiter[r] \in WaiterType
      BY <1>0
    <3> QED
      BY <1>0, <2>1, <3>1 DEF WaiterType
  <2>5. \A w \in Requests : waiter[w].sess \in Sess
    BY DEF WaiterType
  <2>6. \A t \in Sess : /\ ni[t].raw \in Requests \cup {NoRequest}
                        /\ ni[t].reqID \in Requests \cup {NoRequest}
    BY DEF NiType, MayBe
  <2>7. \A w \in Requests \ {r} : waiter[w].pc \in InSession => waiter[w].sess # s
    BY <1>0, <2>2, NiAssumption DEF Own, Paired, NoRequest, Requests
  <2>8. Paired'
    <3>1. \A w \in Requests : waiter'[w].pc \in InSession => ni'[waiter'[w].sess].raw = w
      BY <1>0, <2>3, <2>4, <2>5, <2>7 DEF Own, Paired
    <3>2. ASSUME NEW t \in Sess, ni'[t].raw # NoRequest
          PROVE  waiter'[ni'[t].raw].pc \in InSession /\ waiter'[ni'[t].raw].sess = t
      <4>1. CASE t = s
        BY <2>3, <2>4, <4>1 DEF InSession
      <4>2. CASE t # s
        <5>1. ni'[t] = ni[t] /\ ni[t].raw \in Requests
          BY <2>3, <2>6, <3>2, <4>2
        <5>2. waiter[ni[t].raw].pc \in InSession /\ waiter[ni[t].raw].sess = t
          BY <3>2, <5>1 DEF Own, Paired
        <5>3. ni[t].raw # r
          BY <1>0, <5>2 DEF InSession
        <5> QED
          BY <2>4, <5>1, <5>2, <5>3
      <4> QED
        BY <4>1, <4>2
    <3> QED
      BY <3>1, <3>2 DEF Paired
  <2>9. Taking'
    <3> SUFFICES ASSUME NEW w \in Requests, waiter'[w].pc = "takes"
                 PROVE  /\ tLock'[waiter'[w].sess] = w /\ ~ni'[waiter'[w].sess].recvd
                        /\ ni'[waiter'[w].sess].resp \in Answers =>
                             said'[w] = ni'[waiter'[w].sess].resp
      BY DEF Taking
    <3>1. w # r /\ waiter'[w] = waiter[w]
      BY <2>4
    <3> QED
      BY <1>2, <2>3, <2>5, <3>1 DEF Own, Taking
  <2>10. Received'
    <3>1. ~(ni[s].recvd /\ ni[s].resp \in Answers)
      BY <1>0, <2>2 DEF Own, Received
    <3> QED
      BY <1>2, <2>3, <3>1 DEF Own, Received
  <2>11. Named'
    <3> SUFFICES ASSUME NEW t \in Sess, ni'[t].reqID # NoRequest
                 PROVE  waiter'[ni'[t].reqID].pc \notin {"none", "done"} /\ waiter'[ni'[t].reqID].sess = t
      BY DEF Named
    <3>1. CASE t = s
      BY <2>3, <2>4, <3>1
    <3>2. CASE t # s
      <4>1. ni'[t] = ni[t] /\ ni[t].reqID \in Requests
        BY <2>3, <2>6, <3>2
      <4>2. waiter[ni[t].reqID].pc \notin {"none", "done"} /\ waiter[ni[t].reqID].sess = t
        BY <4>1 DEF Own, Named
      <4>3. ni[t].reqID # r
        BY <1>0, <4>2
      <4> QED
        BY <2>4, <4>1, <4>2, <4>3
    <3> QED
      BY <3>1, <3>2
  <2>12. Asked'
    <3>1. user.req \in Requests \cup {NoRequest}
      BY DEF UserType, MayBe
    <3> QED
      BY <1>0, <1>2, <2>4, <3>1 DEF Own, Asked
  <2>13. Sending' /\ Calm'
    BY <1>2, <2>4 DEF Own, Sending, Calm
  <2>14. Honest(queue)'
    BY <1>1, <1>2 DEF Honest
  <2> QED
    BY <2>8, <2>9, <2>10, <2>11, <2>12, <2>13, <2>14 DEF Own
<1> QED
  BY <1>3, <1>4

\* The fields of a session, and the sessions of the waiters.
LEMMA OwnFields ==
  ASSUME Inv
  PROVE  /\ \A w \in Requests : waiter[w].sess \in Sess /\ waiter[w] \in WaiterType /\ w # NoRequest
         /\ \A t \in Sess : /\ ni[t].raw \in Requests \cup {NoRequest}
                            /\ ni[t].reqID \in Requests \cup {NoRequest}
                            /\ ni[t].resp \in Resp
                            /\ ni[t] \in NiType
<1>1. \A w \in Requests : w # NoRequest
  BY NiAssumption DEF Requests, NoRequest
<1> QED
  BY <1>1 DEF Inv, TypeOK, WaiterType, NiType, MayBe

\* A wait ends: with the answer of its own request, or with none.
LEMMA OwnEnds == ASSUME Inv, Own, NEW r \in Requests, WaiterEnds(r) PROVE Own'
<1> DEFINE s == waiter[r].sess
<1>1. PICK resp \in Ended(s) : ni' = [ni EXCEPT ![s] = Consumed(s, resp)]
  BY DEF WaiterEnds
<1>2. /\ waiter[r].pc = "waits" /\ tLock[s] = NoRequest /\ s \in Sess
      /\ tLock' = [tLock EXCEPT ![s] = r]
      /\ UNCHANGED <<queue, rpc, user, said>>
  BY OwnFields DEF WaiterEnds
<1>3. ni[s].raw = r /\ r # NoRequest
  BY <1>2, OwnFields DEF Own, Paired, InSession
<1>4. waiter' = [waiter EXCEPT ![r].pc = "takes"]
  BY <1>3 DEF WaiterEnds
<1>5. /\ waiter'[r].pc = "takes" /\ waiter'[r].sess = s
      /\ \A w \in Requests : waiter'[w].sess = waiter[w].sess
      /\ \A w \in Requests \ {r} : waiter'[w] = waiter[w]
  BY <1>4, OwnFields DEF Inv, TypeOK, WaiterType
<1> HIDE DEF s
<1>6. /\ ni'[s].raw = r /\ ~ni'[s].recvd /\ ni'[s].resp = resp
      /\ \A t \in Sess : ni'[t].raw = ni[t].raw /\ ni'[t].reqID = ni[t].reqID
      /\ \A t \in Sess \ {s} : ni'[t] = ni[t]
  BY <1>1, <1>2, <1>3, OwnFields DEF Inv, TypeOK, NiType, Consumed
<1>7. resp \in Answers => said[r] = resp
  <2>1. resp \in Answers => ni[s].recvd /\ resp = ni[s].resp
    BY <1>1 DEF Ended, Answers
  <2> QED
    BY <1>2, <1>3, <2>1 DEF Own, Received
<1>8. Honest(queue)' /\ Calm'
  BY <1>2, <1>5 DEF Own, Honest, Calm
<1>9. Paired'
  <2>1. \A w \in Requests : waiter'[w].pc \in InSession => ni'[waiter'[w].sess].raw = w
    BY <1>2, <1>5, <1>6, OwnFields DEF Own, Paired, InSession
  <2>2. ASSUME NEW t \in Sess, ni'[t].raw # NoRequest
        PROVE  waiter'[ni'[t].raw].pc \in InSession /\ waiter'[ni'[t].raw].sess = t
    <3>1. ni'[t].raw = ni[t].raw /\ ni[t].raw \in Requests
      BY <1>6, <2>2, OwnFields
    <3>2. waiter[ni[t].raw].pc \in InSession /\ waiter[ni[t].raw].sess = t
      BY <2>2, <3>1 DEF Own, Paired
    <3> QED
      BY <1>5, <3>1, <3>2 DEF InSession
  <2> QED
    BY <2>1, <2>2 DEF Paired
<1>10. Taking'
  <2> SUFFICES ASSUME NEW w \in Requests, waiter'[w].pc = "takes"
               PROVE  /\ tLock'[waiter'[w].sess] = w /\ ~ni'[waiter'[w].sess].recvd
                      /\ ni'[waiter'[w].sess].resp \in Answers =>
                           said'[w] = ni'[waiter'[w].sess].resp
    BY DEF Taking
  <2>1. tLock'[s] = r /\ \A t \in Sess \ {s} : tLock'[t] = tLock[t]
    BY <1>2 DEF Inv, TypeOK
  <2>2. CASE w = r
    BY <1>2, <1>5, <1>6, <1>7, <2>1, <2>2
  <2>3. CASE w # r
    <3>1. waiter'[w] = waiter[w] /\ waiter[w].pc = "takes" /\ waiter[w].sess \in Sess
      BY <1>5, <2>3, OwnFields
    <3>2. waiter[w].sess # s
      BY <1>3, <2>3, <3>1 DEF Own, Paired, InSession
    <3> QED
      BY <1>2, <1>6, <2>1, <3>1, <3>2 DEF Own, Taking
  <2> QED
    BY <2>2, <2>3
<1>11. Received'
  BY <1>2, <1>6 DEF Own, Received
<1>12. Named'
  <2> SUFFICES ASSUME NEW t \in Sess, ni'[t].reqID # NoRequest
               PROVE  waiter'[ni'[t].reqID].pc \notin {"none", "done"} /\ waiter'[ni'[t].reqID].sess = t
    BY DEF Named
  <2>1. ni'[t].reqID = ni[t].reqID /\ ni[t].reqID \in Requests
    BY <1>6, OwnFields
  <2>2. waiter[ni[t].reqID].pc \notin {"none", "done"} /\ waiter[ni[t].reqID].sess = t
    BY <2>1 DEF Own, Named
  <2> QED
    BY <1>5, <2>1, <2>2
<1>13. Asked'
  <2>1. user.req \in Requests \cup {NoRequest}
    BY DEF Inv, TypeOK, UserType, MayBe
  <2> QED
    BY <1>2, <1>5, <2>1 DEF Own, Asked
<1>14. Sending'
  BY <1>2, <1>5 DEF Own, Sending
<1> QED
  BY <1>8, <1>9, <1>10, <1>11, <1>12, <1>13, <1>14 DEF Own

\* The waiter takes its request and the answer out of the session.
LEMMA OwnTakes == ASSUME Inv, Own, NEW r \in Requests, WaiterTakes(r) PROVE Own'
<1> DEFINE s == waiter[r].sess
           ignored == ni[s].resp = "IGNORE"
<1>1. /\ waiter[r].pc = "takes" /\ s \in Sess
      /\ waiter' = [waiter EXCEPT ![r].pc = IF ignored THEN "leaves" ELSE "sends",
                                  ![r].req = IF ignored THEN NoRequest ELSE ni[s].raw,
                                  ![r].resp = ni[s].resp]
      /\ ni' = [ni EXCEPT ![s].raw = NoRequest]
      /\ tLock' = [tLock EXCEPT ![s] = NoRequest]
      /\ UNCHANGED <<queue, rpc, user, said>>
  BY OwnFields DEF WaiterTakes
<1>2. ni[s].raw = r /\ r # NoRequest
  BY <1>1, OwnFields DEF Own, Paired, InSession
<1>3. ~ni[s].recvd /\ (ni[s].resp \in Answers => said[r] = ni[s].resp)
  BY <1>1 DEF Own, Taking
<1>4. /\ waiter'[r].pc \in {"leaves", "sends"} /\ waiter'[r].sess = s
      /\ waiter'[r].resp = ni[s].resp
      /\ waiter'[r].pc = "sends" => waiter'[r].req = r
      /\ \A w \in Requests \ {r} : waiter'[w] = waiter[w]
  BY <1>1, <1>2, OwnFields DEF Inv, TypeOK, WaiterType
<1>5. \A w \in Requests : waiter'[w].sess = waiter[w].sess
  BY <1>4
<1> HIDE DEF s, ignored
<1>6. /\ ni'[s].raw = NoRequest /\ ni'[s].recvd = ni[s].recvd
      /\ \A t \in Sess : ni'[t].reqID = ni[t].reqID
      /\ \A t \in Sess \ {s} : ni'[t] = ni[t]
  BY <1>1, OwnFields DEF Inv, TypeOK, NiType
<1>7. \A w \in Requests \ {r} : waiter[w].pc \in InSession => waiter[w].sess # s
  BY <1>2 DEF Own, Paired
<1>8. Honest(queue)' /\ Calm'
  BY <1>1, <1>4 DEF Own, Honest, Calm
<1>9. Paired'
  <2>1. \A w \in Requests : waiter'[w].pc \in InSession => ni'[waiter'[w].sess].raw = w
    BY <1>4, <1>6, <1>7, OwnFields DEF Own, Paired, InSession
  <2>2. ASSUME NEW t \in Sess, ni'[t].raw # NoRequest
        PROVE  waiter'[ni'[t].raw].pc \in InSession /\ waiter'[ni'[t].raw].sess = t
    <3>1. t # s /\ ni'[t] = ni[t] /\ ni[t].raw \in Requests
      BY <1>6, <2>2, OwnFields
    <3>2. waiter[ni[t].raw].pc \in InSession /\ waiter[ni[t].raw].sess = t
      BY <2>2, <3>1 DEF Own, Paired
    <3>3. ni[t].raw # r
      BY <3>1, <3>2 DEF s
    <3> QED
      BY <1>4, <3>1, <3>2, <3>3
  <2> QED
    BY <2>1, <2>2 DEF Paired
<1>10. Taking'
  <2> SUFFICES ASSUME NEW w \in Requests, waiter'[w].pc = "takes"
               PROVE  /\ tLock'[waiter'[w].sess] = w /\ ~ni'[waiter'[w].sess].recvd
                      /\ ni'[waiter'[w].sess].resp \in Answers =>
                           said'[w] = ni'[waiter'[w].sess].resp
    BY DEF Taking
  <2>1. w # r /\ waiter'[w] = waiter[w] /\ waiter[w].sess \in Sess
    BY <1>4, OwnFields
  <2>2. waiter[w].sess # s
    BY <1>7, <2>1 DEF InSession
  <2>3. tLock'[waiter[w].sess] = tLock[waiter[w].sess]
    BY <1>1, <2>1, <2>2 DEF Inv, TypeOK
  <2> QED
    BY <1>1, <1>6, <2>1, <2>2, <2>3 DEF Own, Taking
<1>11. Received'
  BY <1>1, <1>3, <1>6 DEF Own, Received
<1>12. Named'
  <2> SUFFICES ASSUME NEW t \in Sess, ni'[t].reqID # NoRequest
               PROVE  waiter'[ni'[t].reqID].pc \notin {"none", "done"} /\ waiter'[ni'[t].reqID].sess = t
    BY DEF Named
  <2>1. ni'[t].reqID = ni[t].reqID /\ ni[t].reqID \in Requests
    BY <1>6, OwnFields
  <2>2. waiter[ni[t].reqID].pc \notin {"none", "done"} /\ waiter[ni[t].reqID].sess = t
    BY <2>1 DEF Own, Named
  <2> QED
    BY <1>4, <1>5, <2>1, <2>2
<1>13. Asked'
  <2>1. user.req \in Requests \cup {NoRequest}
    BY DEF Inv, TypeOK, UserType, MayBe
  <2>2. \A w \in Requests : waiter'[w].pc \notin {"none", "done"} \/ waiter'[w] = waiter[w]
    BY <1>4
  <2>3. waiter[r].pc \notin {"none", "done"}
    BY <1>1
  <2> QED
    BY <1>1, <1>4, <1>5, <2>1, <2>2, <2>3 DEF Own, Asked
<1>14. Sending'
  <2> SUFFICES ASSUME NEW w \in Requests, waiter'[w].pc = "sends", waiter'[w].resp \in Answers
               PROVE  waiter'[w].req # NoRequest /\ said'[waiter'[w].req] = waiter'[w].resp
    BY DEF Sending
  <2>1. CASE w = r
    BY <1>1, <1>2, <1>3, <1>4, <2>1
  <2>2. CASE w # r
    BY <1>1, <1>4, <2>2 DEF Own, Sending
  <2> QED
    BY <2>1, <2>2
<1> QED
  BY <1>8, <1>9, <1>10, <1>11, <1>12, <1>13, <1>14 DEF Own

\* It sends its message and leaves; another one never finds its session empty.
LEMMA OwnLeaves ==
  ASSUME Inv, Own, NEW r \in Requests, WaiterUnlocks(r) \/ WaiterLeaves(r)
  PROVE  Own'
<1> DEFINE s == waiter[r].sess
           m == Response(waiter[r].req, waiter[r].resp)
<1>0. ~WaiterUnlocks(r)
  BY DEF WaiterUnlocks, Own, Calm
<1>1. /\ waiter[r].pc \in {"leaves", "sends"} /\ s \in Sess
      /\ ni' = [ni EXCEPT ![s].reqID = NoRequest]
      /\ queue' = IF waiter[r].pc = "sends" THEN Append(queue, m) ELSE queue
      /\ waiter' = [waiter EXCEPT ![r] = [NoWaiter EXCEPT !.pc = "done"]]
      /\ UNCHANGED <<rpc, tLock, user, said>>
  BY <1>0, OwnFields DEF WaiterLeaves
<1>2. m \in Msgs /\ m.type = "ANSWER" /\ m.req = waiter[r].req /\ m.resp = waiter[r].resp
  BY OwnFields DEF Response, Msgs, WaiterType
<1>3. waiter'[r].pc = "done" /\ \A w \in Requests \ {r} : waiter'[w] = waiter[w]
  BY <1>1 DEF Inv, TypeOK, NoWaiter
<1> HIDE DEF s
<1>4. /\ ni'[s].reqID = NoRequest
      /\ \A t \in Sess : ni'[t].raw = ni[t].raw /\ ni'[t].recvd = ni[t].recvd /\ ni'[t].resp = ni[t].resp
      /\ \A t \in Sess \ {s} : ni'[t] = ni[t]
  BY <1>1, OwnFields DEF Inv, TypeOK, NiType
<1>5. Honest(queue)'
  <2>1. CASE waiter[r].pc = "sends"
    <3>1. m.type # "DOWN" /\ (m.resp \in Answers => m.req # NoRequest /\ said[m.req] = m.resp)
      BY <1>2, <2>1 DEF Own, Sending
    <3>2. Honest(Append(queue, m))
      BY <1>2, <3>1, HonestQueues DEF Own, Inv
    <3> QED
      BY <1>1, <2>1, <3>2 DEF Honest
  <2>2. CASE waiter[r].pc # "sends"
    BY <1>1, <2>2 DEF Own, Honest
  <2> QED
    BY <2>1, <2>2
<1> HIDE DEF m
<1>6. Calm' /\ Sending'
  BY <1>1, <1>3 DEF Own, Calm, Sending
<1>7. Paired'
  <2>1. \A w \in Requests : waiter'[w].pc \in InSession => ni'[waiter'[w].sess].raw = w
    BY <1>3, <1>4, OwnFields DEF Own, Paired, InSession
  <2>2. ASSUME NEW t \in Sess, ni'[t].raw # NoRequest
        PROVE  waiter'[ni'[t].raw].pc \in InSession /\ waiter'[ni'[t].raw].sess = t
    <3>1. ni'[t].raw = ni[t].raw /\ ni[t].raw \in Requests
      BY <1>4, <2>2, OwnFields
    <3>2. waiter[ni[t].raw].pc \in InSession /\ waiter[ni[t].raw].sess = t
      BY <2>2, <3>1 DEF Own, Paired
    <3> QED
      BY <1>1, <1>3, <3>1, <3>2 DEF InSession
  <2> QED
    BY <2>1, <2>2 DEF Paired
<1>8. Taking' /\ Received'
  <2>1. Taking'
    BY <1>1, <1>3, <1>4, OwnFields DEF Own, Taking
  <2>2. Received'
    BY <1>1, <1>4 DEF Own, Received
  <2> QED
    BY <2>1, <2>2
<1>9. Named'
  <2> SUFFICES ASSUME NEW t \in Sess, ni'[t].reqID # NoRequest
               PROVE  waiter'[ni'[t].reqID].pc \notin {"none", "done"} /\ waiter'[ni'[t].reqID].sess = t
    BY DEF Named
  <2>1. t # s /\ ni'[t].reqID = ni[t].reqID /\ ni[t].reqID \in Requests
    BY <1>4, OwnFields
  <2>2. waiter[ni[t].reqID].pc \notin {"none", "done"} /\ waiter[ni[t].reqID].sess = t
    BY <2>1 DEF Own, Named
  <2>3. ni[t].reqID # r
    BY <2>1, <2>2 DEF s
  <2> QED
    BY <1>3, <2>1, <2>2, <2>3
<1>10. Asked'
  <2>1. user.req \in Requests \cup {NoRequest}
    BY DEF Inv, TypeOK, UserType, MayBe
  <2> QED
    BY <1>1, <1>3, <2>1 DEF Own, Asked
<1> QED
  BY <1>5, <1>6, <1>7, <1>8, <1>9, <1>10 DEF Own

\* The user answers a request: the answer belongs to the session that was found.
LEMMA OwnRespond ==
  ASSUME Inv, Own, NEW r \in Requests, NEW a \in Answers, Respond(r, a)
  PROVE  Own'
<1>1. /\ said[r] = "NONE" /\ said' = [said EXCEPT ![r] = a]
      /\ UNCHANGED <<queue, rpc, ni, tLock, waiter>>
  BY DEF Respond
<1>2. "NONE" \notin Answers
  BY DEF Answers
<1>3. said'[r] = a /\ \A w : w # r => said'[w] = said[w]
  BY <1>1 DEF Inv, TypeOK
<1>4. \A w : said[w] \in Answers => said'[w] = said[w]
  BY <1>1, <1>2, <1>3
<1>5. Honest(queue)' /\ Sending'
  BY <1>1, <1>4 DEF Own, Honest, Sending
<1>6. Taking' /\ Received'
  BY <1>1, <1>4 DEF Own, Taking, Received
<1>7. Calm' /\ Paired' /\ Named'
  BY <1>1 DEF Own, Calm, Paired, Named
<1>8. Asked'
  <2>1. r # NoRequest
    BY OwnFields
  <2>2. ASSUME NEW s \in Sess, Active(s, r)
        PROVE  waiter[r].pc # "none" /\ waiter[r].sess = s
    BY <2>1, <2>2 DEF Active, Own, Named
  <2>3. CASE user' = user
    <3>1. user.pc = "idle"
      BY DEF Respond
    <3> QED
      BY <2>3, <3>1 DEF Asked
  <2>4. CASE user' # user
    <3>1. user'.req = r /\ user'.resp = a /\ user'.sess \in Sess /\ Active(user'.sess, r)
      BY <2>4 DEF Respond, Sess
    <3> QED
      BY <1>1, <1>3, <2>1, <2>2, <3>1 DEF Asked
  <2> QED
    BY <2>3, <2>4
<1> QED
  BY <1>5, <1>6, <1>7, <1>8 DEF Own

\* An answer reaches a session under its lock, while the waiter of its request
\* still waits.
LEMMA OwnUser ==
  ASSUME Inv, Own, User, ~late'
  PROVE  Own'
<1>1. PICK s \in Sess, resp \in Resp :
        /\ tLock[s] = NoRequest
        /\ ni' = [ni EXCEPT ![s].resp = resp, ![s].recvd = TRUE]
        /\ resp \in Answers => ni[s].raw # NoRequest /\ said[ni[s].raw] = resp
  <2>1. CASE UserIgnores
    <3>1. "ni" \in Sess /\ "IGNORE" \in Resp /\ "IGNORE" \notin Answers
      BY DEF Sess, Resp, Answers
    <3> QED
      BY <2>1, <3>1 DEF UserIgnores
  <2>2. CASE UserSets
    <3>1. user.sess \in Sess /\ user.resp \in Resp /\ user.req \in Requests \cup {NoRequest}
      BY DEF Inv, TypeOK, UserType, Resp, MayBe
    <3>2. waiter[user.req].pc = "waits" /\ user.pc = "sets"
      BY <2>2 DEF UserSets, Inv, TypeOK
    <3>3. user.req \in Requests /\ said[user.req] = user.resp /\ waiter[user.req].sess = user.sess
      BY <3>1, <3>2 DEF Own, Asked
    <3>4. ni[user.sess].raw = user.req
      BY <3>2, <3>3 DEF Own, Paired, InSession
    <3>5. user.req # NoRequest
      BY <3>3, OwnFields
    <3>6. tLock[user.sess] = NoRequest
          /\ ni' = [ni EXCEPT ![user.sess].resp = user.resp, ![user.sess].recvd = TRUE]
      BY <2>2 DEF UserSets
    <3> QED
      BY <3>1, <3>3, <3>4, <3>5, <3>6
  <2> QED
    BY <2>1, <2>2 DEF User
<1>2. UNCHANGED <<queue, rpc, tLock, waiter, said>>
  BY DEF User, UserIgnores, UserSets
<1>3. \/ user'.pc = "idle"
      \/ user.pc = "ignores" /\ user' = [user EXCEPT !.pc = "sets"]
  BY DEF User, UserIgnores, UserSets, NoAnswer
<1>4. /\ \A t \in Sess : ni'[t].raw = ni[t].raw /\ ni'[t].reqID = ni[t].reqID
      /\ \A t \in Sess \ {s} : ni'[t] = ni[t]
      /\ ni'[s].resp = resp
  BY <1>1, OwnFields DEF Inv, TypeOK, NiType
<1>5. Honest(queue)' /\ Sending' /\ Calm'
  BY <1>2 DEF Own, Honest, Sending, Calm
<1>6. Paired' /\ Named'
  BY <1>2, <1>4, OwnFields DEF Own, Paired, Named
<1>7. Taking'
  <2> SUFFICES ASSUME NEW w \in Requests, waiter[w].pc = "takes"
               PROVE  /\ tLock[waiter[w].sess] = w /\ ~ni'[waiter[w].sess].recvd
                      /\ ni'[waiter[w].sess].resp \in Answers => said[w] = ni'[waiter[w].sess].resp
    BY <1>2 DEF Taking
  <2>1. waiter[w].sess \in Sess /\ w # NoRequest
    BY OwnFields
  <2>2. waiter[w].sess # s
    BY <1>1, <2>1 DEF Own, Taking
  <2> QED
    BY <1>4, <2>1, <2>2 DEF Own, Taking
<1>8. Received'
  <2> SUFFICES ASSUME NEW t \in Sess, ni'[t].recvd, ni'[t].resp \in Answers
               PROVE  ni[t].raw # NoRequest /\ said[ni[t].raw] = ni'[t].resp
    BY <1>2, <1>4 DEF Received
  <2>1. CASE t = s
    BY <1>1, <1>4, <2>1
  <2>2. CASE t # s
    BY <1>4, <2>2 DEF Own, Received
  <2> QED
    BY <2>1, <2>2
<1>9. Asked'
  <2>1. CASE user'.pc = "idle"
    BY <2>1 DEF Asked
  <2>2. CASE user.pc = "ignores" /\ user' = [user EXCEPT !.pc = "sets"]
    <3>1. user'.req = user.req /\ user'.resp = user.resp /\ user'.sess = user.sess
      BY <2>2 DEF Inv, TypeOK, UserType
    <3> QED
      BY <1>2, <2>2, <3>1 DEF Own, Asked
  <2> QED
    BY <1>3, <2>1, <2>2
<1> QED
  BY <1>5, <1>6, <1>7, <1>8, <1>9 DEF Own

LEMMA OwnStep == ASSUME Inv, OwnInv, [Next]_vars PROVE OwnInv'
<1> SUFFICES ASSUME Timely' PROVE Own'
  BY DEF OwnInv
<1>0. Timely /\ Own
  BY StaysLate DEF OwnInv
<1>1. CASE Handle
  <2>1. queue # <<>> /\ Honest(queue)
    BY <1>0, <1>1 DEF Handle, Own
  <2>2. Honest(Tail(queue)) /\ Head(queue).type # "DOWN"
    BY <2>1, HonestQueues DEF Inv
  <2>3. CASE Head(queue).type = "NI" /\ HandleRequest(Head(queue).req, Head(queue).sess)
    BY <1>0, <2>1, <2>3, OwnRequest
  <2>4. CASE HandleAnswer(Head(queue).req)
    BY <1>0, <2>2, <2>4, OwnKeep DEF HandleAnswer
  <2> QED
    BY <1>1, <2>2, <2>3, <2>4 DEF Handle
<1>2. CASE Reset
  BY <1>0, <1>2 DEF Reset, ResetCheck, ResetClear, ResetWake, Own, Calm
<1>3. ASSUME NEW r \in Requests, Waiter(r) PROVE Own'
  BY <1>0, <1>3, OwnEnds, OwnTakes, OwnLeaves DEF Waiter
<1>4. ASSUME NEW r \in Requests, NEW a \in Answers, Respond(r, a) PROVE Own'
  BY <1>0, <1>4, OwnRespond
<1>5. CASE User
  BY <1>0, <1>5, OwnUser DEF Timely
<1>6. ASSUME NEW s \in Sess, ModemRequests(s) PROVE Own'
  <2> DEFINE m == Request(modem.made + 1, s)
  <2>1. m \in Msgs /\ m.type = "NI"
    <3>1. modem.made + 1 \in Requests
      BY <1>6, NiAssumption DEF ModemRequests, Requests, Inv, TypeOK
    <3> QED
      BY <3>1 DEF Request, Msgs
  <2>2. queue' = Append(queue, m) /\ UNCHANGED <<rpc, ni, tLock, waiter, user, said>>
    BY <1>6 DEF ModemRequests, Send
  <2> HIDE DEF m
  <2>3. Honest(Append(queue, m))
    BY <1>0, <2>1, HonestQueues DEF Own, Inv
  <2> QED
    BY <1>0, <2>2, <2>3, OwnKeep
<1>7. CASE ModemCrashes
  <2>1. modem'.crashes = modem.crashes + 1
    BY <1>7 DEF ModemCrashes, Inv, TypeOK
  <2> QED
    BY <1>0, <2>1 DEF Timely
<1>8. CASE ModemRecovers \/ UNCHANGED vars
  <2>1. UNCHANGED <<queue, rpc, ni, tLock, waiter, user, said>>
    BY <1>8 DEF ModemRecovers, vars
  <2> QED
    BY <1>0, <2>1, OwnKeep DEF Own
<1> QED
  BY <1>1, <1>2, <1>3, <1>4, <1>5, <1>6, <1>7, <1>8 DEF Next

\* What the modem is told is what the user said to this very request, for any
\* number of requests that share the two sessions, as long as it has not restarted
\* and no answer came late (loc_eng_ni_respond, ni_thread_proc).
THEOREM AnswerCorrect == Spec => []AnswerIsOwnIfTimely
<1>1. OwnInv => AnswerIsOwnIfTimely
  BY DEF OwnInv, Timely, Own, Honest, AnswerIsOwnIfTimely
<1>2. Inv /\ OwnInv /\ [Next]_vars => OwnInv'
  BY OwnStep
<1> QED
  BY <1>1, <1>2, OwnInit, InvAlways, PTL DEF Spec
=============================================================================
