---------------------------- MODULE GpsEngine_proofs ----------------------------
(***************************************************************************)
(* Proofs about the gps engine and the message thread it runs on: the      *)
(* connection manager AgpsStateMachine, for any set of clients and any     *)
(* number of subscriptions and modem restarts; the location engine         *)
(* LocEngine, for any kinds of aiding data and any number of waiting       *)
(* messages and restarts; and the message task MsgTask, for any messages:  *)
(* that nothing is used after it is deleted, and that messages are handled *)
(* once and in order.                                                      *)
(***************************************************************************)
EXTENDS AgpsStateMachine, LocEngine, MsgTask, TLAPS
-----------------------------------------------------------------------------
(* AgpsStateMachine. *)

\* What the two kinds of connection keep: subscribers of agnss_nif do not wait
\* for it to close, wifi_nif has one subscriber, and a client that waits for the
\* connection to close is an inactive subscriber.
Kinds ==
  /\ kind = "atl" => inactive = {} /\ state # "releasing"
  /\ kind = "wifi" => restarts = 0 /\ \A c, d \in subs : c = d
  /\ \A c \in Clients : client[c] = "closing" <=> c \in inactive

\* A granted connection that is not up any more is followed by a release.
LossFollows ==
  \A i \in DOMAIN answers : answers[i] = "granted" =>
    nif = "open" \/ \E j \in DOMAIN answers : j > i /\ answers[j] = "released"

ListInv == TypeOK /\ SubscribersMatch /\ ClientsTold /\ Kinds

\* When clients wait for answers, the request that is under way is the last thing
\* the service was asked, and one answer to it at most is on its way.
NoAnswer == \A i \in DOMAIN answers : answers[i] = "released"
OneAnswer ==
  \E i \in DOMAIN answers : \A j \in DOMAIN answers : answers[j] = "released" <=> j # i
OnlyReleases == \A i \in DOMAIN reqs : reqs[i] = "release"

InOrder ==
  patient =>
    /\ state # "pending" => OnlyReleases /\ nif # "opening" /\ NoAnswer
    /\ state = "acquired" => reqs = <<>>
    /\ state = "pending" =>
         \/ /\ NoAnswer /\ nif # "opening" /\ reqs # <<>>
            /\ \A i \in DOMAIN reqs : reqs[i] = "request" <=> i = Len(reqs)
         \/ reqs = <<>> /\ NoAnswer /\ nif = "opening"
         \/ reqs = <<>> /\ OneAnswer /\ nif # "opening"
-----------------------------------------------------------------------------
\* Before anybody subscribes.
LEMMA InitList == Init => ListInv /\ LossFollows /\ InOrder
BY AgpsAssumption DEF Init, ListInv, TypeOK, SubscribersMatch, ClientsTold, Kinds, Active,
     LossFollows, InOrder, NoAnswer, OnlyReleases

\* What a queue holds after another element is appended.
LEMMA AppendTypes ==
  ASSUME NEW S, NEW q \in Seq(S), NEW a \in S
  PROVE  /\ Append(q, a) \in Seq(S) /\ Len(Append(q, a)) = Len(q) + 1
         /\ DOMAIN Append(q, a) = 1..Len(q) + 1
         /\ \A i \in DOMAIN q : Append(q, a)[i] = q[i]
         /\ Append(q, a)[Len(q) + 1] = a
OBVIOUS

\* What it holds after its head is taken.
LEMMA TailTypes ==
  ASSUME NEW S, NEW q \in Seq(S), q # <<>>
  PROVE  /\ Tail(q) \in Seq(S) /\ Len(Tail(q)) = Len(q) - 1 /\ Head(q) = q[1]
         /\ DOMAIN Tail(q) = 1..Len(q) - 1
         /\ \A i \in DOMAIN Tail(q) : Tail(q)[i] = q[i + 1]
OBVIOUS

LEMMA AnswerTypes ==
  ASSUME TypeOK, NEW a \in {"granted", "released", "denied"}
  PROVE  Append(answers, a) \in Seq({"granted", "released", "denied"})
<1> DEFINE A == {"granted", "released", "denied"}
<1>1. answers \in Seq(A)
  BY DEF TypeOK
<1> QED
  BY <1>1, AppendTypes

\* The subscriber list and what clients were told survive every step.
LEMMA ListStep == ListInv /\ [Next]_vars => ListInv'
<1> SUFFICES ASSUME ListInv, [Next]_vars PROVE ListInv'
  OBVIOUS
<1> USE AgpsAssumption DEF ListInv, TypeOK, SubscribersMatch, ClientsTold, Kinds, Active
<1>1. ASSUME NEW c \in Clients, DenySecond(c) PROVE ListInv'
  BY <1>1 DEF DenySecond, smVars, svcVars
<1>2. ASSUME NEW c \in Clients, Subscribe(c) PROVE ListInv'
  <2> USE <1>2 DEF Subscribe, SingleSubscriber, Asks, SendRsrcRequest
  <2>0. reqs' \in {reqs, Append(reqs, "request")}
    OBVIOUS
  <2>1. reqs' \in Seq({"request", "release"})
    BY <2>0, AppendTypes
  <2>2. TypeOK'
    BY <2>1
  <2>3. c \in Active'
    OBVIOUS
  <2>4. SubscribersMatch'
    BY <2>3
  <2>5. ClientsTold'
    OBVIOUS
  <2>6. Kinds'
    OBVIOUS
  <2> QED
    BY <2>2, <2>4, <2>5, <2>6
<1>3. ASSUME NEW c \in Clients, Unsubscribe(c) PROVE ListInv'
  <2> USE <1>3 DEF Unsubscribe, WaitForClose, NotifyAndDelete, AfterUnsubscribe, SendRsrcRequest
  <2>1. reqs' \in Seq({"request", "release"})
    OBVIOUS
  <2>2. TypeOK'
    BY <2>1
  <2>3. SubscribersMatch'
    OBVIOUS
  <2>4. ClientsTold'
    OBVIOUS
  <2>5. Kinds'
    OBVIOUS
  <2> QED
    BY <2>2, <2>3, <2>4, <2>5
<1>4. CASE Granted
  BY <1>4 DEF Granted
<1>5. CASE ReleasedOrDenied
  BY <1>5 DEF ReleasedOrDenied, Closed, Lost, LosesIn, NotifyAndDelete, SendRsrcRequest, smVars
<1>6. CASE EngineUp
  BY <1>6 DEF EngineUp, svcVars
<1>7. CASE Serve
  <2>0. answers' \in {answers, Append(answers, "granted"), Append(answers, "released")}
    BY <1>7 DEF Serve
  <2>1. answers' \in Seq({"granted", "released", "denied"})
    BY <2>0, AnswerTypes
  <2>2. reqs' \in Seq({"request", "release"})
    BY <1>7 DEF Serve
  <2> QED
    BY <1>7, <2>1, <2>2 DEF Serve, smVars
<1>8. CASE Open \/ Lose
  <2>0. PICK a \in {"granted", "released", "denied"} : answers' = Append(answers, a)
    BY <1>8 DEF Open, Lose
  <2>1. answers' \in Seq({"granted", "released", "denied"})
    BY <2>0, AnswerTypes
  <2> QED
    BY <1>8, <2>1 DEF Open, Lose, smVars
<1>9. CASE Quiet \/ UNCHANGED vars
  BY <1>9 DEF Quiet, vars, smVars, svcVars
<1> QED
  BY <1>1, <1>2, <1>3, <1>4, <1>5, <1>6, <1>7, <1>8, <1>9 DEF Next, Engine

\* The order of the answers and of the news that a connection is gone survives.
LEMMA LossStep == ListInv /\ LossFollows /\ [Next]_vars => LossFollows'
<1> SUFFICES ASSUME ListInv, LossFollows, [Next]_vars PROVE LossFollows'
  OBVIOUS
<1> DEFINE A == {"granted", "released", "denied"}
<1>0. answers \in Seq(A)
  BY DEF ListInv, TypeOK
<1>1. ASSUME UNCHANGED <<answers, nif>> PROVE LossFollows'
  BY <1>1 DEF LossFollows
<1>2. ASSUME answers # <<>>, answers' = Tail(answers), nif' = nif PROVE LossFollows'
  <2> SUFFICES ASSUME NEW i \in DOMAIN answers', answers'[i] = "granted", nif # "open"
               PROVE  \E j \in DOMAIN answers' : j > i /\ answers'[j] = "released"
    BY <1>2 DEF LossFollows
  <2>1. i + 1 \in DOMAIN answers /\ answers[i + 1] = "granted"
    BY <1>0, <1>2, TailTypes
  <2>2. PICK j \in DOMAIN answers : j > i + 1 /\ answers[j] = "released"
    BY <2>1 DEF LossFollows
  <2>3. j - 1 \in DOMAIN answers' /\ answers'[j - 1] = answers[j] /\ j - 1 > i
    BY <1>0, <1>2, <2>1, <2>2, TailTypes
  <2> QED
    BY <2>2, <2>3
<1>3. ASSUME NEW a \in A, answers' = Append(answers, a),
             a = "released" \/ (nif' = "open" /\ nif # "closed") \/ (a = "denied" /\ nif # "open")
      PROVE  LossFollows'
  <2> SUFFICES ASSUME NEW i \in DOMAIN answers', answers'[i] = "granted", nif' # "open"
               PROVE  \E j \in DOMAIN answers' : j > i /\ answers'[j] = "released"
    BY <1>3 DEF LossFollows
  <2>1. i \in DOMAIN answers /\ answers[i] = "granted"
    BY <1>0, <1>3, AppendTypes
  <2>2. CASE a = "released"
    BY <1>0, <1>3, <2>1, <2>2, AppendTypes
  <2>3. CASE a # "released"
    <3>1. PICK j \in DOMAIN answers : j > i /\ answers[j] = "released"
      BY <1>3, <2>1, <2>3 DEF LossFollows
    <3> QED
      BY <1>0, <1>3, <3>1, AppendTypes
  <2> QED
    BY <2>2, <2>3
<1>4. ASSUME NEW c \in Clients, DenySecond(c) \/ Subscribe(c) \/ Unsubscribe(c) PROVE LossFollows'
  BY <1>1, <1>4 DEF DenySecond, Subscribe, Unsubscribe, svcVars
<1>5. CASE Granted \/ ReleasedOrDenied
  BY <1>2, <1>5 DEF Granted, ReleasedOrDenied
<1>6. CASE EngineUp \/ Quiet \/ UNCHANGED vars
  BY <1>1, <1>6 DEF EngineUp, Quiet, vars, svcVars
<1>7. CASE Serve
  <2>1. CASE Head(reqs) = "request" /\ nif = "closed"
    BY <1>7, <2>1 DEF Serve, LossFollows
  <2>2. CASE Head(reqs) = "request" /\ nif = "opening"
    BY <1>1, <1>7, <2>2 DEF Serve
  <2>3. CASE Head(reqs) = "request" /\ nif = "open"
    BY <1>3, <1>7, <2>3 DEF Serve
  <2>4. CASE Head(reqs) # "request" /\ nif = "closed"
    BY <1>1, <1>7, <2>4 DEF Serve
  <2>5. CASE Head(reqs) # "request" /\ nif # "closed"
    BY <1>3, <1>7, <2>5 DEF Serve
  <2> QED
    BY <2>1, <2>2, <2>3, <2>4, <2>5 DEF ListInv, TypeOK
<1>8. CASE Open
  BY <1>3, <1>8 DEF Open
<1>9. CASE Lose
  BY <1>3, <1>9 DEF Lose
<1> QED
  BY <1>4, <1>5, <1>6, <1>7, <1>8, <1>9 DEF Next, Engine

\* How the number of answers on their way changes with the queue.
LEMMA TakeAnswer ==
  ASSUME TypeOK, answers # <<>>, answers' = Tail(answers)
  PROVE  /\ NoAnswer => NoAnswer' /\ Head(answers) = "released"
         /\ OneAnswer /\ Head(answers) # "released" => NoAnswer'
         /\ OneAnswer /\ Head(answers) = "released" => OneAnswer'
<1> DEFINE A == {"granted", "released", "denied"}
<1>0. answers \in Seq(A)
  BY DEF TypeOK
<1>1. NoAnswer => NoAnswer' /\ Head(answers) = "released"
  BY <1>0, TailTypes DEF NoAnswer
<1>2. ASSUME OneAnswer, Head(answers) # "released" PROVE NoAnswer'
  BY <1>0, <1>2, TailTypes DEF NoAnswer, OneAnswer
<1>3. ASSUME OneAnswer, Head(answers) = "released" PROVE OneAnswer'
  <2>1. PICK i \in DOMAIN answers : \A j \in DOMAIN answers : answers[j] = "released" <=> j # i
    BY <1>3 DEF OneAnswer
  <2>2. i # 1 /\ i - 1 \in DOMAIN answers'
    BY <1>0, <1>3, <2>1, TailTypes
  <2>3. \A j \in DOMAIN answers' : answers'[j] = "released" <=> j # i - 1
    BY <1>0, <2>1, <2>2, TailTypes
  <2> QED
    BY <2>2, <2>3 DEF OneAnswer
<1> QED
  BY <1>1, <1>2, <1>3

LEMMA AddAnswer ==
  ASSUME TypeOK, NEW a \in {"granted", "released", "denied"}, answers' = Append(answers, a)
  PROVE  /\ NoAnswer /\ a = "released" => NoAnswer'
         /\ OneAnswer /\ a = "released" => OneAnswer'
         /\ NoAnswer /\ a # "released" => OneAnswer'
<1> DEFINE A == {"granted", "released", "denied"}
<1>0. answers \in Seq(A) /\ Len(answers) \in Nat /\ DOMAIN answers = 1..Len(answers)
  BY DEF TypeOK
<1>1. /\ DOMAIN answers' = 1..Len(answers) + 1 /\ answers'[Len(answers) + 1] = a
      /\ \A i \in DOMAIN answers : answers'[i] = answers[i]
  BY <1>0, AppendTypes
<1>2. NoAnswer /\ a = "released" => NoAnswer'
  BY <1>0, <1>1 DEF NoAnswer
<1>3. ASSUME OneAnswer, a = "released" PROVE OneAnswer'
  <2>1. PICK i \in DOMAIN answers : \A j \in DOMAIN answers : answers[j] = "released" <=> j # i
    BY <1>3 DEF OneAnswer
  <2>2. i \in DOMAIN answers' /\ \A j \in DOMAIN answers' : answers'[j] = "released" <=> j # i
    BY <1>0, <1>1, <1>3, <2>1
  <2> QED
    BY <2>2 DEF OneAnswer
<1>4. ASSUME NoAnswer, a # "released" PROVE OneAnswer'
  <2>1. \A j \in DOMAIN answers' : answers'[j] = "released" <=> j # Len(answers) + 1
    BY <1>0, <1>1, <1>4 DEF NoAnswer
  <2> QED
    BY <1>0, <1>1, <2>1 DEF OneAnswer
<1> QED
  BY <1>2, <1>3, <1>4

\* The requests and answers of patient clients keep their order.
LEMMA OrderStep == ListInv /\ InOrder /\ [Next]_vars => InOrder'
<1> SUFFICES ASSUME ListInv, InOrder, [Next]_vars, patient, patient' PROVE InOrder'
  BY DEF InOrder, Next, vars, Engine, DenySecond, Subscribe, Unsubscribe, Granted,
         ReleasedOrDenied, EngineUp, Serve, Open, Lose, Quiet
<1> DEFINE R == {"request", "release"}
<1>0. TypeOK /\ reqs \in Seq(R) /\ Len(reqs) \in Nat /\ DOMAIN reqs = 1..Len(reqs)
  BY DEF ListInv, TypeOK
<1>1. ASSUME UNCHANGED <<state, reqs, answers, nif>> PROVE InOrder'
  BY <1>1 DEF InOrder, OnlyReleases, NoAnswer, OneAnswer
<1>2. ASSUME NEW c \in Clients, DenySecond(c) PROVE InOrder'
  BY <1>1, <1>2 DEF DenySecond, smVars, svcVars
<1>3. ASSUME NEW c \in Clients, Subscribe(c) PROVE InOrder'
  <2>1. CASE state # "released"
    BY <1>1, <1>3, <2>1 DEF Subscribe, Asks
  <2>2. CASE state = "released"
    <3>1. c \in subs' /\ c \notin inactive
      BY <1>3 DEF Subscribe, ListInv, ClientsTold, TypeOK
    <3>2. reqs' = Append(reqs, "request") /\ state' = "pending" /\ UNCHANGED <<answers, nif>>
      BY <1>3, <2>2, <3>1 DEF Subscribe, Asks, SendRsrcRequest
    <3>3. OnlyReleases /\ nif # "opening" /\ NoAnswer
      BY <2>2 DEF InOrder
    <3>4. Len(reqs') = Len(reqs) + 1 /\ reqs' # <<>>
      BY <1>0, <3>2, AppendTypes
    <3>5. \A i \in DOMAIN reqs' : reqs'[i] = "request" <=> i = Len(reqs')
      BY <1>0, <3>2, <3>3, <3>4, AppendTypes DEF OnlyReleases
    <3> QED
      BY <3>2, <3>3, <3>4, <3>5 DEF InOrder, NoAnswer
  <2> QED
    BY <2>1, <2>2
<1>4. ASSUME NEW c \in Clients, Unsubscribe(c) PROVE InOrder'
  <2>1. state = "acquired" /\ reqs = <<>> /\ nif # "opening" /\ NoAnswer
    BY <1>4 DEF Unsubscribe, ListInv, ClientsTold, InOrder
  <2>2. UNCHANGED <<answers, nif>> /\ state' # "pending"
    BY <1>4, <2>1 DEF Unsubscribe, AfterUnsubscribe
  <2>3. /\ reqs' = <<>> \/ reqs' = Append(<<>>, "release")
        /\ state' = "acquired" => reqs' = <<>>
    BY <1>4, <2>1 DEF Unsubscribe, AfterUnsubscribe, SendRsrcRequest
  <2>4. OnlyReleases'
    BY <2>3 DEF OnlyReleases
  <2> QED
    BY <2>1, <2>2, <2>3, <2>4 DEF InOrder, NoAnswer
<1>5. CASE Granted
  <2>1. state = "pending" /\ reqs = <<>> /\ OneAnswer /\ nif # "opening"
    BY <1>0, <1>5, TakeAnswer DEF Granted, InOrder
  <2>2. NoAnswer'
    BY <1>0, <1>5, <2>1, TakeAnswer DEF Granted
  <2> QED
    BY <1>5, <2>1, <2>2 DEF Granted, InOrder, OnlyReleases
<1>6. CASE ReleasedOrDenied
  <2>1. CASE state = "pending" /\ Head(answers) = "denied"
    <3>1. reqs = <<>> /\ OneAnswer /\ nif # "opening"
      BY <1>0, <1>6, <2>1, TakeAnswer DEF ReleasedOrDenied, InOrder
    <3>2. NoAnswer'
      BY <1>0, <1>6, <2>1, <3>1, TakeAnswer DEF ReleasedOrDenied
    <3> QED
      BY <1>6, <2>1, <3>1, <3>2 DEF ReleasedOrDenied, Lost, LosesIn, InOrder, OnlyReleases
  <2>2. CASE state = "pending" /\ Head(answers) = "released"
    <3>1. UNCHANGED <<state, reqs, nif>>
      BY <1>6, <2>2 DEF ReleasedOrDenied, LosesIn, smVars
    <3>2. (NoAnswer => NoAnswer') /\ (OneAnswer => OneAnswer')
      BY <1>0, <1>6, <2>2, TakeAnswer DEF ReleasedOrDenied
    <3> QED
      BY <2>2, <3>1, <3>2 DEF InOrder, OnlyReleases
  <2>3. CASE state # "pending"
    <3>1. OnlyReleases /\ nif # "opening" /\ NoAnswer' /\ Head(answers) = "released"
      BY <1>0, <1>6, <2>3, TakeAnswer DEF ReleasedOrDenied, InOrder
    <3>2. CASE state = "releasing"
      <4>1. subs' = {} /\ state' = "released" /\ UNCHANGED <<reqs, nif>>
        BY <1>6, <3>2 DEF ReleasedOrDenied, Closed, NotifyAndDelete, ListInv, SubscribersMatch, Active
      <4> QED
        BY <3>1, <4>1 DEF InOrder, OnlyReleases
    <3>3. CASE state # "releasing"
      <4>1. UNCHANGED <<reqs, nif>> /\ state' = "released"
        BY <1>0, <1>6, <2>3, <3>1, <3>3 DEF ReleasedOrDenied, Lost, LosesIn, smVars, TypeOK
      <4> QED
        BY <3>1, <4>1 DEF InOrder, OnlyReleases
    <3> QED
      BY <3>2, <3>3
  <2> QED
    BY <1>6, <2>1, <2>2, <2>3 DEF ReleasedOrDenied
<1>7. CASE Serve
  <2>0. reqs # <<>> /\ reqs' = Tail(reqs) /\ state' = state /\ Head(reqs) = reqs[1]
    BY <1>0, <1>7, TailTypes DEF Serve, smVars
  <2>1. Len(reqs) >= 1 /\ Len(reqs') = Len(reqs) - 1 /\ DOMAIN reqs' = 1..Len(reqs) - 1
        /\ \A i \in DOMAIN reqs' : reqs'[i] = reqs[i + 1]
    BY <1>0, <2>0, TailTypes
  <2>2. CASE Head(reqs) = "release"
    <3>1. nif' = "closed"
      BY <1>7, <2>2 DEF Serve
    <3>2. NoAnswer
      BY <1>0, <2>0 DEF InOrder
    <3>3. NoAnswer'
      <4>1. CASE nif = "closed"
        BY <1>7, <2>2, <3>2, <4>1 DEF Serve, NoAnswer
      <4>2. CASE nif # "closed"
        BY <1>0, <1>7, <2>2, <3>2, <4>2, AddAnswer DEF Serve
      <4> QED
        BY <4>1, <4>2
    <3>4. CASE state = "pending"
      <4>1. \A i \in DOMAIN reqs : reqs[i] = "request" <=> i = Len(reqs)
        BY <2>0, <3>4 DEF InOrder
      <4>2. Len(reqs) # 1
        BY <1>0, <2>0, <2>1, <2>2, <4>1
      <4>3. \A i \in DOMAIN reqs' : reqs'[i] = "request" <=> i = Len(reqs')
        BY <1>0, <2>1, <4>1
      <4>4. reqs' # <<>>
        BY <1>0, <2>1, <4>2
      <4> QED
        BY <2>0, <3>1, <3>3, <3>4, <4>3, <4>4 DEF InOrder
    <3>5. CASE state # "pending"
      <4>1. OnlyReleases'
        BY <1>0, <2>1, <3>5 DEF InOrder, OnlyReleases
      <4> QED
        BY <2>0, <3>1, <3>3, <3>5, <4>1 DEF InOrder
    <3> QED
      BY <3>4, <3>5
  <2>3. CASE Head(reqs) # "release"
    <3>1. state = "pending"
      BY <1>0, <2>0, <2>1, <2>3 DEF InOrder, OnlyReleases
    <3>2. NoAnswer /\ nif # "opening" /\ \A i \in DOMAIN reqs : reqs[i] = "request" <=> i = Len(reqs)
      BY <2>0, <3>1 DEF InOrder
    <3>3. Head(reqs) = "request" /\ Len(reqs) = 1
      BY <1>0, <2>0, <2>1, <2>3, <3>2
    <3>4. reqs' = <<>>
      BY <1>0, <2>0, <2>1, <3>3, TailTypes
    <3>5. CASE nif = "closed"
      <4>1. nif' = "opening" /\ answers' = answers
        BY <1>7, <3>3, <3>5 DEF Serve
      <4> QED
        BY <2>0, <3>1, <3>2, <3>4, <4>1 DEF InOrder, NoAnswer
    <3>6. CASE nif # "closed"
      <4>1. nif' = "open" /\ answers' = Append(answers, "granted")
        BY <1>0, <1>7, <3>2, <3>3, <3>6 DEF Serve, TypeOK
      <4>2. OneAnswer'
        BY <1>0, <3>2, <4>1, AddAnswer
      <4> QED
        BY <2>0, <3>1, <3>4, <4>1, <4>2 DEF InOrder
    <3> QED
      BY <3>5, <3>6
  <2> QED
    BY <2>2, <2>3
<1>8. CASE Open
  <2>1. state = "pending" /\ reqs = <<>> /\ NoAnswer
    BY <1>8 DEF Open, InOrder
  <2>2. OneAnswer'
    BY <1>0, <1>8, <2>1, AddAnswer DEF Open
  <2> QED
    BY <1>8, <2>1, <2>2 DEF Open, smVars, InOrder
<1>9. CASE Lose
  <2>1. (NoAnswer => NoAnswer') /\ (OneAnswer => OneAnswer')
    BY <1>0, <1>9, AddAnswer DEF Lose
  <2> QED
    BY <1>9, <2>1 DEF Lose, smVars, InOrder, OnlyReleases
<1>10. CASE EngineUp \/ Quiet \/ UNCHANGED vars
  BY <1>1, <1>10 DEF EngineUp, Quiet, vars, smVars, svcVars
<1> QED
  BY <1>2, <1>3, <1>4, <1>5, <1>6, <1>7, <1>8, <1>9, <1>10 DEF Next, Engine

\* Every variable keeps its type.
THEOREM TypeCorrect == Spec => []TypeOK
<1>1. ListInv => TypeOK
  BY DEF ListInv
<1> QED
  BY <1>1, InitList, ListStep, PTL DEF Spec

\* The list of subscribers agrees with the state of the connection, for any
\* number of clients and however late the answers are.
THEOREM ListCorrect == Spec => []SubscribersMatch
<1>1. ListInv => SubscribersMatch
  BY DEF ListInv
<1> QED
  BY <1>1, InitList, ListStep, PTL DEF Spec

\* No client leaves the list untold, and exactly the active subscribers of an
\* acquired connection were granted it.
THEOREM ToldCorrect == Spec => []ClientsTold
<1>1. ListInv => ClientsTold
  BY DEF ListInv
<1> QED
  BY <1>1, InitList, ListStep, PTL DEF Spec

\* A connection in use is up, or the news that it went down is on its way.
THEOREM GrantCorrect == Spec => []GrantBacked
<1> DEFINE Inv == ListInv /\ LossFollows /\ GrantBacked
<1>1. Init => Inv
  BY InitList DEF Init, GrantBacked
<1>2. Inv /\ [Next]_vars => Inv'
  <2> SUFFICES ASSUME ListInv, LossFollows, GrantBacked, [Next]_vars PROVE GrantBacked'
    BY ListStep, LossStep
  <2> DEFINE A == {"granted", "released", "denied"}
  <2>0. answers \in Seq(A) /\ nif \in {"closed", "opening", "open"}
        /\ state \in {"released", "pending", "acquired", "releasing"}
    BY DEF ListInv, TypeOK
  <2>1. ASSUME UNCHANGED <<answers, nif>>, state' = "acquired" => state = "acquired"
        PROVE  GrantBacked'
    BY <2>1 DEF GrantBacked
  <2>2. ASSUME answers # <<>>, answers' = Tail(answers), nif' = nif,
               NEW j \in DOMAIN answers, j # 1, answers[j] = "released"
        PROVE  GrantBacked'
    <3>1. j - 1 \in DOMAIN answers' /\ answers'[j - 1] = "released"
      BY <2>0, <2>2, TailTypes
    <3> QED
      BY <3>1 DEF GrantBacked
  <2>3. ASSUME NEW a \in A, answers' = Append(answers, a), state' = state,
               a = "released" \/ nif' = "open" \/ nif # "open"
        PROVE  GrantBacked'
    <3>1. CASE a = "released"
      BY <2>0, <2>3, <3>1, AppendTypes DEF GrantBacked
    <3>2. CASE a # "released"
      BY <2>0, <2>3, <3>2, AppendTypes DEF GrantBacked
    <3> QED
      BY <3>1, <3>2
  <2>4. ASSUME NEW c \in Clients, DenySecond(c) \/ Subscribe(c) \/ Unsubscribe(c)
        PROVE  GrantBacked'
    BY <2>0, <2>1, <2>4 DEF DenySecond, Subscribe, Unsubscribe, AfterUnsubscribe, smVars, svcVars
  <2>5. CASE Granted
    <3>1. CASE state = "pending"
      <4>1. answers # <<>> /\ 1 \in DOMAIN answers /\ answers[1] = "granted"
        BY <2>0, <2>5, TailTypes DEF Granted
      <4>2. CASE nif = "open"
        BY <2>5, <4>2 DEF Granted, GrantBacked
      <4>3. CASE nif # "open"
        <5>1. PICK j \in DOMAIN answers : j > 1 /\ answers[j] = "released"
          BY <4>1, <4>3 DEF LossFollows
        <5> QED
          BY <2>0, <2>2, <2>5, <5>1 DEF Granted
      <4> QED
        BY <4>2, <4>3
    <3>2. CASE state = "acquired" /\ nif # "open"
      BY <2>0, <2>2, <2>5, <3>2, TailTypes DEF Granted, GrantBacked
    <3>3. CASE state \notin {"pending", "acquired"} \/ (state = "acquired" /\ nif = "open")
      BY <2>5, <3>3 DEF Granted, GrantBacked
    <3> QED
      BY <2>0, <3>1, <3>2, <3>3
  <2>6. CASE ReleasedOrDenied
    <3>1. CASE state = "acquired" /\ Head(answers) = "denied" /\ nif # "open"
      BY <2>0, <2>2, <2>6, <3>1, TailTypes DEF ReleasedOrDenied, GrantBacked
    <3>2. CASE state = "acquired" /\ Head(answers) = "denied" /\ nif = "open"
      BY <2>6, <3>2 DEF ReleasedOrDenied, GrantBacked
    <3>3. CASE state = "acquired" /\ Head(answers) = "released"
      BY <2>6, <3>3 DEF ReleasedOrDenied, Lost, LosesIn, GrantBacked
    <3>4. CASE state # "acquired"
      BY <2>6, <3>4 DEF ReleasedOrDenied, Closed, Lost, smVars, GrantBacked
    <3> QED
      BY <2>6, <3>1, <3>2, <3>3, <3>4 DEF ReleasedOrDenied
  <2>7. CASE Serve
    <3>1. state' = state
      BY <2>7 DEF Serve, smVars
    <3>2. CASE answers' = answers
      BY <2>0, <2>7, <3>1, <3>2 DEF Serve, GrantBacked
    <3>3. CASE answers' = Append(answers, "granted") /\ nif' = "open"
      BY <2>3, <3>1, <3>3
    <3>4. CASE answers' = Append(answers, "released")
      BY <2>3, <3>1, <3>4
    <3> QED
      BY <2>7, <3>2, <3>3, <3>4 DEF Serve
  <2>8. CASE Open
    BY <2>3, <2>8 DEF Open, smVars
  <2>9. CASE Lose
    BY <2>3, <2>9 DEF Lose, smVars
  <2>10. CASE EngineUp \/ Quiet \/ UNCHANGED vars
    BY <2>1, <2>10 DEF EngineUp, Quiet, vars, smVars, svcVars
  <2> QED
    BY <2>4, <2>5, <2>6, <2>7, <2>8, <2>9, <2>10 DEF Next, Engine
<1> QED
  BY <1>1, <1>2, PTL DEF Spec

\* As long as clients wait for the answer to a request before they release, the
\* acquired state means that the service was not asked to close the connection.
THEOREM PatientCorrect == Spec => []RsrcInHandIfPatient
<1>1. InOrder => RsrcInHandIfPatient
  BY DEF InOrder, RsrcInHandIfPatient, RsrcInHand
<1> QED
  BY <1>1, InitList, ListStep, OrderStep, PTL DEF Spec
-----------------------------------------------------------------------------
(* LocEngine: with the types of the messages that wait, the invariants are *)
(* inductive together, because which status is passed on depends on muting. *)

EngineMsgs ==
  [type : {"STATUS"}, arg : Statuses]
  \cup [type : {"DELETE"}, arg : SUBSET Aiding]
  \cup [type : {"START", "STOP", "UP", "DOWN", "OVERRIDE"}, arg : {{}}]

QueueOK == queue \in Seq(EngineMsgs)

LocInv == LocTypeOK /\ QueueOK /\ MuteEnds /\ EngineOffTold /\ AidingDeleted

\* A report changes the engine's fields within their types, and leaves pending
\* deletions alone.
LEMMA ReportedType ==
  ASSUME LocTypeOK, NEW st \in Statuses
  PROVE  /\ Reported(eng, st) \in [engine : {"NONE", "ON", "OFF"}, fix : {"NONE", "BEGIN", "END"},
                                   mute : {"NONE", "WAIT", "IN"}, aiding : SUBSET Aiding]
         /\ Reported(eng, st).aiding = eng.aiding
         /\ Reported(eng, st).engine = IF st \in {"ON", "OFF"} THEN st ELSE eng.engine
         /\ Reported(eng, st).fix = IF st \in {"BEGIN", "END"} THEN st ELSE eng.fix
         /\ Reported(eng, st).mute = Muted(eng, st)
  BY DEF LocTypeOK, Statuses, Reported, Muted, MuteBegun

\* Deleting changes what is to be deleted only.
LEMMA DeletingType ==
  ASSUME NEW e \in [engine : {"NONE", "ON", "OFF"}, fix : {"NONE", "BEGIN", "END"},
                    mute : {"NONE", "WAIT", "IN"}, aiding : SUBSET Aiding]
  PROVE  /\ Deleting(e) \in [engine : {"NONE", "ON", "OFF"}, fix : {"NONE", "BEGIN", "END"},
                             mute : {"NONE", "WAIT", "IN"}, aiding : SUBSET Aiding]
         /\ Deleting(e).engine = e.engine /\ Deleting(e).fix = e.fix /\ Deleting(e).mute = e.mute
         /\ e.engine # "ON" => Deleting(e).aiding = {}
  BY DEF Deleting

\* The messages that are sent, and those that remain when one is handled.
LEMMA QueueTypes ==
  ASSUME QueueOK
  PROVE  /\ queue # <<>> => Head(queue) \in EngineMsgs /\ Tail(queue) \in Seq(EngineMsgs)
         /\ \A m \in EngineMsgs : Append(queue, m) \in Seq(EngineMsgs)
         /\ \A m \in EngineMsgs : queue # <<>> => Append(Tail(queue), m) \in Seq(EngineMsgs)
  BY DEF QueueOK

LEMMA MsgTypes ==
  /\ \A st \in Statuses : Msg("STATUS", st) \in EngineMsgs
  /\ \A kinds \in SUBSET Aiding : Msg("DELETE", kinds) \in EngineMsgs
  /\ \A t \in {"START", "STOP", "UP", "DOWN", "OVERRIDE"} : Msg(t, {}) \in EngineMsgs
  BY DEF Msg, EngineMsgs
-----------------------------------------------------------------------------
LEMMA LocInvInit == LocInit => LocInv
<1> SUFFICES ASSUME LocInit PROVE LocInv
  OBVIOUS
<1>1. <<>> \in Seq(EngineMsgs) /\ {} \in SUBSET Aiding
  OBVIOUS
<1> QED
  BY <1>1 DEF LocInit, LocInv, LocTypeOK, QueueOK, MuteEnds, EngineOffTold, AidingDeleted

\* Muting and what the framework is told, after a report.
LEMMA ReportStep ==
  ASSUME LocInv, NEW st \in Statuses,
         eng'.engine = Reported(eng, st).engine, eng'.fix = Reported(eng, st).fix,
         eng'.mute = Reported(eng, st).mute, told' = Told(eng, st)
  PROVE  MuteEnds' /\ EngineOffTold'
<1> USE ReportedType DEF LocInv, LocTypeOK, Statuses, Muted, MuteBegun
<1>1. MuteEnds'
  BY DEF MuteEnds
<1>2. EngineOffTold'
  BY DEF EngineOffTold, MuteEnds, Told
<1> QED
  BY <1>1, <1>2

LEMMA HandleStep == LocInv /\ Handle => LocInv'
<1> SUFFICES ASSUME LocInv, Handle PROVE LocInv'
  OBVIOUS
<1> DEFINE m == Head(queue)
           Eng == [engine : {"NONE", "ON", "OFF"}, fix : {"NONE", "BEGIN", "END"},
                   mute : {"NONE", "WAIT", "IN"}, aiding : SUBSET Aiding]
<1>0. m \in EngineMsgs /\ Tail(queue) \in Seq(EngineMsgs) /\ eng \in Eng
  BY QueueTypes DEF Handle, LocInv, LocTypeOK
<1>1. CASE m.type = "STATUS" /\ HandleStatus(m.arg)
  <2>1. m.arg \in Statuses
    BY <1>0, <1>1 DEF EngineMsgs
  <2>2. Reported(eng, m.arg) \in Eng
    BY <2>1, ReportedType DEF LocInv
  <2>3. /\ eng' \in Eng /\ eng'.engine = Reported(eng, m.arg).engine
        /\ eng'.fix = Reported(eng, m.arg).fix /\ eng'.mute = Reported(eng, m.arg).mute
        /\ Reported(eng, m.arg).engine # "ON" => eng'.aiding = {}
    BY <1>1, <2>2, DeletingType DEF HandleStatus
  <2>4. MuteEnds' /\ EngineOffTold'
    BY <1>1, <2>1, <2>3, ReportStep DEF HandleStatus
  <2>5. LocTypeOK' /\ QueueOK'
    BY <1>0, <1>1, <2>1, <2>3 DEF HandleStatus, LocInv, LocTypeOK, QueueOK, Told
  <2>6. AidingDeleted'
    BY <2>3 DEF AidingDeleted
  <2> QED
    BY <2>4, <2>5, <2>6 DEF LocInv
<1>2. CASE m.type = "DELETE" /\ HandleDelete(m.arg)
  <2>1. m.arg \in SUBSET Aiding
    BY <1>0, <1>2 DEF EngineMsgs
  <2>2. [eng EXCEPT !.aiding = m.arg] \in Eng
    BY <1>0, <2>1
  <2>3. /\ eng' \in Eng /\ eng'.engine = eng.engine /\ eng'.fix = eng.fix /\ eng'.mute = eng.mute
        /\ eng.engine # "ON" => eng'.aiding = {}
    BY <1>0, <1>2, <2>2, DeletingType DEF HandleDelete
  <2>4. LocTypeOK' /\ QueueOK'
    BY <1>0, <1>2, <2>3 DEF HandleDelete, LocInv, LocTypeOK, QueueOK
  <2>5. told' = told
    BY <1>2 DEF HandleDelete
  <2>6. MuteEnds' /\ EngineOffTold' /\ AidingDeleted'
    BY <2>3, <2>5 DEF LocInv, MuteEnds, EngineOffTold, AidingDeleted
  <2> QED
    BY <2>4, <2>6 DEF LocInv
<1>3. CASE HandleStart
  <2>1. modem' \in [up : BOOLEAN, fix : BOOLEAN, engine : {"OFF", "ON", "BEGIN"}, crashes : Nat]
    BY <1>3 DEF HandleStart, LocInv, LocTypeOK
  <2> QED
    BY <1>0, <1>3, <2>1
       DEF HandleStart, LocInv, LocTypeOK, QueueOK, MuteEnds, EngineOffTold, AidingDeleted
<1>4. CASE HandleStop
  <2>1. modem' \in [up : BOOLEAN, fix : BOOLEAN, engine : {"OFF", "ON", "BEGIN"}, crashes : Nat]
    BY <1>4 DEF HandleStop, LocInv, LocTypeOK
  <2> QED
    BY <1>0, <1>4, <2>1
       DEF HandleStop, LocInv, LocTypeOK, QueueOK, MuteEnds, EngineOffTold, AidingDeleted
<1>5. CASE HandleUp
  <2>1. queue' \in Seq(EngineMsgs)
    BY <1>0, <1>5, MsgTypes DEF HandleUp
  <2>2. inSession' = FALSE /\ UNCHANGED <<eng, modem, told, wanted, offBy>>
    BY <1>5 DEF HandleUp
  <2>3. LocTypeOK' /\ QueueOK'
    BY <2>1, <2>2 DEF LocInv, LocTypeOK, QueueOK
  <2>4. MuteEnds' /\ EngineOffTold' /\ AidingDeleted'
    BY <2>2 DEF LocInv, MuteEnds, EngineOffTold, AidingDeleted
  <2> QED
    BY <2>3, <2>4 DEF LocInv
<1>6. CASE HandleDown
  <2>1. "OFF" \in Statuses
    BY DEF Statuses
  <2>2. MuteEnds' /\ EngineOffTold'
    BY <1>6, <2>1, ReportStep DEF HandleDown
  <2>3. LocTypeOK' /\ QueueOK'
    BY <1>0, <1>6, <2>1, ReportedType DEF HandleDown, LocInv, LocTypeOK, QueueOK, Told
  <2>4. AidingDeleted'
    BY <1>6 DEF HandleDown, AidingDeleted
  <2> QED
    BY <2>2, <2>3, <2>4 DEF LocInv
<1>7. CASE HandleOverride
  BY <1>0, <1>7 DEF HandleOverride, LocInv, LocTypeOK, QueueOK, MuteEnds, EngineOffTold, AidingDeleted
<1> QED
  BY <1>1, <1>2, <1>3, <1>4, <1>5, <1>6, <1>7 DEF Handle

LEMMA LocInvStep == LocInv /\ [LocNext]_locVars => LocInv'
<1> SUFFICES ASSUME LocInv, [LocNext]_locVars PROVE LocInv'
  OBVIOUS
<1> DEFINE Kept == UNCHANGED <<eng, told, offBy>>
<1>0. ASSUME Kept, queue' \in Seq(EngineMsgs), inSession' \in BOOLEAN, wanted' \in BOOLEAN,
             modem' \in [up : BOOLEAN, fix : BOOLEAN, engine : {"OFF", "ON", "BEGIN"}, crashes : Nat]
      PROVE  LocInv'
  BY <1>0 DEF LocInv, LocTypeOK, QueueOK, MuteEnds, EngineOffTold, AidingDeleted
<1>1. CASE Handle
  BY <1>1, HandleStep
<1>2. CASE Start \/ Stop
  BY <1>0, <1>2, QueueTypes, MsgTypes DEF Start, Stop, Send, LocInv, LocTypeOK
<1>3. ASSUME NEW kinds \in SUBSET Aiding, DeleteAiding(kinds) PROVE LocInv'
  BY <1>0, <1>3, QueueTypes, MsgTypes DEF DeleteAiding, Send, LocInv, LocTypeOK
<1>4. ASSUME NEW st \in Statuses, ModemReports(st) PROVE LocInv'
  <2>1. queue' \in Seq(EngineMsgs)
    BY <1>4, QueueTypes, MsgTypes DEF ModemReports, Send, LocInv
  <2>2. modem' \in [up : BOOLEAN, fix : BOOLEAN, engine : {"OFF", "ON", "BEGIN"}, crashes : Nat]
    <3>1. st = "ON" \/ st = "OFF" \/ st = "BEGIN" \/ st = "END"
      BY DEF Statuses
    <3> QED
      BY <1>4, <3>1 DEF ModemReports, LocInv, LocTypeOK
  <2> QED
    BY <1>0, <1>4, <2>1, <2>2 DEF ModemReports, LocInv, LocTypeOK
<1>5. CASE ModemOverrides
  BY <1>0, <1>5, QueueTypes, MsgTypes DEF ModemOverrides, Send, LocInv, LocTypeOK
<1>6. CASE ModemCrashes
  BY <1>0, <1>6, QueueTypes, MsgTypes DEF ModemCrashes, Send, LocInv, LocTypeOK
<1>7. CASE ModemRecovers
  BY <1>0, <1>7, QueueTypes, MsgTypes DEF ModemRecovers, Send, LocInv, LocTypeOK
<1>8. CASE UNCHANGED locVars
  BY <1>0, <1>8 DEF locVars, LocInv, LocTypeOK, QueueOK
<1> QED
  BY <1>1, <1>2, <1>3, <1>4, <1>5, <1>6, <1>7, <1>8 DEF LocNext
-----------------------------------------------------------------------------
LEMMA LocInvAlways == LocSpec => []LocInv
  BY LocInvInit, LocInvStep, PTL DEF LocSpec

\* Every variable keeps its type, for any kinds of aiding data and any number of
\* restarts (loc_eng_data_s_type).
THEOREM LocTypeCorrect == LocSpec => []LocTypeOK
<1>1. LocInv => LocTypeOK
  BY DEF LocInv
<1> QED
  BY <1>1, LocInvAlways, PTL

\* Reports are withheld from the framework only while the engine or a session
\* runs (loc_eng_report_status).
THEOREM MuteCorrect == LocSpec => []MuteEnds
<1>1. LocInv => MuteEnds
  BY DEF LocInv
<1> QED
  BY <1>1, LocInvAlways, PTL

\* An engine that is off was reported so, also when a session was muted and when
\* the modem restarted (loc_eng_report_status, loc_eng_handle_engine_down).
THEOREM TellingCorrect == LocSpec => []EngineOffTold
<1>1. LocInv => EngineOffTold
  BY DEF LocInv
<1> QED
  BY <1>1, LocInvAlways, PTL

\* Aiding data is deleted as soon as the engine reports that it is off
\* (update_aiding_data_for_deletion).
THEOREM AidingCorrect == LocSpec => []AidingDeleted
<1>1. LocInv => AidingDeleted
  BY DEF LocInv
<1> QED
  BY <1>1, LocInvAlways, PTL
-----------------------------------------------------------------------------
(* MsgTask.  LiveWhenUsed is not inductive.  Two facts carry it: the delegate has *)
(* one reference per thread that has not dropped it (References), and the thread  *)
(* that may delete the task is beyond run(), which it only leaves after the queue *)
(* was unblocked (Serving).                                                       *)

\* The owner will still drop the delegate.
OwnerHolds == mThread \/ opc \in OwnerUsesDelegate

References ==
  /\ mRefCount = (IF tpc \in ThreadUsesDelegate THEN 1 ELSE 0) + (IF OwnerHolds THEN 1 ELSE 0)
  /\ delegate = "live" <=> mRefCount > 0

\* Before destroy, nothing has ended the thread.
Serving ==
  opc = "running" =>
    /\ ~unblocked /\ task = "live"
    /\ \/ tpc = "none"
       \/ mRunnable /\ tpc \in {"start", "loop", "rcv", "waiting", "woken", "proc"}

Tasks ==
  /\ opc = "new" => task = "none" /\ tpc = "none" /\ delegate = "none" /\ ~mThread /\ ~unblocked
  /\ tpc = "none" => ~mThread
  /\ mThread => opc \in {"running", "unblocked"}
  /\ opc \in {"running", "unblocked"} /\ ~mThread => tpc = "none"
  /\ tpc \in UsesTask \cup {"start"} => task = "live"

TaskInv == TaskTypeOK /\ References /\ Serving /\ Tasks
-----------------------------------------------------------------------------
\* Handing a message on leaves the order of all of them as it was.
LEMMA HandOn ==
  ASSUME NEW S, NEW h \in Seq(S), NEW q \in Seq(S), q # <<>>
  PROVE  h \o q = Append(h, Head(q)) \o Tail(q)
<1>1. h \o q \in Seq(S) /\ Append(h, Head(q)) \o Tail(q) \in Seq(S)
  OBVIOUS
<1>2. Len(h \o q) = Len(Append(h, Head(q)) \o Tail(q))
  OBVIOUS
<1>3. \A i \in 1..Len(h \o q) : (h \o q)[i] = (Append(h, Head(q)) \o Tail(q))[i]
  OBVIOUS
<1> QED
  BY <1>1, <1>2, <1>3

\* A message sent is the last of all.
LEMMA SendLast ==
  ASSUME NEW h \in Seq(Msgs), NEW q \in Seq(Msgs), NEW m \in Msgs
  PROVE  Append(h \o q, m) = h \o Append(q, m)
<1>1. Append(h \o q, m) \in Seq(Msgs) /\ h \o Append(q, m) \in Seq(Msgs)
  OBVIOUS
<1>2. Len(Append(h \o q, m)) = Len(h \o Append(q, m))
  OBVIOUS
<1>3. \A i \in 1..Len(h \o q) + 1 : Append(h \o q, m)[i] = (h \o Append(q, m))[i]
  OBVIOUS
<1> QED
  BY <1>1, <1>2, <1>3

LEMMA AddEmpty ==
  ASSUME NEW S, NEW h \in Seq(S)
  PROVE  h \o <<>> = h /\ <<>> \o h = h
<1>1. h \o <<>> \in Seq(S) /\ Len(h \o <<>>) = Len(h) /\ \A i \in 1..Len(h) : (h \o <<>>)[i] = h[i]
  OBVIOUS
<1>2. <<>> \o h \in Seq(S) /\ Len(<<>> \o h) = Len(h) /\ \A i \in 1..Len(h) : (<<>> \o h)[i] = h[i]
  OBVIOUS
<1> QED
  BY <1>1, <1>2
-----------------------------------------------------------------------------
LEMMA TaskInvInit == TaskInit => TaskInv
<1> SUFFICES ASSUME TaskInit PROVE TaskInv
  OBVIOUS
<1> USE DEF TaskInit
<1>1. TaskTypeOK
  <2>1. <<>> \in Seq(Msgs) /\ 0 \in 0..2 /\ {} \subseteq Msgs
    OBVIOUS
  <2> QED
    BY <2>1 DEF TaskTypeOK
<1>2. References
  BY DEF References, OwnerHolds, OwnerUsesDelegate, ThreadUsesDelegate, UsesTask
<1>3. Serving /\ Tasks
  BY DEF Serving, Tasks, UsesTask
<1> QED
  BY <1>1, <1>2, <1>3 DEF TaskInv

LEMMA TaskInvStep == TaskInv /\ [TaskNext]_taskVars => TaskInv'
<1> SUFFICES ASSUME TaskInv, [TaskNext]_taskVars PROVE TaskInv'
  OBVIOUS
<1> USE DEF TaskInv, TaskTypeOK, References, Serving, Tasks, OwnerHolds, OwnerUsesDelegate,
            ThreadUsesDelegate, UsesTask, queueVars, delegateVars, history
<1>1. CASE Create
  <2>0. /\ opc = "new" /\ tpc = "none" /\ task' = "live" /\ opc' = "running"
        /\ UNCHANGED <<queueVars, runnable, msg, history, fault>>
    BY <1>1 DEF Create
  <2>1. CASE LaunchFails
    <3>1. TaskTypeOK'
      <4>1. mRefCount' \in 0..2
        BY <2>1 DEF LaunchFails
      <4> QED
        BY <2>0, <2>1, <4>1, Zenon DEF LaunchFails
    <3>2. References'
      BY <2>0, <2>1 DEF LaunchFails
    <3>3. ~mThread' /\ ~unblocked' /\ tpc' = "none" /\ task' = "live" /\ opc' = "running"
      BY <2>0, <2>1 DEF LaunchFails
    <3>4. Serving'
      BY <3>3
    <3>5. Tasks'
      BY <3>3
    <3> QED
      BY <3>1, <3>2, <3>4, <3>5
  <2>2. ASSUME NEW joinable \in BOOLEAN, Launch(joinable) PROVE TaskInv'
    <3>1. TaskTypeOK'
      BY <2>0, <2>2 DEF Launch
    <3>2. References'
      BY <2>0, <2>2 DEF Launch
    <3>3. Serving' /\ Tasks'
      BY <2>0, <2>2 DEF Launch
    <3> QED
      BY <3>1, <3>2, <3>3
  <2> QED
    BY <1>1, <2>1, <2>2 DEF Create
<1>2. CASE Destroy
  BY <1>2 DEF Destroy, Unblock, Wake
<1>3. CASE TakeThread
  BY <1>3 DEF TakeThread
<1>4. CASE DeleteThis
  BY <1>4 DEF DeleteThis, DeleteTask
<1>5. CASE ReadFreed
  BY <1>5 DEF ReadFreed
<1>6. CASE StopThread
  BY <1>6 DEF StopThread
<1>7. CASE Join
  BY <1>7 DEF Join
<1>8. CASE OwnerDrop
  BY <1>8 DEF OwnerDrop, Drop
<1>9. CASE ThreadMain
  BY <1>9 DEF ThreadMain
<1>10. CASE Loop
  BY <1>10 DEF Loop
<1>11. CASE Receive
  BY <1>11 DEF Receive, CanReceive, Remove
<1>12. CASE Wait
  BY <1>12 DEF Wait
<1>13. CASE ReceiveFails
  BY <1>13 DEF ReceiveFails, CanReceive, MustWait
<1>14. CASE ProcReturns
  BY <1>14 DEF ProcReturns
<1>15. CASE End
  BY <1>15 DEF End
<1>16. CASE DeleteRunnable
  BY <1>16 DEF DeleteRunnable, DeleteTask
<1>17. CASE ThreadDrop
  BY <1>17 DEF ThreadDrop, Drop
<1>18. CASE WakeUp
  BY <1>18 DEF WakeUp
<1>19. ASSUME NEW m \in Msgs, SendMsg(m) PROVE TaskInv'
  <2>1. CASE unblocked /\ Refuse(m)
    BY <1>19, <2>1 DEF SendMsg, Refuse
  <2>2. CASE ~unblocked /\ Accept(m)
    BY <1>19, <2>2 DEF SendMsg, Accept, Wake
  <2> QED
    BY <1>19, <2>1, <2>2 DEF SendMsg
<1>20. CASE UNCHANGED taskVars
  BY <1>20 DEF taskVars
<1> QED
  BY <1>1, <1>2, <1>3, <1>4, <1>5, <1>6, <1>7, <1>8, <1>9, <1>10, <1>11, <1>12, <1>13, <1>14,
     <1>15, <1>16, <1>17, <1>18, <1>19, <1>20 DEF TaskNext, Owner, Thread

LEMMA TaskInvCorrect == TaskSpec => []TaskInv
BY TaskInvInit, TaskInvStep, PTL DEF TaskSpec

\* Every reachable state of a message task is well typed, whatever the messages.
THEOREM TaskTypeCorrect == TaskSpec => []TaskTypeOK
<1>1. TaskInv => TaskTypeOK
  BY DEF TaskInv
<1> QED
  BY TaskInvCorrect, <1>1, PTL

\* The MsgTask outlives its use by the thread and by its clients, and the delegate
\* its use by both sides, whichever of them is last.
THEOREM LiveCorrect == TaskSpec => []LiveWhenUsed
<1>1. TaskInv => LiveWhenUsed
  BY DEF TaskInv, TaskTypeOK, References, Serving, Tasks, OwnerHolds, OwnerUsesDelegate,
         ThreadUsesDelegate, UsesTask, LiveWhenUsed
<1> QED
  BY TaskInvCorrect, <1>1, PTL
-----------------------------------------------------------------------------
LEMMA TaskOrderStep == TaskInv /\ HandledInOrder /\ [TaskNext]_taskVars => HandledInOrder'
<1> SUFFICES ASSUME TaskInv, HandledInOrder, [TaskNext]_taskVars PROVE HandledInOrder'
  OBVIOUS
<1> USE DEF HandledInOrder, queueVars, delegateVars, history
<1>0. /\ accepted \in Seq(Msgs) /\ handled \in Seq(Msgs) /\ flushed \in Seq(Msgs)
      /\ msgList \in Seq(Msgs)
  BY DEF TaskInv, TaskTypeOK
<1>1. CASE Create
  <2>1. task = "none" /\ UNCHANGED <<msgList, accepted, handled, flushed>>
    BY <1>1 DEF Create, TaskInv, Tasks
  <2> QED
    BY <2>1
<1>2. ASSUME DeleteTask, task = "live" PROVE HandledInOrder'
  <2>1. flushed = <<>> /\ accepted = handled \o msgList
    BY <1>0, <1>2, AddEmpty
  <2>2. flushed' = msgList /\ msgList' = <<>> /\ UNCHANGED <<accepted, handled>> /\ task' = "freed"
    BY <1>2 DEF DeleteTask
  <2>3. handled \o msgList \o <<>> = handled \o msgList
    BY <1>0, AddEmpty
  <2> QED
    BY <2>1, <2>2, <2>3
<1>3. CASE DeleteThis
  BY <1>2, <1>3 DEF DeleteThis
<1>4. CASE DeleteRunnable
  BY <1>2, <1>4 DEF DeleteRunnable, TaskInv, Tasks, UsesTask
<1>5. CASE Receive
  <2>1. task = "live" /\ flushed = <<>>
    BY <1>5 DEF Receive, TaskInv, Tasks, UsesTask
  <2>2. /\ msgList # <<>> /\ msgList' = Tail(msgList) /\ handled' = Append(handled, Head(msgList))
        /\ UNCHANGED <<accepted, flushed, task>>
    BY <1>5 DEF Receive, CanReceive, Remove
  <2>3. accepted = handled \o msgList
    BY <1>0, <2>1, AddEmpty
  <2>4. handled' \in Seq(Msgs) /\ handled' \o flushed' = handled'
    BY <1>0, <2>1, <2>2, AddEmpty
  <2>5. handled \o msgList = handled' \o msgList'
    BY <1>0, <2>2, HandOn
  <2> QED
    BY <2>1, <2>2, <2>3, <2>4, <2>5
<1>6. ASSUME NEW m \in Msgs, SendMsg(m) PROVE HandledInOrder'
  <2>1. CASE Refuse(m)
    BY <1>6, <2>1 DEF SendMsg, Refuse
  <2>2. CASE Accept(m)
    <3>1. /\ msgList' = Append(msgList, m) /\ accepted' = Append(accepted, m)
          /\ UNCHANGED <<handled, flushed, task>>
      BY <1>6, <2>2 DEF SendMsg, Accept
    <3>2. handled \o flushed \in Seq(Msgs)
      BY <1>0
    <3>3. Append(handled \o flushed \o msgList, m) = handled \o flushed \o Append(msgList, m)
      BY <1>0, <1>6, <3>2, SendLast
    <3> QED
      BY <3>1, <3>3
  <2> QED
    BY <1>6, <2>1, <2>2 DEF SendMsg
<1>7. CASE \/ Destroy \/ TakeThread \/ ReadFreed \/ StopThread \/ Join \/ OwnerDrop \/ ThreadMain \/ Loop
           \/ Wait \/ ReceiveFails \/ ProcReturns \/ End \/ ThreadDrop \/ WakeUp
  <2>1. UNCHANGED <<msgList, accepted, handled, flushed, task>>
    BY <1>7 DEF Destroy, TakeThread, ReadFreed, StopThread, Join, OwnerDrop, ThreadMain, Loop, Wait,
                ReceiveFails, ProcReturns, End, ThreadDrop, WakeUp
  <2> QED
    BY <2>1
<1>8. CASE UNCHANGED taskVars
  BY <1>8 DEF taskVars
<1> QED
  BY <1>1, <1>3, <1>4, <1>5, <1>6, <1>7, <1>8 DEF TaskNext, Owner, Thread

\* However many messages are sent, and however the task ends, what the handlers got
\* is what was sent, once each and in order, up to what the deletion flushed.
THEOREM OrderCorrect == TaskSpec => []HandledInOrder
<1>1. TaskInit => HandledInOrder
  BY DEF TaskInit, HandledInOrder
<1> QED
  BY <1>1, TaskOrderStep, TaskInvCorrect, PTL DEF TaskSpec
=============================================================================
