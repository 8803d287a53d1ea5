-------------------------- MODULE AgpsStateMachine --------------------------
(***************************************************************************)
(* The manager of a data connection (NIF) of the GPS engine                *)
(* (loc_eng_agps.cpp): clients subscribe to the connection, the state      *)
(* machine asks the connectivity service of the framework to open it for   *)
(* the first of them and to close it after the last.                       *)
(*                                                                         *)
(* The engine's message thread is the only one to touch the state machine, *)
(* so handling a message is one step.  What makes it hard is that requests *)
(* travel to the service, and its answers back, in two queues: an answer   *)
(* may belong to a request that was withdrawn since.                       *)
(***************************************************************************)
EXTENDS Integers, Sequences, FiniteSets

CONSTANTS
  Clients,      \* ATL connection handles, or senders of wifi requests
  MaxCalls,     \* bound: subscriptions in all
  MaxRestarts   \* bound: restarts of the modem

ASSUME AgpsAssumption ==
  IsFiniteSet(Clients) /\ {MaxCalls, MaxRestarts} \subseteq Nat

VARIABLES
  kind,      \* "atl": agnss_nif and internet_nif; "wifi": wifi_nif
  patient,   \* whether clients wait for the answer before they release
  state,     \* mStatePtr
  subs,      \* mSubscribers
  inactive,  \* subscribers with mIsInactive
  client,    \* what each client was last told
  reqs,      \* requests on their way to the connectivity service
  answers,   \* answers on their way to the message thread
  nif,       \* the connection itself
  calls, restarts

smVars == <<state, subs, inactive, client>>
svcVars == <<reqs, answers, nif>>
vars == <<kind, patient, smVars, svcVars, calls, restarts>>

\* waitForCloseComplete of the subscribers and mEnforceSingleSubscriber.
WaitForClose == kind = "wifi"
SingleSubscriber == kind = "wifi"

Active == subs \ inactive

Init ==
  /\ kind \in {"atl", "wifi"} /\ patient \in BOOLEAN
  /\ state = "released" /\ subs = {} /\ inactive = {}
  /\ client = [c \in Clients |-> "idle"]
  /\ reqs = <<>> /\ answers = <<>> /\ nif = "closed"
  /\ calls = 0 /\ restarts = 0
-----------------------------------------------------------------------------
(* The state machine. *)

\* AgpsStateMachine::sendRsrcRequest after the list of subscribers became S, of
\* which those in I are inactive: a release is not sent while one is active, nor
\* a request while none is.
SendRsrcRequest(action, S, I) ==
  reqs' = IF (S \subseteq I) = (action = "release") THEN Append(reqs, action) ELSE reqs

\* The subscribers of S are told st and leave the list.
NotifyAndDelete(S, st) ==
  /\ client' = [c \in Clients |-> IF c \in S THEN st ELSE client[c]]
  /\ subs' = subs \ S /\ inactive' = inactive \ S

\* subscribeRsrc: a second subscriber of a connection for one is denied at once.
DenySecond(c) ==
  /\ client[c] = "idle" /\ calls < MaxCalls
  /\ SingleSubscriber /\ subs # {}
  /\ calls' = calls + 1
  /\ UNCHANGED <<kind, patient, smVars, svcVars, restarts>>

\* Mutated form of Asks: a subscriber is not enough to ask again.
AsksNever == FALSE

\* RSRC_SUBSCRIBE asks the service only in the released state.
Asks == state = "released"

Subscribe(c) ==
  /\ client[c] = "idle" /\ calls < MaxCalls
  /\ ~(SingleSubscriber /\ subs # {})
  /\ calls' = calls + 1
  /\ subs' = subs \cup {c}
  /\ client' = [client EXCEPT ![c] = IF state = "acquired" THEN "granted" ELSE "waiting"]
  /\ state' = IF state = "released" THEN "pending" ELSE state
  /\ IF Asks THEN SendRsrcRequest("request", subs', inactive) ELSE UNCHANGED reqs
  /\ UNCHANGED <<kind, patient, inactive, answers, nif, restarts>>

\* Mutated forms of AfterUnsubscribe: a remaining subscriber does not keep the
\* state machine from releasing; nor the release from being sent; the release is
\* never sent.
AfterUnsubscribeAlways(S, I) ==
  /\ state' = IF S = {} THEN "released" ELSE "releasing"
  /\ reqs' = Append(reqs, "release")
AfterUnsubscribeKeeps(S, I) ==
  /\ state' = IF S = {} THEN "released" ELSE IF S \subseteq I THEN "releasing" ELSE state
  /\ reqs' = reqs

\* After RSRC_UNSUBSCRIBE with S subscribers left, those in I inactive.
AfterUnsubscribe(S, I) ==
  /\ state' = IF S = {} THEN "released"
              ELSE IF S \subseteq I THEN "releasing" ELSE state
  /\ IF state # "releasing" /\ S \subseteq I
     THEN SendRsrcRequest("release", S, I) ELSE UNCHANGED reqs

\* unsubscribeRsrc: the subscriber leaves, or waits for the connection to close.
Unsubscribe(c) ==
  /\ client[c] = "granted" \/ (~patient /\ client[c] = "waiting")
  /\ c \in subs
  /\ IF WaitForClose
     THEN /\ inactive' = inactive \cup {c}
          /\ client' = [client EXCEPT ![c] = "closing"]
          /\ UNCHANGED subs
     ELSE NotifyAndDelete({c}, "idle")
  /\ AfterUnsubscribe(subs', inactive')
  /\ UNCHANGED <<kind, patient, answers, nif, calls, restarts>>

\* RSRC_GRANTED: every active subscriber is told and stays.
Granted ==
  /\ answers # <<>> /\ Head(answers) = "granted" /\ answers' = Tail(answers)
  /\ IF state = "pending"
     THEN /\ state' = "acquired"
          /\ client' = [c \in Clients |-> IF c \in Active THEN "granted" ELSE client[c]]
     ELSE UNCHANGED <<state, client>>
  /\ UNCHANGED <<kind, patient, subs, inactive, reqs, nif, calls, restarts>>

\* RSRC_RELEASED and RSRC_DENIED in the releasing state: those that waited for it
\* leave, and for those that came since the connection is asked for again.
Closed ==
  /\ NotifyAndDelete(subs \cap inactive, "idle")
  /\ state' = IF subs' # {} THEN "pending" ELSE "released"
  /\ IF subs' # {} THEN SendRsrcRequest("request", subs', inactive') ELSE UNCHANGED reqs

\* Mutated form of Lost: the subscribers are not told.
LostSilently == state' = "released" /\ UNCHANGED <<subs, inactive, client, reqs>>

\* The connection is denied or lost: all subscribers are told and leave.
Lost == state' = "released" /\ NotifyAndDelete(subs, "idle") /\ UNCHANGED reqs

\* Mutated form of LosesIn: a release is always taken for a late one.
LosesInPending(answer) == {"pending"}

\* The state in which an answer that there is no connection counts; in the
\* others it is taken for a late one.
LosesIn(answer) == IF answer = "released" THEN {"acquired"} ELSE {"pending"}

ReleasedOrDenied ==
  /\ answers # <<>> /\ Head(answers) \in {"released", "denied"} /\ answers' = Tail(answers)
  /\ IF state = "releasing" THEN Closed
     ELSE IF state \in LosesIn(Head(answers)) THEN Lost
     ELSE UNCHANGED <<smVars, reqs>>
  /\ UNCHANGED <<kind, patient, nif, calls, restarts>>

\* loc_eng_handle_engine_up: the modem lost its clients, dropAllSubscribers forgets
\* them and leaves the state alone.
EngineUp ==
  /\ kind = "atl" /\ restarts < MaxRestarts
  /\ restarts' = restarts + 1
  /\ subs' = {} /\ client' = [c \in Clients |-> "idle"]
  /\ UNCHANGED <<kind, patient, state, inactive, svcVars, calls>>
-----------------------------------------------------------------------------
(* The connectivity service. *)

\* The service takes the next request; a connection that is up is granted at once
\* and one that is down needs no closing.
Serve ==
  /\ reqs # <<>> /\ reqs' = Tail(reqs)
  /\ IF Head(reqs) = "request"
     THEN /\ nif' = IF nif = "closed" THEN "opening" ELSE nif
          /\ answers' = IF nif = "open" THEN Append(answers, "granted") ELSE answers
     ELSE /\ nif' = "closed"
          /\ answers' = IF nif = "closed" THEN answers ELSE Append(answers, "released")
  /\ UNCHANGED <<kind, patient, smVars, calls, restarts>>

\* The connection comes up or not.
Open ==
  /\ nif = "opening"
  /\ \/ nif' = "open" /\ answers' = Append(answers, "granted")
     \/ nif' = "closed" /\ answers' = Append(answers, "denied")
  /\ UNCHANGED <<kind, patient, smVars, reqs, calls, restarts>>

\* The network takes an open connection away.
Lose ==
  /\ nif = "open"
  /\ nif' = "closed" /\ answers' = Append(answers, "released")
  /\ UNCHANGED <<kind, patient, smVars, reqs, calls, restarts>>
-----------------------------------------------------------------------------
Engine == Granted \/ ReleasedOrDenied

\* Nothing is under way and nobody calls any more.
Quiet ==
  /\ reqs = <<>> /\ answers = <<>> /\ nif # "opening"
  /\ \A c \in Clients : client[c] \in {"idle", "granted"}
  /\ UNCHANGED vars

Next ==
  \/ \E c \in Clients : DenySecond(c) \/ Subscribe(c) \/ Unsubscribe(c)
  \/ Engine \/ EngineUp \/ Serve \/ Open \/ Lose \/ Quiet

Spec == Init /\ [][Next]_vars

\* The message thread and the service work; nobody has to subscribe or release,
\* and a connection need not break.
FairSpec == Spec /\ WF_vars(Engine) /\ WF_vars(Serve) /\ WF_vars(Open)
-----------------------------------------------------------------------------
TypeOK ==
  /\ kind \in {"atl", "wifi"} /\ patient \in BOOLEAN
  /\ state \in {"released", "pending", "acquired", "releasing"}
  /\ subs \subseteq Clients /\ inactive \subseteq subs
  /\ client \in [Clients -> {"idle", "waiting", "granted", "closing"}]
  /\ reqs \in Seq({"request", "release"})
  /\ answers \in Seq({"granted", "released", "denied"})
  /\ nif \in {"closed", "opening", "open"}
  /\ calls \in 0..MaxCalls /\ restarts \in 0..MaxRestarts

\* "Error: subscriber list not empty!!!  I don't know how to recover from it": the
\* list agrees with the state, whatever late answer changed it, and a connection
\* is held or awaited for somebody unless the modem restarted meanwhile.
SubscribersMatch ==
  /\ state = "released" => subs = {}
  /\ state = "releasing" => subs # {} /\ Active = {}
  /\ state \in {"pending", "acquired"} => Active # {} \/ restarts > 0

\* Clients and the state machine agree: nobody leaves the list without being
\* told, and exactly the active subscribers of an acquired connection use it.
ClientsTold ==
  \A c \in Clients :
    /\ client[c] = "idle" <=> c \notin subs
    /\ client[c] = "granted" <=> state = "acquired" /\ c \in Active

\* A connection in use is up, or the news that it went down is on its way.
GrantBacked == state = "acquired" => nif = "open" \/ \E i \in DOMAIN answers : answers[i] = "released"

\* "We have rsrc in hand, so grant it right away": in the acquired state the
\* state machine has not itself asked the service to close the connection.
RsrcInHand == state = "acquired" => \A i \in DOMAIN reqs : reqs[i] # "release"

\* It holds when clients wait for the answer to a request before they release.
RsrcInHandIfPatient == patient => RsrcInHand

\* Every subscriber that waits is told something, however answers and requests
\* cross.
Answered == \A c \in Clients : (client[c] \in {"waiting", "closing"}) ~> (client[c] \notin {"waiting", "closing"})

\* The connection is given up after the last subscriber left; not if a client
\* withdrew an unanswered request, or the modem restarted.
NifGivenUp ==
  (patient /\ restarts = 0 /\ subs = {}) ~> (nif = "closed" \/ subs # {} \/ restarts > 0)
=============================================================================
