------------------------------ MODULE NiSessions ------------------------------
(***************************************************************************)
(* The network-initiated (NI) requests of the gps HAL, which the user      *)
(* accepts or denies (loc_eng_ni.cpp): one ordinary and one emergency      *)
(* session.                                                                *)
(*                                                                         *)
(*   task     the thread of the adapter's MsgTask, which handles requests, *)
(*            answers and restarts of the modem one after the other;       *)
(*   waiter   ni_thread_proc, one thread for every request, which waits    *)
(*            for an answer or a timeout;                                  *)
(*   user     the framework's thread in loc_eng_ni_respond;                *)
(*   modem    external: it makes requests, and restarts.                   *)
(*                                                                         *)
(* rawRequest and reqID are read and written without tLock by task and     *)
(* user, so that a check and what follows from it are separate steps.      *)
(* The framework has called loc_eng_ni_init, and threads can be created.   *)
(***************************************************************************)
EXTENDS Naturals, Sequences, FiniteSets

CONSTANTS
  NumRequests,   \* bound: how many requests the modem makes
  MaxMsgs,       \* bound: how many messages wait when the modem sends another one
  MaxCrashes     \* bound: how often the modem restarts

ASSUME NiAssumption == NumRequests \in Nat /\ MaxMsgs \in Nat /\ MaxCrashes \in Nat

VARIABLES
  queue,      \* messages for the task
  rpc,        \* where the task is in loc_eng_ni_reset_on_engine_restart
  ni,         \* ni[s]: the fields of loc_eng_ni_session_s_type
  tLock,      \* tLock[s]: the waiter that holds the mutex between its steps
  waiter,     \* waiter[r]: the thread created for request r
  user,       \* where the user's thread is
  modem,      \* external: [up, made, crashes]
  said,       \* history: said[r] is what the user answered to request r
  late,       \* history: an answer was set when the waiter of its request had gone
  freed       \* history: requests whose payload was freed

vars == <<queue, rpc, ni, tLock, waiter, user, modem, said, late, freed>>

Sess == {"es", "ni"}          \* sessionEs and session
Requests == 1..NumRequests    \* in the order in which they are made
NoRequest == 0
Answers == {"ACCEPT", "DENY"}

Request(r, s) == [type |-> "NI", req |-> r, sess |-> s]
Response(r, resp) == [type |-> "ANSWER", req |-> r, resp |-> resp]
Down == [type |-> "DOWN"]
Send(m) == queue' = Append(queue, m)

Idle == [pc |-> "idle", sess |-> "es"]
NoWaiter == [pc |-> "none", sess |-> "ni", req |-> NoRequest, resp |-> "NONE"]
NoAnswer == [pc |-> "idle", sess |-> "ni", req |-> NoRequest, resp |-> "NONE"]

Init ==
  /\ queue = <<>> /\ rpc = Idle
  /\ ni = [s \in Sess |-> [raw |-> NoRequest, recvd |-> FALSE, resp |-> "NONE",
                           reqID |-> NoRequest]]
  /\ tLock = [s \in Sess |-> NoRequest]
  /\ waiter = [r \in Requests |-> NoWaiter]
  /\ user = NoAnswer
  /\ modem = [up |-> TRUE, made |-> 0, crashes |-> 0]
  /\ said = [r \in Requests |-> "NONE"] /\ late = FALSE /\ freed = {}
-----------------------------------------------------------------------------
(* The task. *)

\* Mutated form of Refused: a session in progress is not looked at.
RefusedByOther(s) == s = "ni" /\ ni["es"].raw # NoRequest

\* Another request of the same kind, or an emergency, is in progress.
Refused(s) == ni[s].raw # NoRequest \/ (s = "ni" /\ ni["es"].raw # NoRequest)

\* loc_eng_ni_request_handler: the request is saved, its waiter created and the
\* framework notified.  Request r itself stands for its notification_id.
HandleRequest(r, s) ==
  /\ queue' = Tail(queue)
  /\ IF Refused(s)
     THEN freed' = freed \cup {r} /\ UNCHANGED <<ni, waiter>>
     ELSE /\ ni' = [ni EXCEPT ![s].raw = r, ![s].reqID = r]
          /\ waiter' = [waiter EXCEPT ![r] = [@ EXCEPT !.pc = "waits", !.sess = s]]
          /\ UNCHANGED freed
  /\ UNCHANGED <<rpc, tLock, user, modem, said, late>>

\* LocEngInformNiResponse: proc, then the destructor frees the payload.
HandleAnswer(r) ==
  /\ queue' = Tail(queue)
  /\ freed' = freed \cup ({r} \ {NoRequest})
  /\ UNCHANGED <<rpc, ni, tLock, waiter, user, modem, said, late>>

\* loc_eng_ni_reset_on_engine_restart, at the beginning of loc_eng_handle_engine_down.
HandleDown ==
  /\ queue' = Tail(queue)
  /\ rpc' = [pc |-> "check", sess |-> "es"]
  /\ UNCHANGED <<ni, tLock, waiter, user, modem, said, late, freed>>

\* The reset goes on with the other session.
ResetNext == rpc' = IF rpc.sess = "es" THEN [pc |-> "check", sess |-> "ni"] ELSE Idle

\* The session is tested, and the payload freed, without tLock.
ResetCheck ==
  LET raw == ni[rpc.sess].raw
  IN  /\ rpc.pc = "check"
      /\ IF raw = NoRequest THEN ResetNext /\ UNCHANGED freed
         ELSE freed' = freed \cup {raw} /\ rpc' = [rpc EXCEPT !.pc = "clear"]
      /\ UNCHANGED <<queue, ni, tLock, waiter, user, modem, said, late>>

ResetClear ==
  /\ rpc.pc = "clear"
  /\ ni' = [ni EXCEPT ![rpc.sess].raw = NoRequest]
  /\ rpc' = [rpc EXCEPT !.pc = "wake"]
  /\ UNCHANGED <<queue, tLock, waiter, user, modem, said, late, freed>>

\* The waiter is woken up, to let it exit.
ResetWake ==
  /\ rpc.pc = "wake" /\ tLock[rpc.sess] = NoRequest
  /\ ni' = [ni EXCEPT ![rpc.sess].recvd = TRUE]
  /\ ResetNext
  /\ UNCHANGED <<queue, tLock, waiter, user, modem, said, late, freed>>

\* The task handles the message at the head of the queue.
Handle ==
  /\ rpc = Idle /\ queue # <<>>
  /\ LET m == Head(queue)
     IN  \/ m.type = "NI" /\ HandleRequest(m.req, m.sess)
         \/ m.type = "ANSWER" /\ HandleAnswer(m.req)
         \/ m.type = "DOWN" /\ HandleDown
-----------------------------------------------------------------------------
(* The waiters: ni_thread_proc. *)

\* Mutated form of Ended: the wait goes on after its time.
EndedByAnswer(s) == IF ni[s].recvd THEN {ni[s].resp} ELSE {}

\* How a wait may end: with the answer, or with ETIMEDOUT, which hides an answer
\* that comes at the same time.  The time that is left is not modelled.
Ended(s) == (IF ni[s].recvd THEN {ni[s].resp} ELSE {}) \cup {"NORESP"}

\* Mutated form of Consumed: the flag stays set for the next request.
ConsumedKeepsFlag(s, resp) == [ni[s] EXCEPT !.resp = resp]

\* "Reset the user response flag for the next session".
Consumed(s, resp) == [ni[s] EXCEPT !.recvd = FALSE, !.resp = resp]

\* The waiter has tLock and an answer, or the time is up: it resets respRecvd
\* and tests rawRequest.
WaiterEnds(r) ==
  LET s == waiter[r].sess
  IN  /\ waiter[r].pc = "waits" /\ tLock[s] = NoRequest
      /\ \E resp \in Ended(s) : ni' = [ni EXCEPT ![s] = Consumed(s, resp)]
      /\ tLock' = [tLock EXCEPT ![s] = r]
      /\ waiter' = [waiter EXCEPT ![r].pc = IF ni[s].raw = NoRequest THEN "unlocks" ELSE "takes"]
      /\ UNCHANGED <<queue, rpc, user, modem, said, late, freed>>

\* It takes the request for its message, or frees it if it is to be ignored.
WaiterTakes(r) ==
  LET s == waiter[r].sess
      ignored == ni[s].resp = "IGNORE"
  IN  /\ waiter[r].pc = "takes"
      /\ waiter' = [waiter EXCEPT ![r].pc = IF ignored THEN "leaves" ELSE "sends",
                                  ![r].req = IF ignored THEN NoRequest ELSE ni[s].raw,
                                  ![r].resp = ni[s].resp]
      /\ freed' = IF ignored THEN freed \cup ({ni[s].raw} \ {NoRequest}) ELSE freed
      /\ ni' = [ni EXCEPT ![s].raw = NoRequest]
      /\ tLock' = [tLock EXCEPT ![s] = NoRequest]
      /\ UNCHANGED <<queue, rpc, user, modem, said, late>>

\* A restart has taken the request away.
WaiterUnlocks(r) ==
  /\ waiter[r].pc = "unlocks"
  /\ tLock' = [tLock EXCEPT ![waiter[r].sess] = NoRequest]
  /\ waiter' = [waiter EXCEPT ![r].pc = "leaves"]
  /\ UNCHANGED <<queue, rpc, ni, user, modem, said, late, freed>>

\* Without tLock it clears reqID, and sends its message.
WaiterLeaves(r) ==
  /\ waiter[r].pc \in {"leaves", "sends"}
  /\ ni' = [ni EXCEPT ![waiter[r].sess].reqID = NoRequest]
  /\ queue' = IF waiter[r].pc = "sends"
              THEN Append(queue, Response(waiter[r].req, waiter[r].resp)) ELSE queue
  /\ waiter' = [waiter EXCEPT ![r] = [NoWaiter EXCEPT !.pc = "done"]]
  /\ UNCHANGED <<rpc, tLock, user, modem, said, late, freed>>
-----------------------------------------------------------------------------
(* The user. *)

Active(s, r) == ni[s].reqID = r /\ ni[s].raw # NoRequest

\* loc_eng_ni_respond, up to the first lock: the session of the notification,
\* if there still is one, is found without tLock.
Respond(r, a) ==
  LET ignores == a = "ACCEPT" /\ ni["ni"].raw # NoRequest
  IN  /\ user.pc = "idle" /\ waiter[r].pc # "none" /\ said[r] = "NONE"
      /\ said' = [said EXCEPT ![r] = a]
      /\ user' =
           CASE Active("es", r) -> [pc |-> IF ignores THEN "ignores" ELSE "sets",
                                    sess |-> "es", req |-> r, resp |-> a]
             [] ~Active("es", r) /\ Active("ni", r) ->
                  [pc |-> "sets", sess |-> "ni", req |-> r, resp |-> a]
             [] OTHER -> user
      /\ UNCHANGED <<queue, rpc, ni, tLock, waiter, modem, late, freed>>

\* An accepted emergency has the other session ignored.
UserIgnores ==
  /\ user.pc = "ignores" /\ tLock["ni"] = NoRequest
  /\ ni' = [ni EXCEPT !["ni"].resp = "IGNORE", !["ni"].recvd = TRUE]
  /\ user' = [user EXCEPT !.pc = "sets"]
  /\ UNCHANGED <<queue, rpc, tLock, waiter, modem, said, late, freed>>

UserSets ==
  /\ user.pc = "sets" /\ tLock[user.sess] = NoRequest
  /\ ni' = [ni EXCEPT ![user.sess].resp = user.resp, ![user.sess].recvd = TRUE]
  /\ user' = NoAnswer
  /\ late' = (late \/ waiter[user.req].pc # "waits")
  /\ UNCHANGED <<queue, rpc, tLock, waiter, modem, said, freed>>
-----------------------------------------------------------------------------
(* The modem. *)

ModemRequests(s) ==
  /\ modem.up /\ Len(queue) < MaxMsgs /\ modem.made < NumRequests
  /\ Send(Request(modem.made + 1, s))
  /\ modem' = [modem EXCEPT !.made = @ + 1]
  /\ UNCHANGED <<rpc, ni, tLock, waiter, user, said, late, freed>>

ModemCrashes ==
  /\ modem.up /\ modem.crashes < MaxCrashes
  /\ modem' = [modem EXCEPT !.up = FALSE, !.crashes = @ + 1]
  /\ Send(Down)
  /\ UNCHANGED <<rpc, ni, tLock, waiter, user, said, late, freed>>

ModemRecovers ==
  /\ ~modem.up
  /\ modem' = [modem EXCEPT !.up = TRUE]
  /\ UNCHANGED <<queue, rpc, ni, tLock, waiter, user, said, late, freed>>
-----------------------------------------------------------------------------
Reset == ResetCheck \/ ResetClear \/ ResetWake
Waiter(r) == WaiterEnds(r) \/ WaiterTakes(r) \/ WaiterUnlocks(r) \/ WaiterLeaves(r)
User == UserIgnores \/ UserSets

Next ==
  \/ Handle
  \/ Reset
  \/ \E r \in Requests : Waiter(r)
  \/ \E r \in Requests, a \in Answers : Respond(r, a)
  \/ User
  \/ \E s \in Sess : ModemRequests(s)
  \/ ModemCrashes
  \/ ModemRecovers

Spec == Init /\ [][Next]_vars

\* The threads run, waits expire, and a call that was begun ends.
FairSpec ==
  /\ Spec
  /\ WF_vars(Handle) /\ WF_vars(Reset) /\ WF_vars(User)
  /\ \A r \in Requests : WF_vars(Waiter(r))
-----------------------------------------------------------------------------
Resp == Answers \cup {"NONE", "NORESP", "IGNORE"}
MayBe == Requests \cup {NoRequest}

NiType == [raw : MayBe, recvd : BOOLEAN, resp : Resp, reqID : MayBe]
WaiterType == [pc : {"none", "waits", "takes", "unlocks", "sends", "leaves", "done"},
               sess : Sess, req : MayBe, resp : Resp]
UserType == [pc : {"idle", "ignores", "sets"}, sess : Sess, req : MayBe, resp : Answers \cup {"NONE"}]

TypeOK ==
  /\ rpc \in [pc : {"idle", "check", "clear", "wake"}, sess : Sess]
  /\ ni \in [Sess -> NiType]
  /\ tLock \in [Sess -> MayBe]
  /\ waiter \in [Requests -> WaiterType]
  /\ user \in UserType
  /\ modem \in [up : BOOLEAN, made : 0..NumRequests, crashes : Nat]
  /\ said \in [Requests -> Answers \cup {"NONE"}]
  /\ late \in BOOLEAN /\ freed \subseteq Requests

\* A request that was saved is answered, ignored or freed, whatever answers,
\* timeouts, emergencies and restarts of the modem do at the same time: its
\* payload is in its session, with a waiter, in a message, or freed.
NoRequestLost ==
  \A r \in Requests :
    waiter[r].pc # "none" /\ r \notin freed =>
      \/ \E s \in Sess : ni[s].raw = r
      \/ \E w \in Requests : waiter[w].req = r
      \/ \E i \in DOMAIN queue : queue[i].type = "ANSWER" /\ queue[i].req = r

\* What the modem is told of a request is what the user answered to it, although
\* one session after the other uses the same flag and the same answer: as long as
\* the modem has not restarted, and no answer came when its request had expired.
AnswerIsOwnIfTimely ==
  ~late /\ modem.crashes = 0 =>
    \A i \in DOMAIN queue :
      queue[i].type = "ANSWER" /\ queue[i].resp \in Answers => said[queue[i].req] = queue[i].resp

\* A request does not occupy its session for ever.
NiEnds == \A s \in Sess, r \in Requests : (ni[s].raw = r) ~> (ni[s].raw # r)
=============================================================================
