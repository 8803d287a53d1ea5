------------------------------ MODULE LocEngine ------------------------------
(***************************************************************************)
(* The location engine of the gps HAL (loc_eng.cpp): fix sessions, the     *)
(* status of the GPS engine, muted sessions, and aiding data that waits to *)
(* be deleted, across restarts of the modem.                               *)
(*                                                                         *)
(*   task     the thread of the adapter's MsgTask: it handles one message  *)
(*            of the queue after the other;                                *)
(*   app      start, stop and delete_aiding_data, which only send messages;*)
(*   modem    external: it reports its engine and its own restarts, and    *)
(*            makes the requests that NiSessions models.                   *)
(*                                                                         *)
(* Fix sessions are periodic: their positions change no state.  The modem  *)
(* refuses none while it is up.                                            *)
(***************************************************************************)
EXTENDS Naturals, Sequences

CONSTANTS
  Aiding,        \* kinds of aiding data
  MaxMsgs,       \* bound: how many messages wait when another one is sent
  MaxCrashes     \* bound: how often the modem restarts

ASSUME LocEngineAssumption == MaxMsgs \in Nat /\ MaxCrashes \in Nat

VARIABLES
  queue,      \* messages for the task
  eng,        \* the fields of loc_eng_data_s_type that tell the engine's state
  inSession,  \* the adapter's mNavigating
  modem,      \* external: [up, fix, engine, crashes]
  told,       \* history: the engine status the framework was told last
  wanted,     \* history: the application called start after its last stop
  offBy       \* history: whether a report or a restart set engine_status last

locVars == <<queue, eng, inSession, modem, told, wanted, offBy>>

Msg(type, arg) == [type |-> type, arg |-> arg]
Send(m) == queue' = Append(queue, m)
Room == Len(queue) < MaxMsgs

LocInit ==
  /\ queue = <<>>
  /\ eng = [engine |-> "NONE", fix |-> "NONE", mute |-> "NONE", aiding |-> {}]
  /\ inSession = FALSE
  /\ modem = [up |-> TRUE, fix |-> FALSE, engine |-> "OFF", crashes |-> 0]
  /\ told = "NONE" /\ wanted = FALSE /\ offBy = "report"
-----------------------------------------------------------------------------
(* The engine's state. *)

\* loc_eng_report_status: a session that is to be muted is muted from its begin,
\* or from the start of the engine, to its end.
MuteBegun(e, st) == IF st \in {"BEGIN", "ON"} /\ e.mute = "WAIT" THEN "IN" ELSE e.mute
Muted(e, st) ==
  IF MuteBegun(e, st) = "IN" /\ st \in {"END", "OFF"} THEN "NONE" ELSE MuteBegun(e, st)

Reported(e, st) ==
  [e EXCEPT !.mute = Muted(e, st),
            !.engine = IF st \in {"ON", "OFF"} THEN st ELSE @,
            !.fix = IF st \in {"BEGIN", "END"} THEN st ELSE @]

\* Mutated form of Told: the status is reported before muting ends.
ToldBeforeUnmute(e, st) == IF st \in {"ON", "OFF"} /\ MuteBegun(e, st) # "IN" THEN st ELSE told

\* The status of a muted session is kept from the framework; of what it is told,
\* the last status of the engine is noted.
Told(e, st) == IF st \in {"ON", "OFF"} /\ Muted(e, st) # "IN" THEN st ELSE told

\* update_aiding_data_for_deletion
Deleting(e) == IF e.engine # "ON" THEN [e EXCEPT !.aiding = {}] ELSE e

\* Mutated form of HandleStatus: pending deletions wait for another message.
HandleStatusOnly(st) ==
  /\ eng' = Reported(eng, st) /\ told' = Told(eng, st)
  /\ offBy' = IF st \in {"ON", "OFF"} THEN "report" ELSE offBy
  /\ queue' = Tail(queue)
  /\ UNCHANGED <<inSession, modem, wanted>>

\* LocEngReportStatus::proc
HandleStatus(st) ==
  /\ eng' = Deleting(Reported(eng, st)) /\ told' = Told(eng, st)
  /\ offBy' = IF st \in {"ON", "OFF"} THEN "report" ELSE offBy
  /\ queue' = Tail(queue)
  /\ UNCHANGED <<inSession, modem, wanted>>

\* LocEngDelAidData::proc: a new request replaces the one that waits.
HandleDelete(kinds) ==
  /\ eng' = Deleting([eng EXCEPT !.aiding = kinds])
  /\ queue' = Tail(queue)
  /\ UNCHANGED <<inSession, modem, told, wanted, offBy>>

\* loc_eng_start_handler: a modem that is down is no reason to give the session up.
HandleStart ==
  /\ inSession' = TRUE
  /\ modem' = IF inSession THEN modem ELSE [modem EXCEPT !.fix = modem.up]
  /\ queue' = Tail(queue)
  /\ UNCHANGED <<eng, told, wanted, offBy>>

\* loc_eng_stop_handler
HandleStop ==
  /\ inSession' = FALSE
  /\ modem' = IF inSession THEN [modem EXCEPT !.fix = FALSE] ELSE modem
  /\ queue' = Tail(queue)
  /\ UNCHANGED <<eng, told, wanted, offBy>>

\* Mutated form of HandleUp: the adapter still is in a session.
HandleUpInSession ==
  /\ queue' = IF inSession THEN Append(Tail(queue), Msg("START", {})) ELSE Tail(queue)
  /\ UNCHANGED <<eng, inSession, modem, told, wanted, offBy>>

\* loc_eng_handle_engine_up: a session that the restart has cut off is begun
\* again, by a message behind those that wait already.
HandleUp ==
  /\ inSession' = FALSE
  /\ queue' = IF inSession THEN Append(Tail(queue), Msg("START", {})) ELSE Tail(queue)
  /\ UNCHANGED <<eng, modem, told, wanted, offBy>>

\* loc_eng_mute_one_session, for a request that overrides privacy.
HandleOverride ==
  /\ eng' = [eng EXCEPT !.mute = "WAIT"]
  /\ queue' = Tail(queue)
  /\ UNCHANGED <<inSession, modem, told, wanted, offBy>>

\* loc_eng_handle_engine_down: pending deletions are not looked at.
HandleDown ==
  /\ eng' = Reported(eng, "OFF") /\ told' = Told(eng, "OFF") /\ offBy' = "restart"
  /\ queue' = Tail(queue)
  /\ UNCHANGED <<inSession, modem, wanted>>

\* The task handles the message at the head of the queue.
Handle ==
  /\ queue # <<>>
  /\ LET m == Head(queue)
     IN  \/ m.type = "STATUS" /\ HandleStatus(m.arg)
         \/ m.type = "DELETE" /\ HandleDelete(m.arg)
         \/ m.type = "START" /\ HandleStart
         \/ m.type = "STOP" /\ HandleStop
         \/ m.type = "UP" /\ HandleUp
         \/ m.type = "DOWN" /\ HandleDown
         \/ m.type = "OVERRIDE" /\ HandleOverride
-----------------------------------------------------------------------------
\* loc_eng_start, loc_eng_stop and loc_eng_delete_aiding_data only send.
Start == Room /\ Send(Msg("START", {})) /\ wanted' = TRUE
           /\ UNCHANGED <<eng, inSession, modem, told, offBy>>
Stop == Room /\ Send(Msg("STOP", {})) /\ wanted' = FALSE
          /\ UNCHANGED <<eng, inSession, modem, told, offBy>>
DeleteAiding(kinds) ==
  Room /\ Send(Msg("DELETE", kinds)) /\ UNCHANGED <<eng, inSession, modem, told, wanted, offBy>>

\* The modem reports its engine, which it may also use without the application.
EngineStep == [OFF |-> {"ON"}, ON |-> {"BEGIN", "OFF"}, BEGIN |-> {"END"}]
ModemReports(st) ==
  /\ modem.up /\ Room /\ st \in EngineStep[modem.engine]
  /\ Send(Msg("STATUS", st))
  /\ modem' = [modem EXCEPT !.engine = IF st = "END" THEN "ON" ELSE st]
  /\ UNCHANGED <<eng, inSession, told, wanted, offBy>>

\* It makes a request that overrides privacy.
ModemOverrides ==
  /\ modem.up /\ Room
  /\ Send(Msg("OVERRIDE", {}))
  /\ UNCHANGED <<eng, inSession, modem, told, wanted, offBy>>

ModemCrashes ==
  /\ modem.up /\ modem.crashes < MaxCrashes
  /\ modem' = [up |-> FALSE, fix |-> FALSE, engine |-> "OFF", crashes |-> modem.crashes + 1]
  /\ Send(Msg("DOWN", {}))
  /\ UNCHANGED <<eng, inSession, told, wanted, offBy>>

ModemRecovers ==
  /\ ~modem.up
  /\ modem' = [modem EXCEPT !.up = TRUE]
  /\ Send(Msg("UP", {}))
  /\ UNCHANGED <<eng, inSession, told, wanted, offBy>>

Statuses == {"ON", "OFF", "BEGIN", "END"}

LocNext ==
  \/ Handle
  \/ Start \/ Stop
  \/ \E kinds \in SUBSET Aiding : DeleteAiding(kinds)
  \/ \E st \in Statuses : ModemReports(st)
  \/ ModemOverrides \/ ModemCrashes \/ ModemRecovers

LocSpec == LocInit /\ [][LocNext]_locVars

\* The task runs, and the modem comes back.
LocFairSpec == LocSpec /\ WF_locVars(Handle) /\ WF_locVars(ModemRecovers)
-----------------------------------------------------------------------------
LocTypeOK ==
  /\ eng \in [engine : {"NONE", "ON", "OFF"}, fix : {"NONE", "BEGIN", "END"},
              mute : {"NONE", "WAIT", "IN"}, aiding : SUBSET Aiding]
  /\ inSession \in BOOLEAN /\ wanted \in BOOLEAN
  /\ modem \in [up : BOOLEAN, fix : BOOLEAN, engine : {"OFF", "ON", "BEGIN"}, crashes : Nat]
  /\ told \in {"NONE", "ON", "OFF"} /\ offBy \in {"report", "restart"}

\* Muting ends with the session that it was for: reports are kept from the
\* framework only while the engine or a session runs.
MuteEnds == eng.mute = "IN" => eng.engine = "ON" \/ eng.fix = "BEGIN"

\* However sessions are muted, and however the modem restarts, the framework
\* does not go on believing in an engine that is off.
EngineOffTold == eng.engine = "OFF" => told # "ON"

\* loc_eng_delete_aiding_data: "Otherwise, the actual action will happen when gps
\* engine is turned off": nothing is left to delete when the engine has reported
\* that it is off.
AidingDeleted == eng.engine # "ON" /\ offBy = "report" => eng.aiding = {}

\* The application that goes on wanting fixes gets them, across restarts.
NavigationResumes == wanted ~> (modem.fix \/ ~wanted)
=============================================================================
