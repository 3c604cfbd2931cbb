------------------------------- MODULE QueueDesk -------------------------------
(***************************************************************************)
(* queue-api as one process: handle_ami_event hands each AMI event to the  *)
(* trackers in turn (server.py), and a tracker that raises ends the        *)
(* handling of the event; a restart loses what is only in memory.          *)
(***************************************************************************)
EXTENDS WaitingMirror, QueueSla, AgentBoard, CallRecords

\* The calls of which the service level is told are others than those of the mirror.
ASSUME DeskAssumption == SlaIds \cap Calls = {} /\ AnyChannel \in Channels

deskVars == <<streamVars, mirrorVars, slaVars, boardVars, recordVars>>
DeskInit == StreamInit /\ MirrorInit /\ SlaInit /\ BoardInit /\ RecordsInit

\* The trackers that never raise and come before the service level.
FirstTrackers(e) ==
  /\ SetMirror(ApplyEvent(Mirror, e))
  /\ members' = IF e.kind \in MemberKinds THEN MemberApply(e) ELSE members
  /\ Cdrs(e)

\* Those between the service level and the records.
Hint(e) == lit' = IF e.kind = "hint" THEN HintApply(e) ELSE lit
NoPauseHeard == UNCHANGED <<pauses, pauseLog, heardPause>>
Pause(e) == IF e.kind = "member_pause" THEN PauseHears(e) ELSE NoPauseHeard
Sla(e) == IF Outcome(e) THEN SlaHears(e) ELSE UNCHANGED slaVars
RestUnheard == UNCHANGED <<callLog, surveys, missed, quality, alerts, rates, notices, emitted, heard>>

HandleAmiEvent(i, again) ==
  /\ Take(i, again)
  /\ LET e == wire[i]
         d == Disorder(i, again)
     IN  /\ FirstTrackers(e)
         /\ \/ Sla(e) /\ Hint(e) /\ Pause(e) /\ RecordsHear(e) /\ Mishaps(d)
            \/ \E how \in {"full", "failed", "torn"} :
                 /\ Outcome(e) /\ SlaFails(how)
                 /\ IF how = "full" THEN MishapsAnd(d, {"failed"}) ELSE Mishaps(d \cup {how})
                 /\ UNCHANGED lit /\ NoPauseHeard /\ RestUnheard
            \/ /\ e.kind = "member_pause" /\ Mishaps(d \cup {"failed"})
               /\ Sla(e) /\ Hint(e) /\ PauseFails(e) /\ RestUnheard
            \/ Sla(e) /\ Hint(e) /\ Pause(e) /\ RecordsFail(e) /\ Mishaps(d \cup {"failed"})
  /\ UNCHANGED <<place, stays, desk, seats, lamps, told, overrides, presence, wanted, served, now>>

\* The process is started again: memory is empty, what was on the wire is lost, the files
\* and Asterisk stay, and so do the pickups that were already redirected.
Restart ==
  /\ Mishap("restart") /\ wire' = <<>>
  /\ waiting' = [ch \in Channels |-> NoRow] /\ counters' = <<>>
  /\ desk' = [o \in Operators |-> IdleDesk]
  /\ sla' = Fresh(DayKey(now))
  /\ members' = [p \in Pairs |-> NoSeat] /\ pauses' = [x \in Agents |-> NoPause] /\ lit' = <<>>
  /\ presence' = [t \in PresenceThreads |-> IdlePresence]
  /\ daily' = FreshDay(DayKey(now)) /\ tenantDaily' = [day |-> DayKey(now), by |-> <<>>]
  /\ missed' = <<>> /\ quality' = <<>> /\ alerts' = <<>> /\ rates' = <<>>
  /\ UNCHANGED <<now, place, stays, history, offers, seats, lamps, told, pauseLog, overrides,
                 wanted, served, heardPause, callLog, surveys, notices, emitted, heard>>

Clock == SetClock /\ UNCHANGED <<mirrorVars, slaVars, boardVars, recordVars>>

\* What happens in one part: in Asterisk, in a request of an HTTP thread.
OfMirror == MirrorStep /\ UNCHANGED <<slaVars, boardVars, recordVars>>
OfSla == SlaStep /\ UNCHANGED <<mirrorVars, boardVars, recordVars>>
OfBoard == BoardStep /\ UNCHANGED <<mirrorVars, slaVars, recordVars>>
OfPresence == PresenceStep /\ UNCHANGED <<mirrorVars, slaVars, recordVars>>
OfCdrs == CdrStep /\ UNCHANGED <<mirrorVars, slaVars, boardVars>>
OfCalls == CallStep /\ UNCHANGED <<mirrorVars, slaVars, boardVars>>

DeskNext ==
  \/ \E i \in DOMAIN wire, again \in BOOLEAN : HandleAmiEvent(i, again)
  \/ Restart \/ Clock \/ OfMirror \/ OfSla \/ OfBoard \/ OfPresence
  \/ OfCdrs \/ OfCalls
DeskSpec == DeskInit /\ [][DeskNext]_deskVars

----------------------------------------------------------------------------
\* Whatever the order in which the events of a reused channel name come, a row is only
\* removed by the end of a stay of its own call in its own queue, by its age or by a
\* pickup.  "Nunca deixar um evento antigo remover a nova chamada."
RowsEndWithTheirCall ==
  [][\A ch \in Channels :
       waiting[ch] # NoRow /\ waiting'[ch] = NoRow /\ ~Restart =>
         \/ <<waiting[ch].id, waiting[ch].queue>> \in stays.ended
         \/ ch \in Expired(waiting)
         \/ \E o \in Operators : desk[o].pc = "answer" /\ desk[o].channel = ch]_mirrorVars
===============================================================================
