------------------------------- MODULE AgentBoard -------------------------------
(***************************************************************************)
(* queue-api: what it knows of the agents.  Their seats in the queues      *)
(* (queue_membership.py), their pauses and the history of the pauses       *)
(* (agent_pause.py) and the state of the extensions (extension_states.py)  *)
(* follow AMI events; presence is set by hand (presence.py).               *)
(***************************************************************************)
EXTENDS AmiStream

CONSTANTS Agents, AgentQueues, Allowed,   \* Allowed: pairs of QUEUE_MEMBER_ALLOWED_EXTENSIONS
          Reasons, MaxSeats,
          Hints, HintStates, MaxHints,    \* a hint is <<context, number>>
          Statuses, PresenceThreads,
          MaxAgentEvents, MaxPresence

VARIABLES seats,      \* Asterisk: <<queue, agent>> to "out", "free" or the reason of a pause
          lamps,      \* Asterisk: the state of each hint
          told,       \* Asterisk: how many changes it made
          members,    \* QueueMemberTracker: <<queue, agent>> to row
          pauses,     \* AgentPauseStore
          pauseLog,   \* the rows of its history
          lit,        \* ExtensionStateTracker
          overrides,  \* the presence file
          presence,   \* the threads of POST and DELETE /api/presence
          wanted,     \* what the presence changes that were confirmed ask for
          served,
          heardPause  \* the pauses as heard of: on or off, since when, seconds before,
              \* and whether one shown as paused ever paused again for another reason
boardVars == <<seats, lamps, told, members, pauses, pauseLog, lit, overrides, presence, wanted,
               served, heardPause>>

ASSUME BoardAssumption ==
  /\ IsFiniteSet(Agents) /\ IsFiniteSet(AgentQueues) /\ MaxSeats \in Nat
  /\ Reasons \cap {"out", "free", "paused"} = {}

Pairs == AgentQueues \X Agents
NoSeat == [known |-> FALSE, paused |-> FALSE]
NoPause == [known |-> FALSE, paused |-> FALSE, reason |-> "", since |-> 0]
IdlePresence == [pc |-> "idle", agent |-> "", status |-> "", data |-> <<>>]

BoardInit ==
  /\ seats = [p \in Pairs |-> "out"] /\ lamps = [h \in Hints |-> "unknown"] /\ told = 0
  /\ members = [p \in Pairs |-> NoSeat] /\ pauses = [x \in Agents |-> NoPause] /\ pauseLog = <<>>
  /\ lit = <<>> /\ overrides = <<>> /\ wanted = <<>> /\ served = 0
  /\ presence = [t \in PresenceThreads |-> IdlePresence]
  /\ heardPause = [x \in Agents |-> [on |-> FALSE, at |-> 0, before |-> 0, mixed |-> FALSE]]

----------------------------------------------------------------------------
(* Asterisk, by the commands of this API or of others.                     *)

Seat(p) == [queue |-> p[1], agent |-> p[2]]
MemberEvent(kind, p, seat) ==
  [kind |-> kind, queue |-> p[1], agent |-> p[2], paused |-> seat \notin {"out", "free"},
   reason |-> IF seat \in {"out", "free", "paused"} THEN "" ELSE seat]
Changes == told < MaxAgentEvents /\ told' = told + 1
BoardUnheard == UNCHANGED <<members, pauses, pauseLog, lit, overrides, presence, wanted, served,
                            heardPause, now>>

\* A pause has a reason, its end has none; but one may join paused, without a reason.
ValidPause(seat) == seat \in {"free"} \cup Reasons
ValidChange(p, operation, seat) ==
  /\ p \in Allowed
  /\ CASE operation = "join" -> seat \in {"free", "paused"}
       [] operation = "leave" -> seat = "out"
       [] operation = "pause" -> ValidPause(seat)

\* POST /api/queue/members/join, leave and pause: QueueAdd, QueueRemove and QueuePause
\* of one queue; the snapshot waits for the event.
MemberChange(p, operation, seat) ==
  /\ ValidChange(p, operation, seat) /\ Changes /\ seats[p] # seat
  /\ (seats[p] = "out" <=> operation = "join")
  /\ seats' = [seats EXCEPT ![p] = seat]
  /\ \/ seats[p] = "out" /\ Tell(<<MemberEvent("member_added", p, seat)>>) /\ NoMishap
     \/ /\ seats[p] # "out" /\ seat = "out" /\ Tell(<<MemberEvent("member_removed", p, seats[p])>>)
        /\ IF seats[p] = "free" THEN NoMishap ELSE Note("left_paused")
     \/ seats[p] # "out" /\ seat # "out" /\ Tell(<<MemberEvent("member_pause", p, seat)>>) /\ NoMishap
  /\ UNCHANGED lamps /\ BoardUnheard

\* POST /api/queue/pause: QueuePause without a queue reaches all those of the agent.
SetPause(x, seat) ==
  LET mine == {p \in Pairs : p[2] = x /\ seats[p] # "out"}
  IN  /\ ValidPause(seat) /\ mine # {} /\ Changes
      /\ seats' = [p \in Pairs |-> IF p \in mine THEN seat ELSE seats[p]]
      /\ Tell(SetToSeq({MemberEvent("member_pause", p, seat) : p \in mine}))
      /\ UNCHANGED lamps /\ NoMishap /\ BoardUnheard

\* A device changes: a hint, and the seats of the agent tell their status again.
DeviceChange(p, h, s) ==
  /\ Changes /\ lamps[h] # s
  /\ lamps' = [lamps EXCEPT ![h] = s] /\ UNCHANGED seats
  /\ Tell(<<[kind |-> "hint", hint |-> h, state |-> s]>> \o
          IF seats[p] = "out" THEN <<>> ELSE <<MemberEvent("member_status", p, seats[p])>>)
  /\ NoMishap /\ BoardUnheard

----------------------------------------------------------------------------
(* The trackers.                                                           *)

MemberKinds == {"member_added", "member_removed", "member_pause", "member_status"}
MemberApply(e) ==
  LET p == <<e.queue, e.agent>>
      creates == e.kind \in {"member_added", "member_status"}
  IN  IF e.kind = "member_removed" THEN [members EXCEPT ![p] = NoSeat]
      ELSE IF ~members[p].known
                /\ (~creates \/ Cardinality({r \in Pairs : members[r].known}) >= MaxSeats)
           THEN members
      ELSE [members EXCEPT ![p] = [known |-> TRUE, paused |-> e.paused]]

With(f, k, v) == [x \in DOMAIN f \cup {k} |-> IF x = k THEN v ELSE f[x]]

\* Mutant: at the limit no hint changes any more.
HintApplyAtLimit(e) == IF Cardinality(DOMAIN lit) < MaxHints THEN With(lit, e.hint, e.state) ELSE lit

\* Hints that were never seen are refused beyond the limit; known ones always change.
HintApply(e) ==
  IF e.hint \in DOMAIN lit \/ Cardinality(DOMAIN lit) < MaxHints THEN With(lit, e.hint, e.state) ELSE lit

\* Mutant: a repeated pause starts the clock of the pause again.
RepeatsNever(e) == FALSE

\* AgentPauseStore.apply_event.  The row is appended before the state changes.
Repeats(e) == LET old == pauses[e.agent]
              IN  old.known /\ old.paused = e.paused /\ (~e.paused \/ old.reason = e.reason)
Closes(e) == ~Repeats(e) /\ ~e.paused /\ pauses[e.agent].known /\ pauses[e.agent].paused
PauseRow(e) == [agent |-> e.agent, reason |-> pauses[e.agent].reason,
                started |-> pauses[e.agent].since, ended |-> now,
                duration |-> IF now > pauses[e.agent].since THEN now - pauses[e.agent].since ELSE 0]
Heard(e) ==
  LET h == heardPause[e.agent]
      old == pauses[e.agent]
  IN  heardPause' = [heardPause EXCEPT ![e.agent] =
        [on |-> e.paused, at |-> now,
         mixed |-> h.mixed \/ (old.paused /\ e.paused /\ old.reason # e.reason),
         before |-> h.before + IF h.on /\ now > h.at THEN now - h.at ELSE 0]]
PauseHears(e) ==
  /\ pauses' = IF Repeats(e) THEN pauses
               ELSE [pauses EXCEPT ![e.agent] = [known |-> TRUE, paused |-> e.paused,
                        reason |-> IF e.paused THEN e.reason ELSE "", since |-> now]]
  /\ pauseLog' = IF Closes(e) THEN Append(pauseLog, PauseRow(e)) ELSE pauseLog
  /\ Heard(e)
PauseFails(e) == Closes(e) /\ UNCHANGED <<pauses, pauseLog>> /\ Heard(e)

----------------------------------------------------------------------------
(* POST and DELETE /api/presence: load, change, replace the file; a thread *)
(* per request and no lock.                                                *)

PresenceBusy == {t \in PresenceThreads : presence[t].pc = "loaded"}
LoadPresence == overrides
AskPresence(t, x, status) ==
  /\ presence[t].pc = "idle" /\ served < MaxPresence /\ served' = served + 1
  /\ presence' = [presence EXCEPT ![t] = [pc |-> "loaded", agent |-> x, status |-> status,
                                          data |-> LoadPresence]]
  /\ IF PresenceBusy = {} THEN NoMishap ELSE Note("overlap")
  /\ UNCHANGED <<seats, lamps, told, members, pauses, pauseLog, lit, overrides, wanted, heardPause,
                 wire, now>>

Without(file, x) == [y \in DOMAIN file \ {x} |-> file[y]]
Changed(file, r) == IF r.status = "clear" THEN Without(file, r.agent) ELSE With(file, r.agent, r.status)

\* The temporary file may fail to be written: the old one stays.
SavePresence(t) ==
  LET r == presence[t] IN
  /\ r.pc = "loaded"
  /\ \/ overrides' = Changed(r.data, r) /\ wanted' = Changed(wanted, r) /\ NoMishap
     \/ UNCHANGED <<overrides, wanted>> /\ Mishap("failed")
  /\ presence' = [presence EXCEPT ![t] = IdlePresence]
  /\ UNCHANGED <<seats, lamps, told, members, pauses, pauseLog, lit, served, heardPause, wire, now>>

----------------------------------------------------------------------------
(* GET /api/extension-states: what the panel of a company shows.           *)

SnapshotOf(context) == {h \in DOMAIN lit : h[1] = context}
\* The number of the hint is looked up in maps that are keyed by extension names.
PanelEntry(h) ==
  [label |-> lit[h],
   manual |-> IF h[2] \in DOMAIN overrides THEN overrides[h[2]] ELSE "none",
   pause |-> IF h[2] \in Agents /\ pauses[h[2]].paused THEN pauses[h[2]].reason ELSE "none"]
Panel(context) == [h \in SnapshotOf(context) |-> PanelEntry(h)]

BoardStep ==
  \/ \E p \in Pairs, operation \in {"join", "leave", "pause"}, seat \in {"out", "free", "paused"} \cup Reasons :
       MemberChange(p, operation, seat)
  \/ \E x \in Agents, seat \in {"free"} \cup Reasons : SetPause(x, seat)
  \/ \E p \in Pairs, h \in Hints, s \in HintStates : DeviceChange(p, h, s)
PresenceStep ==
  \E t \in PresenceThreads :
    SavePresence(t) \/ \E x \in Agents, s \in Statuses \cup {"clear"} : AskPresence(t, x, s)

----------------------------------------------------------------------------
(* Properties.                                                             *)

InOrder == wire = <<>> /\ Never({"disorder", "restart"})
SeatsOf(x) == {seats[p] : p \in {p \in Pairs : p[2] = x /\ seats[p] # "out"}}

\* Once every event has been heard in its turn, the board shows Asterisk's agents: a row
\* for each seat that fits and none for the others, paused like the seat; an agent whose
\* queues are all free is shown as such, unless the history refused the end of a pause or
\* the agent left a queue while paused (no event tells of that end); and presence changes
\* that did not overlap are in the file.
BoardFollowsAsterisk ==
  /\ InOrder =>
       /\ \A p \in Pairs : members[p].known =>
            seats[p] # "out" /\ (members[p].paused <=> seats[p] # "free")
       /\ told <= MaxSeats => \A p \in Pairs : seats[p] # "out" => members[p].known
       /\ \A h \in DOMAIN lit : lit[h] = lamps[h]
       /\ Never({"failed", "left_paused"}) => \A x \in Agents :
            (SeatsOf(x) = {"free"} => ~pauses[x].paused)
  /\ Never({"overlap"}) => overrides = wanted

\* The seconds of the history of an agent, those of the running pause, and those heard of.
LoggedSeconds(log, x) ==
  UNION {{i} \X (1..log[i].duration) : i \in {i \in DOMAIN log : log[i].agent = x}}
RunningFor(x) == IF pauses[x].paused THEN now - pauses[x].since ELSE 0
HeardFor(x) == heardPause[x].before + IF heardPause[x].on THEN now - heardPause[x].at ELSE 0

\* The rows of the history and the running pause account for the time an agent was heard
\* to be paused: none of it is lost when a row cannot be written, unless the process died
\* or an agent shown as paused paused for another reason; and none is counted twice, unless
\* a row could not be written.
PauseTimeIsTrue ==
  \A x \in Agents :
    LET accounted == Cardinality(LoggedSeconds(pauseLog, x)) + RunningFor(x)
    IN  Never({"setback"}) =>
          /\ Never({"restart"}) /\ ~heardPause[x].mixed => accounted >= HeardFor(x)
          /\ Never({"failed"}) => accounted <= HeardFor(x)
===============================================================================
