------------------------------- MODULE AmiClient -------------------------------
(***************************************************************************)
(* ami_client.py of queue-api: one TCP connection to Asterisk shared by    *)
(* the HTTP threads, the event worker and the thread that logs in.         *)
(*                                                                         *)
(* A single reader owns the socket. A caller registers a waiter under its  *)
(* ActionID, sends the action and waits; the reader hands each reply to    *)
(* the waiter of its ActionID and each event to a bounded queue, which a   *)
(* worker empties by running handle_ami_event. The handler may itself send *)
(* an action and wait. When the stream breaks, or the queue overflows, the *)
(* reader fails all the waiters and the connection is never made again.    *)
(*                                                                         *)
(* The socket has a timeout of one second, so a send may fail on a link    *)
(* that is up, after a part of the action was written. Nobody closes the   *)
(* connection then: the fragment stays in the stream, and Asterisk reads   *)
(* it and the next action that is written as one.                          *)
(*                                                                         *)
(* An ActionID is a random token, so the Ids of the model are fresh.       *)
(***************************************************************************)
EXTENDS Naturals, Sequences

CONSTANTS
  Main,            (* the thread of main(), which logs in                  *)
  Clients,         (* HTTP threads                                         *)
  Worker,          (* the ami-events thread                                *)
  Ids,             (* ActionIDs; bound: calls in a behaviour               *)
  MaxQueued,       (* MAX_AMI_EVENTS_QUEUED                                *)
  MaxEvents,       (* bound: events in a behaviour                         *)
  None

Threads == {Main, Worker} \cup Clients

ASSUME ClientAssumption ==
  /\ Main # Worker /\ Main \notin Clients /\ Worker \notin Clients
  /\ None \notin Threads /\ None \notin Ids
  /\ MaxQueued \in Nat \ {0} /\ MaxEvents \in Nat

VARIABLES
  running,         (* _running                                             *)
  phase,           (* main(): logging in, serving HTTP, or giving up       *)
  link,            (* the TCP connection                                   *)
  fragment,        (* actions written in part since the last whole one     *)
  outgoing,        (* frames on their way to Asterisk                      *)
  incoming,        (* frames on their way to the reader, buffer included   *)
  pending,         (* _pending: the ActionIDs that have a waiter           *)
  waiter,          (* the waiters: verdict and ready event                 *)
  sendLock,        (* _send_lock                                           *)
  call,            (* what each thread is doing in _send_action_and_wait   *)
  reader,          (* the ami-reader thread                                *)
  eventQueue,      (* _event_queue                                         *)
  worker,          (* the ami-events thread                                *)
  performed,       (* history: what Asterisk did with each action          *)
  readAs,          (* history: the action that each was read as            *)
  torn,            (* history: the actions that were written in part       *)
  answer,          (* history: what the caller of each action was told     *)
  emitted,         (* history: events Asterisk has sent, 1..emitted        *)
  handled          (* history: events given to on_event                    *)

asterisk == <<performed, readAs, emitted>>
network == <<link, fragment, torn, outgoing, incoming, asterisk>>
callers == <<call, sendLock, answer, phase>>
events  == <<eventQueue, worker, handled>>
vars    == <<running, pending, waiter, reader, network, callers, events>>

-----------------------------------------------------------------------------

Verdicts == {"Success", "Error"}

(* What ends with an empty line: an action, and before it the ones whose   *)
(* writing was cut short.                                                  *)
Request == [last : Ids, before : SUBSET Ids]

Members(f) == f.before \cup {f.last}

Frame == [kind : {"reply"}, id : Ids, verdict : Verdicts]
           \cup [kind : {"event"}, number : 1..MaxEvents]

Waiter == [verdict : Verdicts \cup {"none", "interrupted"}, ready : BOOLEAN]

(* A waiter the reader is about to settle: its ActionID and its verdict.   *)
Notice == [id : Ids, verdict : Verdicts \cup {"interrupted"}]

Idle == [pc |-> "idle"]

Outcomes == Verdicts \cup {"unknown", "refused"}

Call == {Idle} \cup
  [pc : {"called", "checked", "registered", "sending", "waiting"}, id : Ids] \cup
  [pc : {"leaving"}, id : Ids, outcome : Outcomes]

Reader ==
  [pc : {"reading", "failing", "dead"}] \cup
  [pc : {"dispatching"}, frame : Frame] \cup
  [pc : {"telling", "signalling"}, notice : Notice] \cup
  [pc : {"interrupting"}, ids : SUBSET Ids]

WorkerState == [pc : {"polling", "ended"}] \cup [pc : {"handling"}, event : 1..MaxEvents]

TypeOK ==
  /\ running \in BOOLEAN /\ phase \in {"login", "serving", "stopping", "stopped"}
  /\ link \in {"up", "broken"}
  /\ fragment \subseteq Ids /\ torn \subseteq Ids
  /\ outgoing \subseteq Request /\ incoming \in Seq(Frame)
  /\ pending \subseteq Ids
  /\ waiter \in [Ids -> Waiter]
  /\ sendLock \in Threads \cup {None}
  /\ call \in [Threads -> Call]
  /\ reader \in Reader
  /\ eventQueue \in Seq(1..MaxEvents) /\ Len(eventQueue) <= MaxQueued
  /\ worker \in WorkerState
  /\ performed \in [Ids -> Verdicts \cup {"none"}] /\ readAs \in [Ids -> Ids]
  /\ answer \in [Ids -> Outcomes \cup {"none", "asked"}]
  /\ emitted \in 0..MaxEvents
  /\ handled \in Seq(1..MaxEvents)

(* The state in which connect_and_login has started the two threads.       *)
Init ==
  /\ running = TRUE /\ phase = "login"
  /\ link = "up" /\ outgoing = {} /\ incoming = <<>>
  /\ fragment = {} /\ torn = {}
  /\ pending = {}
  /\ waiter = [i \in Ids |-> [verdict |-> "none", ready |-> FALSE]]
  /\ sendLock = None
  /\ call = [t \in Threads |-> Idle]
  /\ reader = [pc |-> "reading"]
  /\ eventQueue = <<>> /\ handled = <<>>
  /\ worker = [pc |-> "polling"]
  /\ performed = [i \in Ids |-> "none"] /\ readAs = [i \in Ids |-> i]
  /\ answer = [i \in Ids |-> "none"]
  /\ emitted = 0

-----------------------------------------------------------------------------
(* _send_action_and_wait.                                                  *)

MayCall(t) ==
  CASE t = Main   -> phase = "login"
    [] t = Worker -> worker.pc = "handling"
    [] OTHER      -> phase = "serving"

Goto(t, state) == call' = [call EXCEPT ![t] = state]

(* The call is over; main() serves HTTP only after a Success to its Login. *)
Return(t, outcome) ==
  /\ answer' = [answer EXCEPT ![call[t].id] = outcome]
  /\ Goto(t, Idle)
  /\ phase' = IF t # Main THEN phase
              ELSE IF outcome = "Success" THEN "serving" ELSE "stopping"

Begin(t, i) ==
  /\ call[t] = Idle /\ MayCall(t)
  /\ answer[i] = "none"
  /\ answer' = [answer EXCEPT ![i] = "asked"]
  /\ Goto(t, [pc |-> "called", id |-> i])
  /\ UNCHANGED <<running, pending, waiter, reader, network, sendLock, phase, events>>

NotConnected(t) ==
  /\ call[t].pc = "called" /\ ~ running
  /\ Return(t, "refused")
  /\ UNCHANGED <<running, pending, waiter, reader, network, sendLock, events>>

Check(t) ==
  /\ call[t].pc = "called" /\ running
  /\ Goto(t, [call[t] EXCEPT !.pc = "checked"])
  /\ UNCHANGED <<running, pending, waiter, reader, network, sendLock, answer, phase, events>>

Register(t) ==
  /\ call[t].pc = "checked"
  /\ pending' = pending \cup {call[t].id}
  /\ Goto(t, [call[t] EXCEPT !.pc = "registered"])
  /\ UNCHANGED <<running, waiter, reader, network, sendLock, answer, phase, events>>

Leaving(i, outcome) == [pc |-> "leaving", id |-> i, outcome |-> outcome]

(* Mutant: _running is not looked at again once the waiter is registered.  *)
LockWithoutLooking(t) ==
  /\ call[t].pc = "registered" /\ sendLock = None
  /\ sendLock' = t
  /\ Goto(t, [call[t] EXCEPT !.pc = "sending"])
  /\ UNCHANGED <<running, pending, waiter, reader, network, answer, phase, events>>

(* Under _send_lock _running is read again: a waiter registered after      *)
(* _fail_pending must not be waited for.                                   *)
Lock(t) ==
  /\ call[t].pc = "registered" /\ sendLock = None
  /\ IF running
     THEN /\ sendLock' = t
          /\ Goto(t, [call[t] EXCEPT !.pc = "sending"])
     ELSE /\ Goto(t, Leaving(call[t].id, "refused"))
          /\ UNCHANGED sendLock
  /\ UNCHANGED <<running, pending, waiter, reader, network, answer, phase, events>>

(* sendall: into a broken connection too, whose end it may not know yet.   *)
(* The action completes the frame of the fragments before it.              *)
Send(t) ==
  /\ call[t].pc = "sending"
  /\ outgoing' = IF link = "up"
                 THEN outgoing \cup {[last |-> call[t].id, before |-> fragment]}
                 ELSE outgoing
  /\ fragment' = {}
  /\ sendLock' = None
  /\ Goto(t, [call[t] EXCEPT !.pc = "waiting"])
  /\ UNCHANGED <<running, pending, waiter, reader, link, torn, incoming, asterisk,
                 answer, phase, events>>

(* What an exception of sendall leaves in the stream: nothing of the       *)
(* action, or a part of it that no empty line ends.                        *)
WrittenInPart(i) ==
  \/ UNCHANGED <<fragment, torn>>
  \/ /\ link = "up"
     /\ fragment' = fragment \cup {i}
     /\ torn' = torn \cup {i}

(* Mutant: the exception leaves _send_lock taken.                          *)
SendFailsLocked(t) ==
  /\ call[t].pc = "sending"
  /\ WrittenInPart(call[t].id)
  /\ Goto(t, Leaving(call[t].id, "unknown"))
  /\ UNCHANGED <<running, pending, waiter, reader, link, outgoing, incoming, asterisk,
                 sendLock, answer, phase, events>>

(* Mutant: an action that was written in part is reported as never sent.   *)
SendFailsRefused(t) ==
  /\ call[t].pc = "sending"
  /\ WrittenInPart(call[t].id)
  /\ sendLock' = None
  /\ Goto(t, Leaving(call[t].id, "refused"))
  /\ UNCHANGED <<running, pending, waiter, reader, link, outgoing, incoming, asterisk,
                 answer, phase, events>>

(* The connection is broken, or takes nothing for a second.                *)
SendFails(t) ==
  /\ call[t].pc = "sending"
  /\ WrittenInPart(call[t].id)
  /\ sendLock' = None
  /\ Goto(t, Leaving(call[t].id, "unknown"))
  /\ UNCHANGED <<running, pending, waiter, reader, link, outgoing, incoming, asterisk,
                 answer, phase, events>>

Wake(t) ==
  /\ call[t].pc = "waiting" /\ waiter[call[t].id].ready
  /\ LET v == waiter[call[t].id].verdict
     IN  Goto(t, Leaving(call[t].id, IF v \in Verdicts THEN v ELSE "unknown"))
  /\ UNCHANGED <<running, pending, waiter, reader, network, sendLock, answer, phase, events>>

Timeout(t) ==
  /\ call[t].pc = "waiting" /\ ~ waiter[call[t].id].ready
  /\ Goto(t, Leaving(call[t].id, "unknown"))
  /\ UNCHANGED <<running, pending, waiter, reader, network, sendLock, answer, phase, events>>

(* Mutant: only a call that was answered takes its waiter away.            *)
LeaveAnswered(t) ==
  /\ call[t].pc = "leaving"
  /\ pending' = IF call[t].outcome \in Verdicts THEN pending \ {call[t].id} ELSE pending
  /\ Return(t, call[t].outcome)
  /\ UNCHANGED <<running, waiter, reader, network, sendLock, events>>

(* The finally clause.                                                     *)
Leave(t) ==
  /\ call[t].pc = "leaving"
  /\ pending' = pending \ {call[t].id}
  /\ Return(t, call[t].outcome)
  /\ UNCHANGED <<running, waiter, reader, network, sendLock, events>>

(* A Login without Success: stop(), and main() ends with the exception.    *)
Stop ==
  /\ phase = "stopping"
  /\ phase' = "stopped"
  /\ running' = FALSE
  /\ pending' = {}
  /\ waiter' = [i \in Ids |->
                  IF i \in pending THEN [verdict |-> "interrupted", ready |-> TRUE]
                  ELSE waiter[i]]
  /\ link' = "broken" /\ fragment' = {}
  /\ UNCHANGED <<reader, torn, outgoing, incoming, asterisk, call, sendLock, answer, events>>

-----------------------------------------------------------------------------
(* _read_loop, _dispatch_frame and _fail_pending.                          *)

ReaderGoes(state) == reader' = state

TakeFrame ==
  /\ reader.pc = "reading" /\ running
  /\ incoming # <<>>
  /\ ReaderGoes([pc |-> "dispatching", frame |-> Head(incoming)])
  /\ incoming' = Tail(incoming)
  /\ UNCHANGED <<running, pending, waiter, link, fragment, torn, outgoing, asterisk,
                 callers, events>>

(* Mutant: the waiter stays in _pending after its reply.                   *)
DispatchReplyKeepsWaiter ==
  /\ reader.pc = "dispatching" /\ reader.frame.kind = "reply"
  /\ IF reader.frame.id \in pending
     THEN ReaderGoes([pc |-> "telling", notice |-> [id |-> reader.frame.id,
                                                   verdict |-> reader.frame.verdict]])
     ELSE ReaderGoes([pc |-> "reading"])
  /\ UNCHANGED <<running, pending, waiter, network, callers, events>>

(* A reply to nobody, one that comes after the timeout, is dropped.        *)
DispatchReply ==
  /\ reader.pc = "dispatching" /\ reader.frame.kind = "reply"
  /\ IF reader.frame.id \in pending
     THEN ReaderGoes([pc |-> "telling", notice |-> [id |-> reader.frame.id,
                                                   verdict |-> reader.frame.verdict]])
     ELSE ReaderGoes([pc |-> "reading"])
  /\ pending' = pending \ {reader.frame.id}
  /\ UNCHANGED <<running, waiter, network, callers, events>>

DispatchEvent ==
  /\ reader.pc = "dispatching" /\ reader.frame.kind = "event"
  /\ Len(eventQueue) < MaxQueued
  /\ eventQueue' = Append(eventQueue, reader.frame.number)
  /\ ReaderGoes([pc |-> "reading"])
  /\ UNCHANGED <<running, pending, waiter, network, callers, worker, handled>>

(* Mutant: an event that finds the queue full is skipped.                  *)
OverflowSkips ==
  /\ reader.pc = "dispatching" /\ reader.frame.kind = "event"
  /\ Len(eventQueue) >= MaxQueued
  /\ ReaderGoes([pc |-> "reading"])
  /\ UNCHANGED <<running, pending, waiter, network, callers, events>>

(* AMI event queue exhausted: the exception ends the loop.                 *)
Overflow ==
  /\ reader.pc = "dispatching" /\ reader.frame.kind = "event"
  /\ Len(eventQueue) >= MaxQueued
  /\ running' = FALSE
  /\ ReaderGoes([pc |-> "failing"])
  /\ UNCHANGED <<pending, waiter, network, callers, events>>

(* The frame is too large, or is not one block: what it said is lost.      *)
BadFrame ==
  /\ reader.pc = "dispatching"
  /\ running' = FALSE
  /\ ReaderGoes([pc |-> "failing"])
  /\ UNCHANGED <<pending, waiter, network, callers, events>>

(* The end of the stream, an error of the socket, or _running is off.      *)
StreamEnds ==
  /\ reader.pc = "reading"
  /\ running => link = "broken" /\ incoming = <<>>
  /\ running' = FALSE
  /\ ReaderGoes([pc |-> "failing"])
  /\ UNCHANGED <<pending, waiter, network, callers, events>>

FailPending ==
  /\ reader.pc = "failing"
  /\ ReaderGoes([pc |-> "interrupting", ids |-> pending])
  /\ pending' = {}
  /\ UNCHANGED <<running, waiter, network, callers, events>>

Tell ==
  /\ reader.pc = "telling"
  /\ waiter' = [waiter EXCEPT ![reader.notice.id].verdict = reader.notice.verdict]
  /\ ReaderGoes([reader EXCEPT !.pc = "signalling"])
  /\ UNCHANGED <<running, pending, network, callers, events>>

Signal ==
  /\ reader.pc = "signalling"
  /\ waiter' = [waiter EXCEPT ![reader.notice.id].ready = TRUE]
  /\ ReaderGoes([pc |-> "reading"])
  /\ UNCHANGED <<running, pending, network, callers, events>>

(* _fail_pending sets the error of each waiter it took, then its ready.    *)
Interrupt(i) ==
  /\ reader.pc = "interrupting" /\ i \in reader.ids
  /\ waiter' = [waiter EXCEPT ![i] = [verdict |-> "interrupted", ready |-> TRUE]]
  /\ ReaderGoes([reader EXCEPT !.ids = @ \ {i}])
  /\ UNCHANGED <<running, pending, network, callers, events>>

ReaderDies ==
  /\ reader.pc = "interrupting" /\ reader.ids = {}
  /\ ReaderGoes([pc |-> "dead"])
  /\ UNCHANGED <<running, pending, waiter, network, callers, events>>

-----------------------------------------------------------------------------
(* _process_events. The queue is emptied even when _running is off.        *)

(* Mutant: the worker leaves with the connection.                          *)
TakeEventWhileRunning ==
  /\ worker.pc = "polling" /\ eventQueue # <<>> /\ running
  /\ worker' = [pc |-> "handling", event |-> Head(eventQueue)]
  /\ eventQueue' = Tail(eventQueue)
  /\ handled' = Append(handled, Head(eventQueue))
  /\ UNCHANGED <<running, pending, waiter, reader, network, callers>>

TakeEvent ==
  /\ worker.pc = "polling" /\ eventQueue # <<>>
  /\ worker' = [pc |-> "handling", event |-> Head(eventQueue)]
  /\ eventQueue' = Tail(eventQueue)
  /\ handled' = Append(handled, Head(eventQueue))
  /\ UNCHANGED <<running, pending, waiter, reader, network, callers>>

(* on_event returns or raises; an action it sends ends before that.        *)
FinishEvent ==
  /\ worker.pc = "handling" /\ call[Worker] = Idle
  /\ worker' = [pc |-> "polling"]
  /\ UNCHANGED <<running, pending, waiter, reader, network, callers, eventQueue, handled>>

WorkerEnds ==
  /\ worker.pc = "polling" /\ eventQueue = <<>> /\ ~ running
  /\ worker' = [pc |-> "ended"]
  /\ UNCHANGED <<running, pending, waiter, reader, network, callers, eventQueue, handled>>

-----------------------------------------------------------------------------
(* Asterisk, which answers in any order, and the network.                  *)

(* Asterisk takes the first Action and the first value of each field of a  *)
(* frame, so one whose beginning is a fragment may be the fragment's       *)
(* action, or the last one's, or none (an Error is put down to either);    *)
(* the ActionID of the reply is one of them, or cut (None).                *)
ReplyNames(f) == IF f.before = {} THEN {f.last} ELSE Members(f) \cup {None}

Perform(f, k, name, v) ==
  /\ f \in outgoing /\ k \in Members(f) /\ name \in ReplyNames(f)
  /\ outgoing' = outgoing \ {f}
  /\ performed' = [performed EXCEPT ![k] = v]
  /\ readAs' = [i \in Ids |-> IF i \in Members(f) THEN k ELSE readAs[i]]
  /\ incoming' = IF link = "up" /\ name # None
                 THEN Append(incoming, [kind |-> "reply", id |-> name, verdict |-> v])
                 ELSE incoming
  /\ UNCHANGED <<running, pending, waiter, reader, link, fragment, torn, emitted,
                 callers, events>>

(* Events come once the Login is accepted.                                 *)
Emit ==
  /\ link = "up" /\ emitted < MaxEvents
  /\ \E i \in Ids : performed[i] = "Success"
  /\ emitted' = emitted + 1
  /\ incoming' = Append(incoming, [kind |-> "event", number |-> emitted + 1])
  /\ UNCHANGED <<running, pending, waiter, reader, link, fragment, torn, outgoing,
                 performed, readAs, callers, events>>

(* What was on its way arrives in part; a fragment is never completed.     *)
Break ==
  /\ link = "up"
  /\ link' = "broken" /\ fragment' = {}
  /\ outgoing' \in SUBSET outgoing
  /\ \E n \in 0..Len(incoming) : incoming' = SubSeq(incoming, 1, n)
  /\ UNCHANGED <<running, pending, waiter, reader, torn, asterisk, callers, events>>

AsteriskStep ==
  \E f \in outgoing : \E k \in Members(f), name \in ReplyNames(f), v \in Verdicts :
    Perform(f, k, name, v)

-----------------------------------------------------------------------------

CallStep(t) ==
  \/ NotConnected(t) \/ Check(t) \/ Register(t) \/ Lock(t)
  \/ Send(t) \/ SendFails(t) \/ Wake(t) \/ Timeout(t) \/ Leave(t)

ReaderStep ==
  \/ TakeFrame \/ DispatchReply \/ DispatchEvent \/ Overflow \/ BadFrame
  \/ StreamEnds \/ FailPending \/ Tell \/ Signal \/ ReaderDies
  \/ \E i \in Ids : Interrupt(i)

WorkerStep == TakeEvent \/ FinishEvent \/ WorkerEnds

Next ==
  \/ \E t \in Threads : CallStep(t) \/ \E i \in Ids : Begin(t, i)
  \/ Stop
  \/ ReaderStep \/ WorkerStep
  \/ AsteriskStep \/ Emit \/ Break

Spec == Init /\ [][Next]_vars

(* Every thread of the process runs, and the timeout of a wait expires.    *)
(* Nothing is asked of Asterisk or of the network.                         *)
FairSpec ==
  /\ Spec
  /\ \A t \in Threads : WF_vars(CallStep(t))
  /\ WF_vars(Stop) /\ WF_vars(ReaderStep) /\ WF_vars(WorkerStep)

-----------------------------------------------------------------------------
(* To its callers the client is RemoteCalls: whatever the order of         *)
(* replies, timeouts, late answers and failed sends, a reply tells of the  *)
(* caller's own action or of one whose writing failed just before it,      *)
(* which Asterisk then performed in its place; "AMI is not connected" and  *)
(* "connection closed" mean that the action never reached Asterisk.        *)
Remote == INSTANCE RemoteCalls

CallsAreRemote == Remote!RemoteSpec

(* What a caller reads in a reply: Asterisk did this with its action. A    *)
(* send that failed half way on a connection that is still up breaks it    *)
(* for the next caller (sendall, then the finally clause).                 *)
OwnReplies == \A i \in Ids : answer[i] \in Verdicts => answer[i] = performed[i]

(* Once the reader has failed the stream, nobody is left to wait for a     *)
(* reply that cannot come: a waiter is registered before _running is read  *)
(* under the lock, and _running is off before _fail_pending.               *)
NobodyIsForgotten ==
  \A t \in Threads :
    reader.pc = "dead" /\ call[t].pc = "waiting" => waiter[call[t].id].ready

(* _pending holds the waiters of calls in progress and no other, so that   *)
(* it cannot grow with timeouts and errors.                                *)
PendingIsInProgress ==
  \A i \in pending :
    \E t \in Threads : /\ call[t].pc \in {"registered", "sending", "waiting", "leaving"}
                       /\ call[t].id = i

(* The handler sees the events of Asterisk in order and without a gap: an  *)
(* overflow ends the stream instead of losing an event in the middle.      *)
EventsAreInOrder ==
  LET seen == handled \o eventQueue
  IN  \A k \in 1..Len(seen) : seen[k] = k

(* What a waiter was told when its ready was set is never changed: a call  *)
(* that was answered is not failed by the end of the stream.               *)
SettledOnce == [][\A i \in Ids : waiter[i].ready => waiter'[i] = waiter[i]]_vars

(* Every action ends, with or without Asterisk, also one that is sent from *)
(* the event handler.                                                      *)
CallsEnd == \A t \in Threads : call[t] # Idle ~> call[t] = Idle

(* Every event that was queued reaches the handler, also when the stream   *)
(* ends meanwhile; only the end of main() abandons them.                   *)
EventsAreHandled ==
  \A n \in 1..MaxEvents :
    (n \in {eventQueue[k] : k \in DOMAIN eventQueue})
      ~> (Len(handled) >= n \/ phase = "stopped")
===============================================================================
