---------------------------- MODULE AmiClientProofs ----------------------------
(***************************************************************************)
(* What AmiClient guarantees for any number of threads, calls and events,  *)
(* and any size of the event queue.                                        *)
(***************************************************************************)
EXTENDS AmiClient, SequenceTheorems, TLAPS

-----------------------------------------------------------------------------
(* Shapes of the records of the model.                                     *)

LEMMA CallFields ==
  ASSUME TypeOK, NEW t \in Threads
  PROVE  /\ call[t].pc \in {"idle", "called", "checked", "registered", "sending",
                            "waiting", "leaving"}
         /\ call[t].pc = "idle" <=> call[t] = Idle
         /\ call[t].pc # "idle" => call[t].id \in Ids
         /\ call[t].pc = "leaving" => call[t].outcome \in Outcomes
         /\ call[t].pc \notin {"idle", "leaving"} =>
              call[t] = [pc |-> call[t].pc, id |-> call[t].id]
  BY DEF TypeOK, Call, Idle

LEMMA ReaderFields ==
  ASSUME TypeOK
  PROVE  /\ reader.pc \in {"reading", "failing", "dead", "dispatching", "telling",
                           "signalling", "interrupting"}
         /\ reader.pc = "dispatching" => reader.frame \in Frame
         /\ reader.pc \in {"telling", "signalling"} =>
              /\ reader.notice \in Notice
              /\ reader = [pc |-> reader.pc, notice |-> reader.notice]
         /\ reader.pc = "interrupting" =>
              /\ reader.ids \subseteq Ids
              /\ reader = [pc |-> reader.pc, ids |-> reader.ids]
  BY DEF TypeOK, Reader

LEMMA FrameFields ==
  ASSUME NEW f \in Frame
  PROVE  /\ f.kind \in {"reply", "event"}
         /\ f.kind = "reply" => f.id \in Ids /\ f.verdict \in Verdicts
         /\ f.kind = "event" => f.number \in 1..MaxEvents
  BY DEF Frame

LEMMA RequestFields ==
  ASSUME TypeOK, NEW f \in outgoing
  PROVE  /\ f \in Request /\ f.last \in Ids /\ f.before \subseteq Ids
         /\ Members(f) \subseteq Ids
         /\ f.before = {} => Members(f) = {f.last}
         /\ ReplyNames(f) \subseteq Members(f) \cup {None}
  BY DEF TypeOK, Request, Members, ReplyNames

-----------------------------------------------------------------------------
(* Type correctness.                                                       *)

LEMMA TypeOKInit == Init => TypeOK
  BY ClientAssumption DEF Init, TypeOK, Waiter, Call, Reader, WorkerState, Outcomes

(* A step of a call that only moves its thread on.                         *)
LEMMA MovesOn ==
  ASSUME TypeOK, NEW t \in Threads, call[t].pc \notin {"idle", "leaving"},
         NEW p \in {"checked", "registered", "sending", "waiting"},
         call' = [call EXCEPT ![t] = [call[t] EXCEPT !.pc = p]]
  PROVE  /\ call' \in [Threads -> Call]
         /\ call'[t] = [pc |-> p, id |-> call[t].id]
  BY CallFields DEF TypeOK, Call

LEMMA Leaves ==
  ASSUME TypeOK, NEW t \in Threads, call[t].pc # "idle", NEW o \in Outcomes,
         call' = [call EXCEPT ![t] = Leaving(call[t].id, o)]
  PROVE  call' \in [Threads -> Call]
  BY CallFields DEF TypeOK, Call, Leaving

LEMMA Returns ==
  ASSUME TypeOK, NEW t \in Threads, call[t].pc # "idle", NEW o \in Outcomes, Return(t, o)
  PROVE  /\ call' \in [Threads -> Call]
         /\ answer' \in [Ids -> Outcomes \cup {"none", "asked"}]
         /\ phase' \in {"login", "serving", "stopping", "stopped"}
  BY CallFields DEF TypeOK, Call, Return, Goto, Idle

LEMMA TypeOKCall ==
  ASSUME TypeOK, NEW t \in Threads, CallStep(t) \/ \E i \in Ids : Begin(t, i)
  PROVE  TypeOK'
<1>1. ASSUME NEW i \in Ids, Begin(t, i) PROVE TypeOK'
  BY <1>1 DEF Begin, Goto, TypeOK, Call, network, asterisk, events
<1>2. CASE NotConnected(t)
  <2>1. "refused" \in Outcomes
    BY DEF Outcomes
  <2> QED BY <1>2, <2>1, Returns, CallFields DEF NotConnected, TypeOK, network, asterisk, events
<1>3. CASE Check(t)
  BY <1>3, MovesOn DEF Check, Goto, TypeOK, network, asterisk, events
<1>4. CASE Register(t)
  BY <1>4, MovesOn, CallFields DEF Register, Goto, TypeOK, network, asterisk, events
<1>5. CASE Lock(t)
  <2>1. call' \in [Threads -> Call]
    BY <1>5, MovesOn, Leaves DEF Lock, Goto, Outcomes
  <2> QED BY <1>5, <2>1 DEF Lock, TypeOK, network, asterisk, events
<1>6. CASE Send(t)
  <2>1. call' \in [Threads -> Call]
    BY <1>6, MovesOn DEF Send, Goto
  <2>2. [last |-> call[t].id, before |-> fragment] \in Request
    BY <1>6, CallFields DEF Send, TypeOK, Request
  <2> QED BY <1>6, <2>1, <2>2 DEF Send, TypeOK, asterisk, events
<1>7. CASE SendFails(t)
  <2>1. call' \in [Threads -> Call]
    BY <1>7, Leaves DEF SendFails, Goto, Outcomes
  <2>2. call[t].id \in Ids
    BY <1>7, CallFields DEF SendFails
  <2> QED BY <1>7, <2>1, <2>2 DEF SendFails, WrittenInPart, TypeOK, asterisk, events
<1>8. CASE Wake(t)
  <2>1. call' \in [Threads -> Call]
    BY <1>8, Leaves DEF Wake, Goto, Outcomes
  <2> QED BY <1>8, <2>1 DEF Wake, TypeOK, network, asterisk, events
<1>9. CASE Timeout(t)
  <2>1. call' \in [Threads -> Call]
    BY <1>9, Leaves DEF Timeout, Goto, Outcomes
  <2> QED BY <1>9, <2>1 DEF Timeout, TypeOK, network, asterisk, events
<1>10. CASE Leave(t)
  BY <1>10, Returns, CallFields DEF Leave, TypeOK, network, asterisk, events
<1> QED
  BY <1>1, <1>2, <1>3, <1>4, <1>5, <1>6, <1>7, <1>8, <1>9, <1>10 DEF CallStep

LEMMA TypeOKReader ==
  ASSUME TypeOK, ReaderStep
  PROVE  TypeOK'
<1>1. CASE TakeFrame
  <2>1. incoming' \in Seq(Frame) /\ Head(incoming) \in Frame
    BY <1>1 DEF TakeFrame, TypeOK
  <2> QED BY <1>1, <2>1 DEF TakeFrame, ReaderGoes, TypeOK, Reader, asterisk, callers, events
<1>2. CASE DispatchReply
  BY <1>2, ReaderFields, FrameFields
     DEF DispatchReply, ReaderGoes, TypeOK, Reader, Notice, network, asterisk, callers, events
<1>3. CASE DispatchEvent
  <2>1. /\ reader.frame.number \in 1..MaxEvents
        /\ eventQueue' = Append(eventQueue, reader.frame.number)
        /\ Len(eventQueue) < MaxQueued
    BY <1>3, ReaderFields, FrameFields DEF DispatchEvent
  <2>2. eventQueue' \in Seq(1..MaxEvents) /\ Len(eventQueue') <= MaxQueued
    BY <2>1, ClientAssumption DEF TypeOK
  <2> QED BY <1>3, <2>2 DEF DispatchEvent, ReaderGoes, TypeOK, Reader, network, asterisk, callers
<1>4. CASE Overflow \/ BadFrame \/ StreamEnds
  <2>1. /\ reader' = [pc |-> "failing"] /\ running' = FALSE
        /\ UNCHANGED <<pending, waiter, network, callers, events>>
    BY <1>4 DEF Overflow, BadFrame, StreamEnds, ReaderGoes
  <2> QED BY <2>1 DEF TypeOK, Reader, network, asterisk, callers, events
<1>5. CASE FailPending \/ ReaderDies
  BY <1>5 DEF FailPending, ReaderDies, ReaderGoes, TypeOK, Reader, network, asterisk, callers, events
<1>6. CASE Tell
  <2>1. reader.notice \in Notice /\ reader' = [pc |-> "signalling", notice |-> reader.notice]
    BY <1>6, ReaderFields DEF Tell, ReaderGoes
  <2>2. reader.notice.id \in Ids /\ reader.notice.verdict \in Verdicts \cup {"interrupted"}
    BY <2>1 DEF Notice
  <2>3. waiter' \in [Ids -> Waiter]
    BY <1>6, <2>2 DEF Tell, TypeOK, Waiter
  <2>4. reader' \in Reader
    BY <2>1 DEF Reader
  <2> QED BY <1>6, <2>3, <2>4 DEF Tell, TypeOK, network, asterisk, callers, events
<1>7. CASE Signal
  BY <1>7, ReaderFields
     DEF Signal, ReaderGoes, TypeOK, Reader, Waiter, network, asterisk, callers, events
<1>8. ASSUME NEW i \in Ids, Interrupt(i) PROVE TypeOK'
  <2>1. reader' = [pc |-> "interrupting", ids |-> reader.ids \ {i}] /\ reader.ids \subseteq Ids
    BY <1>8, ReaderFields DEF Interrupt, ReaderGoes
  <2> QED BY <1>8, <2>1 DEF Interrupt, TypeOK, Reader, Waiter, network, asterisk, callers, events
<1> QED
  BY <1>1, <1>2, <1>3, <1>4, <1>5, <1>6, <1>7, <1>8 DEF ReaderStep

LEMMA TypeOKRest ==
  ASSUME TypeOK,
         Stop \/ WorkerStep \/ Emit \/ Break \/ AsteriskStep
  PROVE  TypeOK'
<1>1. CASE Stop
  BY <1>1 DEF Stop, TypeOK, Waiter, asterisk, events
<1>2. CASE TakeEvent
  <2>1. /\ Head(eventQueue) \in 1..MaxEvents
        /\ eventQueue' \in Seq(1..MaxEvents) /\ Len(eventQueue') <= MaxQueued
        /\ handled' \in Seq(1..MaxEvents)
    BY <1>2, ClientAssumption DEF TakeEvent, TypeOK
  <2> QED BY <1>2, <2>1 DEF TakeEvent, TypeOK, WorkerState, network, asterisk, callers
<1>3. CASE FinishEvent \/ WorkerEnds
  BY <1>3 DEF FinishEvent, WorkerEnds, TypeOK, WorkerState, network, asterisk, callers
<1>4. ASSUME NEW f \in outgoing, NEW k \in Members(f), NEW name \in ReplyNames(f),
             NEW v \in Verdicts, Perform(f, k, name, v)
      PROVE  TypeOK'
  <2>1. k \in Ids /\ (name # None => name \in Ids)
    BY RequestFields DEF ReplyNames
  <2>2. name # None => [kind |-> "reply", id |-> name, verdict |-> v] \in Frame
    BY <2>1 DEF Frame
  <2>3. incoming' \in Seq(Frame)
    BY <1>4, <2>2 DEF Perform, TypeOK
  <2>4. performed' \in [Ids -> Verdicts \cup {"none"}] /\ readAs' \in [Ids -> Ids]
    BY <1>4, <2>1 DEF Perform, TypeOK
  <2> QED BY <1>4, <2>3, <2>4 DEF Perform, TypeOK, callers, events
<1>5. CASE Emit
  <2>1. emitted' \in 0..MaxEvents /\ [kind |-> "event", number |-> emitted + 1] \in Frame
    BY <1>5, ClientAssumption DEF Emit, TypeOK, Frame
  <2>2. incoming' \in Seq(Frame)
    BY <1>5, <2>1 DEF Emit, TypeOK
  <2> QED BY <1>5, <2>1, <2>2 DEF Emit, TypeOK, callers, events
<1>6. CASE Break
  <2>1. PICK n \in 0..Len(incoming) : incoming' = SubSeq(incoming, 1, n)
    BY <1>6 DEF Break
  <2>2. incoming' \in Seq(Frame)
    BY <2>1, SubSeqProperties DEF TypeOK
  <2> QED BY <1>6, <2>2 DEF Break, TypeOK, asterisk, callers, events
<1> QED
  BY <1>1, <1>2, <1>3, <1>4, <1>5, <1>6 DEF WorkerStep, AsteriskStep

LEMMA TypeOKStep ==
  ASSUME TypeOK, [Next]_vars
  PROVE  TypeOK'
<1>1. CASE UNCHANGED vars
  BY <1>1 DEF vars, network, asterisk, callers, events, TypeOK
<1> QED
  BY <1>1, TypeOKCall, TypeOKReader, TypeOKRest DEF Next

(* The state of the client always has its type; in particular the queue    *)
(* of events never exceeds MAX_AMI_EVENTS_QUEUED.                          *)
THEOREM TypeCorrect == Spec => []TypeOK
  BY TypeOKInit, TypeOKStep, PTL DEF Spec


-----------------------------------------------------------------------------
(* The inductive invariant, part by part.                                 *)

(* A call in progress is the only one of its ActionID.                     *)
CallsOK ==
  /\ \A t \in Threads : call[t] # Idle => answer[call[t].id] = "asked"
  /\ \A t, u \in Threads :
       call[t] # Idle /\ call[u] # Idle /\ call[t].id = call[u].id => t = u

Unread(i) == performed[i] = "none" /\ readAs[i] = i

Untouched(i) ==
  /\ Unread(i) /\ i \notin torn
  /\ \A f \in outgoing : i \notin Members(f)

(* No action is in two frames, or in a frame and in the fragment, and      *)
(* Asterisk has read none of those that are there.                         *)
RequestsOK ==
  /\ fragment \subseteq torn
  /\ \A i \in fragment : Unread(i) /\ \A f \in outgoing : i \notin Members(f)
  /\ \A f \in outgoing :
       /\ f.last \notin torn /\ f.before \subseteq torn
       /\ answer[f.last] \in {"asked", "unknown"}
       /\ \A i \in Members(f) : Unread(i)
       /\ \A g \in outgoing : \A i \in Members(f) : i \in Members(g) => f = g

(* What a reply to i tells of.                                             *)
Told(i) == performed[readAs[i]]

(* Nothing of what was refused, or was not sent yet, is in the stream; a   *)
(* call that leaves with a reply was sent whole, and leaves with what      *)
(* Asterisk did when it read its action.                                   *)
UnsentOK ==
  /\ \A i \in Ids : answer[i] = "none" => Untouched(i)
  /\ \A t \in Threads :
       /\ call[t].pc \in {"called", "checked", "registered", "sending"} => Untouched(call[t].id)
       /\ call[t].pc = "waiting" => call[t].id \notin torn
       /\ call[t].pc = "leaving" =>
            /\ call[t].outcome = "refused" => Untouched(call[t].id)
            /\ call[t].outcome \in Verdicts =>
                 call[t].id \notin torn /\ call[t].outcome = Told(call[t].id)

(* What a reply says, wherever it is, is what Asterisk did. A waiter that  *)
(* is failed has no verdict of Asterisk.                                   *)
ComingOK ==
  /\ \A k \in 1..Len(incoming) :
       incoming[k].kind = "reply" => Told(incoming[k].id) = incoming[k].verdict
  /\ reader.pc = "dispatching" /\ reader.frame.kind = "reply" =>
       Told(reader.frame.id) = reader.frame.verdict
  /\ reader.pc \in {"telling", "signalling"} =>
       Told(reader.notice.id) = reader.notice.verdict
  /\ \A i \in Ids : waiter[i].verdict \in Verdicts => waiter[i].verdict = Told(i)

(* Three places where a waiter can be that the reader has yet to settle:   *)
(* still registered, taken for its reply, taken to be failed.              *)
Noticed(i) == reader.pc \in {"telling", "signalling"} /\ reader.notice.id = i
Doomed(i)  == reader.pc = "interrupting" /\ i \in reader.ids

Held(i) == i \in pending \/ Noticed(i) \/ Doomed(i) \/ waiter[i].ready

(* A waiter is in one of them at most, and none that is there is ready.    *)
WaitersOK ==
  /\ \A i \in Ids :
       /\ i \in pending => ~ Noticed(i) /\ ~ Doomed(i)
       /\ i \in pending \/ Noticed(i) \/ Doomed(i) => ~ waiter[i].ready
       /\ answer[i] = "none" => ~ Held(i)
  /\ \A t \in Threads :
       /\ call[t].pc \in {"called", "checked"} => ~ Held(call[t].id)
       /\ call[t].pc \in {"registered", "sending", "waiting"} => Held(call[t].id)
       /\ reader.pc \in {"interrupting", "dead"} /\ call[t].pc \in {"sending", "waiting"} =>
            call[t].id \notin pending
  /\ reader.pc \in {"failing", "interrupting", "dead"} => ~ running

(* The events on their way follow the ones the handler was given.          *)
Dispatching == reader.pc = "dispatching" /\ reader.frame.kind = "event"

Reached == Len(handled) + Len(eventQueue) + (IF Dispatching THEN 1 ELSE 0)

IsEvent(k) == incoming[k].kind = "event"

Following == reader.pc \in {"reading", "dispatching", "telling", "signalling"}

(* What has been given to the handler, or is queued for it.                *)
GivenOK ==
  /\ \A k \in 1..Len(handled) : handled[k] = k
  /\ \A k \in 1..Len(eventQueue) : eventQueue[k] = Len(handled) + k

(* The events on their way to the reader.                                  *)
StreamOK ==
  /\ Dispatching => reader.frame.number = Reached
  /\ \A k \in 1..Len(incoming) : IsEvent(k) =>
       /\ (\A j \in 1..(k - 1) : ~ IsEvent(j)) => incoming[k].number = Reached + 1
       /\ \A j \in 1..(k - 1) :
            IsEvent(j) /\ (\A m \in (j + 1)..(k - 1) : ~ IsEvent(m)) =>
              incoming[k].number = incoming[j].number + 1
       /\ link = "up" /\ (\A j \in (k + 1)..Len(incoming) : ~ IsEvent(j)) =>
            incoming[k].number = emitted
  /\ link = "up" /\ (\A k \in 1..Len(incoming) : ~ IsEvent(k)) => Reached = emitted

OrderOK == GivenOK /\ (Following => StreamOK)

IInv ==
  /\ TypeOK /\ CallsOK /\ RequestsOK /\ UnsentOK /\ ComingOK
  /\ WaitersOK /\ PendingIsInProgress /\ OrderOK

-----------------------------------------------------------------------------
(* CallsOK, UnsentOK.                                                      *)

LEMMA CallsOKStep ==
  ASSUME TypeOK, CallsOK, [Next]_vars
  PROVE  CallsOK'
<1>1. CASE call' = call /\ answer' = answer
  BY <1>1 DEF CallsOK
<1>2. ASSUME NEW t \in Threads, NEW i \in Ids, Begin(t, i) PROVE CallsOK'
  <2>1. call'[t] = [pc |-> "called", id |-> i] /\ \A u \in Threads \ {t} : call'[u] = call[u]
    BY <1>2 DEF Begin, Goto, TypeOK
  <2>2. answer[i] = "none" /\ answer' = [answer EXCEPT ![i] = "asked"]
    BY <1>2 DEF Begin
  <2>3. \A u \in Threads \ {t} : call[u] # Idle =>
          call[u].id \in Ids /\ call[u].id # i /\ answer[call[u].id] = "asked"
    BY <2>2, CallFields DEF CallsOK
  <2>4. call'[t].id = i /\ answer'[i] = "asked"
    BY <2>1, <2>2 DEF TypeOK
  <2>5. \A u \in Threads : call'[u] # Idle => answer'[call'[u].id] = "asked"
    BY <2>1, <2>2, <2>3, <2>4 DEF TypeOK
  <2>6. \A u, w \in Threads :
          call'[u] # Idle /\ call'[w] # Idle /\ call'[u].id = call'[w].id => u = w
    BY <2>1, <2>3, <2>4 DEF CallsOK
  <2> QED BY <2>5, <2>6 DEF CallsOK
<1>3. ASSUME NEW t \in Threads, call[t] # Idle, call'[t].id = call[t].id,
             \A u \in Threads \ {t} : call'[u] = call[u], answer' = answer
      PROVE  CallsOK'
  BY <1>3 DEF CallsOK
<1>4. ASSUME NEW t \in Threads, NEW o \in Outcomes, call[t].pc # "idle", Return(t, o)
      PROVE  CallsOK'
  <2>1. call'[t] = Idle /\ \A u \in Threads \ {t} : call'[u] = call[u]
    BY <1>4 DEF Return, Goto, TypeOK
  <2>2. answer' = [answer EXCEPT ![call[t].id] = o]
    BY <1>4 DEF Return
  <2>3. call[t] # Idle /\ \A u \in Threads \ {t} : call[u] # Idle => call[u].id # call[t].id
    BY <1>4, CallFields DEF CallsOK
  <2>4. \A u \in Threads : call'[u] # Idle => answer'[call'[u].id] = "asked"
    <3> SUFFICES ASSUME NEW u \in Threads, call'[u] # Idle
                 PROVE  answer'[call'[u].id] = "asked"
      OBVIOUS
    <3>1. u # t /\ call'[u] = call[u]
      BY <2>1
    <3>2. call[u].id \in Ids /\ call[u].id # call[t].id /\ answer[call[u].id] = "asked"
      BY <2>3, <3>1, CallFields DEF CallsOK
    <3> QED BY <2>2, <3>1, <3>2 DEF TypeOK
  <2>5. \A u, w \in Threads :
          call'[u] # Idle /\ call'[w] # Idle /\ call'[u].id = call'[w].id => u = w
    BY <2>1 DEF CallsOK
  <2> QED BY <2>4, <2>5 DEF CallsOK
<1>5. ASSUME NEW t \in Threads, CallStep(t) PROVE CallsOK'
  <2>1. CASE NotConnected(t)
    BY <2>1, <1>4 DEF NotConnected, Outcomes
  <2>2. CASE Leave(t)
    BY <2>2, <1>4, CallFields DEF Leave
  <2>3. CASE Check(t) \/ Register(t) \/ Lock(t) \/ Send(t) \/ SendFails(t) \/ Wake(t) \/ Timeout(t)
    <3>1. /\ call[t] # Idle
          /\ answer' = answer
      BY <2>3, CallFields DEF Check, Register, Lock, Send, SendFails, Wake, Timeout
    <3>2. CASE \E p \in {"checked", "registered", "sending", "waiting"} :
                 /\ call[t].pc \notin {"idle", "leaving"}
                 /\ call' = [call EXCEPT ![t] = [call[t] EXCEPT !.pc = p]]
      <4>1. call'[t].id = call[t].id
        BY <3>2, MovesOn
      <4> QED BY <3>1, <3>2, <4>1, <1>3 DEF TypeOK
    <3>3. CASE \E o \in Outcomes : call' = [call EXCEPT ![t] = Leaving(call[t].id, o)]
      BY <3>1, <3>3, <1>3 DEF TypeOK, Leaving
    <3> QED
      BY <2>3, <3>2, <3>3
         DEF Check, Register, Lock, Send, SendFails, Wake, Timeout, Goto, Outcomes
  <2> QED BY <1>5, <2>1, <2>2, <2>3 DEF CallStep
<1>6. CASE ReaderStep
  BY <1>6, <1>1 DEF ReaderStep, TakeFrame, DispatchReply, DispatchEvent, Overflow, BadFrame,
       StreamEnds, FailPending, Tell, Signal, ReaderDies, Interrupt, callers
<1>7. CASE Stop \/ WorkerStep
  BY <1>7, <1>1 DEF Stop, WorkerStep, TakeEvent, FinishEvent, WorkerEnds, callers
<1>8. CASE Emit \/ Break \/ AsteriskStep \/ UNCHANGED vars
  BY <1>8, <1>1 DEF Emit, Break, AsteriskStep, Perform, callers, vars
<1> QED
  BY <1>2, <1>5, <1>6, <1>7, <1>8 DEF Next

(* The part of RequestsOK and UnsentOK that a step leaves where it was.    *)
LEMMA RequestsOKFrame ==
  ASSUME RequestsOK, UNCHANGED <<answer, network>>
  PROVE  RequestsOK'
  BY DEF RequestsOK, Unread, network, asterisk

LEMMA UnsentOKFrame ==
  ASSUME UnsentOK, UNCHANGED <<answer, performed, readAs, torn, outgoing, call>>
  PROVE  UnsentOK'
  BY DEF UnsentOK, Untouched, Unread, Told

(* Of an action that is read, alone or with fragments, nothing was told    *)
(* before, and what was told of the others is what it was.                 *)
LEMMA Reading ==
  ASSUME TypeOK, RequestsOK,
         NEW f \in outgoing, NEW k \in Members(f), NEW name, NEW v \in Verdicts,
         Perform(f, k, name, v), NEW i \in Ids
  PROVE  /\ i \in Members(f) => Told(i) = "none" /\ Told(i)' = v
         /\ i \notin Members(f) => performed'[i] = performed[i] /\ readAs'[i] = readAs[i]
         /\ Told(i) \in Verdicts => Told(i)' = Told(i)
<1>1. /\ performed' = [performed EXCEPT ![k] = v]
      /\ readAs' = [j \in Ids |-> IF j \in Members(f) THEN k ELSE readAs[j]]
  BY DEF Perform
<1>2. k \in Ids /\ Members(f) \subseteq Ids /\ \A j \in Members(f) : Unread(j)
  BY RequestFields DEF RequestsOK
<1>3. i \in Members(f) => Told(i) = "none" /\ Told(i)' = v
  BY <1>1, <1>2 DEF Told, Unread, TypeOK
<1>4. i \notin Members(f) => performed'[i] = performed[i] /\ readAs'[i] = readAs[i]
  BY <1>1, <1>2 DEF TypeOK
<1>5. ASSUME Told(i) \in Verdicts PROVE Told(i)' = Told(i)
  <2>1. i \notin Members(f) /\ readAs[i] # k
    BY <1>2, <1>3, <1>5 DEF Told, Unread, Verdicts
  <2> QED BY <1>1, <1>4, <2>1 DEF Told, TypeOK
<1> QED BY <1>3, <1>4, <1>5

LEMMA RequestsOKReturn ==
  ASSUME TypeOK, RequestsOK, NEW t \in Threads, NEW o \in Outcomes, call[t].pc # "idle",
         Return(t, o), UNCHANGED network,
         o # "unknown" => \A f \in outgoing : call[t].id # f.last
  PROVE  RequestsOK'
<1>1. answer' = [answer EXCEPT ![call[t].id] = o] /\ call[t].id \in Ids
  BY CallFields DEF Return
<1>2. \A f \in outgoing : answer'[f.last] \in {"asked", "unknown"}
  BY <1>1, RequestFields DEF RequestsOK, TypeOK
<1> QED BY <1>2 DEF RequestsOK, Unread, network, asterisk

(* Why a call that is answered, or refused, is in no frame.                *)
LEMMA SettledIsRead ==
  ASSUME TypeOK, RequestsOK, UnsentOK, NEW t \in Threads,
         \/ call[t].pc = "called"
         \/ call[t].pc = "leaving" /\ call[t].outcome # "unknown"
  PROVE  \A f \in outgoing : call[t].id \notin Members(f)
<1>1. CASE call[t].pc = "called" \/ call[t].outcome = "refused"
  BY <1>1 DEF UnsentOK, Untouched
<1>2. CASE call[t].pc = "leaving" /\ call[t].outcome \in Verdicts
  <2>1. Told(call[t].id) \in Verdicts
    BY <1>2 DEF UnsentOK
  <2> QED BY <2>1 DEF RequestsOK, Unread, Told, Verdicts
<1> QED BY <1>1, <1>2, CallFields DEF Outcomes

LEMMA RequestsOKStep ==
  ASSUME TypeOK, CallsOK, RequestsOK, UnsentOK, [Next]_vars
  PROVE  RequestsOK'
<1>1. ASSUME NEW t \in Threads, NEW i \in Ids, Begin(t, i) PROVE RequestsOK'
  <2>1. /\ answer[i] = "none" /\ answer' = [answer EXCEPT ![i] = "asked"]
        /\ UNCHANGED network
    BY <1>1 DEF Begin
  <2>2. \A f \in outgoing : answer'[f.last] \in {"asked", "unknown"}
    BY <2>1, RequestFields DEF RequestsOK, TypeOK
  <2> QED BY <2>1, <2>2 DEF RequestsOK, Unread, network, asterisk
<1>2. ASSUME NEW t \in Threads, CallStep(t) PROVE RequestsOK'
  <2>1. CASE NotConnected(t)
    BY <2>1, RequestsOKReturn, SettledIsRead DEF NotConnected, Outcomes, Members
  <2>2. CASE Leave(t)
    <3>1. call[t].pc = "leaving" /\ call[t].outcome \in Outcomes
      BY <2>2, CallFields DEF Leave
    <3> QED BY <2>2, <3>1, RequestsOKReturn, SettledIsRead DEF Leave, Members
  <2>3. CASE Check(t) \/ Register(t) \/ Lock(t) \/ Wake(t) \/ Timeout(t)
    BY <2>3, RequestsOKFrame DEF Check, Register, Lock, Wake, Timeout
  <2>4. CASE Send(t)
    <3> DEFINE F == [last |-> call[t].id, before |-> fragment]
    <3>1. /\ outgoing' = IF link = "up" THEN outgoing \cup {F} ELSE outgoing
          /\ fragment' = {} /\ UNCHANGED <<answer, performed, readAs, torn>>
      BY <2>4 DEF Send, asterisk
    <3>2. Untouched(call[t].id) /\ answer[call[t].id] = "asked"
      BY <2>4, CallFields DEF Send, UnsentOK, CallsOK
    <3>3. F.last = call[t].id /\ F.before = fragment /\ Members(F) = fragment \cup {call[t].id}
      BY DEF Members
    <3>4. /\ F.last \notin torn /\ F.before \subseteq torn
          /\ answer[F.last] \in {"asked", "unknown"}
          /\ \A i \in Members(F) : Unread(i) /\ \A g \in outgoing : i \notin Members(g)
      BY <3>2, <3>3 DEF RequestsOK, Untouched
    <3> HIDE DEF F
    <3> QED BY <3>1, <3>4 DEF RequestsOK, Unread
  <2>5. CASE SendFails(t)
    <3>1. UNCHANGED <<answer, performed, readAs, outgoing>> /\ WrittenInPart(call[t].id)
      BY <2>5 DEF SendFails, asterisk
    <3>2. Untouched(call[t].id)
      BY <2>5 DEF SendFails, UnsentOK
    <3> QED BY <3>1, <3>2 DEF WrittenInPart, RequestsOK, Untouched, Unread, Members
  <2> QED BY <1>2, <2>1, <2>2, <2>3, <2>4, <2>5 DEF CallStep
<1>3. CASE ReaderStep
  <2>1. UNCHANGED <<answer, outgoing, fragment, torn, performed, readAs>>
    BY <1>3 DEF ReaderStep, TakeFrame, DispatchReply, DispatchEvent, Overflow, BadFrame,
         StreamEnds, FailPending, Tell, Signal, ReaderDies, Interrupt, callers, network, asterisk
  <2> QED BY <2>1 DEF RequestsOK, Unread
<1>4. CASE WorkerStep \/ Emit \/ UNCHANGED vars
  <2>1. UNCHANGED <<answer, outgoing, fragment, torn, performed, readAs>>
    BY <1>4 DEF WorkerStep, TakeEvent, FinishEvent, WorkerEnds, Emit, callers, network,
         asterisk, vars
  <2> QED BY <2>1 DEF RequestsOK, Unread
<1>5. CASE Stop \/ Break
  <2>1. /\ fragment' = {} /\ outgoing' \subseteq outgoing
        /\ UNCHANGED <<answer, torn, performed, readAs>>
    BY <1>5 DEF Stop, Break, callers, asterisk
  <2> QED BY <2>1 DEF RequestsOK, Unread
<1>6. ASSUME NEW f \in outgoing, NEW k \in Members(f), NEW name \in ReplyNames(f),
             NEW v \in Verdicts, Perform(f, k, name, v)
      PROVE  RequestsOK'
  <2>1. outgoing' = outgoing \ {f} /\ UNCHANGED <<answer, torn, fragment>>
    BY <1>6 DEF Perform, callers
  <2>2. \A i \in Ids \ Members(f) : performed'[i] = performed[i] /\ readAs'[i] = readAs[i]
    BY <1>6, Reading
  <2>3. \A i \in fragment : i \in Ids \ Members(f)
    BY DEF RequestsOK, TypeOK
  <2>4. \A g \in outgoing' : \A i \in Members(g) : i \in Ids \ Members(f)
    BY <2>1, RequestFields DEF RequestsOK
  <2> QED BY <2>1, <2>2, <2>3, <2>4 DEF RequestsOK, Unread
<1> QED
  BY <1>1, <1>2, <1>3, <1>4, <1>5, <1>6 DEF Next, AsteriskStep

(* A call moves on, or leaves, while its action is where it was.           *)
LEMMA UnsentOKMove ==
  ASSUME TypeOK, UnsentOK, NEW t \in Threads, NEW c,
         UNCHANGED <<answer, performed, readAs, torn, outgoing>>,
         call' = [call EXCEPT ![t] = c], c.id = call[t].id,
         \/ c.pc \in {"checked", "registered", "sending"} /\ Untouched(call[t].id)
         \/ /\ c.pc = "leaving"
            /\ \/ c.outcome = "unknown"
               \/ c.outcome = "refused" /\ Untouched(call[t].id)
               \/ /\ c.outcome \in Verdicts /\ c.outcome = Told(call[t].id)
                  /\ call[t].id \notin torn
  PROVE  UnsentOK'
<1>1. call'[t] = c /\ \A u \in Threads \ {t} : call'[u] = call[u]
  BY DEF TypeOK
<1> QED BY <1>1 DEF UnsentOK, Untouched, Unread, Told, Verdicts

LEMMA UnsentOKMoveOn ==
  ASSUME TypeOK, UnsentOK, NEW t \in Threads, NEW p \in {"checked", "registered", "sending"},
         UNCHANGED <<answer, performed, readAs, torn, outgoing>>,
         call' = [call EXCEPT ![t] = [call[t] EXCEPT !.pc = p]],
         call[t].pc \in {"called", "checked", "registered"}
  PROVE  UnsentOK'
<1>1. call'[t] = [pc |-> p, id |-> call[t].id] /\ \A u \in Threads \ {t} : call'[u] = call[u]
  BY MovesOn DEF TypeOK
<1>2. Untouched(call[t].id)
  BY DEF UnsentOK
<1> QED BY <1>1, <1>2 DEF UnsentOK, Untouched, Unread, Told

LEMMA UnsentOKCall ==
  ASSUME TypeOK, CallsOK, RequestsOK, UnsentOK, ComingOK, NEW t \in Threads,
         CallStep(t) \/ \E i \in Ids : Begin(t, i)
  PROVE  UnsentOK'
<1>1. ASSUME NEW i \in Ids, Begin(t, i) PROVE UnsentOK'
  <2>1. call'[t] = [pc |-> "called", id |-> i] /\ \A u \in Threads \ {t} : call'[u] = call[u]
    BY <1>1 DEF Begin, Goto, TypeOK
  <2>2. /\ answer[i] = "none" /\ answer' = [answer EXCEPT ![i] = "asked"]
        /\ UNCHANGED <<performed, readAs, torn, outgoing>>
    BY <1>1 DEF Begin, network, asterisk
  <2>3. \A j : Untouched(j)' <=> Untouched(j)
    BY <2>2 DEF Untouched, Unread
  <2>4. \A j \in Ids : answer'[j] = "none" => Untouched(j)'
    BY <2>2, <2>3 DEF UnsentOK, TypeOK
  <2>5. Untouched(i)
    BY <2>2 DEF UnsentOK
  <2> QED BY <2>1, <2>2, <2>3, <2>4, <2>5 DEF UnsentOK, Told
<1>2. ASSUME NEW o \in Outcomes, call[t].pc # "idle", Return(t, o),
             UNCHANGED <<performed, readAs, torn, outgoing>>
      PROVE  UnsentOK'
  <2>1. call'[t] = Idle /\ \A u \in Threads \ {t} : call'[u] = call[u]
    BY <1>2 DEF Return, Goto, TypeOK
  <2>2. answer' = [answer EXCEPT ![call[t].id] = o] /\ o # "none"
    BY <1>2 DEF Return, Outcomes, Verdicts
  <2>3. \A i \in Ids : answer'[i] = "none" => answer[i] = "none"
    BY <2>2 DEF TypeOK
  <2> QED BY <1>2, <2>1, <2>3 DEF UnsentOK, Untouched, Unread, Told, Idle
<1>3. CASE NotConnected(t)
  BY <1>3, <1>2 DEF NotConnected, network, asterisk, Outcomes
<1>4. CASE Check(t) \/ Register(t)
  BY <1>4, UnsentOKMoveOn DEF Check, Register, Goto, network, asterisk
<1>5. CASE Lock(t)
  <2>1. Untouched(call[t].id)
    BY <1>5 DEF Lock, UnsentOK
  <2>2. CASE running
    BY <1>5, <2>2, UnsentOKMoveOn DEF Lock, Goto, network, asterisk
  <2>3. CASE ~ running
    BY <1>5, <2>1, <2>3, UnsentOKMove DEF Lock, Goto, Leaving, network, asterisk
  <2> QED BY <2>2, <2>3
<1>6. ASSUME Send(t) \/ SendFails(t) PROVE UnsentOK'
  <2>1. /\ call[t].pc = "sending" /\ Untouched(call[t].id)
        /\ answer[call[t].id] = "asked"
        /\ \A u \in Threads \ {t} : call[u].pc # "idle" => call[u].id # call[t].id
    BY <1>6, CallFields DEF Send, SendFails, UnsentOK, CallsOK
  <2>2. /\ \/ call'[t].pc = "waiting" /\ torn' = torn
           \/ call'[t].pc = "leaving" /\ call'[t].outcome = "unknown"
        /\ call'[t].id = call[t].id
        /\ \A u \in Threads \ {t} : call'[u] = call[u]
    BY <1>6, CallFields DEF Send, SendFails, Goto, Leaving, TypeOK
  <2>3. /\ torn' \subseteq torn \cup {call[t].id}
        /\ UNCHANGED <<answer, performed, readAs>>
    BY <1>6 DEF Send, SendFails, WrittenInPart, asterisk
  <2>4. \A f \in outgoing' : f \in outgoing \/ Members(f) = fragment \cup {call[t].id}
    BY <1>6 DEF Send, SendFails, Members
  <2>5. ASSUME NEW i, Untouched(i), i # call[t].id PROVE Untouched(i)'
    BY <2>3, <2>4, <2>5 DEF Untouched, Unread, RequestsOK
  <2>6. \A i \in Ids : answer'[i] = "none" => Untouched(i)'
    BY <2>1, <2>3, <2>5 DEF UnsentOK
  <2>7. ASSUME NEW u \in Threads \ {t}
        PROVE  /\ (call[u].pc \in {"called", "checked", "registered", "sending"} =>
                     Untouched(call[u].id))'
               /\ (call[u].pc = "waiting" => call[u].id \notin torn)'
               /\ (call[u].pc = "leaving" =>
                     /\ call[u].outcome = "refused" => Untouched(call[u].id)
                     /\ call[u].outcome \in Verdicts =>
                          call[u].id \notin torn /\ call[u].outcome = Told(call[u].id))'
    <3>1. call'[u] = call[u] /\ (call[u].pc # "idle" => call[u].id # call[t].id)
      BY <2>1, <2>2, <2>7
    <3> QED BY <2>3, <2>5, <3>1 DEF UnsentOK, Told
  <2>8. call'[t].pc = "waiting" => call'[t].id \notin torn'
    BY <2>1, <2>2 DEF Untouched
  <2> QED BY <2>2, <2>6, <2>7, <2>8 DEF UnsentOK, Verdicts
<1>7. CASE Timeout(t)
  BY <1>7, UnsentOKMove DEF Timeout, Goto, Leaving, network, asterisk
<1>8. CASE Wake(t)
  <2>1. call[t].id \in Ids /\ call[t].id \notin torn
    BY <1>8, CallFields DEF Wake, UnsentOK
  <2>2. PICK o \in Outcomes :
          /\ call' = [call EXCEPT ![t] = Leaving(call[t].id, o)]
          /\ o = "unknown" \/ (o \in Verdicts /\ o = Told(call[t].id))
    BY <1>8, <2>1 DEF Wake, Goto, ComingOK, Outcomes
  <2>3. UNCHANGED <<answer, performed, readAs, torn, outgoing>>
    BY <1>8 DEF Wake, network, asterisk
  <2> QED BY <2>1, <2>2, <2>3, UnsentOKMove DEF Leaving
<1>9. CASE Leave(t)
  BY <1>9, <1>2, CallFields DEF Leave, network, asterisk
<1> QED
  BY <1>1, <1>3, <1>4, <1>5, <1>6, <1>7, <1>8, <1>9 DEF CallStep

LEMMA UnsentOKStep ==
  ASSUME TypeOK, CallsOK, RequestsOK, UnsentOK, ComingOK, [Next]_vars
  PROVE  UnsentOK'
<1>1. ASSUME NEW t \in Threads, CallStep(t) \/ \E i \in Ids : Begin(t, i) PROVE UnsentOK'
  BY <1>1, UnsentOKCall
<1>2. CASE ReaderStep
  BY <1>2, UnsentOKFrame DEF ReaderStep, TakeFrame, DispatchReply, DispatchEvent, Overflow,
       BadFrame, StreamEnds, FailPending, Tell, Signal, ReaderDies, Interrupt, callers,
       network, asterisk
<1>3. CASE Stop \/ WorkerStep \/ Emit \/ UNCHANGED vars
  BY <1>3, UnsentOKFrame DEF Stop, WorkerStep, TakeEvent, FinishEvent, WorkerEnds, Emit,
       callers, network, asterisk, vars
<1>4. CASE Break
  BY <1>4 DEF Break, callers, asterisk, UnsentOK, Untouched, Unread, Told
<1>5. ASSUME NEW f \in outgoing, NEW k \in Members(f), NEW name \in ReplyNames(f),
             NEW v \in Verdicts, Perform(f, k, name, v)
      PROVE  UnsentOK'
  <2>1. outgoing' = outgoing \ {f} /\ UNCHANGED <<answer, call, torn>>
    BY <1>5 DEF Perform, callers
  <2>2. ASSUME NEW i \in Ids, Untouched(i) PROVE Untouched(i)'
    <3>1. i \notin Members(f)
      BY <2>2 DEF Untouched
    <3>2. performed'[i] = performed[i] /\ readAs'[i] = readAs[i]
      BY <1>5, <3>1, Reading
    <3> QED BY <2>1, <2>2, <3>2 DEF Untouched, Unread
  <2>3. \A i \in Ids : Told(i) \in Verdicts => Told(i)' = Told(i)
    BY <1>5, Reading
  <2>4. \A t \in Threads : call[t].pc # "idle" => call[t].id \in Ids
    BY CallFields
  <2> QED BY <2>1, <2>2, <2>3, <2>4 DEF UnsentOK
<1> QED
  BY <1>1, <1>2, <1>3, <1>4, <1>5 DEF Next, AsteriskStep

-----------------------------------------------------------------------------
(* ComingOK.                                                               *)

LEMMA ComingOKFrame ==
  ASSUME ComingOK, UNCHANGED <<performed, readAs, incoming, reader, waiter>>
  PROVE  ComingOK'
  BY DEF ComingOK, Told

(* The reader goes to a state in which it holds no verdict.                *)
LEMMA ComingOKReader ==
  ASSUME ComingOK, UNCHANGED <<performed, readAs, incoming, waiter>>,
         reader'.pc \in {"reading", "failing", "interrupting", "dead"}
  PROVE  ComingOK'
  BY DEF ComingOK, Told

LEMMA ComingOKStep ==
  ASSUME TypeOK, RequestsOK, ComingOK, [Next]_vars
  PROVE  ComingOK'
<1>1. ASSUME NEW t \in Threads, CallStep(t) \/ \E i \in Ids : Begin(t, i) PROVE ComingOK'
  BY <1>1, ComingOKFrame DEF CallStep, Begin, NotConnected, Check, Register, Lock, Send,
       SendFails, Wake, Timeout, Leave, network, asterisk
<1>2. CASE Stop
  <2>1. \A i \in Ids : waiter'[i].verdict \in {waiter[i].verdict, "interrupted"}
    BY <1>2 DEF Stop
  <2> QED BY <1>2, <2>1 DEF Stop, ComingOK, Told, Verdicts, asterisk
<1>3. CASE WorkerStep \/ UNCHANGED vars
  BY <1>3, ComingOKFrame DEF WorkerStep, TakeEvent, FinishEvent, WorkerEnds, network, asterisk, vars
<1>4. CASE TakeFrame
  <2>1. /\ incoming' = Tail(incoming) /\ incoming # <<>> /\ incoming \in Seq(Frame)
        /\ reader' = [pc |-> "dispatching", frame |-> incoming[1]]
        /\ UNCHANGED <<performed, readAs, waiter>>
    BY <1>4 DEF TakeFrame, ReaderGoes, TypeOK, asterisk
  <2>2. /\ Len(incoming') = Len(incoming) - 1 /\ Len(incoming) \in Nat /\ 1 \in 1..Len(incoming)
        /\ \A k \in 1..Len(incoming') : incoming'[k] = incoming[k + 1] /\ k + 1 \in 1..Len(incoming)
    BY <2>1
  <2> QED BY <2>1, <2>2 DEF ComingOK, Told
<1>5. CASE DispatchReply
  <2>1. \/ reader' = [pc |-> "reading"]
        \/ reader' = [pc |-> "telling", notice |-> [id |-> reader.frame.id,
                                                    verdict |-> reader.frame.verdict]]
    BY <1>5 DEF DispatchReply, ReaderGoes
  <2> QED BY <1>5, <2>1, ComingOKReader DEF DispatchReply, network, asterisk, ComingOK, Told
<1>6. CASE DispatchEvent \/ Overflow \/ BadFrame \/ StreamEnds \/ FailPending \/ ReaderDies
  BY <1>6, ComingOKReader DEF DispatchEvent, Overflow, BadFrame, StreamEnds, FailPending,
       ReaderDies, ReaderGoes, network, asterisk
<1>7. CASE Tell
  <2>1. /\ reader.notice \in Notice /\ reader' = [pc |-> "signalling", notice |-> reader.notice]
        /\ waiter' = [waiter EXCEPT ![reader.notice.id].verdict = reader.notice.verdict]
        /\ UNCHANGED <<performed, readAs, incoming>>
    BY <1>7, ReaderFields DEF Tell, ReaderGoes, network, asterisk
  <2>2. Told(reader.notice.id) = reader.notice.verdict
    BY <1>7 DEF Tell, ComingOK
  <2>3. \A i \in Ids : waiter'[i].verdict \in Verdicts => waiter'[i].verdict = Told(i)
    BY <2>1, <2>2 DEF ComingOK, TypeOK, Waiter, Notice
  <2> QED BY <2>1, <2>2, <2>3 DEF ComingOK, Told
<1>8. CASE Signal
  <2>1. \A i \in Ids : waiter'[i].verdict = waiter[i].verdict
    BY <1>8 DEF Signal, TypeOK, Waiter
  <2> QED BY <1>8, <2>1 DEF Signal, ReaderGoes, ComingOK, Told, network, asterisk
<1>9. ASSUME NEW i \in Ids, Interrupt(i) PROVE ComingOK'
  <2>1. \A j \in Ids : waiter'[j].verdict \in {waiter[j].verdict, "interrupted"}
    BY <1>9 DEF Interrupt, TypeOK
  <2>2. reader'.pc = "interrupting"
    BY <1>9, ReaderFields DEF Interrupt, ReaderGoes
  <2> QED BY <1>9, <2>1, <2>2 DEF Interrupt, ComingOK, Told, network, asterisk, Verdicts
<1>10. ASSUME NEW f \in outgoing, NEW m \in Members(f), NEW name \in ReplyNames(f),
              NEW v \in Verdicts, Perform(f, m, name, v)
       PROVE  ComingOK'
  <2>1. UNCHANGED <<reader, waiter>>
    BY <1>10 DEF Perform
  <2>2. \A k \in 1..Len(incoming') :
          \/ k \in 1..Len(incoming) /\ incoming'[k] = incoming[k]
          \/ name # None /\ incoming'[k] = [kind |-> "reply", id |-> name, verdict |-> v]
    BY <1>10 DEF Perform, TypeOK
  <2>3. \A j \in Ids : /\ Told(j) \in Verdicts => Told(j)' = Told(j)
                       /\ j \in Members(f) => Told(j)' = v
    BY <1>10, Reading
  <2>4. name # None => name \in Ids /\ name \in Members(f)
    BY RequestFields
  <2>5. \A k \in 1..Len(incoming') :
          incoming'[k].kind = "reply" => Told(incoming[k].id)' = incoming'[k].verdict
    <3> SUFFICES ASSUME NEW k \in 1..Len(incoming'), incoming'[k].kind = "reply"
                 PROVE  Told(incoming[k].id)' = incoming'[k].verdict
      OBVIOUS
    <3>1. CASE k \in 1..Len(incoming) /\ incoming'[k] = incoming[k]
      <4>1. /\ incoming[k].id \in Ids /\ incoming[k].verdict \in Verdicts
            /\ Told(incoming[k].id) = incoming[k].verdict
        BY <3>1, FrameFields DEF TypeOK, ComingOK
      <4>2. Told(incoming[k].id)' = performed'[readAs'[incoming'[k].id]]
        BY DEF Told
      <4>3. performed'[readAs'[incoming[k].id]] = performed[readAs[incoming[k].id]]
        BY <4>1, <2>3 DEF Told
      <4> QED BY <3>1, <4>1, <4>2, <4>3 DEF Told
    <3>2. CASE name # None /\ incoming'[k] = [kind |-> "reply", id |-> name, verdict |-> v]
      <4>1. performed'[readAs'[name]] = v
        BY <3>2, <2>3, <2>4 DEF Told
      <4> QED BY <3>2, <4>1 DEF Told
    <3> QED BY <2>2, <3>1, <3>2
  <2>6. reader.pc = "dispatching" /\ reader.frame.kind = "reply" =>
          Told(reader.frame.id)' = reader.frame.verdict
    <3> SUFFICES ASSUME reader.pc = "dispatching", reader.frame.kind = "reply"
                 PROVE  Told(reader.frame.id)' = reader.frame.verdict
      OBVIOUS
    <3>1. /\ reader.frame.id \in Ids /\ reader.frame.verdict \in Verdicts
          /\ Told(reader.frame.id) = reader.frame.verdict
      BY ReaderFields, FrameFields DEF ComingOK
    <3>2. performed'[readAs'[reader.frame.id]] = performed[readAs[reader.frame.id]]
      BY <3>1, <2>3 DEF Told
    <3> QED BY <2>1, <3>1, <3>2 DEF Told
  <2>7. reader.pc \in {"telling", "signalling"} =>
          Told(reader.notice.id)' = reader.notice.verdict
    <3> SUFFICES ASSUME reader.pc \in {"telling", "signalling"}
                 PROVE  Told(reader.notice.id)' = reader.notice.verdict
      OBVIOUS
    <3>1. reader.notice.id \in Ids /\ Told(reader.notice.id) = reader.notice.verdict
      BY ReaderFields DEF ComingOK, Notice
    <3>2. Told(reader.notice.id) \in Verdicts
      <4>1. readAs[reader.notice.id] \in Ids
        BY <3>1 DEF TypeOK
      <4>2. performed[readAs[reader.notice.id]] \in Verdicts \cup {"none"}
        BY <4>1 DEF TypeOK
      <4> QED BY <3>1, <4>2, ReaderFields DEF Notice, Verdicts, Told
    <3>3. performed'[readAs'[reader.notice.id]] = performed[readAs[reader.notice.id]]
      BY <3>1, <3>2, <2>3 DEF Told
    <3> QED BY <2>1, <3>1, <3>3 DEF Told
  <2>8. \A j \in Ids : waiter[j].verdict \in Verdicts => waiter[j].verdict = Told(j)'
    BY <2>3 DEF ComingOK
  <2> QED BY <2>1, <2>5, <2>6, <2>7, <2>8 DEF ComingOK
<1>11. CASE Emit
  <2>1. \A k \in 1..Len(incoming') :
          \/ k \in 1..Len(incoming) /\ incoming'[k] = incoming[k]
          \/ incoming'[k] = [kind |-> "event", number |-> emitted + 1]
    BY <1>11 DEF Emit, TypeOK
  <2> QED BY <1>11, <2>1 DEF Emit, ComingOK, Told
<1>12. CASE Break
  <2>1. \A k \in 1..Len(incoming') : k \in 1..Len(incoming) /\ incoming'[k] = incoming[k]
    BY <1>12 DEF Break, TypeOK
  <2> QED BY <1>12, <2>1 DEF Break, ComingOK, Told, asterisk
<1> QED
  BY <1>1, <1>2, <1>3, <1>4, <1>5, <1>6, <1>7, <1>8, <1>9, <1>10, <1>11, <1>12
     DEF Next, ReaderStep, AsteriskStep

-----------------------------------------------------------------------------
(* WaitersOK.                                                              *)

LEMMA WaitersOKFrame ==
  ASSUME WaitersOK, UNCHANGED <<running, pending, waiter, reader, call, answer>>
  PROVE  WaitersOK'
  BY DEF WaitersOK, Held, Noticed, Doomed

(* The part of WaitersOK about where a waiter is.                          *)
Placed(i) ==
  /\ i \in pending => ~ Noticed(i) /\ ~ Doomed(i)
  /\ i \in pending \/ Noticed(i) \/ Doomed(i) => ~ waiter[i].ready

(* A call moves on, and what is held stays held.                           *)
LEMMA WaitersOKMove ==
  ASSUME TypeOK, WaitersOK, NEW t \in Threads, NEW c,
         UNCHANGED <<running, pending, waiter, reader, answer>>,
         call' = [call EXCEPT ![t] = c],
         \/ c.pc = "leaving"
         \/ c.pc = "checked" /\ call[t].pc = "called" /\ c.id = call[t].id
         \/ /\ c.pc = "waiting" /\ call[t].pc = "sending" /\ c.id = call[t].id
         \/ /\ c.pc = "sending" /\ call[t].pc = "registered" /\ c.id = call[t].id
            /\ running
  PROVE  WaitersOK'
<1>1. call'[t] = c /\ \A u \in Threads \ {t} : call'[u] = call[u]
  BY DEF TypeOK
<1> QED BY <1>1 DEF WaitersOK, Held, Noticed, Doomed

(* The reader or stop() moves waiters: each stays held, and none that was  *)
(* held by nobody gets in.                                                 *)
LEMMA WaitersOKReader ==
  ASSUME TypeOK, WaitersOK, UNCHANGED <<call, answer>>,
         running' \in {running, FALSE}, pending' \subseteq pending,
         \A i \in Ids : Placed(i)' /\ (Held(i)' <=> Held(i)),
         \/ reader'.pc \notin {"failing", "interrupting", "dead"}
         \/ ~ running' /\ (reader'.pc = "failing" \/ pending' = {})
         \/ ~ running' /\ reader.pc \in {"interrupting", "dead"}
  PROVE  WaitersOK'
<1>1. \A t \in Threads : call[t].pc \in {"called", "checked", "registered", "sending", "waiting"}
                           => call[t].id \in Ids
  BY CallFields
<1> QED BY <1>1 DEF WaitersOK, Placed

LEMMA WaitersOKCall ==
  ASSUME TypeOK, CallsOK, WaitersOK, NEW t \in Threads,
         CallStep(t) \/ \E i \in Ids : Begin(t, i)
  PROVE  WaitersOK'
<1>1. ASSUME NEW i \in Ids, Begin(t, i) PROVE WaitersOK'
  <2>1. call'[t] = [pc |-> "called", id |-> i] /\ \A u \in Threads \ {t} : call'[u] = call[u]
    BY <1>1 DEF Begin, Goto, TypeOK
  <2>2. /\ answer[i] = "none" /\ answer' = [answer EXCEPT ![i] = "asked"]
        /\ UNCHANGED <<running, pending, waiter, reader>>
    BY <1>1 DEF Begin
  <2>3. ~ Held(i) /\ \A j \in Ids : answer'[j] = "none" => answer[j] = "none"
    BY <2>2 DEF WaitersOK, TypeOK
  <2> QED BY <2>1, <2>2, <2>3 DEF WaitersOK, Held, Noticed, Doomed
<1>2. ASSUME NEW o \in Outcomes, call[t].pc # "idle", Return(t, o),
             UNCHANGED <<running, waiter, reader>>,
             pending' \in {pending, pending \ {call[t].id}},
             call[t].pc = "leaving" \/ pending' = pending
      PROVE  WaitersOK'
  <2>1. call'[t] = Idle /\ \A u \in Threads \ {t} : call'[u] = call[u]
    BY <1>2 DEF Return, Goto, TypeOK
  <2>2. answer' = [answer EXCEPT ![call[t].id] = o] /\ o # "none"
    BY <1>2 DEF Return, Outcomes, Verdicts
  <2>3. \A j \in Ids : answer'[j] = "none" => answer[j] = "none"
    BY <2>2 DEF TypeOK
  <2>4. \A u \in Threads \ {t} : call[u].pc # "idle" => call[u].id # call[t].id
    BY <1>2, CallFields DEF CallsOK
  <2>5. \A i : Held(i)' => Held(i)
    BY <1>2 DEF Held, Noticed, Doomed
  <2>6. \A i : i # call[t].id /\ Held(i) => Held(i)'
    BY <1>2 DEF Held, Noticed, Doomed
  <2>7. \A u \in Threads :
          /\ (call[u].pc \in {"called", "checked"} => ~ Held(call[u].id))'
          /\ (call[u].pc \in {"registered", "sending", "waiting"} => Held(call[u].id))'
    BY <1>2, <2>1, <2>4 DEF WaitersOK, Idle, Held, Noticed, Doomed
  <2>8. \A i \in Ids : Placed(i)' /\ (answer'[i] = "none" => ~ Held(i)')
    BY <1>2, <2>3, <2>5 DEF WaitersOK, Placed, Noticed, Doomed
  <2>9. \A u \in Threads :
          reader'.pc \in {"interrupting", "dead"} /\ call'[u].pc \in {"sending", "waiting"} =>
            call'[u].id \notin pending'
    BY <1>2, <2>1 DEF WaitersOK, Idle
  <2>10. reader'.pc \in {"failing", "interrupting", "dead"} => ~ running'
    BY <1>2 DEF WaitersOK
  <2> QED BY <2>7, <2>8, <2>9, <2>10 DEF WaitersOK, Placed
<1>3. CASE NotConnected(t)
  BY <1>3, <1>2 DEF NotConnected, Outcomes
<1>4. CASE Check(t)
  BY <1>4, WaitersOKMove, MovesOn DEF Check, Goto
<1>5. CASE Register(t)
  <2>1. call'[t] = [pc |-> "registered", id |-> call[t].id]
        /\ \A u \in Threads \ {t} : call'[u] = call[u]
    BY <1>5, MovesOn DEF Register, Goto, TypeOK
  <2>2. /\ pending' = pending \cup {call[t].id}
        /\ UNCHANGED <<running, waiter, reader, answer>>
    BY <1>5 DEF Register
  <2>3. ~ Held(call[t].id) /\ call[t].id \in Ids /\ answer[call[t].id] = "asked"
    BY <1>5, CallFields DEF Register, WaitersOK, CallsOK
  <2>4. \A u \in Threads \ {t} : call[u].pc # "idle" => call[u].id # call[t].id
    BY <1>5, CallFields DEF Register, CallsOK
  <2>5. \A i : Held(i)' <=> Held(i) \/ i = call[t].id
    BY <2>2 DEF Held, Noticed, Doomed
  <2>6. \A i \in Ids : Placed(i)' /\ (answer'[i] = "none" => ~ Held(i)')
    BY <2>2, <2>3, <2>5 DEF WaitersOK, Placed, Held, Noticed, Doomed
  <2>7. \A u \in Threads :
          /\ (call[u].pc \in {"called", "checked"} => ~ Held(call[u].id))'
          /\ (call[u].pc \in {"registered", "sending", "waiting"} => Held(call[u].id))'
    BY <2>1, <2>2, <2>4 DEF WaitersOK, Held, Noticed, Doomed
  <2>8. \A u \in Threads :
          reader'.pc \in {"interrupting", "dead"} /\ call'[u].pc \in {"sending", "waiting"} =>
            call'[u].id \notin pending'
    BY <2>1, <2>2, <2>4 DEF WaitersOK
  <2>9. reader'.pc \in {"failing", "interrupting", "dead"} => ~ running'
    BY <2>2 DEF WaitersOK
  <2> QED BY <2>6, <2>7, <2>8, <2>9 DEF WaitersOK, Placed
<1>6. CASE Lock(t)
  <2>1. CASE running
    <3>1. call' = [call EXCEPT ![t] = [pc |-> "sending", id |-> call[t].id]]
      BY <1>6, <2>1, CallFields DEF Lock, Goto
    <3> QED BY <1>6, <2>1, <3>1, WaitersOKMove DEF Lock
  <2>2. CASE ~ running
    BY <1>6, <2>2, WaitersOKMove DEF Lock, Goto, Leaving
  <2> QED BY <2>1, <2>2
<1>7. CASE Send(t)
  BY <1>7, WaitersOKMove, MovesOn DEF Send, Goto
<1>8. CASE SendFails(t) \/ Wake(t) \/ Timeout(t)
  BY <1>8, WaitersOKMove DEF SendFails, Wake, Timeout, Goto, Leaving
<1>9. CASE Leave(t)
  BY <1>9, <1>2, CallFields DEF Leave
<1> QED
  BY <1>1, <1>3, <1>4, <1>5, <1>6, <1>7, <1>8, <1>9 DEF CallStep

LEMMA WaitersOKReaderStep ==
  ASSUME TypeOK, WaitersOK, Stop \/ ReaderStep
  PROVE  WaitersOK'
<1> DEFINE Kept == \A i \in Ids : Placed(i)' /\ (Held(i)' <=> Held(i))
<1>0. \A i \in Ids : Placed(i)
  BY DEF WaitersOK, Placed
<1>1. CASE Stop
  <2>1. \A i \in Ids : waiter'[i].ready <=> waiter[i].ready \/ i \in pending
    BY <1>1 DEF Stop
  <2>2. Kept
    BY <1>0, <1>1, <2>1 DEF Stop, Placed, Held, Noticed, Doomed
  <2> QED BY <1>1, <2>2, WaitersOKReader DEF Stop
<1>2. CASE TakeFrame \/ DispatchEvent \/ Overflow \/ BadFrame \/ StreamEnds
  <2>1. /\ reader.pc \in {"reading", "dispatching"}
        /\ \/ reader'.pc \in {"dispatching", "reading"} /\ running' = running
           \/ reader'.pc = "failing" /\ running' = FALSE
        /\ UNCHANGED <<pending, waiter, call, answer>>
    BY <1>2 DEF TakeFrame, DispatchEvent, Overflow, BadFrame, StreamEnds, ReaderGoes, callers
  <2>2. Kept
    BY <1>0, <2>1 DEF Placed, Held, Noticed, Doomed
  <2> QED BY <2>1, <2>2, WaitersOKReader
<1>3. CASE DispatchReply
  <2>1. /\ reader.pc = "dispatching"
        /\ pending' = pending \ {reader.frame.id}
        /\ IF reader.frame.id \in pending
           THEN reader'.pc = "telling" /\ reader'.notice.id = reader.frame.id
           ELSE reader'.pc = "reading"
        /\ UNCHANGED <<running, waiter, call, answer>>
    BY <1>3 DEF DispatchReply, ReaderGoes, callers
  <2>2. Kept
    BY <1>0, <2>1 DEF Placed, Held, Noticed, Doomed
  <2> QED BY <2>1, <2>2, WaitersOKReader
<1>4. CASE FailPending
  <2>1. /\ reader.pc = "failing" /\ reader'.pc = "interrupting" /\ reader'.ids = pending
        /\ pending' = {} /\ ~ running'
        /\ UNCHANGED <<running, waiter, call, answer>>
    BY <1>4 DEF FailPending, ReaderGoes, callers, WaitersOK
  <2>2. Kept
    BY <1>0, <2>1 DEF Placed, Held, Noticed, Doomed
  <2> QED BY <2>1, <2>2, WaitersOKReader
<1>5. CASE Tell
  <2>1. /\ reader.pc = "telling" /\ reader'.pc = "signalling" /\ reader'.notice = reader.notice
        /\ \A i \in Ids : waiter'[i].ready = waiter[i].ready
        /\ UNCHANGED <<running, pending, call, answer>>
    BY <1>5, ReaderFields DEF Tell, ReaderGoes, callers, TypeOK, Waiter
  <2>2. Kept
    BY <1>0, <2>1 DEF Placed, Held, Noticed, Doomed
  <2> QED BY <2>1, <2>2, WaitersOKReader
<1>6. CASE Signal
  <2>1. /\ reader.pc = "signalling" /\ reader'.pc = "reading"
        /\ \A i \in Ids : waiter'[i].ready <=> waiter[i].ready \/ i = reader.notice.id
        /\ UNCHANGED <<running, pending, call, answer>>
    BY <1>6 DEF Signal, ReaderGoes, callers, TypeOK, Waiter
  <2>2. Kept
    BY <1>0, <2>1 DEF Placed, Held, Noticed, Doomed
  <2> QED BY <2>1, <2>2, WaitersOKReader
<1>7. ASSUME NEW i \in Ids, Interrupt(i) PROVE WaitersOK'
  <2>1. /\ reader.pc = "interrupting" /\ reader'.pc = "interrupting"
        /\ i \in reader.ids /\ reader'.ids = reader.ids \ {i}
        /\ \A j \in Ids : waiter'[j].ready <=> waiter[j].ready \/ j = i
        /\ UNCHANGED <<running, pending, call, answer>>
    BY <1>7, ReaderFields DEF Interrupt, ReaderGoes, callers, TypeOK
  <2>2. Kept /\ ~ running
    BY <1>0, <2>1 DEF Placed, Held, Noticed, Doomed, WaitersOK
  <2> QED BY <2>1, <2>2, WaitersOKReader
<1>8. CASE ReaderDies
  <2>1. /\ reader.pc = "interrupting" /\ reader.ids = {} /\ reader'.pc = "dead"
        /\ UNCHANGED <<running, pending, waiter, call, answer>>
    BY <1>8 DEF ReaderDies, ReaderGoes, callers
  <2>2. Kept /\ ~ running
    BY <1>0, <2>1 DEF Placed, Held, Noticed, Doomed, WaitersOK
  <2> QED BY <2>1, <2>2, WaitersOKReader
<1> QED
  BY <1>1, <1>2, <1>3, <1>4, <1>5, <1>6, <1>7, <1>8 DEF ReaderStep

LEMMA WaitersOKStep ==
  ASSUME TypeOK, CallsOK, WaitersOK, [Next]_vars
  PROVE  WaitersOK'
<1>1. CASE WorkerStep \/ UNCHANGED vars
  BY <1>1, WaitersOKFrame DEF WorkerStep, TakeEvent, FinishEvent, WorkerEnds, callers, vars
<1>2. CASE Emit \/ Break \/ AsteriskStep
  BY <1>2, WaitersOKFrame DEF Emit, Break, AsteriskStep, Perform, callers
<1> QED
  BY <1>1, <1>2, WaitersOKCall, WaitersOKReaderStep DEF Next

-----------------------------------------------------------------------------
(* PendingIsInProgress.                                                    *)

InProgress == {"registered", "sending", "waiting", "leaving"}

LEMMA PendingStep ==
  ASSUME TypeOK, PendingIsInProgress, [Next]_vars
  PROVE  PendingIsInProgress'
<1> USE DEF PendingIsInProgress
<1>1. CASE pending' \subseteq pending /\ call' = call
  BY <1>1
<1>2. ASSUME NEW t \in Threads, NEW c, call' = [call EXCEPT ![t] = c], pending' \subseteq pending,
             call[t].pc \in InProgress => c.pc \in InProgress /\ c.id = call[t].id
      PROVE  PendingIsInProgress'
  <2>1. call'[t] = c /\ \A u \in Threads \ {t} : call'[u] = call[u]
    BY <1>2 DEF TypeOK
  <2> QED BY <1>2, <2>1 DEF InProgress
<1>3. ASSUME NEW t \in Threads, CallStep(t) \/ \E i \in Ids : Begin(t, i)
      PROVE  PendingIsInProgress'
  <2>1. ASSUME NEW i \in Ids, Begin(t, i) PROVE PendingIsInProgress'
    BY <2>1, <1>2 DEF Begin, Goto, InProgress, Idle
  <2>2. CASE NotConnected(t)
    BY <2>2, <1>2 DEF NotConnected, Return, Goto, InProgress
  <2>3. CASE Check(t)
    BY <2>3, <1>2 DEF Check, Goto, InProgress
  <2>4. CASE Register(t)
    <3>1. call'[t] = [pc |-> "registered", id |-> call[t].id]
          /\ \A u \in Threads \ {t} : call'[u] = call[u]
      BY <2>4, MovesOn DEF Register, Goto, TypeOK
    <3>2. call[t].pc = "checked" /\ pending' = pending \cup {call[t].id}
      BY <2>4 DEF Register
    <3> QED BY <3>1, <3>2
  <2>5. CASE Lock(t) \/ Send(t)
    <3>1. CASE \E p \in {"sending", "waiting"} :
                 /\ call[t].pc \notin {"idle", "leaving"}
                 /\ call' = [call EXCEPT ![t] = [call[t] EXCEPT !.pc = p]]
      <4>1. PICK p \in {"sending", "waiting"} :
               call' = [call EXCEPT ![t] = [call[t] EXCEPT !.pc = p]]
        BY <3>1
      <4>2. call'[t] = [pc |-> p, id |-> call[t].id]
        BY <3>1, <4>1, MovesOn
      <4>3. [call[t] EXCEPT !.pc = p] = [pc |-> p, id |-> call[t].id]
        BY <4>1, <4>2 DEF TypeOK
      <4> QED BY <2>5, <4>1, <4>3, <1>2 DEF Lock, Send, InProgress
    <3>2. CASE \E o \in Outcomes : call' = [call EXCEPT ![t] = Leaving(call[t].id, o)]
      BY <2>5, <3>2, <1>2 DEF Lock, Send, InProgress, Leaving
    <3> QED BY <2>5, <3>1, <3>2 DEF Lock, Send, Goto, Outcomes
  <2>6. CASE SendFails(t) \/ Wake(t) \/ Timeout(t)
    BY <2>6, <1>2 DEF SendFails, Wake, Timeout, Goto, Leaving, InProgress
  <2>7. CASE Leave(t)
    <3>1. call'[t] = Idle /\ \A u \in Threads \ {t} : call'[u] = call[u]
      BY <2>7 DEF Leave, Return, Goto, TypeOK
    <3> QED BY <2>7, <3>1 DEF Leave
  <2> QED BY <1>3, <2>1, <2>2, <2>3, <2>4, <2>5, <2>6, <2>7 DEF CallStep
<1>4. CASE ReaderStep
  BY <1>4, <1>1 DEF ReaderStep, TakeFrame, DispatchReply, DispatchEvent, Overflow, BadFrame,
       StreamEnds, FailPending, Tell, Signal, ReaderDies, Interrupt, callers
<1>5. CASE Stop \/ WorkerStep
  BY <1>5, <1>1 DEF Stop, WorkerStep, TakeEvent, FinishEvent, WorkerEnds, callers
<1>6. CASE Emit \/ Break \/ AsteriskStep \/ UNCHANGED vars
  BY <1>6, <1>1 DEF Emit, Break, AsteriskStep, Perform, callers, vars
<1> QED
  BY <1>3, <1>4, <1>5, <1>6 DEF Next

-----------------------------------------------------------------------------
(* OrderOK.                                                                *)

LEMMA ReachedType == TypeOK => Reached \in Nat /\ Len(incoming) \in Nat
  BY DEF TypeOK, Reached

(* No event moves; the link may break.                                     *)
LEMMA OrderOKFrame ==
  ASSUME TypeOK, OrderOK, UNCHANGED <<handled, eventQueue, incoming, emitted>>,
         link' \in {link, "broken"},
         \/ reader' = reader
         \/ reader'.pc \in {"failing", "interrupting", "dead"}
         \/ Following /\ ~ Dispatching /\ ~ Dispatching'
  PROVE  OrderOK'
<1>1. GivenOK'
  BY DEF OrderOK, GivenOK
<1>2. ASSUME Following' PROVE StreamOK'
  <2>1. Following /\ Reached' = Reached /\ (Dispatching' => reader' = reader)
    BY <1>2 DEF Following, Reached, Dispatching
  <2>2. StreamOK
    BY <2>1 DEF OrderOK
  <2> QED BY <2>1, <2>2 DEF StreamOK, IsEvent, Dispatching
<1> QED BY <1>1, <1>2 DEF OrderOK

LEMMA OrderOKTakeFrame ==
  ASSUME TypeOK, OrderOK, TakeFrame
  PROVE  OrderOK'
<1> DEFINE n == Len(incoming)
<1>1. /\ n \in Nat /\ n > 0 /\ Len(incoming') = n - 1
      /\ \A k \in 1..(n - 1) : incoming'[k] = incoming[k + 1]
      /\ reader' = [pc |-> "dispatching", frame |-> incoming[1]]
      /\ UNCHANGED <<handled, eventQueue, link, emitted>>
  BY DEF TakeFrame, ReaderGoes, TypeOK, asterisk, events
<1>2. StreamOK /\ ~ Dispatching
  BY DEF TakeFrame, OrderOK, Following, Dispatching
<1>3. \A k \in 1..(n - 1) : IsEvent(k)' <=> IsEvent(k + 1)
  BY <1>1 DEF IsEvent
<1>4. Dispatching' <=> IsEvent(1)
  BY <1>1 DEF Dispatching, IsEvent
<1>5. Reached \in Nat /\ Reached' = Reached + (IF IsEvent(1) THEN 1 ELSE 0)
  BY <1>1, <1>2, <1>4, ReachedType DEF Reached, TypeOK
<1>6. IsEvent(1) => incoming[1].number = Reached + 1
  BY <1>1, <1>2 DEF StreamOK
<1>7. (Dispatching => reader.frame.number = Reached)'
  BY <1>1, <1>4, <1>5, <1>6
<1>8. ASSUME NEW k \in 1..Len(incoming'), IsEvent(k)'
      PROVE  /\ (\A j \in 1..(k - 1) : ~ IsEvent(j)') => incoming'[k].number = Reached' + 1
             /\ \A j \in 1..(k - 1) :
                  IsEvent(j)' /\ (\A m \in (j + 1)..(k - 1) : ~ IsEvent(m)') =>
                    incoming'[k].number = incoming'[j].number + 1
             /\ link' = "up" /\ (\A j \in (k + 1)..Len(incoming') : ~ IsEvent(j)') =>
                  incoming'[k].number = emitted'
  <2>1. k \in 1..(n - 1) /\ k + 1 \in 1..n /\ IsEvent(k + 1) /\ incoming'[k] = incoming[k + 1]
    BY <1>1, <1>3, <1>8
  <2>2. ASSUME \A j \in 1..(k - 1) : ~ IsEvent(j)'
        PROVE  incoming'[k].number = Reached' + 1
    <3>1. \A j \in 2..k : ~ IsEvent(j)
      <4> SUFFICES ASSUME NEW j \in 2..k PROVE ~ IsEvent(j)
        OBVIOUS
      <4>1. j - 1 \in 1..(k - 1) /\ j - 1 \in 1..(n - 1) /\ (j - 1) + 1 = j
        BY <1>1, <2>1
      <4> QED BY <4>1, <2>2, <1>3
    <3>2. CASE IsEvent(1)
      <4>1. /\ 1 \in 1..((k + 1) - 1)
            /\ \A m \in (1 + 1)..((k + 1) - 1) : ~ IsEvent(m)
        BY <2>1, <3>1
      <4>2. incoming[k + 1].number = incoming[1].number + 1
        BY <1>2, <2>1, <3>2, <4>1 DEF StreamOK
      <4> QED BY <2>1, <4>2, <1>5, <1>6, <3>2
    <3>3. CASE ~ IsEvent(1)
      <4>1. \A j \in 1..((k + 1) - 1) : ~ IsEvent(j)
        BY <3>1, <3>3, <2>1
      <4>2. incoming[k + 1].number = Reached + 1
        BY <1>2, <2>1, <4>1 DEF StreamOK
      <4> QED BY <2>1, <4>2, <1>5, <3>3
    <3> QED BY <3>2, <3>3
  <2>3. ASSUME NEW j \in 1..(k - 1), IsEvent(j)', \A m \in (j + 1)..(k - 1) : ~ IsEvent(m)'
        PROVE  incoming'[k].number = incoming'[j].number + 1
    <3>1. /\ j \in 1..(n - 1) /\ j + 1 \in 1..((k + 1) - 1) /\ IsEvent(j + 1)
          /\ incoming'[j] = incoming[j + 1]
      BY <1>1, <1>3, <2>1, <2>3
    <3>2. \A m \in ((j + 1) + 1)..((k + 1) - 1) : ~ IsEvent(m)
      <4> SUFFICES ASSUME NEW m \in ((j + 1) + 1)..((k + 1) - 1) PROVE ~ IsEvent(m)
        OBVIOUS
      <4>1. m - 1 \in (j + 1)..(k - 1) /\ m - 1 \in 1..(n - 1) /\ (m - 1) + 1 = m
        BY <1>1, <2>1, <3>1
      <4> QED BY <4>1, <2>3, <1>3
    <3> QED BY <1>2, <2>1, <3>1, <3>2 DEF StreamOK
  <2>4. ASSUME link' = "up", \A j \in (k + 1)..Len(incoming') : ~ IsEvent(j)'
        PROVE  incoming'[k].number = emitted'
    <3>1. \A j \in ((k + 1) + 1)..n : ~ IsEvent(j)
      <4> SUFFICES ASSUME NEW j \in ((k + 1) + 1)..n PROVE ~ IsEvent(j)
        OBVIOUS
      <4>1. j - 1 \in (k + 1)..Len(incoming') /\ j - 1 \in 1..(n - 1) /\ (j - 1) + 1 = j
        BY <1>1, <2>1
      <4> QED BY <4>1, <2>4, <1>3
    <3> QED BY <1>1, <1>2, <2>1, <2>4, <3>1 DEF StreamOK
  <2> QED BY <2>2, <2>3, <2>4
<1>9. ASSUME link' = "up", \A k \in 1..Len(incoming') : ~ IsEvent(k)'
      PROVE  Reached' = emitted'
  <2>1. \A k \in (1 + 1)..n : ~ IsEvent(k)
    <3> SUFFICES ASSUME NEW k \in (1 + 1)..n PROVE ~ IsEvent(k)
      OBVIOUS
    <3>1. k - 1 \in 1..Len(incoming') /\ k - 1 \in 1..(n - 1) /\ (k - 1) + 1 = k
      BY <1>1
    <3> QED BY <3>1, <1>9, <1>3
  <2>2. CASE IsEvent(1)
    BY <1>1, <1>2, <1>5, <1>6, <1>9, <2>1, <2>2 DEF StreamOK
  <2>3. CASE ~ IsEvent(1)
    <3>1. \A k \in 1..n : ~ IsEvent(k)
      BY <1>1, <2>1, <2>3
    <3> QED BY <1>1, <1>2, <1>5, <1>9, <2>3, <3>1 DEF StreamOK
  <2> QED BY <2>2, <2>3
<1>10. StreamOK'
  BY <1>7, <1>8, <1>9 DEF StreamOK
<1>11. GivenOK'
  BY <1>1 DEF OrderOK, GivenOK
<1> QED BY <1>10, <1>11 DEF OrderOK

LEMMA OrderOKEmit ==
  ASSUME TypeOK, OrderOK, Emit
  PROVE  OrderOK'
<1> DEFINE n == Len(incoming)
<1>1. /\ n \in Nat /\ Len(incoming') = n + 1
      /\ \A k \in 1..n : incoming'[k] = incoming[k]
      /\ incoming'[n + 1] = [kind |-> "event", number |-> emitted + 1]
      /\ link = "up" /\ emitted' = emitted + 1
      /\ UNCHANGED <<handled, eventQueue, reader, link>>
  BY DEF Emit, TypeOK, events
<1>2. GivenOK'
  BY <1>1 DEF OrderOK, GivenOK
<1>3. ASSUME Following' PROVE StreamOK'
  <2>1. StreamOK /\ Reached' = Reached /\ (Dispatching' <=> Dispatching)
    BY <1>1, <1>3 DEF OrderOK, Following, Reached, Dispatching
  <2>2. (\A k \in 1..n : IsEvent(k)' <=> IsEvent(k)) /\ incoming'[n + 1].kind = "event"
    BY <1>1 DEF IsEvent
  <2>3. ASSUME NEW k \in 1..n, IsEvent(k)'
        PROVE  /\ (\A j \in 1..(k - 1) : ~ IsEvent(j)') => incoming'[k].number = Reached' + 1
               /\ \A j \in 1..(k - 1) :
                    IsEvent(j)' /\ (\A m \in (j + 1)..(k - 1) : ~ IsEvent(m)') =>
                      incoming'[k].number = incoming'[j].number + 1
    <3>1. \A j \in 1..(k - 1) : (IsEvent(j)' <=> IsEvent(j)) /\ incoming'[j] = incoming[j]
      BY <1>1, <2>2, <2>3
    <3>2. IsEvent(k) /\ incoming'[k] = incoming[k]
      BY <1>1, <2>2, <2>3
    <3>3. \A j \in 1..(k - 1) : \A m \in (j + 1)..(k - 1) : m \in 1..(k - 1)
      BY <1>1
    <3> QED BY <1>1, <2>1, <3>1, <3>2, <3>3 DEF StreamOK
  <2>4. (\A j \in 1..n : ~ IsEvent(j)') => incoming'[n + 1].number = Reached' + 1
    BY <1>1, <2>1, <2>2 DEF StreamOK
  <2>5. ASSUME NEW j \in 1..n, IsEvent(j)', \A m \in (j + 1)..n : ~ IsEvent(m)'
        PROVE  incoming'[n + 1].number = incoming'[j].number + 1
    <3>1. IsEvent(j) /\ \A m \in (j + 1)..n : ~ IsEvent(m)
      BY <1>1, <2>2, <2>5
    <3> QED BY <1>1, <2>1, <3>1 DEF StreamOK
  <2>6. ASSUME NEW k \in 1..(n + 1), IsEvent(k)'
        PROVE  /\ (\A j \in 1..(k - 1) : ~ IsEvent(j)') => incoming'[k].number = Reached' + 1
               /\ \A j \in 1..(k - 1) :
                    IsEvent(j)' /\ (\A m \in (j + 1)..(k - 1) : ~ IsEvent(m)') =>
                      incoming'[k].number = incoming'[j].number + 1
               /\ link' = "up" /\ (\A j \in (k + 1)..(n + 1) : ~ IsEvent(j)') =>
                    incoming'[k].number = emitted'
    <3>1. CASE k \in 1..n
      <4>1. ~ \A j \in (k + 1)..(n + 1) : ~ IsEvent(j)'
        BY <1>1, <2>2, <3>1 DEF IsEvent
      <4> QED BY <2>3, <2>6, <3>1, <4>1
    <3>2. CASE k = n + 1
      <4>1. (k - 1) = n
        BY <1>1, <3>2
      <4> QED BY <1>1, <2>4, <2>5, <3>2, <4>1
    <3> QED BY <1>1, <2>6, <3>1, <3>2
  <2>7. ~ \A k \in 1..(n + 1) : ~ IsEvent(k)'
    BY <1>1, <2>2 DEF IsEvent
  <2>8. (Dispatching => reader.frame.number = Reached)'
    BY <1>1, <2>1 DEF StreamOK
  <2> QED BY <1>1, <2>6, <2>7, <2>8 DEF StreamOK
<1> QED BY <1>2, <1>3 DEF OrderOK

(* A frame that is no event: a reply.                                      *)
LEMMA OrderOKPerform ==
  ASSUME TypeOK, OrderOK, AsteriskStep
  PROVE  OrderOK'
<1> DEFINE n == Len(incoming)
<1>1. /\ n \in Nat /\ UNCHANGED <<handled, eventQueue, reader, link, emitted>>
  BY DEF AsteriskStep, Perform, TypeOK, events
<1>2. CASE incoming' = incoming
  BY <1>1, <1>2, OrderOKFrame
<1>3. CASE \E i, v : incoming' = Append(incoming, [kind |-> "reply", id |-> i, verdict |-> v])
  <2>1. /\ Len(incoming') = n + 1 /\ incoming'[n + 1].kind # "event"
        /\ \A k \in 1..n : incoming'[k] = incoming[k] /\ (IsEvent(k)' <=> IsEvent(k))
    BY <1>3 DEF TypeOK, IsEvent
  <2>2. GivenOK'
    BY <1>1 DEF OrderOK, GivenOK
  <2>3. ASSUME Following' PROVE StreamOK'
    <3>1. StreamOK /\ Reached' = Reached /\ (Dispatching' <=> Dispatching)
      BY <1>1, <2>3 DEF OrderOK, Following, Reached, Dispatching
    <3>2. ASSUME NEW k \in 1..(n + 1), IsEvent(k)'
          PROVE  /\ (\A j \in 1..(k - 1) : ~ IsEvent(j)') => incoming'[k].number = Reached' + 1
                 /\ \A j \in 1..(k - 1) :
                      IsEvent(j)' /\ (\A m \in (j + 1)..(k - 1) : ~ IsEvent(m)') =>
                        incoming'[k].number = incoming'[j].number + 1
                 /\ link' = "up" /\ (\A j \in (k + 1)..(n + 1) : ~ IsEvent(j)') =>
                      incoming'[k].number = emitted'
      <4>1. k \in 1..n /\ IsEvent(k) /\ incoming'[k] = incoming[k]
        BY <1>1, <2>1, <3>2 DEF IsEvent
      <4>2. \A j \in 1..(k - 1) : (IsEvent(j)' <=> IsEvent(j)) /\ incoming'[j] = incoming[j]
        BY <1>1, <2>1, <4>1
      <4>3. \A j \in 1..(k - 1) : \A m \in (j + 1)..(k - 1) : m \in 1..(k - 1)
        BY <1>1
      <4>4. \A j \in (k + 1)..n : j \in (k + 1)..(n + 1) /\ (IsEvent(j)' <=> IsEvent(j))
        BY <1>1, <2>1, <4>1
      <4> QED BY <1>1, <3>1, <4>1, <4>2, <4>3, <4>4 DEF StreamOK
    <3>3. link' = "up" /\ (\A k \in 1..(n + 1) : ~ IsEvent(k)') => Reached' = emitted'
      BY <1>1, <2>1, <3>1 DEF StreamOK
    <3>4. (Dispatching => reader.frame.number = Reached)'
      BY <1>1, <3>1 DEF StreamOK
    <3> QED BY <2>1, <3>2, <3>3, <3>4 DEF StreamOK
  <2> QED BY <2>2, <2>3 DEF OrderOK
<1> QED BY <1>2, <1>3 DEF AsteriskStep, Perform

(* The end of what was on its way is lost, and nothing follows it.         *)
LEMMA OrderOKBreak ==
  ASSUME TypeOK, OrderOK, Break
  PROVE  OrderOK'
<1>1. /\ Len(incoming') \in Nat /\ Len(incoming') <= Len(incoming) /\ Len(incoming) \in Nat
      /\ \A k \in 1..Len(incoming') : incoming'[k] = incoming[k]
      /\ link' = "broken" /\ UNCHANGED <<handled, eventQueue, reader, emitted>>
  BY DEF Break, TypeOK, asterisk, events
<1>2. GivenOK'
  BY <1>1 DEF OrderOK, GivenOK
<1>3. ASSUME Following' PROVE StreamOK'
  <2>1. StreamOK /\ Reached' = Reached /\ (Dispatching' <=> Dispatching)
    BY <1>1, <1>3 DEF OrderOK, Following, Reached, Dispatching
  <2>2. ASSUME NEW k \in 1..Len(incoming'), IsEvent(k)'
        PROVE  /\ (\A j \in 1..(k - 1) : ~ IsEvent(j)') => incoming'[k].number = Reached' + 1
               /\ \A j \in 1..(k - 1) :
                    IsEvent(j)' /\ (\A m \in (j + 1)..(k - 1) : ~ IsEvent(m)') =>
                      incoming'[k].number = incoming'[j].number + 1
    <3>1. k \in 1..Len(incoming) /\ IsEvent(k) /\ incoming'[k] = incoming[k]
      BY <1>1, <2>2 DEF IsEvent
    <3>2. \A j \in 1..(k - 1) : (IsEvent(j)' <=> IsEvent(j)) /\ incoming'[j] = incoming[j]
      BY <1>1, <3>1 DEF IsEvent
    <3>3. \A j \in 1..(k - 1) : \A m \in (j + 1)..(k - 1) : m \in 1..(k - 1)
      BY <1>1
    <3> QED BY <2>1, <3>1, <3>2, <3>3 DEF StreamOK
  <2>3. (Dispatching => reader.frame.number = Reached)'
    BY <1>1, <2>1 DEF StreamOK
  <2> QED BY <1>1, <2>2, <2>3 DEF StreamOK
<1> QED BY <1>2, <1>3 DEF OrderOK

LEMMA OrderOKQueue ==
  ASSUME TypeOK, OrderOK, DispatchEvent \/ TakeEvent
  PROVE  OrderOK'
<1>1. /\ Len(handled) \in Nat /\ Len(eventQueue) \in Nat
      /\ UNCHANGED <<incoming, link, emitted>>
  BY DEF DispatchEvent, TakeEvent, TypeOK, network, asterisk
<1>2. CASE DispatchEvent
  <2>1. /\ Dispatching /\ StreamOK /\ ~ Dispatching' /\ handled' = handled
        /\ eventQueue' = Append(eventQueue, reader.frame.number)
    BY <1>2 DEF DispatchEvent, Dispatching, ReaderGoes, OrderOK, Following
  <2>2. reader.frame.number = Len(handled) + Len(eventQueue) + 1
    BY <2>1 DEF StreamOK, Reached
  <2>3. Len(eventQueue') = Len(eventQueue) + 1
    BY <2>1 DEF TypeOK
  <2>4. Reached' = Reached
    BY <1>1, <2>1, <2>3 DEF Reached
  <2>5. GivenOK'
    <3>1. \A k \in 1..Len(eventQueue) : eventQueue'[k] = eventQueue[k]
      BY <2>1 DEF TypeOK
    <3>2. eventQueue'[Len(eventQueue) + 1] = reader.frame.number
      BY <2>1 DEF TypeOK
    <3>3. ASSUME NEW k \in 1..Len(eventQueue') PROVE eventQueue'[k] = Len(handled) + k
      <4>1. k \in 1..Len(eventQueue) \/ k = Len(eventQueue) + 1
        BY <1>1, <2>3
      <4>2. CASE k \in 1..Len(eventQueue)
        BY <3>1, <4>2 DEF OrderOK, GivenOK
      <4>3. CASE k = Len(eventQueue) + 1
        BY <1>1, <2>2, <3>2, <4>3
      <4> QED BY <4>1, <4>2, <4>3
    <3> QED BY <2>1, <3>3 DEF OrderOK, GivenOK
  <2>6. StreamOK'
    BY <1>1, <2>1, <2>4 DEF StreamOK, IsEvent
  <2> QED BY <2>5, <2>6 DEF OrderOK
<1>3. CASE TakeEvent
  <2>1. /\ eventQueue # <<>> /\ eventQueue' = Tail(eventQueue) /\ reader' = reader
        /\ handled' = Append(handled, eventQueue[1])
    BY <1>3 DEF TakeEvent, TypeOK
  <2>2. /\ Len(eventQueue') = Len(eventQueue) - 1 /\ Len(eventQueue) > 0
        /\ \A k \in 1..Len(eventQueue') : eventQueue'[k] = eventQueue[k + 1]
    BY <2>1 DEF TypeOK
  <2>3. /\ Len(handled') = Len(handled) + 1
        /\ \A k \in 1..Len(handled) : handled'[k] = handled[k]
        /\ handled'[Len(handled) + 1] = eventQueue[1]
    BY <2>1 DEF TypeOK
  <2>4. GivenOK'
    <3>1. GivenOK /\ 1 \in 1..Len(eventQueue)
      BY <1>1, <2>2 DEF OrderOK
    <3>2. eventQueue[1] = Len(handled) + 1
      BY <3>1 DEF GivenOK
    <3>3. ASSUME NEW k \in 1..Len(handled') PROVE handled'[k] = k
      BY <1>1, <2>3, <3>1, <3>2 DEF GivenOK
    <3>4. ASSUME NEW k \in 1..Len(eventQueue') PROVE eventQueue'[k] = Len(handled') + k
      <4>1. k + 1 \in 1..Len(eventQueue) /\ k \in Nat
        BY <1>1, <2>2
      <4>2. eventQueue[k + 1] = Len(handled) + (k + 1)
        BY <3>1, <4>1 DEF GivenOK
      <4> QED BY <1>1, <2>2, <2>3, <4>1, <4>2
    <3> QED BY <3>3, <3>4 DEF GivenOK
  <2>5. Reached' = Reached
    BY <1>1, <2>1, <2>2, <2>3 DEF Reached, Dispatching
  <2>6. ASSUME Following' PROVE StreamOK'
    BY <1>1, <2>1, <2>5, <2>6 DEF OrderOK, Following, StreamOK, IsEvent, Dispatching
  <2> QED BY <2>4, <2>6 DEF OrderOK
<1> QED BY <1>2, <1>3

LEMMA OrderOKStep ==
  ASSUME TypeOK, OrderOK, [Next]_vars
  PROVE  OrderOK'
<1>1. ASSUME NEW t \in Threads, CallStep(t) \/ \E i \in Ids : Begin(t, i) PROVE OrderOK'
  <2>1. UNCHANGED <<handled, eventQueue, incoming, emitted, link, reader>>
    BY <1>1 DEF CallStep, Begin, NotConnected, Check, Register, Lock, Send, SendFails, Wake,
         Timeout, Leave, network, asterisk, events
  <2> QED BY <2>1, OrderOKFrame
<1>2. CASE Stop \/ FinishEvent \/ WorkerEnds \/ UNCHANGED vars
  BY <1>2, OrderOKFrame DEF Stop, FinishEvent, WorkerEnds, network, asterisk, events, vars
<1>3. CASE Overflow \/ BadFrame \/ StreamEnds \/ FailPending \/ ReaderDies
  BY <1>3, OrderOKFrame DEF Overflow, BadFrame, StreamEnds, FailPending, ReaderDies,
       ReaderGoes, network, asterisk, events
<1>4. CASE DispatchReply \/ Tell \/ Signal
  <2>1. /\ Following /\ ~ Dispatching /\ ~ Dispatching'
        /\ UNCHANGED <<handled, eventQueue, incoming, emitted, link>>
    <3>1. CASE DispatchReply
      BY <3>1 DEF DispatchReply, ReaderGoes, Following, Dispatching, network, asterisk, events
    <3>2. CASE Tell
      BY <3>2, ReaderFields DEF Tell, ReaderGoes, Following, Dispatching, network, asterisk, events
    <3>3. CASE Signal
      BY <3>3 DEF Signal, ReaderGoes, Following, Dispatching, network, asterisk, events
    <3> QED BY <1>4, <3>1, <3>2, <3>3
  <2> QED BY <2>1, OrderOKFrame
<1>5. ASSUME NEW i \in Ids, Interrupt(i) PROVE OrderOK'
  <2>1. reader'.pc = "interrupting"
    BY <1>5, ReaderFields DEF Interrupt, ReaderGoes
  <2> QED BY <1>5, <2>1, OrderOKFrame DEF Interrupt, network, asterisk, events
<1> QED
  BY <1>1, <1>2, <1>3, <1>4, <1>5, OrderOKTakeFrame, OrderOKQueue, OrderOKPerform,
     OrderOKEmit, OrderOKBreak DEF Next, ReaderStep, WorkerStep

-----------------------------------------------------------------------------
(* The theorems.                                                           *)

LEMMA IInvInit == Init => IInv
<1> SUFFICES ASSUME Init PROVE IInv
  OBVIOUS
<1>1. CallsOK /\ RequestsOK /\ UnsentOK /\ ComingOK
  BY DEF Init, CallsOK, RequestsOK, UnsentOK, ComingOK, Unread, Untouched, Told, Idle, Verdicts
<1>2. WaitersOK /\ PendingIsInProgress
  BY DEF Init, WaitersOK, Held, Noticed, Doomed, PendingIsInProgress, Idle
<1>3. OrderOK
  BY DEF Init, OrderOK, GivenOK, StreamOK, Reached, Dispatching
<1> QED BY <1>1, <1>2, <1>3, TypeOKInit DEF IInv

LEMMA IInvStep == IInv /\ [Next]_vars => IInv'
  BY TypeOKStep, CallsOKStep, RequestsOKStep, UnsentOKStep, ComingOKStep, WaitersOKStep, PendingStep, OrderOKStep
     DEF IInv

(* The parts hold together: each needs others to be preserved.             *)
THEOREM InvariantHolds == Spec => []IInv
  BY IInvInit, IInvStep, PTL DEF Spec

(* Whoever waits when the reader has ended has been woken, for any number  *)
(* of threads that register, lock and wait around the end of the stream.   *)
THEOREM NobodyForgotten == Spec => []NobodyIsForgotten
<1>1. IInv => NobodyIsForgotten
  BY CallFields DEF IInv, NobodyIsForgotten, WaitersOK, Held, Noticed, Doomed
<1> QED BY <1>1, InvariantHolds, PTL

(* _pending never keeps the waiter of a call that has ended.               *)
THEOREM PendingBounded == Spec => []PendingIsInProgress
<1>1. IInv => PendingIsInProgress
  BY DEF IInv
<1> QED BY <1>1, InvariantHolds, PTL

(* The handler is given the events of Asterisk in order, without a gap,    *)
(* whatever the size of the queue and the number of events.                *)
THEOREM EventsInOrder == Spec => []EventsAreInOrder
<1>1. IInv => EventsAreInOrder
  <2> SUFFICES ASSUME IInv, NEW k \in 1..Len(handled \o eventQueue)
               PROVE  (handled \o eventQueue)[k] = k
    BY DEF EventsAreInOrder
  <2>1. TypeOK /\ GivenOK
    BY DEF IInv, OrderOK
  <2>2. CASE k <= Len(handled)
    BY <2>1, <2>2 DEF TypeOK, GivenOK
  <2>3. CASE k > Len(handled)
    <3>1. k - Len(handled) \in 1..Len(eventQueue)
      BY <2>1, <2>3 DEF TypeOK
    <3>2. (handled \o eventQueue)[k] = eventQueue[k - Len(handled)]
      BY <2>1, <2>3, <3>1 DEF TypeOK
    <3>3. eventQueue[k - Len(handled)] = Len(handled) + (k - Len(handled))
      BY <2>1, <3>1 DEF GivenOK
    <3> QED BY <2>1, <3>1, <3>2, <3>3 DEF TypeOK
  <2> QED BY <2>1, <2>2, <2>3 DEF TypeOK
<1> QED BY <1>1, InvariantHolds, PTL

(* A waiter that was settled is not settled again, by a second reply, by   *)
(* the end of the stream or by stop().                                     *)
THEOREM WaitersSettledOnce == Spec => SettledOnce
<1> DEFINE Settled == \A i \in Ids : waiter[i].ready => waiter'[i] = waiter[i]
<1>1. IInv /\ [Next]_vars => Settled
  <2> SUFFICES ASSUME TypeOK, WaitersOK, [Next]_vars, NEW i \in Ids, waiter[i].ready
               PROVE  waiter'[i] = waiter[i]
    BY DEF IInv
  <2>1. ~ Noticed(i) /\ ~ Doomed(i) /\ i \notin pending
    BY DEF WaitersOK
  <2>2. CASE Stop
    BY <2>1, <2>2 DEF Stop
  <2>3. CASE Tell \/ Signal
    BY <2>1, <2>3 DEF Tell, Signal, Noticed, TypeOK
  <2>4. ASSUME NEW j \in Ids, Interrupt(j) PROVE waiter'[i] = waiter[i]
    BY <2>1, <2>4 DEF Interrupt, Doomed, TypeOK
  <2>5. ASSUME NEW t \in Threads, CallStep(t) \/ \E j \in Ids : Begin(t, j)
        PROVE  waiter'[i] = waiter[i]
    BY <2>5 DEF CallStep, Begin, NotConnected, Check, Register, Lock, Send, SendFails, Wake,
         Timeout, Leave
  <2>6. CASE TakeFrame \/ DispatchReply \/ DispatchEvent \/ Overflow \/ BadFrame
             \/ StreamEnds \/ FailPending \/ ReaderDies
    BY <2>6 DEF TakeFrame, DispatchReply, DispatchEvent, Overflow, BadFrame, StreamEnds,
         FailPending, ReaderDies
  <2>7. CASE WorkerStep \/ Emit \/ Break \/ AsteriskStep \/ UNCHANGED vars
    BY <2>7 DEF WorkerStep, TakeEvent, FinishEvent, WorkerEnds, Emit, Break, AsteriskStep,
         Perform, vars
  <2> QED BY <2>2, <2>3, <2>4, <2>5, <2>6, <2>7 DEF Next, ReaderStep
<1>2. IInv /\ [Next]_vars => [Settled]_vars
  BY <1>1
<1> QED BY <1>2, InvariantHolds, PTL DEF Spec, SettledOnce

LEMMA RemoteStep ==
  ASSUME TypeOK, CallsOK, RequestsOK, UnsentOK, [Next]_vars
  PROVE  [Remote!RemoteNext]_(Remote!remote)
<1> USE DEF Remote!remote
<1>1. CASE UNCHANGED <<performed, readAs, torn, answer>>
  BY <1>1
<1>2. ASSUME NEW t \in Threads, NEW i \in Ids, Begin(t, i) PROVE Remote!RemoteNext
  <2>1. Remote!Ask(i)
    BY <1>2 DEF Begin, network, asterisk, Remote!Ask
  <2> QED BY <2>1 DEF Remote!RemoteNext
<1>3. ASSUME NEW t \in Threads, NotConnected(t) PROVE Remote!RemoteNext
  <2>1. call[t].id \in Ids /\ answer[call[t].id] = "asked" /\ Untouched(call[t].id)
    BY <1>3, CallFields DEF NotConnected, CallsOK, UnsentOK
  <2>2. Remote!Refuse(call[t].id)
    BY <1>3, <2>1 DEF NotConnected, Return, Untouched, Unread, network, asterisk,
         Remote!Refuse, Remote!Unread
  <2> QED BY <2>1, <2>2 DEF Remote!RemoteNext
<1>4. ASSUME NEW t \in Threads, Leave(t) PROVE Remote!RemoteNext
  <2> DEFINE i == call[t].id
             o == call[t].outcome
  <2>1. /\ i \in Ids /\ answer[i] = "asked" /\ o \in Outcomes
        /\ o = "refused" => i \notin torn /\ performed[i] = "none" /\ readAs[i] = i
        /\ o \in Verdicts => i \notin torn /\ o = performed[readAs[i]]
    BY <1>4, CallFields DEF Leave, CallsOK, UnsentOK, Untouched, Unread, Told
  <2>2. answer' = [answer EXCEPT ![i] = o] /\ UNCHANGED <<performed, readAs, torn>>
    BY <1>4 DEF Leave, Return, network, asterisk
  <2> HIDE DEF i, o
  <2>3. CASE o = "unknown"
    BY <2>1, <2>2, <2>3 DEF Remote!RemoteNext, Remote!GiveUp
  <2>4. CASE o = "refused"
    BY <2>1, <2>2, <2>4 DEF Remote!RemoteNext, Remote!Refuse, Remote!Unread
  <2>5. CASE o \in Verdicts
    BY <2>1, <2>2, <2>5 DEF Remote!RemoteNext, Remote!Reply, Verdicts
  <2> QED BY <2>1, <2>3, <2>4, <2>5 DEF Outcomes
<1>5. ASSUME NEW t \in Threads,
             Check(t) \/ Register(t) \/ Lock(t) \/ Send(t) \/ Wake(t) \/ Timeout(t)
      PROVE  UNCHANGED <<performed, readAs, torn, answer>>
  BY <1>5 DEF Check, Register, Lock, Send, Wake, Timeout, network, asterisk
<1>6. ASSUME NEW t \in Threads, SendFails(t), torn' # torn PROVE Remote!RemoteNext
  <2>1. call[t].id \in Ids /\ answer[call[t].id] = "asked" /\ Untouched(call[t].id)
    BY <1>6, CallFields DEF SendFails, CallsOK, UnsentOK
  <2>2. /\ torn' = torn \cup {call[t].id}
        /\ UNCHANGED <<performed, readAs, answer>>
    BY <1>6 DEF SendFails, WrittenInPart, asterisk
  <2>3. Remote!Tear(call[t].id)
    BY <2>1, <2>2 DEF Untouched, Unread, Remote!Tear, Remote!Unread
  <2> QED BY <2>1, <2>3 DEF Remote!RemoteNext
<1>7. ASSUME NEW t \in Threads, SendFails(t), torn' = torn
      PROVE  UNCHANGED <<performed, readAs, torn, answer>>
  BY <1>7 DEF SendFails, asterisk
<1>8. ASSUME NEW f \in outgoing, NEW k \in Members(f), NEW name \in ReplyNames(f),
             NEW v \in Verdicts, Perform(f, k, name, v)
      PROVE  Remote!RemoteNext
  <2>1. /\ f.last \in Ids /\ f.before \subseteq torn /\ f.last \notin torn
        /\ answer[f.last] \in {"asked", "unknown"}
        /\ \A j \in Members(f) : Unread(j)
    BY RequestFields DEF RequestsOK
  <2>2. Members(f) = f.before \cup {f.last}
    BY DEF Members
  <2>3. /\ performed' = [performed EXCEPT ![k] = v]
        /\ readAs' = [j \in Ids |-> IF j \in f.before \cup {f.last} THEN k ELSE readAs[j]]
        /\ UNCHANGED <<torn, answer>>
    BY <1>8, <2>2 DEF Perform, callers
  <2>4. Remote!Perform(f.last, f.before, k, v)
    BY <2>1, <2>2, <2>3 DEF Remote!Perform, Remote!Unread, Unread
  <2>5. f.before \in SUBSET torn /\ k \in f.before \cup {f.last} /\ v \in Remote!Verdicts
    BY <2>1, <2>2 DEF Remote!Verdicts, Verdicts
  <2> QED BY <2>1, <2>4, <2>5 DEF Remote!RemoteNext
<1>9. CASE ReaderStep
  BY <1>9, <1>1 DEF ReaderStep, TakeFrame, DispatchReply, DispatchEvent, Overflow, BadFrame,
       StreamEnds, FailPending, Tell, Signal, ReaderDies, Interrupt, callers, network, asterisk
<1>10. CASE Stop \/ WorkerStep \/ Emit \/ Break \/ UNCHANGED vars
  BY <1>10, <1>1 DEF Stop, WorkerStep, TakeEvent, FinishEvent, WorkerEnds, Emit, Break,
       callers, network, asterisk, vars
<1> QED
  BY <1>2, <1>3, <1>4, <1>5, <1>6, <1>7, <1>8, <1>9, <1>10 DEF Next, CallStep, AsteriskStep

(* Every behaviour of the client, with its threads, its reader, timeouts,  *)
(* late answers, sends that fail half way and broken connections, is one   *)
(* of RemoteCalls.                                                         *)
THEOREM ImplementsRemoteCalls == Spec => CallsAreRemote
<1>1. Init => Remote!RemoteInit
  BY DEF Init, Remote!RemoteInit
<1>2. IInv /\ [Next]_vars => [Remote!RemoteNext]_(Remote!remote)
  BY RemoteStep DEF IInv
<1> QED
  BY <1>1, <1>2, InvariantHolds, PTL DEF Spec, CallsAreRemote, Remote!RemoteSpec

===============================================================================
