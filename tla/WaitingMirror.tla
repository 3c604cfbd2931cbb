----------------------------- MODULE WaitingMirror -----------------------------
(***************************************************************************)
(* queue-api: the mirror of the callers that wait in Asterisk's queues     *)
(* (queue_state.py) and the pickup of one of them by an operator.          *)
(***************************************************************************)
EXTENDS AmiStream

CONSTANTS Calls,              \* a call is named by its Uniqueid
          Channels, ChannelOf,\* a channel name is used again by a later call
          Queues, Companies, CompanyOf,
          Operators, OperatorCompany,
          MaxWaiting, MaxPerQueue, MaxCounted, MaxAge,
          MaxStays, NoId

VARIABLES place,     \* Asterisk: where each call is
          stays,     \* Asterisk: how many stays began, those that ended as
           \* <<call, queue>>, and the channels a pickup has moved
          waiting,   \* the mirror: channel to row
          counters,
          desk       \* the operators' pickup requests
mirrorVars == <<place, stays, waiting, counters, desk>>

Nowhere == "nowhere"
ASSUME MirrorAssumption ==
  /\ ChannelOf \in [Calls -> Channels] /\ CompanyOf \in [Queues -> Companies] /\ NoId \notin Calls
  /\ Queues \cap {"new", "outside", "gone", Nowhere} = {}

\* Mutant: a caller who leaves without being answered is not taken off.
EndKindsWithoutLeft == {"abandoned", "answered", "agent_dump", "completed", "hung_up"}

EndKinds == {"left", "abandoned", "answered", "agent_dump", "completed", "hung_up"}
NoRow == [queue |-> Nowhere, id |-> NoId, joined |-> 0]
IdleDesk == [pc |-> "idle", channel |-> Nowhere, queue |-> Nowhere, ok |-> FALSE]

MirrorInit ==
  /\ place = [c \in Calls |-> "new"] /\ stays = [begun |-> 0, ended |-> {}, pulled |-> {}]
  /\ waiting = [ch \in Channels |-> NoRow]
  /\ counters = <<>>
  /\ desk = [o \in Operators |-> IdleDesk]

----------------------------------------------------------------------------
(* The tracker.  Each operator takes the rows and counters and returns new *)
(* ones, so that a handler composes them under one lock.                   *)

Tracked(rows) == {ch \in Channels : rows[ch] # NoRow}
InQueue(rows, q) == {ch \in Channels : rows[ch].queue = q}
RowCompany(row) == CompanyOf[row.queue]
Counted(cnt) == {tk[1] : tk \in DOMAIN cnt}
Of(cnt, tk) == IF tk \in DOMAIN cnt THEN cnt[tk] ELSE 0
Add(cnt, tk) == [c \in DOMAIN cnt \cup {tk} |-> Of(cnt, c) + IF c = tk THEN 1 ELSE 0]
Count(m, t, k) ==
  IF t \in Counted(m.counters) \/ Cardinality(Counted(m.counters)) < MaxCounted
  THEN [m EXCEPT !.counters = Add(@, <<t, k>>)] ELSE m

Expired(rows) == {ch \in Tracked(rows) : now >= rows[ch].joined /\ now - rows[ch].joined > MaxAge}
\* Mutant: the expired rows are not counted.
PruneUncounted(m) ==
  [m EXCEPT !.waiting = [ch \in Channels |-> IF ch \in Expired(m.waiting) THEN NoRow
                                             ELSE m.waiting[ch]]]

Prune(m) ==
  LET old == Expired(m.waiting)
      lost == {t \in Counted(m.counters) : \E ch \in old : RowCompany(m.waiting[ch]) = t}
      rows(c) == IF c \in lost \X {"expired"} THEN {ch \in old : RowCompany(m.waiting[ch]) = c[1]} ELSE {}
  IN  [waiting  |-> [ch \in Channels |-> IF ch \in old THEN NoRow ELSE m.waiting[ch]],
       counters |-> [c \in DOMAIN m.counters \cup (lost \X {"expired"}) |->
                       Of(m.counters, c) + Cardinality(rows(c))]]

Mirror == [waiting |-> waiting, counters |-> counters]
Drop(m, ch, k) == Count([m EXCEPT !.waiting[ch] = NoRow], RowCompany(m.waiting[ch]), k)

\* Mutant: the Uniqueid is not compared.
EndedByName(m, e) ==
  LET row == m.waiting[e.channel]
  IN  IF row = NoRow THEN m
      ELSE IF e.queue # row.queue /\ (e.kind # "hung_up" \/ e.queue # Nowhere)
           THEN Count(m, RowCompany(row), "ignored_mismatched_queue")
      ELSE Drop(m, e.channel, e.kind)

Ended(m, e) ==
  LET row == m.waiting[e.channel]
  IN  IF row = NoRow THEN m
      ELSE IF e.queue # row.queue /\ (e.kind # "hung_up" \/ e.queue # Nowhere)
           THEN Count(m, RowCompany(row), "ignored_mismatched_queue")
      ELSE IF row.id # NoId /\ e.id # row.id
           THEN Count(m, RowCompany(row), "ignored_mismatched_uniqueid")
      ELSE Drop(m, e.channel, e.kind)

Joined(m0, e) ==
  LET m == Prune(m0)
      row == m.waiting[e.channel]
      t == CompanyOf[e.queue]
      refused(kind) == Count(m, t, kind)
      written(kind) == Count([m EXCEPT !.waiting[e.channel] =
                                [queue |-> e.queue, id |-> e.id, joined |-> now]], t, kind)
  IN  IF row # NoRow
      THEN IF row.queue = e.queue /\ row.id = e.id THEN refused("duplicate_joins")
           ELSE IF RowCompany(row) # t /\ (e.id = NoId \/ row.id = NoId \/ e.id = row.id)
                THEN Count(m, RowCompany(row), "blocked_ambiguous_requeue")
           ELSE written("requeues")
      ELSE IF Cardinality(Tracked(m.waiting)) >= MaxWaiting
           THEN refused("rejected_global_capacity")
      ELSE IF Cardinality(InQueue(m.waiting, e.queue)) >= MaxPerQueue
           THEN refused("rejected_queue_capacity")
      ELSE written("joins")

ApplyEvent(m, e) == CASE e.kind = "join" -> Joined(m, e)
                      [] e.kind \in EndKinds -> Ended(m, e)
                      [] OTHER -> m

RemoveRow(m, ch, q) ==
  IF m.waiting[ch] # NoRow /\ m.waiting[ch].queue = q THEN Drop(m, ch, "removed_by_pickup") ELSE m

SetMirror(m) == waiting' = m.waiting /\ counters' = m.counters

----------------------------------------------------------------------------
(* Asterisk: a call joins a queue, leaves it in one of app_queue's ways,   *)
(* may join again (overflow, an operator who does not answer) and ends.    *)

Event(kind, c, q) == [kind |-> kind, channel |-> ChannelOf[c], queue |-> q, id |-> c, hold |-> 0]
Free(c) == \A d \in Calls \ {c} : ChannelOf[d] = ChannelOf[c] => place[d] \in {"new", "gone"}
Leaves(c) == stays' = [stays EXCEPT !.ended = @ \cup {<<c, place[c]>>}]
Unheard == UNCHANGED <<waiting, counters, desk, now, mishaps>>

Enter(c, q) ==
  /\ place[c] \in {"new", "outside"} /\ Free(c) /\ stays.begun < MaxStays
  /\ place' = [place EXCEPT ![c] = q] /\ stays' = [stays EXCEPT !.begun = @ + 1]
  /\ Tell(<<Event("join", c, q)>>)
  /\ Unheard

\* To an agent, by a timeout, or with the end of the call.
Departures(c) ==
  LET e(kind) == Event(kind, c, place[c])
      over == Event("hung_up", c, Nowhere)
  IN  {[to |-> "outside", tells |-> events] :
         events \in {<<e("left")>>, <<e("left"), e("answered")>>, <<e("answered"), e("left")>>}} \cup
      {[to |-> "gone", tells |-> events] :
         events \in {<<e("abandoned"), e("left"), over>>, <<over, e("left")>>}}

LeaveQueue(c) ==
  /\ place[c] \in Queues /\ Leaves(c)
  /\ \E d \in Departures(c) : place' = [place EXCEPT ![c] = d.to] /\ Tell(d.tells)
  /\ Unheard

HangUp(c) ==
  /\ place[c] = "outside"
  /\ place' = [place EXCEPT ![c] = "gone"] /\ UNCHANGED stays
  /\ \/ Tell(<<Event("hung_up", c, Nowhere)>>)
     \/ \E q \in {s[2] : s \in {s \in stays.ended : s[1] = c}}, kind \in {"completed", "agent_dump"} :
          Tell(<<Event(kind, c, q), Event("hung_up", c, Nowhere)>>)
  /\ Unheard

----------------------------------------------------------------------------
(* GET /api/queue, the health of the queues and POST /api/queue/pickup.    *)

WaitingList(t) == SetToSortSeq({ch \in Tracked(waiting) : RowCompany(waiting[ch]) = t},
                               LAMBDA a, b : waiting[a].joined < waiting[b].joined)

\* Every reading of the mirror prunes it.
Read ==
  /\ Expired(waiting) # {}
  /\ SetMirror(Prune(Mirror))
  /\ UNCHANGED <<place, stays, desk, streamVars>>

MayPickup(o, q) == q # Nowhere /\ CompanyOf[q] = OperatorCompany[o]

QueueForChannel(o, ch) ==
  LET m == Prune(Mirror) IN
  /\ desk[o].pc = "idle" /\ SetMirror(m)
  /\ MayPickup(o, m.waiting[ch].queue)
  /\ desk' = [desk EXCEPT ![o] = [IdleDesk EXCEPT !.pc = "asked", !.channel = ch,
                                                  !.queue = m.waiting[ch].queue]]
  /\ UNCHANGED <<place, stays, streamVars>>

\* Asterisk redirects whichever call holds the channel now, or has none; the answer
\* may be lost although the call was moved.
Redirect(o) ==
  /\ desk[o].pc = "asked"
  /\ \/ \E c \in Calls :
          /\ ChannelOf[c] = desk[o].channel /\ place[c] \in Queues \cup {"outside"}
          /\ place' = [place EXCEPT ![c] = "outside"]
          /\ IF place[c] \in Queues
             THEN /\ stays' = [stays EXCEPT !.ended = @ \cup {<<c, place[c]>>},
                                             !.pulled = @ \cup {ChannelOf[c]}]
                  /\ Tell(<<Event("left", c, place[c])>>)
             ELSE stays' = [stays EXCEPT !.pulled = @ \cup {ChannelOf[c]}] /\ UNCHANGED wire
          /\ \/ desk' = [desk EXCEPT ![o].pc = "answer", ![o].ok = TRUE] /\ NoMishap
             \/ desk' = [desk EXCEPT ![o].pc = "answer"] /\ Mishap("lost")
     \/ /\ \A c \in Calls : ChannelOf[c] = desk[o].channel => place[c] \in {"new", "gone"}
        /\ desk' = [desk EXCEPT ![o].pc = "answer"]
        /\ UNCHANGED <<place, stays, wire, mishaps>>
  /\ UNCHANGED <<waiting, counters, now>>

PickupAnswer(o) ==
  /\ desk[o].pc = "answer"
  /\ SetMirror(IF desk[o].ok THEN RemoveRow(Mirror, desk[o].channel, desk[o].queue) ELSE Mirror)
  /\ desk' = [desk EXCEPT ![o] = IdleDesk]
  /\ UNCHANGED <<place, stays, streamVars>>

MirrorStep ==
  \/ \E c \in Calls : LeaveQueue(c) \/ HangUp(c) \/ \E q \in Queues : Enter(c, q)
  \/ Read
  \/ \E o \in Operators : Redirect(o) \/ PickupAnswer(o) \/ \E ch \in Channels : QueueForChannel(o, ch)

----------------------------------------------------------------------------
(* Properties.                                                             *)

Lost == {tk \in DOMAIN counters : tk[2] \in {"expired", "rejected_global_capacity", "rejected_queue_capacity"}}
\* What the counters of some kinds come to: every time one was added to.
Times(cnt, kinds) == UNION {{tk} \X (1..cnt[tk]) : tk \in {tk \in DOMAIN cnt : tk[2] \in kinds}}
Total(kinds) == Cardinality(Times(counters, kinds))

\* Once every event has been heard, each in its turn and once, the mirror shows exactly
\* the callers that wait: a caller is missing only when its row expired, when the mirror
\* was full, or when a pickup moved a call of its channel name (its answer may come after
\* that call is back, or after the name has gone to another call, and removes that row);
\* and nobody is shown who does not wait.
MirrorFollowsQueue ==
  wire = <<>> /\ Never({"disorder"}) =>
    /\ \A ch \in Tracked(waiting) : place[waiting[ch].id] = waiting[ch].queue
    /\ \A c \in Calls :
         place[c] \in Queues /\ ChannelOf[c] \notin stays.pulled
           /\ Never({"restart"}) /\ Lost = {}
         => waiting[ChannelOf[c]].id = c

\* Every call counted as joined is still shown or was counted out exactly once.
CountersBalance ==
  Total({"joins"}) = Cardinality(Tracked(waiting)) + Total(EndKinds \cup {"expired", "removed_by_pickup"})
===============================================================================
