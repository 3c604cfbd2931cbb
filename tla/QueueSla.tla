-------------------------------- MODULE QueueSla --------------------------------
(***************************************************************************)
(* queue-api: the service level of the queues (queue_sla.py).  A day's     *)
(* counters live in memory; the first event or reading of another day      *)
(* writes them to the history, one row per queue, and starts afresh.       *)
(***************************************************************************)
EXTENDS AmiStream

CONSTANTS SlaQueues, SlaIds, NoUniqueid, AnyChannel,
          Threshold, Holds,           \* seconds of waiting; an unusable HoldTime is above
          MaxIds,                     \* remembered to tell a repeated event
          MaxRows,                    \* of the history file
          MaxOffers                   \* events of the queues

VARIABLES sla,       \* the tracker: day, queues in order, counters, seen ids
          history,   \* the lines of the file
          offers     \* Asterisk: how many calls it told of; those heard of, and met
slaVars == <<sla, history, offers>>

ASSUME SlaAssumption == MaxIds \in Nat \ {0}

Fresh(day) == [day |-> day, order |-> <<>>, stats |-> <<>>, seen |-> <<>>]
SlaInit == sla = Fresh(DayKey(now)) /\ history = <<>> /\ offers = [told |-> 0, heard |-> {}, met |-> {}]

Outcome(e) == e.kind \in {"answered", "abandoned"}

----------------------------------------------------------------------------
(* SLAHistoryStore: a line is a row, or unreadable: a write that came short*)
(* leaves a piece without a line end, and the next row is glued to it.     *)

Torn == [date |-> 0, queue |-> "torn", offered |-> 0, within |-> 0]
Garbage == [Torn EXCEPT !.queue = "garbage"]
LoadAll == {i \in DOMAIN history : history[i] \notin {Torn, Garbage}}

\* Of the lines of a file, those of a time; and what they add up to, one by one.
Between(lines, start, end) == {i \in lines : start <= history[i].date /\ history[i].date <= end}
Units(rows, lines, date, queue, field) ==
  UNION {{i} \X (1..rows[i][field]) : i \in {j \in lines : rows[j].date = date /\ rows[j].queue = queue}}
Summary(rows, lines, date, queue, field) == Cardinality(Units(rows, lines, date, queue, field))

\* The rows of the day, in the order in which the queues were first seen.
Closing == [i \in DOMAIN sla.order |->
              [date |-> sla.day, queue |-> sla.order[i],
               offered |-> sla.stats[sla.order[i]].offered, within |-> sla.stats[sla.order[i]].within]]

\* _reset_if_new_day.  When an append fails the rows before it stay, the day is not
\* closed and the next call writes them again.
KeepDay == sla.day = DayKey(now)
Written(rows) ==
  IF rows = <<>> \/ history = <<>> \/ Last(history) # Torn THEN history \o rows
  ELSE Front(history) \o <<Garbage>> \o Tail(rows)
Rollover == /\ ~KeepDay /\ Len(Written(Closing)) <= MaxRows
            /\ history' = Written(Closing)
RolloverFails(how) ==
  /\ ~KeepDay /\ UNCHANGED sla
  /\ \E k \in DOMAIN Closing :
       LET before == Written(SubSeq(Closing, 1, k - 1))
           after == Written(SubSeq(Closing, 1, k))
       IN  /\ Len(before) <= MaxRows
           /\ \/ how = "full" /\ Len(after) > MaxRows /\ history' = before
              \/ how = "failed" /\ Len(after) <= MaxRows /\ history' \in {before, after}
              \/ /\ how = "torn" /\ Len(after) <= MaxRows
                 /\ history' = IF before # <<>> /\ Last(before) = Torn THEN before
                               ELSE Append(before, Torn)
Trouble(how) == IF how = "full" THEN Note("failed") ELSE Mishap(how)

Met(e) == e.kind = "answered" /\ e.hold <= Threshold
Record(s, e) ==
  LET old == IF e.queue \in DOMAIN s.stats THEN s.stats[e.queue] ELSE [offered |-> 0, within |-> 0]
      new == [offered |-> old.offered + 1, within |-> old.within + IF Met(e) THEN 1 ELSE 0]
  IN  [s EXCEPT !.order = IF e.queue \in DOMAIN s.stats THEN @ ELSE Append(@, e.queue),
                !.stats = [q \in DOMAIN @ \cup {e.queue} |-> IF q = e.queue THEN new ELSE @[q]]]

\* Mutant: the queue is left out of the key.
KeyOfCall(e) == <<e.id>>

Key(e) == <<e.queue, e.id>>
Remember(seen, key) == IF Len(seen) >= MaxIds THEN Append(Tail(seen), key) ELSE Append(seen, key)
CountedOnce(s, e) == IF e.id = NoUniqueid THEN Record(s, e)
                  ELSE IF \E i \in DOMAIN s.seen : s.seen[i] = Key(e) THEN s
                  ELSE [Record(s, e) EXCEPT !.seen = Remember(@, Key(e))]

Offer(e) == [day |-> DayKey(now), queue |-> e.queue,
             id |-> IF e.id = NoUniqueid THEN <<e.id, Cardinality(offers.heard)>> ELSE <<e.id>>]

\* apply_event; it raises when the rollover does.
SlaHears(e) ==
  /\ \/ KeepDay /\ sla' = CountedOnce(sla, e) /\ UNCHANGED history
     \/ Rollover /\ sla' = CountedOnce(Fresh(DayKey(now)), e)
  /\ offers' = [offers EXCEPT !.heard = @ \cup {Offer(e)},
                              !.met = IF Met(e) /\ Offer(e) \notin offers.heard
                                      THEN @ \cup {Offer(e)} ELSE @]
SlaFails(how) == RolloverFails(how) /\ UNCHANGED offers

----------------------------------------------------------------------------
(* GET /api/metrics/sla and Asterisk.                                      *)

SlaSnapshot ==
  /\ ~KeepDay
  /\ \/ Rollover /\ sla' = Fresh(DayKey(now)) /\ NoMishap
     \/ \E how \in {"full", "failed", "torn"} : RolloverFails(how) /\ Trouble(how)
  /\ UNCHANGED <<offers, wire, now>>

OfferEnds(kind, q, id, hold) ==
  /\ offers.told < MaxOffers /\ offers' = [offers EXCEPT !.told = @ + 1]
  /\ \A i \in DOMAIN wire : Outcome(wire[i]) => wire[i].id # id
  /\ Tell(<<[kind |-> kind, channel |-> AnyChannel, queue |-> q, id |-> id, hold |-> hold]>>)
  /\ UNCHANGED <<sla, history, now, mishaps>>

SlaStep ==
  \/ SlaSnapshot
  \/ \E q \in SlaQueues, id \in SlaIds :
       OfferEnds("abandoned", q, id, 0) \/ \E hold \in Holds : OfferEnds("answered", q, id, hold)

----------------------------------------------------------------------------
(* Properties.                                                             *)

Live(date, queue, field) ==
  IF sla.day = date /\ queue \in DOMAIN sla.stats THEN sla.stats[queue][field] ELSE 0

\* The history and the counters of the running day together account for every call heard
\* of, on its day and in its queue: none is lost when an append fails and is tried again,
\* unless a write came short or the process died with the day in memory; and none is
\* counted twice, unless an append failed (the rows before it are written again), the
\* clock went back, or more calls were heard of than Uniqueids are remembered.  (A call
\* that comes back to its queue has the same Uniqueid and is one call, as it first ended.)
HistoryIsTrue ==
  \A day \in {h.day : h \in offers.heard}, queue \in SlaQueues :
    LET lines == Between(LoadAll, day, day)
        real(calls) == Cardinality({h \in calls : h.day = day /\ h.queue = queue})
        told(field) == Summary(history, lines, day, queue, field) + Live(day, queue, field)
    IN  /\ Never({"torn", "restart"}) =>
             told("offered") >= real(offers.heard) /\ told("within") >= real(offers.met)
        /\ Never({"torn", "failed", "setback"}) /\ Cardinality(offers.heard) <= MaxIds =>
             /\ told("offered") <= real(offers.heard)
             /\ Never({"restart"}) => told("within") <= real(offers.met)
===============================================================================
