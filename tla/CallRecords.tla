------------------------------ MODULE CallRecords ------------------------------
(***************************************************************************)
(* queue-api: what it keeps of the calls that are over or begin.  The      *)
(* counters of the day, for all and per company (metrics.py), the call log *)
(* behind the reports (reports.py), the surveys (survey.py), the bounded   *)
(* lists of missed calls, of quality reports and of fraud alerts           *)
(* (missed_calls.py, quality_monitoring.py, fraud_detection.py), and the   *)
(* notices that leave the house (notifiers.py, screen_pop.py).             *)
(***************************************************************************)
EXTENDS AmiStream

CONSTANTS Legs,            \* Uniqueid, start and destination of a call leg
          Accounts,        \* companies; NoCompany where the CDR does not tell
          NoCompany, Speakers, SpeakerCompany,
          Dispositions,    \* "ANSWERED" among them, and one no counter knows
          Talks,           \* billable seconds
          MaxCdrIds, MaxListed, MaxRates,
          MaxTracked, MaxTenants, Rate, RateWindow, SpendLimit, Horizon,
          NotifyCompany, AutoBlock,
          Scores, QualityLimits, QualityReports, QueueCompany,
          MaxRecordEvents

VARIABLES daily,           \* DailyMetrics
          tenantDaily,     \* TenantDailyMetrics: day, and company to DailyMetrics
          callLog, surveys,\* files
          missed, quality, alerts,  \* bounded lists, the newest last
          rates,           \* CallRateTracker: extension to times
          notices,         \* what was sent, or asked of AstDB
          emitted, heard   \* Asterisk: how many events; the records heard of
recordVars == <<daily, tenantDaily, callLog, surveys, missed, quality, alerts, rates, notices,
                emitted, heard>>

\* The window is a day at most, as is_abnormal requires.
ASSUME RecordsAssumption ==
  /\ {Rate, RateWindow, Horizon, MaxRates, MaxListed, MaxTracked, MaxTenants} \subseteq Nat
  /\ MaxCdrIds \in Nat \ {0} /\ RateWindow <= Horizon /\ Talks \subseteq Nat
  /\ IsFiniteSet(Speakers) /\ IsFiniteSet(Accounts) /\ NoCompany \notin Accounts

FreshDay(day) == [day |-> day, answered |-> 0, missed |-> 0, talk |-> 0, seen |-> <<>>]
RecordsInit ==
  /\ daily = FreshDay(DayKey(now)) /\ tenantDaily = [day |-> DayKey(now), by |-> <<>>]
  /\ callLog = <<>> /\ surveys = <<>> /\ missed = <<>> /\ quality = <<>> /\ alerts = <<>>
  /\ rates = <<>> /\ notices = <<>> /\ emitted = 0
  /\ heard = [cdrs |-> <<>>, dials |-> <<>>]

\* The lists drop their oldest entry.
Listed(list, entry) == LET all == Append(list, entry)
                       IN  IF Len(all) > MaxListed THEN Tail(all) ELSE all
Scoped(list, t) == SelectSeq(Reverse(list), LAMBDA entry : entry.tenant = t)
Known == {"ANSWERED", "NO ANSWER", "BUSY", "FAILED", "CONGESTION"}

----------------------------------------------------------------------------
(* metrics.py.                                                             *)

\* Mutant: the counters go on into the next day.
RollNoDay(m) == m

RollDay(m) == IF m.day = DayKey(now) THEN m ELSE FreshDay(DayKey(now))
Once(seen, key) == IF Len(seen) >= MaxCdrIds THEN Append(Tail(seen), key) ELSE Append(seen, key)
ApplyCdr(m0, e) ==
  LET m == RollDay(m0)
      key == <<e.leg, e.disposition>>
  IN  IF e.disposition \notin Known \/ \E i \in DOMAIN m.seen : m.seen[i] = key THEN m
      ELSE IF e.disposition = "ANSWERED"
      THEN [m EXCEPT !.seen = Once(@, key), !.answered = @ + 1, !.talk = @ + e.seconds]
      ELSE [m EXCEPT !.seen = Once(@, key), !.missed = @ + 1]

\* Every event, of any kind, rolls the day of the companies.
RollTenants == IF tenantDaily.day = DayKey(now) THEN tenantDaily
               ELSE [day |-> DayKey(now), by |-> <<>>]
ApplyTenantCdr(e) ==
  LET m == RollTenants
      old == IF e.account \in DOMAIN m.by THEN m.by[e.account] ELSE FreshDay(DayKey(now))
      full == e.account \notin DOMAIN m.by /\ Cardinality(DOMAIN m.by) >= MaxTenants
  IN  IF e.kind # "cdr" \/ e.account = NoCompany \/ full THEN m
      ELSE [m EXCEPT !.by = [t \in DOMAIN @ \cup {e.account} |->
                               IF t = e.account THEN ApplyCdr(old, e) ELSE @[t]]]
MetricsOf(t) == IF t \in DOMAIN RollTenants.by THEN RollDay(RollTenants.by[t])
                ELSE FreshDay(DayKey(now))

----------------------------------------------------------------------------
(* reports.py: one row per CDR, of the company of the answering extension, *)
(* under the day on which the call ended.                                  *)

ReportRow(e) ==
  [date |-> e.day, disposition |-> e.disposition, operator |-> e.speaker,
   tenant |-> SpeakerCompany[e.speaker],
   seconds |-> IF e.disposition = "ANSWERED" THEN e.seconds ELSE 0]
Matches(row, start, end, operators, t) ==
  start <= row.date /\ row.date <= end /\ row.operator \in operators /\ row.tenant = t
Query(start, end, operators, t) ==
  {i \in DOMAIN callLog : Matches(callLog[i], start, end, operators, t)}
\* Of some lines of a log: those answered, what was talked, second by second, and both.
AnsweredOf(rows, lines) == {i \in lines : rows[i].disposition = "ANSWERED"}
Talked(rows, lines) == Cardinality(UNION {{i} \X (1..rows[i].seconds) : i \in lines})
Aggregate(rows, lines) ==
  LET answered == AnsweredOf(rows, lines)
  IN  [answered |-> Cardinality(answered), missed |-> Cardinality(lines) - Cardinality(answered),
       talk |-> Talked(rows, answered)]
GroupBy(rows, lines, field) ==
  [k \in {rows[i][field] : i \in lines} |-> Aggregate(rows, {i \in lines : rows[i][field] = k})]

----------------------------------------------------------------------------
(* fraud_detection.py.                                                     *)

Alert(kind, x) == [kind |-> kind, speaker |-> x, tenant |-> SpeakerCompany[x]]
\* The daily spending of an extension, over its rows of the day, the new one among them.
OverLimit(log, row) ==
  SpendLimit > 0 /\
  Talked(log, {i \in AnsweredOf(log, DOMAIN log) :
                 log[i].operator = row.operator /\ log[i].date = row.date}) > SpendLimit

RatesOf(map, x) == IF x \in DOMAIN map THEN map[x] ELSE <<>>
\* Only a prefix is dropped: up to the first call that is not a day old.
OldPrefix(calls) == {k \in DOMAIN calls : \A j \in 1..k : calls[j] + Horizon < now}
DropOld(calls) == SubSeq(calls, Cardinality(OldPrefix(calls)) + 1, Len(calls))
HasRoom(x) == x \in DOMAIN rates \/ Cardinality(DOMAIN rates) < MaxTracked
WithCalls(x, calls) == [y \in DOMAIN rates \cup {x} |-> IF y = x THEN calls ELSE rates[y]]
\* Mutant: beyond its size the tracker keeps the oldest calls.
TrackOldest(x) ==
  LET calls == Append(DropOld(RatesOf(rates, x)), now)
      oldest == IF Len(calls) > MaxRates THEN Front(calls) ELSE calls
  IN  IF HasRoom(x) THEN WithCalls(x, oldest) ELSE rates

TrackCall(x) ==
  LET calls == Append(DropOld(RatesOf(rates, x)), now)
      newest == IF Len(calls) > MaxRates THEN Tail(calls) ELSE calls
  IN  IF HasRoom(x) THEN WithCalls(x, newest) ELSE rates
Abnormal(calls) == Cardinality({i \in DOMAIN calls : calls[i] + RateWindow >= now}) > Rate

----------------------------------------------------------------------------
(* handle_ami_event, the part of the records.                              *)

Cdrs(e) ==
  /\ daily' = IF e.kind = "cdr" THEN ApplyCdr(daily, e) ELSE daily
  /\ tenantDaily' = ApplyTenantCdr(e)

\* A report is poor when one of the measures it has is above its limit.
IsPoor(report) == \E m \in DOMAIN report : report[m] > QualityLimits[m]
QualityRow(e) == [tenant |-> SpeakerCompany[e.speaker], poor |-> IsPoor(e.report)]
\* A call is missed when a dialled leg was not answered, or a caller gave up in a queue.
Missed(e) == e.kind \in {"missed", "abandoned"}
MissedCompany(e) == IF e.kind = "missed" THEN e.tenant ELSE QueueCompany[e.queue]
CallVolume(e) ==
  LET map == TrackCall(e.speaker)
      over == Listed(alerts, Alert("volume_anormal", e.speaker))
  IN  IF e.kind # "dial_begin" \/ ~e.external THEN UNCHANGED <<rates, alerts>>
      ELSE /\ rates' = map
           /\ alerts' \in IF ~Abnormal(RatesOf(map, e.speaker)) THEN {alerts}
                          ELSE {over} \cup \* and the block, unless AstDB refuses it
                               (IF AutoBlock THEN {Listed(over, Alert("bloqueio_automatico", e.speaker))}
                                ELSE {})

\* After the trackers: the lists, the file of the reports, the notices, the survey.  When
\* the log cannot be written the rest of the event is not handled.
RecordsHear(e) ==
  /\ quality' = IF e.kind = "quality" THEN Listed(quality, QualityRow(e)) ELSE quality
  /\ IF e.kind = "cdr"
     THEN LET log == Append(callLog, ReportRow(e))
          IN  /\ callLog' = log /\ UNCHANGED rates
              /\ alerts' = IF OverLimit(log, ReportRow(e))
                           THEN Listed(alerts, Alert("limite_gasto", e.speaker)) ELSE alerts
     ELSE UNCHANGED callLog /\ CallVolume(e)
  /\ missed' = IF Missed(e) THEN Listed(missed, [tenant |-> MissedCompany(e)]) ELSE missed
  /\ notices' = IF Missed(e) /\ MissedCompany(e) = NotifyCompany THEN Append(notices, "missed_call")
                ELSE IF e.kind = "dial_begin" THEN Append(notices, "screen_pop") ELSE notices
  /\ surveys' = IF e.kind = "survey"
                THEN Append(surveys, [tenant |-> SpeakerCompany[e.speaker], operator |-> e.speaker,
                                      score |-> e.score])
                ELSE surveys
  /\ heard' = [heard EXCEPT !.cdrs = IF e.kind = "cdr" THEN Append(@, [e |-> e, day |-> DayKey(now)]) ELSE @,
                            !.dials = IF e.kind = "dial_begin" /\ e.external
                                      THEN Append(@, [speaker |-> e.speaker, at |-> now]) ELSE @]
  /\ UNCHANGED emitted
RecordsFail(e) ==
  /\ e.kind \in {"cdr", "survey"}
  /\ quality' = quality /\ UNCHANGED <<callLog, rates, alerts, missed, notices, surveys, emitted>>
  /\ heard' = [heard EXCEPT !.cdrs = IF e.kind = "cdr" THEN Append(@, [e |-> e, day |-> DayKey(now)]) ELSE @]

----------------------------------------------------------------------------
(* Asterisk: a leg of a call begins to ring, ends with a CDR, goes         *)
(* unanswered, is reported on by RTCP, or was rated by the caller.         *)

Emit(e) == /\ emitted < MaxRecordEvents /\ emitted' = emitted + 1 /\ Tell(<<e>>)
           /\ UNCHANGED <<daily, tenantDaily, callLog, surveys, missed, quality, alerts, rates,
                          notices, heard, now, mishaps>>

CallEnds(leg, t, x, d, s) ==
  Emit([kind |-> "cdr", leg |-> leg, account |-> t, speaker |-> x, disposition |-> d, seconds |-> s,
        day |-> DayKey(now)])
CallRings(x, external) == Emit([kind |-> "dial_begin", speaker |-> x, external |-> external])
\* Only an event whose company can be told is kept.
CallLost(t) == Emit([kind |-> "missed", tenant |-> t])
QualityTold(x, report) == Emit([kind |-> "quality", speaker |-> x, report |-> report])
CallRated(x, score) == Emit([kind |-> "survey", speaker |-> x, score |-> score])

CdrStep ==
  \E leg \in Legs, t \in Accounts \cup {NoCompany}, x \in Speakers, d \in Dispositions, s \in Talks :
    CallEnds(leg, t, x, d, s)
CallStep ==
  \/ \E x \in Speakers, external \in BOOLEAN : CallRings(x, external)
  \/ \E x \in Speakers, report \in QualityReports : QualityTold(x, report)
  \/ \E t \in Accounts : CallLost(t)
  \/ \E x \in Speakers, score \in Scores : CallRated(x, score)

----------------------------------------------------------------------------
(* Properties.                                                             *)

OfDay(day) ==
  {i \in DOMAIN heard.cdrs : heard.cdrs[i].day = day /\ heard.cdrs[i].e.disposition \in Known}
Keys(calls) == {<<heard.cdrs[i].e.leg, heard.cdrs[i].e.disposition>> : i \in calls}
OfAccount(calls, t) == {i \in calls : heard.cdrs[i].e.account = t}
Counts(m) == [answered |-> m.answered, missed |-> m.missed, talk |-> m.talk]

\* The counters of the day, the counters of each company and the reports tell of the same
\* calls.  However often a CDR is repeated the counters take it once, as long as no more
\* of them come in a day than are remembered; and when none is repeated, or ends on
\* another day than the one on which it is heard, they agree with the report of the day
\* to the second, unless a file could not be written, the process was restarted or the
\* clock went back.  (A disposition no counter knows is in the reports, as a missed call.)
ReportsAgree ==
  LET today == DayKey(now)
      calls == OfDay(today)
      rolled == RollDay(daily)
      known == {i \in DOMAIN callLog : callLog[i].disposition \in Known}
      report == {i \in known : callLog[i].date = today}
  IN  Never({"restart", "setback"}) /\ Cardinality(Keys(calls)) <= MaxCdrIds =>
        /\ rolled.answered + rolled.missed = Cardinality(Keys(calls))
        /\ Cardinality(Accounts) <= MaxTenants => \A t \in Accounts :
             LET m == MetricsOf(t)
             IN  m.answered + m.missed = Cardinality(Keys(OfAccount(calls, t)))
        /\ Cardinality(Keys(calls)) = Cardinality(calls) /\ Never({"failed", "torn"})
             /\ (\A i \in DOMAIN heard.cdrs : heard.cdrs[i].e.day = heard.cdrs[i].day) =>
             /\ Counts(rolled) = Aggregate(callLog, report)
             /\ GroupBy(callLog, report, "tenant") =
                  [t \in {SpeakerCompany[heard.cdrs[i].e.speaker] : i \in calls} |->
                     Aggregate(callLog, known \cap Query(today, today,
                       {x \in Speakers : SpeakerCompany[x] = t}, t))]

\* A ringing call to the outside raises the alarm exactly when more than Rate such calls
\* of the extension were heard of within the window, although the tracker forgets the
\* calls of the day before, those beyond its size and the extensions beyond its number.
VolumeIsNoticed ==
  [][Len(heard'.dials) > Len(heard.dials) /\ Never({"restart", "setback"})
       /\ Len(alerts) < MaxListed /\ Rate < MaxRates /\ Cardinality(Speakers) <= MaxTracked =>
       LET x == Last(heard'.dials).speaker
           recent == {i \in DOMAIN heard'.dials : /\ heard'.dials[i].speaker = x
                                                  /\ heard'.dials[i].at + RateWindow >= now}
       IN  alerts' # alerts <=> Cardinality(recent) > Rate]_recordVars
===============================================================================
