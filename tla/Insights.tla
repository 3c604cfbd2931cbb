-------------------------------- MODULE Insights --------------------------------
(***************************************************************************)
(* queue-api: the local reports of a company over the files that the       *)
(* service writes (insights_cli.py), five per area.  A row is a record; a  *)
(* field that is absent is None, one that does not hold a usable value is  *)
(* Bad.  Days are numbers, queues and agents are numbered in the order of  *)
(* their names, seconds are integers, percents are in tenths.              *)
(***************************************************************************)
EXTENDS CallRecords, QueueSla, AgentBoard, Supervision

CONSTANTS Bad,
          InsightCompanies, AgentCompany, QueueOwner,
          DaySeconds, MonthDays,
          AsOf                     \* the time at which ages are measured

VARIABLE file                      \* the kind and rows of a file, and what the reports say of it

----------------------------------------------------------------------------
(* insights_common: rows of exactly one company, days, groups, shares.     *)

Month(day) == day \div MonthDays
Week(day) == day \div 7
Weekday(day) == day % 7
DayOf(time) == time \div DaySeconds

TenantRows(rows, t) == SelectSeq(rows, LAMBDA r : r.tenant = t)
AgentRows(rows, t) == SelectSeq(rows, LAMBDA r : r.agent # Bad /\ AgentCompany[r.agent] = t)
ValidSeconds(v) == v \notin {None, Bad}
Dated(rows) == SelectSeq(rows, LAMBDA r : r.date # Bad)
Pick(rows, field) == [i \in DOMAIN rows |-> rows[i][field]]
SumField(rows, field) == Added(Pick(rows, field))

By(rows, KeyOf(_), Value(_)) ==
  [k \in {KeyOf(rows[i]) : i \in DOMAIN rows} |-> Value(SelectSeq(rows, LAMBDA r : KeyOf(r) = k))]
ByDay(rows, Value(_)) == By(Dated(rows), LAMBDA r : r.date, Value)
ByMonth(rows, Value(_)) == By(Dated(rows), LAMBDA r : Month(r.date), Value)
Share(rows, P(_)) == [part |-> HowMany(rows, P), total |-> Len(rows),
                      percent |-> Percent(HowMany(rows, P), Len(rows))]
\* The first of the keys that are best.
Best(keys, Better(_, _)) ==
  CHOOSE k \in keys : \A j \in keys \ {k} : Better(k, j) \/ (~Better(j, k) /\ k < j)
SumOver(map) == MapThenSumSet(LAMBDA k : map[k], DOMAIN map)

----------------------------------------------------------------------------
(* The calls: rows of reports.py.                                          *)

Answered(r) == r.disposition = "ANSWERED"
NONANSWER == {"NOANSWER", "NO ANSWER", "BUSY", "CANCEL", "CANCELLED", "CONGESTION", "FAILED",
              "CHANUNAVAIL"}
RECOGNIZED == NONANSWER \cup {"ANSWERED"}
Recognized(r) == r.disposition \in RECOGNIZED
Missing(r) == r.disposition \in NONANSWER
LocalCalls(rows, t) == SelectSeq(TenantRows(rows, t), LAMBDA r : r.disposition # Bad)
\* The operator, when it is an extension of the company.
OperatorOf(r, t) == IF r.operator # None /\ AgentCompany[r.operator] = t THEN r.operator ELSE None
Attributed(rows, t) == SelectSeq(rows, LAMBDA r : OperatorOf(r, t) # None)
ByAgent(rows, t, Value(_)) == By(Attributed(rows, t), LAMBDA r : r.operator, Value)
TalkTimes(rows) == Pick(SelectSeq(rows, LAMBDA r : Answered(r) /\ ValidSeconds(r.seconds)), "seconds")

CallsReport(rows, t) ==
  LET calls == LocalCalls(rows, t)
      talks == TalkTimes(calls)
      volume == ByDay(calls, Len)
  IN  [volume_by_day |-> volume,
       answer_rate |-> Share(calls, Answered),
       missed_rate |-> Share(calls, LAMBDA r : ~Answered(r)),
       talk_time |-> [measured |-> Len(talks), total |-> Added(talks),
                      average |-> Mean(talks, 10), median2 |-> Median2(talks)],
       peak_day |-> IF volume = <<>> THEN None
                    ELSE Best(DOMAIN volume, LAMBDA a, b : volume[a] > volume[b])]

Bands(values, limits) ==  \* values above limits[i - 1] and up to limits[i]
  [i \in 1..(Len(limits) + 1) |->
     HowMany(values, LAMBDA v : (i = 1 \/ v > limits[i - 1]) /\ (i > Len(limits) \/ v <= limits[i]))]
CallsAdvanced(rows, t) ==
  LET calls == LocalCalls(rows, t)
  IN  [disposition |-> By(calls, LAMBDA r : IF Recognized(r) THEN r.disposition ELSE "OTHER", Len),
       volume_by_agent |-> ByAgent(calls, t, Len),
       answered_by_agent |-> ByAgent(SelectSeq(calls, Answered), t, Len),
       talk_by_agent |-> ByAgent(SelectSeq(calls, LAMBDA r : Answered(r) /\ ValidSeconds(r.seconds)), t,
                                 LAMBDA group : SumField(group, "seconds")),
       bands |-> Bands(TalkTimes(calls), <<30, 120, 300>>)]

CallsAudit(rows, t) ==
  LET calls == LocalCalls(rows, t)
  IN  [invalid_date |-> HowMany(calls, LAMBDA r : r.date = Bad),
       missing_duration |-> HowMany(calls, LAMBDA r : Answered(r) /\ ~ValidSeconds(r.seconds)),
       unknown_disposition |-> HowMany(calls, LAMBDA r : ~Recognized(r)),
       missing_operator |-> HowMany(calls, LAMBDA r : Answered(r) /\ OperatorOf(r, t) = None),
       conflicts |-> HowMany(calls, LAMBDA r : r.seconds = Bad)]

CallsTrends(rows, t) ==
  LET calls == Dated(LocalCalls(rows, t))
      known == SelectSeq(calls, Recognized)
      rate(group) == Share(group, Answered)
  IN  [weekday |-> [d \in 0..6 |-> HowMany(calls, LAMBDA r : Weekday(r.date) = d)],
       weekly |-> By(calls, LAMBDA r : Week(r.date), Len), monthly |-> ByMonth(calls, Len),
       monthly_rate |-> ByMonth(known, rate), daily_rate |-> ByDay(known, rate)]

\* A disposition of blanks is a call to the other reports, and invalid to this one.
CdrIntegrity(rows, t) ==
  LET calls == LocalCalls(rows, t)
      answered == SelectSeq(calls, Answered)
      nonanswered == SelectSeq(calls, Missing)
  IN  [unknown_by_day |-> ByDay(SelectSeq(calls, LAMBDA r : ~Recognized(r)), Len),
       zero_duration |-> HowMany(answered, LAMBDA r : r.seconds = 0),
       nonanswered |-> Len(nonanswered),
       nonanswered_billable |-> HowMany(nonanswered, LAMBDA r : ValidSeconds(r.seconds) /\ r.seconds # 0),
       without_operator |-> Share(answered, LAMBDA r : OperatorOf(r, t) = None),
       records |-> Len(TenantRows(rows, t)),
       invalid |-> HowMany(TenantRows(rows, t), LAMBDA r : r.disposition \in {Bad, "blank"})]

Unanswered(rows, t) ==
  LET calls == LocalCalls(rows, t)
      unanswered == SelectSeq(calls, Missing)
  IN  [reasons |-> [d \in NONANSWER |-> HowMany(unanswered, LAMBDA r : r.disposition = d)],
       daily |-> ByDay(unanswered, Len), by_agent |-> ByAgent(unanswered, t, Len),
       monthly |-> ByMonth(unanswered, Len),
       daily_rate |-> ByDay(SelectSeq(calls, Recognized), LAMBDA group : Share(group, Missing))]

AgentEfficiency(rows, t) ==
  ByAgent(SelectSeq(LocalCalls(rows, t), Recognized), t,
          LAMBDA group : LET talks == TalkTimes(group)
                         IN  [answered |-> Share(group, Answered), nonanswered |-> HowMany(group, Missing),
                              measured |-> Len(talks), average |-> Mean(talks, 10),
                              median2 |-> Median2(talks),
                              coverage |-> Percent(Len(talks), HowMany(group, Answered)),
                              over_five |-> Share(talks, LAMBDA v : v > 300)])

----------------------------------------------------------------------------
(* The service level: rows of the history of queue_sla.py.                 *)

SlaHistory(rows, t) ==
  SelectSeq(rows, LAMBDA r : r.queue \in DOMAIN QueueOwner /\ QueueOwner[r.queue] = t /\ r.date # Bad
                             /\ 1 <= r.offered /\ r.within <= r.offered)
Volume(rows) == SumField(rows, "offered")
Level(rows) == [offered |-> Volume(rows), within |-> SumField(rows, "within"),
                outside |-> Volume(rows) - SumField(rows, "within"),
                percent |-> Percent(SumField(rows, "within"), Volume(rows))]
Below80(level) == level.within * 5 < level.offered * 4
Higher(a, b) == a.within * b.offered > b.within * a.offered
Daily(rows, t) == ByDay(SlaHistory(rows, t), Level)
ByQueue(rows, t) == By(SlaHistory(rows, t), LAMBDA r : r.queue, Level)

SlaReport(rows, t) ==
  LET days == Daily(rows, t)
  IN  [overall |-> Level(SlaHistory(rows, t)), by_day |-> days, by_queue |-> ByQueue(rows, t),
       days_below |-> Cardinality({d \in DOMAIN days : Below80(days[d])}),
       worst_day |-> IF days = <<>> THEN None
                     ELSE Best(DOMAIN days, LAMBDA a, b : Higher(days[b], days[a]))]

SlaCapacity(rows, t) ==
  LET valid == SlaHistory(rows, t)
      queues == ByQueue(rows, t)
      days == Daily(rows, t)
      latest == Max(DOMAIN days)
  IN  [monthly |-> ByMonth(valid, Level),
       weekday |-> [d \in 0..6 |-> Level(SelectSeq(valid, LAMBDA r : Weekday(r.date) = d))],
       most_loaded |-> IF valid = <<>> THEN None
                       ELSE Best(DOMAIN queues, LAMBDA a, b : queues[a].offered > queues[b].offered),
       latest_day |-> IF valid = <<>> THEN None ELSE [date |-> latest, level |-> days[latest]]]

\* Mutant: a day without calls does not interrupt the days below 80 %.
StreakOverGaps(days) ==
  LET step(state, d) == LET run == IF Below80(days[d]) THEN state.run + 1 ELSE 0
                        IN  [run |-> run, previous |-> d, longest |-> Max({state.longest, run})]
  IN  FoldLeft(step, [run |-> 0, previous |-> None, longest |-> 0], Ordered(SetToSeq(DOMAIN days))).longest

\* The longest run of days in a row that are all below 80 %, in one pass over the days.
Streak(days) ==
  LET step(state, d) ==
        LET next == state.previous # None /\ state.previous = d - 1
            run == IF ~Below80(days[d]) THEN 0 ELSE IF next THEN state.run + 1 ELSE 1
        IN  [run |-> run, previous |-> IF run = 0 THEN None ELSE d, longest |-> Max({state.longest, run})]
  IN  FoldLeft(step, [run |-> 0, previous |-> None, longest |-> 0], Ordered(SetToSeq(DOMAIN days))).longest

SlaRisk(rows, t) ==
  LET valid == SlaHistory(rows, t)
      days == Daily(rows, t)
      queues == ByQueue(rows, t)
      measured == {q \in DOMAIN queues : queues[q].offered >= 10}
      better(a, b) == \/ Higher(days[a], days[b])
                      \/ ~Higher(days[b], days[a]) /\ days[a].offered > days[b].offered
  IN  [longest_streak |-> Streak(days),
       monthly_outside |-> ByMonth(valid, LAMBDA group : Level(group).outside),
       traffic |-> [q \in DOMAIN queues |-> Percent(queues[q].offered, Volume(valid))],
       lowest_queue |-> IF measured = {} THEN None
                        ELSE Best(measured, LAMBDA a, b : Higher(queues[b], queues[a])),
       best_day |-> IF days = <<>> THEN None ELSE Best(DOMAIN days, better)]

----------------------------------------------------------------------------
(* Outbound: the catalogs of callbacks.py and campaigns.py.                *)

CallbackStatuses == {"pendente", "discando", "concluido", "cancelado", "esgotado"}
CallbackAttempts == 2
LocalCallbacks(rows, t) ==
  SelectSeq(TenantRows(rows, t), LAMBDA r : r.status \in CallbackStatuses /\ r.attempts <= CallbackAttempts
                                            /\ r.at # Bad)
Pending(rows, t) == SelectSeq(LocalCallbacks(rows, t), LAMBDA r : r.status = "pendente")
\* Requests of the future have no age.
PendingAges(rows, t) == LET past == SelectSeq(Pending(rows, t), LAMBDA r : r.at <= AsOf)
                        IN  [i \in DOMAIN past |-> AsOf - past[i].at]

CallbacksReport(rows, t) ==
  LET all == LocalCallbacks(rows, t)
      pending == Pending(rows, t)
  IN  [status |-> [s \in CallbackStatuses |-> HowMany(all, LAMBDA r : r.status = s)],
       completion |-> Share(SelectSeq(all, LAMBDA r : r.status \in {"concluido", "cancelado", "esgotado"}),
                            LAMBDA r : r.status = "concluido"),
       attempts |-> [n \in 0..CallbackAttempts |-> HowMany(all, LAMBDA r : r.attempts = n)],
       per_day |-> By(pending, LAMBDA r : DayOf(r.at), Len),
       pool |-> [first |-> HowMany(pending, LAMBDA r : r.attempts = 0),
                 retry |-> HowMany(pending, LAMBDA r : 0 < r.attempts /\ r.attempts < CallbackAttempts),
                 review |-> HowMany(pending, LAMBDA r : r.attempts >= CallbackAttempts)]]

CallbackAging(rows, t) ==
  LET ages == PendingAges(rows, t)
      aged == SelectSeq(Pending(rows, t), LAMBDA r : r.at <= AsOf)
      between(low, high) == HowMany(ages, LAMBDA a : low <= a /\ a < high)
  IN  [oldest |-> IF ages = <<>> THEN None ELSE Last(Ordered(ages)), median2 |-> Median2(ages),
       bands |-> <<between(0, 300), between(300, 1800), between(1800, 7200),
                   HowMany(ages, LAMBDA a : a >= 7200)>>,
       over_one_hour |-> Share(ages, LAMBDA a : a >= 3600),
       weekday |-> [d \in 0..6 |-> HowMany(aged, LAMBDA r : Weekday(DayOf(r.at)) = d)]]

CallbackHealth(rows, t) ==
  LET all == LocalCallbacks(rows, t)
      older(seconds) == Share(PendingAges(rows, t), LAMBDA a : a >= seconds)
  IN  [over_24h |-> older(DaySeconds), over_48h |-> older(2 * DaySeconds),
       exhausted |-> HowMany(Pending(rows, t), LAMBDA r : r.attempts = CallbackAttempts),
       completed_by_attempts |-> [n \in 0..CallbackAttempts |->
          HowMany(all, LAMBDA r : r.status = "concluido" /\ r.attempts = n)],
       pending |-> Share(all, LAMBDA r : r.status = "pendente")]

\* summarize_callbacks of GET /api/callbacks: what the reports leave out is counted apart.
SummarizeCallbacks(rows, t) ==
  LET mine == TenantRows(rows, t)
      pending == SelectSeq(mine, LAMBDA r : r.status = "pendente")
      count(s) == HowMany(mine, LAMBDA r : r.status = s)
  IN  IF \E i \in DOMAIN pending : pending[i].at = Bad THEN Refused
      ELSE [total |-> Len(mine),
            by_status |-> [s \in CallbackStatuses |-> count(s)],
            others |-> HowMany(mine, LAMBDA r : r.status \notin CallbackStatuses),
            oldest |-> IF pending = <<>> THEN None
                       ELSE AtLeast0(AsOf - Min({pending[i].at : i \in DOMAIN pending}))]

\* Contacts in manual review are not among them.
ContactStatuses == {"pendente", "discando", "atendida", "ocupado", "sem_resposta", "cancelada", "falha",
                    "esgotado"}
ContactAttempts == 3
LocalCampaigns(rows, t) ==
  LET mine == SelectSeq(TenantRows(rows, t), LAMBDA r : AgentCompany[r.agent] = t)
  IN  [i \in DOMAIN mine |->
         [agent |-> mine[i].agent,
          contacts |-> SelectSeq(mine[i].contacts, LAMBDA c : c.status \in ContactStatuses
                                                              /\ c.attempts <= ContactAttempts)]]
Contacts(rows, t) == FlattenSeq(Pick(LocalCampaigns(rows, t), "contacts"))

CampaignsReport(rows, t) ==
  LET contacts == Contacts(rows, t)
      pending(c) == c.status = "pendente"
  IN  [status |-> [s \in ContactStatuses |-> HowMany(contacts, LAMBDA c : c.status = s)],
       finished |-> Share(contacts, LAMBDA c : c.status \notin {"pendente", "discando"}),
       first |-> HowMany(contacts, LAMBDA c : pending(c) /\ c.attempts = 0),
       retry |-> HowMany(contacts, LAMBDA c : pending(c) /\ 0 < c.attempts /\ c.attempts < ContactAttempts),
       exhausted |-> HowMany(contacts, LAMBDA c : c.attempts >= ContactAttempts /\ c.status # "atendida"),
       attempts |-> SumField(contacts, "attempts"), average |-> Mean(Pick(contacts, "attempts"), 100),
       workload |-> By(LocalCampaigns(rows, t), LAMBDA r : r.agent,
                       LAMBDA group : LET own == FlattenSeq(Pick(group, "contacts"))
                                      IN  [campaigns |-> Len(group), contacts |-> Len(own),
                                           attempts |-> SumField(own, "attempts")])]

CampaignsAdvanced(rows, t) ==
  LET share(s) == Share(Contacts(rows, t), LAMBDA c : c.status = s)
      called == SelectSeq(LocalCampaigns(rows, t), LAMBDA r : r.contacts # <<>>)
  IN  [answered |-> share("atendida"), busy |-> share("ocupado"), no_answer |-> share("sem_resposta"),
       in_progress |-> share("discando").part,
       by_agent |-> By(called, LAMBDA r : r.agent,
                       LAMBDA group : Share(FlattenSeq(Pick(group, "contacts")),
                                            LAMBDA c : c.status = "atendida"))]

----------------------------------------------------------------------------
(* Agents: the rows of agent_pause.py, the overrides of presence.py, the   *)
(* reports of quality_monitoring.py; the surveys of survey.py.             *)

PauseReasons == {"almoco", "banheiro", "descanso", "reuniao", "treinamento"}
LocalPauses(rows, t) ==
  LET valid == SelectSeq(AgentRows(rows, t), LAMBDA r : ValidSeconds(r.duration))
      shown(reason) == IF reason \in {None, Bad} THEN "sem motivo"
                       ELSE IF reason \in PauseReasons THEN reason ELSE "outros"
  IN  [i \in DOMAIN valid |->
         [agent |-> valid[i].agent, reason |-> shown(valid[i].reason), seconds |-> valid[i].duration,
          date |-> IF valid[i].started = Bad THEN Bad ELSE DayOf(valid[i].started)]]
Seconds(rows) == SumField(rows, "seconds")
CountAndSeconds(rows) == [count |-> Len(rows), seconds |-> Seconds(rows)]

PausesReport(rows, t) ==
  LET ended == LocalPauses(rows, t)
      longer(a, b) == ended[a].seconds > ended[b].seconds
                      \/ (ended[a].seconds = ended[b].seconds /\ ended[a].agent < ended[b].agent)
  IN  [total |-> CountAndSeconds(ended),
       by_reason |-> By(ended, LAMBDA r : r.reason, CountAndSeconds),
       by_agent |-> By(ended, LAMBDA r : r.agent, CountAndSeconds),
       longest |-> IF ended = <<>> THEN None ELSE ended[Best(DOMAIN ended, longer)],
       daily |-> ByDay(ended, Seconds)]

PausesAdvanced(rows, t) ==
  LET all == LocalPauses(rows, t)
      values == Pick(all, "seconds")
  IN  [average |-> Mean(values, 10), median2 |-> Median2(values), bands |-> Bands(values, <<300, 1800>>),
       weekday |-> [d \in 0..6 |-> Seconds(SelectSeq(Dated(all), LAMBDA r : Weekday(r.date) = d))],
       agents |-> Cardinality({all[i].agent : i \in DOMAIN all})]

\* summarize_pause_time_by_reason and _by_extension of GET /api/reports/pauses.
PausesOfApi(rows, t) ==
  LET mine == AgentRows(rows, t)
      reason(r) == IF r.reason = None THEN "sem motivo" ELSE r.reason
      total(group) == Added([i \in DOMAIN group |-> IF group[i].duration = None THEN 0 ELSE group[i].duration])
  IN  [by_reason |-> By(mine, reason, total),
       by_extension |-> By(mine, LAMBDA r : r.agent,
                           LAMBDA group : [count |-> Len(group), seconds |-> total(group)])]

PresenceStatuses == {"disponivel", "ausente", "reuniao", "ferias"}
PresenceReport(rows, t) ==
  LET valid == SelectSeq(AgentRows(rows, t), LAMBDA r : r.status \in PresenceStatuses)
      measured == SelectSeq(valid, LAMBDA r : r.at # Bad)
  IN  [overrides |-> Len(valid),
       by_status |-> [s \in PresenceStatuses |-> HowMany(valid, LAMBDA r : r.status = s)],
       by_day |-> By(measured, LAMBDA r : DayOf(r.at), Len),
       older_than_week |-> Share(SelectSeq(measured, LAMBDA r : r.at <= AsOf),
                                 LAMBDA r : AsOf - r.at >= 7 * DaySeconds),
       without_timestamp |-> Len(valid) - Len(measured)]

\* A measure is a number up to its bound, or None.
LocalQuality(rows, t) ==
  SelectSeq(AgentRows(rows, t), LAMBDA r : r.jitter # None \/ r.loss # None \/ r.rtt # None)
Measured(rows, field) == Pick(SelectSeq(rows, LAMBDA r : r[field] # None), field)
Poor(r) == (r.jitter # None /\ r.jitter > 30) \/ (r.loss # None /\ r.loss > 3)
PoorByAgent(rows, t) ==
  By(SelectSeq(LocalQuality(rows, t), LAMBDA r : r.jitter # None \/ r.loss # None), LAMBDA r : r.agent,
     LAMBDA group : Share(group, Poor))

QualityExport(rows, t) ==
  LET all == LocalQuality(rows, t)
      average(field) == [samples |-> Len(Measured(all, field)), average |-> Mean(Measured(all, field), 100)]
  IN  [jitter |-> average("jitter"), loss |-> average("loss"), rtt |-> average("rtt"),
       high_jitter |-> Share(Measured(all, "jitter"), LAMBDA v : v > 30),
       poor_by_agent |-> PoorByAgent(rows, t)]

QualityAdvanced(rows, t) ==
  LET all == LocalQuality(rows, t)
      poor == PoorByAgent(rows, t)
      eligible == {x \in DOMAIN poor : poor[x].total >= 3}
      worse(a, b) == poor[a].part * poor[b].total > poor[b].part * poor[a].total
      p95(field) == Percentile(Ordered(Measured(all, field)), 95)
  IN  [p95_jitter |-> p95("jitter"), p95_rtt |-> p95("rtt"),
       high_loss |-> Share(Measured(all, "loss"), LAMBDA v : v > 3),
       coverage |-> [field \in {"jitter", "loss", "rtt"} |-> Len(Measured(all, field))],
       all_three |-> HowMany(all, LAMBDA r : r.jitter # None /\ r.loss # None /\ r.rtt # None),
       worst_agent |-> IF eligible = {} THEN None ELSE Best(eligible, worse)]

LocalSurveys(rows, t) == SelectSeq(TenantRows(rows, t), LAMBDA r : r.score # Bad)
Rating(rows) == [responses |-> Len(rows), average |-> Mean(Pick(rows, "score"), 100)]
SurveyReport(rows, t) ==
  LET all == LocalSurveys(rows, t)
  IN  [rating |-> Rating(all), distribution |-> [n \in 1..5 |-> HowMany(all, LAMBDA r : r.score = n)],
       positive |-> Share(all, LAMBDA r : r.score >= 4), low |-> Share(all, LAMBDA r : r.score <= 2),
       daily |-> ByDay(all, Rating)]

SurveyAdvanced(rows, t) ==
  LET all == LocalSurveys(rows, t)
  IN  [median2 |-> Median2(Pick(all, "score")), by_agent |-> ByAgent(all, t, Rating),
       neutral |-> Share(all, LAMBDA r : r.score = 3),
       weekly |-> By(Dated(all), LAMBDA r : Week(r.date), Len), monthly |-> ByMonth(all, Rating)]

\* GET /api/satisfaction, the ratings of the company by operator; None is "desconhecido".
SummarizeByOperator(rows, t) ==
  By(LocalSurveys(rows, t), LAMBDA r : r.operator, Rating)

\* The reports of a company over a file, by area; "api" is what the service answers of it,
\* None where it would add up values that are Bad, or that a call lacks.
GenerateReport(kind, rows, t) ==
  CASE kind = "calls" ->
         [calls |-> CallsReport(rows, t), calls_advanced |-> CallsAdvanced(rows, t),
          calls_audit |-> CallsAudit(rows, t), calls_trends |-> CallsTrends(rows, t),
          cdr_integrity |-> CdrIntegrity(rows, t), unanswered |-> Unanswered(rows, t),
          agent_efficiency |-> AgentEfficiency(rows, t),
          api |-> LET mine == TenantRows(rows, t)
                  IN  IF \E r \in Range(mine) : Answered(r) /\ ~ValidSeconds(r.seconds) THEN None
                      ELSE Aggregate(mine, DOMAIN mine)]
    [] kind = "sla" -> [sla_history |-> SlaReport(rows, t), sla_capacity |-> SlaCapacity(rows, t),
                        sla_risk |-> SlaRisk(rows, t)]
    [] kind = "callbacks" ->
         [callbacks |-> CallbacksReport(rows, t), callback_aging |-> CallbackAging(rows, t),
          callback_health |-> CallbackHealth(rows, t), api |-> SummarizeCallbacks(rows, t)]
    [] kind = "campaigns" -> [campaigns |-> CampaignsReport(rows, t),
                              campaigns_advanced |-> CampaignsAdvanced(rows, t)]
    [] kind = "pauses" -> [pauses |-> PausesReport(rows, t), pauses_advanced |-> PausesAdvanced(rows, t),
                           api |-> IF \E r \in Range(AgentRows(rows, t)) : r.duration = Bad THEN None
                                   ELSE PausesOfApi(rows, t)]
    [] kind = "presence" -> [presence |-> PresenceReport(rows, t)]
    [] kind = "quality" -> [quality_export |-> QualityExport(rows, t),
                            quality_advanced |-> QualityAdvanced(rows, t)]
    [] kind = "survey" -> [survey |-> SurveyReport(rows, t), survey_advanced |-> SurveyAdvanced(rows, t),
                           api |-> SummarizeByOperator(rows, t)]
ReadFile(kind, rows) ==
  file' = [kind |-> kind, rows |-> rows,
           reports |-> [t \in InsightCompanies |-> GenerateReport(kind, rows, t)]]

----------------------------------------------------------------------------
(* Properties.                                                             *)

\* The best of the keys, and the first of those that are as good.
Extremal(k, keys, Better(_, _)) ==
  IF keys = {} THEN k = None
  ELSE k \in keys /\ \A j \in keys : ~Better(j, k) /\ (j < k => Better(k, j))
SumParts(map, field) == MapThenSumSet(LAMBDA k : map[k][field], DOMAIN map)

CallsConcur(area) ==
  LET calls == area.calls
      more == area.calls_advanced
      audit == area.calls_audit
      trends == area.calls_trends
      integrity == area.cdr_integrity
      reasons == area.unanswered
      agents == area.agent_efficiency
      total == calls.answer_rate.total
      answered == calls.answer_rate.part
      dated == total - audit.invalid_date
      volume == calls.volume_by_day
  IN  /\ \A counts \in {volume, trends.weekday, trends.weekly, trends.monthly} : SumOver(counts) = dated
      /\ Extremal(calls.peak_day, DOMAIN volume, LAMBDA a, b : volume[a] > volume[b])
      /\ SumOver(more.disposition) = total /\ answered + calls.missed_rate.part = total
      /\ answered + integrity.nonanswered + audit.unknown_disposition = total
      /\ SumOver(reasons.reasons) = integrity.nonanswered
      /\ SumOver(reasons.daily) = SumOver(reasons.monthly)
      /\ SumOver(more.bands) = calls.talk_time.measured
      /\ SumOver(more.bands) + audit.missing_duration = answered
      /\ integrity.without_operator.part = audit.missing_operator
      /\ SumOver(more.answered_by_agent) + audit.missing_operator = answered
      /\ SumOver(more.talk_by_agent) <= calls.talk_time.total
      /\ audit.missing_operator = 0 => SumOver(more.talk_by_agent) = calls.talk_time.total
      /\ DOMAIN trends.daily_rate = DOMAIN reasons.daily_rate
      /\ \A d \in DOMAIN trends.daily_rate :
           trends.daily_rate[d].part + reasons.daily_rate[d].part = trends.daily_rate[d].total
      /\ \A x \in DOMAIN agents : agents[x].answered.part + agents[x].nonanswered = agents[x].answered.total
      /\ integrity.records - integrity.invalid <= total
      /\ audit.conflicts = 0 /\ audit.missing_duration = 0 /\ integrity.records = total =>
           area.api =
             [answered |-> answered, missed |-> calls.missed_rate.part, talk |-> calls.talk_time.total]

\* The days from a to b were all measured, and were all below 80 %.
Low(days, a, b) == \A d \in a..b : d \in DOMAIN days /\ Below80(days[d])
SlaConcur(rows, t, area) ==
  LET report == area.sla_history
      capacity == area.sla_capacity
      risk == area.sla_risk
      days == report.by_day
      queues == report.by_queue
      overall == report.overall
      measured == {q \in DOMAIN queues : queues[q].offered >= 10}
      n == Cardinality(DOMAIN queues)
  IN  /\ \A levels \in {days, queues, capacity.monthly, capacity.weekday} :
           /\ SumParts(levels, "offered") = overall.offered
           /\ SumParts(levels, "within") = overall.within
      /\ SumOver(risk.monthly_outside) = overall.outside
      /\ 2 * SumOver(risk.traffic) \in (2000 * Signal(n > 0) - n)..(2000 * Signal(n > 0) + n)
      /\ Extremal(report.worst_day, DOMAIN days, LAMBDA a, b : Higher(days[b], days[a]))
      /\ Extremal(risk.lowest_queue, measured, LAMBDA a, b : Higher(queues[b], queues[a]))
      /\ Extremal(capacity.most_loaded, DOMAIN queues, LAMBDA a, b : queues[a].offered > queues[b].offered)
      /\ \A d \in DOMAIN days : ~Higher(days[d], days[risk.best_day])
      /\ risk.longest_streak =
           Max({k \in 0..Len(rows) : k > 0 => \E a \in DOMAIN days : Low(days, a, a + k - 1)})
      /\ (report.days_below = 0) = (risk.longest_streak = 0)
      /\ SlaHistory(rows, t) = rows => \A d \in DOMAIN days :
           days[d].offered = MapThenSumSet(LAMBDA q : Summary(rows, DOMAIN rows, d, q, "offered"), DOMAIN queues)

CallbacksConcur(area) ==
  LET report == area.callbacks
      aging == area.callback_aging
      health == area.callback_health
      api == area.api
      pending == report.status["pendente"]
      all == SumOver(report.status)
      past == aging.over_one_hour.total
  IN  /\ SumOver(report.attempts) = all /\ health.pending.total = all /\ health.pending.part = pending
      /\ report.pool.first + report.pool.retry + report.pool.review = pending
      /\ report.pool.review = health.exhausted
      /\ SumOver(report.per_day) = pending
      /\ SumOver(aging.bands) = past /\ SumOver(aging.weekday) = past /\ past <= pending
      /\ health.over_48h.part <= health.over_24h.part /\ health.over_24h.part <= aging.over_one_hour.part
      /\ aging.over_one_hour.part <= aging.bands[3] + aging.bands[4]
      /\ SumOver(health.completed_by_attempts) = report.status["concluido"]
      /\ aging.oldest # None => aging.median2 <= 2 * aging.oldest
      /\ api # Refused /\ api.total = all + api.others =>
           /\ api.by_status = report.status
           /\ past > 0 => api.oldest = aging.oldest

CampaignsConcur(area) ==
  LET report == area.campaigns
      more == area.campaigns_advanced
      all == SumOver(report.status)
  IN  /\ report.finished.total = all /\ report.finished.part + report.status["pendente"] + more.in_progress = all
      /\ SumParts(report.workload, "contacts") = all /\ SumParts(report.workload, "attempts") = report.attempts
      /\ report.first + report.retry <= report.status["pendente"]
      /\ report.exhausted = 0 => report.first + report.retry = report.status["pendente"]
      /\ SumParts(more.by_agent, "part") = more.answered.part /\ SumParts(more.by_agent, "total") = all
      /\ DOMAIN more.by_agent \subseteq DOMAIN report.workload
      /\ more.answered.part + more.busy.part + more.no_answer.part <= report.finished.part

PausesConcur(rows, t, area) ==
  LET report == area.pauses
      more == area.pauses_advanced
      api == area.api
      addsUp(groups) == /\ SumParts(groups, "count") = report.total.count
                        /\ SumParts(groups, "seconds") = report.total.seconds
  IN  /\ addsUp(report.by_reason) /\ addsUp(report.by_agent)
      /\ SumOver(report.daily) = SumOver(more.weekday) /\ SumOver(report.daily) <= report.total.seconds
      /\ SumOver(more.bands) = report.total.count /\ more.agents = Cardinality(DOMAIN report.by_agent)
      /\ report.total.count = Len(AgentRows(rows, t)) =>
           /\ api.by_extension = report.by_agent
           /\ SumOver(api.by_reason) = report.total.seconds
      /\ \A x \in DOMAIN report.by_agent : report.by_agent[x].seconds <= report.total.count * report.longest.seconds

PresenceConcur(area) ==
  LET report == area.presence
  IN  /\ SumOver(report.by_status) = report.overrides
      /\ SumOver(report.by_day) + report.without_timestamp = report.overrides
      /\ report.older_than_week.total <= SumOver(report.by_day)

\* v is the nearest rank of 95 %: 95 of 100 samples are not above it, and it is the least so.
QualityConcur(rows, t, area) ==
  LET report == area.quality_export
      more == area.quality_advanced
      all == LocalQuality(rows, t)
      poor == report.poor_by_agent
      worse(a, b) == poor[a].part * poor[b].total > poor[b].part * poor[a].total
  IN  /\ \A field \in {"jitter", "rtt"} :
           LET v == IF field = "jitter" THEN more.p95_jitter ELSE more.p95_rtt
               values == Measured(all, field)
           IN  IF values = <<>> THEN v = None ELSE NearestRank(v, values, 95)
      /\ \A field \in DOMAIN more.coverage : more.coverage[field] = report[field].samples
      /\ \A field \in DOMAIN more.coverage : more.all_three <= more.coverage[field]
      /\ Extremal(more.worst_agent, {x \in DOMAIN poor : poor[x].total >= 3}, worse)
      /\ SumParts(poor, "part") <= report.high_jitter.part + more.high_loss.part

SurveysConcur(rows, t, area) ==
  LET report == area.survey
      more == area.survey_advanced
      n == report.rating.responses
      known == {r.operator : r \in Range(LocalSurveys(rows, t))} \ {None}
  IN  /\ SumOver(report.distribution) = n
      /\ report.positive.part + more.neutral.part + report.low.part = n
      /\ SumParts(report.daily, "responses") = SumOver(more.weekly)
      /\ SumParts(more.monthly, "responses") = SumOver(more.weekly)
      /\ SumParts(area.api, "responses") = n
      /\ DOMAIN more.by_agent \subseteq known
      /\ \A x \in DOMAIN more.by_agent : area.api[x] = more.by_agent[x]

\* The reports of a company over one file tell one story, however incomplete its rows:
\* every row counted in one report is in its place in the others (by day and without a
\* date, by agent and without one, by status, in the bands of its duration), the days,
\* queues and agents they name are extreme by exact fractions, the longest streak is the
\* longest run of days in a row that were all below 80 %, a 95th percentile is a sample
\* that 95 of 100 do not exceed; and when every row is usable they agree with what the API
\* tells of the same file.
LocalReportsConcur ==
  \A t \in InsightCompanies :
    CASE file.kind = "calls" -> CallsConcur(file.reports[t])
      [] file.kind = "sla" -> SlaConcur(file.rows, t, file.reports[t])
      [] file.kind = "callbacks" -> CallbacksConcur(file.reports[t])
      [] file.kind = "campaigns" -> CampaignsConcur(file.reports[t])
      [] file.kind = "pauses" -> PausesConcur(file.rows, t, file.reports[t])
      [] file.kind = "presence" -> PresenceConcur(file.reports[t])
      [] file.kind = "quality" -> QualityConcur(file.rows, t, file.reports[t])
      [] file.kind = "survey" -> SurveysConcur(file.rows, t, file.reports[t])
      [] OTHER -> TRUE  \* no file was read
===============================================================================
