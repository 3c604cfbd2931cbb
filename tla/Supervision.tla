------------------------------ MODULE Supervision ------------------------------
(***************************************************************************)
(* queue-api: the panels of a company's supervisor, computed from one      *)
(* snapshot of the trackers: the summary of 20 measures, its 20 diagnoses  *)
(* (supervision_summary.py, supervision_diagnostics.py), the 50 of the     *)
(* cockpit (call_center_cockpit.py) and the health of the queues.          *)
(***************************************************************************)
EXTENDS Integers, Sequences, FiniteSets, SequencesExt, FiniteSetsExt, TLC

CONSTANTS SupervisedCompanies,
          WaitLimit,     \* SLA_THRESHOLD_SECONDS
          None           \* not measured

\* What the panels of each company show, None before they are asked for.  They are made of
\* one snapshot: waiting, rows of calls; hints, rows of extensions; sla, queue to counters;
\* and of each company its missed calls, alerts, poor reports, pauses and absences.
VARIABLE panels

----------------------------------------------------------------------------
(* Arithmetic.                                                             *)

\* round: to the nearest unit of 1/scale.  A tie, which the binary fractions of Python
\* break either way, goes up.
Rounded(p, n, scale) == (2 * scale * p + n) \div (2 * n)
Percent(p, n) == IF n = 0 \/ p > n THEN 0 ELSE Rounded(100 * p, n, 10)  \* in tenths
Percentage(p, n) == IF n = 0 THEN None ELSE Rounded(100 * p, n, 100)    \* in hundredths
CeilDiv(a, b) == (a + b - 1) \div b
AtLeast0(n) == IF n < 0 THEN 0 ELSE n

HowMany(rows, P(_)) == Len(SelectSeq(rows, P))
Added(values) == FoldSeq(LAMBDA v, n : v + n, 0, values)
Ordered(values) == SortSeq(values, LAMBDA a, b : a < b)
Mean(values, scale) == IF values = <<>> THEN None ELSE Rounded(Added(values), Len(values), scale)
\* Twice the median, which may be half an integer.
Median2(values) ==
  LET v == Ordered(values)
      n == Len(v)
  IN  IF n = 0 THEN None ELSE v[(n + 1) \div 2] + v[(n + 2) \div 2]

\* Mutant: the rank is rounded down.
PercentileBelow(values, p) ==
  IF values = <<>> THEN None ELSE values[Max({1, (p * Len(values)) \div 100})]

\* Nearest rank.
Percentile(values, p) == IF values = <<>> THEN None ELSE values[CeilDiv(p * Len(values), 100)]

----------------------------------------------------------------------------
(* The summary and its diagnoses.                                          *)

Mine(rows, t) == SelectSeq(rows, LAMBDA row : row.tenant = t)
Ages(s, t) == LET calls == Mine(s.waiting, t) IN [i \in DOMAIN calls |-> calls[i].age]
Depths(s, t) == LET calls == Mine(s.waiting, t)
                IN  [q \in {calls[i].queue : i \in DOMAIN calls} |->
                       HowMany(calls, LAMBDA c : c.queue = q)]

Overview(s, t) ==
  LET ages == Ages(s, t)
      hints == Mine(s.hints, t)
      labelled(labels) == HowMany(hints, LAMBDA h : h.label \in labels)
      observed == {q \in DOMAIN s.sla : s.sla[q].tenant = t /\ s.sla[q].offered > 0}
      offered == MapThenSumSet(LAMBDA q : s.sla[q].offered, observed)
      within == MapThenSumSet(LAMBDA q : s.sla[q].within, observed)
  IN  [waiting_calls |-> Len(ages), queues_with_waiting |-> Cardinality(DOMAIN Depths(s, t)),
       waiting_above_sla_threshold |-> HowMany(ages, LAMBDA a : a > WaitLimit),
       waiting_over_60_seconds |-> HowMany(ages, LAMBDA a : a > 60),
       longest_wait_seconds |-> IF ages = <<>> THEN None ELSE Last(Ordered(ages)),
       monitored_extensions |-> Len(hints), free_extensions |-> labelled({"livre"}),
       ringing_extensions |-> labelled({"tocando"}),
       busy_extensions |-> labelled({"em uso", "ocupado"}),
       unavailable_extensions |-> labelled({"indisponivel"}),
       offered_calls |-> offered, within_sla_calls |-> within, outside_sla_calls |-> offered - within,
       weighted_sla_percent |-> IF offered = 0 THEN None ELSE Percent(within, offered),
       queues_below_reference_80 |->
         Cardinality({q \in observed : s.sla[q].within * 5 < s.sla[q].offered * 4}),
       missed_events_in_buffer |-> s.missed[t], fraud_alerts_in_buffer |-> s.fraud[t],
       poor_quality_samples_in_buffer |-> s.poor[t], paused_agents_snapshot |-> s.paused[t],
       manual_absent_overrides |-> s.absent[t]]

Rule(metric, kind, limit) == [metric |-> metric, kind |-> kind, limit |-> limit,
                              base |-> "none", minimum |-> 0]
Over(rule, base, minimum) == [rule EXCEPT !.base = base, !.minimum = minimum]
\* OP-01 to OP-20.  The limit of OP-12 is in tenths of a percent.
RULES ==
  <<Rule("waiting_calls", "gte", 10), Rule("queues_with_waiting", "gte", 3),
    Rule("waiting_above_sla_threshold", "gte", 3), Rule("waiting_over_60_seconds", "gte", 1),
    Rule("longest_wait_seconds", "gte", 180), Rule("monitored_extensions", "zero", 0),
    Over(Rule("free_extensions", "zero", 0), "monitored_extensions", 1),
    Rule("ringing_extensions", "gte", 5),
    Over(Rule("busy_extensions", "ratio_gte", 80), "monitored_extensions", 5),
    Rule("unavailable_extensions", "gte", 3), Rule("offered_calls", "sample", 0),
    Over(Rule("weighted_sla_percent", "lt", 800), "offered_calls", 10),
    Over(Rule("outside_sla_calls", "gte", 10), "offered_calls", 1),
    Over(Rule("queues_below_reference_80", "gte", 2), "offered_calls", 1),
    Over(Rule("outside_sla_calls", "ratio_gte", 30), "offered_calls", 10),
    Rule("missed_events_in_buffer", "gte", 10), Rule("fraud_alerts_in_buffer", "gte", 1),
    Rule("poor_quality_samples_in_buffer", "gte", 3), Rule("paused_agents_snapshot", "gte", 5),
    Rule("manual_absent_overrides", "gte", 5)>>

Alarming(rule, measured, base) ==
  CASE rule.kind = "zero" -> measured = 0
    [] rule.kind = "gte" -> measured >= rule.limit
    [] rule.kind = "lt" -> measured < rule.limit
    [] rule.kind = "ratio_gte" -> base > 0 /\ measured * 100 >= rule.limit * base
Diagnosis(o, rule) ==
  LET measured == o[rule.metric]
      base == IF rule.base = "none" THEN 0 ELSE o[rule.base]
  IN  IF measured = None \/ base < rule.minimum THEN "unknown"
      ELSE IF rule.kind = "sample" THEN IF measured > 0 THEN "normal" ELSE "unknown"
      ELSE IF Alarming(rule, measured, base) THEN "attention" ELSE "normal"
Diagnostics(o) == [i \in DOMAIN RULES |-> Diagnosis(o, RULES[i])]

----------------------------------------------------------------------------
(* The cockpit, which counts the waiting calls again.                      *)

Signal(condition) == IF condition THEN 1 ELSE 0
Refused == [status |-> 503]
Contradictory(o) ==
  \/ o.within_sla_calls > o.offered_calls
  \/ o.free_extensions + o.busy_extensions + o.ringing_extensions + o.unavailable_extensions
       > o.monitored_extensions

CockpitQueue(s, t) ==
  LET ages == Ordered(Ages(s, t))
      depths == Depths(s, t)
      between(low, high) == HowMany(ages, LAMBDA a : low <= a /\ a < high)
      above(n) == HowMany(ages, LAMBDA a : a > n)
  IN  [aguardando |-> Len(ages), filas_ativas |-> Cardinality(DOMAIN depths),
       maior_espera |-> IF ages = <<>> THEN None ELSE Last(ages),
       espera_media |-> Mean(ages, 100), espera_mediana |-> Median2(ages),
       espera_p90 |-> Percentile(ages, 90), espera_p95 |-> Percentile(ages, 95),
       acima_limiar |-> above(WaitLimit), acima_60s |-> above(60), acima_120s |-> above(120),
       faixa_0_19s |-> between(0, 20), faixa_20_59s |-> between(20, 60),
       faixa_60_119s |-> between(60, 120), faixa_120s_mais |-> HowMany(ages, LAMBDA a : a >= 120),
       maior_backlog_fila |-> Max({0} \cup {depths[q] : q \in DOMAIN depths})]

CockpitTeam(o, backlog) ==
  LET monitored == o.monitored_extensions
      free == o.free_extensions
  IN  [percentual_livre |-> Percentage(free, monitored),
       percentual_ocupado |-> Percentage(o.busy_extensions, monitored),
       percentual_indisponivel |-> Percentage(o.unavailable_extensions, monitored),
       percentual_pausado |-> Percentage(o.paused_agents_snapshot, monitored),
       percentual_ausente |-> Percentage(o.manual_absent_overrides, monitored),
       espera_por_livre |-> IF free = 0 THEN None ELSE Rounded(backlog, free, 100),
       reforco_referencia |-> AtLeast0(CeilDiv(backlog, 3) - free),
       sem_livres |-> Signal(backlog > 0 /\ free = 0)]

CockpitSla(o) ==
  LET offered == o.offered_calls
      within == o.within_sla_calls
      rate == Percentage(within, offered)
  IN  [sla_percentual |-> rate, sla_desvio |-> IF rate = None THEN None ELSE rate - 8000,
       percentual_fora |-> Percentage(o.outside_sla_calls, offered),
       faltantes_ao_alvo |-> AtLeast0(CeilDiv(80 * offered, 100) - within),
       perfeitas_recuperacao |-> IF offered = 0 THEN None
                                 ELSE CeilDiv(AtLeast0(80 * offered - 100 * within), 20)]

CockpitSignals(o, backlog, ages, rate) ==
  LET missed == o.missed_events_in_buffer
      fraud == o.fraud_alerts_in_buffer
      poor == o.poor_quality_samples_in_buffer
      risks == [alerta_fila |-> Signal(backlog >= 10 \/ \E i \in DOMAIN ages : ages[i] > 120),
                alerta_equipe |-> IF o.monitored_extensions = 0 THEN None
                                  ELSE Signal(backlog > 0 /\ o.free_extensions = 0),
                alerta_sla |-> IF o.offered_calls < 10 THEN None ELSE Signal(rate < 8000),
                alerta_qualidade |-> Signal(fraud > 0 \/ poor > 0)]
  IN  risks @@ [sinais_buffer |-> missed + fraud + poor,
                categorias_sinalizadas |-> Signal(missed > 0) + Signal(fraud > 0) + Signal(poor > 0),
                categorias_em_alerta |-> IF \E k \in DOMAIN risks : risks[k] = None THEN None
                                         ELSE MapThenSumSet(LAMBDA k : risks[k], DOMAIN risks)]

\* The measures of the summary that the cockpit repeats as they are stay in the summary.
Cockpit(s, t) ==
  LET o == Overview(s, t)
      queue == CockpitQueue(s, t)
      sla == CockpitSla(o)
  IN  IF Contradictory(o) THEN Refused
      ELSE queue @@ CockpitTeam(o, queue.aguardando) @@ sla
             @@ CockpitSignals(o, queue.aguardando, Ages(s, t), sla.sla_percentual)

TakeSnapshot(s) ==
  panels' = [t \in SupervisedCompanies |->
               LET o == Overview(s, t)
               IN  [ages |-> Ages(s, t), overview |-> o, diagnoses |-> Diagnostics(o),
                    cockpit |-> Cockpit(s, t)]]

----------------------------------------------------------------------------
(* Properties.                                                             *)

Least(k, P(_)) == P(k) /\ \A j \in 0..(k - 1) : ~P(j)
NearestRank(v, ages, p) ==
  /\ v \in Range(ages)
  /\ HowMany(ages, LAMBDA a : a <= v) * 100 >= p * Len(ages)
  /\ HowMany(ages, LAMBDA a : a < v) * 100 < p * Len(ages)
Attends(panel, n) == panel.diagnoses[n] = "attention"

\* The panels of one snapshot agree, and their numbers mean what they are called: every
\* waiting call is in one band; a percentile is the least wait that so many callers do not
\* exceed; the calls missing to the 80 %, the perfect calls to win it back and the
\* reinforcement are the least that do.  Both panels speak of the service level only when
\* it really is below 80 %, and the cockpit, which rounds less, whenever the diagnosis does
\* (the 79,95 to 79,995 % that the diagnosis rounds up are an alarm of the cockpit alone).
\* Without a sample no rule about performance is normal.
PanelsConcur ==
  panels # None => \A t \in SupervisedCompanies :
    LET panel == panels[t]
        o == panel.overview
        c == panel.cockpit
        ages == panel.ages
        offered == o.offered_calls
        within == o.within_sla_calls
    IN  /\ c # Refused
        /\ c.faixa_0_19s + c.faixa_20_59s + c.faixa_60_119s + c.faixa_120s_mais = o.waiting_calls
        /\ c.acima_limiar = o.waiting_above_sla_threshold /\ c.maior_espera = o.longest_wait_seconds
        /\ o.waiting_calls <= c.maior_backlog_fila * o.queues_with_waiting
        /\ ages # <<>> => NearestRank(c.espera_p90, ages, 90) /\ NearestRank(c.espera_p95, ages, 95)
        /\ Least(c.reforco_referencia, LAMBDA r : c.aguardando <= 3 * (o.free_extensions + r))
        /\ Least(c.faltantes_ao_alvo, LAMBDA k : (within + k) * 100 >= 80 * offered)
        /\ offered > 0 => Least(c.perfeitas_recuperacao,
                                LAMBDA k : (within + k) * 100 >= 80 * (offered + k))
        /\ offered >= 10 => /\ Attends(panel, 12) => c.alerta_sla = 1
                            /\ c.alerta_sla = 1 => within * 5 < offered * 4
                            /\ within * 5 < offered * 4 /\ ~Attends(panel, 12) => o.weighted_sla_percent = 800
        /\ o.queues_below_reference_80 = 0 /\ offered > 0 => c.faltantes_ao_alvo = 0
        /\ c.alerta_equipe = 1 => Attends(panel, 7)
        /\ Attends(panel, 1) \/ Attends(panel, 5) => c.alerta_fila = 1
        /\ offered = 0 => \A n \in 11..15 : panel.diagnoses[n] = "unknown"
        /\ o.monitored_extensions = 0 => panel.diagnoses[7] = "unknown" /\ c.alerta_equipe = None
===============================================================================
