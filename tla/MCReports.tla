------------------------------- MODULE MCReports -------------------------------
(***************************************************************************)
(* Snapshots and files for the panels and the local reports: small ones    *)
(* around a usual row, and those at the limits of each measure.            *)
(***************************************************************************)
EXTENDS Insights

CONSTANTS u1, u2   \* two companies

MCAgentCompany == 1 :> u1 @@ 2 :> u1 @@ 3 :> u2
MCQueueOwner == 1 :> u1 @@ 2 :> u1 @@ 3 :> u2

\* The row with one field changed, or none.
Vary(row, choices) ==
  {row} \cup UNION {{[row EXCEPT ![f] = v] : v \in choices[f]} : f \in DOMAIN choices}
VaryTwice(row, choices) == UNION {Vary(r, choices) : r \in Vary(row, choices)}
UpTo(n, S) == UNION {[1..k -> S] : k \in 0..n}
SmallFiles(row, choices) ==
  UpTo(3, Vary(row, choices)) \cup {<<a, b>> : a \in VaryTwice(row, choices), b \in Vary(row, choices)}

----------------------------------------------------------------------------
Quiet == [waiting |-> <<>>, hints |-> <<>>, sla |-> <<>>, missed |-> u1 :> 0 @@ u2 :> 0,
          fraud |-> u1 :> 0 @@ u2 :> 0, poor |-> u1 :> 0 @@ u2 :> 0, paused |-> u1 :> 0 @@ u2 :> 0,
          absent |-> u1 :> 0 @@ u2 :> 0]
Call(t, q, age) == [tenant |-> t, queue |-> q, age |-> age]
Ramp(n) == [i \in 1..n |-> Call(u1, 1, 6 * (i - 1))]
Labels(label, n) == [i \in 1..n |-> [tenant |-> u1, label |-> label]]
Served(t, offered, within) == [tenant |-> t, offered |-> offered, within |-> within]
OfferedWithin == {ow \in (0..12) \X (0..12) : ow[2] <= ow[1]} \cup {<<2001, 1600>>, <<2001, 1601>>}
Edges == {0, 19, 20, 21, 59, 60, 61, 119, 120, 121, 180}
Snapshots ==
  {[Quiet EXCEPT !.waiting = Ramp(n)] : n \in 0..21}
  \cup {[Quiet EXCEPT !.waiting = <<Call(u1, 1, a), Call(t, q, b)>>] :
          a \in Edges, b \in Edges, t \in {u1, u2}, q \in 1..2}
  \cup {[Quiet EXCEPT !.waiting = Ramp(n), !.hints = Labels("livre", f) \o Labels("ocupado", b)
                                                     \o Labels("tocando", r) \o Labels("outro", 1)] :
          n \in 0..7, f \in 0..3, b \in {0, 4, 5}, r \in {0, 5}}
  \cup {[Quiet EXCEPT !.sla = 1 :> Served(u1, ow[1], ow[2]) @@ 2 :> Served(t, o, w)] :
          ow \in OfferedWithin, t \in {u1, u2}, o \in {10}, w \in {7, 8, 10}}
  \cup {[Quiet EXCEPT !.sla = 1 :> Served(u1, ow[1], ow[2])] : ow \in OfferedWithin}
  \cup {[Quiet EXCEPT !.missed[u1] = m, !.fraud[u1] = f, !.poor[u1] = p, !.paused[u1] = m, !.absent[u1] = m] :
          m \in {0, 4, 5, 10}, f \in 0..1, p \in {0, 2, 3}}

----------------------------------------------------------------------------
CallFiles ==
  SmallFiles([tenant |-> u1, date |-> 1, disposition |-> "ANSWERED", operator |-> 1, seconds |-> 60],
             [tenant |-> {u2}, date |-> {2, 8, 31, Bad}, disposition |-> {"BUSY", "NO ANSWER", "blank", Bad},
              operator |-> {None, 2, 3}, seconds |-> {None, Bad, 0, 301}])

Offer1(d, q, o, w) == [date |-> d, queue |-> q, offered |-> o, within |-> w]
\* Each of five days in a row was good, bad, or not measured.
FiveDays == {FlattenSeq([d \in 1..5 |-> IF m[d] = 0 THEN <<>> ELSE <<Offer1(d, 1, 10, 6 + m[d])>>]) :
               m \in [1..5 -> 0..2]}
SlaFiles == FiveDays \cup UpTo(2, {Offer1(d, q, ow[1], ow[2]) : d \in {1, 2, 31, Bad}, q \in 1..3,
                                   ow \in {<<1, 1>>, <<10, 7>>, <<20, 14>>, <<0, 0>>, <<2, 3>>}})

CallbackFiles ==
  UpTo(2, VaryTwice([tenant |-> u1, status |-> "pendente", attempts |-> 0, at |-> AsOf],
                    [tenant |-> {u2}, status |-> {"concluido", "discando", "revisao_manual"},
                     attempts |-> 1..3,
                     at |-> {Bad, AsOf + 1} \cup {AsOf - n : n \in {299, 300, 3600, 7200, 86400, 172800}}]))

Contact(status, attempts) == [status |-> status, attempts |-> attempts]
SomeContacts == {Contact(s, n) : s \in ContactStatuses \cup {"revisao_manual"}, n \in {0, 1, 3, 4}}
Campaign(t, x, contacts) == [tenant |-> t, agent |-> x, contacts |-> contacts]
CampaignFiles ==
  {<<Campaign(u1, 1, c)>> : c \in UpTo(2, SomeContacts)}
  \cup {<<Campaign(u1, 1, <<a>>), Campaign(t, x, <<b>>)>> :
          a, b \in {Contact("atendida", 1), Contact("pendente", 1)}, t \in {u1, u2}, x \in 1..3}

PauseFiles ==
  SmallFiles([agent |-> 1, duration |-> 300, reason |-> "almoco", started |-> AsOf],
             [agent |-> {2, 3, Bad}, duration |-> {None, Bad, 0, 301, 1801},
              reason |-> {None, Bad, "banheiro", "cafe"}, started |-> {Bad, 0}])
PresenceFiles ==
  UpTo(2, VaryTwice([agent |-> 1, status |-> "ausente", at |-> AsOf],
                    [agent |-> {2, 3, Bad}, status |-> {"ferias", "outro"},
                     at |-> {Bad, AsOf + 1, AsOf - 7 * DaySeconds}]))

Sample(x, jitter, loss, rtt) == [agent |-> x, jitter |-> jitter, loss |-> loss, rtt |-> rtt]
QualityFiles ==
  SmallFiles(Sample(1, 31, 0, 10),
             [agent |-> {2, 3, Bad}, jitter |-> {None, 30, 40}, loss |-> {None, 3, 4}, rtt |-> {None, 20}])
  \cup {[i \in 1..n |-> Sample(1, i, None, None)] : n \in 1..41}
  \cup {[i \in 1..7 |-> Sample(IF i <= 3 THEN 1 ELSE 2, IF i \in bad THEN 31 ELSE 0, None, None)] :
          bad \in SUBSET (1..7)}
SurveyFiles ==
  SmallFiles([tenant |-> u1, date |-> 1, operator |-> 1, score |-> 5],
             [tenant |-> {u2}, date |-> {2, 8, 31, Bad}, operator |-> {None, 2, 3}, score |-> {Bad, 2, 3, 4}])

Files == [calls |-> CallFiles, sla |-> SlaFiles, callbacks |-> CallbackFiles, campaigns |-> CampaignFiles,
          pauses |-> PauseFiles, presence |-> PresenceFiles, quality |-> QualityFiles, survey |-> SurveyFiles]
===============================================================================
